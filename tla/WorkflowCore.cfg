SPECIFICATION Spec
CONSTANTS
  NoStep = NoStep
  Workflow = {w1}
  Session = {s1, s2}
  Step = {a, b}
  MaxEvents = 5
SYMMETRY Symmetry
INVARIANTS
  TypeOK
  EventSourced
  ReplayFaithful
  RollbackAnnounced
PROPERTIES
  TerminalDrains
  FreezeDrains
