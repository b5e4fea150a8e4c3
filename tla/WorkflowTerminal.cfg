SPECIFICATION Spec
CONSTANTS
  NoStep = NoStep
  Workflow = {w1}
  Session = {s1, s2}
  Step = {a}
  MaxEvents = 4
PROPERTIES
  TerminalIsAbsorbing
