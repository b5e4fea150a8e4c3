SPECIFICATION OrderSpec
CONSTANTS
  NoStep = NoStep
  Session = {s1, s2}
  Step = {a, b}
  EventClock = "now"
  MaxClock = 9
INVARIANTS
  ReplayDerivesState
