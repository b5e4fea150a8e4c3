SPECIFICATION ASpec
CONSTANTS
  NoStep = NoStep
  Workflow = {w1}
  Session = {s1}
  Step = {}
  MaxEvents = 5
  Approval = {p1, p2}
  ApprovalType = {t1, t2}
SYMMETRY Symmetry
INVARIANTS
  ApprovalTypeOK
  EventSourced
  ResolutionsSound
PROPERTIES
  DecisionsAreFinal
