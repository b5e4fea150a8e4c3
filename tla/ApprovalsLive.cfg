SPECIFICATION ASpec
CONSTANTS
  NoStep = NoStep
  Workflow = {w1}
  Session = {s1}
  Step = {}
  MaxEvents = 4
  Approval = {p1, p2}
  ApprovalType = {t1}
PROPERTIES
  OverdueIsSettled
