SPECIFICATION ASpec
CONSTANTS
  NoStep = NoStep
  Workflow = {w1}
  Session = {s1}
  Step = {a}
  MaxEvents = 4
  Approval = {p1}
  ApprovalType = {t1}
INVARIANTS
  PendingMeansPaused
