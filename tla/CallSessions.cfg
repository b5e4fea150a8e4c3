SPECIFICATION Spec
CONSTANTS
  Nobody = Nobody
  Participant = {p1, p2, p3}
  Txn = {t1, t2}
  MaxEvents = 7
SYMMETRY Symmetry
INVARIANTS
  TypeOK
  NoGaps
  SessionReplay
  ParticipantReplay
CHECK_DEADLOCK FALSE
