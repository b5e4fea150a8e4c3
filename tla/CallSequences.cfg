SPECIFICATION Spec
CONSTANTS
  Nobody = Nobody
  Participant = {p1, p2}
  Txn = {t1, t2, t3}
  MaxEvents = 6
SYMMETRY Symmetry
INVARIANTS
  SequencesUnique
CHECK_DEADLOCK FALSE
