SPECIFICATION SyncSpec
CONSTANTS
  RequestId = {1, 2}
  SyncWorker = {w1, w2}
  Snapshot <- MCSnapshot
  MaxTries = 2
  MaxCommands = 2
  MaxCrash = 1
INVARIANTS
  EvidenceIsNewest
  NoPostAfterDecision
PROPERTIES
  PendingIsSettled
\* With nothing left to stage, to send or to receive, the model stops.
CHECK_DEADLOCK FALSE
