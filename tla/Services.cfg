SPECIFICATION Spec
CONSTANTS
  FreezeKey = {k1}
  Scope = {Global, s}
  Global = Global
  Gatekeeper = {z1, z2}
  PolicyAdmin = {z1, z2}
  MaxVersion = 4
  Request = {z1, z2, q3}
  GovernedApproval = {a1}
  Voter = {v1, v2}
  OverrideKey = {k1}
  DelegationKey = {d1}
  Required = 2
  Execution = {z1, z2}
  ToolApproval = {p1, p2}
  NoApproval = NoApproval
  MaxAttempts = {0, 2}
  NoStep = NoStep
  Session = {z1, z2}
  Step = {a, b}
  EventClock = "clock_timestamp"
  MaxClock = 9
  Speaker = {"user", "sophia"}
  TurnIndex = {0, 1}
  Body = {b1, b2}
  MaxReceipts = 5
  Turn = {t1, t2}
  Canceller = {c1}
  Scheduler = {z1, z2}
  MaxRetries = 2
  MaxInserts = 4
  Socket = {s1}
  Channel = {A, B}
  Writer = {z1, z2}
  LogChannel = {A, B}
  EventId = {e1, e2, e3}
  PageLimit = 2
  MaxReplay = 2
  AuthRequest = {z1, z2}
  Sid = {s1}
  MaxIssued = 3
  MaxTickets = 1
  Stream = {s1}
  MaxSequence = 4
  MaxChunkIndex = 2
  Task = {t1, t2}
  Tokens = {1, 2}
  MaxTaskRetries = 1
  Node = {t1, t2, t3}
  Sorter = {q1}
  Scribe = {z1, z2}
  OperatorSession = {s1}
  Terminator = {z1, z2}
  LastBeat = 2
  Sweeper = {z1, z2}
  Leased = {w1}
  Hand = {h1}
  LastStep = 1
  ContextItem <- MCItem
  ItemBatch <- MCBatch
  Protected = {"system"}
  TokenBudget = {0, 3, 5}
  ItemLimit = {0, 2}
  AssemblyKey = {k1}
  Assembler = {z1, z2}
  Retainer = {r1, r2}
  Budget = {1, 2}
  Enforcer = {e1}
  Deed = {"a", "b"}
  MaxRows = 3
  PolicyRow <- MCPolicyRow
  Reporter = {r1}
  MaxCommits = 3
  Penman = {z1, z2}
  Consumer = {z1, z2}
  MaxIndex = 2
  FetchLimit = 2
  PageSize = 1
  Archivist = {z1, z2}
  MaxShelfLog = 7
  Author = {z1, z2, a3}
  MaxRevision = 3
  Runner = {z1, z2}
  Watcher = {w1}
  Cost = {1, 2}
  MaxTokens = 2
  MaxUnchecked = 2
  Timeout = 1
  MaxTicks = 2
  Desk = {z1, z2}
  Taker = {z1, z2}
  Payload = {p1, p2}
  MaxConverted = 2
  Sender = {z1, z2}
  Marker = {m1}
  Pager = {p1}
  FeedPage = 1
  MaxNotices = 2
SYMMETRY Symmetry
INVARIANTS
  ServicesTypeOK
  GateHonest
  DecisionsOnRecord
  RulingsSound
  AttemptsBounded
  OneReleasePerApproval
  IntakeSound
  ConversationSound
  MaintenanceSound
  NothingLeftBehind
  EventLogSound
  OneLiveRefresh
  ResearchSound
  ContextSound
PROPERTIES
  ImplementsGate
  GovernanceMovesForward
  RecoveryIsSafe
CHECK_DEADLOCK FALSE
