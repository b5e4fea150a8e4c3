------------------------------ MODULE MCServices ------------------------------
(***************************************************************************)
(* The services beside the workflow core, model-checked side by side: they *)
(* share no state, so a behaviour is a behaviour of one of them, chosen at *)
(* the start, while the others stay in their initial state.                *)
(***************************************************************************)
EXTENDS GovernanceFreeze, GovernancePolicies, GovernanceDecisions, AIExecution,
        WorkflowEventOrder, VoiceIngest, SophiaConversation, WorkflowRetries, RealtimeSessions, EventStore,
        AuthSessions, Transcripts, ResearchTasks, ResearchGraph, ResearchStore,
        OperatorSessions, WorkflowIntegrity, ContextWindow, ContextSnapshots, GovernanceEvaluation,
        WorkflowReports, TranscriptReaders, TranscriptRetention, ResearchPlans,
        ResearchSafety, LeadDesk, NoticeFeed

VARIABLE part    \* the service whose behaviour this is

serviceVars ==
  <<part, freezeVars, policyVars, decisionVars, aiVars, orderVars, ingestVars, sophiaVars,
    retryVars, realtimeVars, storeVars, authVars, transcriptVars, researchVars,
    graphVars, noteVars, operatorVars, integrityVars, windowVars, snapshotVars,
    evaluationVars, reportVars, readersVars, retentionVars, planVars, safetyVars,
    deskVars, takerVars, noticeVars>>

Init ==
  /\ part \in {"freeze", "policies", "decisions", "executions", "order", "ingest",
               "sophia", "retries", "realtime", "events", "auth", "transcripts",
               "research", "graph", "notes", "operators", "integrity", "windows",
               "snapshots", "evaluation", "reports", "readers", "retention", "plans",
               "safety", "desk", "creation", "notices"}
  /\ FreezeInit
  /\ PolicyInit
  /\ DecisionInit
  /\ AIInit
  /\ OrderInit
  /\ IngestInit
  /\ SophiaInit
  /\ RetryInit
  /\ RealtimeInit
  /\ StoreInit
  /\ AuthInit
  /\ TranscriptInit
  /\ ResearchInit
  /\ GraphInit
  /\ NoteInit
  /\ OperatorInit
  /\ IntegrityInit
  /\ WindowInit
  /\ SnapshotInit
  /\ EvaluationInit
  /\ ReportInit
  /\ ReadersInit
  /\ RetentionInit
  /\ PlanInit
  /\ SafetyInit
  /\ DeskInit
  /\ TakerInit
  /\ NoticeInit
  /\ part = "readers" \/ audience = "consumer"

\* A service other than the chosen one does nothing.
Rests(service, vars) == IF part = service THEN TRUE ELSE UNCHANGED vars

Next ==
  /\ UNCHANGED part
  /\ Rests("freeze", freezeVars)
  /\ Rests("policies", policyVars)
  /\ Rests("decisions", decisionVars)
  /\ Rests("executions", aiVars)
  /\ Rests("order", orderVars)
  /\ Rests("ingest", ingestVars)
  /\ Rests("sophia", sophiaVars)
  /\ Rests("retries", retryVars)
  /\ Rests("realtime", realtimeVars)
  /\ Rests("events", storeVars)
  /\ Rests("auth", authVars)
  /\ Rests("transcripts", transcriptVars)
  /\ Rests("research", researchVars)
  /\ Rests("graph", graphVars)
  /\ Rests("notes", noteVars)
  /\ Rests("operators", operatorVars)
  /\ Rests("integrity", integrityVars)
  /\ Rests("windows", windowVars)
  /\ Rests("snapshots", snapshotVars)
  /\ Rests("evaluation", evaluationVars)
  /\ Rests("reports", reportVars)
  /\ Rests("readers", readersVars)
  /\ Rests("retention", retentionVars)
  /\ Rests("plans", planVars)
  /\ Rests("safety", safetyVars)
  /\ Rests("desk", deskVars)
  /\ Rests("creation", takerVars)
  /\ Rests("notices", noticeVars)
  /\ \/ part = "freeze" /\ FreezeNext
     \/ part = "policies" /\ PolicyNext
     \/ part = "decisions" /\ DecisionNext
     \/ part = "executions" /\ AINext
     \/ part = "order" /\ OrderNext
     \/ part = "ingest" /\ IngestNext
     \/ part = "sophia" /\ SophiaNext
     \/ part = "retries" /\ RetryNext
     \/ part = "realtime" /\ RealtimeNext
     \/ part = "events" /\ StoreNext
     \/ part = "auth" /\ AuthNext
     \/ part = "transcripts" /\ TranscriptNext
     \/ part = "research" /\ ResearchNext
     \/ part = "graph" /\ GraphNext
     \/ part = "notes" /\ NoteNext
     \/ part = "operators" /\ OperatorNext
     \/ part = "integrity" /\ IntegrityNext
     \/ part = "windows" /\ WindowNext
     \/ part = "snapshots" /\ SnapshotNext
     \/ part = "evaluation" /\ EvaluationNext
     \/ part = "reports" /\ ReportNext
     \/ part = "readers" /\ ReadersNext
     \/ part = "retention" /\ RetentionNext
     \/ part = "plans" /\ PlanNext
     \/ part = "safety" /\ SafetyNext
     \/ part = "desk" /\ DeskNext
     \/ part = "creation" /\ TakerNext
     \/ part = "notices" /\ NoticeNext

Spec == Init /\ [][Next]_serviceVars

-----------------------------------------------------------------------------

\* What holds of a service at rest holds of the initial state of its own
\* behaviours, so a property is asked where its service is the chosen one.

\* The type invariants of all the services.
ServicesTypeOK ==
  /\ part = "freeze" => FreezeTypeOK
  /\ part = "policies" => PolicyTypeOK
  /\ part = "decisions" => DecisionTypeOK
  /\ part = "executions" => AITypeOK
  /\ part = "order" => OrderTypeOK
  /\ part = "ingest" => IngestTypeOK
  /\ part = "sophia" => SophiaTypeOK
  /\ part = "retries" => RetryTypeOK
  /\ part = "realtime" => RealtimeTypeOK
  /\ part = "events" => StoreTypeOK
  /\ part = "auth" => AuthTypeOK
  /\ part = "transcripts" => TranscriptTypeOK
  /\ part = "research" => ResearchTypeOK
  /\ part = "graph" => GraphTypeOK
  /\ part = "notes" => NoteTypeOK
  /\ part = "operators" => OperatorTypeOK
  /\ part = "integrity" => IntegrityTypeOK
  /\ part = "windows" => WindowTypeOK
  /\ part = "snapshots" => SnapshotTypeOK
  /\ part = "evaluation" => EvaluationTypeOK
  /\ part = "reports" => ReportTypeOK
  /\ part = "readers" => ReadersTypeOK
  /\ part = "retention" => RetentionTypeOK
  /\ part = "plans" => PlanTypeOK
  /\ part = "safety" => SafetyTypeOK
  /\ part = "desk" => DeskTypeOK
  /\ part = "creation" => TakerTypeOK
  /\ part = "notices" => NoticeTypeOK

\* A message counts once whatever the order in which its reports arrive, a lead
\* keeps what operators confirmed and exists once, and a client that reads the feed to
\* its end has missed no more than what was added while it read.
IntakeSound ==
  /\ part = "ingest" => OutcomeIsOrderFree
  /\ part = "desk" => FieldsKeepApart
  /\ part = "creation" => OneRowPerKey
  /\ part = "notices" => FeedSound

\* A turn of a conversation counts once, a transcript's log tells its state, its
\* readers miss nothing of it and retention removes only what it may.
ConversationSound ==
  /\ part = "sophia" => EachTurnCountsOnce
  /\ part = "transcripts" => LogTellsState
  /\ part = "readers" => ReadersSound
  /\ part = "retention" => RetentionSafe

\* A step is retried as often as allowed, and a report on a workflow finds what is
\* wrong with it all the while, the state only if the row was not written meanwhile.
MaintenanceSound ==
  /\ part = "retries" => RetryLadder
  /\ part = "reports" => FaultsAreReported

\* The event log tells the state of its workflow, and a client that replays it
\* loses nothing.
EventLogSound ==
  /\ part = "order" => ReplayDerivesState
  /\ part = "events" => ReplayLosesNothing

\* The counters of a job are what its tasks cost, an order of its graph puts no task
\* before what it depended on when it was asked for, a plan is on record as its events
\* tell, and the budget is passed by no more than what was charged unchecked or
\* checked beside others.
ResearchSound ==
  /\ part = "research" => JobCountersMatch
  /\ part = "graph" => OrderIsSound
  /\ part = "plans" => PlanOnRecord
  /\ part = "safety" => SafetySound

\* A context window keeps what its strategy promises, and the cache shows what
\* is on record.
ContextSound ==
  /\ part = "windows" => WindowSound
  /\ part = "snapshots" => CacheAgrees

\* What the policies in force say is applied, the most restrictive first.
RulingsSound == part = "evaluation" => EvaluationSound

-----------------------------------------------------------------------------

\* Of the sets of interchangeable clients, tasks and requests, those that hold the
\* sweepers' two model values hold both, and no definition tells the two apart.
Symmetry == Permutations(Sweeper)

-----------------------------------------------------------------------------
(* What the adapters of a context deliver: items of several layers, of equal *)
(* and different priority, age and size.                                     *)

Item(id, layer, priority, created, tokens, source) ==
  [id |-> id, layer |-> layer, priority |-> priority, created |-> created,
   tokens |-> tokens, source |-> source]

MCItem ==
  {Item(1, "system", 0, 1, 2, "a"), Item(2, "workflow", 2, 1, 1, "b"),
   Item(3, "transcript", 1, 2, 2, "c"), Item(4, "transcript", 1, 3, 1, "c"),
   Item(5, "ai_execution", 0, 3, 3, "d")}

\* Up to three of them in any order, or all in two orders.
MCBatch ==
  UNION {{b \in [1..n -> MCItem] : \A i, j \in 1..n : b[i] = b[j] => i = j} : n \in 0..3}
  \cup {SetToSortSeq(MCItem, LAMBDA i, j : i.id < j.id),
        SetToSortSeq(MCItem, LAMBDA i, j : i.id > j.id)}

-----------------------------------------------------------------------------
(* Policies: two versions of one, a chain of inheritance, one on its own.    *)

Rule(key, version, patterns, inherits, class) ==
  [key |-> key, version |-> version, patterns |-> patterns, inherits |-> inherits,
   class |-> class]

MCPolicyRow ==
  {Rule("base", 1, {"a"}, "none", 1), Rule("base", 2, {"a", "b"}, "none", 0),
   Rule("mid", 1, {}, "base", 2), Rule("mid", 2, {"b"}, "base", 3),
   Rule("leaf", 1, {}, "mid", 3), Rule("alone", 1, {"a"}, "none", 3)}
=============================================================================
