-------------------------- MODULE MCServicesProofs --------------------------
(***************************************************************************)
(* Proofs about the suite MCServices for every value of its constants: the *)
(* sections of ServiceProofs and RecordProofs, put together into the       *)
(* properties that the suite asks.                                         *)
(***************************************************************************)
EXTENDS MCServices, ServiceProofs, RecordProofs

-----------------------------------------------------------------------------
(* MCServices.  The services share no state: a step of the suite is a step  *)
(* of each of them, or leaves it alone, so what each keeps, the suite keeps. *)

LEMMA ServicesApart ==
  ASSUME [Next]_serviceVars
  PROVE  /\ part' = part
         /\ [FreezeNext]_freezeVars
         /\ [PolicyNext]_policyVars
         /\ [DecisionNext]_decisionVars
         /\ [AINext]_aiVars
         /\ [OrderNext]_orderVars
         /\ [IngestNext]_ingestVars
         /\ [SophiaNext]_sophiaVars
         /\ [RetryNext]_retryVars
         /\ [RealtimeNext]_realtimeVars
         /\ [StoreNext]_storeVars
         /\ [AuthNext]_authVars
         /\ [TranscriptNext]_transcriptVars
         /\ [ResearchNext]_researchVars
         /\ [GraphNext]_graphVars
         /\ [NoteNext]_noteVars
         /\ [OperatorNext]_operatorVars
         /\ [IntegrityNext]_integrityVars
         /\ [WindowNext]_windowVars
         /\ [SnapshotNext]_snapshotVars
         /\ [EvaluationNext]_evaluationVars
         /\ [ReportNext]_reportVars
         /\ [ReadersNext]_readersVars
         /\ [RetentionNext]_retentionVars
         /\ [PlanNext]_planVars
         /\ [SafetyNext]_safetyVars
         /\ [DeskNext]_deskVars
         /\ [TakerNext]_takerVars
         /\ [NoticeNext]_noticeVars
<1>1. [FreezeNext]_freezeVars
  BY DEF Next, Rests, serviceVars
<1>2. [PolicyNext]_policyVars
  BY DEF Next, Rests, serviceVars
<1>3. [DecisionNext]_decisionVars
  BY DEF Next, Rests, serviceVars
<1>4. [AINext]_aiVars
  BY DEF Next, Rests, serviceVars
<1>5. [OrderNext]_orderVars
  BY DEF Next, Rests, serviceVars
<1>6. [IngestNext]_ingestVars
  BY DEF Next, Rests, serviceVars
<1>7. [SophiaNext]_sophiaVars
  BY DEF Next, Rests, serviceVars
<1>8. [RetryNext]_retryVars
  BY DEF Next, Rests, serviceVars
<1>9. [RealtimeNext]_realtimeVars
  BY DEF Next, Rests, serviceVars
<1>10. [StoreNext]_storeVars
  BY DEF Next, Rests, serviceVars
<1>11. [AuthNext]_authVars
  BY DEF Next, Rests, serviceVars
<1>12. [TranscriptNext]_transcriptVars
  BY DEF Next, Rests, serviceVars
<1>13. [ResearchNext]_researchVars
  BY DEF Next, Rests, serviceVars
<1>14. [GraphNext]_graphVars
  BY DEF Next, Rests, serviceVars
<1>15. [NoteNext]_noteVars
  BY DEF Next, Rests, serviceVars
<1>16. [OperatorNext]_operatorVars
  BY DEF Next, Rests, serviceVars
<1>17. [IntegrityNext]_integrityVars
  BY DEF Next, Rests, serviceVars
<1>18. [WindowNext]_windowVars
  BY DEF Next, Rests, serviceVars
<1>19. [SnapshotNext]_snapshotVars
  BY DEF Next, Rests, serviceVars
<1>20. [EvaluationNext]_evaluationVars
  BY DEF Next, Rests, serviceVars
<1>21. [ReportNext]_reportVars
  BY DEF Next, Rests, serviceVars
<1>22. [ReadersNext]_readersVars
  BY DEF Next, Rests, serviceVars
<1>23. [RetentionNext]_retentionVars
  BY DEF Next, Rests, serviceVars
<1>24. [PlanNext]_planVars
  BY DEF Next, Rests, serviceVars
<1>25. [SafetyNext]_safetyVars
  BY DEF Next, Rests, serviceVars
<1>26. [DeskNext]_deskVars
  BY DEF Next, Rests, serviceVars
<1>27. [TakerNext]_takerVars
  BY DEF Next, Rests, serviceVars
<1>28. [NoticeNext]_noticeVars
  BY DEF Next, Rests, serviceVars
<1>29. part' = part
  BY DEF Next, serviceVars
<1> QED BY <1>1, <1>2, <1>3, <1>4, <1>5, <1>6, <1>7, <1>8, <1>9, <1>10, <1>11, <1>12,
         <1>13, <1>14, <1>15, <1>16, <1>17, <1>18, <1>19, <1>20, <1>21, <1>22, <1>23,
         <1>24, <1>25, <1>26, <1>27, <1>28, <1>29

\* IntakeSound, for any messages, keys, requests, operators and clients: a message
\* counts once whatever the order of its reports, what operators confirmed of a
\* lead stays, a key has one lead, and a client that reads the feed to its end, while
\* rows are added between its count and its pages, has what it is owed.
THEOREM IntakeStaysSound == Spec => []IntakeSound
<1>1. Init => IngestInv /\ DeskInv /\ TakerInv /\ NoticeInv
  BY IngestInitially, DeskInitially, TakerInitially, NoticeInitially DEF Init
<1>2. IngestInv /\ DeskInv /\ TakerInv /\ NoticeInv /\ [Next]_serviceVars => (IngestInv /\ DeskInv /\ TakerInv /\ NoticeInv)'
  BY ServicesApart, IngestStep, DeskStep, TakerStep, NoticeStep
<1>3. IngestInv /\ DeskInv /\ TakerInv /\ NoticeInv => IntakeSound
  BY TakerImplies, NoticeImplies DEF IntakeSound, IngestInv, DeskInv
<1> QED BY <1>1, <1>2, <1>3, PTL DEF Spec

\* ConversationSound, for any turns, streams, readers, page sizes and runs of the
\* retention: a turn counts once, the log of a transcript tells its state, its
\* readers miss nothing but what was placed below what they had read, and retention
\* undoes nothing that is not over.
THEOREM ConversationStaysSound == Spec => []ConversationSound
<1>1. Init => SophiaInv /\ TranscriptInv /\ ReadersInv /\ RetentionInv
  BY SophiaInitially, TranscriptInitially, ReadersInitially, RetentionInitially DEF Init
<1>2. SophiaInv /\ TranscriptInv /\ ReadersInv /\ RetentionInv /\ [Next]_serviceVars => (SophiaInv /\ TranscriptInv /\ ReadersInv /\ RetentionInv)'
  BY ServicesApart, SophiaStep, TranscriptStep, ReadersStep, RetentionStep
<1>3. SophiaInv /\ TranscriptInv /\ ReadersInv /\ RetentionInv => ConversationSound
  BY TranscriptImplies, ReadersImplies DEF ConversationSound, SophiaInv, RetentionInv
<1> QED BY <1>1, <1>2, <1>3, PTL DEF Spec

\* MaintenanceSound, for any schedulers, retries, reports and commits of others: no
\* attempt is scheduled beyond max_retries or before the one below it, and a report
\* names what was wrong from its beginning to its end, the state if the row was not
\* written meanwhile; then it names nothing that was not so.
THEOREM MaintenanceStaysSound == Spec => []MaintenanceSound
<1>1. Init => RetryInv /\ ReportInv
  BY RetryInitially, ReportInitially DEF Init
<1>2. RetryInv /\ ReportInv /\ [Next]_serviceVars => (RetryInv /\ ReportInv)'
  BY ServicesApart, RetryStep, ReportStep
<1>3. RetryInv /\ ReportInv => MaintenanceSound
  BY ReportImplies DEF MaintenanceSound, RetryInv
<1> QED BY <1>1, <1>2, <1>3, PTL DEF Spec

\* EventLogSound, for any sessions, steps, writers, channels and page sizes, where
\* created_at is the time of the insert: the log of a workflow replays to its row,
\* and a client that replays a channel loses nothing.  With the time of the
\* transaction, which the migrations leave as the default, the run
\* event_order_migrated has a counterexample.
THEOREM EventLogsStaySound == EventClock = "clock_timestamp" => (Spec => []EventLogSound)
<1> SUFFICES ASSUME EventClock = "clock_timestamp" PROVE Spec => []EventLogSound
  OBVIOUS
<1>1. Init => OrderInv /\ StoreInv
  BY OrderInitially, StoreInitially DEF Init
<1>2. OrderInv /\ StoreInv /\ [Next]_serviceVars => (OrderInv /\ StoreInv)'
  BY ServicesApart, OrderStep, StoreStep
<1>3. OrderInv /\ StoreInv => EventLogSound
  BY OrderImplies, StoreImplies DEF EventLogSound
<1> QED BY <1>1, <1>2, <1>3, PTL DEF Spec

\* ResearchSound, for any tasks, graphs, authors, runners and limits: the counters
\* of a job are what its completed tasks cost; an order of a graph that is added to
\* between the reading of its tasks and of its dependencies puts no task before what it
\* waits for, is refused if there was a cycle and without one only for a dependency
\* between a task it has read and one added since; a plan is on record; and the budget
\* is passed by no more than the unchecked charges and one checked charge of each runner.
THEOREM ResearchStaysSound == Spec => []ResearchSound
<1>1. Init => JobInv /\ GraphInv /\ PlanInv /\ SafetyInv
  BY JobInitially, GraphInitially, PlanInitially, SafetyInitially DEF Init
<1>2. JobInv /\ GraphInv /\ PlanInv /\ SafetyInv /\ [Next]_serviceVars => (JobInv /\ GraphInv /\ PlanInv /\ SafetyInv)'
  BY ServicesApart, JobStep, GraphStep, PlanStep, SafetyStep
<1>3. JobInv /\ GraphInv /\ PlanInv /\ SafetyInv => ResearchSound
  BY JobImplies, GraphImplies, SafetyImplies DEF ResearchSound, PlanInv
<1> QED BY <1>1, <1>2, <1>3, PTL DEF Spec

\* ContextSound, for any batches, budgets, strategies, assemblers and keys: a window
\* is within its budget and gives up nothing before what its strategy gives up
\* first, and what the cache shows is on record.
THEOREM ContextStaysSound == Spec => []ContextSound
<1>1. Init => WindowInv /\ SnapshotInv
  BY WindowInitially, SnapshotInitially DEF Init
<1>2. WindowInv /\ SnapshotInv /\ [Next]_serviceVars => (WindowInv /\ SnapshotInv)'
  BY ServicesApart, WindowStep, SnapshotStep
<1>3. WindowInv /\ SnapshotInv => ContextSound
  BY WindowImplies, SnapshotImplies DEF ContextSound
<1> QED BY <1>1, <1>2, <1>3, PTL DEF Spec

\* RulingsSound, for any rulebook and enforcers: what is forbidden when a call
\* begins and when it ends is refused, the order in which the database lists the
\* rows changes no ruling, and a policy with a key of its own only tightens one.
THEOREM RulingsStaySound == Spec => []RulingsSound
<1>1. Init => RulingsInv
  BY RulingsInitially DEF Init
<1>2. RulingsInv /\ [Next]_serviceVars => RulingsInv'
  BY ServicesApart, RulingsStep
<1>3. RulingsInv => RulingsSound
  BY RulingsImply DEF RulingsSound
<1> QED BY <1>1, <1>2, <1>3, PTL DEF Spec

-----------------------------------------------------------------------------
(* The types of the suite, from the invariants of all the services.         *)

GovernanceInvs == FreezeInv /\ PolicyTypeOK /\ DecisionInv /\ EventsTyped /\ RulingsInv

RuntimeInvs ==
  RowsOK /\ ReleaseInv /\ OrderInv /\ RetryInv /\ ReportInv /\ SweepsInv /\ AdviceInv

ClientInvs ==
  /\ IngestInv /\ DeskInv /\ TakerInv /\ NoticeInv /\ RealtimeTypeOK /\ AuthTypeOK
  /\ OperatorTypeOK /\ SophiaInv /\ TranscriptInv /\ ReadersInv /\ RetentionInv

KnowledgeInvs ==
  /\ StoreInv /\ JobInv /\ GraphInv /\ PlanInv /\ SafetyInv /\ NoteInv
  /\ WindowInv /\ SnapshotInv

\* The invariants hold at the start.
LEMMA ServicesInitially == Init => GovernanceInvs /\ RuntimeInvs /\ ClientInvs /\ KnowledgeInvs
<1> SUFFICES ASSUME Init PROVE GovernanceInvs /\ RuntimeInvs /\ ClientInvs /\ KnowledgeInvs
  OBVIOUS
<1>1. GovernanceInvs
  BY InitFreezeInv, PolicyInitially, DecisionsInitially, EventsInitially, RulingsInitially
  DEF Init, GovernanceInvs, PolicyInv
<1>2. RuntimeInvs
  BY AttemptsInitially, ReleaseInitially, OrderInitially, RetryInitially, ReportInitially,
     SweepsInitially, AdviceInitially
  DEF Init, RuntimeInvs
<1>3. ClientInvs
  BY IngestInitially, DeskInitially, TakerInitially, NoticeInitially, RealtimeInitially,
     AuthInitially, OperatorInitially, SophiaInitially, TranscriptInitially, ReadersInitially,
     RetentionInitially
  DEF Init, ClientInvs
<1>4. KnowledgeInvs
  BY StoreInitially, JobInitially, GraphInitially, PlanInitially, SafetyInitially,
     NoteInitially, WindowInitially, SnapshotInitially
  DEF Init, KnowledgeInvs
<1> QED BY <1>1, <1>2, <1>3, <1>4

\* Every step of the suite keeps them.
LEMMA ServicesStep ==
  ASSUME GovernanceInvs, RuntimeInvs, ClientInvs, KnowledgeInvs, [Next]_serviceVars
  PROVE  GovernanceInvs' /\ RuntimeInvs' /\ ClientInvs' /\ KnowledgeInvs'
<1>1. GovernanceInvs'
  BY ServicesApart, NextFreezeInv, PolicyTypes, DecisionsInductive, EventsStep, RulingsStep
  DEF GovernanceInvs
<1>2. RuntimeInvs'
  <2>1. RowsOK' /\ ReleaseInv'
    BY ServicesApart, AttemptsInductive, ReleaseInductive DEF RuntimeInvs
  <2>2. OrderInv' /\ RetryInv' /\ ReportInv'
    BY ServicesApart, OrderStep, RetryStep, ReportStep DEF RuntimeInvs
  <2>3. SweepsInv' /\ AdviceInv'
    BY ServicesApart, SweepsInductive, AdviceStep DEF RuntimeInvs
  <2> QED BY <2>1, <2>2, <2>3 DEF RuntimeInvs
<1>3. ClientInvs'
  <2>1. IngestInv' /\ DeskInv' /\ TakerInv' /\ NoticeInv'
    BY ServicesApart, IngestStep, DeskStep, TakerStep, NoticeStep DEF ClientInvs
  <2>2. RealtimeTypeOK' /\ AuthTypeOK' /\ OperatorTypeOK'
    BY ServicesApart, RealtimeTypes, AuthTypes, OperatorStep DEF ClientInvs
  <2>3. SophiaInv' /\ TranscriptInv' /\ ReadersInv' /\ RetentionInv'
    BY ServicesApart, SophiaStep, TranscriptStep, ReadersStep, RetentionStep DEF ClientInvs
  <2> QED BY <2>1, <2>2, <2>3 DEF ClientInvs
<1>4. KnowledgeInvs'
  <2>1. StoreInv' /\ JobInv' /\ GraphInv' /\ PlanInv'
    BY ServicesApart, StoreStep, JobStep, GraphStep, PlanStep DEF KnowledgeInvs
  <2>2. SafetyInv' /\ NoteInv' /\ WindowInv' /\ SnapshotInv'
    BY ServicesApart, SafetyStep, NoteStep, WindowStep, SnapshotStep DEF KnowledgeInvs
  <2> QED BY <2>1, <2>2 DEF KnowledgeInvs
<1> QED BY <1>1, <1>2, <1>3, <1>4

\* The state of every service is what its types say, whatever the number of its
\* actors, rows and keys.
THEOREM ServicesTypeCorrect == Spec => []ServicesTypeOK
<1>1. GovernanceInvs => FreezeTypeOK /\ PolicyTypeOK /\ DecisionTypeOK /\ EvaluationTypeOK
  BY DecisionTypes DEF GovernanceInvs, FreezeInv, RulingsInv
<1>2. RuntimeInvs => AITypeOK /\ OrderTypeOK /\ RetryTypeOK /\ ReportTypeOK /\ IntegrityTypeOK
  BY AITypes, OrderImplies, IntegrityTypes DEF RuntimeInvs, RetryInv, ReportInv
<1>3. ClientInvs => /\ IngestTypeOK /\ DeskTypeOK /\ TakerTypeOK /\ NoticeTypeOK
                    /\ RealtimeTypeOK /\ AuthTypeOK /\ OperatorTypeOK
                    /\ SophiaTypeOK /\ TranscriptTypeOK /\ ReadersTypeOK /\ RetentionTypeOK
  BY NoticeImplies, TranscriptImplies, ReadersImplies
  DEF ClientInvs, IngestInv, DeskInv, TakerInv, SophiaInv, RetentionInv
<1>4. KnowledgeInvs => /\ StoreTypeOK /\ ResearchTypeOK /\ GraphTypeOK /\ PlanTypeOK
                       /\ SafetyTypeOK /\ NoteTypeOK /\ WindowTypeOK /\ SnapshotTypeOK
  BY StoreImplies, WindowImplies
  DEF KnowledgeInvs, JobInv, GraphInv, PlanInv, SafetyInv, NoteInv, SnapshotInv
<1>5. GovernanceInvs /\ RuntimeInvs /\ ClientInvs /\ KnowledgeInvs => ServicesTypeOK
  BY <1>1, <1>2, <1>3, <1>4 DEF ServicesTypeOK
<1>6. GovernanceInvs /\ RuntimeInvs /\ ClientInvs /\ KnowledgeInvs /\ [Next]_serviceVars =>
        (GovernanceInvs /\ RuntimeInvs /\ ClientInvs /\ KnowledgeInvs)'
  BY ServicesStep
<1> QED BY <1>5, <1>6, ServicesInitially, PTL DEF Spec

\* A behaviour of the suite is a behaviour of each of its services, so what is
\* proved of one alone holds of it in the suite.
THEOREM ServicesRun ==
  Spec => /\ FreezeSpec /\ PolicySpec /\ DecisionSpec /\ AISpec /\ AuthSpec /\ RealtimeSpec
          /\ IntegritySpec
<1>1. Init => FreezeInit /\ PolicyInit /\ DecisionInit /\ AIInit /\ AuthInit /\ RealtimeInit
              /\ IntegrityInit
  BY DEF Init
<1>2. [Next]_serviceVars =>
        /\ [FreezeNext]_freezeVars /\ [PolicyNext]_policyVars /\ [DecisionNext]_decisionVars
        /\ [AINext]_aiVars /\ [AuthNext]_authVars /\ [RealtimeNext]_realtimeVars
        /\ [IntegrityNext]_integrityVars
  BY ServicesApart
<1> QED BY <1>1, <1>2, PTL
  DEF Spec, FreezeSpec, PolicySpec, DecisionSpec, AISpec, AuthSpec, RealtimeSpec, IntegritySpec
=============================================================================
