# TLA+ models of The-Dashboard

The-Dashboard is an operations platform for real-estate acquisition: a FastAPI
backend (`backend/`) over PostgreSQL and Redis, and a Next.js client
(`frontend/`). The backend runs workflows that pause for human approval, and
around them calls, transcripts, an AI operator ("Sophia"), research jobs,
governance and realtime events. Everything that matters is a row in PostgreSQL,
written by many sessions at READ COMMITTED: HTTP requests, background loops
(`api/main.py`) and workers. What is hard is what those sessions do to each
other, and that is what is modelled here.

All paths below are relative to `src/backend/`.

## Inventory

| component | state | operations | what is hard | what makes it correct | modules |
|---|---|---|---|---|---|
| workflow lifecycle (`workflows/`) | workflow row, event log, checkpoints, snapshots | start, advance, pause, resume, complete, fail, cancel, recover, restore, roll back, escalate | handlers that lock first next to handlers that read first and write later; a freeze gate read before the lock | row and event log agree; terminal states; freezes hold | `WorkflowStates`, `WorkflowCore` |
| event order (`models/workflow_event.py`, migrations) | `created_at` of each event | read back by replay | timestamps taken before a lock wait | order read = order written | `WorkflowEventOrder` |
| leases (`workflows/lease.py`) | one lease row per workflow | acquire, renew, release, expire | clock sampled before the lock wait, crashes, theft, sweeps | one executor at a time | `ExecutionLock`, `WorkflowLease` |
| approvals (`workflows/approvals.py`, `approval_orchestrator.py`, `approvals/`) | approval rows | request, resolve, reject with rollback, escalate, expire | two rows locked one after the other; deadline against answer; sweep | decided once; the workflow moves once; nothing stays open for ever | `Approvals` |
| AI gate and execution (`ai/`) | execution rows, approvals | check a tool, resolve; create, start, fail, retry, cancel | decides approvals of workflows it never locks | no execution beyond its attempts, one release per approval | `Approvals`, `AIExecution` |
| governance (`governance/`) | an event log, policies | freeze, kill switch, quorum, policy, delegation, override, evaluation | every rule is a fold of an unlocked read | a passed check is honest; no older policy comes into force again; record and rows agree | `FreezeGate`, `GovernanceFreeze`, `GovernancePolicies`, `GovernanceDecisions`, `GovernanceEvaluation` |
| workflow maintenance (`orphaned.py`, `stalled.py`, `resume_validator.py`, `retry_coordinator.py`, `deadletter.py`, ...) | events, leases | scan and recover, validate, retry, give up | acts on a scan made earlier, beside writers that do not lock; errors that roll the record back | no sweep recovers what is final, whoever overturns it had read it before; no attempt is skipped | `WorkflowIntegrity`, `WorkflowRetries` |
| workflow diagnostics (`assertions.py`, `timeline.py`, ...) | none | consistency report, assertions | parts read at different moments, events that are not replayed | what is wrong throughout is reported | `WorkflowReports` |
| call sessions (`calls/runtime/`) | session, participants, events | join, leave, drop, heartbeat, end | stale cleanup against reconnect; sequence numbers | participants and session agree with the log | `CallSessions` |
| event store (`events/`) | `domain_events` | append, idempotency, replay after a cursor | numbering under a channel lock; commits out of order | a client misses no event and gets none twice | `EventStore` |
| realtime (`realtime/`, `api/routes/realtime.py`) | in-memory registries of one process | connect, subscribe, heartbeat, broadcast, evict | awaits between reads and writes of shared registries | nothing of a dead connection stays | `RealtimeSessions` |
| sign-in (`security/auth.py`, `routes/auth.py`, tickets) | sessions, tokens, Redis keys | login, refresh, logout, ticket | several round trips per request, requests that die between them | a session never forks | `AuthSessions` |
| operator sessions (`services/operator_sessions.py`) | session rows | connect, heartbeat, disconnect, force, clean up | unlocked cleanup | (a claim that fails: see findings) | `OperatorSessions` |
| source exchange (`services/source_commands.py`, `business_evidence.py`) | evidence and commands in a lead's metadata | snapshot, stage, deliver, review | a remote call inside a transaction, crashes, several workers | newest evidence; no post after a decision; every command is settled | `SourceSync` |
| lead intake (`services/voice_ingest.py`, `lead_creation.py`, `instantdm.py`, `routes/leads.py`, `notifications.py`) | calls, leads, notifications | ingest, edit, create, convert, notify, page | any order, twice; unlocked edits; offset paging of a growing feed, counted and read in two statements | the order of events does not matter; one row per key; nothing missed but what outran the count | `VoiceIngest`, `LeadDesk`, `NoticeFeed` |
| transcripts (`transcripts/`) | transcript, streams, chunks, events, checkpoints | append, checkpoint, finalize, read, retain | MAX + 1 numbering by two streams; readers beside writers | the log tells the state; readers miss nothing; retention removes only what is over | `Transcripts`, `TranscriptReaders`, `TranscriptRetention` |
| Sophia (`sophia/`) | session, turns | turn, interrupt, hand off, cancel | turn state against session state, a stale identity map | each turn counts once | `SophiaConversation` |
| research (`research/`) | jobs, tasks, graph, evidence, plans, budget | plan, run, complete, cancel | check then spend, or spend unchecked; counters; cycles across specs; a graph read in two statements | counters right; order sound; overshoot bounded; timeouts honest | `ResearchTasks`, `ResearchGraph`, `ResearchStore`, `ResearchPlans`, `ResearchSafety` |
| context assembly (`context/`) | snapshots, a cache per process | assemble, truncate, cache, archive, expire | cached before the commit; truncation strategies | the cache shows what is on record; the window keeps its promises | `ContextWindow`, `ContextSnapshots` |

Interaction: the components share rows, not messages. An approval names a
workflow and its handlers write both; a lease names a workflow and nothing in
the lifecycle looks at it, but the integrity sweep recovers by it; governance
is consulted by `start` and `advance`; everything appends to `domain_events`,
serialised per channel by an advisory lock, and broadcasts to WebSocket clients
from the same handler. The rest of the services meet only in the database and
share no row that both write.

`PROJECT.json` lists the hazards of each component at their lines.

## Modules of the core

**`WorkflowStates`** - the pure part: lifecycle graph, transition check, event
records, the replay of a log (`ReplayStatus`, `ReplayStep`: the code's table)
and the reference derivation that knows every event type (`RecordedStatus`,
`RecordedStep`).

**`WorkflowCore`** - the lifecycle with concurrent sessions. The state is the
workflow rows (`wf`), their event logs, the rollback and snapshot events in
`domain_events` (`outbox`), checkpoints, snapshots, the frozen scopes and the
open transactions. The granularity is the code's: a handler that takes the
row lock before it reads anything holds it to the commit, so it is one action
(`Pause`, `Complete`, `RestoreSnapshot`, ...). A handler that reads first is a
`Begin...` action, which keeps what it has read, and a commit action, which
checks again only what the code checks again:

| handler | read without the lock | checked under it |
|---|---|---|
| `WorkflowRuntime.advance` | freeze gate | status active |
| `WorkflowRecovery.resume_failed` | status failed | nothing |
| `resume_from_checkpoint` | latest checkpoint | not completed or cancelled |
| `RollbackCoordinator.coordinate` | status not terminal | nothing: `rollback()` reads the object the session already holds |
| `WorkflowEscalation.escalate` | status active or paused | nothing (audit only) |

`Abort` ends an open transaction at any time, as `db/session.py` does on any
exception; it is also the crash of a process and every refusal. A workflow's
`expires_at` and soft deletion are left out (they only refuse more). Events
carry the status or step of their payload. The model takes each handler as a
transaction of its own.

**`WorkflowEventOrder`** - two sessions, one workflow, and the time each event
is stamped with. `EventClock` is the default of `workflow_events.created_at`:
`clock_timestamp` in the model class and in the frozen schema that
`scripts/initialize_database.py` installs, `now` in the migration that
`alembic upgrade head` runs.

**`ExecutionLock`**, **`WorkflowLease`** - what a lease promises, and
`LeaseRuntime`, which implements it (`INSTANCE ExecutionLock WITH` the owner
derived from who relies on the row). A worker is sequential: it calls, and
relies on the expiry of the last result it got. Every call samples `now` on
entry (`Begin`) and works with it whenever the lock is granted. Workers crash,
calls fail, sweeps use any cutoff up to now. Workers are assumed to share one
clock.

**`Approvals`** - extends `WorkflowCore` with approval rows and with the
decisions in progress. A resolution locks the approval, checks it and its
deadline (`BeginResolve`), then waits for the workflow (`Resolve`); in between
the row is not free for anybody else. `rollback_on_rejection` is the same with
the coordinator's unlocked look at the workflow. Request, escalation, override,
the AI gate's decisions and the sweep need one row and are one step. Time is a
deadline that is still to come or past (`Lapse`). An approval the AI gate asked
for remembers whether its execution still waits. Realtime broadcasts, the
approvals' own domain events and the freeze gate are left out;
`rollback_on_rejection` is called with the approval's own workflow.

**`CallSessions`** - one call session with its participants and its event log.
`join`, `complete_session` and `fail_session` lock the session's row before
they look at anything and are one step each. `leave`, `reconnect` and
`drop_participant` lock the participant's row only, so they are three:
`Handle` (lock, check, read MAX + 1), `Insert`, `Commit`. Their inserted event
references the session, so until the commit it holds a share of that row, which
is what keeps the first kind waiting (`SessionFree`). `cleanup_stale` reads its
candidates first and drops them in one transaction, in any order; nothing
schedules it in this repository, and nothing calls `reconnect` but
`restore_on_reconnect`, so both may happen at any time. `Abort` also stands for
the deadlocks two sweeps can run into. Left out: connection ids, roles and
times other than whether the last heartbeat is old; the broadcasts, which are
sent before the commit. The row the access check of `api/routes/calls.py` loads
is no longer in the session's identity map when the handler locks it, so the
handlers see fresh rows.

**`SourceSync`** - one lead, the snapshots and the source calls that arrive for
it, and the commands users stage. A recovery worker finds the lead without a
lock (`Find`), takes its advisory lock and reads again (`TakeLock`), posts
(`Post`), and commits the outcome (`Record`); it may crash at each of these
points, after the post and before the commit in particular. The answer of the
source is any of those the code tells apart. A command also ends by its age or
by its attempts, and a change of the destination sends commands to review.

## Modules of the services

Each models one component in isolation; the comment at its head says what is
one step and why. What they take from the code:

| module | one step is | what is read early and used late |
|---|---|---|
| `GovernanceFreeze` | one of the reads of `is_frozen`, or an append | the six reads of `check_freeze`; `FreezeGate` is what it implements (`INSTANCE FreezeGate WITH`) |
| `GovernancePolicies` | a query, or the insert or update that commits | the active version and the highest number in `create`; the row in `supersede`, `archive` and `capture` |
| `GovernanceDecisions` | a query or a commit of quorum vote, override, escalation, delegation | the earlier vote, the tally, the idempotency key |
| `GovernanceEvaluation` | an evaluation, an enforcement, a policy change | nothing: the evaluation is compared with a reference definition |
| `AIExecution` | a method of the lifecycle or the gate, under its row locks | nothing; the approval is decided by anyone |
| `EventStore` | lock, number, insert, commit or rollback of an append; a page of a replay | the cursor of the client |
| `RealtimeSessions` | what a task does between two awaits | the identity check of endpoint and heartbeat |
| `AuthSessions` | a round trip to Redis or the database; a request may die after any | the session row, the token's state |
| `OperatorSessions` | a locked handler; a read and a write of the sweep | the sweep's candidates, the row in `force_disconnect` |
| `VoiceIngest` | a handler under the call's advisory lock | nothing; events come in any order, twice |
| `LeadDesk` | load and commit of an edit; steps of a creation under its advisory lock | the lead an edit loaded, column by column |
| `NoticeFeed` | store, commit, push, mark, the count of a page, the page | the list of unread rows, the offset, the count |
| `Transcripts` | a locked operation of transcript or stream, and number, insert and commit of those that race | MAX + 1 |
| `TranscriptReaders` | a page, a checkpoint, a reconstruction, an index update | cursor, index row |
| `TranscriptRetention` | find, archive or delete, a lifecycle step | the ids found |
| `SophiaConversation` | a locked method; two steps of a cancellation | the turn a cancellation loaded |
| `ResearchTasks`, `ResearchPlans` | a locked operation | nothing but the existing plan in `create` |
| `ResearchGraph` | `build` of one spec; each SELECT of `topological_order` | the tasks, when the dependencies are read; what comes of it is compared with what an order is |
| `ResearchStore` | look-up, insert | whether the row exists |
| `ResearchSafety` | check, or start unchecked; charge, commit; look for a timeout, cancel | the job: what is charged is not what was checked |
| `ContextWindow` | an assembly (pure) | nothing: the window is compared with what each strategy promises |
| `ContextSnapshots` | look-up, insert, cache, commit; find and write of a retention run | the row found |
| `WorkflowIntegrity` | a phase of a sweep: expire, scan, decide a workflow, commit; a locked writer; the read and the write of `resume_failed` and the rollback | the scan; the validator's verdict; the status those two have read |
| `WorkflowRetries` | read of the attempt, insert of the next, commit or rollback | the attempt |
| `WorkflowReports` | one query of a report; a commit of any writer, with what its event changes of the replay | the workflow row it loaded first |

**`MCServices`** composes them for model checking: they share no state, so
`part` chooses one at the start and the others rest in their initial state (a
product of them would only interleave steps that do not see each other). The
properties of a part are asked where it is the chosen one; what is asked of
several parts is a conjunction with one guarded conjunct each (`IntakeSound`,
`ConversationSound`, `MaintenanceSound`, `EventLogSound`, `ResearchSound`,
`ContextSound`, `RulingsSound`, `ServicesTypeOK`).

The other **`MC...`** modules add symmetry sets and constant values.
**`...Proofs`** modules hold the theorems.

## Runs

| run | shows | bounds |
|---|---|---|
| `core` | row, log and domain events stay in step; unlocked writers drain after a terminal state, admitted ones after a freeze | 1 workflow, 2 sessions, 2 steps, 5 events |
| `terminal_overturned` (violation) | "terminal is absorbing" (`coordinator.py:77`) is false: completed becomes cancelled | 1 workflow, 2 sessions, 4 events |
| `replay_incomplete` (violation) | "A1: State is event-derivable" (`assertions.py:202`) is false after a rollback | the same |
| `event_order_migrated` (violation) | with the migration's `now()` replay does not derive the row | 2 sessions, 2 steps, clock below 9 |
| `lease` | mutual exclusion, the row backs who relies on it, the domain channel tells its status, the lock is implemented | 2 workers, durations 1 and 2, clock to 5, 3 acquisitions |
| `approvals` | decided once, final, one open approval per type from the workflow gate, log and row in step | 2 approvals, 2 types, 1 session, 5 events, no step names |
| `approvals_live` | overdue approvals are settled | 2 approvals of 1 type, 4 events |
| `approval_consistency` (violation) | "paused ↔ pending approval" (`assertions.py:122`) is false after `POST /resume` | 1 approval |
| `calls` | call logs have no gaps and replay to session and participants in spite of shared numbers | 3 participants, 2 transactions, 7 events |
| `call_sequences` (violation) | "duplicate sequence numbers detected" (`tests/test_call_runtime.py:569`): a leave and the end of the call get one number | 2 participants, 3 transactions, 6 events |
| `source_sync` | the evidence is the newest, nothing decided is posted, every command is settled | 2 workers, 2 commands, 2 attempts, 1 crash |
| `services` | the properties of the twenty-eight parts of `MCServices` | see below |

Why the bounds are enough. Workflows share nothing but the freeze, so one
workflow shows every interleaving of its writers. A race here has two parties:
two sessions give one that has read and one that writes in between, and either
can follow with another transaction; the third and fourth event of a log are
where a stale writer lands after a terminal state, and the fifth is the event
after that. `MaxEvents` counts workflow events and domain events together and
is a guard (`Room`) on every action that appends. The lease needs two
workers for a theft, one duration shorter than the other for a renewal that
comes too late, and three acquisitions for a theft to be answered. Two
approvals are what uniqueness compares; with five events one of them can be
escalated, the workflow resumed, and the other requested. The approval runs take
`Step = {}`, because approvals never look at steps: `advance` and checkpoints
are then absent there, and checked in `core`. In `calls`, two transactions give
a number that is overtaken, three participants let a sweep drop two while the
third does something else, and seven events hold every kind of them after one
another. In `source_sync` the second worker finds what the first is settling,
two attempts tell the last from the others, and the crash falls at any point.

In `services` the same rule holds part by part: two of whoever races (`Request`,
`PolicyAdmin`, `Scheduler`, `Writer`, `Archivist`, `Sweeper`, ...), three where
two of them must race with a third (`Request`, `Author`), one of the row they race for
(`Sid`, `Stream`, `OperatorSession`, `AssemblyKey`, ...), and counters that
leave room for one step beyond the interesting one (`MaxVersion = 4`: two
versions, a race for the third, one after it; `MaxInserts = 4`: two attempts
each of two schedulers; `PageLimit` and `FetchLimit` smaller than what is
there, so that readers page). `ContextWindow` gets five items of different
layer, priority, age and size in every order of up to three, and all of them in
two; a report three commits beside it (`MaxCommits = 3`: a fault that is made before
it, hidden and made again within it); a feed two notifications and pages of one
(a page can be shifted, and the count outrun); an integrity sweep one unlocked
writer at a time (`Hand`), which may come again, and one `Sorter` beside builds of three tasks; `GovernanceEvaluation` a chain of three policies with two versions of two
of them, and one on its own. Every bound of a counter is a constant (`Max...`, `LastBeat`,
`LastStep`) and a guard of the action that would pass it.

Symmetry is used over sessions, steps, approvals, types, participants
and transactions in safety runs only; no liveness run uses it. In `services`
the races are between the same two model values (`z1`, `z2`) wherever who races does not
matter, so that one permutation serves every part.

Deadlock is checked except in `calls`, `source_sync` and `services`, where a
behaviour may rightly end: a failed call nobody has joined, nothing left to
stage or to send, a bounded clock, log or counter. In the other models an
`Abort`, a `Freeze` or a crash is enabled in most states, so the absence of
deadlock says little; row-lock deadlocks are not modelled (see below).

**Fairness.** Safety runs need none. `OverdueIsSettled` assumes that a
transaction that has begun to decide an approval ends (`WF(EndDecision)`: it
commits, is refused, or its connection is lost and the database rolls it back),
and that the sweep is strongly fair per approval (`SF(Sweep)`):
`_approval_expiry_loop` runs it every minute for ever and survives its errors,
and `SELECT ... FOR UPDATE` queues, so a row that is released again and again
is granted to it. `PendingIsSettled` assumes that each recovery worker goes on
(`WF`: its loop starts again after every error), that the advisory lock, which
queues too, is granted to a worker that waits while it is free again and again
(`SF(TakeLock)`), and that time passes (`WF(Age)`).

## Properties

Core:

- `EventSourced`: in every interleaving the row is what the *complete* log
  records. Stale writers may write a wrong state, but never one without an
  event, nor in another order than the events. Checked and proved for the
  runtime alone and for its composition with the approval gate.
- `ReplayFaithful`: how far the code's own, incomplete, replay can be trusted.
- `RollbackAnnounced`: rollbacks and their domain events correspond one to one.
- `TerminalDrains`, `FreezeDrains`: what remains true of the two claims the
  code does not keep literally. A terminal workflow changes only through an
  unlocked writer that was inside already, each once; after a freeze only what
  had passed the gate finishes.
- `MutualExclusion`, `RelianceIsBacked`, `AnnouncedStatus`, `ImplementsLock`.
- `ResolutionsSound`: of two open approvals of one type one came from the AI gate
  and one is escalated (`UniqueResolvable`), and no workflow is moved by more
  resolutions than there are decided approvals (`ResolvedOnce`).
- `DecisionsAreFinal`, `OverdueIsSettled` (liveness).
- `NoGaps`, `SessionReplay`, `ParticipantReplay`: what is left of a call's log
  although two events may share a number. No number is skipped, a join never
  slips behind the end, and the last event of each participant by sequence
  number is the one that made its row what it is.
- `EvidenceIsNewest`, `NoPostAfterDecision`, `PendingIsSettled` (liveness): the
  exchange with the source system across crashes. A post may be *repeated*
  after a crash, by design; what is excluded is a post after the decision is on
  record.

Services (the comment of each property states it in full):

| property of `services` | of |
|---|---|
| `GateHonest`, `ImplementsGate` | six unlocked reads: what a passed check still means; a freeze log is a gate |
| `GovernanceMovesForward`, `DecisionsOnRecord`, `RulingsSound` | policies, votes, overrides, delegations, evaluation |
| `AttemptsBounded`, `OneReleasePerApproval` | AI executions |
| `RecoveryIsSafe`, `MaintenanceSound` | the recovery sweep beside unlocked writers; retries (`RetryLadder`) and reports (`FaultsAreReported`) |
| `EventLogSound` | order of workflow events (`ReplayDerivesState`), replay by cursor (`ReplayLosesNothing`) |
| `NothingLeftBehind`, `OneLiveRefresh` | connections, refresh tokens |
| `IntakeSound` | `OutcomeIsOrderFree`, `FieldsKeepApart`, `OneRowPerKey`, `FeedSound` |
| `ConversationSound` | `EachTurnCountsOnce`, `LogTellsState`, `ReadersSound`, `RetentionSafe` |
| `ResearchSound` | `JobCountersMatch`, `OrderIsSound`, `PlanOnRecord`, `SafetySound` |
| `ContextSound` | `WindowSound`, `CacheAgrees` |
| `ServicesTypeOK` | the type invariants |

Five of them say what is left of a stronger claim that the code does not keep,
because it reads in one statement and reads again, or writes, in a later one:

- `GovernanceMovesForward`: captures cross, so the snapshots kept for replay may go
  back to an older version; but a capture records none older than any that was on
  record when it began, so it can only go behind one it overlapped with.
- `RecoveryIsSafe`: a final workflow does not stay final. `resume_failed` and the
  rollback write what they decided on an unlocked read, and bring it back or
  overturn it; nobody else does, and they only if they had read it before it was
  final, each once. The sweep, which looks again under the lock, keeps its word.
- `FeedSound`: the number of pages is counted before the page is read. A client that
  stops by it misses no more than what was added between the two at the last page;
  one that goes on until a page is not full misses nothing.
- `FaultsAreReported`: the row is as it was loaded, the log as it is when it is read,
  and it replays only some of the events. Every fault that lasts is reported, drift
  of the state if the row was not written meanwhile; and then nothing else is.
- `ResearchSound`: the check of the budget and the charge know nothing of each
  other, so every runner may pass it by a task, and whoever does not check by all
  it takes; an order is refused for a cycle or for a task added between the reads.

Each property of a passing run has a mutant, a plausible bug of the definition
it sits beside, under which TLC finds it violated (`PROJECT.json`, "mutants").
A grouped property has one mutant there; the mutants of its other conjuncts are
in the modules, and TLC finds the group violated under each of them as well:

| conjunct | mutants |
|---|---|
| `FieldsKeepApart`, `OneRowPerKey` | `LeadDesk`: `Flushed_Row`, `LockKey_Open` |
| `FeedSound` | `NoticeFeed`: `PushNotification_Early`, `OnPage_FromZero` |
| `OutcomeIsOrderFree` | `VoiceIngest`: `IngestTurn_Last`, `Ended_Replaces` |
| `LogTellsState`, `ReadersSound`, `RetentionSafe` | `Transcripts`: `NextSequence_Same`; `TranscriptReaders`: `AfterIndex_Newest`, `LockIndexed_Unlocked`; `TranscriptRetention`: `FindExpired_Failed` |
| `ReplayLosesNothing` | `EventStore`: `After_Inclusive` |
| `PlanOnRecord`, `SafetySound` | `ResearchPlans`: `InsertPlan_Again`; `ResearchSafety`: `WithinBudget_Added`, `TimedOut_Equal` |
| contact of `EvidenceIsNewest` | `SourceSync`: `ResolveLead_Overwrite` |

## Findings

Shown by a run:

1. *A rollback overturns a terminal workflow.* `coordinate()` reads without a
   lock because "terminal is absorbing"; it is, but the read is old when it is used.
2. *Replay knows half of the status events.* `_STATUS_EVENTS` lacks rollbacks,
   snapshot restores and both approval events, so the invariant checker reports
   drift on healthy workflows.
3. *The migrated schema orders events by transaction start.* Replay then ends on
   the state of whoever began last, not of whoever wrote last.
4. *A paused workflow can be resumed around its approval.* The approval stays
   open, and the gate refuses it from then on because the workflow is not
   paused. The AI gate, which never pauses the workflow, breaks the same claim
   without any race.
5. *Two events of a call share a sequence number.* `leave` reads MAX + 1 without
   the session's lock and there is no unique constraint. `replay` orders ties by
   a random id, and a client that resumes after the shared number
   (`get_after_sequence`) misses one of the two.

Claims of the repository that are written down in the modules beside the
properties, that TLC refutes in the same model, and that no run of the project
asks:

| claim | module | what happens |
|---|---|---|
| `ActivationFreezes` | `GovernanceFreeze` | a freeze key deactivated once never freezes again |
| `OneActiveVersion` | `GovernancePolicies` | two creates leave two active versions |
| `OneVotePerVoter` | `GovernanceDecisions` | two requests of a voter both count |
| `StartedStays` | `AIExecution` | a retry clears `started_at` |
| `CompletedTurnStays` | `SophiaConversation` | a cancellation overwrites a completed turn |
| `NeverACycle` | `ResearchGraph` | two acyclic specs close a cycle |
| `TotalPagesSuffice` | `NoticeFeed` | a row stored between count and page pushes another off the last page |
| `DriftIsReported` | `WorkflowReports` | the log comes to agree with the row that was loaded |
| `OneRowEach` | `ResearchStore` | two writers, two rows |
| `OnlyTheSilentExpire` | `OperatorSessions` | a session that has beaten is expired |

To see one, give its name to TLC in place of the properties of `Services.cfg`.
The remaining findings in `PROJECT.json` were met while reading the code for a
model; each quotes the line it disagrees with.

## Proofs

The proofs are checked by TLAPS for every value of the constants, from the
modules' named assumptions only. These say that a name for "none" names nothing
else (`NoStep`, `"global"`, `Nobody`, `"transcript"`, `"none"` as an event id),
that durations, costs and bounds are naturals and page sizes at least one, that
the sets that are counted are finite, and what the schema enforces: one row per
policy key and version, at least one cost a step can have.

| module | proves about |
|---|---|
| `WorkflowCoreProofs`, `ApprovalsProofs` | the lifecycle, and its composition with the gate |
| `WorkflowLease` (with its model) | the lease |
| `CallSessionsProofs` | calls |
| `ServiceProofs` | governance, AI, connections, sign-in, the source exchange, recovery, lead intake, Sophia, retention |
| `RecordProofs` | logs and what is read from them, transcripts, research, context, policy evaluation |
| `MCServicesProofs` | the suite `MCServices`, from the two above |

*Workflow* (`WorkflowCoreProofs`). `EventSourced` is not inductive. The
inductive invariant is

    IInv == TypeOK /\ LogsOrdered /\ EventSourced /\ StartsAreFresh

`LogsOrdered` says that every set of event types that occurs in a log has a last
position in it, which is what makes `LastPos` (a `CHOOSE`) meaningful; it
replaces an induction over logs, which the provers cannot do. `StartsAreFresh` says that an
open `start` is alone on a workflow with an empty log. The lemmas `AppendIn` and
`AppendOut` say what appending an event does to the last position of a set of
types; every action then reduces to one or two appends. From `IInv` follow

- `TypeCorrect`, `EventSourcing`, `ReplayIsFaithful` (invariants),
- `TerminalDraining`, `FreezeDraining` (action properties, step by step),
- `RollbacksAnnounced`: the positions of the rollbacks in a log and the
  coordinated ones in the outbox are as many; each is counted by what one
  append does to a set of positions (`PositionsAnother`, `AnnounceStep`).

*Lease* (`WorkflowLease`). The inductive invariant is `TypeOK`, `RelianceIsBacked`,
`AnnouncedStatus` and `IdsBelong`: if a worker knows the lease_id in the row then
the row's holder is that worker, and a worker giving its lease back has stopped
relying on it. `IdsBelong` is what makes `renew` and `release`, which look at the
lease_id only, safe. Mutual exclusion follows because the row has one holder; the
refinement to `ExecutionLock` because the owner can only change when nobody
relies on the lease (`Backed`, `LeaseMutualExclusion`, `StatusIsAnnounced`,
`LeaseImplementsLock`).

*Approvals* (`ApprovalsProofs`, on top of `WorkflowCoreProofs`). `AInv` adds to
`ApprovalTypeOK` and `ResolutionsSound` that finitely many rows were ever asked
for and that whoever has locked a row to resolve it has locked one that can be
resolved; without the latter a resolution could move a decided row. Every step
either asks for a row (`RowAsked`) or moves rows that exist (`RowsMove`), and
adds at most one resolution to a log together with the decision it records. From
it follow `ApprovalTypeCorrect`, `ResolutionsStaySound` and `DecisionsStayFinal`.
`JInv`, which joins it with `IInv` and says that approvals belong to workflows
that were started, gives `ApprovalsAreEventSourced`: the composition keeps the
property of the runtime, because the gate's own writes are the appends the
runtime's lemmas are about and its audit events record nothing.

*Calls* (`CallSessionsProofs`). `NoGaps` needs `Continues`: the committed numbers together with those a
transaction has inserted or read are contiguous, for each transaction on its
own. A commit of another one only adds to the committed numbers, so it stays
true (`SequencesHaveNoGaps`).
`ParticipantReplay` needs `RowLocks` (at most one transaction holds a
participant's row, and has at most one event for it), `Ahead` (the number it
holds is beyond every committed event of that participant) and `Unborn` (who has
not joined has no events): `ParticipantsReplay`. Numbers may collide between
participants because nothing in this argument compares two of them.
`SessionReplay` is the same argument for the session (`SInv`): whoever has an event
that tells of the session holds the session's row, and numbers it beyond all that
are committed; and while the session has not ended no event says it has
(`SessionReplays`).

*Freezes* (`ServiceProofs`). A check that is on its way will still meet
every freeze of its scopes that was in force when it began and is not
deactivated (`WillMeetKey`), and every kill switch (`WillMeetKill`); a read
either meets it or leaves it to the reads to come. `PassedIsHonest` is that
invariant for a check that ended; `LogImplementsGate` the refinement to
`FreezeGate`.

*Services* (`ServiceProofs`), one section each:

- `PolicyForward`: there is a greatest active version, what is on record or was read
  to be archived or captured is not newer than any active one, and a capture has
  read nothing older than was on record when it began (`PolicyInv`).
- `RealtimeClean`: inductive with the types.
- `AttemptsAreBounded`: row by row. `ReleasesAreCounted`: the approvals granted and
  those consumed are compared as finite sets (`ReleaseInv`).
- `RefreshNeverForks`: no request has verified a token that was not issued, and
  the newest one is claimed by at most one (`RefreshInv`).
- `EvidenceStaysNewest` (`EvidenceInv`), `DecidedIsNotPosted`: one worker holds the
  lock from its look at the lead to its commit, and what it posts is pending
  until then (`PostInv`).
- `DecisionsStayOnRecord`: what an open request has read and written is true of the
  record and the rows, and no two requests are changing one approval or granting
  one delegation (`DecisionInv`); the committed record only adds to the votes, so
  a quorum once counted stays one (`VotesGrow`).
- `RecoveryStaysSafe`: what a sweep has read and decided is true of the committed
  rows (`SweepTrue`), and no two open sweeps have decided one workflow. The row a
  sweep has decided is locked, against the unlocked writers' updates too, and a
  checkpoint that was read is never taken back (`kept`). That only unlocked writers
  overturn a final row is then read off each action.

*The suite* (`MCServicesProofs`). A step of `MCServices` is a step of each of its
services or leaves it alone (`ServicesApart`), so an inductive invariant of a
service is one of the suite. From the invariants, which are in `ServiceProofs`
and `RecordProofs`, follow

- `IntakeStaysSound`. A message: `OutcomeIsOrderFree` is inductive with the types,
  because every key of a message has one body (`OneBody`) (`IngestInv`). A lead:
  a request carries only the field it edits (`DeskInv`). A creation: who holds the
  advisory lock of a key knows whether its row is there (`TakerInv`). The feed:
  what a client is owed and has not got lies behind the pages it has read, counted
  as the rows listed before it, and rows are only put before others; of one that
  stops by the count, what is missed lies beyond it, no further than the list has
  grown since (`NoticeInv`, `OwedAhead`, `MissedFew`).
- `ConversationStaysSound`. The turns counted are those that completed (`SophiaInv`);
  the number a stream's transaction has read is beyond all that are committed
  (`TranscriptInv`, `WorkAhead`); a consumer's batch leaves out no chunk
  between its mark and the last it has, what a client's pages owe has as many chunks
  before it as were read, and a text that was built is a beginning of the
  transcript (`ReadersInv`); a run of the retention that has found a transcript
  relies only on what cannot be undone (`RetentionInv`).
- `MaintenanceStaysSound`. An attempt was read from an event that stays
  (`RetryInv`); a fault that has lasted since a report began is wrong for the status
  it loaded, so the parts it has still to read will find it, the state when what it
  loaded is still the row (`ReportInv`, `Lasts`).
- `EventLogsStaySound`, where `created_at` is the time of the insert. The log
  replays to the row in the order it was written, and the stamps grow in that
  order (`OrderInv`); rows are numbered without gaps, for those committed and those
  of the transaction that holds the channel (`StoreInv`). With the time of the
  transaction the hypothesis fails, and so does the property: that is finding 3.
- `ResearchStaysSound`. The tokens of a job are those of its completed tasks
  (`JobInv`); the last event of a plan tells its row (`PlanInv`); a
  runner is granted a task only below the ceiling, so what is committed, in the
  open transaction and granted passes it by no more than a task each and what was
  added unchecked (`SafetyInv`, `TokensBounded`). `OrderIsSound` rests on a lemma
  about *every* finite graph, one with dependencies on tasks that were not read
  too (`OrderOfAny`): a ring is never popped, and if something is left a level has
  added nothing, so what is left waits for itself or for a task it does not know;
  the dependencies read later name tasks that were read or added since (`GraphInv`).
- `ContextStaysSound`. A window is what was built for what was asked (`WindowInv`);
  that `BuildWindow` keeps what the strategies promise is a lemma about every
  batch (`TruncationGivesUp`: the last item given up is where the rest begins to
  fit; `SourcesAddUp`). An entry of the cache is backed by a row, or by the
  assembly that put it there and has not ended (`SnapshotInv`).
- `RulingsStaySound`. The evaluation of the code classifies as the reference does,
  for every rulebook in every order of its rows (`LatestFinds`,
  `EvaluatesAsClassified`), and a new key only tightens (`NewKeyTightens`); a call
  that is barred throughout is on its way to being refused (`RulingsInv`).
- `ServicesTypeCorrect`, the types of all the parts; `ServicesRun`: a behaviour of
  the suite is one of each service that has theorems of its own, so
  `PassedIsHonest`, `PolicyForward` and the others hold in it.

*Induction.* The library states induction with an operator as a parameter, which
the provers here cannot instantiate. `RecordProofs` begins with what replaces it:
among finite sets there is a minimal one (`LeastSubset`), so a set of numbers that
has 0 and every successor is all of `Nat` (`NaturalsReached`), and a family of
subsets that is reached one element at a time is all of them (`SubsetsReached`).
A recursive function is then reached step by step through the partial functions
that agree with it, and what a loop computes is an ordinary lemma.

Three models are written for these proofs with less than a list. The text that
`TranscriptReaders` assembles is the set of the chunks it is made of, a
`ContextWindow` the places its items have in the batch, their tokens counted one
by one, and `LatestOf` a function on the prefixes of the rows. None of the
properties looks at what was left out, the order in which a window lists
its items.

Only model-checked: the liveness properties `OverdueIsSettled` and
`PendingIsSettled` (the provers do not reason about fairness or ENABLED), and the
runs that expect a violation. `ReplayStatus` is defined by the last relevant
position and not by recursion over the log for the same reason `LogsOrdered`
exists.

## Not modelled

- Row-lock deadlocks (sweep against resolution, `approvals/expiry.py:53`):
  PostgreSQL breaks them by aborting one transaction, which the models have as
  `AbandonDecision` and `Abort`; a wait-for graph would say nothing more about
  the rows.
- Broadcasts, except those of `NoticeFeed` and the connections they go to: several
  are sent before the commit (`approvals/expiry.py:92`,
  `services/audit_timeline.py:70`), so that clients may be told of what is then
  rolled back; it takes no model to see it.
- Working memory, adapters and sanitizer of the context; prompts, scores and tools
  of Sophia; AI budgets, sandbox and tool router; the transcript pipeline and
  text search; governance audit queries and reconstruction; compensation;
  timeline, counters and dependency graph of workflows; InstantDM's remote API;
  analytics: computations on one row, or calls of external services, without
  a protocol of their own.
- Rate limits, password checks, Reddit polling, logging, metrics, settings, the
  frontend, and the plumbing of sessions and repositories, which the models
  have as transactions, locks and aborts.

## What could come next

1. The composition of `WorkflowIntegrity` with `WorkflowLease`: the integrity
   model has of a lease whether its time is over, the lease model the clocks.
2. `GovernanceFreeze` in the place of the `frozen` set of `WorkflowCore`, through
   `FreezeGate`.
3. The refinements still to be stated: `EventStore` as a log per channel that is
   read in order, `TranscriptReaders` as the text that was written.
