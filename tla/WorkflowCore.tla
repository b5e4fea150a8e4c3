---------------------------- MODULE WorkflowCore ----------------------------
(***************************************************************************)
(* The workflow runtime of backend/workflows: runtime.py, recovery.py,     *)
(* rollback.py with coordinator.py, checkpoint.py, snapshot.py and         *)
(* escalation.py, run by concurrent database sessions at READ COMMITTED.   *)
(*                                                                         *)
(* A handler that takes the workflow's row lock before it reads anything   *)
(* is one step: the lock is held until the commit, so its read, its write  *)
(* and its event are indivisible for every other session.  A handler that  *)
(* reads first without the lock (or checks the freeze gate first) is two:  *)
(* a Begin step that reads and refuses, and a commit step that waits for   *)
(* the row and then writes what it decided on.  An open transaction may    *)
(* end at any time by Abort: a refusal, an exception or a lost process,    *)
(* all of which roll the session back (db/session.py).                     *)
(***************************************************************************)
EXTENDS WorkflowStates, FiniteSets

CONSTANTS Workflow,   \* identities of workflow rows, created or not
          Session,    \* database sessions (requests, background tasks)
          MaxEvents   \* bound on the rows appended for one workflow

ASSUME WorkflowAssumption == "global" \notin Workflow
ASSUME MaxEventsAssumption == MaxEvents \in Nat

VARIABLES
  wf,          \* wf[w]: workflows row, [status, step]; "absent" before start
  log,         \* log[w]: workflow_events of w in the order they are written
  outbox,      \* outbox[w]: rollback and snapshot events of w in domain_events
  checkpoints, \* checkpoints[w]: workflow_checkpoints steps, oldest first
  snapshots,   \* snapshots[w]: contents of the workflow_snapshots rows of w
  frozen,      \* the frozen scopes, "global" or a workflow
  txns         \* the open transactions

vars == <<wf, log, outbox, checkpoints, snapshots, frozen, txns>>
rows == <<wf, log, outbox, checkpoints, snapshots, frozen>>

Absent == [status |-> "absent", step |-> NoStep]

Op  == {"start", "advance", "recover", "restore", "rollback", "escalate"}
Txn == [sess : Session, op : Op, wf : Workflow, step : Step \cup {NoStep}]

Init ==
  /\ wf = [w \in Workflow |-> Absent]
  /\ log = [w \in Workflow |-> <<>>]
  /\ outbox = [w \in Workflow |-> <<>>]
  /\ checkpoints = [w \in Workflow |-> <<>>]
  /\ snapshots = [w \in Workflow |-> {}]
  /\ frozen = {}
  /\ txns = {}

-----------------------------------------------------------------------------
Exists(w) == wf[w].status # "absent"
Idle(s)   == \A t \in txns : t.sess # s
Room(w)   == Len(log[w]) + Len(outbox[w]) < MaxEvents

\* Mutant of Passes: the global scope is not consulted.
Passes_Local(w) == w \notin frozen

Passes(w)  == frozen \cap {"global", w} = {}      \* check_freeze returns

SetWf(w, status, step) == wf' = [wf EXCEPT ![w] = [status |-> status, step |-> step]]
Emit(w, e)             == log' = [log EXCEPT ![w] = Append(@, e)]
Announce(w, type)      == outbox' = [outbox EXCEPT ![w] = Append(@, type)]

\* Mutant of Begin: a session may open a transaction inside another.
Begin_Nested(s, op, w, step) ==
  /\ txns' = txns \cup {[sess |-> s, op |-> op, wf |-> w, step |-> step]}
  /\ UNCHANGED rows

Begin(s, op, w, step) ==
  /\ Idle(s)
  /\ txns' = txns \cup {[sess |-> s, op |-> op, wf |-> w, step |-> step]}
  /\ UNCHANGED rows

Close(t) == txns' = txns \ {t}

-----------------------------------------------------------------------------
(* WorkflowRuntime *)

BeginStart(s, w) ==
  /\ ~Exists(w)
  /\ \A t \in txns : t.wf # w
  /\ "global" \notin frozen
  /\ Begin(s, "start", w, NoStep)

Start(t) ==
  /\ t.op = "start" /\ Room(t.wf)
  /\ SetWf(t.wf, "active", NoStep)
  /\ Emit(t.wf, Evt("started"))
  /\ Close(t)
  /\ UNCHANGED <<outbox, checkpoints, snapshots, frozen>>

\* The payload a caller adds to the event has no "step" of its own, which
\* would replace the step in it; no caller passes one.
BeginAdvance(s, w, step) ==
  /\ Exists(w)
  /\ Passes(w)
  /\ Begin(s, "advance", w, step)

\* Mutant of Advance: the status is not validated under the lock.
Advance_Unchecked(t) ==
  /\ t.op = "advance" /\ Room(t.wf)
  /\ SetWf(t.wf, "active", t.step)
  /\ Emit(t.wf, StepEvt("advanced", t.step))
  /\ Close(t)
  /\ UNCHANGED <<outbox, checkpoints, snapshots, frozen>>

Advance(t) ==
  /\ t.op = "advance" /\ Room(t.wf)
  /\ wf[t.wf].status = "active"
  /\ SetWf(t.wf, "active", t.step)
  /\ Emit(t.wf, StepEvt("advanced", t.step))
  /\ Close(t)
  /\ UNCHANGED <<outbox, checkpoints, snapshots, frozen>>

\* _transition: lock, validate, write, record.
Transition(s, w, target, type) ==
  /\ Idle(s) /\ Exists(w) /\ Room(w)
  /\ validate_transition(wf[w].status, target)
  /\ SetWf(w, target, wf[w].step)
  /\ Emit(w, Evt(type))
  /\ UNCHANGED <<outbox, checkpoints, snapshots, frozen, txns>>

Pause(s, w)    == Transition(s, w, "paused", "paused")
Resume(s, w)   == Transition(s, w, "active", "resumed")
Complete(s, w) == Transition(s, w, "completed", "completed")
Fail(s, w)     == Transition(s, w, "failed", "failed")
Cancel(s, w)   == Transition(s, w, "cancelled", "cancelled")

-----------------------------------------------------------------------------
(* WorkflowRecovery *)

\* Mutant of BeginRecover: every terminal workflow can be resumed.
BeginRecover_Terminal(s, w) ==
  /\ wf[w].status \in TERMINAL_STATES
  /\ Begin(s, "recover", w, NoStep)

\* resume_failed reads and checks the row without a lock ...
BeginRecover(s, w) ==
  /\ wf[w].status = "failed"
  /\ Begin(s, "recover", w, NoStep)

\* ... and writes "active" over whatever the row holds by then.
Recover(t) ==
  /\ t.op = "recover" /\ Room(t.wf)
  /\ SetWf(t.wf, "active", wf[t.wf].step)
  /\ Emit(t.wf, Evt("recovery.resumed"))
  /\ Close(t)
  /\ UNCHANGED <<outbox, checkpoints, snapshots, frozen>>

\* resume_from_checkpoint reads the latest checkpoint before it locks the row.
BeginRestore(s, w) ==
  /\ Exists(w)
  /\ checkpoints[w] # <<>>
  /\ Begin(s, "restore", w, checkpoints[w][Len(checkpoints[w])])

Restore(t) ==
  /\ t.op = "restore" /\ Room(t.wf)
  /\ wf[t.wf].status \notin {"completed", "cancelled"}
  /\ SetWf(t.wf, "active", t.step)
  /\ Emit(t.wf, StepEvt("recovery.checkpoint_restored", t.step))
  /\ Close(t)
  /\ UNCHANGED <<outbox, checkpoints, snapshots, frozen>>

-----------------------------------------------------------------------------
(* RollbackCoordinator.coordinate with WorkflowRollback.rollback *)

\* The idempotency check, on an unlocked read.
BeginRollback(s, w) ==
  /\ Exists(w)
  /\ wf[w].status \notin TERMINAL_STATES
  /\ Begin(s, "rollback", w, NoStep)

\* Mutant of Rollback: a rollback that finds the row terminal by now skips it
\* but is announced all the same.
Rollback_SkipAnnounced(t, compensated) ==
  /\ t.op = "rollback" /\ Room(t.wf)
  /\ IF wf[t.wf].status \in TERMINAL_STATES
     THEN UNCHANGED <<wf, log>>
     ELSE SetWf(t.wf, "cancelled", wf[t.wf].step) /\ Emit(t.wf, Evt("rolled_back"))
  /\ Announce(t.wf, "rollback.coordinated")
  /\ Close(t)
  /\ UNCHANGED <<checkpoints, snapshots, frozen>>

\* rollback() reads the row again, but through the session that has already
\* loaded it: it sees the same object, so its own terminal check repeats the
\* first one and only the status column is written.
Rollback(t, compensated) ==
  /\ t.op = "rollback" /\ Room(t.wf)
  /\ SetWf(t.wf, "cancelled", wf[t.wf].step)
  /\ LET rolled == Append(log[t.wf], Evt("rolled_back"))
     IN log' = [log EXCEPT ![t.wf] =
                  IF compensated THEN Append(rolled, Evt("compensating_action.recorded"))
                                 ELSE rolled]
  /\ Announce(t.wf, "rollback.coordinated")
  /\ Close(t)
  /\ UNCHANGED <<checkpoints, snapshots, frozen>>

-----------------------------------------------------------------------------
(* CheckpointRuntime, SnapshotRuntime, WorkflowEscalation *)

\* set: at most one row per (workflow, step); a second call changes nothing.
SetCheckpoint(s, w, step) ==
  /\ Idle(s) /\ Exists(w)
  /\ \A i \in 1..Len(checkpoints[w]) : checkpoints[w][i] # step
  /\ checkpoints' = [checkpoints EXCEPT ![w] = Append(@, step)]
  /\ UNCHANGED <<wf, log, outbox, snapshots, frozen, txns>>

TakeSnapshot(s, w) ==
  /\ Idle(s) /\ Exists(w) /\ Room(w)
  /\ snapshots' = [snapshots EXCEPT ![w] = @ \cup {wf[w]}]
  /\ Announce(w, "snapshot.taken")
  /\ UNCHANGED <<wf, log, checkpoints, frozen, txns>>

RestoreSnapshot(s, w, snap) ==
  /\ Idle(s) /\ Exists(w) /\ Room(w)
  /\ snap \in snapshots[w]
  /\ wf[w].status \notin {"completed", "cancelled"}
  /\ SetWf(w, snap.status, snap.step)
  /\ Emit(w, FullEvt("snapshot.restored", snap.status, snap.step))
  /\ Announce(w, "snapshot.restored")
  /\ UNCHANGED <<checkpoints, snapshots, frozen, txns>>

BeginEscalate(s, w) ==
  /\ wf[w].status \in {"active", "paused"}
  /\ Begin(s, "escalate", w, NoStep)

Escalate(t) ==
  /\ t.op = "escalate" /\ Room(t.wf)
  /\ Emit(t.wf, Evt("escalated"))
  /\ Close(t)
  /\ UNCHANGED <<wf, outbox, checkpoints, snapshots, frozen>>

-----------------------------------------------------------------------------
(* The freeze gate as the runtime sees it, and the end of a transaction. *)

Freeze(scope) ==
  /\ frozen' = frozen \cup {scope}
  /\ UNCHANGED <<wf, log, outbox, checkpoints, snapshots, txns>>

Unfreeze(scope) ==
  /\ frozen' = frozen \ {scope}
  /\ UNCHANGED <<wf, log, outbox, checkpoints, snapshots, txns>>

Abort(t) == Close(t) /\ UNCHANGED rows

BeginStep(s, w) ==
  \/ BeginStart(s, w)
  \/ \E step \in Step : BeginAdvance(s, w, step)
  \/ BeginRecover(s, w)
  \/ BeginRestore(s, w)
  \/ BeginRollback(s, w)
  \/ BeginEscalate(s, w)

LockedStep(s, w) ==
  \/ Pause(s, w)
  \/ Resume(s, w)
  \/ Complete(s, w)
  \/ Fail(s, w)
  \/ Cancel(s, w)
  \/ \E step \in Step : SetCheckpoint(s, w, step)
  \/ TakeSnapshot(s, w)
  \/ \E snap \in snapshots[w] : RestoreSnapshot(s, w, snap)

CommitStep(t) ==
  \/ Start(t)
  \/ Advance(t)
  \/ Recover(t)
  \/ Restore(t)
  \/ \E compensated \in BOOLEAN : Rollback(t, compensated)
  \/ Escalate(t)
  \/ Abort(t)

FreezeStep == \E scope \in {"global"} \cup Workflow : Freeze(scope) \/ Unfreeze(scope)

Next ==
  \/ \E s \in Session, w \in Workflow : BeginStep(s, w) \/ LockedStep(s, w)
  \/ \E t \in txns : CommitStep(t)
  \/ FreezeStep

Spec == Init /\ [][Next]_vars
-----------------------------------------------------------------------------
(* Properties *)

\* Every variable has its type; an open transaction belongs to one session.
TypeOK ==
  /\ wf \in [Workflow -> [status : Status \cup {"absent"}, step : Step \cup {NoStep}]]
  /\ log \in [Workflow -> Seq(Event)]
  /\ outbox \in [Workflow -> Seq({"rollback.coordinated", "snapshot.taken", "snapshot.restored"})]
  /\ checkpoints \in [Workflow -> Seq(Step)]
  /\ snapshots \in [Workflow -> SUBSET [status : Status, step : Step \cup {NoStep}]]
  /\ frozen \subseteq {"global"} \cup Workflow
  /\ txns \subseteq Txn
  /\ \A t, u \in txns : t.sess = u.sess => t = u

\* In every interleaving of locked and unlocked writers, the persisted status
\* and step of a workflow are those its complete event log records: no write
\* reaches the row without its event, none in another order than the events.
EventSourced ==
  \A w \in Workflow :
    /\ wf[w].status = RecordedStatus(log[w], "absent")
    /\ wf[w].step = RecordedStep(log[w])

\* WorkflowRecovery.replay is right whenever the last event that changed the
\* status (the step) is one its table maps: earlier unmapped events, and the
\* audit events in between, never mislead it.
ReplayFaithful ==
  \A w \in Workflow :
    LET st == Positions(log[w], StatusChanging)
        sp == Positions(log[w], StepChanging)
    IN /\ st # {} /\ log[w][LastPos(log[w], StatusChanging)].type \in DOMAIN STATUS_EVENTS
             => ReplayStatus(log[w]) = wf[w].status
       /\ sp # {} /\ log[w][LastPos(log[w], StepChanging)].type \in STEP_EVENTS
             => ReplayStep(log[w]) = wf[w].step

\* Every coordinated rollback leaves exactly one domain event for its
\* workflow event, with or without compensation and however often it races.
RollbackAnnounced ==
  \A w \in Workflow :
    Cardinality({i \in 1..Len(log[w]) : log[w][i].type = "rolled_back"})
      = Cardinality({i \in 1..Len(outbox[w]) : outbox[w][i] = "rollback.coordinated"})

\* The transactions that read a workflow before they write it without a check.
Stale(w) == {t \in txns : t.wf = w /\ t.op \in {"recover", "rollback"}}

\* Once a workflow is completed or cancelled no new unlocked writer gets in,
\* and the row changes again only by one that was already inside; each of
\* those can overturn the terminal state once.
DrainsStale(w) ==
  wf[w].status \in {"completed", "cancelled"} =>
    /\ Stale(w)' \subseteq Stale(w)
    /\ wf'[w] # wf[w] => Stale(w)' # Stale(w)

TerminalDrains == [][\A w \in Workflow : DrainsStale(w)]_vars

\* The transactions that have passed the freeze gate and not yet written.
Admitted == {t \in txns : t.op \in {"start", "advance"}}
GatedEvents(w) == Positions(log[w], {"started", "advanced"})

\* While the global freeze holds, nothing passes the gate any more, and each
\* start or advance still recorded uses up a transaction that passed before.
DrainsAdmitted ==
  ("global" \in frozen /\ "global" \in frozen') =>
    /\ Admitted' \subseteq Admitted
    /\ (\E w \in Workflow : GatedEvents(w)' # GatedEvents(w)) => Admitted' # Admitted

FreezeDrains == [][DrainsAdmitted]_vars

\* coordinator.py's header and comment: terminal is absorbing.  (The reachable
\* terminal states that recovery may not leave.)
TerminalIsAbsorbing ==
  [][\A w \in Workflow : wf[w].status \in {"completed", "cancelled"} => wf'[w] = wf[w]]_vars

\* assertions.py A1: the persisted state is derivable by replay.
StateIsEventDerivable ==
  \A w \in Workflow : Exists(w) =>
    /\ ReplayStatus(log[w]) = wf[w].status
    /\ ReplayStep(log[w]) = wf[w].step
=============================================================================
