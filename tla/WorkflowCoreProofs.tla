------------------------- MODULE WorkflowCoreProofs -------------------------
(***************************************************************************)
(* Proofs about WorkflowCore for any number of workflows, sessions and     *)
(* steps and any bound on the log: the typing invariant, EventSourced, the *)
(* faithfulness of the replay, the two draining properties, and the count  *)
(* of the announced rollbacks.                                             *)
(***************************************************************************)
EXTENDS WorkflowCore, FiniteSetTheorems, TLAPS

-----------------------------------------------------------------------------
(* Logs: what appending one event does to the last event of a kind. *)

\* A log has a last event of a kind as soon as it has one of that kind.
HasLast(s, types) ==
  Positions(s, types) # {} =>
    /\ LastPos(s, types) \in Positions(s, types)
    /\ \A j \in Positions(s, types) : j <= LastPos(s, types)

\* Appending an event of the kind makes it the last one of the kind.
LEMMA AppendIn ==
  ASSUME NEW s \in Seq(Event), NEW e \in Event, NEW types, e.type \in types
  PROVE  /\ Positions(Append(s, e), types) # {}
         /\ Append(s, e)[LastPos(Append(s, e), types)] = e
         /\ HasLast(Append(s, e), types)
<1> DEFINE a == Append(s, e)
           n == Len(s) + 1
<1>1. /\ a \in Seq(Event) /\ Len(a) = n /\ n \in Nat /\ a[n] = e
  OBVIOUS
<1>2. n \in Positions(a, types) /\ \A j \in Positions(a, types) : j <= n
  BY <1>1 DEF Positions
<1>3. LastPos(a, types) = n
  BY <1>2, <1>1, SMTT(20) DEF LastPos, Positions
<1> QED
  BY <1>1, <1>2, <1>3 DEF HasLast

\* Appending an event of another kind leaves the last one of the kind alone.
LEMMA AppendOut ==
  ASSUME NEW s \in Seq(Event), NEW e \in Event, NEW types, e.type \notin types,
         HasLast(s, types)
  PROVE  /\ Positions(Append(s, e), types) = Positions(s, types)
         /\ LastPos(Append(s, e), types) = LastPos(s, types)
         /\ Positions(s, types) # {} =>
              Append(s, e)[LastPos(s, types)] = s[LastPos(s, types)]
         /\ HasLast(Append(s, e), types)
<1> DEFINE a == Append(s, e)
<1>1. /\ Len(a) = Len(s) + 1 /\ Len(s) \in Nat /\ a[Len(s) + 1] = e
      /\ \A i \in 1..Len(s) : a[i] = s[i]
  OBVIOUS
<1>2. Positions(a, types) = Positions(s, types)
  BY <1>1 DEF Positions
<1>3. LastPos(a, types) = LastPos(s, types)
  BY <1>2 DEF LastPos
<1>4. Positions(s, types) # {} => LastPos(s, types) \in 1..Len(s)
  BY DEF HasLast, Positions
<1> QED
  BY <1>1, <1>2, <1>3, <1>4 DEF HasLast

\* What the log records after one more event, given what it recorded before.
LEMMA RecordedAppend ==
  ASSUME NEW s \in Seq(Event), NEW e \in Event, NEW none,
         HasLast(s, StatusChanging), HasLast(s, StepChanging)
  PROVE  /\ RecordedStatus(Append(s, e), none)
              = IF e.type \in StatusChanging THEN EventStatus(e) ELSE RecordedStatus(s, none)
         /\ RecordedStep(Append(s, e))
              = IF e.type \in StepChanging THEN e.step ELSE RecordedStep(s)
         /\ HasLast(Append(s, e), StatusChanging)
         /\ HasLast(Append(s, e), StepChanging)
<1>1. /\ RecordedStatus(Append(s, e), none)
            = IF e.type \in StatusChanging THEN EventStatus(e) ELSE RecordedStatus(s, none)
      /\ HasLast(Append(s, e), StatusChanging)
  <2>1. CASE e.type \in StatusChanging
    BY <2>1, AppendIn DEF RecordedStatus
  <2>2. CASE e.type \notin StatusChanging
    BY <2>2, AppendOut DEF RecordedStatus
  <2> QED BY <2>1, <2>2
<1>2. /\ RecordedStep(Append(s, e))
            = IF e.type \in StepChanging THEN e.step ELSE RecordedStep(s)
      /\ HasLast(Append(s, e), StepChanging)
  <2>1. CASE e.type \in StepChanging
    BY <2>1, AppendIn DEF RecordedStep
  <2>2. CASE e.type \notin StepChanging
    BY <2>2, AppendOut DEF RecordedStep
  <2> QED BY <2>1, <2>2
<1> QED BY <1>1, <1>2

-----------------------------------------------------------------------------
(* The inductive invariant: EventSourced says what the last events record,  *)
(* and is inductive once every log is known to have its last events.       *)

LogsOrdered ==
  \A w \in Workflow : /\ HasLast(log[w], StatusChanging)
                      /\ HasLast(log[w], StepChanging)

StartsAreFresh ==
  /\ \A w \in Workflow : ~Exists(w) => wf[w].step = NoStep
  /\ \A t \in txns : t.op = "start" => ~Exists(t.wf)
  /\ \A t, u \in txns : t.op = "start" /\ t.wf = u.wf => t = u

IInv == TypeOK /\ LogsOrdered /\ EventSourced /\ StartsAreFresh

\* One event appended to one log keeps the logs ordered.
LEMMA EmitOrdered ==
  ASSUME IInv, NEW w \in Workflow, NEW e \in Event, Emit(w, e)
  PROVE  /\ LogsOrdered'
         /\ \A x \in Workflow :
              /\ RecordedStatus(log'[x], "absent")
                   = IF x = w /\ e.type \in StatusChanging
                     THEN EventStatus(e) ELSE RecordedStatus(log[x], "absent")
              /\ RecordedStep(log'[x])
                   = IF x = w /\ e.type \in StepChanging
                     THEN e.step ELSE RecordedStep(log[x])
<1>1. /\ log[w] \in Seq(Event)
      /\ HasLast(log[w], StatusChanging) /\ HasLast(log[w], StepChanging)
  BY DEF IInv, TypeOK, LogsOrdered
<1>2. /\ log'[w] = Append(log[w], e)
      /\ \A x \in Workflow : x # w => log'[x] = log[x]
  BY DEF Emit, IInv, TypeOK
<1>3. /\ RecordedStatus(log'[w], "absent")
           = IF e.type \in StatusChanging THEN EventStatus(e) ELSE RecordedStatus(log[w], "absent")
      /\ RecordedStep(log'[w])
           = IF e.type \in StepChanging THEN e.step ELSE RecordedStep(log[w])
      /\ HasLast(log'[w], StatusChanging)
      /\ HasLast(log'[w], StepChanging)
  BY <1>1, <1>2, RecordedAppend
<1>4. ASSUME NEW x \in Workflow, x # w
      PROVE  /\ RecordedStatus(log'[x], "absent") = RecordedStatus(log[x], "absent")
             /\ RecordedStep(log'[x]) = RecordedStep(log[x])
             /\ HasLast(log'[x], StatusChanging)
             /\ HasLast(log'[x], StepChanging)
  BY <1>2, <1>4 DEF IInv, LogsOrdered
<1> QED BY <1>3, <1>4 DEF LogsOrdered

\* A row written together with an event that records what was written.
LEMMA WriteRecorded ==
  ASSUME IInv, NEW w \in Workflow, NEW st, NEW sp, NEW e \in Event,
         SetWf(w, st, sp), Emit(w, e),
         st = IF e.type \in StatusChanging THEN EventStatus(e) ELSE wf[w].status,
         sp = IF e.type \in StepChanging THEN e.step ELSE wf[w].step
  PROVE  LogsOrdered' /\ EventSourced'
<1>1. \A x \in Workflow :
        wf'[x] = IF x = w THEN [status |-> st, step |-> sp] ELSE wf[x]
  BY DEF SetWf, IInv, TypeOK
<1> QED BY <1>1, EmitOrdered DEF EventSourced, IInv

\* The kind and the content of the events the handlers append.
LEMMA EventFacts ==
  /\ \A t \in EventType : Evt(t) \in Event /\ Evt(t).type = t
  /\ \A t \in EventType, sp \in Step \cup {NoStep} :
       StepEvt(t, sp) \in Event /\ StepEvt(t, sp).type = t /\ StepEvt(t, sp).step = sp
  /\ \A t \in EventType, st \in Status, sp \in Step \cup {NoStep} :
       /\ FullEvt(t, st, sp) \in Event /\ FullEvt(t, st, sp).type = t
       /\ FullEvt(t, st, sp).step = sp /\ FullEvt(t, st, sp).status = st
  BY DEF Evt, StepEvt, FullEvt, Event, NoStatus

LEMMA EventKinds ==
  /\ DOMAIN STATUS_EVENTS = {"started", "paused", "resumed", "completed", "failed",
       "cancelled", "recovery.resumed", "recovery.checkpoint_restored"}
  /\ STATUS_EVENTS["started"] = "active"
  /\ STATUS_EVENTS["paused"] = "paused"
  /\ STATUS_EVENTS["resumed"] = "active"
  /\ STATUS_EVENTS["completed"] = "completed"
  /\ STATUS_EVENTS["failed"] = "failed"
  /\ STATUS_EVENTS["cancelled"] = "cancelled"
  /\ STATUS_EVENTS["recovery.resumed"] = "active"
  /\ STATUS_EVENTS["recovery.checkpoint_restored"] = "active"
  BY DEF STATUS_EVENTS

-----------------------------------------------------------------------------
(* Type correctness *)

\* Opening a transaction for an idle session keeps the typing invariant.
LEMMA BeginType ==
  ASSUME TypeOK, NEW s \in Session, NEW op \in Op, NEW w \in Workflow,
         NEW sp \in Step \cup {NoStep}, Begin(s, op, w, sp)
  PROVE  TypeOK'
<1>1. [sess |-> s, op |-> op, wf |-> w, step |-> sp] \in Txn
  BY DEF Txn
<1>2. txns' \subseteq Txn
  BY <1>1 DEF Begin, TypeOK
<1>3. \A t, u \in txns' : t.sess = u.sess => t = u
  BY DEF Begin, Idle, TypeOK
<1> QED BY <1>2, <1>3 DEF Begin, TypeOK, rows

\* Writing a row of the right type, appending an event, announcing, closing.
LEMMA WriteType ==
  ASSUME TypeOK, NEW w \in Workflow, NEW st \in Status, NEW sp \in Step \cup {NoStep},
         NEW e \in Event, SetWf(w, st, sp), Emit(w, e)
  PROVE  /\ wf' \in [Workflow -> [status : Status \cup {"absent"}, step : Step \cup {NoStep}]]
         /\ log' \in [Workflow -> Seq(Event)]
<1>1. wf' \in [Workflow -> [status : Status \cup {"absent"}, step : Step \cup {NoStep}]]
  BY DEF SetWf, TypeOK
<1>2. Append(log[w], e) \in Seq(Event)
  BY DEF TypeOK
<1> QED BY <1>1, <1>2 DEF Emit, TypeOK

LEMMA CloseType ==
  ASSUME TypeOK, NEW t, Close(t)
  PROVE  txns' \subseteq Txn /\ \A x, y \in txns' : x.sess = y.sess => x = y
BY DEF Close, TypeOK

LEMMA BeginSteps ==
  ASSUME TypeOK, NEW s \in Session, NEW w \in Workflow, BeginStep(s, w)
  PROVE  TypeOK' /\ UNCHANGED rows
<1>1. CASE BeginStart(s, w)
  BY <1>1, BeginType DEF BeginStart, Op, Begin
<1>2. ASSUME NEW sp \in Step, BeginAdvance(s, w, sp) PROVE TypeOK' /\ UNCHANGED rows
  BY <1>2, BeginType DEF BeginAdvance, Op, Begin
<1>3. CASE BeginRecover(s, w)
  BY <1>3, BeginType DEF BeginRecover, Op, Begin
<1>4. CASE BeginRestore(s, w)
  <2>1. checkpoints[w] \in Seq(Step) /\ checkpoints[w] # <<>>
    BY <1>4 DEF BeginRestore, TypeOK
  <2>2. checkpoints[w][Len(checkpoints[w])] \in Step \cup {NoStep}
    BY <2>1
  <2> QED BY <1>4, <2>2, BeginType DEF BeginRestore, Op, Begin
<1>5. CASE BeginRollback(s, w)
  BY <1>5, BeginType DEF BeginRollback, Op, Begin
<1>6. CASE BeginEscalate(s, w)
  BY <1>6, BeginType DEF BeginEscalate, Op, Begin
<1> QED BY <1>1, <1>2, <1>3, <1>4, <1>5, <1>6 DEF BeginStep

\* A locked transition of the lifecycle graph.
LEMMA TransitionType ==
  ASSUME TypeOK, NEW s \in Session, NEW w \in Workflow, NEW target \in Status,
         NEW type \in EventType, Transition(s, w, target, type)
  PROVE  TypeOK'
<1>1. wf[w].step \in Step \cup {NoStep}
  BY DEF TypeOK
<1>2. Evt(type) \in Event
  BY EventFacts
<1> QED BY <1>1, <1>2, WriteType DEF Transition, TypeOK

LEMMA EventTypes ==
  /\ {"started", "paused", "resumed", "completed", "failed", "cancelled",
      "recovery.resumed", "recovery.checkpoint_restored", "advanced", "rolled_back",
      "snapshot.restored", "approval.requested", "approval.resolved", "escalated",
      "compensating_action.recorded"} \subseteq EventType
BY EventKinds DEF EventType, STEP_EVENTS, UnmappedStatusEvents, AuditEvents

LEMMA LockedSteps ==
  ASSUME TypeOK, NEW s \in Session, NEW w \in Workflow, LockedStep(s, w)
  PROVE  TypeOK'
<1>1. CASE Pause(s, w)
  BY <1>1, TransitionType, EventTypes DEF Pause, Status
<1>2. CASE Resume(s, w)
  BY <1>2, TransitionType, EventTypes DEF Resume, Status
<1>3. CASE Complete(s, w)
  BY <1>3, TransitionType, EventTypes DEF Complete, Status
<1>4. CASE Fail(s, w)
  BY <1>4, TransitionType, EventTypes DEF Fail, Status
<1>5. CASE Cancel(s, w)
  BY <1>5, TransitionType, EventTypes DEF Cancel, Status
<1>6. ASSUME NEW sp \in Step, SetCheckpoint(s, w, sp) PROVE TypeOK'
  <2>1. Append(checkpoints[w], sp) \in Seq(Step)
    BY DEF TypeOK
  <2> QED BY <1>6, <2>1 DEF SetCheckpoint, TypeOK
<1>7. CASE TakeSnapshot(s, w)
  <2>1. wf[w] \in [status : Status, step : Step \cup {NoStep}]
    BY <1>7 DEF TakeSnapshot, Exists, TypeOK
  <2>2. Append(outbox[w], "snapshot.taken")
          \in Seq({"rollback.coordinated", "snapshot.taken", "snapshot.restored"})
    BY DEF TypeOK
  <2> QED BY <1>7, <2>1, <2>2 DEF TakeSnapshot, Announce, TypeOK
<1>8. ASSUME NEW snap \in snapshots[w], RestoreSnapshot(s, w, snap) PROVE TypeOK'
  <2>1. snap \in [status : Status, step : Step \cup {NoStep}]
    BY DEF TypeOK
  <2>2. snap.status \in Status /\ snap.step \in Step \cup {NoStep}
    BY <2>1
  <2>3. FullEvt("snapshot.restored", snap.status, snap.step) \in Event
    BY <2>2, EventFacts, EventTypes
  <2>4. Append(outbox[w], "snapshot.restored")
          \in Seq({"rollback.coordinated", "snapshot.taken", "snapshot.restored"})
    BY DEF TypeOK
  <2> QED BY <1>8, <2>2, <2>3, <2>4, WriteType DEF RestoreSnapshot, Announce, TypeOK
<1> QED BY <1>1, <1>2, <1>3, <1>4, <1>5, <1>6, <1>7, <1>8 DEF LockedStep

LEMMA CommitSteps ==
  ASSUME TypeOK, NEW t \in txns, CommitStep(t)
  PROVE  TypeOK'
<1> DEFINE w == t.wf
<1>1. /\ w \in Workflow /\ t.step \in Step \cup {NoStep}
      /\ wf[w].step \in Step \cup {NoStep}
  BY DEF TypeOK, Txn
<1>2. {"active", "cancelled"} \subseteq Status
  BY DEF Status
<1>3. CASE Start(t)
  BY <1>1, <1>2, <1>3, WriteType, CloseType, EventFacts, EventTypes DEF Start, TypeOK
<1>4. CASE Advance(t)
  BY <1>1, <1>2, <1>4, WriteType, CloseType, EventFacts, EventTypes DEF Advance, TypeOK
<1>5. CASE Recover(t)
  BY <1>1, <1>2, <1>5, WriteType, CloseType, EventFacts, EventTypes DEF Recover, TypeOK
<1>6. CASE Restore(t)
  BY <1>1, <1>2, <1>6, WriteType, CloseType, EventFacts, EventTypes DEF Restore, TypeOK
<1>7. ASSUME NEW compensated \in BOOLEAN, Rollback(t, compensated) PROVE TypeOK'
  <2>1. /\ Append(log[w], Evt("rolled_back")) \in Seq(Event)
        /\ Append(Append(log[w], Evt("rolled_back")), Evt("compensating_action.recorded"))
             \in Seq(Event)
    BY <1>1, EventFacts, EventTypes DEF TypeOK
  <2>2. log' \in [Workflow -> Seq(Event)]
    BY <1>7, <2>1 DEF Rollback, TypeOK
  <2>3. Append(outbox[w], "rollback.coordinated")
          \in Seq({"rollback.coordinated", "snapshot.taken", "snapshot.restored"})
    BY <1>1 DEF TypeOK
  <2>4. outbox' \in [Workflow -> Seq({"rollback.coordinated", "snapshot.taken", "snapshot.restored"})]
    BY <1>7, <2>3 DEF Rollback, Announce, TypeOK
  <2>5. wf' \in [Workflow -> [status : Status \cup {"absent"}, step : Step \cup {NoStep}]]
    BY <1>1, <1>2, <1>7 DEF Rollback, SetWf, TypeOK
  <2>6. txns' \subseteq Txn /\ \A x, y \in txns' : x.sess = y.sess => x = y
    BY <1>7, CloseType DEF Rollback
  <2> QED BY <1>7, <2>2, <2>4, <2>5, <2>6 DEF Rollback, TypeOK
<1>8. CASE Escalate(t)
  <2>1. Append(log[w], Evt("escalated")) \in Seq(Event)
    BY <1>1, EventFacts, EventTypes DEF TypeOK
  <2> QED BY <1>8, <2>1, CloseType DEF Escalate, Emit, TypeOK
<1>9. CASE Abort(t)
  BY <1>9, CloseType DEF Abort, rows, TypeOK
<1> QED BY <1>3, <1>4, <1>5, <1>6, <1>7, <1>8, <1>9 DEF CommitStep

LEMMA TypeInit == Init => TypeOK
<1> SUFFICES ASSUME Init PROVE TypeOK
  OBVIOUS
<1>1. Absent \in [status : Status \cup {"absent"}, step : Step \cup {NoStep}]
  BY DEF Absent
<1> QED BY <1>1 DEF Init, TypeOK

LEMMA TypeNext == TypeOK /\ [Next]_vars => TypeOK'
<1> SUFFICES ASSUME TypeOK, [Next]_vars PROVE TypeOK'
  OBVIOUS
<1>1. ASSUME NEW s \in Session, NEW w \in Workflow, BeginStep(s, w) PROVE TypeOK'
  BY <1>1, BeginSteps
<1>2. ASSUME NEW s \in Session, NEW w \in Workflow, LockedStep(s, w) PROVE TypeOK'
  BY <1>2, LockedSteps
<1>3. ASSUME NEW t \in txns, CommitStep(t) PROVE TypeOK'
  BY <1>3, CommitSteps
<1>4. CASE FreezeStep
  BY <1>4 DEF FreezeStep, Freeze, Unfreeze, TypeOK
<1>5. CASE UNCHANGED vars
  BY <1>5 DEF vars, TypeOK
<1> QED BY <1>1, <1>2, <1>3, <1>4, <1>5 DEF Next

\* Every reachable state of the runtime is well typed, whatever the number of
\* workflows, sessions and steps.
THEOREM TypeCorrect == Spec => []TypeOK
BY TypeInit, TypeNext, PTL DEF Spec

-----------------------------------------------------------------------------
(* EventSourced *)

LEMMA RecordInit == Init => IInv
<1> SUFFICES ASSUME Init PROVE IInv
  OBVIOUS
<1>1. \A w \in Workflow : \A types : Positions(log[w], types) = {}
  BY DEF Init, Positions
<1> QED
  BY <1>1, TypeInit
  DEF Init, IInv, LogsOrdered, HasLast, EventSourced, RecordedStatus, RecordedStep, Absent,
      StartsAreFresh

\* A step that touches neither a row nor a log.
LEMMA QuietStep ==
  ASSUME IInv, UNCHANGED <<wf, log>>
  PROVE  LogsOrdered' /\ EventSourced'
BY DEF IInv, LogsOrdered, EventSourced

LEMMA TransitionRecorded ==
  ASSUME IInv, NEW s \in Session, NEW w \in Workflow, NEW target \in Status,
         NEW type \in {"paused", "resumed", "completed", "failed", "cancelled"},
         STATUS_EVENTS[type] = target, Transition(s, w, target, type)
  PROVE  LogsOrdered' /\ EventSourced'
<1>1. /\ Evt(type) \in Event /\ Evt(type).type = type
      /\ type \in StatusChanging /\ type \notin StepChanging
      /\ EventStatus(Evt(type)) = target
  BY EventFacts, EventTypes, EventKinds DEF StatusChanging, StepChanging, STEP_EVENTS, EventStatus
<1> QED BY <1>1, WriteRecorded DEF Transition

LEMMA LockedRecorded ==
  ASSUME IInv, NEW s \in Session, NEW w \in Workflow, LockedStep(s, w)
  PROVE  LogsOrdered' /\ EventSourced'
<1>1. CASE Pause(s, w)
  BY <1>1, TransitionRecorded, EventKinds DEF Pause, Status
<1>2. CASE Resume(s, w)
  BY <1>2, TransitionRecorded, EventKinds DEF Resume, Status
<1>3. CASE Complete(s, w)
  BY <1>3, TransitionRecorded, EventKinds DEF Complete, Status
<1>4. CASE Fail(s, w)
  BY <1>4, TransitionRecorded, EventKinds DEF Fail, Status
<1>5. CASE Cancel(s, w)
  BY <1>5, TransitionRecorded, EventKinds DEF Cancel, Status
<1>6. ASSUME NEW sp \in Step, SetCheckpoint(s, w, sp) PROVE LogsOrdered' /\ EventSourced'
  BY <1>6, QuietStep DEF SetCheckpoint
<1>7. CASE TakeSnapshot(s, w)
  BY <1>7, QuietStep DEF TakeSnapshot
<1>8. ASSUME NEW snap \in snapshots[w], RestoreSnapshot(s, w, snap)
      PROVE  LogsOrdered' /\ EventSourced'
  <2> DEFINE e == FullEvt("snapshot.restored", snap.status, snap.step)
  <2>1. snap.status \in Status /\ snap.step \in Step \cup {NoStep}
    BY DEF IInv, TypeOK
  <2>2. /\ e \in Event /\ e.type = "snapshot.restored"
        /\ e.step = snap.step /\ e.status = snap.status
    BY <2>1, EventFacts, EventTypes
  <2>3. e.type \in StatusChanging /\ e.type \in StepChanging /\ EventStatus(e) = snap.status
    BY <2>2, EventKinds DEF StatusChanging, StepChanging, UnmappedStatusEvents, EventStatus
  <2> HIDE DEF e
  <2> QED BY <1>8, <2>2, <2>3, WriteRecorded DEF RestoreSnapshot, e
<1> QED BY <1>1, <1>2, <1>3, <1>4, <1>5, <1>6, <1>7, <1>8 DEF LockedStep

\* A rollback: the row is cancelled with one event, or one and an audit event.
LEMMA RollbackRecorded ==
  ASSUME IInv, NEW w \in Workflow, NEW compensated \in BOOLEAN,
         SetWf(w, "cancelled", wf[w].step),
         LET rolled == Append(log[w], Evt("rolled_back"))
         IN log' = [log EXCEPT ![w] =
                      IF compensated THEN Append(rolled, Evt("compensating_action.recorded"))
                                     ELSE rolled]
  PROVE  LogsOrdered' /\ EventSourced'
<1> DEFINE r == Evt("rolled_back")
           c == Evt("compensating_action.recorded")
           old == log[w]
           mid == Append(old, r)
<1>1. /\ r \in Event /\ r.type = "rolled_back"
      /\ r.type \in StatusChanging /\ r.type \notin StepChanging /\ EventStatus(r) = "cancelled"
      /\ c \in Event /\ c.type = "compensating_action.recorded"
      /\ c.type \notin StatusChanging /\ c.type \notin StepChanging
  BY EventFacts, EventTypes, EventKinds
  DEF StatusChanging, StepChanging, STEP_EVENTS, UnmappedStatusEvents, EventStatus
<1> HIDE DEF r, c
<1>2. /\ old \in Seq(Event) /\ HasLast(old, StatusChanging) /\ HasLast(old, StepChanging)
  BY DEF IInv, TypeOK, LogsOrdered
<1>3. /\ mid \in Seq(Event)
      /\ RecordedStatus(mid, "absent") = "cancelled"
      /\ RecordedStep(mid) = RecordedStep(old)
      /\ HasLast(mid, StatusChanging) /\ HasLast(mid, StepChanging)
  BY <1>1, <1>2, RecordedAppend
<1>4. /\ RecordedStatus(Append(mid, c), "absent") = "cancelled"
      /\ RecordedStep(Append(mid, c)) = RecordedStep(old)
      /\ HasLast(Append(mid, c), StatusChanging) /\ HasLast(Append(mid, c), StepChanging)
  BY <1>1, <1>3, RecordedAppend
<1>5. /\ log'[w] = IF compensated THEN Append(mid, c) ELSE mid
      /\ \A x \in Workflow : x # w => log'[x] = log[x]
  BY DEF IInv, TypeOK, r, c
<1>6. \A x \in Workflow :
        wf'[x] = IF x = w THEN [status |-> "cancelled", step |-> wf[w].step] ELSE wf[x]
  BY DEF SetWf, IInv, TypeOK
<1> HIDE DEF mid
<1>7. /\ RecordedStatus(log'[w], "absent") = "cancelled"
      /\ RecordedStep(log'[w]) = RecordedStep(old)
      /\ HasLast(log'[w], StatusChanging) /\ HasLast(log'[w], StepChanging)
  BY <1>3, <1>4, <1>5
<1> QED BY <1>5, <1>6, <1>7 DEF IInv, LogsOrdered, EventSourced

LEMMA CommitRecorded ==
  ASSUME IInv, NEW t \in txns, CommitStep(t)
  PROVE  LogsOrdered' /\ EventSourced'
<1> DEFINE w == t.wf
<1>1. w \in Workflow /\ t.step \in Step \cup {NoStep}
  BY DEF IInv, TypeOK, Txn
<1>2. CASE Start(t)
  <2>1. /\ Evt("started") \in Event /\ Evt("started").type = "started"
        /\ "started" \in StatusChanging /\ "started" \notin StepChanging
        /\ EventStatus(Evt("started")) = "active"
    BY EventFacts, EventTypes, EventKinds DEF StatusChanging, StepChanging, STEP_EVENTS, EventStatus
  <2>2. wf[w].step = NoStep
    BY <1>1, <1>2 DEF Start, IInv, StartsAreFresh
  <2> QED BY <1>1, <1>2, <2>1, <2>2, WriteRecorded DEF Start
<1>3. CASE Advance(t)
  <2>1. /\ StepEvt("advanced", t.step) \in Event
        /\ StepEvt("advanced", t.step).type = "advanced"
        /\ StepEvt("advanced", t.step).step = t.step
        /\ "advanced" \notin StatusChanging /\ "advanced" \in StepChanging
    BY <1>1, EventFacts, EventTypes, EventKinds
    DEF StatusChanging, StepChanging, STEP_EVENTS, UnmappedStatusEvents
  <2> QED BY <1>1, <1>3, <2>1, WriteRecorded DEF Advance
<1>4. CASE Recover(t)
  <2>1. /\ Evt("recovery.resumed") \in Event
        /\ Evt("recovery.resumed").type = "recovery.resumed"
        /\ "recovery.resumed" \in StatusChanging /\ "recovery.resumed" \notin StepChanging
        /\ EventStatus(Evt("recovery.resumed")) = "active"
    BY EventFacts, EventTypes, EventKinds DEF StatusChanging, StepChanging, STEP_EVENTS, EventStatus
  <2> QED BY <1>1, <1>4, <2>1, WriteRecorded DEF Recover
<1>5. CASE Restore(t)
  <2> DEFINE e == StepEvt("recovery.checkpoint_restored", t.step)
  <2>1. /\ e \in Event /\ e.type = "recovery.checkpoint_restored" /\ e.step = t.step
        /\ e.type \in StatusChanging /\ e.type \in StepChanging
        /\ EventStatus(e) = "active"
    BY <1>1, EventFacts, EventTypes, EventKinds DEF StatusChanging, StepChanging, STEP_EVENTS, EventStatus
  <2> HIDE DEF e
  <2> QED BY <1>1, <1>5, <2>1, WriteRecorded DEF Restore, e
<1>6. ASSUME NEW compensated \in BOOLEAN, Rollback(t, compensated)
      PROVE  LogsOrdered' /\ EventSourced'
  BY <1>1, <1>6, RollbackRecorded DEF Rollback
<1>7. CASE Escalate(t)
  <2>1. /\ Evt("escalated") \in Event /\ Evt("escalated").type = "escalated"
        /\ "escalated" \notin StatusChanging /\ "escalated" \notin StepChanging
    BY EventFacts, EventTypes, EventKinds
    DEF StatusChanging, StepChanging, STEP_EVENTS, UnmappedStatusEvents
  <2> QED BY <1>1, <1>7, <2>1, EmitOrdered DEF Escalate, EventSourced, IInv
<1>8. CASE Abort(t)
  BY <1>8, QuietStep DEF Abort, rows
<1> QED BY <1>2, <1>3, <1>4, <1>5, <1>6, <1>7, <1>8 DEF CommitStep

\* No row goes back to "absent", and only BeginStart opens a creating
\* transaction, on a row that is absent and that nobody works on.
LEMMA FreshNext == IInv /\ [Next]_vars => StartsAreFresh'
<1> SUFFICES ASSUME IInv, [Next]_vars PROVE StartsAreFresh'
  OBVIOUS
<1>1. ASSUME NEW s \in Session, NEW w \in Workflow, BeginStep(s, w) PROVE StartsAreFresh'
  <2>1. CASE BeginStart(s, w)
    BY <2>1 DEF BeginStart, Begin, rows, Exists, IInv, StartsAreFresh
  <2>2. ASSUME NEW op \in Op \ {"start"}, NEW sp, Exists(w), Begin(s, op, w, sp)
        PROVE  StartsAreFresh'
    BY <2>2 DEF Begin, rows, Exists, IInv, StartsAreFresh
  <2>3. ASSUME NEW sp \in Step, BeginAdvance(s, w, sp) PROVE StartsAreFresh'
    BY <2>2, <2>3 DEF BeginAdvance, Op
  <2>4. CASE BeginRecover(s, w)
    BY <2>2, <2>4 DEF BeginRecover, Op, Exists
  <2>5. CASE BeginRestore(s, w)
    BY <2>2, <2>5 DEF BeginRestore, Op
  <2>6. CASE BeginRollback(s, w)
    BY <2>2, <2>6 DEF BeginRollback, Op
  <2>7. CASE BeginEscalate(s, w)
    BY <2>2, <2>7 DEF BeginEscalate, Op, Exists
  <2> QED BY <1>1, <2>1, <2>3, <2>4, <2>5, <2>6, <2>7 DEF BeginStep
<1>2. ASSUME NEW w \in Workflow, NEW st \in Status, NEW sp, SetWf(w, st, sp),
             txns' \subseteq txns, \A t \in txns' : t.wf = w => t.op # "start"
      PROVE  StartsAreFresh'
  <2>1. \A x \in Workflow :
          wf'[x] = IF x = w THEN [status |-> st, step |-> sp] ELSE wf[x]
    BY <1>2 DEF SetWf, IInv, TypeOK
  <2>2. st # "absent" /\ \A t \in txns : t.wf \in Workflow
    BY DEF Status, IInv, TypeOK, Txn
  <2> QED BY <1>2, <2>1, <2>2 DEF IInv, StartsAreFresh, Exists
<1>3. ASSUME NEW s \in Session, NEW w \in Workflow, LockedStep(s, w) PROVE StartsAreFresh'
  <2>1. ASSUME NEW target \in Status, NEW type, Transition(s, w, target, type)
        PROVE  StartsAreFresh'
    BY <2>1, <1>2 DEF Transition, IInv, StartsAreFresh
  <2>2. CASE Pause(s, w) \/ Resume(s, w) \/ Complete(s, w) \/ Fail(s, w) \/ Cancel(s, w)
    BY <2>1, <2>2 DEF Pause, Resume, Complete, Fail, Cancel, Status
  <2>3. ASSUME NEW sp \in Step, SetCheckpoint(s, w, sp) PROVE StartsAreFresh'
    BY <2>3 DEF SetCheckpoint, IInv, StartsAreFresh, Exists
  <2>4. CASE TakeSnapshot(s, w)
    BY <2>4 DEF TakeSnapshot, IInv, StartsAreFresh, Exists
  <2>5. ASSUME NEW snap \in snapshots[w], RestoreSnapshot(s, w, snap) PROVE StartsAreFresh'
    <3>1. snap.status \in Status
      BY DEF IInv, TypeOK
    <3> QED BY <2>5, <3>1, <1>2 DEF RestoreSnapshot, IInv, StartsAreFresh
  <2> QED BY <1>3, <2>2, <2>3, <2>4, <2>5 DEF LockedStep
<1>4. ASSUME NEW t \in txns, CommitStep(t) PROVE StartsAreFresh'
  <2>1. t.wf \in Workflow /\ {"active", "cancelled"} \subseteq Status
    BY DEF IInv, TypeOK, Txn, Status
  <2>2. txns' = txns \ {t}
    BY <1>4 DEF CommitStep, Start, Advance, Recover, Restore, Rollback, Escalate, Abort, Close
  <2>3. ASSUME NEW sp, NEW st \in Status, SetWf(t.wf, st, sp) PROVE StartsAreFresh'
    BY <2>1, <2>2, <2>3, <1>2 DEF IInv, StartsAreFresh
  <2>4. CASE Escalate(t) \/ Abort(t)
    BY <2>2, <2>4 DEF Escalate, Abort, rows, IInv, StartsAreFresh, Exists
  <2> QED BY <1>4, <2>1, <2>3, <2>4
          DEF CommitStep, Start, Advance, Recover, Restore, Rollback
<1>5. CASE FreezeStep
  BY <1>5 DEF FreezeStep, Freeze, Unfreeze, IInv, StartsAreFresh, Exists
<1>6. CASE UNCHANGED vars
  BY <1>6 DEF vars, IInv, StartsAreFresh, Exists
<1> QED BY <1>1, <1>3, <1>4, <1>5, <1>6 DEF Next

LEMMA RecordNext == IInv /\ [Next]_vars => IInv'
<1> SUFFICES ASSUME IInv, [Next]_vars PROVE LogsOrdered' /\ EventSourced'
  BY TypeNext, FreshNext DEF IInv
<1>1. ASSUME NEW s \in Session, NEW w \in Workflow, BeginStep(s, w)
      PROVE  LogsOrdered' /\ EventSourced'
  BY <1>1, BeginSteps, QuietStep DEF IInv, rows
<1>2. ASSUME NEW s \in Session, NEW w \in Workflow, LockedStep(s, w)
      PROVE  LogsOrdered' /\ EventSourced'
  BY <1>2, LockedRecorded
<1>3. ASSUME NEW t \in txns, CommitStep(t) PROVE LogsOrdered' /\ EventSourced'
  BY <1>3, CommitRecorded
<1>4. CASE FreezeStep
  BY <1>4, QuietStep DEF FreezeStep, Freeze, Unfreeze
<1>5. CASE UNCHANGED vars
  BY <1>5, QuietStep DEF vars
<1> QED BY <1>1, <1>2, <1>3, <1>4, <1>5 DEF Next

\* Whatever locked and unlocked writers interleave, the persisted state of a
\* workflow is the one its complete event log records.
THEOREM EventSourcing == Spec => []EventSourced
<1>1. IInv => EventSourced
  BY DEF IInv
<1> QED BY <1>1, RecordInit, RecordNext, PTL DEF Spec

-----------------------------------------------------------------------------
(* Draining *)

LEMMA DrainStep ==
  ASSUME IInv, [Next]_vars, NEW w \in Workflow
  PROVE  DrainsStale(w)
<1> USE DEF IInv
<1> SUFFICES ASSUME wf[w].status \in {"completed", "cancelled"}
             PROVE  /\ Stale(w)' \subseteq Stale(w)
                    /\ wf'[w] # wf[w] => Stale(w)' # Stale(w)
  BY DEF DrainsStale
<1>1. ASSUME NEW s \in Session, NEW x \in Workflow, BeginStep(s, x)
      PROVE  wf' = wf /\ Stale(w)' \subseteq Stale(w)
  <2>1. wf' = wf
    BY <1>1, BeginSteps DEF rows
  <2> SUFFICES Stale(w)' \subseteq Stale(w)
    BY <2>1
  <2>2. ASSUME NEW op \in Op, NEW sp, Begin(s, op, x, sp),
               op \in {"recover", "rollback"} => x # w
        PROVE  Stale(w)' \subseteq Stale(w)
    BY <2>2 DEF Begin, Stale
  <2>3. CASE BeginStart(s, x)
    BY <2>2, <2>3 DEF BeginStart, Op
  <2>4. ASSUME NEW sp \in Step, BeginAdvance(s, x, sp) PROVE Stale(w)' \subseteq Stale(w)
    BY <2>2, <2>4 DEF BeginAdvance, Op
  <2>5. CASE BeginRecover(s, x)
    BY <2>2, <2>5 DEF BeginRecover, Op
  <2>6. CASE BeginRestore(s, x)
    BY <2>2, <2>6 DEF BeginRestore, Op
  <2>7. CASE BeginRollback(s, x)
    BY <2>2, <2>7 DEF BeginRollback, Op, TERMINAL_STATES
  <2>8. CASE BeginEscalate(s, x)
    BY <2>2, <2>8 DEF BeginEscalate, Op
  <2> QED BY <1>1, <2>1, <2>3, <2>4, <2>5, <2>6, <2>7, <2>8 DEF BeginStep
<1>2. ASSUME NEW s \in Session, NEW x \in Workflow, LockedStep(s, x)
      PROVE  wf'[w] = wf[w] /\ txns' = txns
  <2>1. ASSUME NEW target, NEW type, Transition(s, x, target, type)
        PROVE  wf'[w] = wf[w] /\ txns' = txns
    BY <2>1 DEF Transition, SetWf, validate_transition, TERMINAL_STATES, TypeOK
  <2>2. CASE Pause(s, x) \/ Resume(s, x) \/ Complete(s, x) \/ Fail(s, x) \/ Cancel(s, x)
    BY <2>1, <2>2 DEF Pause, Resume, Complete, Fail, Cancel
  <2>3. ASSUME NEW sp \in Step, SetCheckpoint(s, x, sp) PROVE wf'[w] = wf[w] /\ txns' = txns
    BY <2>3 DEF SetCheckpoint
  <2>4. CASE TakeSnapshot(s, x)
    BY <2>4 DEF TakeSnapshot
  <2>5. ASSUME NEW snap \in snapshots[x], RestoreSnapshot(s, x, snap)
        PROVE  wf'[w] = wf[w] /\ txns' = txns
    BY <2>5 DEF RestoreSnapshot, SetWf, TypeOK
  <2> QED BY <1>2, <2>2, <2>3, <2>4, <2>5 DEF LockedStep
<1>3. ASSUME NEW t \in txns, CommitStep(t)
      PROVE  /\ Stale(w)' \subseteq Stale(w)
             /\ wf'[w] # wf[w] => Stale(w)' # Stale(w)
  <2>1. txns' = txns \ {t}
    BY <1>3 DEF CommitStep, Start, Advance, Recover, Restore, Rollback, Escalate, Abort, Close
  <2>2. CASE t \in Stale(w)
    BY <2>1, <2>2 DEF Stale
  <2>3. CASE t \notin Stale(w)
    <3> SUFFICES wf'[w] = wf[w]
      BY <2>1 DEF Stale
    <3>1. CASE t.wf # w
      <4>1. \A st, sp : SetWf(t.wf, st, sp) => wf'[w] = wf[w]
        BY <3>1 DEF SetWf, TypeOK
      <4> QED BY <1>3, <4>1 DEF CommitStep, Start, Advance, Recover, Restore, Rollback,
                                Escalate, Abort, rows
    <3>2. CASE t.wf = w
      <4>1. t.op \notin {"start", "recover", "rollback"}
        BY <2>3, <3>2 DEF Stale, StartsAreFresh, Exists
      <4> QED BY <1>3, <3>2, <4>1 DEF CommitStep, Start, Advance, Recover, Restore, Rollback,
                                      Escalate, Abort, rows
    <3> QED BY <3>1, <3>2
  <2> QED BY <2>2, <2>3
<1>4. CASE FreezeStep \/ UNCHANGED vars
  BY <1>4 DEF FreezeStep, Freeze, Unfreeze, vars, Stale
<1>5. UNCHANGED txns => Stale(w)' = Stale(w)
  BY DEF Stale
<1> QED BY <1>1, <1>2, <1>3, <1>4, <1>5 DEF Next

\* A completed or cancelled workflow changes again only by an unlocked writer
\* that had read it before, and each of those can do it once.
THEOREM TerminalDraining == Spec => TerminalDrains
<1>1. IInv /\ [Next]_vars => [\A w \in Workflow : DrainsStale(w)]_vars
  BY DrainStep
<1> QED BY <1>1, RecordInit, RecordNext, PTL DEF Spec, TerminalDrains

\* An event of another kind adds no position.
LEMMA PositionsOther ==
  ASSUME NEW s \in Seq(Event), NEW e \in Event, NEW types, e.type \notin types
  PROVE  Append(s, e) \in Seq(Event) /\ Positions(Append(s, e), types) = Positions(s, types)
BY DEF Positions

Gated == {"started", "advanced"}

LEMMA EmitUngated ==
  ASSUME TypeOK, NEW x \in Workflow, NEW e \in Event, Emit(x, e), e.type \notin Gated,
         NEW w \in Workflow
  PROVE  GatedEvents(w)' = GatedEvents(w)
<1>1. log[x] \in Seq(Event) /\ log'[w] = IF w = x THEN Append(log[x], e) ELSE log[w]
  BY DEF Emit, TypeOK
<1> QED BY <1>1, PositionsOther DEF GatedEvents, Gated

LEMMA GateStep ==
  ASSUME IInv, [Next]_vars
  PROVE  DrainsAdmitted
<1> USE DEF IInv
<1> SUFFICES ASSUME "global" \in frozen, "global" \in frozen'
             PROVE  /\ Admitted' \subseteq Admitted
                    /\ (\E w \in Workflow : GatedEvents(w)' # GatedEvents(w))
                         => Admitted' # Admitted
  BY DEF DrainsAdmitted
<1>1. ASSUME NEW s \in Session, NEW x \in Workflow, BeginStep(s, x)
      PROVE  log' = log /\ Admitted' = Admitted
  <2>1. log' = log
    BY <1>1, BeginSteps DEF rows
  <2>2. ASSUME NEW op \in Op \ {"start", "advance"}, NEW sp, Begin(s, op, x, sp)
        PROVE  Admitted' = Admitted
    BY <2>2 DEF Begin, Admitted
  <2> QED BY <1>1, <2>1, <2>2
          DEF BeginStep, BeginStart, BeginAdvance, BeginRecover, BeginRestore, BeginRollback,
              BeginEscalate, Op, Passes
<1>2. ASSUME NEW s \in Session, NEW x \in Workflow, LockedStep(s, x), NEW w \in Workflow
      PROVE  GatedEvents(w)' = GatedEvents(w) /\ txns' = txns
  <2>1. ASSUME NEW target, NEW type \in EventType \ Gated, Transition(s, x, target, type)
        PROVE  GatedEvents(w)' = GatedEvents(w) /\ txns' = txns
    <3>1. Evt(type) \in Event /\ Evt(type).type \notin Gated
      BY EventFacts
    <3> QED BY <2>1, <3>1, EmitUngated DEF Transition
  <2>2. CASE Pause(s, x) \/ Resume(s, x) \/ Complete(s, x) \/ Fail(s, x) \/ Cancel(s, x)
    BY <2>1, <2>2, EventTypes DEF Pause, Resume, Complete, Fail, Cancel, Gated
  <2>3. ASSUME NEW sp \in Step, SetCheckpoint(s, x, sp)
        PROVE  GatedEvents(w)' = GatedEvents(w) /\ txns' = txns
    BY <2>3 DEF SetCheckpoint, GatedEvents
  <2>4. CASE TakeSnapshot(s, x)
    BY <2>4 DEF TakeSnapshot, GatedEvents
  <2>5. ASSUME NEW snap \in snapshots[x], RestoreSnapshot(s, x, snap)
        PROVE  GatedEvents(w)' = GatedEvents(w) /\ txns' = txns
    <3>1. snap.status \in Status /\ snap.step \in Step \cup {NoStep}
      BY DEF TypeOK
    <3>2. /\ FullEvt("snapshot.restored", snap.status, snap.step) \in Event
          /\ FullEvt("snapshot.restored", snap.status, snap.step).type \notin Gated
      BY <3>1, EventFacts, EventTypes DEF Gated
    <3> QED BY <2>5, <3>2, EmitUngated DEF RestoreSnapshot
  <2> QED BY <1>2, <2>2, <2>3, <2>4, <2>5 DEF LockedStep
<1>3. ASSUME NEW t \in txns, CommitStep(t)
      PROVE  /\ Admitted' \subseteq Admitted
             /\ \A w \in Workflow : GatedEvents(w)' # GatedEvents(w) => Admitted' # Admitted
  <2>1. txns' = txns \ {t}
    BY <1>3 DEF CommitStep, Start, Advance, Recover, Restore, Rollback, Escalate, Abort, Close
  <2>2. CASE t.op \in {"start", "advance"}
    BY <2>1, <2>2 DEF Admitted
  <2>3. CASE t.op \notin {"start", "advance"}
    <3> SUFFICES ASSUME NEW w \in Workflow PROVE GatedEvents(w)' = GatedEvents(w)
      BY <2>1 DEF Admitted
    <3>1. t.wf \in Workflow /\ t.step \in Step \cup {NoStep}
      BY DEF TypeOK, Txn
    <3>2. CASE Recover(t)
      BY <3>1, <3>2, EmitUngated, EventFacts, EventTypes DEF Recover, Gated
    <3>3. CASE Restore(t)
      BY <3>1, <3>3, EmitUngated, EventFacts, EventTypes DEF Restore, Gated
    <3>4. CASE Escalate(t)
      BY <3>1, <3>4, EmitUngated, EventFacts, EventTypes DEF Escalate, Gated
    <3>5. CASE Abort(t)
      BY <3>5 DEF Abort, rows, GatedEvents
    <3>6. ASSUME NEW compensated \in BOOLEAN, Rollback(t, compensated)
          PROVE  GatedEvents(w)' = GatedEvents(w)
      <4> DEFINE r == Evt("rolled_back")
                 c == Evt("compensating_action.recorded")
      <4>1. r \in Event /\ c \in Event /\ r.type \notin Gated /\ c.type \notin Gated
        BY EventFacts, EventTypes DEF Gated
      <4>2. log[t.wf] \in Seq(Event)
        BY <3>1 DEF TypeOK
      <4>3. /\ Append(log[t.wf], r) \in Seq(Event)
            /\ Positions(Append(log[t.wf], r), Gated) = Positions(log[t.wf], Gated)
        BY <4>1, <4>2, PositionsOther
      <4>4. Positions(Append(Append(log[t.wf], r), c), Gated) = Positions(log[t.wf], Gated)
        BY <4>1, <4>3, PositionsOther
      <4>5. log'[w] = IF w = t.wf
                      THEN IF compensated THEN Append(Append(log[t.wf], r), c)
                                          ELSE Append(log[t.wf], r)
                      ELSE log[w]
        BY <3>6, <3>1 DEF Rollback, TypeOK
      <4> QED BY <4>3, <4>4, <4>5 DEF GatedEvents, Gated
    <3> QED BY <1>3, <2>3, <3>2, <3>3, <3>4, <3>5, <3>6 DEF CommitStep, Start, Advance
  <2> QED BY <2>2, <2>3
<1>4. CASE FreezeStep \/ UNCHANGED vars
  BY <1>4 DEF FreezeStep, Freeze, Unfreeze, vars, Admitted, GatedEvents
<1>5. (log' = log => \A w \in Workflow : GatedEvents(w)' = GatedEvents(w))
      /\ (txns' = txns => Admitted' = Admitted)
  BY DEF GatedEvents, Admitted
<1> QED BY <1>1, <1>2, <1>3, <1>4, <1>5 DEF Next

\* While the global freeze holds nothing new passes the gate, and every start
\* or advance still recorded uses up a transaction that passed before it.
THEOREM FreezeDraining == Spec => FreezeDrains
<1>1. IInv /\ [Next]_vars => [DrainsAdmitted]_vars
  BY GateStep
<1> QED BY <1>1, RecordInit, RecordNext, PTL DEF Spec, FreezeDrains

-----------------------------------------------------------------------------
(* Replay *)

\* The last event of a wide kind is also the last of a narrower kind it has.
LEMMA NarrowLast ==
  ASSUME NEW s \in Seq(Event), NEW wide, NEW narrow, narrow \subseteq wide,
         HasLast(s, wide), Positions(s, wide) # {},
         s[LastPos(s, wide)].type \in narrow
  PROVE  Positions(s, narrow) # {} /\ LastPos(s, narrow) = LastPos(s, wide)
<1> DEFINE p == LastPos(s, wide)
<1>1. /\ Positions(s, narrow) \subseteq Positions(s, wide)
      /\ Positions(s, wide) \subseteq Nat
      /\ p \in Positions(s, narrow)
  BY DEF HasLast, Positions
<1>2. \A j \in Positions(s, narrow) : j <= p
  BY <1>1 DEF HasLast
<1> HIDE DEF p
<1>3. \A i \in Positions(s, narrow) :
        (\A j \in Positions(s, narrow) : j <= i) => i = p
  BY <1>1, <1>2
<1>4. LastPos(s, narrow) = p
  BY <1>1, <1>2, <1>3 DEF LastPos
<1> QED BY <1>1, <1>4 DEF p

\* Replay derives the persisted status (step) whenever the last event that
\* changed it is one the replay table maps.
THEOREM ReplayIsFaithful == Spec => []ReplayFaithful
<1>1. IInv => ReplayFaithful
  <2> SUFFICES ASSUME IInv, NEW w \in Workflow
               PROVE  /\ Positions(log[w], StatusChanging) # {}
                           /\ log[w][LastPos(log[w], StatusChanging)].type \in DOMAIN STATUS_EVENTS
                         => ReplayStatus(log[w]) = wf[w].status
                      /\ Positions(log[w], StepChanging) # {}
                           /\ log[w][LastPos(log[w], StepChanging)].type \in STEP_EVENTS
                         => ReplayStep(log[w]) = wf[w].step
    BY DEF ReplayFaithful
  <2>1. /\ log[w] \in Seq(Event)
        /\ HasLast(log[w], StatusChanging) /\ HasLast(log[w], StepChanging)
        /\ wf[w].status = RecordedStatus(log[w], "absent")
        /\ wf[w].step = RecordedStep(log[w])
    BY DEF IInv, TypeOK, LogsOrdered, EventSourced
  <2>2. DOMAIN STATUS_EVENTS \subseteq StatusChanging /\ STEP_EVENTS \subseteq StepChanging
    BY DEF StatusChanging, StepChanging
  <2>3. ASSUME Positions(log[w], StatusChanging) # {},
               log[w][LastPos(log[w], StatusChanging)].type \in DOMAIN STATUS_EVENTS
        PROVE  ReplayStatus(log[w]) = wf[w].status
    <3>1. \A e : e.type \in DOMAIN STATUS_EVENTS => EventStatus(e) = STATUS_EVENTS[e.type]
      BY EventKinds DEF EventStatus
    <3>2. wf[w].status = STATUS_EVENTS[log[w][LastPos(log[w], StatusChanging)].type]
      BY <2>1, <2>3, <3>1 DEF RecordedStatus
    <3> QED BY <2>1, <2>2, <2>3, <3>2, NarrowLast DEF ReplayStatus
  <2>4. ASSUME Positions(log[w], StepChanging) # {},
               log[w][LastPos(log[w], StepChanging)].type \in STEP_EVENTS
        PROVE  ReplayStep(log[w]) = wf[w].step
    BY <2>1, <2>2, <2>4, NarrowLast DEF ReplayStep, RecordedStep
  <2> QED BY <2>3, <2>4
<1> QED BY <1>1, RecordInit, RecordNext, PTL DEF Spec

-----------------------------------------------------------------------------
(* RollbackAnnounced: what one more entry adds to the number of entries of *)
(* a kind, in the log and in the outbox.                                    *)

LEMMA PositionsFinite ==
  ASSUME NEW s \in Seq(Event), NEW types
  PROVE  IsFiniteSet(Positions(s, types)) /\ Cardinality(Positions(s, types)) \in Nat
<1>1. IsFiniteSet(1..Len(s))
  BY FS_Interval
<1> QED BY <1>1, FS_Subset, FS_CardinalityType DEF Positions

LEMMA PositionsAnother ==
  ASSUME NEW s \in Seq(Event), NEW e \in Event, NEW types, e.type \in types
  PROVE  Cardinality(Positions(Append(s, e), types)) = Cardinality(Positions(s, types)) + 1
<1> DEFINE n == Len(s) + 1
<1>1. /\ Len(Append(s, e)) = n /\ n \in Nat /\ Append(s, e)[n] = e
      /\ \A i \in 1..Len(s) : Append(s, e)[i] = s[i]
  OBVIOUS
<1>2. Positions(Append(s, e), types) = Positions(s, types) \cup {n}
  BY <1>1 DEF Positions
<1>3. n \notin Positions(s, types)
  BY DEF Positions
<1> QED BY <1>2, <1>3, PositionsFinite, FS_AddElement

Announcement == {"rollback.coordinated", "snapshot.taken", "snapshot.restored"}
Coordinated(o) == {i \in 1..Len(o) : o[i] = "rollback.coordinated"}

LEMMA CoordinatedAppend ==
  ASSUME NEW o \in Seq(Announcement), NEW a \in Announcement
  PROVE  Cardinality(Coordinated(Append(o, a))) =
           IF a = "rollback.coordinated" THEN Cardinality(Coordinated(o)) + 1
           ELSE Cardinality(Coordinated(o))
<1> DEFINE n == Len(o) + 1
<1>1. /\ Len(Append(o, a)) = n /\ n \in Nat /\ Append(o, a)[n] = a
      /\ \A i \in 1..Len(o) : Append(o, a)[i] = o[i]
  OBVIOUS
<1>2. IsFiniteSet(Coordinated(o))
  BY FS_Interval, FS_Subset DEF Coordinated
<1>3. n \notin Coordinated(o)
  BY DEF Coordinated
<1>4. CASE a = "rollback.coordinated"
  <2>1. Coordinated(Append(o, a)) = Coordinated(o) \cup {n}
    BY <1>1, <1>4 DEF Coordinated
  <2> QED BY <1>2, <1>3, <1>4, <2>1, FS_AddElement
<1>5. CASE a # "rollback.coordinated"
  <2>1. Coordinated(Append(o, a)) = Coordinated(o)
    BY <1>1, <1>5 DEF Coordinated
  <2> QED BY <1>5, <2>1
<1> QED BY <1>4, <1>5

Balanced(s, o) == Cardinality(Positions(s, {"rolled_back"})) = Cardinality(Coordinated(o))

LEMMA AllBalanced ==
  /\ RollbackAnnounced <=> \A w \in Workflow : Balanced(log[w], outbox[w])
  /\ RollbackAnnounced' <=> \A w \in Workflow : Balanced(log'[w], outbox'[w])
<1>1. \A s : Positions(s, {"rolled_back"}) = {i \in 1..Len(s) : s[i].type = "rolled_back"}
  BY DEF Positions
<1> QED BY <1>1 DEF RollbackAnnounced, Balanced, Coordinated

\* An event that is no rollback, alone or announced as something else.
LEMMA OtherEvent ==
  ASSUME TypeOK, RollbackAnnounced, NEW w \in Workflow, NEW e \in Event, Emit(w, e),
         e.type # "rolled_back",
         outbox' = outbox \/ Announce(w, "snapshot.restored")
  PROVE  RollbackAnnounced'
<1>1. /\ log[w] \in Seq(Event) /\ outbox[w] \in Seq(Announcement)
      /\ log'[w] = Append(log[w], e)
      /\ outbox'[w] = outbox[w] \/ outbox'[w] = Append(outbox[w], "snapshot.restored")
      /\ \A u \in Workflow : u # w => log'[u] = log[u] /\ outbox'[u] = outbox[u]
  BY DEF TypeOK, Emit, Announce, Announcement
<1>2. Positions(Append(log[w], e), {"rolled_back"}) = Positions(log[w], {"rolled_back"})
  BY <1>1, PositionsOther
<1>3. Cardinality(Coordinated(Append(outbox[w], "snapshot.restored")))
        = Cardinality(Coordinated(outbox[w]))
  BY <1>1, CoordinatedAppend DEF Announcement
<1>4. \A u \in Workflow : Balanced(log'[u], outbox'[u])
  BY <1>1, <1>2, <1>3, AllBalanced DEF Balanced
<1> QED BY <1>4, AllBalanced

LEMMA AnnounceStep ==
  ASSUME TypeOK, RollbackAnnounced, [Next]_vars
  PROVE  RollbackAnnounced'
<1>0. \A type \in EventType : Evt(type) \in Event /\ Evt(type).type = type
  BY EventFacts
<1>1. ASSUME UNCHANGED <<log, outbox>> PROVE RollbackAnnounced'
  BY <1>1 DEF RollbackAnnounced
<1>2. ASSUME NEW s \in Session, NEW w \in Workflow, BeginStep(s, w) PROVE RollbackAnnounced'
  BY <1>1, <1>2, BeginSteps DEF rows
<1>3. ASSUME NEW s \in Session, NEW w \in Workflow, LockedStep(s, w) PROVE RollbackAnnounced'
  <2>1. ASSUME NEW target, NEW type \in {"paused", "resumed", "completed", "failed", "cancelled"},
               Transition(s, w, target, type)
        PROVE  RollbackAnnounced'
    BY <1>0, <2>1, EventTypes, OtherEvent DEF Transition
  <2>2. CASE Pause(s, w) \/ Resume(s, w) \/ Complete(s, w) \/ Fail(s, w) \/ Cancel(s, w)
    BY <2>1, <2>2 DEF Pause, Resume, Complete, Fail, Cancel
  <2>3. ASSUME NEW step \in Step, SetCheckpoint(s, w, step) PROVE RollbackAnnounced'
    BY <1>1, <2>3 DEF SetCheckpoint
  <2>4. CASE TakeSnapshot(s, w)
    <3>1. /\ outbox[w] \in Seq(Announcement) /\ log' = log
          /\ outbox'[w] = Append(outbox[w], "snapshot.taken")
          /\ \A u \in Workflow : u # w => outbox'[u] = outbox[u]
      BY <2>4 DEF TakeSnapshot, TypeOK, Announce, Announcement
    <3>2. Cardinality(Coordinated(outbox'[w])) = Cardinality(Coordinated(outbox[w]))
      BY <3>1, CoordinatedAppend DEF Announcement
    <3>3. \A u \in Workflow : Balanced(log'[u], outbox'[u])
      BY <3>1, <3>2, AllBalanced DEF Balanced
    <3> QED BY <3>3, AllBalanced
  <2>5. ASSUME NEW snap \in snapshots[w], RestoreSnapshot(s, w, snap) PROVE RollbackAnnounced'
    <3>1. snap.status \in Status /\ snap.step \in Step \cup {NoStep}
      BY DEF TypeOK
    <3>2. /\ FullEvt("snapshot.restored", snap.status, snap.step) \in Event
          /\ FullEvt("snapshot.restored", snap.status, snap.step).type = "snapshot.restored"
      BY <3>1, EventFacts, EventTypes
    <3> QED BY <2>5, <3>2, OtherEvent DEF RestoreSnapshot
  <2> QED BY <1>3, <2>2, <2>3, <2>4, <2>5 DEF LockedStep
<1>4. ASSUME NEW t \in txns, CommitStep(t) PROVE RollbackAnnounced'
  <2> DEFINE w == t.wf
  <2>0. w \in Workflow /\ t.step \in Step \cup {NoStep}
    BY DEF TypeOK, Txn
  <2>1. CASE Start(t) \/ Recover(t) \/ Escalate(t)
    BY <1>0, <2>0, <2>1, EventTypes, OtherEvent DEF Start, Recover, Escalate
  <2>2. CASE Advance(t) \/ Restore(t)
    <3>1. \A type \in EventType :
            StepEvt(type, t.step) \in Event /\ StepEvt(type, t.step).type = type
      BY <2>0, EventFacts
    <3> QED BY <2>0, <2>2, <3>1, EventTypes, OtherEvent DEF Advance, Restore
  <2>3. ASSUME NEW compensated \in BOOLEAN, Rollback(t, compensated) PROVE RollbackAnnounced'
    <3> DEFINE r == Evt("rolled_back")
               c == Evt("compensating_action.recorded")
               mid == Append(log[w], r)
               K(s) == Positions(s, {"rolled_back"})
    <3>1. /\ r \in Event /\ r.type = "rolled_back"
          /\ c \in Event /\ c.type = "compensating_action.recorded"
      BY <1>0, EventTypes
    <3>2. /\ log[w] \in Seq(Event) /\ outbox[w] \in Seq(Announcement)
          /\ log'[w] = IF compensated THEN Append(mid, c) ELSE mid
          /\ outbox'[w] = Append(outbox[w], "rollback.coordinated")
          /\ \A u \in Workflow : u # w => log'[u] = log[u] /\ outbox'[u] = outbox[u]
      BY <2>0, <2>3 DEF Rollback, TypeOK, Announce, Announcement
    <3> HIDE DEF r, c
    <3>3. mid \in Seq(Event) /\ Cardinality(K(mid)) = Cardinality(K(log[w])) + 1
      BY <3>1, <3>2, PositionsAnother
    <3>4. K(Append(mid, c)) = K(mid)
      BY <3>1, <3>3, PositionsOther
    <3>5. Cardinality(Coordinated(outbox'[w])) = Cardinality(Coordinated(outbox[w])) + 1
      BY <3>2, CoordinatedAppend DEF Announcement
    <3>6. \A u \in Workflow : Balanced(log'[u], outbox'[u])
      BY <2>0, <3>2, <3>3, <3>4, <3>5, AllBalanced DEF Balanced
    <3> QED BY <3>6, AllBalanced
  <2>4. CASE Abort(t)
    BY <1>1, <2>4 DEF Abort, rows
  <2> QED BY <1>4, <2>1, <2>2, <2>3, <2>4 DEF CommitStep
<1>5. CASE FreezeStep
  BY <1>1, <1>5 DEF FreezeStep, Freeze, Unfreeze
<1>6. CASE UNCHANGED vars
  BY <1>1, <1>6 DEF vars
<1> QED BY <1>2, <1>3, <1>4, <1>5, <1>6 DEF Next

\* coordinator.py: every coordinated rollback leaves exactly one domain event
\* for its workflow event, however many sessions roll one workflow back.
THEOREM RollbacksAnnounced == Spec => []RollbackAnnounced
<1>1. Init => RollbackAnnounced
  <2> SUFFICES ASSUME Init PROVE RollbackAnnounced
    OBVIOUS
  <2>1. Positions(<<>>, {"rolled_back"}) = {} /\ Coordinated(<<>>) = {}
    BY DEF Positions, Coordinated
  <2> QED BY <2>1, AllBalanced DEF Init, Balanced
<1>2. TypeOK /\ RollbackAnnounced /\ [Next]_vars => RollbackAnnounced'
  BY AnnounceStep
<1> QED BY <1>1, <1>2, TypeCorrect, PTL DEF Spec
=============================================================================
