--------------------------- MODULE ApprovalsProofs ---------------------------
(***************************************************************************)
(* What the approval gate composed with the workflow runtime keeps, for    *)
(* any workflows, approvals, types and sessions: open approvals and        *)
(* resolutions, final decisions, and event sourcing.                       *)
(*                                                                         *)
(* AInv is inductive by itself: every step does to the approval rows one   *)
(* of two things, ask for a row or move rows that exist (RowsMove), and    *)
(* adds at most one resolution to a log, together with the decision it     *)
(* records.  JInv joins it with the invariant of the runtime.              *)
(***************************************************************************)
EXTENDS Approvals, WorkflowCoreProofs

-----------------------------------------------------------------------------
(* The invariant. *)

Asked      == {a \in Approval : approvals[a].status # "absent"}
Decided(w) == {a \in Of(w) : approvals[a].status \in {"approved", "rejected"}}
Resolutions(w) == Positions(log[w], {"approval.resolved"})

\* Only finitely many approvals were ever asked for; and who has locked one to
\* resolve it has locked one that can be.
AInv ==
  /\ ApprovalTypeOK
  /\ IsFiniteSet(Asked)
  /\ \A a \in Approval : deciding[a] \in {"approved", "rejected"} => Resolvable(a)
  /\ ResolutionsSound

\* What a step may do to a row that exists: its workflow, its type and the gate
\* it came through stay, it is not reopened, and a decision stays a decision.
Moves(x, y) ==
  /\ y.status # "absent" /\ y.wf = x.wf /\ y.type = x.type
  /\ y.exec = "none" => x.exec = "none"
  /\ x.exec = "none" => y.exec = "none"
  /\ y.status \in RESOLVABLE => x.status \in RESOLVABLE
  /\ y.status = "pending" => x.status = "pending"
  /\ x.status \in {"approved", "rejected"} => y.status \in {"approved", "rejected"}
  /\ x.status \in {"approved", "rejected", "expired"} => y.status \in {x.status, "rejected"}

Stays(x, y) == y = x \/ (x \in ApprovalRow /\ Moves(x, y))

\* What every step keeps, of the decisions and of what the rows are about.
Kept ==
  /\ DecisionIsFinal
  /\ \A a \in Asked : approvals'[a].wf = approvals[a].wf
  /\ \A a \in Asked' : a \in Asked \/ Exists(approvals'[a].wf)

LEMMA RowKinds ==
  /\ NoApproval.status = "absent" /\ NoApproval \notin ApprovalRow
  /\ \A x \in ApprovalRow : x.status # "absent"
BY DEF NoApproval, ApprovalRow, ApprovalStatus

LEMMA DecidedFinite ==
  ASSUME AInv, NEW w \in Workflow
  PROVE  IsFiniteSet(Decided(w)) /\ Cardinality(Decided(w)) \in Nat
BY FS_Subset, FS_CardinalityType DEF AInv, Asked, Decided, Of

\* A step that asks for nothing and resolves nothing.
LEMMA RowsMove ==
  ASSUME AInv, ApprovalTypeOK', \A a \in Approval : Stays(approvals[a], approvals'[a]),
         \A a \in Approval : deciding'[a] \in {"approved", "rejected"} => Resolvable(a)',
         \A w \in Workflow :
           \/ Resolutions(w)' = Resolutions(w)
           \/ /\ Cardinality(Resolutions(w)') = Cardinality(Resolutions(w)) + 1
              /\ \E a \in Decided(w)' : a \notin Decided(w)
  PROVE  AInv' /\ Kept
<1>1. DecisionIsFinal
  BY DEF DecisionIsFinal, Stays, Moves
<1>2. Asked' = Asked
  BY RowKinds DEF Asked, Stays, Moves
<1>3. UniqueResolvable'
  <2> SUFFICES ASSUME NEW w \in Workflow, NEW a \in Of(w)', NEW b \in Of(w)', a # b,
                      Resolvable(a)', Resolvable(b)', approvals'[a].type = approvals'[b].type
               PROVE  /\ approvals'[a].exec # "none" \/ approvals'[b].exec # "none"
                      /\ "escalated" \in {approvals'[a].status, approvals'[b].status}
    BY DEF UniqueResolvable
  <2>1. \A c \in {a, b} :
          /\ c \in Of(w) /\ Resolvable(c) /\ approvals'[c].type = approvals[c].type
          /\ approvals'[c].exec = "none" => approvals[c].exec = "none"
          /\ approvals'[c].status = "pending" => approvals[c].status = "pending"
          /\ approvals'[c].status \in {"pending", "escalated"}
    BY RowKinds DEF Of, Resolvable, Stays, Moves, RESOLVABLE
  <2>2. /\ approvals[a].exec # "none" \/ approvals[b].exec # "none"
        /\ "escalated" \in {approvals[a].status, approvals[b].status}
    BY <2>1 DEF AInv, ResolutionsSound, UniqueResolvable
  <2> QED BY <2>1, <2>2
<1>4. ResolvedOnce'
  <2> SUFFICES ASSUME NEW w \in Workflow
               PROVE  Cardinality(Resolutions(w)') <= Cardinality(Decided(w)')
    BY DEF ResolvedOnce, Resolutions, Decided
  <2>1. Decided(w) \subseteq Decided(w)'
    BY RowKinds DEF Decided, Of, Stays, Moves
  <2>2. IsFiniteSet(Decided(w)') /\ Cardinality(Decided(w)') \in Nat
    BY <1>2, FS_Subset, FS_CardinalityType DEF AInv, Asked, Decided, Of
  <2>3. Cardinality(Resolutions(w)) <= Cardinality(Decided(w))
    BY DEF AInv, ResolutionsSound, ResolvedOnce, Resolutions, Decided
  <2>4. Cardinality(Resolutions(w)) \in Nat /\ Cardinality(Decided(w)) \in Nat
    BY DecidedFinite, PositionsFinite DEF AInv, ApprovalTypeOK, TypeOK, Resolutions
  <2>5. CASE Resolutions(w)' = Resolutions(w)
    <3>1. Cardinality(Decided(w)) <= Cardinality(Decided(w)')
      BY <2>1, <2>2, FS_Subset
    <3> QED BY <2>2, <2>3, <2>4, <2>5, <3>1
  <2>6. ASSUME Cardinality(Resolutions(w)') = Cardinality(Resolutions(w)) + 1,
               NEW a \in Decided(w)', a \notin Decided(w)
        PROVE  Cardinality(Resolutions(w)') <= Cardinality(Decided(w)')
    <3>1. Cardinality(Decided(w) \cup {a}) = Cardinality(Decided(w)) + 1
      BY <2>6, DecidedFinite, FS_AddElement
    <3>2. Cardinality(Decided(w) \cup {a}) <= Cardinality(Decided(w)')
      BY <2>1, <2>2, <2>6, FS_Subset
    <3> QED BY <2>2, <2>3, <2>4, <2>6, <3>1, <3>2
  <2> QED BY <2>5, <2>6
<1>5. \A a \in Asked : approvals'[a].wf = approvals[a].wf
  BY DEF Stays, Moves, Asked
<1> QED BY <1>1, <1>2, <1>3, <1>4, <1>5 DEF AInv, ResolutionsSound, Kept

\* A request: of the other rows of its kind none can be resolved, or it comes
\* from the AI gate and they are escalated.
LEMMA RowAsked ==
  ASSUME AInv, ApprovalTypeOK', NEW a \in Approval, NEW y \in ApprovalRow,
         approvals[a].status = "absent", approvals' = [approvals EXCEPT ![a] = y],
         y.status = "pending", Exists(y.wf), deciding' = deciding,
         \A b \in Of(y.wf) : approvals[b].type = y.type =>
           \/ ~ Resolvable(b)
           \/ approvals[b].status # "pending" /\ y.exec # "none",
         \A w \in Workflow : Resolutions(w)' = Resolutions(w)
  PROVE  AInv' /\ Kept
<1>1. /\ approvals'[a] = y /\ y.status # "absent"
      /\ \A b \in Approval : b # a => approvals'[b] = approvals[b]
  BY DEF AInv, ApprovalTypeOK
<1>2. DecisionIsFinal
  BY <1>1 DEF DecisionIsFinal
<1>3. Asked' = Asked \cup {a}
  BY <1>1 DEF Asked
<1>4. IsFiniteSet(Asked')
  BY <1>3, FS_AddElement DEF AInv
<1>5. \A b \in Approval : deciding'[b] \in {"approved", "rejected"} => Resolvable(b)'
  BY <1>1 DEF AInv, Resolvable, RESOLVABLE
<1>6. UniqueResolvable'
  <2> SUFFICES ASSUME NEW w \in Workflow, NEW c \in Of(w)', NEW d \in Of(w)', c # d,
                      Resolvable(c)', Resolvable(d)', approvals'[c].type = approvals'[d].type
               PROVE  /\ approvals'[c].exec # "none" \/ approvals'[d].exec # "none"
                      /\ "escalated" \in {approvals'[c].status, approvals'[d].status}
    BY DEF UniqueResolvable
  <2>1. CASE c # a /\ d # a
    BY <1>1, <2>1 DEF AInv, ResolutionsSound, UniqueResolvable, Of, Resolvable
  <2>2. ASSUME NEW b \in {c, d}, b # a, a \in {c, d}
        PROVE  approvals[b].status = "escalated" /\ y.exec # "none"
    <3>1. b \in Of(y.wf) /\ approvals[b].type = y.type /\ Resolvable(b)
      BY <1>1, <2>2 DEF Of, Resolvable
    <3> QED BY <3>1 DEF Resolvable, RESOLVABLE
  <2> QED BY <1>1, <2>1, <2>2
<1>7. ResolvedOnce'
  <2>1. \A w \in Workflow : Decided(w)' = Decided(w)
    BY <1>1 DEF Decided, Of
  <2>2. \A w \in Workflow : Cardinality(Resolutions(w)') <= Cardinality(Decided(w)')
    BY <2>1 DEF AInv, ResolutionsSound, ResolvedOnce, Resolutions, Decided
  <2> QED BY <2>2 DEF ResolvedOnce, Resolutions, Decided
<1>8. /\ \A b \in Asked : approvals'[b].wf = approvals[b].wf
      /\ \A b \in Asked' : b \in Asked \/ Exists(approvals'[b].wf)
  BY <1>1, <1>3 DEF Asked
<1> QED BY <1>2, <1>4, <1>5, <1>6, <1>7, <1>8 DEF AInv, ResolutionsSound, Kept

-----------------------------------------------------------------------------
(* The runtime's steps record no resolution. *)

\* One event that is no resolution.
LEMMA OneUnresolved ==
  ASSUME TypeOK, NEW u \in Workflow, NEW e \in Event, Emit(u, e), e.type # "approval.resolved"
  PROVE  \A w \in Workflow : Resolutions(w)' = Resolutions(w)
<1>1. log[u] \in Seq(Event) /\ log'[u] = Append(log[u], e)
  BY DEF TypeOK, Emit
<1>2. \A w \in Workflow : w # u => log'[w] = log[w]
  BY DEF TypeOK, Emit
<1>3. Positions(Append(log[u], e), {"approval.resolved"})
        = Positions(log[u], {"approval.resolved"})
  BY <1>1, PositionsOther
<1> QED BY <1>1, <1>2, <1>3 DEF Resolutions

\* A rollback appends one event or two, neither a resolution.
LEMMA RolledUnresolved ==
  ASSUME TypeOK, NEW w \in Workflow, NEW compensated \in BOOLEAN,
         LET rolled == Append(log[w], Evt("rolled_back"))
         IN log' = [log EXCEPT ![w] =
                      IF compensated THEN Append(rolled, Evt("compensating_action.recorded"))
                                     ELSE rolled]
  PROVE  /\ log' \in [Workflow -> Seq(Event)]
         /\ \A u \in Workflow : Resolutions(u)' = Resolutions(u)
<1> DEFINE r == Evt("rolled_back")
           c == Evt("compensating_action.recorded")
           mid == Append(log[w], r)
           K(s) == Positions(s, {"approval.resolved"})
<1>1. /\ r \in Event /\ r.type = "rolled_back"
      /\ c \in Event /\ c.type = "compensating_action.recorded"
  BY EventFacts, EventTypes
<1>2. /\ log[w] \in Seq(Event) /\ log' = [log EXCEPT ![w] = IF compensated THEN Append(mid, c) ELSE mid]
      /\ log'[w] = IF compensated THEN Append(mid, c) ELSE mid
      /\ \A u \in Workflow : u # w => log'[u] = log[u]
  BY DEF TypeOK
<1> HIDE DEF r, c
<1>3. mid \in Seq(Event) /\ K(mid) = K(log[w])
  BY <1>1, <1>2, PositionsOther
<1>4. Append(mid, c) \in Seq(Event) /\ K(Append(mid, c)) = K(mid)
  BY <1>1, <1>3, PositionsOther
<1> HIDE DEF mid
<1>5. log' \in [Workflow -> Seq(Event)]
  BY <1>2, <1>3, <1>4 DEF TypeOK
<1> QED BY <1>2, <1>3, <1>4, <1>5 DEF Resolutions

LEMMA RuntimeUnresolved ==
  ASSUME TypeOK, RuntimeStep
  PROVE  TypeOK' /\ \A w \in Workflow : Resolutions(w)' = Resolutions(w)
<1>0. \A type \in EventType : Evt(type) \in Event /\ Evt(type).type = type
  BY EventFacts
<1>1. ASSUME log' = log PROVE \A w \in Workflow : Resolutions(w)' = Resolutions(w)
  BY <1>1 DEF Resolutions
<1>3. ASSUME NEW s \in Session, NEW w \in Workflow, BeginStep(s, w)
      PROVE  TypeOK' /\ \A u \in Workflow : Resolutions(u)' = Resolutions(u)
  BY <1>1, <1>3, BeginSteps DEF rows
<1>4. ASSUME NEW s \in Session, NEW w \in Workflow, LockedStep(s, w)
      PROVE  \A u \in Workflow : Resolutions(u)' = Resolutions(u)
  <2>1. ASSUME NEW target, NEW type \in {"paused", "resumed", "completed", "failed", "cancelled"},
               Transition(s, w, target, type)
        PROVE  \A u \in Workflow : Resolutions(u)' = Resolutions(u)
    BY <1>0, OneUnresolved, <2>1, EventTypes DEF Transition
  <2>2. CASE Pause(s, w) \/ Resume(s, w) \/ Complete(s, w) \/ Fail(s, w) \/ Cancel(s, w)
    BY <2>1, <2>2 DEF Pause, Resume, Complete, Fail, Cancel
  <2>3. CASE (\E step \in Step : SetCheckpoint(s, w, step)) \/ TakeSnapshot(s, w)
    BY <1>1, <2>3 DEF SetCheckpoint, TakeSnapshot
  <2>4. ASSUME NEW snap \in snapshots[w], RestoreSnapshot(s, w, snap)
        PROVE  \A u \in Workflow : Resolutions(u)' = Resolutions(u)
    <3>1. snap.status \in Status /\ snap.step \in Step \cup {NoStep}
      BY DEF TypeOK
    <3>2. /\ FullEvt("snapshot.restored", snap.status, snap.step) \in Event
          /\ FullEvt("snapshot.restored", snap.status, snap.step).type = "snapshot.restored"
      BY <3>1, EventFacts, EventTypes
    <3> QED BY <2>4, <3>2, OneUnresolved DEF RestoreSnapshot
  <2> QED BY <1>4, <2>2, <2>3, <2>4 DEF LockedStep
<1>5. ASSUME NEW t \in txns, CommitStep(t)
      PROVE  \A u \in Workflow : Resolutions(u)' = Resolutions(u)
  <2>0. t.wf \in Workflow /\ t.step \in Step \cup {NoStep}
    BY DEF TypeOK, Txn
  <2>1. CASE Start(t) \/ Recover(t) \/ Escalate(t)
    BY <1>0, OneUnresolved, <2>0, <2>1, EventTypes DEF Start, Recover, Escalate
  <2>2. CASE Advance(t) \/ Restore(t)
    <3>1. \A type \in EventType :
            StepEvt(type, t.step) \in Event /\ StepEvt(type, t.step).type = type
      BY <2>0, EventFacts
    <3> QED BY <2>0, <2>2, <3>1, EventTypes, OneUnresolved DEF Advance, Restore
  <2>3. ASSUME NEW compensated \in BOOLEAN, Rollback(t, compensated)
        PROVE  \A u \in Workflow : Resolutions(u)' = Resolutions(u)
    BY <2>0, <2>3, RolledUnresolved DEF Rollback
  <2>4. CASE Abort(t)
    BY <1>1, <2>4 DEF Abort, rows
  <2> QED BY <1>5, <2>1, <2>2, <2>3, <2>4 DEF CommitStep
<1> QED BY <1>3, <1>4, <1>5, LockedSteps, CommitSteps DEF RuntimeStep

-----------------------------------------------------------------------------
(* The approvals' steps. *)

\* Some events are appended, none a resolution.
LEMMA ManyUnresolved ==
  ASSUME NEW s \in Seq(Event), NEW t \in Seq(Event),
         \A i \in 1..Len(t) : t[i].type # "approval.resolved"
  PROVE  /\ s \o t \in Seq(Event)
         /\ Positions(s \o t, {"approval.resolved"}) = Positions(s, {"approval.resolved"})
<1>1. /\ s \o t \in Seq(Event) /\ Len(s \o t) = Len(s) + Len(t)
      /\ Len(s) \in Nat /\ Len(t) \in Nat
      /\ \A i \in 1..Len(s) : (s \o t)[i] = s[i]
      /\ \A i \in Len(s)+1 .. Len(s)+Len(t) : (s \o t)[i] = t[i - Len(s)]
  OBVIOUS
<1>2. \A i \in Len(s)+1 .. Len(s)+Len(t) : (s \o t)[i].type # "approval.resolved"
  <2> TAKE i \in Len(s)+1 .. Len(s)+Len(t)
  <2>1. i - Len(s) \in 1..Len(t)
    BY <1>1
  <2> QED BY <1>1, <2>1
<1> QED BY <1>1, <1>2 DEF Positions

\* One row moves; whoever held it lets it go, or it can still be resolved.
LEMMA OneMoves ==
  ASSUME AInv, TypeOK', NEW a \in Approval, NEW y \in ApprovalRow, approvals[a] \in ApprovalRow,
         Moves(approvals[a], y), approvals' = [approvals EXCEPT ![a] = y],
         \/ deciding' = [deciding EXCEPT ![a] = "none"]
         \/ deciding' = deciding /\ (Free(a) \/ y.status \in RESOLVABLE),
         \A w \in Workflow :
           \/ Resolutions(w)' = Resolutions(w)
           \/ /\ Cardinality(Resolutions(w)') = Cardinality(Resolutions(w)) + 1
              /\ a \in Decided(w)' /\ a \notin Decided(w)
  PROVE  AInv' /\ Kept
<1>1. /\ approvals'[a] = y
      /\ \A b \in Approval : b # a => approvals'[b] = approvals[b]
  BY DEF AInv, ApprovalTypeOK
<1>2. \A b \in Approval :
        deciding'[b] = deciding[b] \/ (b = a /\ deciding'[b] = "none")
  BY DEF AInv, ApprovalTypeOK
<1>3. ApprovalTypeOK'
  BY <1>1, <1>2, RowKinds DEF AInv, ApprovalTypeOK, Free
<1>4. \A b \in Approval : Stays(approvals[b], approvals'[b])
  BY <1>1 DEF Stays
<1>5. \A b \in Approval : deciding'[b] \in {"approved", "rejected"} => Resolvable(b)'
  BY <1>1, <1>2 DEF AInv, Resolvable, Free, ApprovalTypeOK
<1> QED BY <1>3, <1>4, <1>5, RowsMove

\* The columns of a row, one at a time.
LEMMA RowColumns ==
  ASSUME NEW x \in ApprovalRow
  PROVE  /\ \A st \in ApprovalStatus :
              /\ [x EXCEPT !.status = st] \in ApprovalRow
              /\ [x EXCEPT !.status = st].status = st
              /\ [x EXCEPT !.status = st].wf = x.wf
              /\ [x EXCEPT !.status = st].type = x.type
              /\ [x EXCEPT !.status = st].exec = x.exec
         /\ \A e \in {"none", "waiting", "moved"} :
              /\ [x EXCEPT !.exec = e] \in ApprovalRow
              /\ [x EXCEPT !.exec = e].status = x.status
              /\ [x EXCEPT !.exec = e].wf = x.wf
              /\ [x EXCEPT !.exec = e].type = x.type
              /\ [x EXCEPT !.exec = e].exec = e
BY DEF ApprovalRow

\* The step of a handler that only sets the status of a row.
LEMMA StatusSet ==
  ASSUME AInv, TypeOK', NEW a \in Approval, NEW st \in ApprovalStatus,
         approvals[a].status # "absent", SetApproval(a, st),
         st \in RESOLVABLE => approvals[a].status = "pending" /\ st = "escalated",
         approvals[a].status \in {"approved", "rejected", "expired"} => st = "rejected",
         \/ deciding' = [deciding EXCEPT ![a] = "none"]
         \/ deciding' = deciding /\ Free(a),
         \A w \in Workflow :
           \/ Resolutions(w)' = Resolutions(w)
           \/ /\ Cardinality(Resolutions(w)') = Cardinality(Resolutions(w)) + 1
              /\ a \in Decided(w)' /\ a \notin Decided(w)
  PROVE  AInv' /\ Kept
<1> DEFINE y == [approvals[a] EXCEPT !.status = st]
<1>1. approvals[a] \in ApprovalRow
  BY RowKinds DEF AInv, ApprovalTypeOK
<1>2. /\ y \in ApprovalRow /\ y.status = st /\ y.wf = approvals[a].wf
      /\ y.type = approvals[a].type /\ y.exec = approvals[a].exec
  BY <1>1, RowColumns
<1>3. approvals' = [approvals EXCEPT ![a] = y]
  BY DEF SetApproval
<1> HIDE DEF y
<1>4. Moves(approvals[a], y)
  BY <1>2 DEF Moves, RESOLVABLE, ApprovalStatus
<1> QED BY <1>1, <1>2, <1>3, <1>4, OneMoves

LEMMA StatusSteps ==
  ASSUME AInv, NEW a \in Approval,
         RejectOnly(a) \/ Escalated(a) \/ Override(a) \/ Resolve(a) \/ RollbackRejected(a)
  PROVE  AInv' /\ Kept
<1>0. /\ TypeOK /\ ApprovalTypeOK
      /\ approvals[a].status # "absent" => approvals[a] \in ApprovalRow /\ approvals[a].wf \in Workflow
  BY RowKinds DEF AInv, ApprovalTypeOK, ApprovalRow
<1>1. CASE RejectOnly(a)
  <2>1. TypeOK' /\ \A w \in Workflow : Resolutions(w)' = Resolutions(w)
    BY <1>0, <1>1 DEF RejectOnly, coreRest, TypeOK, Resolutions
  <2> QED BY <1>1, <2>1, StatusSet DEF RejectOnly, ApprovalStatus, RESOLVABLE
<1>2. CASE Override(a)
  <2>1. TypeOK' /\ \A w \in Workflow : Resolutions(w)' = Resolutions(w)
    BY <1>0, <1>2 DEF Override, coreRest, TypeOK, Resolutions
  <2> QED BY <1>2, <2>1, StatusSet DEF Override, ApprovalStatus, RESOLVABLE, Resolvable
<1>3. CASE Escalated(a)
  <2> DEFINE w == approvals[a].wf
  <2>1. w \in Workflow
    BY <1>0, <1>3 DEF Escalated
  <2>2. Evt("approval.escalated") \in Event /\ Evt("approval.escalated").type = "approval.escalated"
    BY EventFacts DEF EventType, AuditEvents
  <2>3. TypeOK'
    <3>1. Append(log[w], Evt("approval.escalated")) \in Seq(Event)
      BY <1>0, <2>1, <2>2 DEF TypeOK
    <3> QED BY <1>0, <1>3, <2>1, <3>1 DEF Escalated, Emit, coreRest, TypeOK
  <2>4. \A u \in Workflow : Resolutions(u)' = Resolutions(u)
    BY <1>0, <1>3, <2>1, <2>2, OneUnresolved DEF Escalated
  <2> QED BY <1>3, <2>3, <2>4, StatusSet DEF Escalated, ApprovalStatus, RESOLVABLE
<1>4. CASE Resolve(a)
  <2>0. PICK w \in Workflow : w = approvals[a].wf
    BY <1>0, <1>4 DEF Resolve, AInv, Resolvable, RESOLVABLE
  <2> DEFINE st == IF deciding[a] = "approved" THEN "active" ELSE "failed"
             e  == StatusEvt("approval.resolved", st)
  <2>1. /\ deciding[a] \in {"approved", "rejected"} /\ Resolvable(a)
        /\ st \in Status /\ wf[w].step \in Step \cup {NoStep}
    BY <1>0, <1>4, <2>0 DEF Resolve, AInv, Status, TypeOK
  <2>2. e \in Event /\ e.type = "approval.resolved"
    BY <2>1, EventTypes DEF StatusEvt, Event
  <2>3. /\ SetWf(w, st, wf[w].step) /\ Emit(w, e) /\ SetApproval(a, deciding[a])
        /\ deciding' = [deciding EXCEPT ![a] = "none"] /\ UNCHANGED coreRest
    BY <1>4, <2>0 DEF Resolve, Decide
  <2> HIDE DEF e, st
  <2>4. TypeOK'
    BY <1>0, <2>1, <2>2, <2>3, WriteType DEF coreRest, TypeOK
  <2>5. /\ log[w] \in Seq(Event) /\ log'[w] = Append(log[w], e)
        /\ \A u \in Workflow : u # w => log'[u] = log[u]
    BY <1>0, <2>3 DEF TypeOK, Emit
  <2>6. Cardinality(Resolutions(w)') = Cardinality(Resolutions(w)) + 1
    BY <2>2, <2>5, PositionsAnother DEF Resolutions
  <2>7. a \in Decided(w)' /\ a \notin Decided(w)
    <3>1. approvals[a] \in ApprovalRow
      BY <1>0, <2>1 DEF Resolvable, RESOLVABLE
    <3>2. approvals'[a] = [approvals[a] EXCEPT !.status = deciding[a]]
      BY <1>0, <2>3 DEF SetApproval, ApprovalTypeOK
    <3>3. approvals'[a].status = deciding[a] /\ approvals'[a].wf = w
      BY <2>0, <2>1, <3>1, <3>2, RowColumns DEF ApprovalStatus
    <3> QED BY <2>1, <3>3 DEF Decided, Of, Resolvable, RESOLVABLE
  <2>8. \A u \in Workflow : u # w => Resolutions(u)' = Resolutions(u)
    BY <2>5 DEF Resolutions
  <2>9. \A u \in Workflow :
          \/ Resolutions(u)' = Resolutions(u)
          \/ /\ Cardinality(Resolutions(u)') = Cardinality(Resolutions(u)) + 1
             /\ a \in Decided(u)' /\ a \notin Decided(u)
    BY <2>6, <2>7, <2>8
  <2>10. /\ deciding[a] \in ApprovalStatus /\ deciding[a] \notin RESOLVABLE
         /\ approvals[a].status \in RESOLVABLE
         /\ approvals[a].status \notin {"absent", "approved", "rejected", "expired"}
    BY <2>1 DEF ApprovalStatus, Resolvable, RESOLVABLE
  <2> QED BY <2>3, <2>4, <2>9, <2>10, StatusSet
<1>5. CASE RollbackRejected(a)
  <2> DEFINE w  == approvals[a].wf
             t == <<Evt("rolled_back"), Evt("compensating_action.recorded")>>
  <2>1. approvals[a].status # "absent" /\ w \in Workflow /\ wf[w].step \in Step \cup {NoStep}
    BY <1>0, <1>5 DEF RollbackRejected, ApprovalTypeOK, Free, TypeOK
  <2>2. t \in Seq(Event) /\ Len(t) = 2 /\ \A i \in 1..2 : t[i].type # "approval.resolved"
    BY EventFacts, EventTypes
  <2>3. /\ SetWf(w, "cancelled", wf[w].step) /\ log' = [log EXCEPT ![w] = @ \o t]
        /\ Announce(w, "rollback.coordinated") /\ SetApproval(a, "rejected")
        /\ deciding' = [deciding EXCEPT ![a] = "none"]
        /\ UNCHANGED <<checkpoints, snapshots, frozen, txns>>
    BY <1>5 DEF RollbackRejected, Decide
  <2> HIDE DEF t
  <2>4. /\ log[w] \o t \in Seq(Event)
        /\ Positions(log[w] \o t, {"approval.resolved"}) = Positions(log[w], {"approval.resolved"})
    <3>1. log[w] \in Seq(Event)
      BY <1>0, <2>1 DEF TypeOK
    <3> QED BY <2>2, <3>1, ManyUnresolved
  <2>5. Append(outbox[w], "rollback.coordinated") \in Seq(Announcement)
    BY <1>0, <2>1 DEF TypeOK, Announcement
  <2>6. TypeOK'
    BY <1>0, <2>1, <2>3, <2>4, <2>5 DEF TypeOK, SetWf, Announce, Announcement, Status
  <2>7. \A u \in Workflow : Resolutions(u)' = Resolutions(u)
    BY <1>0, <2>1, <2>3, <2>4 DEF TypeOK, Resolutions
  <2> QED BY <2>1, <2>3, <2>6, <2>7, StatusSet DEF ApprovalStatus, RESOLVABLE
<1> QED BY <1>1, <1>2, <1>3, <1>4, <1>5

\* Who locks a row to decide it, or lets it go.
LEMMA LockSteps ==
  ASSUME AInv, NEW a \in Approval,
         \/ \E decision \in {"approved", "rejected"} : BeginResolve(a, decision)
         \/ BeginRollbackRejected(a) \/ AbandonDecision(a)
  PROVE  AInv' /\ Kept
<1>1. UNCHANGED <<wf, log, coreRest, approvals>>
  BY DEF BeginResolve, BeginRollbackRejected, AbandonDecision
<1>2. PICK d \in Decision \cup {"none"} :
        /\ deciding' = [deciding EXCEPT ![a] = d]
        /\ d \in {"approved", "rejected"} => Resolvable(a)
        /\ d # "none" => approvals[a].status # "absent"
  <2>1. CASE \E decision \in {"approved", "rejected"} : BeginResolve(a, decision)
    BY <2>1 DEF BeginResolve, Decide, Decision, Resolvable, RESOLVABLE
  <2>2. CASE BeginRollbackRejected(a)
    BY <2>2 DEF BeginRollbackRejected, Decide, Decision
  <2>3. CASE AbandonDecision(a)
    BY <2>3 DEF AbandonDecision, Decide
  <2> QED BY <2>1, <2>2, <2>3
<1>3. \A b \in Approval : deciding'[b] = IF b = a THEN d ELSE deciding[b]
  BY <1>2 DEF AInv, ApprovalTypeOK
<1>4. ApprovalTypeOK'
  BY <1>1, <1>2, <1>3 DEF AInv, ApprovalTypeOK, TypeOK, coreRest, Free
<1>5. \A b \in Approval : deciding'[b] \in {"approved", "rejected"} => Resolvable(b)'
  BY <1>1, <1>2, <1>3 DEF AInv, Resolvable
<1>6. \A b \in Approval : Stays(approvals[b], approvals'[b])
  BY <1>1 DEF Stays
<1>7. \A w \in Workflow : Resolutions(w)' = Resolutions(w)
  BY <1>1 DEF Resolutions
<1> QED BY <1>4, <1>5, <1>6, <1>7, RowsMove

LEMMA PendingRow ==
  ASSUME NEW w \in Workflow, NEW type \in ApprovalType, NEW due \in {"never", "future"},
         NEW exec \in {"none", "waiting"}
  PROVE  /\ Pending(w, type, due, exec) \in ApprovalRow
         /\ Pending(w, type, due, exec).status = "pending"
         /\ Pending(w, type, due, exec).wf = w
         /\ Pending(w, type, due, exec).type = type
         /\ Pending(w, type, due, exec).exec = exec
BY DEF Pending, ApprovalRow, ApprovalStatus

\* The new row breaks no type.
LEMMA AskedType ==
  ASSUME ApprovalTypeOK, TypeOK', NEW a \in Approval, NEW y \in ApprovalRow,
         approvals' = [approvals EXCEPT ![a] = y], deciding' = deciding
  PROVE  ApprovalTypeOK'
<1>1. \A b \in Approval : b # a => approvals'[b] = approvals[b]
  BY DEF ApprovalTypeOK
<1>2. approvals'[a].status # "absent"
  BY RowKinds DEF ApprovalTypeOK
<1> QED BY <1>1, <1>2 DEF ApprovalTypeOK, Free

LEMMA RequestSteps ==
  ASSUME AInv, NEW a \in Approval, NEW w \in Workflow, NEW type \in ApprovalType,
         \/ \E due \in {"never", "future"} : Request(a, w, type, due)
         \/ AIRequest(a, w, type)
  PROVE  AInv' /\ Kept
<1>0. TypeOK /\ ApprovalTypeOK /\ wf[w].step \in Step \cup {NoStep}
  BY DEF AInv, ApprovalTypeOK, TypeOK
<1>1. ASSUME NEW due \in {"never", "future"}, Request(a, w, type, due)
      PROVE  AInv' /\ Kept
  <2> DEFINE y == Pending(w, type, due, "none")
             e == Evt("approval.requested")
  <2>1. e \in Event /\ e.type = "approval.requested"
    BY EventFacts, EventTypes
  <2>2. /\ y \in ApprovalRow /\ y.status = "pending" /\ y.wf = w /\ y.type = type
    BY PendingRow
  <2>3. /\ SetWf(w, "paused", wf[w].step) /\ Emit(w, e) /\ UNCHANGED <<coreRest, deciding>>
        /\ approvals' = [approvals EXCEPT ![a] = y] /\ approvals[a].status = "absent"
        /\ \A b \in Of(w) : approvals[b].type = type => ~ Resolvable(b)
        /\ Exists(w)
    BY <1>1 DEF Request, Exists
  <2> HIDE DEF e, y
  <2>4. TypeOK'
    BY <1>0, <2>1, <2>3, WriteType DEF coreRest, TypeOK, Status
  <2>5. \A u \in Workflow : Resolutions(u)' = Resolutions(u)
    BY <1>0, <2>1, <2>3, OneUnresolved
  <2>6. ApprovalTypeOK'
    BY <1>0, <2>2, <2>3, <2>4, AskedType
  <2>7. \A b \in Of(y.wf) : approvals[b].type = y.type =>
           \/ ~ Resolvable(b)
           \/ approvals[b].status # "pending" /\ y.exec # "none"
    BY <2>2, <2>3
  <2> QED BY <2>2, <2>3, <2>5, <2>6, <2>7, RowAsked
<1>2. CASE AIRequest(a, w, type)
  <2> DEFINE y == Pending(w, type, "never", "waiting")
  <2>1. /\ y \in ApprovalRow /\ y.status = "pending" /\ y.wf = w /\ y.type = type
        /\ y.exec = "waiting"
    BY PendingRow
  <2>2. /\ UNCHANGED <<wf, log, coreRest, deciding>>
        /\ approvals' = [approvals EXCEPT ![a] = y] /\ approvals[a].status = "absent"
        /\ \A b \in Of(w) : approvals[b].type = type => approvals[b].status # "pending"
        /\ Exists(w)
    BY <1>2 DEF AIRequest
  <2> HIDE DEF y
  <2>3. TypeOK' /\ \A u \in Workflow : Resolutions(u)' = Resolutions(u)
    BY <1>0, <2>2 DEF coreRest, TypeOK, Resolutions
  <2>4. ApprovalTypeOK'
    BY <1>0, <2>1, <2>2, <2>3, AskedType
  <2>5. \A b \in Of(y.wf) : approvals[b].type = y.type =>
           \/ ~ Resolvable(b)
           \/ approvals[b].status # "pending" /\ y.exec # "none"
    BY <2>1, <2>2
  <2> QED BY <2>1, <2>2, <2>3, <2>4, <2>5, RowAsked
<1> QED BY <1>1, <1>2

\* The sweep expires several rows at once, and says so in the logs of their
\* workflows.
LEMMA ExpireStep ==
  ASSUME AInv, NEW S \in SUBSET Overdue, Expire(S)
  PROVE  AInv' /\ Kept
<1>0. TypeOK /\ ApprovalTypeOK
  BY DEF AInv, ApprovalTypeOK
<1> DEFINE Told(w) == [i \in 1..Cardinality(S \cap Of(w)) |-> Evt("approval.expired")]
<1>1. ASSUME NEW w \in Workflow
      PROVE  /\ log[w] \o Told(w) \in Seq(Event)
             /\ Positions(log[w] \o Told(w), {"approval.resolved"})
                  = Positions(log[w], {"approval.resolved"})
  <2>1. Cardinality(S \cap Of(w)) \in Nat
    <3>1. S \cap Of(w) \in SUBSET Asked
      BY DEF Of, Asked
    <3> QED BY <3>1, FS_Subset, FS_CardinalityType DEF AInv
  <2>2. Evt("approval.expired") \in Event /\ Evt("approval.expired").type = "approval.expired"
    BY EventFacts DEF EventType, AuditEvents
  <2>3. Told(w) \in Seq(Event) /\ \A i \in 1..Len(Told(w)) : Told(w)[i].type # "approval.resolved"
    <3> DEFINE n == Cardinality(S \cap Of(w))
               e == Evt("approval.expired")
    <3>1. n \in Nat /\ e \in Event /\ e.type # "approval.resolved"
      BY <2>1, <2>2
    <3>2. Told(w) = [i \in 1..n |-> e]
      OBVIOUS
    <3> HIDE DEF n, e, Told
    <3>3. [i \in 1..n |-> e] \in Seq(Event) /\ Len([i \in 1..n |-> e]) = n
      BY <3>1
    <3> QED BY <3>1, <3>2, <3>3
  <2> HIDE DEF Told
  <2>4. log[w] \in Seq(Event)
    BY <1>0 DEF TypeOK
  <2> QED BY <2>3, <2>4, ManyUnresolved
<1>2. log' = [w \in Workflow |-> log[w] \o Told(w)] /\ UNCHANGED <<wf, coreRest, deciding>>
  BY DEF Expire
<1> HIDE DEF Told
<1>3. TypeOK' /\ \A w \in Workflow : Resolutions(w)' = Resolutions(w)
  BY <1>0, <1>1, <1>2 DEF TypeOK, coreRest, Resolutions
<1>4. ASSUME NEW a \in Approval
      PROVE  /\ approvals'[a] \in ApprovalRow \cup {NoApproval}
             /\ Stays(approvals[a], approvals'[a])
             /\ deciding[a] # "none" => approvals'[a] = approvals[a]
  <2>1. CASE a \in S
    <3> DEFINE y == [approvals[a] EXCEPT !.status = "expired"]
    <3>1. /\ approvals'[a] = y /\ deciding[a] = "none" /\ Resolvable(a)
          /\ approvals[a] \in ApprovalRow
      BY <1>0, <2>1, RowKinds DEF Expire, Free, Overdue, Resolvable, RESOLVABLE, ApprovalTypeOK
    <3>2. /\ y \in ApprovalRow /\ y.status = "expired" /\ y.wf = approvals[a].wf
          /\ y.type = approvals[a].type /\ y.exec = approvals[a].exec
      BY <3>1, RowColumns DEF ApprovalStatus
    <3> HIDE DEF y
    <3> QED BY <3>1, <3>2 DEF Stays, Moves, Resolvable, RESOLVABLE
  <2>2. CASE a \notin S
    BY <1>0, <2>2 DEF Expire, Stays, ApprovalTypeOK
  <2> QED BY <2>1, <2>2
<1>5. approvals' \in [Approval -> ApprovalRow \cup {NoApproval}]
  <2>1. approvals' = [a \in Approval |-> approvals'[a]]
    BY DEF Expire
  <2> QED BY <1>4, <2>1
<1>6. ApprovalTypeOK'
  BY <1>0, <1>2, <1>3, <1>4, <1>5 DEF ApprovalTypeOK, Free
<1>7. \A a \in Approval : deciding'[a] \in {"approved", "rejected"} => Resolvable(a)'
  BY <1>2, <1>4 DEF AInv, Resolvable
<1> QED BY <1>3, <1>4, <1>6, <1>7, RowsMove

LEMMA LapseStep ==
  ASSUME AInv, NEW a \in Approval, Lapse(a)
  PROVE  AInv' /\ Kept
<1> DEFINE y == [approvals[a] EXCEPT !.due = "past"]
<1>1. /\ approvals' = [approvals EXCEPT ![a] = y] /\ Resolvable(a)
      /\ UNCHANGED <<wf, log, coreRest, deciding>>
  BY DEF Lapse
<1>2. approvals[a] \in ApprovalRow
  BY <1>1, RowKinds DEF AInv, ApprovalTypeOK, Resolvable, RESOLVABLE
<1>3. /\ y \in ApprovalRow /\ y.status = approvals[a].status /\ y.wf = approvals[a].wf
      /\ y.type = approvals[a].type /\ y.exec = approvals[a].exec
  BY <1>2 DEF ApprovalRow
<1> HIDE DEF y
<1>4. Moves(approvals[a], y) /\ y.status \in RESOLVABLE
  BY <1>1, <1>2, <1>3, RowKinds DEF Moves, Resolvable
<1>5. TypeOK' /\ \A w \in Workflow : Resolutions(w)' = Resolutions(w)
  BY <1>1 DEF AInv, ApprovalTypeOK, coreRest, TypeOK, Resolutions
<1> QED BY <1>1, <1>2, <1>3, <1>4, <1>5, OneMoves

\* The AI gate decides one approval and moves the execution of another.
LEMMA GateSteps ==
  ASSUME AInv, NEW a \in Approval, NEW b \in Approval,
         AIApprove(a, b) \/ AIReject(a, b) \/ AICancel(b)
  PROVE  AInv' /\ Kept
<1>0. UNCHANGED <<wf, log, coreRest, deciding>> /\ approvals[b].status # "absent"
  BY DEF AIApprove, AIReject, AICancel
<1>1. TypeOK' /\ \A w \in Workflow : Resolutions(w)' = Resolutions(w)
  BY <1>0 DEF AInv, ApprovalTypeOK, coreRest, TypeOK, Resolutions
<1>2. approvals[b] \in ApprovalRow
  BY <1>0, RowKinds DEF AInv, ApprovalTypeOK
<1>3. ASSUME NEW f \in [Approval -> ApprovalRow \cup {NoApproval}],
             \A c \in Approval : f[c] = approvals[c] \/ (c = a /\ f[c] \in ApprovalRow),
             f[a] = approvals[a] \/ (Free(a) /\ Moves(approvals[a], f[a]) /\ approvals[a] \in ApprovalRow),
             NEW e \in {"none", "waiting", "moved"},
             e = "none" <=> approvals[b].exec = "none",
             f[b] \in ApprovalRow, approvals' = [f EXCEPT ![b].exec = e]
      PROVE  AInv' /\ Kept
  <2> DEFINE y == [f[b] EXCEPT !.exec = e]
  <2>1. /\ y \in ApprovalRow /\ y.status = f[b].status /\ y.wf = f[b].wf /\ y.type = f[b].type
        /\ y.exec = e
    BY <1>3, RowColumns
  <2>2. approvals' = [f EXCEPT ![b] = y]
    BY <1>3
  <2> HIDE DEF y
  <2>3. \A c \in Approval : approvals'[c] = IF c = b THEN y ELSE f[c]
    BY <2>2
  <2>4. approvals' \in [Approval -> ApprovalRow \cup {NoApproval}]
    BY <2>1, <2>2
  <2>5. ASSUME NEW c \in Approval PROVE Stays(approvals[c], approvals'[c])
    BY <1>2, <1>3, <2>1, <2>3, RowKinds DEF Stays, Moves
  <2>6. \A c \in Approval : ~ Free(c) => approvals'[c].status = approvals[c].status
    BY <1>3, <2>1, <2>3
  <2>7. ApprovalTypeOK'
    BY <1>0, <1>1, <2>4, <2>6 DEF AInv, ApprovalTypeOK, Free
  <2>8. \A c \in Approval : deciding'[c] \in {"approved", "rejected"} => Resolvable(c)'
    BY <1>0, <2>6 DEF AInv, Resolvable, Free
  <2> QED BY <1>1, <2>5, <2>7, <2>8, RowsMove
<1>4. ASSUME NEW st \in {"approved", "rejected"}, Resolvable(a), Free(a)
      PROVE  /\ [approvals EXCEPT ![a].status = st] \in [Approval -> ApprovalRow \cup {NoApproval}]
             /\ [approvals EXCEPT ![a].status = st][a] \in ApprovalRow
             /\ \A c \in Approval : c # a => [approvals EXCEPT ![a].status = st][c] = approvals[c]
             /\ Moves(approvals[a], [approvals EXCEPT ![a].status = st][a])
             /\ approvals[a] \in ApprovalRow
             /\ [approvals EXCEPT ![a].status = st][b].exec = approvals[b].exec
  <2> DEFINE y == [approvals[a] EXCEPT !.status = st]
  <2>1. approvals[a] \in ApprovalRow
    BY <1>4, RowKinds DEF AInv, ApprovalTypeOK, Resolvable, RESOLVABLE
  <2>2. /\ y \in ApprovalRow /\ y.status = st /\ y.wf = approvals[a].wf
        /\ y.type = approvals[a].type /\ y.exec = approvals[a].exec
    <3>1. st \in ApprovalStatus
      BY DEF ApprovalStatus
    <3> QED BY <2>1, <3>1, RowColumns
  <2>3. [approvals EXCEPT ![a].status = st] = [approvals EXCEPT ![a] = y]
    BY DEF AInv, ApprovalTypeOK
  <2> HIDE DEF y
  <2>4. Moves(approvals[a], y)
    BY <1>4, <2>2 DEF Moves, Resolvable, RESOLVABLE
  <2> QED BY <2>1, <2>2, <2>3, <2>4 DEF AInv, ApprovalTypeOK
<1>5. CASE AICancel(b)
  <2>1. approvals' = [approvals EXCEPT ![b].exec = "moved"] /\ approvals[b].exec = "waiting"
    BY <1>5 DEF AICancel
  <2> QED BY <1>2, <1>3, <2>1 DEF AInv, ApprovalTypeOK
<1>6. CASE AIApprove(a, b)
  <2> DEFINE f == [approvals EXCEPT ![a].status = "approved"]
  <2>1. Free(a) /\ Resolvable(a) /\ approvals[b].exec = "waiting"
    BY <1>6 DEF AIApprove
  <2>2. approvals' = [f EXCEPT ![b].exec = "moved"]
    BY <1>6 DEF AIApprove
  <2>3. /\ f \in [Approval -> ApprovalRow \cup {NoApproval}] /\ f[a] \in ApprovalRow
        /\ \A c \in Approval : c # a => f[c] = approvals[c]
        /\ Moves(approvals[a], f[a]) /\ approvals[a] \in ApprovalRow
    BY <1>4, <2>1
  <2> HIDE DEF f
  <2> QED BY <1>2, <1>3, <2>1, <2>2, <2>3
<1>7. CASE AIReject(a, b)
  <2> DEFINE f == [approvals EXCEPT ![a].status = "rejected"]
             e == IF f[b].exec = "waiting" THEN "moved" ELSE f[b].exec
  <2>1. Free(a) /\ Resolvable(a)
    BY <1>7 DEF AIReject
  <2>2. approvals' = [f EXCEPT ![b].exec = e]
    BY <1>7 DEF AIReject
  <2>3. /\ f \in [Approval -> ApprovalRow \cup {NoApproval}] /\ f[a] \in ApprovalRow
        /\ \A c \in Approval : c # a => f[c] = approvals[c]
        /\ Moves(approvals[a], f[a]) /\ approvals[a] \in ApprovalRow
        /\ f[b].exec = approvals[b].exec
    BY <1>4, <2>1
  <2>4. e \in {"none", "waiting", "moved"} /\ (e = "none" <=> approvals[b].exec = "none")
    BY <1>2, <2>3 DEF ApprovalRow
  <2> HIDE DEF f, e
  <2> QED BY <1>2, <1>3, <2>1, <2>2, <2>3, <2>4
<1> QED BY <1>5, <1>6, <1>7

LEMMA ApprovalsInductive ==
  AInv /\ [ANext]_avars => AInv' /\ Kept
<1> SUFFICES ASSUME AInv, [ANext]_avars PROVE AInv' /\ Kept
  OBVIOUS
<1>1. ASSUME UNCHANGED <<approvals, deciding>>, TypeOK',
             \A w \in Workflow : Resolutions(w)' = Resolutions(w)
      PROVE  AInv' /\ Kept
  <2>1. ApprovalTypeOK'
    BY <1>1 DEF AInv, ApprovalTypeOK, Free
  <2>2. \A a \in Approval : Stays(approvals[a], approvals'[a])
    BY <1>1 DEF Stays
  <2>3. \A a \in Approval : deciding'[a] \in {"approved", "rejected"} => Resolvable(a)'
    BY <1>1 DEF AInv, Resolvable
  <2> QED BY <1>1, <2>1, <2>2, <2>3, RowsMove
<1>2. CASE RuntimeStep
  <2>1. TypeOK /\ UNCHANGED <<approvals, deciding>>
    BY <1>2 DEF RuntimeStep, AInv, ApprovalTypeOK
  <2> QED BY <1>1, <1>2, <2>1, RuntimeUnresolved
<1>3. ASSUME NEW a \in Approval, ApprovalStep(a) PROVE AInv' /\ Kept
  <2>1. CASE \E w \in Workflow, type \in ApprovalType :
               \/ \E due \in {"never", "future"} : Request(a, w, type, due)
               \/ AIRequest(a, w, type)
    BY <2>1, RequestSteps
  <2>2. CASE \/ \E decision \in {"approved", "rejected"} : BeginResolve(a, decision)
             \/ BeginRollbackRejected(a) \/ AbandonDecision(a)
    BY <2>2, LockSteps
  <2>3. CASE RejectOnly(a) \/ Escalated(a) \/ Override(a) \/ Resolve(a) \/ RollbackRejected(a)
    BY <2>3, StatusSteps
  <2>4. CASE Sweep(a)
    BY <2>4, ExpireStep DEF Sweep
  <2>5. CASE Lapse(a)
    BY <2>5, LapseStep
  <2>6. CASE (\E b \in Approval : AIApprove(a, b) \/ AIReject(a, b)) \/ AICancel(a)
    BY <2>6, GateSteps
  <2> QED BY <1>3, <2>1, <2>2, <2>3, <2>4, <2>5, <2>6 DEF ApprovalStep, EndDecision
<1>4. CASE UNCHANGED avars
  <2>1. TypeOK' /\ UNCHANGED <<approvals, deciding>> /\ log' = log
    BY <1>4 DEF avars, AInv, ApprovalTypeOK, TypeOK
  <2> QED BY <1>1, <2>1 DEF Resolutions
<1> QED BY <1>2, <1>3, <1>4 DEF ANext

LEMMA ApprovalsInitially == AInit => AInv
<1> SUFFICES ASSUME AInit PROVE AInv
  OBVIOUS
<1>1. /\ TypeOK /\ approvals = [a \in Approval |-> NoApproval]
      /\ deciding = [a \in Approval |-> "none"]
  BY TypeInit DEF AInit
<1>2. Asked = {} /\ \A w \in Workflow : Of(w) = {}
  BY <1>1, RowKinds DEF Asked, Of
<1>3. IsFiniteSet(Asked)
  BY <1>2, FS_EmptySet
<1>4. ASSUME NEW w \in Workflow
      PROVE  Cardinality(Positions(log[w], {"approval.resolved"}))
               <= Cardinality({a \in Of(w) : approvals[a].status \in {"approved", "rejected"}})
  <2>1. Positions(log[w], {"approval.resolved"}) = {}
    BY <1>4 DEF AInit, Init, Positions
  <2>2. {a \in Of(w) : approvals[a].status \in {"approved", "rejected"}} = {}
    BY <1>2
  <2>3. /\ Cardinality(Positions(log[w], {"approval.resolved"})) = 0
        /\ Cardinality({a \in Of(w) : approvals[a].status \in {"approved", "rejected"}}) = 0
    BY <2>1, <2>2, FS_EmptySet, Zenon
  <2> QED BY <2>3
<1>5. ResolutionsSound
  BY <1>2, <1>4 DEF ResolutionsSound, UniqueResolvable, ResolvedOnce
<1> QED BY <1>1, <1>3, <1>5 DEF AInv, ApprovalTypeOK, Free

-----------------------------------------------------------------------------
\* The rows and locks of the gate keep their types, and whoever decides an
\* approval decides one that exists, for any number of approvals and workflows.
THEOREM ApprovalTypeCorrect == ASpec => []ApprovalTypeOK
<1>1. AInv => ApprovalTypeOK
  BY DEF AInv
<1> QED BY <1>1, ApprovalsInitially, ApprovalsInductive, PTL DEF ASpec

\* approvals.py: however requests, escalations and resolutions of any number of
\* approvals race, no two of the workflow gate are open for one type, and a
\* workflow is moved at most once for each approval that was decided.
THEOREM ResolutionsStaySound == ASpec => []ResolutionsSound
<1>1. AInv => ResolutionsSound
  BY DEF AInv
<1> QED BY <1>1, ApprovalsInitially, ApprovalsInductive, PTL DEF ASpec

\* engine.py and expiry.py: a decided or expired approval changes only when a
\* rollback rejects it; the sweep, an escalation, an override and the AI gate
\* never reopen or overrule it.
THEOREM DecisionsStayFinal == ASpec => DecisionsAreFinal
BY ApprovalsInitially, ApprovalsInductive, PTL DEF ASpec, DecisionsAreFinal, Kept

-----------------------------------------------------------------------------
(* Event sourcing, with the approvals' events among the runtime's. *)

\* What is asked for is asked for a workflow that was started.
JInv == AInv /\ IInv /\ \A a \in Asked : Exists(approvals[a].wf)

LEMMA RowsPersist ==
  ASSUME IInv, RuntimeStep
  PROVE  \A w \in Workflow : Exists(w) => Exists(w)'
<1> USE DEF Exists, SetWf
<1>0. TypeOK
  BY DEF IInv
<1>1. CASE wf' = wf
  BY <1>1
<1>2. ASSUME NEW w \in Workflow, NEW st \in Status, NEW sp, SetWf(w, st, sp)
      PROVE  \A u \in Workflow : Exists(u) => Exists(u)'
  BY <1>0, <1>2 DEF TypeOK, Status
<1>3. ASSUME NEW s \in Session, NEW w \in Workflow, BeginStep(s, w)
      PROVE  \A u \in Workflow : Exists(u) => Exists(u)'
  BY <1>0, <1>1, <1>3, BeginSteps DEF rows
<1>4. ASSUME NEW s \in Session, NEW w \in Workflow, LockedStep(s, w)
      PROVE  \A u \in Workflow : Exists(u) => Exists(u)'
  <2>1. ASSUME NEW snap \in snapshots[w], RestoreSnapshot(s, w, snap)
        PROVE  \A u \in Workflow : Exists(u) => Exists(u)'
    <3>1. snap.status \in Status
      BY <1>0 DEF TypeOK
    <3> QED BY <1>2, <2>1, <3>1 DEF RestoreSnapshot
  <2>2. CASE Pause(s, w) \/ Resume(s, w) \/ Complete(s, w) \/ Fail(s, w) \/ Cancel(s, w)
    BY <1>2, <2>2 DEF Pause, Resume, Complete, Fail, Cancel, Transition, Status
  <2>3. CASE (\E step \in Step : SetCheckpoint(s, w, step)) \/ TakeSnapshot(s, w)
    BY <1>1, <2>3 DEF SetCheckpoint, TakeSnapshot
  <2> QED BY <1>4, <2>1, <2>2, <2>3 DEF LockedStep
<1>5. ASSUME NEW t \in txns, CommitStep(t)
      PROVE  \A u \in Workflow : Exists(u) => Exists(u)'
  <2>1. t.wf \in Workflow
    BY <1>0 DEF TypeOK, Txn
  <2>2. CASE Start(t) \/ Advance(t) \/ Recover(t) \/ Restore(t)
             \/ \E compensated \in BOOLEAN : Rollback(t, compensated)
    BY <1>2, <2>1, <2>2 DEF Start, Advance, Recover, Restore, Rollback, Status
  <2>3. CASE Escalate(t) \/ Abort(t)
    BY <1>1, <2>3 DEF Escalate, Abort, rows
  <2> QED BY <1>5, <2>2, <2>3 DEF CommitStep
<1> QED BY <1>3, <1>4, <1>5 DEF RuntimeStep

\* Audit events at the end of a log record nothing.
LEMMA AuditAppended ==
  ASSUME NEW s \in Seq(Event), NEW t \in Seq(Event), NEW types,
         HasLast(s, types), \A i \in 1..Len(t) : t[i].type \notin types
  PROVE  /\ Positions(s \o t, types) = Positions(s, types)
         /\ LastPos(s \o t, types) = LastPos(s, types)
         /\ Positions(s, types) # {} => (s \o t)[LastPos(s, types)] = s[LastPos(s, types)]
         /\ HasLast(s \o t, types)
<1>1. /\ Len(s \o t) = Len(s) + Len(t) /\ Len(s) \in Nat /\ Len(t) \in Nat
      /\ \A i \in 1..Len(s) : (s \o t)[i] = s[i]
      /\ \A i \in Len(s)+1 .. Len(s)+Len(t) : (s \o t)[i] = t[i - Len(s)]
  OBVIOUS
<1>2. \A i \in Len(s)+1 .. Len(s)+Len(t) : (s \o t)[i].type \notin types
  <2> TAKE i \in Len(s)+1 .. Len(s)+Len(t)
  <2>1. i - Len(s) \in 1..Len(t)
    BY <1>1
  <2> QED BY <1>1, <2>1
<1>3. Positions(s \o t, types) = Positions(s, types)
  BY <1>1, <1>2 DEF Positions
<1>4. LastPos(s \o t, types) = LastPos(s, types)
  BY <1>3 DEF LastPos
<1>5. Positions(s, types) # {} => LastPos(s, types) \in 1..Len(s)
  BY DEF HasLast, Positions
<1> QED BY <1>1, <1>3, <1>4, <1>5 DEF HasLast

LEMMA ExpireRecorded ==
  ASSUME JInv, NEW S \in SUBSET Overdue, Expire(S)
  PROVE  LogsOrdered' /\ EventSourced'
<1> DEFINE e == Evt("approval.expired")
<1>0. TypeOK /\ LogsOrdered /\ EventSourced /\ wf' = wf
  BY DEF JInv, IInv, Expire
<1>1. e \in Event /\ e.type \notin StatusChanging /\ e.type \notin StepChanging
  BY EventFacts, EventKinds
  DEF EventType, AuditEvents, StatusChanging, StepChanging, STEP_EVENTS, UnmappedStatusEvents
<1>2. ASSUME NEW w \in Workflow
      PROVE  /\ RecordedStatus(log'[w], "absent") = RecordedStatus(log[w], "absent")
             /\ RecordedStep(log'[w]) = RecordedStep(log[w])
             /\ HasLast(log'[w], StatusChanging) /\ HasLast(log'[w], StepChanging)
  <2> DEFINE n == Cardinality(S \cap Of(w))
             t == [i \in 1..n |-> e]
  <2>1. n \in Nat
    <3>1. S \cap Of(w) \in SUBSET Asked
      BY DEF Of, Asked
    <3> QED BY <3>1, FS_Subset, FS_CardinalityType DEF JInv, AInv
  <2>2. log'[w] = log[w] \o t
    BY DEF Expire
  <2> HIDE DEF n, e
  <2>3. t \in Seq(Event) /\ \A i \in 1..Len(t) : t[i] = e
    BY <1>1, <2>1
  <2>4. log[w] \in Seq(Event) /\ HasLast(log[w], StatusChanging) /\ HasLast(log[w], StepChanging)
    BY <1>0 DEF TypeOK, LogsOrdered
  <2> HIDE DEF t
  <2>5. \A types \in {StatusChanging, StepChanging} :
          /\ Positions(log'[w], types) = Positions(log[w], types)
          /\ LastPos(log'[w], types) = LastPos(log[w], types)
          /\ Positions(log[w], types) # {} =>
               log'[w][LastPos(log[w], types)] = log[w][LastPos(log[w], types)]
          /\ HasLast(log'[w], types)
    <3> DEFINE ls == log[w]
    <3>1. ls \in Seq(Event) /\ log'[w] = ls \o t
      BY <2>2, <2>4
    <3>2. HasLast(ls, StatusChanging) /\ \A i \in 1..Len(t) : t[i].type \notin StatusChanging
      BY <1>1, <2>3, <2>4
    <3>3. HasLast(ls, StepChanging) /\ \A i \in 1..Len(t) : t[i].type \notin StepChanging
      BY <1>1, <2>3, <2>4
    <3> HIDE DEF ls
    <3>4. /\ Positions(ls \o t, StatusChanging) = Positions(ls, StatusChanging)
          /\ LastPos(ls \o t, StatusChanging) = LastPos(ls, StatusChanging)
          /\ Positions(ls, StatusChanging) # {} =>
               (ls \o t)[LastPos(ls, StatusChanging)] = ls[LastPos(ls, StatusChanging)]
          /\ HasLast(ls \o t, StatusChanging)
      BY <2>3, <3>1, <3>2, AuditAppended
    <3>5. /\ Positions(ls \o t, StepChanging) = Positions(ls, StepChanging)
          /\ LastPos(ls \o t, StepChanging) = LastPos(ls, StepChanging)
          /\ Positions(ls, StepChanging) # {} =>
               (ls \o t)[LastPos(ls, StepChanging)] = ls[LastPos(ls, StepChanging)]
          /\ HasLast(ls \o t, StepChanging)
      BY <2>3, <3>1, <3>3, AuditAppended
    <3> QED BY <3>1, <3>4, <3>5 DEF ls
  <2> QED BY <2>5 DEF RecordedStatus, RecordedStep
<1> QED BY <1>0, <1>2 DEF LogsOrdered, EventSourced

\* What the steps of the gate record, and that they reopen no creation.
LEMMA GateRecorded ==
  ASSUME JInv, NEW a \in Approval, ApprovalStep(a)
  PROVE  /\ LogsOrdered' /\ EventSourced'
         /\ \A w \in Workflow : wf'[w] = wf[w] \/ (Exists(w) /\ Exists(w)')
         /\ txns' = txns
<1>0. /\ IInv /\ TypeOK
      /\ approvals[a].status # "absent" => approvals[a].wf \in Workflow /\ Exists(approvals[a].wf)
  BY RowKinds DEF JInv, IInv, AInv, ApprovalTypeOK, ApprovalRow, Asked
<1>1. ASSUME UNCHANGED <<wf, log, txns>>
      PROVE  /\ LogsOrdered' /\ EventSourced'
             /\ \A w \in Workflow : wf'[w] = wf[w] \/ (Exists(w) /\ Exists(w)')
             /\ txns' = txns
  BY <1>0, <1>1, QuietStep
<1>2. ASSUME NEW w \in Workflow, NEW type \in ApprovalType, NEW due \in {"never", "future"},
             Request(a, w, type, due)
      PROVE  /\ LogsOrdered' /\ EventSourced'
             /\ \A u \in Workflow : wf'[u] = wf[u] \/ (Exists(u) /\ Exists(u)')
             /\ txns' = txns
  <2> DEFINE e == Evt("approval.requested")
  <2>1. /\ e \in Event /\ e.type \in StatusChanging /\ e.type \notin StepChanging
        /\ EventStatus(e) = "paused"
    BY EventFacts, EventTypes, EventKinds
    DEF StatusChanging, StepChanging, STEP_EVENTS, UnmappedStatusEvents, EventStatus
  <2>2. /\ SetWf(w, "paused", wf[w].step) /\ Emit(w, e) /\ wf[w].status = "active"
        /\ txns' = txns
    BY <1>2 DEF Request, coreRest
  <2> HIDE DEF e
  <2>3. LogsOrdered' /\ EventSourced'
    BY <1>0, <2>1, <2>2, WriteRecorded
  <2> QED BY <1>0, <2>2, <2>3 DEF SetWf, TypeOK, Exists
<1>3. CASE Resolve(a)
  <2>0. PICK w \in Workflow : w = approvals[a].wf
    BY <1>0, <1>3, RowKinds DEF Resolve, JInv, AInv, Resolvable, RESOLVABLE
  <2> DEFINE st == IF deciding[a] = "approved" THEN "active" ELSE "failed"
             e  == StatusEvt("approval.resolved", st)
  <2>1. st \in Status /\ st # "absent"
    BY DEF Status
  <2>2. /\ SetWf(w, st, wf[w].step) /\ Emit(w, e) /\ wf[w].status = "paused" /\ txns' = txns
    BY <1>3, <2>0 DEF Resolve, coreRest
  <2> HIDE DEF st
  <2>3. e \in Event /\ e.type = "approval.resolved" /\ e.status = st
    BY <2>1, EventTypes DEF StatusEvt, Event
  <2> HIDE DEF e
  <2>4. e.type \in StatusChanging /\ e.type \notin StepChanging /\ EventStatus(e) = st
    BY <2>3, EventKinds
    DEF StatusChanging, StepChanging, STEP_EVENTS, UnmappedStatusEvents, EventStatus
  <2>5. LogsOrdered' /\ EventSourced'
    BY <1>0, <2>2, <2>3, <2>4, WriteRecorded
  <2> QED BY <1>0, <2>1, <2>2, <2>5 DEF SetWf, TypeOK, Exists
<1>4. CASE RollbackRejected(a)
  <2>0. PICK w \in Workflow : w = approvals[a].wf /\ Exists(w)
    BY <1>0, <1>4 DEF RollbackRejected, JInv, AInv, ApprovalTypeOK, Free
  <2> DEFINE r == Evt("rolled_back")
             c == Evt("compensating_action.recorded")
  <2>1. /\ SetWf(w, "cancelled", wf[w].step) /\ log' = [log EXCEPT ![w] = @ \o <<r, c>>]
        /\ txns' = txns
    BY <1>4, <2>0 DEF RollbackRejected
  <2>2. r \in Event /\ c \in Event /\ log[w] \in Seq(Event)
    BY <1>0, EventFacts, EventTypes DEF TypeOK
  <2>3. log[w] \o <<r, c>> = Append(Append(log[w], r), c)
    <3> HIDE DEF r, c
    <3> QED BY <2>2
  <2>4. log' = [log EXCEPT ![w] = Append(Append(log[w], r), c)]
    BY <2>1, <2>3
  <2>5. LogsOrdered' /\ EventSourced'
    BY <1>0, <2>1, <2>4, RollbackRecorded
  <2> QED BY <1>0, <2>0, <2>1, <2>5 DEF SetWf, TypeOK, Exists
<1>5. CASE Escalated(a)
  <2> DEFINE e == Evt("approval.escalated")
  <2>0. PICK w \in Workflow : w = approvals[a].wf
    BY <1>0, <1>5 DEF Escalated
  <2>1. e \in Event /\ e.type \notin StatusChanging /\ e.type \notin StepChanging
    BY EventFacts, EventKinds
    DEF EventType, AuditEvents, StatusChanging, StepChanging, STEP_EVENTS, UnmappedStatusEvents
  <2>2. Emit(w, e) /\ UNCHANGED <<wf, txns>>
    BY <1>5, <2>0 DEF Escalated, coreRest
  <2> HIDE DEF e
  <2> QED BY <1>0, <2>1, <2>2, EmitOrdered DEF EventSourced, IInv
<1>6. CASE Sweep(a)
  <2>1. PICK S \in SUBSET Overdue : Expire(S)
    BY <1>6 DEF Sweep
  <2> QED BY <2>1, ExpireRecorded DEF Expire, coreRest
<1>7. CASE \/ \E decision \in {"approved", "rejected"} : BeginResolve(a, decision)
           \/ RejectOnly(a) \/ BeginRollbackRejected(a) \/ AbandonDecision(a) \/ Override(a)
           \/ Lapse(a) \/ AICancel(a)
           \/ \E w \in Workflow, type \in ApprovalType : AIRequest(a, w, type)
           \/ \E b \in Approval : AIApprove(a, b) \/ AIReject(a, b)
  BY <1>1, <1>7
  DEF BeginResolve, RejectOnly, BeginRollbackRejected, AbandonDecision, Override, Lapse,
      AICancel, AIRequest, AIApprove, AIReject, coreRest
<1> QED BY <1>2, <1>3, <1>4, <1>5, <1>6, <1>7 DEF ApprovalStep, EndDecision

\* The invariant of the runtime and that of the gate hold together.
LEMMA TogetherInductive == JInv /\ [ANext]_avars => JInv'
<1> SUFFICES ASSUME JInv, [ANext]_avars PROVE JInv'
  OBVIOUS
<1>0. AInv' /\ Kept /\ TypeOK'
  BY ApprovalsInductive DEF JInv, AInv, ApprovalTypeOK
<1>1. \A a \in Asked' : approvals'[a].wf \in Workflow
  BY <1>0, RowKinds DEF AInv, ApprovalTypeOK, ApprovalRow, Asked
<1>2. ASSUME IInv', \A w \in Workflow : Exists(w) => Exists(w)'
      PROVE  JInv'
  <2>1. \A a \in Asked' : wf'[approvals'[a].wf].status # "absent"
    BY <1>0, <1>1, <1>2 DEF JInv, Kept, Exists
  <2> QED BY <1>0, <1>2, <2>1 DEF JInv, Exists
<1>3. CASE RuntimeStep
  <2>1. [Next]_vars
    BY <1>3 DEF RuntimeStep, Next
  <2> QED BY <1>2, <1>3, <2>1, RecordNext, RowsPersist DEF JInv
<1>4. ASSUME NEW a \in Approval, ApprovalStep(a) PROVE JInv'
  <2>1. /\ LogsOrdered' /\ EventSourced' /\ txns' = txns
        /\ \A w \in Workflow : wf'[w] = wf[w] \/ (Exists(w) /\ Exists(w)')
    BY <1>4, GateRecorded
  <2>2. \A w \in Workflow : Exists(w) <=> Exists(w)'
    BY <2>1 DEF Exists
  <2>3. StartsAreFresh'
    <3>1. \A t \in txns : t.wf \in Workflow
      BY DEF JInv, IInv, TypeOK, Txn
    <3> QED BY <2>1, <2>2, <3>1 DEF JInv, IInv, StartsAreFresh
  <2> QED BY <1>0, <1>2, <2>1, <2>2, <2>3 DEF IInv
<1>5. CASE UNCHANGED avars
  <2>1. UNCHANGED vars
    BY <1>5 DEF avars, vars
  <2>2. \A w \in Workflow : Exists(w) => Exists(w)'
    BY <1>5 DEF avars, Exists
  <2> QED BY <1>2, <2>1, <2>2, RecordNext DEF JInv
<1> QED BY <1>3, <1>4, <1>5 DEF ANext

\* The composition keeps what the runtime promises: with approvals requested,
\* decided, expired and rolled back among the other writers, status and step of
\* every workflow are still what its complete log records.
THEOREM ApprovalsAreEventSourced == ASpec => []EventSourced
<1>1. AInit => JInv
  <2>1. AInit => \A a \in Approval : a \notin Asked
    BY RowKinds DEF AInit, Asked
  <2> QED BY <2>1, ApprovalsInitially, RecordInit DEF AInit, JInv, Asked
<1>2. JInv => EventSourced
  BY DEF JInv, IInv
<1> QED BY <1>1, <1>2, TogetherInductive, PTL DEF ASpec
=============================================================================
