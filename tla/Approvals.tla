------------------------------ MODULE Approvals ------------------------------
(***************************************************************************)
(* The approval gate composed with the workflow runtime: approvals.py and  *)
(* approval_orchestrator.py of backend/workflows, engine.py, escalation.py *)
(* and expiry.py of backend/approvals, governance/override.py, ai/gate.py. *)
(*                                                                         *)
(* Whoever decides an approval locks its row, checks it, and only then     *)
(* asks for the workflow's row: a decision is a Begin step and a commit    *)
(* step, and holds the approval's row in between.  The other handlers need *)
(* one row only and are one step, taken when that row is free.             *)
(***************************************************************************)
EXTENDS WorkflowCore

CONSTANTS Approval,     \* identities of approval rows, created or not
          ApprovalType  \* the kinds of approval

VARIABLES
  approvals, \* approvals[a]: the row; status "absent" before the request
  deciding   \* deciding[a]: what the transaction that holds a's row will do

avars == <<wf, log, outbox, checkpoints, snapshots, frozen, txns, approvals, deciding>>
coreRest == <<outbox, checkpoints, snapshots, frozen, txns>>

ApprovalStatus == {"pending", "approved", "rejected", "expired", "escalated"}
RESOLVABLE     == {"pending", "escalated"}
Decision       == {"approved", "rejected", "rolled_back"}

\* expires_at, as far as it matters: none, still to come, or in the past; and
\* the AI execution that asked: none, waiting for the decision, or no longer.
ApprovalRow == [status : ApprovalStatus, wf : Workflow, type : ApprovalType,
                due : {"never", "future", "past"}, exec : {"none", "waiting", "moved"}]
NoApproval  == [status |-> "absent"]

AInit ==
  /\ Init
  /\ approvals = [a \in Approval |-> NoApproval]
  /\ deciding = [a \in Approval |-> "none"]

Of(w)         == {a \in Approval : approvals[a].status # "absent" /\ approvals[a].wf = w}
Resolvable(a) == approvals[a].status \in RESOLVABLE
Free(a)       == deciding[a] = "none"

Pending(w, type, due, exec) ==
  [status |-> "pending", wf |-> w, type |-> type, due |-> due, exec |-> exec]

SetApproval(a, status) == approvals' = [approvals EXCEPT ![a].status = status]
Decide(a, decision)    == deciding' = [deciding EXCEPT ![a] = decision]

-----------------------------------------------------------------------------
(* WorkflowApprovalGate *)

\* Mutant of Request: only pending approvals count, as in the unique index.
Request_PendingOnly(a, w, type, due) ==
  /\ approvals[a].status = "absent"
  /\ wf[w].status = "active" /\ Room(w)
  /\ \A b \in Of(w) : approvals[b].type = type => approvals[b].status # "pending"
  /\ approvals' = [approvals EXCEPT ![a] = Pending(w, type, due, "none")]
  /\ SetWf(w, "paused", wf[w].step)
  /\ Emit(w, Evt("approval.requested"))
  /\ UNCHANGED <<coreRest, deciding>>

\* request_approval: under the workflow's lock, so two requests never overlap.
\* (pause_for_approval is a TakeSnapshot of the runtime followed by this.)
Request(a, w, type, due) ==
  /\ approvals[a].status = "absent"
  /\ wf[w].status = "active" /\ Room(w)
  /\ \A b \in Of(w) : approvals[b].type = type => ~Resolvable(b)
  /\ approvals' = [approvals EXCEPT ![a] = Pending(w, type, due, "none")]
  /\ SetWf(w, "paused", wf[w].step)
  /\ Emit(w, Evt("approval.requested"))
  /\ UNCHANGED <<coreRest, deciding>>

\* Mutant of BeginResolve: the status is not checked under the lock.
BeginResolve_Unchecked(a, decision) ==
  /\ Free(a) /\ approvals[a].status # "absent"
  /\ approvals[a].due # "past"
  /\ Decide(a, decision)
  /\ UNCHANGED <<wf, log, coreRest, approvals>>

\* resolve locks and checks the approval, its deadline included ...
BeginResolve(a, decision) ==
  /\ Free(a) /\ Resolvable(a)
  /\ approvals[a].due # "past"
  /\ Decide(a, decision)
  /\ UNCHANGED <<wf, log, coreRest, approvals>>

\* ... then waits for the workflow, which must still be paused.
Resolve(a) ==
  LET w      == approvals[a].wf
      status == IF deciding[a] = "approved" THEN "active" ELSE "failed"
  IN /\ deciding[a] \in {"approved", "rejected"}
     /\ wf[w].status = "paused" /\ Room(w)
     /\ SetApproval(a, deciding[a])
     /\ SetWf(w, status, wf[w].step)
     /\ Emit(w, StatusEvt("approval.resolved", status))
     /\ Decide(a, "none")
     /\ UNCHANGED coreRest

-----------------------------------------------------------------------------
(* ApprovalPauseOrchestrator.rollback_on_rejection: the approval is marked  *)
(* rejected whatever it was; the workflow is cancelled through the          *)
(* coordinator, which looks at it without a lock first.                     *)

RejectOnly(a) ==
  /\ approvals[a].status # "absent" /\ Free(a)
  /\ wf[approvals[a].wf].status \in TERMINAL_STATES
  /\ SetApproval(a, "rejected")
  /\ UNCHANGED <<wf, log, coreRest, deciding>>

BeginRollbackRejected(a) ==
  /\ approvals[a].status # "absent" /\ Free(a)
  /\ wf[approvals[a].wf].status \notin TERMINAL_STATES
  /\ Decide(a, "rolled_back")
  /\ UNCHANGED <<wf, log, coreRest, approvals>>

RollbackRejected(a) ==
  LET w == approvals[a].wf
  IN /\ deciding[a] = "rolled_back" /\ Room(w)
     /\ SetApproval(a, "rejected")
     /\ SetWf(w, "cancelled", wf[w].step)
     /\ log' = [log EXCEPT ![w] = @ \o <<Evt("rolled_back"), Evt("compensating_action.recorded")>>]
     /\ Announce(w, "rollback.coordinated")
     /\ Decide(a, "none")
     /\ UNCHANGED <<checkpoints, snapshots, frozen, txns>>

\* A refusal, an exception or a lost connection ends a decision.
AbandonDecision(a) ==
  /\ ~Free(a)
  /\ Decide(a, "none")
  /\ UNCHANGED <<wf, log, coreRest, approvals>>

-----------------------------------------------------------------------------
(* ApprovalEscalationRuntime, EmergencyOverrideRuntime,
   ApprovalExpiryRuntime, and time *)

Escalated(a) ==
  /\ Free(a) /\ approvals[a].status = "pending" /\ Room(approvals[a].wf)
  /\ SetApproval(a, "escalated")
  /\ Emit(approvals[a].wf, Evt("approval.escalated"))
  /\ UNCHANGED <<wf, coreRest, deciding>>

\* apply, with a new override key: neither the deadline nor the workflow is
\* looked at, and the workflow is not resumed.
Override(a) ==
  /\ Free(a) /\ Resolvable(a)
  /\ SetApproval(a, "approved")
  /\ UNCHANGED <<wf, log, coreRest, deciding>>

Overdue == {a \in Approval : Resolvable(a) /\ approvals[a].due = "past"}

\* Mutants of Expire: the row is not locked first; escalated approvals are
\* forgotten.
Expire_Unlocked(S) ==
  /\ S \subseteq Overdue
  /\ approvals' = [a \in Approval |->
                     IF a \in S THEN [approvals[a] EXCEPT !.status = "expired"] ELSE approvals[a]]
  /\ log' = [w \in Workflow |->
               log[w] \o [i \in 1..Cardinality(S \cap Of(w)) |-> Evt("approval.expired")]]
  /\ UNCHANGED <<wf, coreRest, deciding>>

Expire_PendingOnly(S) ==
  /\ \A a \in S : approvals[a].status = "pending"
  /\ Expire_Unlocked(S)
  /\ \A a \in S : Free(a)

\* expire_pending: one transaction for the candidates it found and, one after
\* the other, locked and checked again.
Expire(S) ==
  /\ S \subseteq Overdue /\ \A a \in S : Free(a)
  /\ approvals' = [a \in Approval |->
                     IF a \in S THEN [approvals[a] EXCEPT !.status = "expired"] ELSE approvals[a]]
  /\ log' = [w \in Workflow |->
               log[w] \o [i \in 1..Cardinality(S \cap Of(w)) |-> Evt("approval.expired")]]
  /\ UNCHANGED <<wf, coreRest, deciding>>

\* The deadline of an approval that is still waited for passes.
Lapse(a) ==
  /\ Resolvable(a) /\ approvals[a].due = "future"
  /\ approvals' = [approvals EXCEPT ![a].due = "past"]
  /\ UNCHANGED <<wf, log, coreRest, deciding>>

-----------------------------------------------------------------------------
(* AIApprovalGate: approvals of a workflow that never touch its row. *)

\* check_tool: no lock and no look at the workflow or at escalated approvals;
\* only the unique index stands in the way.  The row gets no deadline.
AIRequest(a, w, type) ==
  /\ approvals[a].status = "absent" /\ Exists(w)
  /\ \A b \in Of(w) : approvals[b].type = type => approvals[b].status # "pending"
  /\ approvals' = [approvals EXCEPT ![a] = Pending(w, type, "never", "waiting")]
  /\ UNCHANGED <<wf, log, coreRest, deciding>>

\* resolve decides any approval on behalf of any execution: b names the one
\* whose execution is resumed, which need not be the one that asked for a.
AIApprove(a, b) ==
  /\ Free(a) /\ Resolvable(a)
  /\ approvals[b].status # "absent" /\ approvals[b].exec = "waiting"
  /\ approvals' = [approvals EXCEPT ![a].status = "approved", ![b].exec = "moved"]
  /\ UNCHANGED <<wf, log, coreRest, deciding>>

\* A rejection cancels its execution, whether it waits or not.
AIReject(a, b) ==
  /\ Free(a) /\ Resolvable(a) /\ approvals[b].status # "absent"
  /\ approvals' = [approvals EXCEPT ![a].status = "rejected",
                                    ![b].exec = IF @ = "waiting" THEN "moved" ELSE @]
  /\ UNCHANGED <<wf, log, coreRest, deciding>>

\* A waiting execution may be cancelled for another reason.
AICancel(b) ==
  /\ approvals[b].status # "absent" /\ approvals[b].exec = "waiting"
  /\ approvals' = [approvals EXCEPT ![b].exec = "moved"]
  /\ UNCHANGED <<wf, log, coreRest, deciding>>

-----------------------------------------------------------------------------
EndDecision(a) == Resolve(a) \/ RollbackRejected(a) \/ AbandonDecision(a)
Sweep(a)       == \E S \in SUBSET Overdue : a \in S /\ Expire(S)

ApprovalStep(a) ==
  \/ \E w \in Workflow, type \in ApprovalType, due \in {"never", "future"} :
       Request(a, w, type, due)
  \/ \E decision \in {"approved", "rejected"} : BeginResolve(a, decision)
  \/ RejectOnly(a)
  \/ BeginRollbackRejected(a)
  \/ EndDecision(a)
  \/ Escalated(a)
  \/ Override(a)
  \/ Sweep(a)
  \/ Lapse(a)
  \/ \E w \in Workflow, type \in ApprovalType : AIRequest(a, w, type)
  \/ \E b \in Approval : AIApprove(a, b)
  \/ \E b \in Approval : AIReject(a, b)
  \/ AICancel(a)

\* The runtime's own steps; the freeze gate stays open here.
RuntimeStep ==
  /\ \/ \E s \in Session, w \in Workflow : BeginStep(s, w) \/ LockedStep(s, w)
     \/ \E t \in txns : CommitStep(t)
  /\ UNCHANGED <<approvals, deciding>>

ANext == RuntimeStep \/ \E a \in Approval : ApprovalStep(a)

\* Transactions end, and the sweep runs every minute; its wait for a row is
\* served in turn, so a row that is free again and again is given to it.
Fairness == \A a \in Approval : WF_avars(EndDecision(a)) /\ SF_avars(Sweep(a))

ASpec == AInit /\ [][ANext]_avars /\ Fairness
-----------------------------------------------------------------------------
(* Properties *)

\* Every variable has its type, and only a row that exists is being decided.
ApprovalTypeOK ==
  /\ TypeOK
  /\ approvals \in [Approval -> ApprovalRow \cup {NoApproval}]
  /\ deciding \in [Approval -> Decision \cup {"none"}]
  /\ \A a \in Approval : ~Free(a) => approvals[a].status # "absent"

\* The workflow gate never leaves two open approvals of one type, escalated
\* ones included, although the unique index covers the pending ones only: of
\* two that are open at once the AI gate asked for one, and one is escalated.
UniqueResolvable ==
  \A w \in Workflow : \A a, b \in Of(w) :
    a # b /\ Resolvable(a) /\ Resolvable(b) /\ approvals[a].type = approvals[b].type
      => /\ approvals[a].exec # "none" \/ approvals[b].exec # "none"
         /\ "escalated" \in {approvals[a].status, approvals[b].status}

\* However many resolutions of an approval race with each other, with the
\* sweep, an override or a rollback, it moves its workflow at most once: no
\* more resolutions are recorded than approvals have been decided.
ResolvedOnce ==
  \A w \in Workflow :
    Cardinality(Positions(log[w], {"approval.resolved"}))
      <= Cardinality({a \in Of(w) : approvals[a].status \in {"approved", "rejected"}})

\* Racing requests, escalations and resolutions neither leave two approvals to
\* decide nor move a workflow twice.
ResolutionsSound == UniqueResolvable /\ ResolvedOnce

\* A decided or expired approval changes only when a rollback rejects it.
DecisionIsFinal ==
  \A a \in Approval :
    approvals[a].status \in {"approved", "rejected", "expired"}
      => approvals'[a].status \in {approvals[a].status, "rejected"}

DecisionsAreFinal == [][DecisionIsFinal]_avars

\* An approval whose deadline has passed does not stay open: it is decided by
\* the one who locked it in time, or overridden, or swept.
OverdueIsSettled ==
  \A a \in Approval : (Resolvable(a) /\ approvals[a].due = "past") ~> ~Resolvable(a)

\* assertions.py, ConsistencyValidator: a pending approval means that its
\* workflow is paused (or terminal).  Taken here for the approvals the
\* workflow gate itself asked for.
PendingMeansPaused ==
  \A w \in Workflow :
    (\E a \in Of(w) : Resolvable(a) /\ approvals[a].exec = "none")
      => wf[w].status \in {"paused"} \cup TERMINAL_STATES
=============================================================================
