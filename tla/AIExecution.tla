---------------------------- MODULE AIExecution ------------------------------
(***************************************************************************)
(* AIExecutionRuntime (backend/ai/lifecycle.py) and AIApprovalGate         *)
(* (backend/ai/gate.py): the ai_executions rows, the approvals the gate    *)
(* opens for tools that need one, and what happens to those approvals      *)
(* outside the gate.                                                       *)
(*                                                                         *)
(* Every method locks the execution row before it looks at it and, in      *)
(* resolve, the approval row before that, so each is one step.             *)
(***************************************************************************)
EXTENDS Integers, FiniteSets

CONSTANTS Execution,      \* execution_keys
          ToolApproval,   \* identities of approvals the gate may create
          NoApproval,
          MaxAttempts     \* the max_attempts values callers ask for

ASSUME AIAssumption ==
  /\ NoApproval \notin ToolApproval
  /\ MaxAttempts \subseteq Nat
  /\ IsFiniteSet(ToolApproval)

VARIABLES
  execution,  \* execution[e]: the row
  ticket,     \* ticket[p]: approval_status, "none" before it is created
  byGate,     \* the approvals that resolve() decided
  resumes     \* ghost: resume_from_approval calls that went through

aiVars == <<execution, ticket, byGate, resumes>>

AIExecutionStatus ==
  {"pending", "running", "completed", "failed", "cancelled", "awaiting_approval"}
AI_TERMINAL == {"completed", "cancelled"}

NoExecution == [status |-> "none", attempt |-> 0, max |-> 0, approval |-> NoApproval,
                started |-> FALSE, saved |-> 0]

AIInit ==
  /\ execution = [e \in Execution |-> NoExecution]
  /\ ticket = [p \in ToolApproval |-> "none"]
  /\ byGate = {}
  /\ resumes = 0

\* fail: "row.max_attempts or 1".
Allowed(e) == IF execution[e].max = 0 THEN 1 ELSE execution[e].max

-----------------------------------------------------------------------------
\* create, for an execution_key without a row (the key is unique).
CreateExecution(e) ==
  /\ execution[e].status = "none"
  /\ \E m \in MaxAttempts :
       execution' = [execution EXCEPT ![e] = [NoExecution EXCEPT !.status = "pending", !.max = m]]
  /\ UNCHANGED <<ticket, byGate, resumes>>

Start(e) ==
  /\ execution[e].status = "pending"
  /\ execution' = [execution EXCEPT ![e].status = "running", ![e].started = TRUE,
                                    ![e].attempt = @ + 1]
  /\ UNCHANGED <<ticket, byGate, resumes>>

Complete(e) ==
  /\ execution[e].status = "running"
  /\ execution' = [execution EXCEPT ![e].status = "completed"]
  /\ UNCHANGED <<ticket, byGate, resumes>>

\* Mutant of Fail: one attempt more than allowed is granted.
Fail_OneMore(e) ==
  /\ execution[e].status = "running"
  /\ execution' = [execution EXCEPT ![e] =
       IF execution[e].attempt <= Allowed(e)
       THEN [@ EXCEPT !.status = "pending", !.started = FALSE]
       ELSE [@ EXCEPT !.status = "failed"]]
  /\ UNCHANGED <<ticket, byGate, resumes>>

\* fail: back to pending, without a started_at, while attempts are left.
Fail(e) ==
  /\ execution[e].status = "running"
  /\ execution' = [execution EXCEPT ![e] =
       IF execution[e].attempt < Allowed(e)
       THEN [@ EXCEPT !.status = "pending", !.started = FALSE]
       ELSE [@ EXCEPT !.status = "failed"]]
  /\ UNCHANGED <<ticket, byGate, resumes>>

\* The row after cancel: a failed execution can still be cancelled.
Cancelled(e) ==
  IF execution[e].status \in AI_TERMINAL THEN execution
  ELSE [execution EXCEPT ![e].status = "cancelled"]

CancelExecution(e) ==
  /\ execution[e].status # "none"
  /\ execution' = Cancelled(e)
  /\ UNCHANGED <<ticket, byGate, resumes>>

\* checkpoint: the blob of this attempt replaces what an earlier one saved, and
\* no failure clears it.
Checkpoint(e) ==
  /\ execution[e].status = "running"
  /\ execution' = [execution EXCEPT ![e].saved = execution[e].attempt]
  /\ UNCHANGED <<ticket, byGate, resumes>>

MarkAwaitingApproval(e, p) ==
  /\ execution[e].status = "running"
  /\ execution' = [execution EXCEPT ![e].status = "awaiting_approval", ![e].approval = p]

ResumeFromApproval(e) ==
  /\ execution[e].status = "awaiting_approval"
  /\ execution' = [execution EXCEPT ![e].status = "running"]
  /\ resumes' = resumes + 1

\* check_tool, for a tool that requires an approval; any other tool, and one
\* the registry does not know, changes nothing.
CheckTool(e, p) ==
  /\ ticket[p] = "none"
  /\ ticket' = [ticket EXCEPT ![p] = "pending"]
  /\ MarkAwaitingApproval(e, p)
  /\ UNCHANGED <<byGate, resumes>>

\* Mutant of Resolvable: a decided approval can be decided again.
Resolvable_Again(p) == ticket[p] # "none"

Resolvable(p) == ticket[p] \in {"pending", "escalated"}

\* resolve(approved=True).  Nothing compares the approval with the one the
\* execution waits for.
ResolveApproved(e, p) ==
  /\ Resolvable(p)
  /\ ticket' = [ticket EXCEPT ![p] = "approved"]
  /\ byGate' = byGate \cup {p}
  /\ ResumeFromApproval(e)

\* resolve(approved=False).
ResolveRejected(e, p) ==
  /\ Resolvable(p)
  /\ execution[e].status # "none"
  /\ ticket' = [ticket EXCEPT ![p] = "rejected"]
  /\ byGate' = byGate \cup {p}
  /\ execution' = Cancelled(e)
  /\ UNCHANGED resumes

\* The approval engine, the expiry sweep, an escalation or an override deals
\* with the approval: no execution hears of it.
DecideElsewhere(p) ==
  /\ Resolvable(p)
  /\ \E s \in {"approved", "rejected", "expired", "escalated"} :
       ticket' = [ticket EXCEPT ![p] = s]
  /\ UNCHANGED <<execution, byGate, resumes>>

AINext ==
  \/ \E e \in Execution :
       \/ CreateExecution(e)
       \/ Start(e)
       \/ Complete(e)
       \/ Fail(e)
       \/ CancelExecution(e)
       \/ Checkpoint(e)
       \/ \E p \in ToolApproval : CheckTool(e, p)
       \/ \E p \in ToolApproval : ResolveApproved(e, p)
       \/ \E p \in ToolApproval : ResolveRejected(e, p)
  \/ \E p \in ToolApproval : DecideElsewhere(p)

AISpec == AIInit /\ [][AINext]_aiVars

-----------------------------------------------------------------------------
(* Properties *)

AITypeOK ==
  /\ execution \in [Execution ->
       [status : AIExecutionStatus \cup {"none"}, attempt : Nat, max : MaxAttempts \cup {0},
        approval : ToolApproval \cup {NoApproval}, started : BOOLEAN, saved : Nat]]
  /\ ticket \in [ToolApproval ->
       {"none", "pending", "escalated", "approved", "rejected", "expired"}]
  /\ byGate \subseteq ToolApproval
  /\ resumes \in Nat

\* lifecycle.py: a failure resets to pending "if attempt < max_attempts".
\* However starts, failures, pauses and resumptions alternate, an execution is
\* never on an attempt beyond those it was given, and one that waits to be
\* started has an attempt left; its checkpoint is of an attempt it made.
AttemptsBounded ==
  \A e \in Execution :
    LET x == execution[e]
    IN /\ x.saved <= x.attempt
       /\ x.status = "pending" => x.attempt < Allowed(e) /\ ~ x.started
       /\ x.status \in {"running", "awaiting_approval", "completed", "failed"} =>
            x.attempt \in 1..Allowed(e) /\ x.started

\* gate.py: "Before an AI execution may call a tool flagged
\* requires_approval=True, the gate creates an Approval row and pauses the
\* execution".  Any execution may be resumed with any approval, but never two
\* with one: there were exactly as many resumptions as there are approvals the gate
\* decided that stand approved.
OneReleasePerApproval ==
  resumes = Cardinality({p \in byGate : ticket[p] = "approved"})

\* lifecycle.py: "started_at, completed_at, cancelled_at are set once and never
\* cleared."
\* The code does not keep this: a claim on record, asked by no run.
StartedStays ==
  [][\A e \in Execution : execution[e].started => execution'[e].started]_aiVars
=============================================================================
