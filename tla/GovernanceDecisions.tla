------------------------- MODULE GovernanceDecisions -------------------------
(***************************************************************************)
(* What the governance runtime does to approvals and to the authority over *)
(* them, and the append-only record it keeps of it: quorum votes           *)
(* (backend/governance/quorum.py), emergency overrides (override.py),      *)
(* escalation steps (escalation.py), delegations (delegation.py).          *)
(*                                                                         *)
(* A request is one transaction.  The record (governance_events) has no    *)
(* unique index and no foreign key: a request sees what was committed when *)
(* each of its statements ran, and two of them pass each other unless they *)
(* lock the approval's row.                                                *)
(***************************************************************************)
EXTENDS Integers, FiniteSets

CONSTANTS Request,
          GovernedApproval, Voter, OverrideKey, DelegationKey,
          Required    \* for-votes that make the quorum

ASSUME DecisionAssumption == Required \in Nat

VARIABLES
  request,        \* request[q]: what it does, and to what
  stage,          \* stage[q]: "new", "read", "flushed", "done"
  pendingEvents,  \* pendingEvents[q]: events it has appended, not committed
  governanceLog,  \* the committed governance_events
  approvalStatus, \* approvals.approval_status
  delegations     \* approval_delegations.status by key, "none" without a row

decisionVars == <<request, stage, pendingEvents, governanceLog, approvalStatus, delegations>>

OpenStatus == {"pending", "escalated"}
ClosedStatus == {"approved", "rejected", "expired"}

Entry(q, type, about, by) == [request |-> q, type |-> type, about |-> about, by |-> by]

DecisionInit ==
  /\ request = [q \in Request |-> <<"none">>]
  /\ stage = [q \in Request |-> "new"]
  /\ pendingEvents = [q \in Request |-> {}]
  /\ governanceLog = {}
  /\ approvalStatus = [a \in GovernedApproval |-> "pending"]
  /\ delegations = [d \in DelegationKey |-> "none"]

\* What a request has read lets it go on.
ReadFor(q, what) ==
  /\ stage[q] = "new"
  /\ request' = [request EXCEPT ![q] = what]
  /\ stage' = [stage EXCEPT ![q] = "read"]
  /\ UNCHANGED <<pendingEvents, governanceLog, approvalStatus, delegations>>

\* It writes, and has yet to commit.
FlushFor(q, what, events) ==
  /\ request' = [request EXCEPT ![q] = what]
  /\ stage' = [stage EXCEPT ![q] = "flushed"]
  /\ pendingEvents' = [pendingEvents EXCEPT ![q] = events]
  /\ UNCHANGED <<governanceLog, approvalStatus, delegations>>

Logged(type, about) == {e \in governanceLog : e.type = type /\ e.about = about}

-----------------------------------------------------------------------------
(* Votes *)

\* cast_vote reads the record: no quorum yet, and no vote of this voter.
ReadVotes(q, a, v, ballot) ==
  /\ Logged("quorum_met", a) = {}
  /\ \A e \in Logged("vote_for", a) \cup Logged("vote_against", a) : e.by # v
  /\ ReadFor(q, <<"vote", a, v, ballot>>)

\* The vote is appended and get_result reads the record again.
AppendVote(q) ==
  /\ stage[q] = "read" /\ request[q][1] = "vote"
  /\ LET a == request[q][2]
         vote == Entry(q, request[q][4], a, request[q][3])
         votesFor == {e \in governanceLog \cup {vote} : e.type = "vote_for" /\ e.about = a}
         resolved == Logged("quorum_met", a) # {}
     IN  FlushFor(q, request[q],
           {vote} \cup (IF Cardinality(votesFor) >= Required /\ ~resolved
                        THEN {Entry(q, "quorum_met", a, request[q][3])}
                        ELSE {}))

-----------------------------------------------------------------------------
(* Approvals: overrides and escalations hold the row from reading it *)

ChangesApproval(q, a) ==
  stage[q] = "flushed" /\ request[q] \in {<<"escalate", a>>} \cup {<<"override", a, k>> : k \in OverrideKey}

RowLocked(a) == \E q \in Request : ChangesApproval(q, a)

\* apply looks the key up, without a lock.  A key found returns what was done.
LookUpOverride(q, a, k) ==
  /\ \A e \in governanceLog : ~(e.type = "override_applied" /\ e.by = k)
  /\ ReadFor(q, <<"override", a, k>>)

\* Mutant of Overridable: the row is read without FOR UPDATE.
Overridable_Unlocked(a) == approvalStatus[a] \in OpenStatus

Overridable(a) == ~RowLocked(a) /\ approvalStatus[a] \in OpenStatus

ApplyOverride(q) ==
  /\ stage[q] = "read" /\ request[q][1] = "override"
  /\ Overridable(request[q][2])
  /\ FlushFor(q, request[q], {Entry(q, "override_applied", request[q][2], request[q][3])})

Escalate(q, a) ==
  /\ stage[q] = "new"
  /\ ~RowLocked(a) /\ approvalStatus[a] \in OpenStatus
  /\ FlushFor(q, <<"escalate", a>>, {Entry(q, "escalation_triggered", a, "none")})

\* The approval runtimes decide the same rows under the same lock.
ResolveApproval(a, status) ==
  /\ ~RowLocked(a) /\ approvalStatus[a] \in OpenStatus
  /\ approvalStatus' = [approvalStatus EXCEPT ![a] = status]
  /\ UNCHANGED <<request, stage, pendingEvents, governanceLog, delegations>>

-----------------------------------------------------------------------------
(* Delegations *)

\* grant returns the row of the key if there is one; a key inserted by two
\* requests at once makes the later one wait for the unique index and fail.
Grant(q, d) ==
  /\ stage[q] = "new" /\ delegations[d] = "none"
  /\ \A o \in Request : ~(stage[o] = "flushed" /\ request[o] = <<"grant", d>>)
  /\ FlushFor(q, <<"grant", d>>, {Entry(q, "delegation_granted", d, "none")})

\* revoke reads the row without a lock, then updates it.
ReadDelegation(q, d) ==
  /\ delegations[d] = "active"
  /\ ReadFor(q, <<"revoke", d>>)

RevokeDelegation(q) ==
  /\ stage[q] = "read" /\ request[q][1] = "revoke"
  /\ \A o \in Request : ~(stage[o] = "flushed" /\ request[o] = request[q])
  /\ FlushFor(q, request[q], {Entry(q, "delegation_revoked", request[q][2], "none")})

-----------------------------------------------------------------------------
(* The end of the transaction *)

EndRequest(q) ==
  /\ stage' = [stage EXCEPT ![q] = "done"]
  /\ pendingEvents' = [pendingEvents EXCEPT ![q] = {}]
  /\ UNCHANGED request

CommitRequest(q) ==
  /\ stage[q] = "flushed"
  /\ EndRequest(q)
  /\ governanceLog' = governanceLog \cup pendingEvents[q]
  /\ approvalStatus' = [a \in GovernedApproval |->
       IF ~ChangesApproval(q, a) THEN approvalStatus[a]
       ELSE IF request[q][1] = "override" THEN "approved" ELSE "escalated"]
  /\ delegations' = [d \in DelegationKey |->
       CASE request[q] = <<"grant", d>> -> "active"
         [] request[q] = <<"revoke", d>> -> "revoked"
         [] OTHER -> delegations[d]]

\* An error of the runtime (the row is decided already, the key is taken), or
\* of the caller.
RollbackRequest(q) ==
  /\ stage[q] \in {"read", "flushed"}
  /\ EndRequest(q)
  /\ UNCHANGED <<governanceLog, approvalStatus, delegations>>

DecisionNext ==
  \/ \E q \in Request :
       \/ \E a \in GovernedApproval, v \in Voter, ballot \in {"vote_for", "vote_against"} :
            ReadVotes(q, a, v, ballot)
       \/ AppendVote(q)
       \/ \E a \in GovernedApproval, k \in OverrideKey : LookUpOverride(q, a, k)
       \/ ApplyOverride(q)
       \/ \E a \in GovernedApproval : Escalate(q, a)
       \/ \E d \in DelegationKey : Grant(q, d) \/ ReadDelegation(q, d)
       \/ RevokeDelegation(q)
       \/ CommitRequest(q) \/ RollbackRequest(q)
  \/ \E a \in GovernedApproval, status \in ClosedStatus : ResolveApproval(a, status)

DecisionSpec == DecisionInit /\ [][DecisionNext]_decisionVars

-----------------------------------------------------------------------------
(* Properties *)

DecisionTypeOK ==
  /\ stage \in [Request -> {"new", "read", "flushed", "done"}]
  /\ approvalStatus \in [GovernedApproval -> OpenStatus \cup ClosedStatus]
  /\ delegations \in [DelegationKey -> {"none", "active", "revoked"}]
  /\ \A e \in governanceLog \cup UNION {pendingEvents[q] : q \in Request} :
       /\ e.request \in Request
       /\ e.type \in {"vote_for", "vote_against", "quorum_met", "override_applied",
                      "escalation_triggered", "delegation_granted", "delegation_revoked"}

\* "All governance runtime transitions emit a GovernanceEvent" (governance_event.py)
\* and "Mandatory audit" (override.py): however requests cross, the record and
\* the rows agree.  A quorum on record has its for-votes on record; an approval
\* is overridden once, and then stands approved; a delegation was granted once,
\* and one that was revoked stays so.
DecisionsOnRecord ==
  /\ \A e \in governanceLog :
       e.type = "quorum_met" => Cardinality(Logged("vote_for", e.about)) >= Required
  /\ \A a \in GovernedApproval :
       LET overrides == Logged("override_applied", a)
       IN  overrides # {} => Cardinality(overrides) = 1 /\ approvalStatus[a] = "approved"
  /\ \A d \in DelegationKey :
       /\ delegations[d] # "none" <=> Cardinality(Logged("delegation_granted", d)) = 1
       /\ delegations[d] = "revoked" <=> Logged("delegation_revoked", d) # {}

\* quorum.py:8: "Each voter may only vote once per approval".
\* The code does not keep this: a claim on record, asked by no run.
OneVotePerVoter ==
  \A e, f \in governanceLog :
    ({e.type, f.type} \subseteq {"vote_for", "vote_against"} /\ e.about = f.about /\ e.by = f.by)
      => e = f
=============================================================================
