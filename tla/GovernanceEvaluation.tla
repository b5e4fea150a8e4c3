------------------------ MODULE GovernanceEvaluation -------------------------
(***************************************************************************)
(* What the policies in force say of an action: PolicyEvaluator, the       *)
(* enforcement around it (backend/governance/engine.py) and the routing of *)
(* the approvals it asks for.  How versions of policies come and go is     *)
(* GovernancePolicies; here they are enacted and archived at any time.     *)
(***************************************************************************)
EXTENDS Integers, FiniteSets, SequencesExt

CONSTANTS PolicyRow,   \* records [key, version, patterns, inherits, class]
          Deed,        \* actions that are enforced
          Enforcer,    \* calls of enforce_action
          MaxRows      \* bound on the policies in force at once

\* The ranks of _CLASSIFICATION_RANK.
Safe == 0   Restricted == 1   Privileged == 2   Forbidden == 3

\* A classification has a rank, and (policy_key, version) is unique.
ASSUME EvaluationAssumption ==
  /\ \A p \in PolicyRow : p.version \in Nat /\ p.class \in Safe..Forbidden
  /\ \A p, q \in PolicyRow : p.key = q.key /\ p.version = q.version => p = q

VARIABLES
  rulebook,  \* the committed active rows
  ruling     \* ruling[e]: the call of e

evaluationVars == <<rulebook, ruling>>

\* barred is a ghost: the action was forbidden at every moment of the call.
NoRuling == [at |-> "none", deed |-> "none", class |-> Safe, winner |-> "none", barred |-> FALSE]

EvaluationInit ==
  /\ rulebook = {}
  /\ ruling = [e \in Enforcer |-> NoRuling]

-----------------------------------------------------------------------------
(* PolicyEvaluator *)

\* Mutant of Keep: the first row of a key stays.
Keep_First(found, p) ==
  IF \E q \in Range(found) : q.key = p.key THEN found ELSE Append(found, p)

\* by_key: a key has its place where it is met first, and its latest version there.
Keep(found, p) ==
  IF \A q \in Range(found) : q.key # p.key THEN Append(found, p)
  ELSE [i \in DOMAIN found |->
          IF found[i].key = p.key /\ p.version > found[i].version THEN p ELSE found[i]]

\* One row of each key, in the order in which the keys are met.
LatestOf(rows) ==
  LET kept[n \in 0 .. Len(rows)] == IF n = 0 THEN <<>> ELSE Keep(kept[n - 1], rows[n])
  IN kept[Len(rows)]

\* A row without patterns has those of its parent, but not of its parent's
\* parent, and none if the parent is not in force.
Patterns(p, inForce) ==
  IF p.patterns # {} THEN p.patterns
  ELSE UNION {q.patterns : q \in {r \in inForce : r.key = p.inherits}}

\* max keeps the first of equally restrictive policies.
EvaluateRows(deed, rows) ==
  LET latest   == LatestOf(rows)
      matching == {i \in DOMAIN latest : deed \in Patterns(latest[i], Range(latest))}
      best     == CHOOSE i \in matching :
                    /\ \A j \in matching : latest[j].class <= latest[i].class
                    /\ \A j \in matching : j < i => latest[j].class < latest[i].class
  IN IF matching = {} THEN [class |-> Safe, winner |-> "none"]
     ELSE [class |-> latest[best].class, winner |-> latest[best].key]

\* classify_action: the quick classification, said of a set of rows.
Classify(deed, rows) ==
  LET inForce  == {p \in rows : \A q \in rows : q.key = p.key => q.version <= p.version}
      matching == {p.class : p \in {q \in inForce : deed \in Patterns(q, inForce)}}
  IN Max(matching \cup {Safe})

RequiresApproval(class) == class \in {Restricted, Privileged}

-----------------------------------------------------------------------------
\* What the policies forbid may change under a call.
Rules(rows) ==
  /\ rulebook' = rows
  /\ ruling' = [e \in Enforcer |->
       [ruling[e] EXCEPT !.barred = @ /\ Classify(ruling[e].deed, rows) = Forbidden]]

Enact(p) ==
  /\ p \notin rulebook /\ Cardinality(rulebook) < MaxRows
  /\ Rules(rulebook \cup {p})

ArchivePolicy(p) == p \in rulebook /\ Rules(rulebook \ {p})

\* enforce_action has passed the freeze gate (GovernanceFreeze).
EnterEnforcement(e, deed) ==
  /\ ruling[e].at = "none"
  /\ ruling' = [ruling EXCEPT ![e] =
       [NoRuling EXCEPT !.at = "begun", !.deed = deed,
                        !.barred = Classify(deed, rulebook) = Forbidden]]
  /\ UNCHANGED rulebook

\* get_active has no ORDER BY: the rows come in any order.
EvaluateAction(e) ==
  /\ ruling[e].at = "begun"
  /\ \E rows \in SetToSeqs(rulebook) :
       LET result == EvaluateRows(ruling[e].deed, rows)
       IN ruling' = [ruling EXCEPT ![e].at = "evaluated", ![e].class = result.class,
                                   ![e].winner = result.winner]
  /\ UNCHANGED rulebook

\* The audit record is flushed, then a forbidden action denied: the exception
\* takes audit record and denial event with it.
DenyGate(e) ==
  /\ ruling[e].at = "evaluated"
  /\ ruling' = [ruling EXCEPT ![e] =
       IF ruling[e].class = Forbidden THEN NoRuling
       ELSE [ruling[e] EXCEPT !.at =
              IF RequiresApproval(ruling[e].class) THEN "approval" ELSE "allowed"]]
  /\ UNCHANGED rulebook

\* The route names the winner's approvers; the request ends.
RouteApproval(e) ==
  /\ ruling[e].at = "approval"
  /\ ruling' = [ruling EXCEPT ![e].at = "routed"]
  /\ UNCHANGED rulebook

EndRuling(e) ==
  /\ ruling[e].at \in {"allowed", "routed"}
  /\ ruling' = [ruling EXCEPT ![e] = NoRuling]
  /\ UNCHANGED rulebook

EvaluationNext ==
  \/ \E p \in PolicyRow : Enact(p) \/ ArchivePolicy(p)
  \/ \E e \in Enforcer :
       \/ \E deed \in Deed : EnterEnforcement(e, deed)
       \/ EvaluateAction(e) \/ DenyGate(e) \/ RouteApproval(e) \/ EndRuling(e)

EvaluationSpec == EvaluationInit /\ [][EvaluationNext]_evaluationVars

-----------------------------------------------------------------------------
(* Properties *)

EvaluationTypeOK ==
  /\ rulebook \subseteq PolicyRow
  /\ ruling \in [Enforcer ->
       [at : {"none", "begun", "evaluated", "approval", "routed", "allowed"},
        deed : Deed \cup {"none"}, class : Safe..Forbidden,
        winner : {p.key : p \in PolicyRow} \cup {"none"}, barred : BOOLEAN]]

\* enforce_action: "forbidden = blocked, no exceptions".  What was forbidden all
\* through the call is not let through, whatever else changed.
DenyIsHonest == \A e \in Enforcer : ruling[e].at \in {"allowed", "approval", "routed"} =>
                                      ~ ruling[e].barred

\* evaluate: "Most-restrictive wins".  In whatever order the rows are read, with
\* several versions of one key among them, the loop finds the classification
\* that classify_action finds, and a policy of a new key never loosens it.
MostRestrictiveWins ==
  \A deed \in Deed :
    /\ \A rows \in SetToSeqs(rulebook) :
         EvaluateRows(deed, rows).class = Classify(deed, rulebook)
    /\ \A p \in PolicyRow :
         (\A q \in rulebook : q.key # p.key) =>
           Classify(deed, rulebook \cup {p}) >= Classify(deed, rulebook)

EvaluationSound == DenyIsHonest /\ MostRestrictiveWins
=============================================================================
