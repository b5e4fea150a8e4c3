----------------------------- MODULE ResearchPlans -----------------------------
(***************************************************************************)
(* The plans of one plan_key (backend/research/plan.py), their events, and *)
(* who creates them.  Every operation but create locks the row, changes it *)
(* and appends its event in one transaction: it is one step.               *)
(***************************************************************************)
EXTENDS Integers, Sequences, SequencesExt

CONSTANTS Author,         \* requests that create the plan
          MaxRevision     \* bound on revisions

ASSUME PlanAssumption == MaxRevision \in Nat

VARIABLES
  plan,        \* the row: status ("absent" before it), revision, steps, checkpoint
  planEvents,  \* the committed research_events of the plan, by emitted_at
  author       \* author[a]: a's create

planVars == <<plan, planEvents, author>>

PlanOpen == {"draft", "active", "revised"}
PlanOver == {"completed", "abandoned"}

\* steps is the revision that wrote them.
PlanEvent(type, revision) == [type |-> type, revision |-> revision]

PlanInit ==
  /\ plan = [status |-> "absent", revision |-> 0, steps |-> 0, checkpoint |-> FALSE]
  /\ planEvents = <<>>
  /\ author = [a \in Author |-> "none"]

-----------------------------------------------------------------------------
(* create: looked up without a lock, inserted under the unique index *)

LookUpPlan(a) ==
  /\ author[a] = "none"
  /\ author' = [author EXCEPT ![a] = IF plan.status = "absent" THEN "missing" ELSE "returned"]
  /\ UNCHANGED <<plan, planEvents>>

\* Mutant of InsertPlan: no unique index.
InsertPlan_Again(a) ==
  /\ author[a] = "missing"
  /\ \A b \in Author : author[b] # "inserted"
  /\ author' = [author EXCEPT ![a] = "inserted"]
  /\ UNCHANGED <<plan, planEvents>>

\* It waits for another's insert; if that commits, the request fails.
InsertPlan(a) ==
  /\ author[a] = "missing"
  /\ \A b \in Author : author[b] # "inserted"
  /\ author' = [author EXCEPT ![a] = IF plan.status = "absent" THEN "inserted" ELSE "failed"]
  /\ UNCHANGED <<plan, planEvents>>

CommitPlan(a) ==
  /\ author[a] = "inserted"
  /\ plan' = [plan EXCEPT !.status = "draft"]
  /\ planEvents' = Append(planEvents, PlanEvent("plan_created", 0))
  /\ author' = [author EXCEPT ![a] = "returned"]

AbortPlan(a) ==
  /\ author[a] = "inserted"
  /\ author' = [author EXCEPT ![a] = "failed"]
  /\ UNCHANGED <<plan, planEvents>>

-----------------------------------------------------------------------------
(* The operations on the row *)

\* It has no event.
ActivatePlan ==
  /\ plan.status = "draft"
  /\ plan' = [plan EXCEPT !.status = "active"]
  /\ UNCHANGED <<planEvents, author>>

\* A revised plan cannot be revised again.
RevisePlan(newSteps) ==
  /\ plan.status \in {"draft", "active"} /\ plan.revision < MaxRevision
  /\ plan' = [plan EXCEPT !.revision = @ + 1,
                !.steps = IF newSteps THEN plan.revision + 1 ELSE @,
                !.status = IF @ = "active" THEN "revised" ELSE @]
  /\ planEvents' = Append(planEvents, PlanEvent("plan_revised", plan.revision + 1))
  /\ UNCHANGED author

\* At any time, and without an event.
CheckpointPlan ==
  /\ plan.status # "absent"
  /\ plan' = [plan EXCEPT !.checkpoint = TRUE]
  /\ UNCHANGED <<planEvents, author>>

\* A draft may be completed too.
CompletePlan ==
  /\ plan.status \in PlanOpen
  /\ plan' = [plan EXCEPT !.status = "completed"]
  /\ planEvents' = Append(planEvents, PlanEvent("plan_completed", plan.revision))
  /\ UNCHANGED author

AbandonPlan ==
  /\ plan.status \in PlanOpen
  /\ plan' = [plan EXCEPT !.status = "abandoned"]
  /\ planEvents' = Append(planEvents, PlanEvent("plan_abandoned", plan.revision))
  /\ UNCHANGED author

PlanNext ==
  \/ \E a \in Author : LookUpPlan(a) \/ InsertPlan(a) \/ CommitPlan(a) \/ AbortPlan(a)
  \/ \E newSteps \in BOOLEAN : RevisePlan(newSteps)
  \/ ActivatePlan \/ CheckpointPlan \/ CompletePlan \/ AbandonPlan

PlanSpec == PlanInit /\ [][PlanNext]_planVars

-----------------------------------------------------------------------------
(* Properties *)

PlanTypeOK ==
  /\ plan \in [status : {"absent"} \cup PlanOpen \cup PlanOver, revision : 0..MaxRevision,
               steps : 0..MaxRevision, checkpoint : BOOLEAN]
  /\ author \in [Author -> {"none", "missing", "inserted", "returned", "failed"}]

\* plan.py: "Idempotent on plan_key", "Each revision increments the revision
\* counter".  The log of a key begins with the only creation, its revisions are
\* numbered 1, 2, ... up to the row's, nothing follows the end, and it ends with
\* the end exactly when the row is over; whoever is given a plan is given one
\* that is on record.
PlanOnRecord ==
  LET n == Len(planEvents)
  IN /\ \A i \in 1..n : planEvents[i].type = "plan_created" <=> i = 1
     /\ \A i \in 2..n : planEvents[i].revision =
          planEvents[i - 1].revision + (IF planEvents[i].type = "plan_revised" THEN 1 ELSE 0)
     /\ plan.revision = (IF n = 0 THEN 0 ELSE planEvents[n].revision)
     /\ \A i \in 1..n : planEvents[i].type \in {"plan_completed", "plan_abandoned"} => i = n
     /\ plan.status \in PlanOver <=>
          n > 0 /\ planEvents[n].type \in {"plan_completed", "plan_abandoned"}
     /\ (\E a \in Author : author[a] = "returned") => plan.status # "absent"
=============================================================================
