--------------------------- MODULE WorkflowStates ---------------------------
(***************************************************************************)
(* The pure part of backend/workflows: the lifecycle graph, the transition *)
(* check, and what an event log says about the workflow it belongs to.     *)
(* An event is a record [type, status, step]; `status` and `step` stand    *)
(* for the payload fields that carry a status or a step, and are the null  *)
(* values when the payload has none.                                       *)
(***************************************************************************)
EXTENDS Naturals, Sequences

CONSTANTS Step,    \* names of the steps a workflow may be on
          NoStep   \* current_step = None

ASSUME StepAssumption == NoStep \notin Step

Status == {"pending", "active", "paused", "completed", "failed", "cancelled"}

TERMINAL_STATES == {"completed", "failed", "cancelled"}

VALID_TRANSITIONS ==
  [s \in Status |->
     CASE s = "pending" -> {"active", "cancelled"}
       [] s = "active"  -> {"paused", "completed", "failed", "cancelled"}
       [] s = "paused"  -> {"active", "cancelled"}
       [] OTHER         -> {}]

\* The two refusals of the check: a terminal source, an edge not in the graph.
validate_transition(current, target) ==
  /\ current \notin TERMINAL_STATES
  /\ target \in VALID_TRANSITIONS[current]

\* Mutant of STATUS_EVENTS: the row for checkpoint restores is forgotten.
STATUS_EVENTS_NoRestore ==
  [t \in {"started", "paused", "resumed", "completed", "failed", "cancelled",
          "recovery.resumed"} |->
     CASE t = "paused"    -> "paused"
       [] t = "completed" -> "completed"
       [] t = "failed"    -> "failed"
       [] t = "cancelled" -> "cancelled"
       [] OTHER           -> "active"]

\* Event types whose replay sets the status.
STATUS_EVENTS ==
  [t \in {"started", "paused", "resumed", "completed", "failed", "cancelled",
          "recovery.resumed", "recovery.checkpoint_restored"} |->
     CASE t = "paused"    -> "paused"
       [] t = "completed" -> "completed"
       [] t = "failed"    -> "failed"
       [] t = "cancelled" -> "cancelled"
       [] OTHER           -> "active"]

\* Event types whose replay sets the step.
STEP_EVENTS == {"advanced", "recovery.checkpoint_restored"}

\* Event types that some handler appends together with a status change and
\* that the replay table above leaves out.
UnmappedStatusEvents ==
  {"rolled_back", "snapshot.restored", "approval.requested", "approval.resolved"}

AuditEvents == {"escalated", "compensating_action.recorded",
                "approval.escalated", "approval.expired"}

EventType == DOMAIN STATUS_EVENTS \cup STEP_EVENTS
               \cup UnmappedStatusEvents \cup AuditEvents

NoStatus == "none"

Event == [type : EventType, status : Status \cup {NoStatus}, step : Step \cup {NoStep}]

\* Mutant of StatusEvt: the payload says "active" whatever was decided.
StatusEvt_Active(type, st) == [type |-> type, status |-> "active", step |-> NoStep]

Evt(type)              == [type |-> type, status |-> NoStatus, step |-> NoStep]
StepEvt(type, step)    == [type |-> type, status |-> NoStatus, step |-> step]
StatusEvt(type, st)    == [type |-> type, status |-> st, step |-> NoStep]
FullEvt(type, st, step) == [type |-> type, status |-> st, step |-> step]

-----------------------------------------------------------------------------
\* Positions of the events of a log whose type is in `types`, and the last one.
Positions(log, types) == {i \in 1..Len(log) : log[i].type \in types}
LastPos(log, types) ==
  CHOOSE i \in Positions(log, types) : \A j \in Positions(log, types) : j <= i

\* WorkflowRecovery.replay: the status and the step derived by folding the log
\* from (pending, None); only the last event of each kind matters.
ReplayStatus(log) ==
  IF Positions(log, DOMAIN STATUS_EVENTS) = {} THEN "pending"
  ELSE STATUS_EVENTS[log[LastPos(log, DOMAIN STATUS_EVENTS)].type]

ReplayStep(log) ==
  IF Positions(log, STEP_EVENTS) = {} THEN NoStep
  ELSE log[LastPos(log, STEP_EVENTS)].step

-----------------------------------------------------------------------------
(***************************************************************************)
(* The reference derivation: what a reader who knows every event type that *)
(* accompanies a state change can conclude from the log.                   *)
(***************************************************************************)
StatusChanging == DOMAIN STATUS_EVENTS \cup UnmappedStatusEvents
StepChanging   == STEP_EVENTS \cup {"snapshot.restored"}

EventStatus(e) ==
  CASE e.type \in DOMAIN STATUS_EVENTS   -> STATUS_EVENTS[e.type]
    [] e.type = "rolled_back"            -> "cancelled"
    [] e.type = "approval.requested"     -> "paused"
    [] OTHER                             -> e.status

RecordedStatus(log, none) ==
  IF Positions(log, StatusChanging) = {} THEN none
  ELSE EventStatus(log[LastPos(log, StatusChanging)])

RecordedStep(log) ==
  IF Positions(log, StepChanging) = {} THEN NoStep
  ELSE log[LastPos(log, StepChanging)].step
=============================================================================
