------------------------- MODULE WorkflowEventOrder -------------------------
(***************************************************************************)
(* The order in which replay reads one workflow's events.                  *)
(*                                                                         *)
(* workflow_events rows are read back ordered by created_at, which no      *)
(* handler sets: the database default does.  models/workflow_event.py and  *)
(* the frozen schema baseline say clock_timestamp(), the time of the       *)
(* INSERT; the migration that a database grown by "alembic upgrade head"   *)
(* has run says now(), which PostgreSQL evaluates to the time the          *)
(* transaction began.  A transaction begins before it waits for the        *)
(* workflow's row lock, so the two are separate here.           *)
(***************************************************************************)
EXTENDS WorkflowStates, FiniteSets

CONSTANTS Session,    \* database sessions
          EventClock, \* the default of workflow_events.created_at
          MaxClock    \* bound on the database clock

ASSUME EventClockAssumption == EventClock \in {"clock_timestamp", "now"}

VARIABLES row,    \* the workflows row [status, step]
          events, \* its events in the order they are written, with created_at
          txns,   \* open transactions and the time each began
          dbClock \* the database clock; every statement is later than the last

orderVars == <<row, events, txns, dbClock>>

\* The handlers that lock the row, check it and write status and event; the
\* status event each appends ("advanced" moves the step instead).
Target == [advanced |-> "active", paused |-> "paused", resumed |-> "active",
           completed |-> "completed", failed |-> "failed", cancelled |-> "cancelled"]

Stamped(e, at) == [type |-> e.type, status |-> e.status, step |-> e.step, created_at |-> at]

OrderInit ==
  /\ row = [status |-> "active", step |-> NoStep]
  /\ events = <<Stamped(Evt("started"), 0)>>
  /\ txns = {}
  /\ dbClock = 1

BeginTransaction(s, type, step) ==
  /\ \A t \in txns : t.sess # s
  /\ dbClock + Cardinality(txns) + 1 < MaxClock
  /\ txns' = txns \cup {[sess |-> s, type |-> type, step |-> step, began |-> dbClock]}
  /\ dbClock' = dbClock + 1
  /\ UNCHANGED <<row, events>>

\* Mutant of CreatedAt: the time the transaction began.
CreatedAt_Began(t) == t.began

CreatedAt(t) == IF EventClock = "now" THEN t.began ELSE dbClock

\* The lock is granted, the row is checked, written and the event inserted.
CommitTransaction(t) ==
  /\ IF t.type = "advanced" THEN row.status = "active"
                            ELSE validate_transition(row.status, Target[t.type])
  /\ row' = [status |-> Target[t.type],
             step   |-> IF t.type = "advanced" THEN t.step ELSE row.step]
  /\ events' = Append(events, Stamped(StepEvt(t.type, t.step), CreatedAt(t)))
  /\ txns' = txns \ {t}
  /\ dbClock' = dbClock + 1

Abort(t) ==
  /\ txns' = txns \ {t}
  /\ UNCHANGED <<row, events, dbClock>>

OrderNext ==
  \/ \E s \in Session :
       \/ \E type \in DOMAIN Target \ {"advanced"} : BeginTransaction(s, type, NoStep)
       \/ \E step \in Step : BeginTransaction(s, "advanced", step)
  \/ \E t \in txns : CommitTransaction(t) \/ Abort(t)

OrderSpec == OrderInit /\ [][OrderNext]_orderVars

\* get_by_workflow: ORDER BY created_at, which no two events share.
Preceding(i) == Cardinality({j \in DOMAIN events : events[j].created_at < events[i].created_at})

get_by_workflow ==
  [n \in DOMAIN events |-> events[CHOOSE i \in DOMAIN events : Preceding(i) = n - 1]]

-----------------------------------------------------------------------------
(* Properties *)

\* Every variable has its type.
OrderTypeOK ==
  /\ row \in [status : Status, step : Step \cup {NoStep}]
  /\ \A i \in 1..Len(events) : events[i].type \in EventType /\ events[i].created_at < dbClock
  /\ \A t \in txns : t.sess \in Session /\ t.began < dbClock
  /\ dbClock \in Nat

\* WorkflowRecovery.replay derives the persisted status and step from the
\* events in the order the repository returns them.
ReplayDerivesState ==
  /\ ReplayStatus(get_by_workflow) = row.status
  /\ ReplayStep(get_by_workflow) = row.step
=============================================================================
