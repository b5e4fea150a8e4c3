------------------------- MODULE SophiaConversation --------------------------
(***************************************************************************)
(* One Sophia session and its turns (backend/sophia: session.py, turn.py,  *)
(* interruption.py, handoff.py, cancellation.py, checkpoint.py, and the    *)
(* routes of api/routes/handoff.py).                                       *)
(*                                                                         *)
(* A method locks the row it changes before it looks at it, turn before    *)
(* session where both change, so each is one step -- except a              *)
(* cancellation: it reads the turn without a lock first, and the locking   *)
(* read that follows returns the object already loaded, as it was.         *)
(***************************************************************************)
EXTENDS Integers, FiniteSets

CONSTANTS Turn,         \* turn keys
          Canceller     \* requests that cancel the session

VARIABLES
  dialog,     \* sophia_sessions: status, mode, turn_count
  turn,       \* turn[t]: status, "none" before it starts
  saved,      \* checkpoint_state: its turn_count
  cancel,     \* cancel[c]: the cancellation in progress and the turn it read
  counted     \* ghost: the turns with a turn_completed event

sophiaVars == <<dialog, turn, saved, cancel, counted>>

SophiaSessionStatus == {"initializing", "active", "interrupted", "awaiting_handoff",
                        "handed_off", "completed", "cancelled", "failed"}
SophiaTurnStatus == {"running", "awaiting_approval", "completed", "interrupted",
                     "cancelled", "failed"}

SESSION_TRANSITIONS ==
  [initializing     |-> {"active"},
   active           |-> {"interrupted", "awaiting_handoff", "completed", "cancelled", "failed"},
   interrupted      |-> {"active", "cancelled"},
   awaiting_handoff |-> {"handed_off", "active"},
   handed_off       |-> {}, completed |-> {}, cancelled |-> {}, failed |-> {}]

NoCancel == [open |-> FALSE, turns |-> {}]

SophiaInit ==
  /\ dialog = [status |-> "none", mode |-> "ai", count |-> 0]
  /\ turn = [t \in Turn |-> "none"]
  /\ saved = 0
  /\ cancel = [c \in Canceller |-> NoCancel]
  /\ counted = {}

-----------------------------------------------------------------------------
(* The session *)

May(target) == dialog.status # "none" /\ target \in SESSION_TRANSITIONS[dialog.status]

Move(target) == May(target) /\ dialog' = [dialog EXCEPT !.status = target]

CreateSession ==
  /\ dialog.status = "none"
  /\ dialog' = [dialog EXCEPT !.status = "initializing"]
  /\ UNCHANGED <<turn, saved, cancel, counted>>

\* activate and resume: neither looks at the mode.
Activate       == Move("active") /\ UNCHANGED <<turn, saved, cancel, counted>>
InterruptOnly  == Move("interrupted") /\ UNCHANGED <<turn, saved, cancel, counted>>
RequestHandoff == Move("awaiting_handoff") /\ UNCHANGED <<turn, saved, cancel, counted>>
AcceptHandoff  == Move("handed_off") /\ UNCHANGED <<turn, saved, cancel, counted>>
\* reject_handoff answers "returned_to_ai"; it resumes the session, as the mode is.
RejectHandoff  == Move("active") /\ UNCHANGED <<turn, saved, cancel, counted>>
CompleteDialog == Move("completed") /\ UNCHANGED <<turn, saved, cancel, counted>>
FailDialog     == Move("failed") /\ UNCHANGED <<turn, saved, cancel, counted>>

SetMode ==
  /\ dialog.status # "none"
  /\ \E m \in {"ai", "human_takeover"} : dialog' = [dialog EXCEPT !.mode = m]
  /\ UNCHANGED <<turn, saved, cancel, counted>>

CaptureCheckpoint ==
  /\ dialog.status # "none"
  /\ saved' = dialog.count
  /\ UNCHANGED <<dialog, turn, cancel, counted>>

\* recover: resume, and put back a checkpoint the caller kept.
Recover ==
  /\ Move("active")
  /\ saved' \in 0..dialog.count
  /\ UNCHANGED <<turn, cancel, counted>>

-----------------------------------------------------------------------------
(* Turns *)

\* start looks at no session status and at no other turn.
StartTurn(t) ==
  /\ dialog.status # "none"
  /\ turn[t] = "none"
  /\ turn' = [turn EXCEPT ![t] = "running"]
  /\ UNCHANGED <<dialog, saved, cancel, counted>>

Going(t) == turn[t] \in {"running", "awaiting_approval"}

\* Mutant of CompleteTurn: any turn but a completed one can be completed.
CompleteTurn_Any(t) ==
  /\ turn[t] \notin {"none", "completed"}
  /\ turn' = [turn EXCEPT ![t] = "completed"]
  /\ dialog' = [dialog EXCEPT !.count = @ + 1]
  /\ counted' = counted \cup {t}
  /\ UNCHANGED <<saved, cancel>>

\* complete: the turn, then the session's counters, in one transaction.
CompleteTurn(t) ==
  /\ Going(t)
  /\ turn' = [turn EXCEPT ![t] = "completed"]
  /\ dialog' = [dialog EXCEPT !.count = @ + 1]
  /\ counted' = counted \cup {t}
  /\ UNCHANGED <<saved, cancel>>

TurnTo(t, guard, s) ==
  /\ guard
  /\ turn' = [turn EXCEPT ![t] = s]
  /\ UNCHANGED <<saved, cancel, counted>>

BargeIn(t)       == TurnTo(t, Going(t), "interrupted") /\ UNCHANGED dialog
AwaitApproval(t) == TurnTo(t, turn[t] = "running", "awaiting_approval") /\ UNCHANGED dialog
ResumeTurn(t)    == TurnTo(t, turn[t] = "awaiting_approval", "running") /\ UNCHANGED dialog
FailTurn(t)      == TurnTo(t, Going(t), "failed") /\ UNCHANGED dialog
CancelTurn(t)    ==
  TurnTo(t, Going(t) \/ turn[t] = "interrupted", "cancelled") /\ UNCHANGED dialog

\* interrupt_turn: a timeout, a governance block, a seller who asks for a human.
InterruptTurn(t) == TurnTo(t, Going(t), "interrupted") /\ Move("interrupted")

\* initiate_warm_transfer, without an operator.  With one it goes on to
\* request_handoff, which an interrupted session refuses: nothing is committed.
WarmTransfer(t) ==
  /\ TurnTo(t, Going(t), "interrupted")
  /\ May("interrupted")
  /\ dialog' = [dialog EXCEPT !.status = "interrupted", !.mode = "human_takeover"]

-----------------------------------------------------------------------------
(* Cancellation *)

\* The turn is read; one that is over is left alone.
BeginCancel(c) ==
  /\ ~ cancel[c].open
  /\ dialog.status # "none"
  /\ \E S \in {{}} \cup {{t} : t \in {u \in Turn : Going(u) \/ turn[u] = "interrupted"}} :
       cancel' = [cancel EXCEPT ![c] = [open |-> TRUE, turns |-> S]]
  /\ UNCHANGED <<dialog, turn, saved, counted>>

\* The turn that was read as open is written cancelled, and the session with it.
Cancel(c) ==
  /\ cancel[c].open
  /\ Move("cancelled")
  /\ turn' = [t \in Turn |-> IF t \in cancel[c].turns THEN "cancelled" ELSE turn[t]]
  /\ cancel' = [cancel EXCEPT ![c] = NoCancel]
  /\ UNCHANGED <<saved, counted>>

AbandonCancel(c) ==
  /\ cancel[c].open
  /\ cancel' = [cancel EXCEPT ![c] = NoCancel]
  /\ UNCHANGED <<dialog, turn, saved, counted>>

SophiaNext ==
  \/ CreateSession \/ Activate \/ InterruptOnly \/ RequestHandoff \/ AcceptHandoff
  \/ RejectHandoff
  \/ CompleteDialog \/ FailDialog \/ SetMode \/ CaptureCheckpoint \/ Recover
  \/ \E t \in Turn :
       \/ StartTurn(t) \/ CompleteTurn(t) \/ BargeIn(t) \/ AwaitApproval(t)
       \/ ResumeTurn(t) \/ FailTurn(t) \/ CancelTurn(t) \/ InterruptTurn(t)
       \/ WarmTransfer(t)
  \/ \E c \in Canceller : BeginCancel(c) \/ Cancel(c) \/ AbandonCancel(c)

SophiaSpec == SophiaInit /\ [][SophiaNext]_sophiaVars

-----------------------------------------------------------------------------
(* Properties *)

SophiaTypeOK ==
  /\ dialog \in [status : SophiaSessionStatus \cup {"none"}, mode : {"ai", "human_takeover"},
                 count : Nat]
  /\ turn \in [Turn -> SophiaTurnStatus \cup {"none"}]
  /\ saved \in 0..dialog.count
  /\ cancel \in [Canceller -> [open : BOOLEAN, turns : SUBSET Turn]]
  /\ counted \subseteq Turn

\* turn.py: "Increments session.turn_count and session.tokens_used on
\* completion."  Turns complete in any session status and race with approvals,
\* interruptions and cancellations; each is still counted once, and a turn that
\* was counted is completed, unless a cancellation that had read it open
\* overwrote it -- and then it never runs or counts again.
EachTurnCountsOnce ==
  /\ dialog.count = Cardinality(counted)
  /\ \A t \in Turn : turn[t] = "completed" => t \in counted
  /\ \A t \in counted : turn[t] \in {"completed", "cancelled"}

\* turn.py lists no transition out of "completed".
\* The code does not keep this: a claim on record, asked by no run.
CompletedTurnStays ==
  [][\A t \in Turn : turn[t] = "completed" => turn'[t] = "completed"]_sophiaVars
=============================================================================
