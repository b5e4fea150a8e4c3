---------------------------- MODULE CallSessions ----------------------------
(***************************************************************************)
(* CallSessionRuntime and PresenceRuntime (backend/calls/runtime) for one  *)
(* call session, its participants and its event log.                       *)
(*                                                                         *)
(* Joining and ending lock the session's row.  Leaving, reconnecting and   *)
(* dropping lock the participant's row only; they read the next sequence   *)
(* number first and insert their event later.  An inserted event keeps a   *)
(* share of the session's row (its foreign key) until its transaction      *)
(* ends, so that it delays the first kind, and never the second.           *)
(***************************************************************************)
EXTENDS Integers, Sequences, FiniteSetsExt, Functions

CONSTANTS Participant,   \* identities of participant rows, created or not
          Nobody,        \* not a participant
          Txn,           \* database sessions of the second kind
          MaxEvents      \* bound on the event log

ASSUME ParticipantAssumption == Nobody \notin Participant
ASSUME MaxEventsAssumption == MaxEvents \in Nat

VARIABLES
  status,  \* session_status
  events,  \* the committed call_events, in commit order
  parts,   \* parts[p]: participant_status; "absent" before p joins
  beat,    \* beat[p]: whether last_heartbeat_at is within the threshold
  txn      \* txn[t]: what an open transaction has done and has still to do

vars == <<status, events, parts, beat, txn>>

SessionStatus     == {"waiting", "active", "completed", "failed"}
TERMINAL_STATES   == {"completed", "failed"}
VALID_TRANSITIONS ==
  [waiting |-> {"active", "failed"}, active |-> {"completed", "failed"},
   completed |-> {}, failed |-> {}]
ParticipantStatus == {"joined", "left", "reconnecting", "dropped"}

\* What an event of either kind says the status is from then on.
SESSION_EVENTS ==
  [created |-> "waiting", started |-> "active", joined |-> "active",
   completed |-> "completed", failed |-> "failed"]
PARTICIPANT_EVENTS ==
  [joined |-> "joined", left |-> "left", reconnected |-> "joined", dropped |-> "dropped"]

Op    == {"left", "reconnected", "dropped"}
Event == [type : Op \cup DOMAIN SESSION_EVENTS, part : Participant \cup {Nobody}, seq : Nat]

\* The participants still to be handled, the one being handled (`at`) with the
\* sequence number read for it, and the events inserted.
NoTxn == [op |-> "none", todo |-> {}, at |-> Nobody, seq |-> 0, mine |-> <<>>]

SessionEvt(type, seq) == [type |-> type, part |-> Nobody, seq |-> seq]
PartEvt(type, p, seq) == [type |-> type, part |-> p, seq |-> seq]

Seqs(evs) == {e.seq : e \in Range(evs)}

\* Mutant of next_sequence: the events are counted.
next_sequence_Count(own) == Len(events) + Len(own)

\* One more than the largest sequence number a transaction sees: those that
\* are committed and its own.  The log is never empty.
next_sequence(own) == Max(Seqs(events) \cup Seqs(own)) + 1

\* create_session, committed with its event.
Init ==
  /\ status = "waiting"
  /\ events = <<SessionEvt("created", 0)>>
  /\ parts = [p \in Participant |-> "absent"]
  /\ beat = [p \in Participant |-> "fresh"]
  /\ txn = [t \in Txn |-> NoTxn]

Room == Len(events) < MaxEvents

\* No open transaction holds a share of the session's row.
SessionFree == \A t \in Txn : txn[t].mine = <<>>

Locked(p) == \E t \in Txn : txn[t].at = p \/ \E e \in Range(txn[t].mine) : e.part = p

-----------------------------------------------------------------------------
(* Under the session's lock *)

\* Mutant of join: an ended session is not refused.
Join_AnyTime(p) ==
  /\ parts[p] = "absent" /\ SessionFree /\ Room
  /\ LET n == next_sequence(<<>>)
     IN  events' = events \o
           IF status = "waiting" THEN <<SessionEvt("started", n), PartEvt("joined", p, n + 1)>>
                                 ELSE <<PartEvt("joined", p, n)>>
  /\ status' = "active"
  /\ parts' = [parts EXCEPT ![p] = "joined"]
  /\ beat' = [beat EXCEPT ![p] = "fresh"]
  /\ UNCHANGED txn

\* join creates a participant; the first one activates the session.
Join(p) ==
  /\ status \notin TERMINAL_STATES
  /\ parts[p] = "absent" /\ SessionFree /\ Room
  /\ LET n == next_sequence(<<>>)
     IN  events' = events \o
           IF status = "waiting" THEN <<SessionEvt("started", n), PartEvt("joined", p, n + 1)>>
                                 ELSE <<PartEvt("joined", p, n)>>
  /\ status' = "active"
  /\ parts' = [parts EXCEPT ![p] = "joined"]
  /\ beat' = [beat EXCEPT ![p] = "fresh"]
  /\ UNCHANGED txn

\* complete_session, fail_session
End(target) ==
  /\ status \notin TERMINAL_STATES
  /\ target \in VALID_TRANSITIONS[status]
  /\ SessionFree /\ Room
  /\ status' = target
  /\ events' = Append(events, SessionEvt(target, next_sequence(<<>>)))
  /\ UNCHANGED <<parts, beat, txn>>

-----------------------------------------------------------------------------
(* Under a participant's lock *)

\* Mutants of Handle: the row is not locked; an unknown row is not refused.
Handle_Unlocked(t, op, p, rest) ==
  /\ parts[p] # "absent" /\ Room
  /\ txn' = [txn EXCEPT ![t] = [op |-> op, todo |-> rest, at |-> p,
                                seq |-> next_sequence(@.mine), mine |-> @.mine]]
  /\ UNCHANGED <<status, events, parts, beat>>

Handle_Unknown(t, op, p, rest) ==
  /\ ~Locked(p) /\ Room
  /\ txn' = [txn EXCEPT ![t] = [op |-> op, todo |-> rest, at |-> p,
                                seq |-> next_sequence(@.mine), mine |-> @.mine]]
  /\ UNCHANGED <<status, events, parts, beat>>

\* The common part of leave, reconnect and drop_participant, up to the read of
\* the sequence number: neither the session nor the participant's own status
\* is looked at.
Handle(t, op, p, rest) ==
  /\ parts[p] # "absent" /\ ~Locked(p) /\ Room
  /\ txn' = [txn EXCEPT ![t] = [op |-> op, todo |-> rest, at |-> p,
                                seq |-> next_sequence(@.mine), mine |-> @.mine]]
  /\ UNCHANGED <<status, events, parts, beat>>

Leave(t, p) ==
  /\ txn[t] = NoTxn
  /\ Handle(t, "left", p, {})

Reconnect(t, p) ==
  /\ txn[t] = NoTxn
  /\ parts[p] \in {"reconnecting", "dropped"}
  /\ Handle(t, "reconnected", p, {})

\* get_stale, read without locks
Stale == {p \in Participant : parts[p] = "joined" /\ beat[p] = "old"}

\* cleanup_stale reads its candidates ...
BeginCleanup(t) ==
  /\ txn[t] = NoTxn /\ Stale # {}
  /\ txn' = [txn EXCEPT ![t] = [op |-> "dropped", todo |-> Stale,
                                at |-> Nobody, seq |-> 0, mine |-> <<>>]]
  /\ UNCHANGED <<status, events, parts, beat>>

\* ... and drops them one after the other, in any order.
Drop(t, p) ==
  /\ txn[t].at = Nobody /\ p \in txn[t].todo
  /\ Handle(t, "dropped", p, txn[t].todo \ {p})

Insert(t) ==
  /\ txn[t].at # Nobody
  /\ txn' = [txn EXCEPT ![t].at = Nobody, ![t].seq = 0,
                        ![t].mine = Append(@, PartEvt(txn[t].op, txn[t].at, txn[t].seq))]
  /\ UNCHANGED <<status, events, parts, beat>>

Commit(t) ==
  LET touched == {e.part : e \in Range(txn[t].mine)}
      op      == txn[t].op
  IN /\ txn[t].at = Nobody /\ txn[t].todo = {} /\ txn[t].mine # <<>>
     /\ events' = events \o txn[t].mine
     /\ parts' = [p \in Participant |->
                    IF p \in touched THEN PARTICIPANT_EVENTS[op] ELSE parts[p]]
     /\ beat' = [p \in Participant |->
                   IF p \in touched /\ op = "reconnected" THEN "fresh" ELSE beat[p]]
     /\ txn' = [txn EXCEPT ![t] = NoTxn]
     /\ UNCHANGED status

\* A refusal, a lost connection, or a deadlock the database breaks.
Abort(t) ==
  /\ txn[t] # NoTxn
  /\ txn' = [txn EXCEPT ![t] = NoTxn]
  /\ UNCHANGED <<status, events, parts, beat>>

Heartbeat(p) ==
  /\ parts[p] # "absent" /\ ~Locked(p)
  /\ beat' = [beat EXCEPT ![p] = "fresh"]
  /\ UNCHANGED <<status, events, parts, txn>>

\* Time passes without a heartbeat.
Age(p) ==
  /\ parts[p] = "joined" /\ beat[p] = "fresh"
  /\ beat' = [beat EXCEPT ![p] = "old"]
  /\ UNCHANGED <<status, events, parts, txn>>

-----------------------------------------------------------------------------
SessionStep == \E target \in TERMINAL_STATES : End(target)

ParticipantStep(p) == Join(p) \/ Heartbeat(p) \/ Age(p)

TxnStep(t) ==
  \/ \E p \in Participant : Leave(t, p) \/ Reconnect(t, p) \/ Drop(t, p)
  \/ BeginCleanup(t) \/ Insert(t) \/ Commit(t) \/ Abort(t)

Next ==
  \/ SessionStep
  \/ \E p \in Participant : ParticipantStep(p)
  \/ \E t \in Txn : TxnStep(t)

Spec == Init /\ [][Next]_vars

-----------------------------------------------------------------------------
(* Properties *)

TxnRecord ==
  [op : Op \cup {"none"}, todo : SUBSET Participant, at : Participant \cup {Nobody},
   seq : Nat, mine : Seq(Event)]

\* Types; nobody is handled, or waits to be, who has not joined, and only a
\* transaction that handles somebody has events of its own.
TypeOK ==
  /\ status \in SessionStatus
  /\ events \in Seq(Event) /\ events # <<>>
  /\ parts \in [Participant -> ParticipantStatus \cup {"absent"}]
  /\ beat \in [Participant -> {"fresh", "old"}]
  /\ txn \in [Txn -> TxnRecord]
  /\ \A t \in Txn :
       /\ \A p \in txn[t].todo \cup ({txn[t].at} \ {Nobody}) : parts[p] # "absent"
       /\ txn[t].op = "none" => txn[t] = NoTxn

\* The committed sequence numbers have no gap, whatever was read, overtaken
\* or rolled back in between.
NoGaps == Seqs(events) = 0..Max(Seqs(events))

\* e is, by sequence number alone, the last event of those in S.
LastOf(i, S) == i \in S /\ \A j \in S \ {i} : events[j].seq < events[i].seq

SessionEvents == {i \in DOMAIN events : events[i].type \in DOMAIN SESSION_EVENTS}
EventsOf(p)   == {i \in DOMAIN events : events[i].part = p}

\* Read in sequence order, the session's events end with one that tells its
\* status, and nothing but the last of them ends the session: a join never
\* slips behind the end of the call.
SessionReplay ==
  /\ \E i \in SessionEvents :
       LastOf(i, SessionEvents) /\ SESSION_EVENTS[events[i].type] = status
  /\ \A i \in SessionEvents :
       events[i].type \in TERMINAL_STATES => LastOf(i, SessionEvents)

\* Read in sequence order, the events of a participant end with one that tells
\* its status, although they share sequence numbers with those of others.
ParticipantReplay ==
  \A p \in Participant : parts[p] # "absent" =>
    \E i \in EventsOf(p) :
      LastOf(i, EventsOf(p)) /\ PARTICIPANT_EVENTS[events[i].type] = parts[p]

\* test_call_runtime.py: "duplicate sequence numbers detected".
SequencesUnique ==
  \A i, j \in DOMAIN events : events[i].seq = events[j].seq => i = j
=============================================================================
