------------------------------ MODULE EventStore ------------------------------
(***************************************************************************)
(* The append-only event log of backend/events: transactions append events *)
(* under one advisory lock per channel, numbered MAX(seq_num) + 1 within   *)
(* the channel, and clients replay a channel page by page, handing the id  *)
(* of the last event they have back as their cursor.                       *)
(*                                                                         *)
(* An append is three steps, each of which may wait for another            *)
(* transaction: the lock, the number, and the insert, which meets the      *)
(* unique indexes.  The lock is held until the transaction ends.           *)
(***************************************************************************)
EXTENDS Integers, FiniteSets, Sequences

CONSTANTS Writer,    \* transactions that append
          LogChannel,
          EventId,   \* a retried event keeps its id
          PageLimit, \* the limit a client asks for
          MaxReplay  \* bound on the events a client holds: it then starts over

ASSUME StoreAssumption ==
  /\ IsFiniteSet(EventId) /\ "none" \notin EventId
  /\ PageLimit \in Nat \ {0} /\ MaxReplay \in Nat

VARIABLES
  domainEvents, \* the committed rows of domain_events
  inserted,     \* inserted[w]: rows its open transaction has flushed
  locked,       \* locked[w]: the channels whose advisory lock it holds
  numbered,     \* numbered[w]: <<channel, seq_num>> it has read and not used
  replayed      \* replayed[ch]: what a client has been sent, in order

storeVars == <<domainEvents, inserted, locked, numbered, replayed>>

Row == [channel : LogChannel, seq_num : Nat, event_id : EventId]

StoreInit ==
  /\ domainEvents = {}
  /\ inserted = [w \in Writer |-> {}]
  /\ locked = [w \in Writer |-> {}]
  /\ numbered = [w \in Writer |-> <<>>]
  /\ replayed = [ch \in LogChannel |-> <<>>]

\* What a transaction sees: committed rows and its own.
Visible(w) == domainEvents \cup inserted[w]

-----------------------------------------------------------------------------
(* append *)

\* pg_advisory_xact_lock(channel)
LockChannel(w, ch) ==
  /\ numbered[w] = <<>>
  /\ \A v \in Writer \ {w} : ch \notin locked[v]
  /\ locked' = [locked EXCEPT ![w] = @ \cup {ch}]
  /\ UNCHANGED <<domainEvents, inserted, numbered, replayed>>

\* COALESCE(MAX(seq_num), 0) + 1 of the channel
NextSeqNum(w, ch, n) ==
  /\ \A r \in Visible(w) : r.channel = ch => r.seq_num < n
  /\ n = 1 \/ \E r \in Visible(w) : r.channel = ch /\ r.seq_num = n - 1

ReadSeqNum(w, ch, n) ==
  /\ numbered[w] = <<>> /\ ch \in locked[w]
  /\ NextSeqNum(w, ch, n)
  /\ numbered' = [numbered EXCEPT ![w] = <<ch, n>>]
  /\ UNCHANGED <<domainEvents, inserted, locked, replayed>>

\* An insert waits for any open transaction that holds the same event_id or
\* the same (channel, seq_num); it raises when the key is there to stay.
Conflicts(row, S) ==
  \E r \in S : \/ r.event_id = row.event_id
               \/ r.channel = row.channel /\ r.seq_num = row.seq_num

InsertEvent(w, id) ==
  /\ numbered[w] # <<>>
  /\ LET row == [channel |-> numbered[w][1], seq_num |-> numbered[w][2], event_id |-> id]
     IN  /\ ~Conflicts(row, UNION {inserted[v] : v \in Writer \ {w}})
         /\ ~Conflicts(row, Visible(w))
         /\ inserted' = [inserted EXCEPT ![w] = @ \cup {row}]
  /\ numbered' = [numbered EXCEPT ![w] = <<>>]
  /\ UNCHANGED <<domainEvents, locked, replayed>>

EndTransaction(w) ==
  /\ inserted' = [inserted EXCEPT ![w] = {}]
  /\ locked' = [locked EXCEPT ![w] = {}]
  /\ numbered' = [numbered EXCEPT ![w] = <<>>]
  /\ UNCHANGED replayed

CommitEvents(w) ==
  /\ inserted[w] # {} /\ numbered[w] = <<>>
  /\ domainEvents' = domainEvents \cup inserted[w]
  /\ EndTransaction(w)

\* DuplicateEventError, a deadlock of two channels, a crash: the caller rolls back.
RollbackEvents(w) ==
  /\ locked[w] # {}
  /\ EndTransaction(w)
  /\ UNCHANGED domainEvents

-----------------------------------------------------------------------------
(* fetch_after, by way of replay_channel *)

\* Mutant of After: the cursor's own event is sent again.
After_Inclusive(ch, s) == {r \in domainEvents : r.channel = ch /\ r.seq_num >= s}

After(ch, s) == {r \in domainEvents : r.channel = ch /\ r.seq_num > s}

\* ORDER BY seq_num LIMIT limit
Page(rows, page) ==
  /\ DOMAIN page = 1 .. (IF Cardinality(rows) < PageLimit THEN Cardinality(rows) ELSE PageLimit)
  /\ \A i \in DOMAIN page :
       /\ page[i] \in rows
       /\ Cardinality({r \in rows : r.seq_num < page[i].seq_num}) = i - 1

\* The seq_num of the cursor's event on this channel; 0 without one, and 0
\* when the channel has no such event.
StartSeq(ch, cursor) ==
  IF \E r \in domainEvents : r.channel = ch /\ r.event_id = cursor
  THEN (CHOOSE r \in domainEvents : r.channel = ch /\ r.event_id = cursor).seq_num
  ELSE 0

Pages(ch, cursor) ==
  {page \in UNION {[1 .. n -> After(ch, StartSeq(ch, cursor))] : n \in 0 .. PageLimit} :
     Page(After(ch, StartSeq(ch, cursor)), page)}

ReplayNext(ch) ==
  LET held == replayed[ch]
      cursor == IF held = <<>> THEN "none" ELSE held[Len(held)].event_id
  IN  /\ Len(held) <= MaxReplay
      /\ \E page \in Pages(ch, cursor) : replayed' = [replayed EXCEPT ![ch] = held \o page]
      /\ UNCHANGED <<domainEvents, inserted, locked, numbered>>

\* A client that reconnects without a cursor.
ReplayAgain(ch) ==
  /\ \E page \in Pages(ch, "none") : replayed' = [replayed EXCEPT ![ch] = page]
  /\ UNCHANGED <<domainEvents, inserted, locked, numbered>>

StoreNext ==
  \/ \E w \in Writer :
       \/ \E ch \in LogChannel : LockChannel(w, ch)
       \/ \E ch \in LogChannel, n \in 1 .. Cardinality(EventId) + 1 : ReadSeqNum(w, ch, n)
       \/ \E id \in EventId : InsertEvent(w, id)
       \/ CommitEvents(w) \/ RollbackEvents(w)
  \/ \E ch \in LogChannel : ReplayNext(ch) \/ ReplayAgain(ch)

StoreSpec == StoreInit /\ [][StoreNext]_storeVars

-----------------------------------------------------------------------------
(* Properties *)

StoreTypeOK ==
  /\ domainEvents \subseteq Row
  /\ inserted \in [Writer -> SUBSET Row]
  /\ locked \in [Writer -> SUBSET LogChannel]
  /\ numbered \in [Writer -> {<<>>} \cup LogChannel \X Nat]
  /\ replayed \in [LogChannel -> Seq(Row)]

\* events/store.py, "deterministic channel-scoped seq_num": what a client that
\* pages through a channel has been sent is the log from its first event on,
\* nothing twice and nothing left out.  No transaction that commits late can
\* slip an event in behind the cursor, and none that rolls back leaves a hole.
ReplayLosesNothing ==
  \A ch \in LogChannel :
    \A i \in 1 .. Len(replayed[ch]) :
      /\ replayed[ch][i] \in domainEvents
      /\ replayed[ch][i].channel = ch /\ replayed[ch][i].seq_num = i
=============================================================================
