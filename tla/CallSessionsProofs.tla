------------------------- MODULE CallSessionsProofs -------------------------
(***************************************************************************)
(* Proofs about CallSessions for any number of participants and database   *)
(* sessions and any bound on the log: typing, sequences without gaps, and  *)
(* the replay of the events of a participant and of the session.           *)
(***************************************************************************)
EXTENDS CallSessions, TLAPS

-----------------------------------------------------------------------------
(* Sequence numbers of a log *)

LEMMA SeqsConcat ==
  ASSUME NEW s \in Seq(Event), NEW u \in Seq(Event)
  PROVE  s \o u \in Seq(Event) /\ Seqs(s \o u) = Seqs(s) \cup Seqs(u)
<1>1. /\ s \o u \in Seq(Event) /\ Len(s \o u) = Len(s) + Len(u)
      /\ DOMAIN (s \o u) = 1..(Len(s) + Len(u)) /\ DOMAIN s = 1..Len(s) /\ DOMAIN u = 1..Len(u)
      /\ Len(s) \in Nat /\ Len(u) \in Nat
  OBVIOUS
<1>2. \A i \in 1..(Len(s) + Len(u)) :
        (s \o u)[i] = IF i <= Len(s) THEN s[i] ELSE u[i - Len(s)]
  OBVIOUS
<1>3. Range(s \o u) \subseteq Range(s) \cup Range(u)
  BY <1>1, <1>2 DEF Range
<1>4. Range(s) \subseteq Range(s \o u)
  BY <1>1, <1>2 DEF Range
<1>5. ASSUME NEW i \in 1..Len(u) PROVE u[i] \in Range(s \o u)
  <2>1. Len(s) + i \in 1..(Len(s) + Len(u)) /\ (s \o u)[Len(s) + i] = u[i]
    BY <1>1
  <2> QED BY <2>1, <1>1 DEF Range
<1>6. Range(s \o u) = Range(s) \cup Range(u)
  BY <1>1, <1>3, <1>4, <1>5 DEF Range
<1> QED BY <1>1, <1>6 DEF Seqs

LEMMA SeqsOne ==
  ASSUME NEW e \in Event
  PROVE  <<e>> \in Seq(Event) /\ Seqs(<<e>>) = {e.seq}
<1>1. <<e>> \in Seq(Event) /\ DOMAIN <<e>> = {1} /\ <<e>>[1] = e
  OBVIOUS
<1>2. Range(<<e>>) = {e}
  BY <1>1 DEF Range
<1> QED BY <1>1, <1>2 DEF Seqs

LEMMA SeqsTwo ==
  ASSUME NEW e \in Event, NEW f \in Event
  PROVE  <<e, f>> \in Seq(Event) /\ Seqs(<<e, f>>) = {e.seq, f.seq}
<1>1. <<e, f>> \in Seq(Event) /\ DOMAIN <<e, f>> = {1, 2} /\ <<e, f>>[1] = e /\ <<e, f>>[2] = f
  OBVIOUS
<1>2. Range(<<e, f>>) = {e, f}
  BY <1>1 DEF Range
<1> QED BY <1>1, <1>2 DEF Seqs

LEMMA SeqsNone == Seqs(<<>>) = {}
BY DEF Seqs, Range

LEMMA SeqsAppend ==
  ASSUME NEW s \in Seq(Event), NEW e \in Event
  PROVE  Append(s, e) \in Seq(Event) /\ Seqs(Append(s, e)) = Seqs(s) \cup {e.seq}
<1>1. Append(s, e) = s \o <<e>>
  OBVIOUS
<1> QED BY <1>1, SeqsOne, SeqsConcat

-----------------------------------------------------------------------------
(* Sets of sequence numbers without a gap *)

Contiguous(S) == \E n \in Nat : S = 0..n

LEMMA MaxContiguous ==
  ASSUME NEW n \in Nat
  PROVE  Max(0..n) = n
<1>1. n \in 0..n /\ \A y \in 0..n : n >= y
  OBVIOUS
<1>2. \A x \in 0..n : (\A y \in 0..n : x >= y) => x = n
  OBVIOUS
<1> QED BY <1>1, <1>2 DEF Max

LEMMA ContiguousUnion ==
  ASSUME NEW A, NEW B, Contiguous(A), Contiguous(B)
  PROVE  Contiguous(A \cup B)
<1>1. PICK a \in Nat : A = 0..a
  BY DEF Contiguous
<1>2. PICK b \in Nat : B = 0..b
  BY DEF Contiguous
<1>3. CASE a <= b
  <2>1. A \cup B = 0..b
    BY <1>1, <1>2, <1>3
  <2> QED BY <2>1 DEF Contiguous
<1>4. CASE b <= a
  <2>1. A \cup B = 0..a
    BY <1>1, <1>2, <1>4
  <2> QED BY <2>1 DEF Contiguous
<1> QED BY <1>3, <1>4

LEMMA ContiguousNext ==
  ASSUME NEW S, Contiguous(S)
  PROVE  /\ Max(S) \in Nat /\ Contiguous(S \cup {Max(S) + 1})
         /\ \A x \in S : x \in Nat /\ x <= Max(S)
<1>1. PICK n \in Nat : S = 0..n
  BY DEF Contiguous
<1>2. Max(S) = n /\ n + 1 \in Nat
  BY <1>1, MaxContiguous
<1>3. S \cup {Max(S) + 1} = 0..(n + 1)
  BY <1>1, <1>2
<1> QED BY <1>1, <1>2, <1>3 DEF Contiguous

-----------------------------------------------------------------------------
(* The inductive invariant: each transaction continues, with the sequence   *)
(* numbers it has read or used, those that are committed.                   *)

Own(t) == Seqs(txn[t].mine) \cup (IF txn[t].at = Nobody THEN {} ELSE {txn[t].seq})

Continues ==
  /\ Contiguous(Seqs(events))
  /\ \A t \in Txn : Contiguous(Seqs(events) \cup Own(t))

IInv == TypeOK /\ Continues

LEMMA EventFacts ==
  /\ \A type \in DOMAIN SESSION_EVENTS, n \in Nat : SessionEvt(type, n) \in Event
  /\ \A op \in Op, p \in Participant, n \in Nat : PartEvt(op, p, n) \in Event
  /\ \A p \in Participant, n \in Nat : PartEvt("joined", p, n) \in Event
  /\ \A type, n : SessionEvt(type, n).seq = n
  /\ \A type, p, n : PartEvt(type, p, n).seq = n
  /\ NoTxn \in TxnRecord
BY DEF SessionEvt, PartEvt, Event, SESSION_EVENTS, Op, NoTxn, TxnRecord

\* What a transaction reads as its next sequence number.
LEMMA NextSequence ==
  ASSUME NEW own, Contiguous(Seqs(events) \cup Seqs(own))
  PROVE  /\ next_sequence(own) \in Nat
         /\ Contiguous((Seqs(events) \cup Seqs(own)) \cup {next_sequence(own)})
         /\ \A x \in Seqs(events) \cup Seqs(own) : x \in Nat /\ x < next_sequence(own)
<1> DEFINE S == Seqs(events) \cup Seqs(own)
<1>1. /\ Max(S) \in Nat /\ Contiguous(S \cup {Max(S) + 1})
      /\ \A x \in S : x \in Nat /\ x <= Max(S)
  BY ContiguousNext
<1>2. next_sequence(own) = Max(S) + 1
  BY DEF next_sequence
<1> QED BY <1>1, <1>2

\* What a transaction without events reads.
LEMMA NextCommitted ==
  ASSUME IInv
  PROVE  /\ next_sequence(<<>>) \in Nat
         /\ Contiguous(Seqs(events) \cup {next_sequence(<<>>)})
         /\ \A x \in Seqs(events) : x \in Nat /\ x < next_sequence(<<>>)
<1>1. Seqs(events) \cup Seqs(<<>>) = Seqs(events)
  BY SeqsNone
<1>2. Contiguous(Seqs(events) \cup Seqs(<<>>))
  BY <1>1 DEF IInv, Continues
<1>3. Contiguous((Seqs(events) \cup Seqs(<<>>)) \cup {next_sequence(<<>>)})
  BY <1>2, NextSequence
<1>4. Contiguous(Seqs(events) \cup {next_sequence(<<>>)})
  BY <1>1, <1>3
<1> QED BY <1>1, <1>2, <1>4, NextSequence

LEMMA InitIInv == Init => IInv
<1> SUFFICES ASSUME Init PROVE IInv
  OBVIOUS
<1>1. SessionEvt("created", 0) \in Event /\ SessionEvt("created", 0).seq = 0
  BY EventFacts DEF SESSION_EVENTS
<1>2. events \in Seq(Event) /\ Seqs(events) = {0}
  BY <1>1, SeqsOne DEF Init
<1>3. Contiguous(Seqs(events))
  <2>1. {0} = 0..0
    OBVIOUS
  <2> QED BY <1>2, <2>1 DEF Contiguous
<1>4. \A t \in Txn : Own(t) = {}
  BY SeqsNone DEF Init, Own, NoTxn
<1>5. TypeOK
  BY <1>2, EventFacts DEF Init, TypeOK, SessionStatus, NoTxn
<1> QED BY <1>3, <1>4, <1>5 DEF IInv, Continues

-----------------------------------------------------------------------------
(* One lemma per group of actions *)

\* A transaction still continues a log that another one has extended.
LEMMA ContinuesLonger ==
  ASSUME NEW E, NEW F, NEW O, E \subseteq F, Contiguous(F), Contiguous(E \cup O)
  PROVE  Contiguous(F \cup O)
<1>1. F \cup O = F \cup (E \cup O)
  OBVIOUS
<1> QED BY <1>1, ContiguousUnion

\* The log is still one, has grown, and has no gap.
LogExtended ==
  /\ events' \in Seq(Event) /\ events' # <<>>
  /\ Seqs(events) \subseteq Seqs(events')
  /\ Contiguous(Seqs(events'))

LEMMA LogGrows ==
  ASSUME IInv, UNCHANGED txn, LogExtended
  PROVE  Continues'
<1>1. \A t \in Txn : Own(t)' = Own(t)
  BY DEF Own
<1>2. ASSUME NEW t \in Txn PROVE Contiguous(Seqs(events') \cup Own(t))
  BY ContinuesLonger DEF LogExtended, IInv, Continues
<1> QED BY <1>1, <1>2 DEF Continues, LogExtended

LEMMA JoinLog ==
  ASSUME IInv, NEW p \in Participant, Join(p)
  PROVE  LogExtended
<1> DEFINE n == next_sequence(<<>>)
<1> USE DEF IInv, TypeOK
<1>1. /\ n \in Nat /\ Contiguous(Seqs(events) \cup {n})
  BY NextCommitted
<1>2. Contiguous(Seqs(events) \cup {n} \cup {n + 1})
  <2>1. PICK k \in Nat : Seqs(events) \cup {n} = 0..k
    BY <1>1 DEF Contiguous
  <2>2. \A x \in Seqs(events) : x \in Nat /\ x < n
    BY NextCommitted
  <2>3. k = n
    BY <1>1, <2>1, <2>2
  <2>4. Seqs(events) \cup {n} \cup {n + 1} = 0..(n + 1)
    BY <1>1, <2>1, <2>3
  <2> QED BY <1>1, <2>4 DEF Contiguous
<1>3. CASE status = "waiting"
  <2> DEFINE e == SessionEvt("started", n)
             f == PartEvt("joined", p, n + 1)
  <2>1. e \in Event /\ f \in Event /\ e.seq = n /\ f.seq = n + 1
    BY <1>1, EventFacts DEF SESSION_EVENTS
  <2>2. events' = events \o <<e, f>>
    BY <1>3 DEF Join
  <2>3. Seqs(<<e, f>>) = {e.seq, f.seq} /\ <<e, f>> \in Seq(Event)
    BY <2>1, SeqsTwo
  <2>4. Seqs(<<e, f>>) = {n} \cup {n + 1} /\ <<e, f>> \in Seq(Event)
    BY <2>1, <2>3
  <2>5. events' \in Seq(Event) /\ Seqs(events') = Seqs(events) \cup ({n} \cup {n + 1})
    BY <2>2, <2>4, SeqsConcat
  <2>6. events' # <<>>
    BY <2>2, <2>4
  <2> QED BY <1>2, <2>5, <2>6 DEF LogExtended
<1>4. CASE status # "waiting"
  <2> DEFINE f == PartEvt("joined", p, n)
  <2>1. f \in Event /\ f.seq = n
    BY <1>1, EventFacts
  <2>2. events' = events \o <<f>>
    BY <1>4 DEF Join
  <2>3. events' \in Seq(Event) /\ Seqs(events') = Seqs(events) \cup {n}
    BY <2>1, <2>2, SeqsOne, SeqsConcat
  <2>4. events' # <<>>
    BY <2>1, <2>2
  <2> QED BY <1>1, <2>3, <2>4 DEF LogExtended
<1> QED BY <1>3, <1>4

LEMMA EndLog ==
  ASSUME IInv, NEW target \in TERMINAL_STATES, End(target)
  PROVE  LogExtended
<1> DEFINE n == next_sequence(<<>>)
           e == SessionEvt(target, n)
<1>1. n \in Nat /\ Contiguous(Seqs(events) \cup {n})
  BY NextCommitted
<1>2. e \in Event /\ e.seq = n
  BY <1>1, EventFacts DEF SESSION_EVENTS, TERMINAL_STATES
<1>3. events \in Seq(Event) /\ events' = Append(events, e)
  BY DEF End, IInv, TypeOK
<1>4. events' \in Seq(Event) /\ Seqs(events') = Seqs(events) \cup {n} /\ events' # <<>>
  BY <1>2, <1>3, SeqsAppend
<1> QED BY <1>1, <1>4 DEF LogExtended

\* A step of the first kind, or of no transaction, keeps the types.
LEMMA SessionInv ==
  ASSUME IInv, \/ SessionStep
               \/ \E p \in Participant : ParticipantStep(p)
  PROVE  IInv'
<1>1. ASSUME NEW p \in Participant, Join(p) PROVE IInv'
  <2>1. LogExtended /\ UNCHANGED txn
    BY <1>1, JoinLog DEF Join
  <2>2. Continues'
    BY <2>1, LogGrows
  <2>3. TypeOK'
    BY <1>1, <2>1 DEF Join, IInv, TypeOK, LogExtended, SessionStatus, ParticipantStatus
  <2> QED BY <2>2, <2>3 DEF IInv
<1>2. ASSUME NEW target \in TERMINAL_STATES, End(target) PROVE IInv'
  <2>1. LogExtended /\ UNCHANGED txn
    BY <1>2, EndLog DEF End
  <2>2. Continues'
    BY <2>1, LogGrows
  <2>3. TypeOK'
    BY <1>2, <2>1 DEF End, IInv, TypeOK, LogExtended, SessionStatus, TERMINAL_STATES
  <2> QED BY <2>2, <2>3 DEF IInv
<1>3. ASSUME NEW p \in Participant, Heartbeat(p) \/ Age(p) PROVE IInv'
  <2>1. UNCHANGED <<status, events, parts, txn>> /\ beat' \in [Participant -> {"fresh", "old"}]
    BY <1>3 DEF Heartbeat, Age, IInv, TypeOK
  <2>2. TypeOK'
    BY <2>1 DEF IInv, TypeOK
  <2>3. Continues'
    BY <2>1 DEF IInv, Continues, Own
  <2> QED BY <2>2, <2>3 DEF IInv
<1> QED BY <1>1, <1>2, <1>3 DEF SessionStep, ParticipantStep

\* A transaction takes up a participant: its number continues its own.
LEMMA HandleInv ==
  ASSUME IInv, NEW t \in Txn, NEW p \in Participant, NEW op \in Op, NEW rest \in SUBSET Participant,
         \A q \in rest : parts[q] # "absent",
         txn[t].at = Nobody, Handle(t, op, p, rest)
  PROVE  IInv'
<1> DEFINE own == txn[t].mine
           n   == next_sequence(own)
           r   == [op |-> op, todo |-> rest, at |-> p, seq |-> n, mine |-> own]
<1>1. txn \in [Txn -> TxnRecord] /\ own \in Seq(Event) /\ parts[p] # "absent"
  BY DEF IInv, TypeOK, TxnRecord, Handle
<1>2. Own(t) = Seqs(own)
  BY DEF Own
<1>3. n \in Nat /\ Contiguous((Seqs(events) \cup Seqs(own)) \cup {n})
  BY <1>2, NextSequence DEF IInv, Continues
<1>4. txn' = [txn EXCEPT ![t] = r] /\ UNCHANGED <<status, events, parts, beat>>
  BY DEF Handle
<1>5. r \in TxnRecord
  BY <1>1, <1>3 DEF TxnRecord
<1>6. /\ txn' \in [Txn -> TxnRecord] /\ txn'[t] = r
      /\ \A u \in Txn \ {t} : txn'[u] = txn[u]
  BY <1>1, <1>4, <1>5
<1>7. TypeOK'
  BY <1>1, <1>4, <1>6 DEF IInv, TypeOK, Op
<1>8. Own(t)' = Seqs(own) \cup {n} /\ \A u \in Txn \ {t} : Own(u)' = Own(u)
  BY <1>6, ParticipantAssumption DEF Own
<1>9. Contiguous(Seqs(events) \cup Own(t)')
  <2>1. Seqs(events) \cup Own(t)' = (Seqs(events) \cup Seqs(own)) \cup {n}
    BY <1>8
  <2> QED BY <2>1, <1>3
<1>10. Continues'
  BY <1>4, <1>8, <1>9 DEF IInv, Continues
<1> QED BY <1>7, <1>10 DEF IInv

LEMMA TakeInv ==
  ASSUME IInv, NEW t \in Txn, NEW p \in Participant, Leave(t, p) \/ Reconnect(t, p) \/ Drop(t, p)
  PROVE  IInv'
<1>1. CASE Leave(t, p)
  BY <1>1, HandleInv DEF Leave, NoTxn, Op
<1>2. CASE Reconnect(t, p)
  BY <1>2, HandleInv DEF Reconnect, NoTxn, Op
<1>3. CASE Drop(t, p)
  <2>1. /\ txn[t].todo \ {p} \in SUBSET Participant
        /\ \A q \in txn[t].todo \ {p} : parts[q] # "absent"
    BY DEF IInv, TypeOK, TxnRecord
  <2> QED BY <1>3, <2>1, HandleInv DEF Drop, Op
<1> QED BY <1>1, <1>2, <1>3

\* A transaction that starts its sweep or ends without a trace.
LEMMA QuietInv ==
  ASSUME IInv, NEW t \in Txn, BeginCleanup(t) \/ Abort(t)
  PROVE  IInv'
<1> DEFINE c == [op |-> "dropped", todo |-> Stale, at |-> Nobody, seq |-> 0, mine |-> <<>>]
<1>1. c \in TxnRecord /\ (\A p \in Stale : parts[p] # "absent")
  BY DEF TxnRecord, Op, Stale
<1>2. /\ UNCHANGED <<status, events, parts, beat>>
      /\ txn' = [txn EXCEPT ![t] = c] \/ txn' = [txn EXCEPT ![t] = NoTxn]
  BY DEF BeginCleanup, Abort, NoTxn
<1>3. PICK r \in TxnRecord :
        /\ txn' = [txn EXCEPT ![t] = r] /\ r.mine = <<>> /\ r.at = Nobody
        /\ r.op = "none" => r = NoTxn
        /\ \A p \in r.todo : parts[p] # "absent"
  <2>1. CASE txn' = [txn EXCEPT ![t] = c]
    BY <2>1, <1>1
  <2>2. CASE txn' = [txn EXCEPT ![t] = NoTxn]
    BY <2>2, EventFacts DEF NoTxn
  <2> QED BY <1>2, <2>1, <2>2
<1>4. /\ txn' \in [Txn -> TxnRecord] /\ txn'[t] = r
      /\ \A u \in Txn \ {t} : txn'[u] = txn[u]
  BY <1>3 DEF IInv, TypeOK
<1>5. TypeOK'
  BY <1>2, <1>3, <1>4 DEF IInv, TypeOK
<1>6. Own(t)' = {} /\ \A u \in Txn \ {t} : Own(u)' = Own(u)
  BY <1>3, <1>4, SeqsNone DEF Own
<1>7. Continues'
  BY <1>2, <1>6 DEF IInv, Continues
<1> QED BY <1>5, <1>7 DEF IInv

LEMMA InsertInv ==
  ASSUME IInv, NEW t \in Txn, Insert(t)
  PROVE  IInv'
<1> DEFINE x == txn[t]
           e == PartEvt(x.op, x.at, x.seq)
           r == [x EXCEPT !.at = Nobody, !.seq = 0, !.mine = Append(@, e)]
<1>1. x \in TxnRecord /\ x.at \in Participant /\ x.op \in Op
  BY DEF Insert, IInv, TypeOK, TxnRecord, NoTxn
<1>2. e \in Event /\ e.seq = x.seq
  BY <1>1, EventFacts DEF TxnRecord
<1>3. Append(x.mine, e) \in Seq(Event) /\ Seqs(Append(x.mine, e)) = Seqs(x.mine) \cup {x.seq}
  BY <1>1, <1>2, SeqsAppend DEF TxnRecord
<1>4. /\ r \in TxnRecord /\ r.mine = Append(x.mine, e) /\ r.at = Nobody
      /\ r.op = x.op /\ r.todo = x.todo
  BY <1>1, <1>3 DEF TxnRecord
<1>5. txn' = [txn EXCEPT ![t] = r] /\ UNCHANGED <<status, events, parts, beat>>
  BY DEF Insert, IInv, TypeOK, TxnRecord
<1>6. /\ txn' \in [Txn -> TxnRecord] /\ txn'[t] = r
      /\ \A u \in Txn \ {t} : txn'[u] = txn[u]
  BY <1>4, <1>5 DEF IInv, TypeOK
<1>7. TypeOK'
  BY <1>1, <1>4, <1>5, <1>6 DEF IInv, TypeOK, Op
<1>8. Own(t)' = Own(t) /\ \A u \in Txn \ {t} : Own(u)' = Own(u)
  BY <1>1, <1>3, <1>4, <1>6, ParticipantAssumption DEF Own
<1>9. Continues'
  BY <1>5, <1>8 DEF IInv, Continues
<1> QED BY <1>7, <1>9 DEF IInv

LEMMA CommitInv ==
  ASSUME IInv, NEW t \in Txn, Commit(t)
  PROVE  IInv'
<1> DEFINE own == txn[t].mine
<1>1. own \in Seq(Event) /\ txn[t].op \in Op /\ txn[t].at = Nobody
  BY DEF Commit, IInv, TypeOK, TxnRecord, NoTxn
<1>2. events' \in Seq(Event) /\ Seqs(events') = Seqs(events) \cup Seqs(own)
  BY <1>1, SeqsConcat DEF Commit, IInv, TypeOK
<1>3. events' # <<>>
  BY <1>1 DEF Commit, IInv, TypeOK
<1>4. Contiguous(Seqs(events'))
  BY <1>1, <1>2 DEF IInv, Continues, Own
<1>5. /\ txn' \in [Txn -> TxnRecord] /\ txn'[t] = NoTxn
      /\ \A u \in Txn \ {t} : txn'[u] = txn[u]
  BY EventFacts DEF Commit, IInv, TypeOK
<1>6. /\ parts' \in [Participant -> ParticipantStatus \cup {"absent"}]
      /\ \A p \in Participant : parts[p] # "absent" => parts'[p] # "absent"
  BY <1>1 DEF Commit, IInv, TypeOK, PARTICIPANT_EVENTS, ParticipantStatus, Op
<1>7. beat' \in [Participant -> {"fresh", "old"}] /\ status' = status
  BY DEF Commit, IInv, TypeOK
<1>8. TypeOK'
  <2>1. ASSUME NEW u \in Txn, NEW p \in txn'[u].todo \cup ({txn'[u].at} \ {Nobody})
        PROVE  parts'[p] # "absent"
    <3>1. u # t /\ p \in txn[u].todo \cup ({txn[u].at} \ {Nobody})
      BY <2>1, <1>5 DEF NoTxn
    <3>2. p \in Participant /\ parts[p] # "absent"
      BY <3>1 DEF IInv, TypeOK, TxnRecord
    <3> QED BY <3>2, <1>6
  <2>2. \A u \in Txn : txn'[u].op = "none" => txn'[u] = NoTxn
    BY <1>5 DEF IInv, TypeOK
  <2> QED BY <1>2, <1>3, <1>5, <1>6, <1>7, <2>1, <2>2 DEF IInv, TypeOK
<1>9. Own(t)' = {} /\ \A u \in Txn \ {t} : Own(u)' = Own(u)
  BY <1>5, SeqsNone DEF Own, NoTxn
<1>10. ASSUME NEW u \in Txn \ {t} PROVE Contiguous(Seqs(events') \cup Own(u))
  BY <1>2, <1>4, ContinuesLonger DEF IInv, Continues
<1>11. Continues'
  BY <1>4, <1>9, <1>10 DEF Continues
<1> QED BY <1>8, <1>11 DEF IInv

LEMMA NextIInv == IInv /\ [Next]_vars => IInv'
<1> SUFFICES ASSUME IInv, [Next]_vars PROVE IInv'
  OBVIOUS
<1>1. CASE SessionStep \/ \E p \in Participant : ParticipantStep(p)
  BY <1>1, SessionInv
<1>2. ASSUME NEW t \in Txn, TxnStep(t) PROVE IInv'
  BY <1>2, TakeInv, QuietInv, InsertInv, CommitInv DEF TxnStep
<1>3. CASE UNCHANGED vars
  BY <1>3 DEF vars, IInv, TypeOK, Continues, Own
<1> QED BY <1>1, <1>2, <1>3 DEF Next

-----------------------------------------------------------------------------
\* Every reachable state is well typed, and nobody is handled who has not
\* joined, for any number of participants and transactions.
THEOREM CallTypeCorrect == Spec => []TypeOK
<1>1. IInv => TypeOK
  BY DEF IInv
<1> QED BY <1>1, InitIInv, NextIInv, PTL DEF Spec

\* However many transactions read the same maximum, overtake one another or
\* roll back, the committed sequence numbers have no gap.
THEOREM SequencesHaveNoGaps == Spec => []NoGaps
<1>1. IInv => NoGaps
  <2> SUFFICES ASSUME Contiguous(Seqs(events)) PROVE NoGaps
    BY DEF IInv, Continues
  <2>1. PICK n \in Nat : Seqs(events) = 0..n
    BY DEF Contiguous
  <2> QED BY <2>1, MaxContiguous DEF NoGaps
<1> QED BY <1>1, InitIInv, NextIInv, PTL DEF Spec

-----------------------------------------------------------------------------
(* ParticipantReplay: a participant's row lock orders its events.           *)

Holds(t, p) == txn[t].at = p \/ \E j \in DOMAIN txn[t].mine : txn[t].mine[j].part = p

\* One transaction holds a row; it has one event for each row, of one type.
RowLocks ==
  /\ \A t, u \in Txn, p \in Participant : Holds(t, p) /\ Holds(u, p) => t = u
  /\ \A t \in Txn : txn[t].todo # {} => txn[t].op = "dropped"
  /\ \A t \in Txn : \A j \in DOMAIN txn[t].mine :
       /\ txn[t].mine[j].part \in Participant
       /\ parts[txn[t].mine[j].part] # "absent"
       /\ txn[t].mine[j].type = txn[t].op
       /\ txn[t].mine[j].part # txn[t].at
       /\ \A k \in DOMAIN txn[t].mine : txn[t].mine[k].part = txn[t].mine[j].part => k = j

\* Its sequence numbers are beyond those of the row's committed events.
Ahead ==
  \A t \in Txn, p \in Participant : \A i \in EventsOf(p) :
    /\ txn[t].at = p => events[i].seq < txn[t].seq
    /\ \A j \in DOMAIN txn[t].mine :
         txn[t].mine[j].part = p => events[i].seq < txn[t].mine[j].seq

Unborn == \A p \in Participant : parts[p] = "absent" => EventsOf(p) = {}

PInv == IInv /\ RowLocks /\ Ahead /\ Unborn /\ ParticipantReplay

\* The events of a log extended by another.
LEMMA ConcatFacts ==
  ASSUME NEW s \in Seq(Event), NEW u \in Seq(Event)
  PROVE  /\ DOMAIN s = 1..Len(s) /\ DOMAIN u = 1..Len(u) /\ Len(s) \in Nat /\ Len(u) \in Nat
         /\ DOMAIN (s \o u) = 1..(Len(s) + Len(u))
         /\ \A i \in DOMAIN s : i \in DOMAIN (s \o u) /\ (s \o u)[i] = s[i]
         /\ \A j \in DOMAIN u : Len(s) + j \in DOMAIN (s \o u) /\ (s \o u)[Len(s) + j] = u[j]
         /\ \A i \in DOMAIN (s \o u) : i \in DOMAIN s \/ \E j \in DOMAIN u : i = Len(s) + j
<1>1. /\ DOMAIN s = 1..Len(s) /\ DOMAIN u = 1..Len(u) /\ Len(s) \in Nat /\ Len(u) \in Nat
      /\ DOMAIN (s \o u) = 1..(Len(s) + Len(u))
      /\ \A i \in 1..(Len(s) + Len(u)) :
           (s \o u)[i] = IF i <= Len(s) THEN s[i] ELSE u[i - Len(s)]
  OBVIOUS
<1>2. ASSUME NEW i \in 1..(Len(s) + Len(u)), i \notin 1..Len(s)
      PROVE  \E j \in 1..Len(u) : i = Len(s) + j
  <2>1. i - Len(s) \in 1..Len(u) /\ i = Len(s) + (i - Len(s))
    BY <1>1, <1>2
  <2> QED BY <2>1
<1>3. ASSUME NEW j \in 1..Len(u)
      PROVE  Len(s) + j \in 1..(Len(s) + Len(u)) /\ (s \o u)[Len(s) + j] = u[j]
  BY <1>1
<1>4. ASSUME NEW i \in 1..Len(s)
      PROVE  i \in 1..(Len(s) + Len(u)) /\ (s \o u)[i] = s[i]
  BY <1>1
<1>5. /\ \A i \in DOMAIN s : i \in DOMAIN (s \o u) /\ (s \o u)[i] = s[i]
      /\ \A j \in DOMAIN u : Len(s) + j \in DOMAIN (s \o u) /\ (s \o u)[Len(s) + j] = u[j]
  BY <1>1, <1>3, <1>4, Zenon
<1>6. \A i \in DOMAIN (s \o u) : i \in DOMAIN s \/ \E j \in DOMAIN u : i = Len(s) + j
  BY <1>1, <1>2, Zenon
<1> QED BY <1>1, <1>5, <1>6, Zenon

LEMMA AppendFacts ==
  ASSUME NEW s \in Seq(Event), NEW e \in Event
  PROVE  /\ DOMAIN Append(s, e) = DOMAIN s \cup {Len(s) + 1} /\ Len(s) + 1 \notin DOMAIN s
         /\ Append(s, e)[Len(s) + 1] = e
         /\ \A i \in DOMAIN s : Append(s, e)[i] = s[i]
<1>1. /\ DOMAIN s = 1..Len(s) /\ Len(s) \in Nat /\ DOMAIN Append(s, e) = 1..(Len(s) + 1)
      /\ Append(s, e)[Len(s) + 1] = e /\ \A i \in 1..Len(s) : Append(s, e)[i] = s[i]
  OBVIOUS
<1> QED BY <1>1

\* Events of others do not touch what is known of p.
LEMMA OthersEvents ==
  ASSUME NEW more \in Seq(Event), events \in Seq(Event), events' = events \o more,
         NEW p, \A j \in DOMAIN more : more[j].part # p
  PROVE  /\ EventsOf(p)' = EventsOf(p)
         /\ \A i \in EventsOf(p) : events'[i] = events[i]
<1>1. /\ \A i \in DOMAIN events : i \in DOMAIN events' /\ events'[i] = events[i]
      /\ \A i \in DOMAIN events' :
           i \in DOMAIN events \/ \E j \in DOMAIN more : events'[i] = more[j]
  BY ConcatFacts
<1>2. EventsOf(p)' \subseteq EventsOf(p)
  BY <1>1 DEF EventsOf
<1>3. EventsOf(p) \subseteq EventsOf(p)'
  BY <1>1 DEF EventsOf
<1> QED BY <1>1, <1>2, <1>3 DEF EventsOf

\* One new event of p, beyond all of its others, is its last.
LEMMA OwnEvent ==
  ASSUME NEW more \in Seq(Event), events \in Seq(Event), events' = events \o more,
         NEW p, NEW j \in DOMAIN more, more[j].part = p,
         \A k \in DOMAIN more : more[k].part = p => k = j,
         \A i \in EventsOf(p) : events[i].seq < more[j].seq
  PROVE  \E i \in EventsOf(p)' : LastOf(i, EventsOf(p))' /\ events'[i] = more[j]
<1> DEFINE n == Len(events) + j
<1>1. /\ n \in DOMAIN events' /\ events'[n] = more[j]
      /\ \A i \in DOMAIN events : events'[i] = events[i]
      /\ \A i \in DOMAIN events' :
           i \in DOMAIN events \/ \E k \in DOMAIN more : i = Len(events) + k /\ events'[i] = more[k]
  BY ConcatFacts
<1>2. n \in EventsOf(p)'
  BY <1>1 DEF EventsOf
<1>3. ASSUME NEW i \in EventsOf(p)', i # n PROVE events'[i].seq < events'[n].seq
  <2>1. i \in DOMAIN events' /\ events'[i].part = p
    BY DEF EventsOf
  <2>2. i \in DOMAIN events
    BY <2>1, <1>1, <1>3
  <2>3. i \in EventsOf(p) /\ events'[i] = events[i]
    BY <2>1, <2>2, <1>1 DEF EventsOf
  <2> QED BY <2>3, <1>1
<1> QED BY <1>1, <1>2, <1>3 DEF LastOf

\* What is known of a participant survives the events of others.
LEMMA OthersKeep ==
  ASSUME PInv, NEW more \in Seq(Event), events' = events \o more,
         NEW p \in Participant, parts'[p] = parts[p], \A j \in DOMAIN more : more[j].part # p
  PROVE  /\ parts'[p] = "absent" => EventsOf(p)' = {}
         /\ parts'[p] # "absent" =>
              \E i \in EventsOf(p)' :
                LastOf(i, EventsOf(p))' /\ PARTICIPANT_EVENTS[events'[i].type] = parts'[p]
<1>1. events \in Seq(Event)
  BY DEF PInv, IInv, TypeOK
<1>2. EventsOf(p)' = EventsOf(p) /\ \A i \in EventsOf(p) : events'[i] = events[i]
  BY <1>1, OthersEvents
<1>3. parts[p] = "absent" => EventsOf(p) = {}
  BY DEF PInv, Unborn
<1>4. ASSUME parts[p] # "absent"
      PROVE  \E i \in EventsOf(p)' :
               LastOf(i, EventsOf(p))' /\ PARTICIPANT_EVENTS[events'[i].type] = parts[p]
  <2>1. PICK i \in EventsOf(p) :
          LastOf(i, EventsOf(p)) /\ PARTICIPANT_EVENTS[events[i].type] = parts[p]
    BY <1>4 DEF PInv, ParticipantReplay
  <2> QED BY <2>1, <1>2 DEF LastOf
<1> QED BY <1>2, <1>3, <1>4

\* A step that leaves log and participants alone.
LEMMA SameLog ==
  ASSUME PInv, UNCHANGED <<events, parts>>
  PROVE  Unborn' /\ ParticipantReplay'
<1>1. \A p \in Participant : EventsOf(p)' = EventsOf(p)
  BY DEF EventsOf
<1>2. \A i, S : LastOf(i, S)' <=> LastOf(i, S)
  BY DEF LastOf
<1> QED BY <1>1, <1>2 DEF PInv, Unborn, ParticipantReplay, LastOf

\* A session event is nobody's; a join is the first event of its participant.
LEMMA JoinReplay ==
  ASSUME PInv, NEW p \in Participant, Join(p)
  PROVE  RowLocks' /\ Ahead' /\ Unborn' /\ ParticipantReplay'
<1> DEFINE n == next_sequence(<<>>)
           m == IF status = "waiting" THEN n + 1 ELSE n
           f == PartEvt("joined", p, m)
<1>1. /\ IInv /\ TypeOK /\ events \in Seq(Event)
      /\ parts[p] = "absent" /\ EventsOf(p) = {}
      /\ parts' = [parts EXCEPT ![p] = "joined"] /\ UNCHANGED txn
      /\ parts \in [Participant -> ParticipantStatus \cup {"absent"}]
  BY DEF Join, PInv, IInv, TypeOK, Unborn
<1>2. n \in Nat /\ m \in Nat
  BY <1>1, NextCommitted
<1>3. PICK more \in Seq(Event) :
        /\ events' = events \o more
        /\ \E j \in DOMAIN more : more[j] = f
        /\ \A j \in DOMAIN more : more[j] = f \/ more[j].part = Nobody
        /\ \A j, k \in DOMAIN more : more[j] = f /\ more[k] = f => j = k
  <2> DEFINE e == SessionEvt("started", n)
  <2>1. e \in Event /\ f \in Event /\ e.part = Nobody /\ f.part = p
    BY <1>2, EventFacts DEF SESSION_EVENTS, SessionEvt, PartEvt
  <2>2. CASE status = "waiting"
    <3>1. events' = events \o <<e, f>>
      BY <2>2 DEF Join
    <3>2. /\ <<e, f>> \in Seq(Event) /\ DOMAIN <<e, f>> = {1, 2}
          /\ <<e, f>>[1] = e /\ <<e, f>>[2] = f
      BY <2>1
    <3>3. e # f
      BY <2>1, ParticipantAssumption
    <3> HIDE DEF e, f
    <3> QED BY <3>1, <3>2, <3>3, <2>1
  <2>3. CASE status # "waiting"
    <3>1. events' = events \o <<f>>
      BY <2>3 DEF Join
    <3>2. <<f>> \in Seq(Event) /\ DOMAIN <<f>> = {1} /\ <<f>>[1] = f
      BY <2>1
    <3> HIDE DEF f
    <3> QED BY <3>1, <3>2
  <2> QED BY <2>2, <2>3
<1>4. f.part = p /\ f.type = "joined" /\ f.part # Nobody
  BY ParticipantAssumption DEF PartEvt
<1>5. ASSUME NEW q \in Participant, q # p
      PROVE  parts'[q] = parts[q] /\ \A j \in DOMAIN more : more[j].part # q
  BY <1>1, <1>3, <1>4, <1>5, ParticipantAssumption
<1>6. \A t \in Txn : ~Holds(t, p)
  BY <1>1, ParticipantAssumption DEF Holds, PInv, RowLocks, IInv, TypeOK
<1>7. \A t \in Txn, q \in Participant : Holds(t, q)' = Holds(t, q)
  BY <1>1 DEF Holds
<1>8. RowLocks'
  BY <1>1, <1>7 DEF PInv, RowLocks
<1>9. Ahead'
  <2> SUFFICES ASSUME NEW t \in Txn, NEW q \in Participant, NEW i \in EventsOf(q)'
               PROVE  /\ txn[t].at = q => events'[i].seq < txn[t].seq
                      /\ \A j \in DOMAIN txn[t].mine :
                           txn[t].mine[j].part = q => events'[i].seq < txn[t].mine[j].seq
    BY <1>1 DEF Ahead
  <2>1. CASE q = p
    BY <2>1, <1>6 DEF Holds
  <2>2. CASE q # p
    <3>1. EventsOf(q)' = EventsOf(q) /\ \A k \in EventsOf(q) : events'[k] = events[k]
      BY <2>2, <1>1, <1>3, <1>5, OthersEvents
    <3> QED BY <3>1 DEF PInv, Ahead
  <2> QED BY <2>1, <2>2
<1>10. PICK j \in DOMAIN more : more[j] = f
  BY <1>3
<1>11. \E i \in EventsOf(p)' : LastOf(i, EventsOf(p))' /\ events'[i] = f
  <2>1. \A k \in DOMAIN more : more[k].part = p => k = j
    BY <1>3, <1>4, <1>10, ParticipantAssumption
  <2>2. \A i \in EventsOf(p) : events[i].seq < more[j].seq
    BY <1>1
  <2>3. more[j].part = p
    BY <1>4, <1>10
  <2> HIDE DEF f
  <2>4. \E i \in EventsOf(p)' : LastOf(i, EventsOf(p))' /\ events'[i] = more[j]
    <3>1. events' = events \o more /\ events \in Seq(Event) /\ more \in Seq(Event)
      BY <1>1, <1>3
    <3>2. j \in DOMAIN more
      BY <1>10
    <3> HIDE DEF n, m
    <3> QED BY <3>1, <3>2, <2>1, <2>2, <2>3, OwnEvent, Zenon
  <2> QED BY <1>10, <2>4
<1>12. parts'[p] = "joined" /\ PARTICIPANT_EVENTS["joined"] = "joined"
  BY <1>1 DEF PARTICIPANT_EVENTS
<1>13. Unborn'
  BY <1>3, <1>5, <1>12, OthersKeep DEF Unborn
<1>14. ParticipantReplay'
  <2> SUFFICES ASSUME NEW q \in Participant, parts'[q] # "absent"
               PROVE  \E i \in EventsOf(q)' :
                        LastOf(i, EventsOf(q))' /\ PARTICIPANT_EVENTS[events'[i].type] = parts'[q]
    BY DEF ParticipantReplay
  <2>1. CASE q = p
    BY <2>1, <1>4, <1>11, <1>12
  <2>2. CASE q # p
    BY <2>2, <1>3, <1>5, OthersKeep
  <2> QED BY <2>1, <2>2
<1> QED BY <1>8, <1>9, <1>13, <1>14

LEMMA EndReplay ==
  ASSUME PInv, NEW target \in TERMINAL_STATES, End(target)
  PROVE  RowLocks' /\ Ahead' /\ Unborn' /\ ParticipantReplay'
<1> DEFINE e == SessionEvt(target, next_sequence(<<>>))
<1>1. e \in Event /\ e.part = Nobody /\ events \in Seq(Event)
  BY NextCommitted, EventFacts
     DEF PInv, IInv, TypeOK, SESSION_EVENTS, TERMINAL_STATES, SessionEvt
<1>2. events' = Append(events, e) /\ UNCHANGED <<parts, txn>>
  BY DEF End
<1>3. PICK more \in Seq(Event) :
        events' = events \o more /\ \A j \in DOMAIN more : more[j].part = Nobody
  <2>1. <<e>> \in Seq(Event) /\ DOMAIN <<e>> = {1} /\ <<e>>[1] = e
    BY <1>1
  <2>2. Append(events, e) = events \o <<e>>
    BY <1>1
  <2> QED BY <1>1, <1>2, <2>1, <2>2
<1>4. \A p \in Participant : \A j \in DOMAIN more : more[j].part # p
  BY <1>3, ParticipantAssumption
<1>5. Unborn' /\ ParticipantReplay'
  BY <1>2, <1>3, <1>4, OthersKeep DEF Unborn, ParticipantReplay
<1>6. \A p \in Participant :
        EventsOf(p)' = EventsOf(p) /\ \A i \in EventsOf(p) : events'[i] = events[i]
  BY <1>1, <1>3, <1>4, OthersEvents
<1>7. RowLocks'
  BY <1>2 DEF PInv, RowLocks, Holds
<1>8. Ahead'
  BY <1>2, <1>6 DEF PInv, Ahead
<1> QED BY <1>5, <1>7, <1>8

\* Replacing a transaction by one that holds no row.
LEMMA FreeReplay ==
  ASSUME PInv, NEW t \in Txn, NEW r, r.at = Nobody, r.mine = <<>>,
         txn' = [txn EXCEPT ![t] = r]
  PROVE  /\ \A u \in Txn, p \in Participant : Holds(u, p)' <=> u # t /\ Holds(u, p)
         /\ \A u \in Txn \ {t} : txn'[u] = txn[u]
         /\ txn'[t] = r
<1>1. txn'[t] = r /\ \A u \in Txn \ {t} : txn'[u] = txn[u]
  BY DEF PInv, IInv, TypeOK
<1>2. \A p \in Participant : ~Holds(t, p)'
  BY <1>1, ParticipantAssumption DEF Holds
<1> QED BY <1>1, <1>2 DEF Holds

LEMMA QuietReplay ==
  ASSUME PInv, NEW t \in Txn, BeginCleanup(t) \/ Abort(t)
  PROVE  RowLocks' /\ Ahead' /\ Unborn' /\ ParticipantReplay'
<1>1. UNCHANGED <<events, parts>>
  BY DEF BeginCleanup, Abort
<1>2. PICK r : /\ r.at = Nobody /\ r.mine = <<>> /\ (r.todo # {} => r.op = "dropped")
                /\ txn' = [txn EXCEPT ![t] = r]
  <2>1. CASE BeginCleanup(t)
    <3> DEFINE c == [op |-> "dropped", todo |-> Stale, at |-> Nobody, seq |-> 0, mine |-> <<>>]
    <3>2. txn' = [txn EXCEPT ![t] = c]
      BY <2>1 DEF BeginCleanup
    <3>3. c.at = Nobody /\ c.mine = <<>> /\ c.op = "dropped"
      OBVIOUS
    <3> QED BY <3>2, <3>3
  <2>2. CASE Abort(t)
    BY <2>2 DEF Abort, NoTxn
  <2> QED BY <2>1, <2>2
<1>3. /\ \A u \in Txn, p \in Participant : Holds(u, p)' <=> u # t /\ Holds(u, p)
      /\ \A u \in Txn \ {t} : txn'[u] = txn[u]
      /\ txn'[t] = r
  BY <1>2, FreeReplay
<1>4. RowLocks'
  BY <1>1, <1>2, <1>3 DEF PInv, RowLocks
<1>5. \A p \in Participant : EventsOf(p)' = EventsOf(p)
  BY <1>1 DEF EventsOf
<1>6. Ahead'
  BY <1>1, <1>2, <1>3, <1>5, ParticipantAssumption DEF PInv, Ahead
<1> QED BY <1>1, <1>4, <1>6, SameLog

\* A row is taken up when nobody holds it, with a number beyond all others.
LEMMA HandleReplay ==
  ASSUME PInv, NEW t \in Txn, NEW p \in Participant, NEW op \in Op, NEW rest,
         rest # {} => op = "dropped", txn[t].at = Nobody,
         txn[t].mine = <<>> \/ txn[t].op = op, Handle(t, op, p, rest)
  PROVE  RowLocks' /\ Ahead' /\ Unborn' /\ ParticipantReplay'
<1> DEFINE own == txn[t].mine
           n   == next_sequence(own)
           r   == [op |-> op, todo |-> rest, at |-> p, seq |-> n, mine |-> own]
<1>1. txn' = [txn EXCEPT ![t] = r] /\ UNCHANGED <<events, parts>> /\ parts[p] # "absent"
  BY DEF Handle
<1>2. txn'[t] = r /\ \A u \in Txn \ {t} : txn'[u] = txn[u]
  BY <1>1 DEF PInv, IInv, TypeOK
<1>3. \A u \in Txn : ~Holds(u, p)
  <2>1. ASSUME NEW u \in Txn PROVE txn[u].at # p /\ \A e \in Range(txn[u].mine) : e.part # p
    BY DEF Handle, Locked
  <2>2. \A u \in Txn : \A j \in DOMAIN txn[u].mine : txn[u].mine[j] \in Range(txn[u].mine)
    BY DEF Range
  <2> QED BY <2>1, <2>2 DEF Holds
<1>4. \A i \in DOMAIN events : events[i].seq < n
  <2>1. Own(t) = Seqs(own)
    BY DEF Own
  <2>2. \A x \in Seqs(events) : x < n
    BY <2>1, NextSequence DEF PInv, IInv, Continues
  <2>3. \A i \in DOMAIN events : events[i].seq \in Seqs(events)
    BY DEF Seqs, Range
  <2> QED BY <2>2, <2>3
<1>5. \A u \in Txn, q \in Participant : Holds(u, q)' <=> Holds(u, q) \/ (u = t /\ q = p)
  <2>1. ASSUME NEW q \in Participant PROVE Holds(t, q)' <=> Holds(t, q) \/ q = p
    BY <1>2, ParticipantAssumption DEF Holds
  <2>2. ASSUME NEW u \in Txn \ {t}, NEW q \in Participant PROVE Holds(u, q)' <=> Holds(u, q)
    BY <1>2 DEF Holds
  <2> QED BY <2>1, <2>2
<1>6. RowLocks'
  <2>1. ASSUME NEW u \in Txn, NEW v \in Txn, NEW q \in Participant, Holds(u, q)', Holds(v, q)'
        PROVE  u = v
    BY <1>3, <1>5, <2>1 DEF PInv, RowLocks
  <2>2. ASSUME NEW u \in Txn, NEW j \in DOMAIN txn'[u].mine
        PROVE  /\ txn'[u].mine[j].part \in Participant
               /\ parts'[txn'[u].mine[j].part] # "absent"
               /\ txn'[u].mine[j].type = txn'[u].op
               /\ txn'[u].mine[j].part # txn'[u].at
               /\ \A k \in DOMAIN txn'[u].mine :
                    txn'[u].mine[k].part = txn'[u].mine[j].part => k = j
    <3>1. CASE u = t
      <4>1. j \in DOMAIN own /\ own # <<>> /\ txn'[t] = r
        BY <3>1, <1>2
      <4>2. own[j].part # p
        BY <4>1, <1>3 DEF Holds
      <4> QED BY <3>1, <4>1, <4>2, <1>1 DEF PInv, RowLocks
    <3>2. CASE u # t
      BY <3>2, <1>1, <1>2 DEF PInv, RowLocks
    <3> QED BY <3>1, <3>2
  <2>3. \A u \in Txn : txn'[u].todo # {} => txn'[u].op = "dropped"
    BY <1>2 DEF PInv, RowLocks
  <2> QED BY <2>1, <2>2, <2>3 DEF RowLocks
<1>7. Ahead'
  <2> SUFFICES ASSUME NEW u \in Txn, NEW q \in Participant, NEW i \in EventsOf(q)
               PROVE  /\ txn'[u].at = q => events[i].seq < txn'[u].seq
                      /\ \A j \in DOMAIN txn'[u].mine :
                           txn'[u].mine[j].part = q => events[i].seq < txn'[u].mine[j].seq
    BY <1>1 DEF Ahead, EventsOf
  <2>1. i \in DOMAIN events
    BY DEF EventsOf
  <2>2. CASE u = t
    BY <2>1, <2>2, <1>2, <1>4 DEF PInv, Ahead
  <2>3. CASE u # t
    BY <2>3, <1>2 DEF PInv, Ahead
  <2> QED BY <2>2, <2>3
<1> QED BY <1>1, <1>6, <1>7, SameLog

LEMMA TakeReplay ==
  ASSUME PInv, NEW t \in Txn, NEW p \in Participant, Leave(t, p) \/ Reconnect(t, p) \/ Drop(t, p)
  PROVE  RowLocks' /\ Ahead' /\ Unborn' /\ ParticipantReplay'
<1>1. CASE Leave(t, p)
  BY <1>1, HandleReplay DEF Leave, NoTxn, Op
<1>2. CASE Reconnect(t, p)
  BY <1>2, HandleReplay DEF Reconnect, NoTxn, Op
<1>3. CASE Drop(t, p)
  BY <1>3, HandleReplay DEF Drop, Op, PInv, RowLocks
<1> QED BY <1>1, <1>2, <1>3

LEMMA InsertReplay ==
  ASSUME PInv, NEW t \in Txn, Insert(t)
  PROVE  RowLocks' /\ Ahead' /\ Unborn' /\ ParticipantReplay'
<1> DEFINE x == txn[t]
           e == PartEvt(x.op, x.at, x.seq)
           r == [x EXCEPT !.at = Nobody, !.seq = 0, !.mine = Append(@, e)]
           n == Len(x.mine) + 1
<1>1. x \in TxnRecord /\ x.at \in Participant /\ x.op \in Op /\ parts[x.at] # "absent"
  BY DEF Insert, PInv, IInv, TypeOK, TxnRecord, NoTxn
<1>2. e \in Event /\ e.seq = x.seq /\ e.part = x.at /\ e.type = x.op
  BY <1>1, EventFacts DEF TxnRecord, PartEvt
<1>3. txn' = [txn EXCEPT ![t] = r] /\ UNCHANGED <<events, parts>>
  BY DEF Insert, PInv, IInv, TypeOK, TxnRecord
<1>4. /\ txn'[t].at = Nobody /\ txn'[t].op = x.op /\ txn'[t].todo = x.todo
      /\ txn'[t].mine = Append(x.mine, e)
      /\ \A u \in Txn \ {t} : txn'[u] = txn[u]
  BY <1>1, <1>3 DEF PInv, IInv, TypeOK, TxnRecord
<1>5. /\ DOMAIN txn'[t].mine = DOMAIN x.mine \cup {n} /\ n \notin DOMAIN x.mine
      /\ txn'[t].mine[n] = e
      /\ \A j \in DOMAIN x.mine : txn'[t].mine[j] = x.mine[j]
  BY <1>1, <1>2, <1>4, AppendFacts DEF TxnRecord
<1> HIDE DEF e, r, n
<1>6. \A u \in Txn, p \in Participant : Holds(u, p)' <=> Holds(u, p)
  <2>1. ASSUME NEW p \in Participant PROVE Holds(t, p)' <=> Holds(t, p)
    BY <1>1, <1>2, <1>4, <1>5, ParticipantAssumption DEF Holds
  <2>2. ASSUME NEW u \in Txn \ {t}, NEW p \in Participant PROVE Holds(u, p)' <=> Holds(u, p)
    BY <1>4 DEF Holds
  <2> QED BY <2>1, <2>2
<1>7. RowLocks'
  <2>1. \A u, v \in Txn, p \in Participant : Holds(u, p)' /\ Holds(v, p)' => u = v
    BY <1>6 DEF PInv, RowLocks
  <2>2. \A u \in Txn : txn'[u].todo # {} => txn'[u].op = "dropped"
    BY <1>4 DEF PInv, RowLocks
  <2>3. ASSUME NEW u \in Txn, NEW j \in DOMAIN txn'[u].mine
        PROVE  /\ txn'[u].mine[j].part \in Participant
               /\ parts'[txn'[u].mine[j].part] # "absent"
               /\ txn'[u].mine[j].type = txn'[u].op
               /\ txn'[u].mine[j].part # txn'[u].at
               /\ \A k \in DOMAIN txn'[u].mine :
                    txn'[u].mine[k].part = txn'[u].mine[j].part => k = j
    <3>1. CASE u = t
      <4>1. \A k \in DOMAIN x.mine :
              /\ x.mine[k].part \in Participant /\ parts[x.mine[k].part] # "absent"
              /\ x.mine[k].type = x.op /\ x.mine[k].part # x.at
              /\ \A l \in DOMAIN x.mine : x.mine[l].part = x.mine[k].part => l = k
        BY DEF PInv, RowLocks
      <4>2. CASE j = n
        BY <3>1, <4>1, <4>2, <1>1, <1>2, <1>3, <1>4, <1>5, ParticipantAssumption
      <4>3. CASE j \in DOMAIN x.mine
        BY <3>1, <4>1, <4>3, <1>1, <1>2, <1>3, <1>4, <1>5, ParticipantAssumption
      <4> QED BY <3>1, <4>2, <4>3, <1>5
    <3>2. CASE u # t
      BY <3>2, <1>3, <1>4 DEF PInv, RowLocks
    <3> QED BY <3>1, <3>2
  <2> QED BY <2>1, <2>2, <2>3 DEF RowLocks
<1>8. Ahead'
  <2> SUFFICES ASSUME NEW u \in Txn, NEW q \in Participant, NEW i \in EventsOf(q)
               PROVE  /\ txn'[u].at = q => events[i].seq < txn'[u].seq
                      /\ \A j \in DOMAIN txn'[u].mine :
                           txn'[u].mine[j].part = q => events[i].seq < txn'[u].mine[j].seq
    BY <1>3 DEF Ahead, EventsOf
  <2>1. /\ txn[u].at = q => events[i].seq < txn[u].seq
        /\ \A j \in DOMAIN txn[u].mine :
             txn[u].mine[j].part = q => events[i].seq < txn[u].mine[j].seq
    BY DEF PInv, Ahead
  <2>2. CASE u = t
    BY <2>1, <2>2, <1>2, <1>4, <1>5, ParticipantAssumption
  <2>3. CASE u # t
    BY <2>1, <2>3, <1>4
  <2> QED BY <2>2, <2>3
<1> QED BY <1>3, <1>7, <1>8, SameLog

\* The rows a transaction has written get its status and one last event each;
\* those of others are not in its hands.
LEMMA CommitReplay ==
  ASSUME PInv, NEW t \in Txn, Commit(t)
  PROVE  RowLocks' /\ Ahead' /\ Unborn' /\ ParticipantReplay'
<1> DEFINE own == txn[t].mine
           op  == txn[t].op
<1>1. /\ own \in Seq(Event) /\ events \in Seq(Event) /\ op \in Op
      /\ events' = events \o own /\ txn' = [txn EXCEPT ![t] = NoTxn]
      /\ parts \in [Participant -> ParticipantStatus \cup {"absent"}]
  BY DEF Commit, PInv, IInv, TypeOK, TxnRecord, NoTxn
<1>2. \A j \in DOMAIN own :
        /\ own[j].part \in Participant /\ own[j].type = op
        /\ \A k \in DOMAIN own : own[k].part = own[j].part => k = j
  BY DEF PInv, RowLocks
<1>3. \A p \in Participant :
        parts'[p] = IF \E j \in DOMAIN own : own[j].part = p
                      THEN PARTICIPANT_EVENTS[op] ELSE parts[p]
  <2>1. \A p : p \in {e.part : e \in Range(own)} <=> \E j \in DOMAIN own : own[j].part = p
    BY DEF Range
  <2> QED BY <2>1 DEF Commit
<1>4. PARTICIPANT_EVENTS[op] # "absent"
  BY <1>1 DEF PARTICIPANT_EVENTS, Op
<1>5. /\ \A u \in Txn, p \in Participant : Holds(u, p)' <=> u # t /\ Holds(u, p)
      /\ \A u \in Txn \ {t} : txn'[u] = txn[u]
      /\ txn'[t] = NoTxn
  <2>1. NoTxn.at = Nobody /\ NoTxn.mine = <<>>
    BY DEF NoTxn
  <2> QED BY <1>1, <2>1, FreeReplay
<1>6. RowLocks'
  <2>1. \A u, v \in Txn, p \in Participant : Holds(u, p)' /\ Holds(v, p)' => u = v
    BY <1>5 DEF PInv, RowLocks
  <2>2. \A p \in Participant : parts[p] # "absent" => parts'[p] # "absent"
    BY <1>3, <1>4
  <2>3. NoTxn.mine = <<>> /\ NoTxn.todo = {}
    BY DEF NoTxn
  <2> QED BY <1>5, <2>1, <2>2, <2>3 DEF PInv, RowLocks
<1>7. Ahead'
  <2> SUFFICES ASSUME NEW u \in Txn, NEW q \in Participant, NEW i \in EventsOf(q)'
               PROVE  /\ txn'[u].at = q => events'[i].seq < txn'[u].seq
                      /\ \A j \in DOMAIN txn'[u].mine :
                           txn'[u].mine[j].part = q => events'[i].seq < txn'[u].mine[j].seq
    BY DEF Ahead
  <2>1. CASE ~Holds(u, q)'
    BY <2>1 DEF Holds
  <2>2. CASE Holds(u, q)'
    <3>1. u # t /\ Holds(u, q) /\ ~Holds(t, q)
      BY <2>2, <1>5 DEF PInv, RowLocks
    <3>2. \A j \in DOMAIN own : own[j].part # q
      BY <3>1 DEF Holds
    <3>3. EventsOf(q)' = EventsOf(q) /\ \A k \in EventsOf(q) : events'[k] = events[k]
      BY <1>1, <3>2, OthersEvents
    <3> QED BY <3>1, <3>3, <1>5 DEF PInv, Ahead
  <2> QED BY <2>1, <2>2
<1>8. ASSUME NEW p \in Participant
      PROVE  /\ parts'[p] = "absent" => EventsOf(p)' = {}
             /\ parts'[p] # "absent" =>
                  \E i \in EventsOf(p)' :
                    LastOf(i, EventsOf(p))' /\ PARTICIPANT_EVENTS[events'[i].type] = parts'[p]
  <2>1. CASE \E j \in DOMAIN own : own[j].part = p
    <3>1. PICK j \in DOMAIN own : own[j].part = p
      BY <2>1
    <3>2. \A k \in DOMAIN own : own[k].part = p => k = j
      BY <3>1, <1>2
    <3>3. \A i \in EventsOf(p) : events[i].seq < own[j].seq
      BY <3>1 DEF PInv, Ahead
    <3>4. \E i \in EventsOf(p)' : LastOf(i, EventsOf(p))' /\ events'[i] = own[j]
      <4>1. /\ events' = events \o own /\ events \in Seq(Event) /\ own \in Seq(Event)
            /\ j \in DOMAIN own /\ own[j].part = p
        BY <1>1, <3>1
      <4> HIDE DEF own
      <4> QED BY <4>1, <3>2, <3>3, OwnEvent, Zenon
    <3>5. own[j].type = op /\ parts'[p] = PARTICIPANT_EVENTS[op]
      BY <3>1, <1>2, <1>3
    <3> QED BY <3>4, <3>5, <1>4
  <2>2. CASE ~\E j \in DOMAIN own : own[j].part = p
    <3>1. parts'[p] = parts[p] /\ \A j \in DOMAIN own : own[j].part # p
      BY <2>2, <1>3
    <3> QED BY <3>1, <1>1, OthersKeep
  <2> QED BY <2>1, <2>2
<1>9. Unborn' /\ ParticipantReplay'
  BY <1>8 DEF Unborn, ParticipantReplay
<1> QED BY <1>6, <1>7, <1>9

LEMMA InitPInv == Init => PInv
<1> SUFFICES ASSUME Init PROVE PInv
  OBVIOUS
<1>1. \A p \in Participant : EventsOf(p) = {} /\ parts[p] = "absent"
  <2>1. DOMAIN events = {1} /\ events[1].part = Nobody
    BY DEF Init, SessionEvt
  <2> QED BY <2>1, ParticipantAssumption DEF EventsOf, Init
<1>2. \A t \in Txn : txn[t].mine = <<>> /\ txn[t].todo = {} /\ txn[t].at = Nobody
  BY DEF Init, NoTxn
<1>3. RowLocks
  BY <1>2, ParticipantAssumption DEF RowLocks, Holds
<1> QED BY <1>1, <1>3, InitIInv DEF PInv, Ahead, Unborn, ParticipantReplay

LEMMA NextPInv == PInv /\ [Next]_vars => PInv'
<1> SUFFICES ASSUME PInv, [Next]_vars PROVE PInv'
  OBVIOUS
<1> DEFINE Rest == RowLocks' /\ Ahead' /\ Unborn' /\ ParticipantReplay'
<1>1. IInv'
  BY NextIInv DEF PInv
<1>2. ASSUME NEW p \in Participant, ParticipantStep(p) PROVE Rest
  <2>1. CASE Join(p)
    BY <2>1, JoinReplay
  <2>2. CASE Heartbeat(p) \/ Age(p)
    <3>1. UNCHANGED <<events, parts, txn>>
      BY <2>2 DEF Heartbeat, Age
    <3>2. RowLocks' /\ Ahead'
      BY <3>1 DEF PInv, RowLocks, Holds, Ahead, EventsOf
    <3> QED BY <3>1, <3>2, SameLog
  <2> QED BY <1>2, <2>1, <2>2 DEF ParticipantStep
<1>3. ASSUME NEW t \in Txn, TxnStep(t) PROVE Rest
  BY <1>3, TakeReplay, QuietReplay, InsertReplay, CommitReplay DEF TxnStep
<1>4. ASSUME SessionStep PROVE Rest
  BY <1>4, EndReplay DEF SessionStep
<1>5. ASSUME UNCHANGED vars PROVE Rest
  <2>1. RowLocks' /\ Ahead'
    BY <1>5 DEF vars, PInv, RowLocks, Holds, Ahead, EventsOf
  <2> QED BY <1>5, <2>1, SameLog DEF vars
<1> QED BY <1>1, <1>2, <1>3, <1>4, <1>5 DEF Next, PInv

\* For any number of participants and transactions, the events of a
\* participant, read by sequence number, end with one that tells its status.
THEOREM ParticipantsReplay == Spec => []ParticipantReplay
<1>1. PInv => ParticipantReplay
  BY DEF PInv
<1> QED BY <1>1, InitPInv, NextPInv, PTL DEF Spec

-----------------------------------------------------------------------------
(* SessionReplay: who tells of the session holds its lock.                  *)

\* Events that tell nothing of the session leave what is known of it.
LEMMA SessionAside ==
  ASSUME events \in Seq(Event), NEW more \in Seq(Event), events' = events \o more,
         \A j \in DOMAIN more : more[j].type \notin DOMAIN SESSION_EVENTS,
         SessionReplay, status' = status
  PROVE  SessionReplay'
<1>1. /\ \A i \in DOMAIN events : i \in DOMAIN events' /\ events'[i] = events[i]
      /\ \A i \in DOMAIN events' :
           i \in DOMAIN events \/ \E j \in DOMAIN more : events'[i] = more[j]
  BY ConcatFacts
<1>2. SessionEvents' \subseteq SessionEvents
  BY <1>1 DEF SessionEvents
<1>3. SessionEvents \subseteq SessionEvents'
  BY <1>1 DEF SessionEvents
<1>4. SessionEvents' = SessionEvents /\ \A i \in SessionEvents : events'[i] = events[i]
  BY <1>1, <1>2, <1>3 DEF SessionEvents
<1> QED BY <1>4 DEF SessionReplay, LastOf

\* While the session goes on no event ends it.
LEMMA NothingEnded ==
  ASSUME SessionReplay, status \notin TERMINAL_STATES,
         \A i \in DOMAIN events : events[i].seq \in Nat
  PROVE  \A i \in SessionEvents : events[i].type \notin TERMINAL_STATES
<1> SUFFICES ASSUME NEW i \in SessionEvents, events[i].type \in TERMINAL_STATES PROVE FALSE
  OBVIOUS
<1>1. LastOf(i, SessionEvents)
  BY DEF SessionReplay
<1>2. PICK j \in SessionEvents :
        LastOf(j, SessionEvents) /\ SESSION_EVENTS[events[j].type] = status
  BY DEF SessionReplay
<1>3. i = j
  BY <1>1, <1>2 DEF LastOf, SessionEvents
<1> QED BY <1>2, <1>3 DEF SESSION_EVENTS, TERMINAL_STATES

LEMMA SeqNumbers ==
  ASSUME events \in Seq(Event)
  PROVE  \A i \in DOMAIN events : events[i].seq \in Nat
<1>1. \A i \in DOMAIN events : events[i] \in Event
  OBVIOUS
<1> QED BY <1>1 DEF Event

\* Events beyond all others, of which the last one tells the new status.
LEMMA SessionTold ==
  ASSUME events \in Seq(Event), NEW more \in Seq(Event), events' = events \o more,
         SessionReplay, status \notin TERMINAL_STATES, NEW k \in DOMAIN more,
         \A j \in DOMAIN more : \A i \in DOMAIN events : events[i].seq < more[j].seq,
         more[k].type \in DOMAIN SESSION_EVENTS,
         \A j \in DOMAIN more \ {k} :
           more[j].seq < more[k].seq /\ more[j].type \notin TERMINAL_STATES,
         status' = SESSION_EVENTS[more[k].type]
  PROVE  SessionReplay'
<1>0. PICK n : n = Len(events) + k
  OBVIOUS
<1>1. /\ n \in DOMAIN events' /\ events'[n] = more[k]
      /\ \A i \in DOMAIN events : i \in DOMAIN events' /\ events'[i] = events[i]
      /\ \A i \in DOMAIN events' :
           \/ i \in DOMAIN events
           \/ \E j \in DOMAIN more : i = Len(events) + j /\ events'[i] = more[j]
  BY <1>0, ConcatFacts
<1>2. \A i \in SessionEvents : events[i].type \notin TERMINAL_STATES
  <2>1. \A i \in DOMAIN events : events[i].seq \in Nat
    BY SeqNumbers
  <2> QED BY <2>1, NothingEnded
<1>3. ASSUME NEW i \in SessionEvents', i # n
      PROVE  events'[i].seq < events'[n].seq /\ events'[i].type \notin TERMINAL_STATES
  <2>1. CASE i \in DOMAIN events
    <3>1. events'[i] = events[i] /\ i \in SessionEvents
      BY <1>1, <1>3, <2>1 DEF SessionEvents
    <3> QED BY <1>1, <1>2, <2>1, <3>1
  <2>2. ASSUME NEW j \in DOMAIN more, i = Len(events) + j, events'[i] = more[j]
        PROVE  events'[i].seq < events'[n].seq /\ events'[i].type \notin TERMINAL_STATES
    <3>1. j # k
      BY <1>0, <1>3, <2>2
    <3> QED BY <1>1, <2>2, <3>1
  <2> QED BY <1>1, <1>3, <2>1, <2>2 DEF SessionEvents
<1>4. n \in SessionEvents'
  BY <1>1 DEF SessionEvents
<1>5. LastOf(n, SessionEvents)'
  BY <1>3, <1>4 DEF LastOf
<1>6. SESSION_EVENTS[events'[n].type] = status'
  BY <1>1
<1>7. \A i \in SessionEvents' : events'[i].type \in TERMINAL_STATES => i = n
  BY <1>3
<1> QED BY <1>4, <1>5, <1>6, <1>7 DEF SessionReplay

SInv == PInv /\ SessionReplay

\* What is numbered now comes after all that is committed.
LEMMA NumbersAhead ==
  ASSUME IInv
  PROVE  /\ next_sequence(<<>>) \in Nat
         /\ \A i \in DOMAIN events : events[i].seq < next_sequence(<<>>)
<1>1. \A i \in DOMAIN events : events[i].seq \in Seqs(events)
  BY DEF Seqs, Range
<1> QED BY <1>1, NextCommitted

LEMMA JoinTold ==
  ASSUME SInv, NEW p \in Participant, Join(p)
  PROVE  SessionReplay'
<1> DEFINE n == next_sequence(<<>>)
<1>1. n \in Nat /\ \A i \in DOMAIN events : events[i].seq < n
  BY NumbersAhead DEF SInv, PInv
<1>2. /\ events \in Seq(Event) /\ SessionReplay /\ status \notin TERMINAL_STATES
      /\ status' = "active" /\ \A i \in DOMAIN events : events[i].seq \in Nat
  BY SeqNumbers DEF SInv, PInv, IInv, TypeOK, Join
<1>3. CASE status = "waiting"
  <2> DEFINE e == SessionEvt("started", n)
             f == PartEvt("joined", p, n + 1)
  <2>1. /\ e \in Event /\ f \in Event /\ e.seq = n /\ f.seq = n + 1
        /\ e.type = "started" /\ f.type = "joined"
    BY <1>1, EventFacts DEF SESSION_EVENTS, SessionEvt, PartEvt
  <2>2. events' = events \o <<e, f>>
    BY <1>3 DEF Join
  <2> HIDE DEF e, f, n
  <2> DEFINE more == <<e, f>>
  <2>3. more \in Seq(Event) /\ DOMAIN more = {1, 2} /\ more[1] = e /\ more[2] = f
    BY <2>1
  <2>4. events' = events \o more
    BY <2>2
  <2> HIDE DEF more
  <2>5. \A j \in DOMAIN more : \A i \in DOMAIN events : events[i].seq < more[j].seq
    BY <1>1, <1>2, <2>1, <2>3
  <2>6. /\ 2 \in DOMAIN more /\ more[2].type \in DOMAIN SESSION_EVENTS
        /\ \A j \in DOMAIN more \ {2} :
             more[j].seq < more[2].seq /\ more[j].type \notin TERMINAL_STATES
        /\ status' = SESSION_EVENTS[more[2].type]
    BY <1>1, <1>2, <2>1, <2>3 DEF SESSION_EVENTS, TERMINAL_STATES
  <2> QED BY <1>2, <2>3, <2>4, <2>5, <2>6, SessionTold
<1>4. CASE status # "waiting"
  <2> DEFINE f == PartEvt("joined", p, n)
  <2>1. f \in Event /\ f.seq = n /\ f.type = "joined"
    BY <1>1, EventFacts DEF PartEvt
  <2>2. events' = events \o <<f>>
    BY <1>4 DEF Join
  <2> HIDE DEF f, n
  <2> DEFINE more == <<f>>
  <2>3. more \in Seq(Event) /\ DOMAIN more = {1} /\ more[1] = f
    BY <2>1
  <2>4. events' = events \o more
    BY <2>2
  <2> HIDE DEF more
  <2>5. \A j \in DOMAIN more : \A i \in DOMAIN events : events[i].seq < more[j].seq
    BY <1>1, <2>1, <2>3
  <2>6. /\ 1 \in DOMAIN more /\ more[1].type \in DOMAIN SESSION_EVENTS
        /\ \A j \in DOMAIN more \ {1} :
             more[j].seq < more[1].seq /\ more[j].type \notin TERMINAL_STATES
        /\ status' = SESSION_EVENTS[more[1].type]
    BY <1>2, <2>1, <2>3 DEF SESSION_EVENTS
  <2> QED BY <1>2, <2>3, <2>4, <2>5, <2>6, SessionTold
<1> QED BY <1>3, <1>4

LEMMA EndTold ==
  ASSUME SInv, NEW target \in TERMINAL_STATES, End(target)
  PROVE  SessionReplay'
<1> DEFINE e == SessionEvt(target, next_sequence(<<>>))
           more == <<e>>
<1>1. next_sequence(<<>>) \in Nat /\ \A i \in DOMAIN events : events[i].seq < next_sequence(<<>>)
  BY NumbersAhead DEF SInv, PInv
<1>2. e \in Event /\ e.seq = next_sequence(<<>>) /\ e.type = target
  BY <1>1, EventFacts DEF SESSION_EVENTS, TERMINAL_STATES, SessionEvt
<1>3. /\ events \in Seq(Event) /\ SessionReplay /\ status \notin TERMINAL_STATES
      /\ status' = target /\ events' = Append(events, e)
  BY DEF SInv, PInv, IInv, TypeOK, End
<1> HIDE DEF e
<1>4. /\ more \in Seq(Event) /\ DOMAIN more = {1} /\ more[1] = e
      /\ events' = events \o more
  BY <1>2, <1>3
<1> HIDE DEF more
<1>5. \A j \in DOMAIN more : \A i \in DOMAIN events : events[i].seq < more[j].seq
  BY <1>1, <1>2, <1>4
<1>6. /\ 1 \in DOMAIN more /\ more[1].type \in DOMAIN SESSION_EVENTS
      /\ \A j \in DOMAIN more \ {1} :
           more[j].seq < more[1].seq /\ more[j].type \notin TERMINAL_STATES
      /\ status' = SESSION_EVENTS[more[1].type]
  BY <1>2, <1>3, <1>4 DEF SESSION_EVENTS, TERMINAL_STATES
<1> QED BY <1>3, <1>4, <1>5, <1>6, SessionTold

LEMMA CommitAside ==
  ASSUME SInv, NEW t \in Txn, Commit(t)
  PROVE  SessionReplay'
<1> DEFINE more == txn[t].mine
<1>1. more \in Seq(Event) /\ txn[t].op \in Op
  BY DEF SInv, PInv, Commit, IInv, TypeOK, TxnRecord, NoTxn
<1>2. \A j \in DOMAIN more : more[j].type = txn[t].op
  BY DEF SInv, PInv, RowLocks
<1>3. \A j \in DOMAIN more : more[j].type \notin DOMAIN SESSION_EVENTS
  BY <1>1, <1>2 DEF SESSION_EVENTS, Op
<1>4. /\ events \in Seq(Event) /\ events' = events \o more /\ status' = status
      /\ SessionReplay
  BY DEF SInv, PInv, Commit, IInv, TypeOK
<1> HIDE DEF more
<1> QED BY <1>1, <1>3, <1>4, SessionAside

LEMMA SameSession ==
  ASSUME SessionReplay, UNCHANGED <<status, events>>
  PROVE  SessionReplay'
BY DEF SessionReplay, SessionEvents, LastOf

LEMMA InitSInv == Init => SInv
<1> SUFFICES ASSUME Init PROVE SInv
  OBVIOUS
<1>1. /\ DOMAIN events = {1} /\ events[1].type = "created" /\ status = "waiting"
  BY DEF Init, SessionEvt
<1>2. SessionEvents = {1}
  BY <1>1 DEF SessionEvents, SESSION_EVENTS
<1>3. LastOf(1, SessionEvents) /\ SESSION_EVENTS[events[1].type] = status
  BY <1>1, <1>2 DEF LastOf, SESSION_EVENTS
<1> QED BY <1>2, <1>3, InitPInv DEF SInv, SessionReplay

LEMMA NextSInv == SInv /\ [Next]_vars => SInv'
<1> SUFFICES ASSUME SInv, [Next]_vars PROVE SInv'
  OBVIOUS
<1>1. PInv'
  BY NextPInv DEF SInv
<1>2. ASSUME NEW p \in Participant, ParticipantStep(p) PROVE SessionReplay'
  <2>1. CASE Heartbeat(p) \/ Age(p)
    BY <2>1, SameSession DEF SInv, Heartbeat, Age
  <2> QED BY <1>2, <2>1, JoinTold DEF ParticipantStep
<1>3. ASSUME NEW t \in Txn, TxnStep(t) PROVE SessionReplay'
  <2>1. CASE Commit(t)
    BY <2>1, CommitAside
  <2>2. CASE ~ Commit(t)
    BY <1>3, <2>2, SameSession
    DEF SInv, TxnStep, Leave, Reconnect, Drop, Handle, BeginCleanup, Insert, Abort
  <2> QED BY <2>1, <2>2
<1>4. ASSUME SessionStep PROVE SessionReplay'
  BY <1>4, EndTold DEF SessionStep
<1>5. ASSUME UNCHANGED vars PROVE SessionReplay'
  BY <1>5, SameSession DEF SInv, vars
<1> QED BY <1>1, <1>2, <1>3, <1>4, <1>5 DEF Next, SInv

\* For any number of participants and transactions, the events that tell of the
\* session end, by sequence number, with one that tells its status, and none but
\* the last of them ends it, although others use the same numbers.
THEOREM SessionReplays == Spec => []SessionReplay
<1>1. SInv => SessionReplay
  BY DEF SInv
<1> QED BY <1>1, InitSInv, NextSInv, PTL DEF Spec
=============================================================================
