--------------------------- MODULE WorkflowLease ----------------------------
(***************************************************************************)
(* LeaseRuntime (backend/workflows/lease.py) for one workflow, with the    *)
(* workers that hold its results.                                          *)
(*                                                                         *)
(* A worker is sequential: it has at most one call in flight, and it acts  *)
(* on the expiry of the last result it was given.  Every call samples the  *)
(* time before it asks for the row lock, so the `now` it works with may be *)
(* arbitrarily old when the lock is granted.  Workers share one clock.     *)
(***************************************************************************)
EXTENDS Naturals, TLAPS

CONSTANTS Holder,      \* worker identities
          Nobody,      \* not a worker
          Ttl,         \* the lease durations callers ask for
          MaxClock,    \* bound on time
          MaxLease     \* bound on the number of acquisitions

ASSUME HolderAssumption == Nobody \notin Holder
ASSUME TtlAssumption == Ttl \subseteq Nat
ASSUME BoundAssumption == MaxClock \in Nat /\ MaxLease \in Nat

VARIABLES
  clock,
  lease,     \* the workflow_leases row; status "none" before the first acquire
  lastId,    \* the newest lease_id handed out (uuid4: never used before)
  known,     \* known[h]: lease_id and expiry of h's last result; id 0 if none
  call,      \* call[h]: what h is waiting for
  announced  \* the last lease event in the domain channel "workflows"

vars == <<clock, lease, lastId, known, call, announced>>

LeaseStatus == {"active", "released", "expired"}
NoCall      == [op |-> "none", now |-> 0, ttl |-> 0]
NoResult    == [id |-> 0, exp |-> 0]

Init ==
  /\ clock = 1
  /\ lease = [status |-> "none", id |-> 0, holder |-> Nobody, exp |-> 0]
  /\ lastId = 0
  /\ known = [h \in Holder |-> NoResult]
  /\ call = [h \in Holder |-> NoCall]
  /\ announced = "none"

-----------------------------------------------------------------------------
\* Mutant of Begin: the sampled time is ahead of the shared clock.
Begin_Ahead(h, op, ttl) ==
  /\ call[h] = NoCall
  /\ call' = [call EXCEPT ![h] = [op |-> op, now |-> clock + 1, ttl |-> ttl]]
  /\ UNCHANGED <<clock, lease, lastId, announced>>

\* The worker enters the runtime, which samples `now`.
Begin(h, op, ttl) ==
  /\ call[h] = NoCall
  /\ call' = [call EXCEPT ![h] = [op |-> op, now |-> clock, ttl |-> ttl]]
  /\ UNCHANGED <<clock, lease, lastId, announced>>

BeginAcquire(h) == \E ttl \in Ttl : Begin(h, "acquire", ttl) /\ UNCHANGED known

BeginRenew(h) ==
  /\ known[h].id # 0
  /\ \E ttl \in Ttl : Begin(h, "renew", ttl) /\ UNCHANGED known

\* A worker that gives the lease back has stopped relying on it.
BeginRelease(h) ==
  /\ known[h].id # 0
  /\ Begin(h, "release", 0)
  /\ known' = [known EXCEPT ![h].exp = 0]

Return(h) == call' = [call EXCEPT ![h] = NoCall]

\* Mutant of Acquire: a lease in its last moment can be taken.
Acquire_Early(h) ==
  LET now == call[h].now
      exp == now + call[h].ttl
  IN /\ call[h].op = "acquire"
     /\ lastId < MaxLease
     /\ ~ (lease.status = "active" /\ lease.exp > now + 1 /\ lease.holder # h)
     /\ lastId' = lastId + 1
     /\ lease' = [status |-> "active", id |-> lastId', holder |-> h, exp |-> exp]
     /\ known' = [known EXCEPT ![h] = [id |-> lastId', exp |-> exp]]
     /\ announced' = "acquired"
     /\ Return(h)
     /\ UNCHANGED clock

\* acquire: refused while another holder's active lease runs past `now`.
Acquire(h) ==
  LET now == call[h].now
      exp == now + call[h].ttl
  IN /\ call[h].op = "acquire"
     /\ lastId < MaxLease
     /\ ~ (lease.status = "active" /\ lease.exp > now /\ lease.holder # h)
     /\ lastId' = lastId + 1
     /\ lease' = [status |-> "active", id |-> lastId', holder |-> h, exp |-> exp]
     /\ known' = [known EXCEPT ![h] = [id |-> lastId', exp |-> exp]]
     /\ announced' = "acquired"
     /\ Return(h)
     /\ UNCHANGED clock

\* Mutant of Renew: the lease_id is not compared.
Renew_AnyLease(h) ==
  LET exp == call[h].now + call[h].ttl
  IN /\ call[h].op = "renew"
     /\ lease' = [lease EXCEPT !.status = "active", !.exp = exp]
     /\ known' = [known EXCEPT ![h].exp = exp]
     /\ announced' = "renewed"
     /\ Return(h)
     /\ UNCHANGED <<clock, lastId>>

\* renew: only the lease_id is compared, so an expired or released lease that
\* nobody has taken becomes active again.
Renew(h) ==
  LET exp == call[h].now + call[h].ttl
  IN /\ call[h].op = "renew"
     /\ lease.id = known[h].id
     /\ lease' = [lease EXCEPT !.status = "active", !.exp = exp]
     /\ known' = [known EXCEPT ![h].exp = exp]
     /\ announced' = "renewed"
     /\ Return(h)
     /\ UNCHANGED <<clock, lastId>>

Release(h) ==
  /\ call[h].op = "release"
  /\ lease.id = known[h].id /\ lease.status # "released"
  /\ lease' = [lease EXCEPT !.status = "released"]
  /\ announced' = "released"
  /\ Return(h)
  /\ UNCHANGED <<clock, lastId, known>>

\* Any call may end without an effect: LeaseAcquireError, LeaseConflictError,
\* an idempotent release, a lost connection.
NoEffect(h) ==
  /\ call[h] # NoCall
  /\ Return(h)
  /\ UNCHANGED <<clock, lease, lastId, known, announced>>

\* The worker dies: what it knew and what it was doing is gone.
Crash(h) ==
  /\ known' = [known EXCEPT ![h] = NoResult]
  /\ Return(h)
  /\ UNCHANGED <<clock, lease, lastId, announced>>

\* Mutants of ExpireStale: one unit too early; without the domain event.
ExpireStale_Early(cutoff) ==
  /\ lease.status = "active" /\ lease.exp <= cutoff + 1
  /\ lease' = [lease EXCEPT !.status = "expired"]
  /\ announced' = "expired"
  /\ UNCHANGED <<clock, lastId, known, call>>

ExpireStale_Silent(cutoff) ==
  /\ lease.status = "active" /\ lease.exp <= cutoff
  /\ lease' = [lease EXCEPT !.status = "expired"]
  /\ UNCHANGED <<clock, lastId, known, call, announced>>

\* expire_stale, with a cutoff sampled at any time up to now.
ExpireStale(cutoff) ==
  /\ lease.status = "active" /\ lease.exp <= cutoff
  /\ lease' = [lease EXCEPT !.status = "expired"]
  /\ announced' = "expired"
  /\ UNCHANGED <<clock, lastId, known, call>>

Tick ==
  /\ clock < MaxClock
  /\ clock' = clock + 1
  /\ UNCHANGED <<lease, lastId, known, call, announced>>

HolderStep(h) ==
  \/ BeginAcquire(h)
  \/ BeginRenew(h)
  \/ BeginRelease(h)
  \/ Acquire(h)
  \/ Renew(h)
  \/ Release(h)
  \/ NoEffect(h)
  \/ Crash(h)

Next ==
  \/ \E h \in Holder : HolderStep(h)
  \/ \E cutoff \in 0..clock : ExpireStale(cutoff)
  \/ Tick

Spec == Init /\ [][Next]_vars

-----------------------------------------------------------------------------
(* Properties *)

\* Every variable has its type, no call works with a time yet to come, and no
\* worker knows a lease_id that was not handed out.
TypeOK ==
  /\ clock \in Nat
  /\ lease \in [status : LeaseStatus \cup {"none"}, id : Nat,
                holder : Holder \cup {Nobody}, exp : Nat]
  /\ lastId \in Nat /\ lease.id <= lastId
  /\ known \in [Holder -> [id : Nat, exp : Nat]]
  /\ call \in [Holder -> [op : {"none", "acquire", "renew", "release"}, now : Nat,
                          ttl : Ttl \cup {0}]]
  /\ \A h \in Holder : known[h].id <= lastId /\ call[h].now <= clock
  /\ announced \in {"none", "acquired", "renewed", "released", "expired"}

\* The workers that rely on a lease that has not run out.
Relying == {h \in Holder : known[h].exp > clock}

\* lease.py: "Prevents concurrent execution of the same workflow across
\* workers" -- whatever the calls, crashes, sweeps and lock waits, and with
\* every `now` possibly old, at most one worker relies on a lease.
MutualExclusion == \A g, h \in Relying : g = h

\* A worker that relies on a lease is the one the row names, until the same
\* time: neither a sweep nor a thief has touched the row.
RelianceIsBacked ==
  \A h \in Relying :
    lease = [status |-> "active", id |-> known[h].id, holder |-> h, exp |-> known[h].exp]

\* A reader of the domain channel that keeps the last lease event knows the
\* status of the row.
AnnouncedStatus ==
  lease.status = CASE announced \in {"acquired", "renewed"} -> "active"
                   [] OTHER                                 -> announced

\* The lease implements the execution lock, owned by the worker relying on it.
owner == IF Relying = {} THEN Nobody ELSE CHOOSE h \in Relying : TRUE
Lock  == INSTANCE ExecutionLock

ImplementsLock == Lock!Spec

-----------------------------------------------------------------------------
(* Proofs, for any set of workers, any durations and any bounds: typing,   *)
(* mutual exclusion, and the execution lock.                               *)

\* A lease_id belongs to one worker; a worker giving its lease back has
\* stopped relying on it.
IdsBelong ==
  \A h \in Holder :
    /\ known[h].id # 0 /\ known[h].id = lease.id => lease.holder = h
    /\ call[h].op \in {"renew", "release"} => known[h].id # 0
    /\ call[h].op = "release" => known[h].exp = 0

IInv == TypeOK /\ IdsBelong /\ RelianceIsBacked /\ AnnouncedStatus

LEMMA InitIInv == Init => IInv
BY HolderAssumption
DEF Init, IInv, TypeOK, IdsBelong, RelianceIsBacked, AnnouncedStatus, Relying, NoCall, NoResult,
    LeaseStatus

-----------------------------------------------------------------------------
(* One lemma per action. *)

LEMMA BeginInv ==
  ASSUME IInv, NEW h \in Holder, BeginAcquire(h) \/ BeginRenew(h) \/ BeginRelease(h)
  PROVE  IInv'
<1> USE DEF IInv, TypeOK, Begin
<1>1. CASE BeginAcquire(h)
  BY <1>1 DEF BeginAcquire, IdsBelong, RelianceIsBacked, Relying, AnnouncedStatus
<1>2. CASE BeginRenew(h)
  BY <1>2 DEF BeginRenew, IdsBelong, RelianceIsBacked, Relying, AnnouncedStatus
<1>3. CASE BeginRelease(h)
  <2>1. TypeOK'
    BY <1>3 DEF BeginRelease
  <2>2. IdsBelong'
    BY <1>3 DEF BeginRelease, IdsBelong
  <2>3. Relying' \subseteq Relying /\ \A g \in Relying' : known'[g] = known[g]
    BY <1>3 DEF BeginRelease, Relying
  <2> QED BY <1>3, <2>1, <2>2, <2>3 DEF BeginRelease, RelianceIsBacked, AnnouncedStatus
<1> QED BY <1>1, <1>2, <1>3

LEMMA CallTypes ==
  ASSUME IInv, NEW h \in Holder
  PROVE  /\ call[h].now \in Nat /\ call[h].ttl \in Nat
         /\ call[h].now + call[h].ttl \in Nat
<1>1. call[h].now \in Nat /\ call[h].ttl \in Ttl \cup {0}
  BY DEF IInv, TypeOK
<1>2. \A x \in Ttl \cup {0} : x \in Nat
  BY TtlAssumption
<1>3. call[h].ttl \in Nat
  BY <1>1, <1>2, Zenon
<1> QED BY <1>1, <1>3

LEMMA AcquireInv ==
  ASSUME IInv, NEW h \in Holder, Acquire(h)
  PROVE  IInv'
<1>0. /\ call[h].now \in Nat /\ call[h].ttl \in Nat
      /\ call[h].now + call[h].ttl \in Nat
  BY CallTypes
<1> USE DEF IInv, TypeOK, Acquire, Return, NoCall
<1>1. TypeOK'
  BY <1>0 DEF LeaseStatus
<1>2. IdsBelong'
  BY DEF IdsBelong
<1>3. \A g \in Relying : g = h
  BY DEF RelianceIsBacked, Relying
<1>4. RelianceIsBacked'
  BY <1>3 DEF RelianceIsBacked, Relying
<1> QED BY <1>1, <1>2, <1>4 DEF AnnouncedStatus

LEMMA RenewInv ==
  ASSUME IInv, NEW h \in Holder, Renew(h)
  PROVE  IInv'
<1> DEFINE exp == call[h].now + call[h].ttl
<1>1. exp \in Nat
  BY CallTypes
<1>2. lease' = [status |-> "active", id |-> lease.id, holder |-> lease.holder, exp |-> exp]
  BY DEF IInv, TypeOK, Renew
<1>3. /\ known' \in [Holder -> [id : Nat, exp : Nat]]
      /\ \A g \in Holder : known'[g].id = known[g].id
      /\ known'[h].exp = exp
      /\ \A g \in Holder \ {h} : known'[g].exp = known[g].exp
  <2>1. known \in [Holder -> [id : Nat, exp : Nat]] /\ known' = [known EXCEPT ![h].exp = exp]
    BY DEF IInv, TypeOK, Renew
  <2> HIDE DEF exp
  <2> QED BY <1>1, <2>1
<1>4. lease.holder = h /\ lease.id = known[h].id
  BY DEF IInv, IdsBelong, Renew
<1>5. /\ call' = [call EXCEPT ![h] = [op |-> "none", now |-> 0, ttl |-> 0]]
      /\ announced' = "renewed" /\ clock' = clock /\ lastId' = lastId
  BY DEF Renew, Return, NoCall
<1> HIDE DEF exp
<1>6. TypeOK'
  BY <1>1, <1>2, <1>3, <1>5 DEF IInv, TypeOK, LeaseStatus
<1>7. IdsBelong'
  BY <1>2, <1>3, <1>5 DEF IInv, TypeOK, IdsBelong
<1>8. \A g \in Relying : g = h
  BY <1>4 DEF IInv, RelianceIsBacked
<1>9. RelianceIsBacked'
  <2> SUFFICES ASSUME NEW g \in Relying'
               PROVE  lease' = [status |-> "active", id |-> known'[g].id, holder |-> g,
                                exp |-> known'[g].exp]
    BY DEF RelianceIsBacked
  <2>1. g = h
    BY <1>3, <1>5, <1>8 DEF Relying
  <2> QED BY <2>1, <1>2, <1>3, <1>4
<1> QED BY <1>2, <1>5, <1>6, <1>7, <1>9 DEF IInv, AnnouncedStatus

LEMMA ReleaseInv ==
  ASSUME IInv, NEW h \in Holder, Release(h)
  PROVE  IInv'
<1> USE DEF IInv, TypeOK, Release, Return, NoCall
<1>1. TypeOK'
  BY DEF LeaseStatus
<1>2. lease.holder = h /\ known[h].exp = 0
  BY DEF IdsBelong
<1>3. IdsBelong'
  BY DEF IdsBelong
<1>4. Relying = {}
  BY <1>2 DEF RelianceIsBacked, Relying
<1>5. Relying' = {}
  BY <1>4 DEF Relying
<1> QED BY <1>1, <1>3, <1>5 DEF RelianceIsBacked, AnnouncedStatus

LEMMA QuietInv ==
  ASSUME IInv, NEW h \in Holder, NoEffect(h) \/ Crash(h)
  PROVE  IInv'
<1> USE DEF IInv, TypeOK, NoEffect, Crash, Return, NoCall, NoResult
<1>1. TypeOK'
  <2>1. CASE NoEffect(h)
    BY <2>1
  <2>2. CASE Crash(h)
    BY <2>2
  <2> QED BY <2>1, <2>2
<1>2. IdsBelong'
  BY DEF IdsBelong
<1>3. Relying' \subseteq Relying /\ \A g \in Relying' : known'[g] = known[g]
  BY DEF Relying
<1> QED BY <1>1, <1>2, <1>3 DEF RelianceIsBacked, AnnouncedStatus

LEMMA TimeInv ==
  ASSUME IInv, Tick \/ \E cutoff \in 0..clock : ExpireStale(cutoff)
  PROVE  IInv'
<1> USE DEF IInv, TypeOK
<1>1. CASE Tick
  BY <1>1 DEF Tick, IdsBelong, RelianceIsBacked, Relying, AnnouncedStatus
<1>2. ASSUME NEW cutoff \in 0..clock, ExpireStale(cutoff) PROVE IInv'
  <2>1. Relying = {}
    BY <1>2 DEF ExpireStale, RelianceIsBacked, Relying
  <2>2. Relying' = {}
    BY <1>2, <2>1 DEF ExpireStale, Relying
  <2>3. TypeOK' /\ IdsBelong'
    BY <1>2 DEF ExpireStale, LeaseStatus, IdsBelong
  <2> QED BY <1>2, <2>2, <2>3 DEF ExpireStale, RelianceIsBacked, AnnouncedStatus
<1> QED BY <1>1, <1>2

LEMMA NextIInv == IInv /\ [Next]_vars => IInv'
<1> SUFFICES ASSUME IInv, [Next]_vars PROVE IInv'
  OBVIOUS
<1>1. ASSUME NEW h \in Holder, HolderStep(h) PROVE IInv'
  BY <1>1, BeginInv, AcquireInv, RenewInv, ReleaseInv, QuietInv DEF HolderStep
<1>2. CASE Tick \/ \E cutoff \in 0..clock : ExpireStale(cutoff)
  BY <1>2, TimeInv
<1>3. CASE UNCHANGED vars
  BY <1>3 DEF vars, IInv, TypeOK, IdsBelong, RelianceIsBacked, Relying, AnnouncedStatus
<1> QED BY <1>1, <1>2, <1>3 DEF Next

-----------------------------------------------------------------------------
\* Every reachable state of the lease and its workers is well typed.
THEOREM LeaseTypeCorrect == Spec => []TypeOK
<1>1. IInv => TypeOK
  BY DEF IInv
<1> QED BY <1>1, InitIInv, NextIInv, PTL DEF Spec

\* A worker that relies on a lease is the one its row names, until that time.
THEOREM Backed == Spec => []RelianceIsBacked
<1>1. IInv => RelianceIsBacked
  BY DEF IInv
<1> QED BY <1>1, InitIInv, NextIInv, PTL DEF Spec

\* For any number of workers and any lease durations, at most one worker
\* relies on a lease at any time.
THEOREM LeaseMutualExclusion == Spec => []MutualExclusion
<1>1. IInv => MutualExclusion
  BY DEF IInv, RelianceIsBacked, MutualExclusion
<1> QED BY <1>1, InitIInv, NextIInv, PTL DEF Spec

\* The last lease event on the domain channel always tells the status of the
\* lease row, however acquisitions, renewals, releases and sweeps interleave.
THEOREM StatusIsAnnounced == Spec => []AnnouncedStatus
<1>1. IInv => AnnouncedStatus
  BY DEF IInv
<1> QED BY <1>1, InitIInv, NextIInv, PTL DEF Spec

-----------------------------------------------------------------------------
(* Refinement *)

LEMMA OwnerRelies ==
  /\ Relying # {} => owner \in Relying
  /\ Relying = {} => owner = Nobody
  /\ owner \in Holder \cup {Nobody}
  /\ owner \in Holder => owner \in Relying
BY HolderAssumption DEF owner, Relying

\* While a worker relies on the lease, the row keeps naming it.
LEMMA HolderKept ==
  ASSUME IInv, [Next]_vars, NEW g \in Relying
  PROVE  lease'.holder = g
<1>1. lease.status = "active" /\ lease.holder = g /\ lease.exp > clock
  BY DEF IInv, RelianceIsBacked, Relying
<1> USE <1>1 DEF IInv, TypeOK
<1>2. ASSUME NEW h \in Holder, Acquire(h) PROVE lease'.holder = g
  BY <1>2 DEF Acquire
<1>3. ASSUME NEW h \in Holder, HolderStep(h), ~Acquire(h) PROVE lease'.holder = g
  BY <1>3 DEF HolderStep, BeginAcquire, BeginRenew, BeginRelease, Begin, Renew, Release,
              NoEffect, Crash
<1>4. CASE Tick \/ \E cutoff \in 0..clock : ExpireStale(cutoff)
  BY <1>4 DEF Tick, ExpireStale
<1>5. CASE UNCHANGED vars
  BY <1>5 DEF vars
<1> QED BY <1>2, <1>3, <1>4, <1>5 DEF Next

\* The lease with its workers implements the execution lock: the right to
\* execute never changes hands without first being nobody's.
THEOREM LeaseImplementsLock == Spec => ImplementsLock
<1>1. Init => Lock!Init
  BY OwnerRelies DEF Init, Lock!Init, Relying, NoResult
<1>2. IInv /\ IInv' /\ [Next]_vars => [Lock!Next]_owner
  <2> SUFFICES ASSUME IInv, IInv', [Next]_vars PROVE [Lock!Next]_owner
    OBVIOUS
  <2>1. /\ owner' \in Holder \cup {Nobody}
        /\ owner' \in Holder => owner' \in Relying'
    BY HolderAssumption DEF owner, Relying
  <2>2. CASE owner = Nobody \/ owner' = Nobody
    BY <2>1, <2>2 DEF Lock!Next, Lock!Grab, Lock!Lose
  <2>3. CASE owner \in Relying /\ owner' \in Relying'
    <3>1. lease'.holder = owner
      BY <2>3, HolderKept
    <3>2. lease'.holder = owner'
      BY <2>3 DEF IInv, RelianceIsBacked
    <3> QED BY <3>1, <3>2
  <2> QED BY <2>1, <2>2, <2>3, OwnerRelies
<1> QED BY <1>1, <1>2, InitIInv, NextIInv, PTL DEF Spec, ImplementsLock, Lock!Spec
=============================================================================
