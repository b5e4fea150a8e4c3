---------------------------- MODULE RecordProofs ----------------------------
(***************************************************************************)
(* Proofs about the services that keep records, for any number of their    *)
(* writers, readers, rows and keys: the event logs and what is read from   *)
(* them, transcripts, research jobs, context windows and rulebooks.  One    *)
(* section per module; each proves an inductive invariant first, one step   *)
(* per action.                                                             *)
(***************************************************************************)
EXTENDS WorkflowEventOrder, WorkflowRetries, WorkflowReports, EventStore, Transcripts,
        TranscriptReaders, ResearchPlans, ResearchSafety, ResearchTasks, ResearchGraph,
        ResearchStore, OperatorSessions, ContextSnapshots, ContextWindow, GovernanceEvaluation,
        FiniteSetTheorems, TLAPS

-----------------------------------------------------------------------------
(* Induction without an operator, and the greatest of finitely many.       *)

\* Among finite sets there is a minimal one.
LEMMA LeastSubset ==
  ASSUME NEW S, NEW C, C \subseteq FiniteSubsetsOf(S), C # {}
  PROVE  \E T \in C : \A U \in C : U \subseteq T => U = T
<1>1. IsWellFoundedOn(StrictSubsetOrdering(S), FiniteSubsetsOf(S))
  BY FS_StrictSubsetOrderingWellFounded
<1>2. \E T \in C : \A U \in C : ~ (<<U, T>> \in StrictSubsetOrdering(S))
  BY <1>1, WFMin
<1> QED BY <1>2 DEF StrictSubsetOrdering, FiniteSubsetsOf

\* A non-empty set of numbers has a least one.
LEMMA LeastNatural ==
  ASSUME NEW T \in SUBSET Nat, T # {}
  PROVE  \E n \in T : \A m \in T : n <= m
<1> DEFINE C == {T \cap (0..n) : n \in T}
<1>1. C \subseteq FiniteSubsetsOf(Nat)
  <2> SUFFICES ASSUME NEW n \in T PROVE IsFiniteSet(T \cap (0..n)) /\ T \cap (0..n) \subseteq Nat
    BY DEF FiniteSubsetsOf
  <2>1. IsFiniteSet(0..n)
    BY FS_Interval
  <2> QED BY <2>1, FS_Intersection
<1>2. C # {}
  OBVIOUS
<1>3. \E M \in C : \A U \in C : U \subseteq M => U = M
  <2> HIDE DEF C
  <2> QED BY <1>1, <1>2, LeastSubset
<1>3a. PICK M \in C : \A U \in C : U \subseteq M => U = M
  BY <1>3
<1>4. PICK n \in T : M = T \cap (0..n)
  OBVIOUS
<1>5. \A m \in T : n <= m
  <2> SUFFICES ASSUME NEW m \in T, m < n PROVE FALSE
    OBVIOUS
  <2>1. T \cap (0..m) \in C
    OBVIOUS
  <2>2. T \cap (0..m) \subseteq M
    BY <1>4
  <2>3. n \in M /\ n \notin T \cap (0..m)
    BY <1>4
  <2> QED BY <2>1, <2>2, <2>3, <1>3a
<1> QED BY <1>5

\* The numbers from 1 to n are n numbers.
LEMMA CountedTo ==
  ASSUME NEW n \in Nat
  PROVE  IsFiniteSet(1..n) /\ Cardinality(1..n) = n
<1>1. n \in Int /\ 1 \in Int /\ (1 > n => n = 0) /\ n - 1 + 1 = n
  OBVIOUS
<1>2. IsFiniteSet(1..n) /\ Cardinality(1..n) = IF 1 > n THEN 0 ELSE n - 1 + 1
  BY <1>1, FS_Interval
<1> QED BY <1>1, <1>2

\* Induction over the numbers, for a set in place of an operator.
LEMMA NaturalsReached ==
  ASSUME NEW T, 0 \in T, \A n \in Nat : n \in T => n + 1 \in T
  PROVE  Nat \subseteq T
<1> SUFFICES ASSUME Nat \ T # {} PROVE FALSE
  OBVIOUS
<1>1. PICK n \in Nat \ T : \A m \in Nat \ T : n <= m
  BY LeastNatural
<1>2. n # 0 /\ n - 1 \in Nat /\ ~ (n <= n - 1)
  OBVIOUS
<1>3. n - 1 \in T
  BY <1>1, <1>2
<1> QED BY <1>2, <1>3

\* Induction over the subsets of a finite set.
LEMMA SubsetsReached ==
  ASSUME NEW S, IsFiniteSet(S), NEW C, {} \in C,
         \A T \in SUBSET S : \A x \in T : T \ {x} \in C => T \in C
  PROVE  S \in C
<1> SUFFICES ASSUME S \notin C PROVE FALSE
  OBVIOUS
<1> DEFINE D == (SUBSET S) \ C
<1>1. D \subseteq FiniteSubsetsOf(S)
  BY FS_Subset DEF FiniteSubsetsOf
<1>2. D # {}
  OBVIOUS
<1>3. \E T \in D : \A U \in D : U \subseteq T => U = T
  <2> HIDE DEF D
  <2> QED BY <1>1, <1>2, LeastSubset
<1>3a. PICK T \in D : \A U \in D : U \subseteq T => U = T
  BY <1>3
<1>4. PICK x \in T : TRUE
  OBVIOUS
<1>5. T \ {x} \in SUBSET S /\ T \ {x} # T /\ T \ {x} \subseteq T
  OBVIOUS
<1>6. T \ {x} \in C
  BY <1>3a, <1>5
<1> QED BY <1>6

\* A non-empty set of numbers with a bound has a greatest one.
LEMMA GreatestBelow ==
  ASSUME NEW k \in Nat, NEW S, S \subseteq 0..k, S # {}
  PROVE  \E m \in S : \A n \in S : n <= m
<1> DEFINE T == {k - n : n \in S}
<1>0. \A n \in S : n \in Int /\ k - n \in Nat
  OBVIOUS
<1>1. T \subseteq Nat /\ T # {}
  BY <1>0, Zenon
<1>2. \E n \in T : \A m \in T : n <= m
  <2> HIDE DEF T
  <2> QED BY <1>1, LeastNatural
<1>3. PICK m \in S : \A n \in S : k - m <= k - n
  BY <1>2
<1>4. \A n \in S : n <= m
  BY <1>3
<1> QED BY <1>4

\* A non-empty finite set of numbers has a greatest one.
LEMMA GreatestOf ==
  ASSUME NEW S, IsFiniteSet(S), S \subseteq Nat, S # {}
  PROVE  \E c \in S : \A d \in S : d <= c
<1> DEFINE C == {T \in SUBSET S : T = {} \/ \E c \in T : \A d \in T : d <= c}
<1>1. {} \in C
  OBVIOUS
<1>2. ASSUME NEW T \in SUBSET S, NEW x \in T, T \ {x} \in C PROVE T \in C
  <2>1. CASE T \ {x} = {}
    BY <2>1
  <2>2. CASE T \ {x} # {}
    <3>1. PICK c \in T \ {x} : \A d \in T \ {x} : d <= c
      BY <1>2, <2>2
    <3>2. CASE x <= c
      BY <3>1, <3>2
    <3>3. CASE ~ (x <= c)
      <4>1. \A d \in T : d <= x
        BY <3>1, <3>3
      <4> QED BY <4>1
    <3> QED BY <3>2, <3>3
  <2> QED BY <2>1, <2>2
<1>3. S \in C
  <2> HIDE DEF C
  <2> QED BY <1>1, <1>2, SubsetsReached
<1> QED BY <1>3

-----------------------------------------------------------------------------
(* WorkflowRetries.  Invariant: an attempt is read from an event that stays. *)

\* A scheduler that has read an attempt has read it from an event that stays; the
\* event it inserts is later than that one.
RetryInv ==
  /\ RetryTypeOK
  /\ RetryLadder
  /\ \A e \in scheduled : e.at <= clock
  /\ \A c \in Scheduler :
       /\ reporter[c].step # "idle" => reporter[c].attempt >= 1
       /\ reporter[c].step = "read" /\ reporter[c].attempt > 1 =>
            \E f \in scheduled : f.attempt = reporter[c].attempt - 1
       /\ reporter[c].step = "inserted" =>
            /\ reporter[c].attempt <= MaxRetries
            /\ reporter[c].at \in 1..clock
            /\ reporter[c].attempt > 1 =>
                 \E f \in scheduled : f.attempt = reporter[c].attempt - 1 /\ f.at < reporter[c].at

\* The invariant holds at the start.
LEMMA RetryInitially == RetryInit => RetryInv
<1> SUFFICES ASSUME RetryInit PROVE RetryInv
  OBVIOUS
<1>0. 0 \in 0..(MaxRetries + 1) /\ 0 \in 0..MaxInserts
  BY RetryAssumption
<1>a. NoReport \in [step : {"idle", "read", "inserted"},
                    attempt : 0..(MaxRetries + 1), at : 0..MaxInserts]
  BY <1>0 DEF NoReport
<1>1. RetryTypeOK
  BY <1>0, <1>a DEF RetryInit, RetryTypeOK
<1> QED BY <1>1 DEF RetryInit, RetryInv, RetryLadder, NoReport

\* The attempt a scheduler reads is the greatest on record, and is on record.
LEMMA LatestIsScheduled ==
  ASSUME RetryInv
  PROVE  /\ CurrentAttempt \in 0..MaxRetries
         /\ CurrentAttempt >= 1 => \E f \in scheduled : f.attempt = CurrentAttempt
<1> USE RetryAssumption
<1>1. CASE scheduled = {}
  BY <1>1 DEF CurrentAttempt
<1>2. CASE scheduled # {}
  <2> DEFINE S == {e.at : e \in scheduled}
  <2>1. S \subseteq 0..MaxInserts /\ S # {} /\ MaxInserts \in Nat
    BY <1>2 DEF RetryInv, RetryTypeOK
  <2>2. \E m \in S : \A n \in S : n <= m
    <3> HIDE DEF S
    <3> QED BY <2>1, GreatestBelow
  <2>3. LatestRetry # {}
    BY <2>2 DEF LatestRetry
  <2>4. (CHOOSE e \in LatestRetry : TRUE) \in LatestRetry
    BY <2>3
  <2> DEFINE newest == CHOOSE e \in LatestRetry : TRUE
  <2>5. newest \in scheduled
    BY <2>4 DEF LatestRetry
  <2>6. CurrentAttempt = newest.attempt
    BY <1>2 DEF CurrentAttempt
  <2> HIDE DEF newest
  <2> QED BY <2>5, <2>6 DEF RetryInv, RetryTypeOK
<1> QED BY <1>1, <1>2

\* Every step of the service keeps the invariant.
LEMMA RetryStep == RetryInv /\ [RetryNext]_retryVars => RetryInv'
<1> SUFFICES ASSUME RetryInv, [RetryNext]_retryVars PROVE RetryInv'
  OBVIOUS
<1> USE RetryAssumption
<1>t. /\ scheduled \subseteq [at : 1..MaxInserts, attempt : 1..MaxRetries]
      /\ elapsed \subseteq scheduled
      /\ attempted \subseteq 1..MaxRetries
      /\ letters \subseteq {MaxRetries + 1}
      /\ reporter \in [Scheduler -> [step : {"idle", "read", "inserted"},
                                 attempt : 0..(MaxRetries + 1), at : 0..MaxInserts]]
      /\ clock \in 0..MaxInserts /\ failed \in BOOLEAN
  BY DEF RetryInv, RetryTypeOK
<1>1. CASE UNCHANGED retryVars
  BY <1>1 DEF RetryInv, retryVars, RetryTypeOK, RetryLadder
<1>2. ASSUME NEW c \in Scheduler, ReadAttempt(c) PROVE RetryInv'
  <2> PICK n : n = CurrentAttempt + 1
    OBVIOUS
  <2>0. n \in 1..(MaxRetries + 1) /\ (n > 1 => \E f \in scheduled : f.attempt = n - 1)
    BY LatestIsScheduled
  <2>1. /\ reporter'[c] = [step |-> "read", attempt |-> n, at |-> 0]
        /\ \A o \in Scheduler : o # c => reporter'[o] = reporter[o]
        /\ reporter' \in [Scheduler -> [step : {"idle", "read", "inserted"},
                                 attempt : 0..(MaxRetries + 1), at : 0..MaxInserts]]
        /\ UNCHANGED <<failed, scheduled, elapsed, attempted, letters, clock>>
    BY <1>2, <1>t, <2>0 DEF ReadAttempt
  <2>2. RetryTypeOK'
    BY <1>t, <2>1 DEF RetryTypeOK
  <2>3. RetryLadder'
    BY <2>1 DEF RetryInv, RetryLadder
  <2> QED BY <2>0, <2>1, <2>2, <2>3 DEF RetryInv
<1>3. ASSUME NEW c \in Scheduler, InsertRetry(c) PROVE RetryInv'
  <2>a. /\ clock' = clock + 1 /\ clock + 1 \in 1..MaxInserts /\ clock + 1 \in 0..MaxInserts
        /\ reporter[c].step = "read" /\ reporter[c].attempt <= MaxRetries
        /\ UNCHANGED <<failed, scheduled, elapsed, attempted, letters>>
    BY <1>3, <1>t DEF InsertRetry
  <2> PICK n : n = clock + 1
    OBVIOUS
  <2>b. reporter' = [reporter EXCEPT ![c].step = "inserted", ![c].at = n] /\ n \in 0..MaxInserts
    BY <1>3, <2>a DEF InsertRetry
  <2>c. /\ reporter'[c].step = "inserted" /\ reporter'[c].attempt = reporter[c].attempt
        /\ reporter'[c].at = n
        /\ \A o \in Scheduler : o # c => reporter'[o] = reporter[o]
    BY <2>b, <1>t
  <2>d. reporter' \in [Scheduler -> [step : {"idle", "read", "inserted"},
                                 attempt : 0..(MaxRetries + 1), at : 0..MaxInserts]]
    BY <2>b, <1>t
  <2>1. /\ reporter'[c].step = "inserted" /\ reporter'[c].attempt = reporter[c].attempt
        /\ reporter'[c].at = clock + 1 /\ clock' = clock + 1 /\ clock + 1 \in 1..MaxInserts
        /\ reporter[c].step = "read" /\ reporter[c].attempt <= MaxRetries
        /\ \A o \in Scheduler : o # c => reporter'[o] = reporter[o]
        /\ reporter' \in [Scheduler -> [step : {"idle", "read", "inserted"},
                                 attempt : 0..(MaxRetries + 1), at : 0..MaxInserts]]
        /\ UNCHANGED <<failed, scheduled, elapsed, attempted, letters>>
    BY <2>a, <2>c, <2>d
  <2>2. RetryTypeOK'
    BY <1>t, <2>1 DEF RetryTypeOK
  <2>3. RetryLadder'
    BY <2>1 DEF RetryInv, RetryLadder
  <2>4. \A e \in scheduled : e.at \in Int /\ e.at < clock + 1
    BY <1>t DEF RetryInv
  <2>5. reporter[c].attempt >= 1 /\
        (reporter[c].attempt > 1 =>
           \E f \in scheduled : f.attempt = reporter[c].attempt - 1 /\ f.at < clock + 1)
    BY <2>1, <2>4 DEF RetryInv
  <2>6. \A e \in scheduled' : e.at <= clock'
    BY <2>1, <2>4, <1>t
  <2>7. \A o \in Scheduler : o # c /\ reporter[o].step = "inserted" => reporter[o].at \in 1..clock'
    BY <2>1, <1>t DEF RetryInv
  <2> QED BY <1>t, <2>1, <2>2, <2>3, <2>5, <2>6, <2>7 DEF RetryInv
<1>4. ASSUME NEW c \in Scheduler, CommitRetry(c) PROVE RetryInv'
  <2> PICK new : new = [at |-> reporter[c].at, attempt |-> reporter[c].attempt]
    OBVIOUS
  <2>1. /\ reporter[c].step = "inserted" /\ scheduled' = scheduled \cup {new}
        /\ reporter'[c] = NoReport
        /\ \A o \in Scheduler : o # c => reporter'[o] = reporter[o]
        /\ reporter' \in [Scheduler -> [step : {"idle", "read", "inserted"},
                                 attempt : 0..(MaxRetries + 1), at : 0..MaxInserts]]
        /\ UNCHANGED <<failed, elapsed, attempted, letters, clock>>
    BY <1>4, <1>t DEF CommitRetry, NoReport
  <2>2. /\ new.attempt \in 1..MaxRetries /\ new.at \in 1..clock /\ new.at \in 1..MaxInserts
        /\ new.attempt > 1 => \E f \in scheduled : f.attempt = new.attempt - 1 /\ f.at < new.at
        /\ new \in [at : 1..MaxInserts, attempt : 1..MaxRetries]
    BY <2>1, <1>t DEF RetryInv
  <2>3. RetryTypeOK'
    BY <1>t, <2>1, <2>2 DEF RetryTypeOK
  <2>4. RetryLadder'
    <3>1. \A e \in scheduled' :
            e.attempt > 1 => \E f \in scheduled' : f.attempt = e.attempt - 1 /\ f.at < e.at
      BY <2>1, <2>2 DEF RetryInv, RetryLadder
    <3>2. letters' # {} => \E e \in scheduled' : e.attempt = MaxRetries
      BY <2>1 DEF RetryInv, RetryLadder
    <3>3. \A n \in attempted' : \E e \in scheduled' : e.attempt = n
      BY <2>1 DEF RetryInv, RetryLadder
    <3> QED BY <3>1, <3>2, <3>3 DEF RetryLadder
  <2>5. \A e \in scheduled' : e.at <= clock'
    BY <2>1, <2>2, <1>t DEF RetryInv
  <2>6. \A o \in Scheduler :
       /\ reporter'[o].step # "idle" => reporter'[o].attempt >= 1
       /\ reporter'[o].step = "read" /\ reporter'[o].attempt > 1 =>
            \E f \in scheduled' : f.attempt = reporter'[o].attempt - 1
       /\ reporter'[o].step = "inserted" =>
            /\ reporter'[o].attempt <= MaxRetries
            /\ reporter'[o].at \in 1..clock'
            /\ reporter'[o].attempt > 1 =>
                 \E f \in scheduled' : f.attempt = reporter'[o].attempt - 1 /\ f.at < reporter'[o].at
    <3> TAKE o \in Scheduler
    <3>1. CASE o = c
      BY <3>1, <2>1 DEF NoReport
    <3>2. CASE o # c
      BY <3>2, <2>1 DEF RetryInv
    <3> QED BY <3>1, <3>2
  <2> QED BY <2>3, <2>4, <2>5, <2>6 DEF RetryInv
<1>5. ASSUME NEW c \in Scheduler, ExhaustRetries(c) \/ AbortReport(c) PROVE RetryInv'
  <2>1. /\ reporter'[c] = NoReport
        /\ \A o \in Scheduler : o # c => reporter'[o] = reporter[o]
        /\ reporter' \in [Scheduler -> [step : {"idle", "read", "inserted"},
                                 attempt : 0..(MaxRetries + 1), at : 0..MaxInserts]]
        /\ UNCHANGED <<failed, scheduled, elapsed, attempted, clock>>
    BY <1>5, <1>t DEF ExhaustRetries, AbortReport, NoReport
  <2>2. letters' = letters \/
        (reporter[c].attempt = MaxRetries + 1 /\ reporter[c].step = "read"
         /\ letters' = letters \cup {reporter[c].attempt})
    BY <1>5, <1>t DEF ExhaustRetries, AbortReport, DeadLetters
  <2>3. letters' \subseteq {MaxRetries + 1}
    BY <2>2, <1>t
  <2>4. letters' # {} => \E e \in scheduled : e.attempt = MaxRetries
    <3>1. CASE letters' = letters
      BY <3>1 DEF RetryInv, RetryLadder
    <3>2. CASE reporter[c].attempt = MaxRetries + 1 /\ reporter[c].step = "read"
      <4>1. MaxRetries + 1 > 1 /\ MaxRetries + 1 - 1 = MaxRetries
        OBVIOUS
      <4> QED BY <3>2, <4>1 DEF RetryInv
    <3> QED BY <2>2, <3>1, <3>2
  <2>5. RetryTypeOK'
    BY <1>t, <2>1, <2>3 DEF RetryTypeOK
  <2>6. RetryLadder'
    BY <2>1, <2>4 DEF RetryInv, RetryLadder
  <2>7. \A o \in Scheduler : reporter'[o].step = "idle" \/ reporter'[o] = reporter[o]
    BY <2>1 DEF NoReport
  <2> QED BY <2>1, <2>5, <2>6, <2>7 DEF RetryInv
<1>6. ASSUME BackoffEnds \/ MarkAttempted \/ WorkflowMoves PROVE RetryInv'
  <2>1. UNCHANGED <<scheduled, letters, reporter, clock>> /\ failed' \in BOOLEAN
    BY <1>6, <1>t DEF BackoffEnds, MarkAttempted, WorkflowMoves
  <2>2. elapsed' \subseteq scheduled
    BY <1>6, <1>t DEF BackoffEnds, MarkAttempted, WorkflowMoves
  <2>3. attempted' = attempted \/ \E e \in scheduled : attempted' = attempted \cup {e.attempt}
    BY <1>6 DEF BackoffEnds, MarkAttempted, WorkflowMoves, DueRetries, LatestRetry
  <2>4. RetryTypeOK'
    BY <1>t, <2>1, <2>2, <2>3 DEF RetryTypeOK
  <2>5. RetryLadder'
    BY <2>1, <2>3 DEF RetryInv, RetryLadder
  <2> QED BY <2>1, <2>4, <2>5 DEF RetryInv
<1> QED BY <1>1, <1>2, <1>3, <1>4, <1>5, <1>6 DEF RetryNext

-----------------------------------------------------------------------------
(* WorkflowReports.  Invariant: what has lasted is found by the parts that *)
(* are past, the state if the row is still the one that was loaded.        *)

\* What a workflow and a report in the writing are made of.
FlowOf ==
  [status : FlowStatus, step : FlowStep, replayed : FlowStatus, logged : FlowStep,
   open : SUBSET {"pending", "escalated"}, checkpoint : BOOLEAN, leased : BOOLEAN]
ReportOf ==
  [at : {"none", "log", "leases", "approvals", "checkpoints", "done"},
   status : FlowStatus, step : FlowStep, found : SUBSET Finding, lasting : SUBSET Finding,
   moved : BOOLEAN, mistaken : SUBSET Finding]

\* The order of the parts of a report.
Past(r) ==
  CASE report[r].at = "leases"      -> {"state"}
    [] report[r].at = "approvals"   -> {"state", "lease"}
    [] report[r].at = "checkpoints" -> {"state", "lease", "paused_unasked", "asked_unpaused"}
    [] report[r].at = "done"        -> Finding
    [] OTHER                        -> {}

\* What has lasted is wrong now, for the status the report loaded too, and is found
\* by the parts that are past; what was loaded is the row, unless it has moved.
Lasts(r) ==
  LET p == report[r] IN
  /\ p.lasting \subseteq Wrong(flow)
  /\ p.at = "none" => p.lasting = {}
  /\ p.lasting \cap Past(r) \subseteq p.found \cup {"state"}
  /\ ~ p.moved => /\ p.at # "none" => RowOf(flow) = RowOf(p)
                  /\ p.lasting \cap Past(r) \subseteq p.found
                  /\ p.mistaken = {}
  /\ "paused_unasked" \in p.lasting => p.status = "paused"
  /\ "asked_unpaused" \in p.lasting => p.status = "active"
  /\ "unrecoverable" \in p.lasting => p.status = "failed"
  /\ "lease" \in p.lasting => p.status \in FlowOver

ReportInv == ReportTypeOK /\ \A r \in Reporter : Lasts(r)

\* What is wrong with a workflow, finding by finding.
LEMMA WrongMeans ==
  ASSUME NEW f
  PROVE  /\ Wrong(f) \subseteq Finding
         /\ "state" \in Wrong(f) <=> RowOf(f) # LogOf(f)
         /\ "paused_unasked" \in Wrong(f) <=> f.status = "paused" /\ f.open = {}
         /\ "asked_unpaused" \in Wrong(f) <=> f.status = "active" /\ f.open # {}
         /\ "unrecoverable" \in Wrong(f) <=> f.status = "failed" /\ ~ f.checkpoint
         /\ "lease" \in Wrong(f) <=> f.status \in FlowOver /\ f.leased
BY DEF Wrong, Finding

\* The invariant holds at the start.
LEMMA ReportInitially == ReportInit => ReportInv
<1> SUFFICES ASSUME ReportInit PROVE ReportInv
  OBVIOUS
<1> USE ReportAssumption
<1>1. ReportTypeOK
  BY DEF ReportInit, ReportTypeOK, NothingReported, FlowStatus, FlowStep, Finding
<1>2. \A r \in Reporter : Lasts(r)
  BY DEF ReportInit, Lasts, NothingReported
<1> QED BY <1>1, <1>2 DEF ReportInv

\* A transaction on the workflow commits while reports are in the writing.
LEMMA CommitsStep ==
  ASSUME ReportInv, NEW f, Commits(f), f \in FlowOf
  PROVE  ReportInv'
<1>1. flow' = f /\ commits' \in Nat
  <2>1. flow' = f /\ commits' = commits + 1 /\ commits \in Nat
    BY DEF Commits, ReportInv, ReportTypeOK
  <2> QED BY <2>1
<1>a. report \in [Reporter -> ReportOf]
  BY DEF ReportInv, ReportTypeOK, ReportOf
<1>2. ASSUME NEW r \in Reporter
      PROVE  /\ report'[r] \in ReportOf
             /\ report'[r].at = report[r].at
             /\ report'[r].status = report[r].status /\ report'[r].step = report[r].step
             /\ report'[r].found = report[r].found
             /\ report'[r].mistaken = report[r].mistaken
             /\ report'[r].lasting = report[r].lasting \cap Wrong(f)
             /\ (~ report'[r].moved) =>
                  (~ report[r].moved /\ (report[r].at = "none" \/ RowOf(report[r]) = RowOf(f)))
  <2> PICK p : p = report[r]
    OBVIOUS
  <2> PICK lasting : lasting = p.lasting \cap Wrong(f)
    OBVIOUS
  <2> PICK moved : moved = IF p.at = "none" \/ RowOf(p) = RowOf(f) THEN p.moved ELSE TRUE
    OBVIOUS
  <2>1. p \in ReportOf
    BY <1>a
  <2>2. /\ lasting \in SUBSET Finding /\ moved \in BOOLEAN
        /\ (~ moved) => (~ p.moved /\ (p.at = "none" \/ RowOf(p) = RowOf(f)))
    BY <2>1 DEF ReportOf
  <2>3. report'[r] = Meanwhile(p, f)
    BY DEF Commits
  <2>4. report'[r] = [p EXCEPT !.lasting = lasting, !.moved = moved]
    BY <2>3 DEF Meanwhile
  <2>5. /\ report'[r].at = p.at /\ report'[r].status = p.status /\ report'[r].step = p.step
        /\ report'[r].found = p.found /\ report'[r].mistaken = p.mistaken
        /\ report'[r].lasting = lasting /\ report'[r].moved = moved
    BY <2>1, <2>4 DEF ReportOf
  <2>6. report'[r] \in ReportOf
    BY <2>1, <2>2, <2>4 DEF ReportOf
  <2> QED BY <2>2, <2>5, <2>6
<1>3. report' \in [Reporter -> ReportOf]
  <2>1. report' = [r \in Reporter |-> report'[r]]
    BY DEF Commits
  <2> QED BY <1>2, <2>1
<1>4. ReportTypeOK'
  BY <1>1, <1>3 DEF ReportTypeOK, ReportOf, FlowOf
<1>5. \A r \in Reporter : Lasts(r)'
  <2> SUFFICES ASSUME NEW r \in Reporter PROVE Lasts(r)'
    OBVIOUS
  <2>1. Past(r)' = Past(r) /\ RowOf(report'[r]) = RowOf(report[r])
    BY <1>2 DEF Past, RowOf
  <2>2. Lasts(r)
    BY DEF ReportInv
  <2> QED BY <1>1, <1>2, <2>1, <2>2 DEF Lasts
<1> QED BY <1>4, <1>5 DEF ReportInv

\* A report goes on from one of its parts to the next.
LEMMA ReadsOn ==
  ASSUME ReportInv, NEW r \in Reporter, NEW now, NEW next, NEW wrong, Reads(r, now, next, wrong)
  PROVE  report[r].at = now /\ report'[r].at = next
<1>a. report[r] \in ReportOf /\ report \in [Reporter -> ReportOf]
  BY DEF ReportInv, ReportTypeOK, ReportOf
<1> PICK found, mistaken : /\ found = report[r].found \cup wrong
                           /\ mistaken = report[r].mistaken \cup (wrong \ Wrong(flow))
  OBVIOUS
<1>b. /\ report' = [report EXCEPT ![r].at = next, ![r].found = found, ![r].mistaken = mistaken]
      /\ report[r].at = now
  BY <1>a DEF Reads
<1> QED BY <1>a, <1>b DEF ReportOf

\* A report has read its next part.
LEMMA ReadsStep ==
  ASSUME ReportInv, NEW r \in Reporter, NEW now, NEW wrong,
         NEW next \in {"leases", "approvals", "checkpoints", "done"}, now # "none",
         Reads(r, now, next, wrong), wrong \subseteq Finding,
         ~ report[r].moved => wrong \subseteq Wrong(flow),
         \A x \in report[r].lasting : x \in Past(r)' =>
           x \in Past(r) \/ x \in wrong \/ (x = "state" /\ report[r].moved)
  PROVE  ReportInv'
<1>1. flow' = flow /\ commits' = commits /\ \A o \in Reporter : o # r => report'[o] = report[o]
  BY DEF Reads, ReportInv, ReportTypeOK
<1>a. report \in [Reporter -> ReportOf] /\ report[r] \in ReportOf
  BY DEF ReportInv, ReportTypeOK, ReportOf
<1> PICK found, mistaken : /\ found = report[r].found \cup wrong
                           /\ mistaken = report[r].mistaken \cup (wrong \ Wrong(flow))
  OBVIOUS
<1>b. found \subseteq Finding /\ mistaken \subseteq Finding
  BY <1>a DEF ReportOf
<1>c. report' = [report EXCEPT ![r].at = next, ![r].found = found, ![r].mistaken = mistaken]
  BY <1>a DEF Reads
<1>d. /\ report'[r].at = next /\ report'[r].lasting = report[r].lasting
      /\ report'[r].status = report[r].status /\ report'[r].step = report[r].step
      /\ report'[r].found = found /\ report'[r].mistaken = mistaken
      /\ report'[r].moved = report[r].moved
  BY <1>a, <1>c DEF ReportOf
<1>e. report' \in [Reporter -> ReportOf]
  BY <1>a, <1>b, <1>c DEF ReportOf
<1>3. ReportTypeOK'
  BY <1>1, <1>e DEF ReportInv, ReportTypeOK, ReportOf
<1>4. Lasts(r) /\ report[r].at # "none" /\ RowOf(report'[r]) = RowOf(report[r])
  BY <1>d DEF ReportInv, Reads, RowOf
<1>5. /\ report[r].lasting \cap Past(r)' \subseteq found \cup {"state"}
      /\ ~ report[r].moved => report[r].lasting \cap Past(r)' \subseteq found /\ mistaken = {}
  BY <1>4 DEF Lasts
<1>6. Lasts(r)'
  BY <1>1, <1>d, <1>4, <1>5 DEF Lasts
<1>7. \A o \in Reporter : o # r => Lasts(o)'
  BY <1>1 DEF ReportInv, Lasts, Past
<1> QED BY <1>3, <1>6, <1>7 DEF ReportInv

\* Every step of the service keeps the invariant.
LEMMA ReportStep == ReportInv /\ [ReportNext]_reportVars => ReportInv'
<1> SUFFICES ASSUME ReportInv, [ReportNext]_reportVars PROVE ReportInv'
  OBVIOUS
<1>t. flow \in FlowOf /\ commits \in Nat /\ report \in [Reporter -> ReportOf]
  BY DEF ReportInv, ReportTypeOK, ReportOf, FlowOf
<1>1. CASE UNCHANGED reportVars
  BY <1>1 DEF ReportInv, reportVars, ReportTypeOK, Lasts, Past
<1>2. ASSUME NEW status \in FlowStatus, NEW late \in BOOLEAN, Moves(status, late) PROVE ReportInv'
  <2> PICK f : f = [flow EXCEPT !.status = status, !.replayed = Replayed(late, @, status)]
    OBVIOUS
  <2>1. f \in FlowOf
    BY <1>t DEF FlowOf, FlowStatus, FlowStep, Replayed
  <2> QED BY <1>2, <2>1, CommitsStep DEF Moves
<1>3. ASSUME NEW step \in FlowStep, NEW late \in BOOLEAN, StepsTo(step, late) PROVE ReportInv'
  <2> PICK f : f = [flow EXCEPT !.step = step, !.logged = Replayed(late, @, step)]
    OBVIOUS
  <2>1. f \in FlowOf
    BY <1>t DEF FlowOf, FlowStatus, FlowStep, Replayed
  <2> QED BY <1>3, <2>1, CommitsStep DEF StepsTo
<1>4. ASSUME NEW late \in BOOLEAN, ResumesFailed(late) PROVE ReportInv'
  <2> PICK f : f = [flow EXCEPT !.status = "active", !.replayed = Replayed(late, @, "active")]
    OBVIOUS
  <2>1. f \in FlowOf
    BY <1>t DEF FlowOf, FlowStatus, FlowStep, Replayed
  <2> QED BY <1>4, <2>1, CommitsStep DEF ResumesFailed
<1>5. CASE RollsBack
  <2> PICK f : f = [flow EXCEPT !.status = "cancelled"]
    OBVIOUS
  <2>1. f \in FlowOf
    BY <1>t DEF FlowOf, FlowStatus, FlowStep
  <2> QED BY <1>5, <2>1, CommitsStep DEF RollsBack
<1>6. ASSUME NEW step \in FlowStep, NEW late \in BOOLEAN, NEW lateStep \in BOOLEAN,
             RestoresCheckpoint(step, late, lateStep)
      PROVE  ReportInv'
  <2> PICK f : f = [flow EXCEPT !.status = "active", !.replayed = Replayed(late, @, "active"),
                !.step = step, !.logged = Replayed(lateStep, @, step)]
    OBVIOUS
  <2>1. f \in FlowOf
    BY <1>t DEF FlowOf, FlowStatus, FlowStep, Replayed
  <2> QED BY <1>6, <2>1, CommitsStep DEF RestoresCheckpoint
<1>7. ASSUME NEW status \in FlowStatus, NEW step \in FlowStep, RestoresSnapshot(status, step) PROVE ReportInv'
  <2> PICK f : f = [flow EXCEPT !.status = status, !.step = step]
    OBVIOUS
  <2>1. f \in FlowOf
    BY <1>t DEF FlowOf, FlowStatus, FlowStep
  <2> QED BY <1>7, <2>1, CommitsStep DEF RestoresSnapshot
<1>8. ASSUME NEW pausing \in BOOLEAN, Asks(pausing) PROVE ReportInv'
  <2> PICK f : f = [flow EXCEPT !.open = @ \cup {"pending"},
                !.status = IF pausing THEN "paused" ELSE @]
    OBVIOUS
  <2>1. f \in FlowOf
    BY <1>t DEF FlowOf, FlowStatus, FlowStep
  <2> QED BY <1>8, <2>1, CommitsStep DEF Asks
<1>9. ASSUME NEW more \in BOOLEAN, Escalates(more) PROVE ReportInv'
  <2> PICK f : f = [flow EXCEPT !.open = (IF more THEN @ ELSE @ \ {"pending"}) \cup {"escalated"}]
    OBVIOUS
  <2>1. f \in FlowOf
    BY <1>t DEF FlowOf, FlowStatus, FlowStep
  <2> QED BY <1>9, <2>1, CommitsStep DEF Escalates
<1>10. ASSUME NEW open, NEW more \in BOOLEAN, NEW status \in {"active", "failed"},
              Decides(open, more, status)
       PROVE  ReportInv'
  <2> PICK f : f = [flow EXCEPT !.open = IF more THEN @ ELSE @ \ {open}, !.status = status]
    OBVIOUS
  <2>1. f \in FlowOf
    BY <1>t DEF FlowOf, FlowStatus, FlowStep
  <2> QED BY <1>10, <2>1, CommitsStep DEF Decides
<1>11. ASSUME NEW open, NEW more \in BOOLEAN, Settles(open, more) PROVE ReportInv'
  <2> PICK f : f = [flow EXCEPT !.open = IF more THEN @ ELSE @ \ {open}]
    OBVIOUS
  <2>1. f \in FlowOf
    BY <1>t DEF FlowOf, FlowStatus, FlowStep
  <2> QED BY <1>11, <2>1, CommitsStep DEF Settles
<1>12. CASE SetsCheckpoint
  <2> PICK f : f = [flow EXCEPT !.checkpoint = TRUE]
    OBVIOUS
  <2>1. f \in FlowOf
    BY <1>t DEF FlowOf, FlowStatus, FlowStep
  <2> QED BY <1>12, <2>1, CommitsStep DEF SetsCheckpoint
<1>13. ASSUME NEW takes \in BOOLEAN, Leases(takes) PROVE ReportInv'
  <2> PICK f : f = [flow EXCEPT !.leased = takes]
    OBVIOUS
  <2>1. f \in FlowOf
    BY <1>t DEF FlowOf, FlowStatus, FlowStep
  <2> QED BY <1>13, <2>1, CommitsStep DEF Leases
<1>14. ASSUME NEW r \in Reporter, StartReport(r) PROVE ReportInv'
  <2> PICK lasting : lasting = Wrong(flow)
    OBVIOUS
  <2>0. lasting \subseteq Finding
    BY WrongMeans
  <2>1. /\ flow' = flow /\ commits' = commits /\ \A o \in Reporter : o # r => report'[o] = report[o]
        /\ report'[r] = [at |-> "log", status |-> flow.status, step |-> flow.step, found |-> {},
                         lasting |-> lasting, moved |-> FALSE, mistaken |-> {}]
        /\ report' \in [Reporter -> ReportOf]
    <3> PICK new : new = [at |-> "log", status |-> flow.status, step |-> flow.step, found |-> {},
                          lasting |-> lasting, moved |-> FALSE, mistaken |-> {}]
      OBVIOUS
    <3>1. new \in ReportOf
      BY <1>t, <2>0 DEF ReportOf, FlowOf
    <3>2. flow' = flow /\ commits' = commits /\ report' = [report EXCEPT ![r] = new]
      BY <1>14 DEF StartReport
    <3> QED BY <3>1, <3>2, <1>t
  <2>2. /\ report'[r].at = "log" /\ report'[r].status = flow.status /\ report'[r].step = flow.step
        /\ report'[r].lasting = lasting /\ report'[r].mistaken = {}
    BY <2>1
  <2>3. Past(r)' = {} /\ RowOf(report'[r]) = RowOf(flow)
    BY <2>2 DEF Past, RowOf
  <2>4. /\ "paused_unasked" \in lasting => flow.status = "paused"
        /\ "asked_unpaused" \in lasting => flow.status = "active"
        /\ "unrecoverable" \in lasting => flow.status = "failed"
        /\ "lease" \in lasting => flow.status \in FlowOver
    BY WrongMeans
  <2>5. Lasts(r)'
    BY <2>1, <2>2, <2>3, <2>4 DEF Lasts
  <2>6. \A o \in Reporter : o # r => Lasts(o)'
    BY <2>1 DEF ReportInv, Lasts, Past
  <2> QED BY <1>t, <2>1, <2>5, <2>6 DEF ReportInv, ReportTypeOK, ReportOf, FlowOf
<1>15. ASSUME NEW r \in Reporter, report[r].at # "none"
       PROVE  /\ Lasts(r) /\ report[r].lasting \subseteq Wrong(flow)
              /\ report[r].lasting \subseteq Finding
              /\ ~ report[r].moved => /\ RowOf(report[r]) = RowOf(flow)
                                      /\ report[r].status = flow.status
  <2>1. Lasts(r)
    BY DEF ReportInv
  <2>2. report[r].lasting \subseteq Wrong(flow)
    BY <2>1 DEF Lasts
  <2>3. ~ report[r].moved => /\ RowOf(report[r]) = RowOf(flow) /\ report[r].status = flow.status
    BY <2>1, <1>15 DEF Lasts, RowOf
  <2> QED BY <2>1, <2>2, <2>3, WrongMeans
<1>16. ASSUME NEW r \in Reporter, CheckReplay(r) PROVE ReportInv'
  <2> PICK wrong : wrong = {x \in {"state"} : RowOf(report[r]) # LogOf(flow)}
    OBVIOUS
  <2>1. Past(r)' = {"state"} /\ wrong \subseteq Finding /\ report[r].at = "log"
    BY <1>16, <1>t DEF CheckReplay, Reads, Past, Finding, ReportOf
  <2>2. ~ report[r].moved => /\ wrong \subseteq Wrong(flow)
                             /\ "state" \in report[r].lasting => "state" \in wrong
    BY <1>15, <2>1, WrongMeans
  <2> QED BY <1>16, <2>1, <2>2, ReadsStep DEF CheckReplay
<1>17. ASSUME NEW r \in Reporter, CheckLease(r) PROVE ReportInv'
  <2> PICK wrong : wrong = {x \in {"lease"} : report[r].status \in FlowOver /\ flow.leased}
    OBVIOUS
  <2>1. /\ Past(r) = {"state"} /\ Past(r)' = {"state", "lease"} /\ wrong \subseteq Finding
        /\ report[r].at = "leases"
    BY <1>17, <1>t DEF CheckLease, Reads, Past, Finding, ReportOf
  <2>2. /\ ~ report[r].moved => wrong \subseteq Wrong(flow)
        /\ "lease" \in report[r].lasting => "lease" \in wrong
    BY <1>15, <2>1, WrongMeans DEF Lasts
  <2> QED BY <1>17, <2>1, <2>2, ReadsStep DEF CheckLease
<1>18. ASSUME NEW r \in Reporter, CheckApprovals(r) PROVE ReportInv'
  <2> PICK wrong : wrong =
        {x \in {"paused_unasked"} : report[r].status = "paused" /\ flow.open = {}}
        \cup {x \in {"asked_unpaused"} : report[r].status = "active" /\ flow.open # {}}
    OBVIOUS
  <2>0. Reads(r, "approvals", "checkpoints", wrong) /\ wrong \subseteq Finding
    BY <1>18 DEF CheckApprovals, Finding
  <2>1. /\ Past(r) = {"state", "lease"} /\ wrong \subseteq Finding /\ report[r].at = "approvals"
        /\ Past(r)' = {"state", "lease", "paused_unasked", "asked_unpaused"}
    BY <2>0, ReadsOn DEF Past
  <2>2. ~ report[r].moved => wrong \subseteq Wrong(flow)
    BY <1>15, <2>1, WrongMeans
  <2>3. "paused_unasked" \in report[r].lasting => "paused_unasked" \in wrong
    BY <1>15, <2>1, WrongMeans DEF Lasts
  <2>4. "asked_unpaused" \in report[r].lasting => "asked_unpaused" \in wrong
    BY <1>15, <2>1, WrongMeans DEF Lasts
  <2> QED BY <1>18, <2>1, <2>2, <2>3, <2>4, ReadsStep DEF CheckApprovals
<1>19. ASSUME NEW r \in Reporter, CheckCheckpoint(r) PROVE ReportInv'
  <2> PICK wrong : wrong = {x \in {"unrecoverable"} : report[r].status = "failed" /\ ~ flow.checkpoint}
    OBVIOUS
  <2>1. /\ Past(r) = {"state", "lease", "paused_unasked", "asked_unpaused"} /\ wrong \subseteq Finding
        /\ Past(r)' = Finding /\ report[r].at = "checkpoints"
    BY <1>19, <1>t DEF CheckCheckpoint, Reads, Past, Finding, ReportOf
  <2>2. /\ ~ report[r].moved => wrong \subseteq Wrong(flow)
        /\ "unrecoverable" \in report[r].lasting => "unrecoverable" \in wrong
    BY <1>15, <2>1, WrongMeans DEF Lasts
  <2>3. \A x \in report[r].lasting : x \in Past(r)' => x \in Past(r) \/ x \in wrong
    BY <2>1, <2>2 DEF Finding
  <2> QED BY <1>19, <2>1, <2>2, <2>3, ReadsStep DEF CheckCheckpoint
<1>20. ASSUME NEW r \in Reporter, EndReport(r) PROVE ReportInv'
  <2>1. /\ flow' = flow /\ commits' = commits /\ \A o \in Reporter : o # r => report'[o] = report[o]
        /\ report'[r] = NothingReported
        /\ report' \in [Reporter -> ReportOf]
    <3>1. NothingReported \in ReportOf
      BY DEF NothingReported, FlowStatus, FlowStep, ReportOf
    <3>2. flow' = flow /\ commits' = commits /\ report' = [report EXCEPT ![r] = NothingReported]
      BY <1>20 DEF EndReport
    <3> QED BY <3>1, <3>2, <1>t
  <2>2. Lasts(r)'
    BY <2>1 DEF Lasts, NothingReported
  <2>3. \A o \in Reporter : o # r => Lasts(o)'
    BY <2>1 DEF ReportInv, Lasts, Past
  <2> QED BY <1>t, <2>1, <2>2, <2>3 DEF ReportInv, ReportTypeOK, ReportOf, FlowOf
<1> QED BY <1>1, <1>2, <1>3, <1>4, <1>5, <1>6, <1>7, <1>8, <1>9, <1>10, <1>11, <1>12, <1>13,
           <1>14, <1>16, <1>17, <1>18, <1>19, <1>20 DEF ReportNext

\* What the suite asks follows from the invariant.
LEMMA ReportImplies == ReportInv => FaultsAreReported
<1> SUFFICES ASSUME ReportInv, NEW r \in Reporter, report[r].at = "done"
             PROVE  /\ report[r].lasting \subseteq report[r].found \cup {"state"}
                    /\ ~ report[r].moved =>
                         report[r].lasting \subseteq report[r].found /\ report[r].mistaken = {}
  BY DEF FaultsAreReported
<1>1. Past(r) = Finding /\ Lasts(r) /\ report[r].lasting \subseteq Finding
  BY DEF Past, ReportInv, ReportTypeOK
<1> QED BY <1>1 DEF Lasts

-----------------------------------------------------------------------------
(* WorkflowEventOrder.  Invariant: what the log replays to in the order it *)
(* was written is the row; with the time of the insert as created_at, it is *)
(* read back in that order.                                                *)

\* A row of the event log, and the log with what may still be appended to it.
StampedEvent ==
  [type : EventType, status : Status \cup {NoStatus}, step : Step \cup {NoStep}, created_at : Nat]

OrderTypes ==
  /\ row \in [status : Status, step : Step \cup {NoStep}]
  /\ events \in Seq(StampedEvent)
  /\ \A i \in 1..Len(events) : events[i].created_at < dbClock
  /\ \A t \in txns : /\ t.sess \in Session /\ t.type \in DOMAIN Target
                     /\ t.step \in Step \cup {NoStep}
                     /\ t.began \in Nat /\ t.began < dbClock
  /\ dbClock \in Nat

\* There is a last event of a kind as soon as there is one.
LastIsThere(s, types) ==
  Positions(s, types) # {} =>
    /\ LastPos(s, types) \in Positions(s, types)
    /\ \A j \in Positions(s, types) : j <= LastPos(s, types)

\* The log, in the order it was written, replays to the row.
WrittenInOrder ==
  /\ LastIsThere(events, DOMAIN STATUS_EVENTS) /\ LastIsThere(events, STEP_EVENTS)
  /\ ReplayStatus(events) = row.status
  /\ ReplayStep(events) = row.step

\* With the time of the insert as created_at, it is also the order of created_at.
StampsGrow ==
  EventClock = "clock_timestamp" =>
    \A i, j \in 1..Len(events) : i < j => events[i].created_at < events[j].created_at

OrderInv == OrderTypes /\ WrittenInOrder /\ StampsGrow

\* Appending an event of the kind makes it the last one of the kind.
LEMMA StampIn ==
  ASSUME NEW s \in Seq(StampedEvent), NEW e \in StampedEvent, NEW types, e.type \in types
  PROVE  /\ Positions(Append(s, e), types) # {}
         /\ Append(s, e)[LastPos(Append(s, e), types)] = e
         /\ LastIsThere(Append(s, e), types)
<1> DEFINE a == Append(s, e)
           n == Len(s) + 1
<1>1. /\ a \in Seq(StampedEvent) /\ Len(a) = n /\ n \in Nat /\ a[n] = e
  OBVIOUS
<1>2. n \in Positions(a, types) /\ \A j \in Positions(a, types) : j <= n
  BY <1>1 DEF Positions
<1>3. LastPos(a, types) = n
  BY <1>2, <1>1, SMTT(20) DEF LastPos, Positions
<1> QED
  BY <1>1, <1>2, <1>3 DEF LastIsThere

\* Appending an event of another kind leaves the last one of the kind alone.
LEMMA StampOut ==
  ASSUME NEW s \in Seq(StampedEvent), NEW e \in StampedEvent, NEW types, e.type \notin types,
         LastIsThere(s, types)
  PROVE  /\ Positions(Append(s, e), types) = Positions(s, types)
         /\ LastPos(Append(s, e), types) = LastPos(s, types)
         /\ Positions(s, types) # {} =>
              Append(s, e)[LastPos(s, types)] = s[LastPos(s, types)]
         /\ LastIsThere(Append(s, e), types)
<1> DEFINE a == Append(s, e)
<1>1. /\ Len(a) = Len(s) + 1 /\ Len(s) \in Nat /\ a[Len(s) + 1] = e
      /\ \A i \in 1..Len(s) : a[i] = s[i]
  OBVIOUS
<1>2. Positions(a, types) = Positions(s, types)
  BY <1>1 DEF Positions
<1>3. LastPos(a, types) = LastPos(s, types)
  BY <1>2 DEF LastPos
<1>4. Positions(s, types) # {} => LastPos(s, types) \in 1..Len(s)
  BY DEF LastIsThere, Positions
<1> QED
  BY <1>1, <1>2, <1>3, <1>4 DEF LastIsThere

\* What the log replays to after one more event, given what it replayed to before.
LEMMA ReplayStamp ==
  ASSUME NEW s \in Seq(StampedEvent), NEW e \in StampedEvent,
         LastIsThere(s, DOMAIN STATUS_EVENTS), LastIsThere(s, STEP_EVENTS)
  PROVE  /\ ReplayStatus(Append(s, e))
              = IF e.type \in DOMAIN STATUS_EVENTS THEN STATUS_EVENTS[e.type] ELSE ReplayStatus(s)
         /\ ReplayStep(Append(s, e)) = IF e.type \in STEP_EVENTS THEN e.step ELSE ReplayStep(s)
         /\ LastIsThere(Append(s, e), DOMAIN STATUS_EVENTS)
         /\ LastIsThere(Append(s, e), STEP_EVENTS)
<1>1. /\ ReplayStatus(Append(s, e))
            = IF e.type \in DOMAIN STATUS_EVENTS THEN STATUS_EVENTS[e.type] ELSE ReplayStatus(s)
      /\ LastIsThere(Append(s, e), DOMAIN STATUS_EVENTS)
  <2>1. CASE e.type \in DOMAIN STATUS_EVENTS
    BY <2>1, StampIn DEF ReplayStatus
  <2>2. CASE e.type \notin DOMAIN STATUS_EVENTS
    BY <2>2, StampOut DEF ReplayStatus
  <2> QED BY <2>1, <2>2
<1>2. /\ ReplayStep(Append(s, e)) = IF e.type \in STEP_EVENTS THEN e.step ELSE ReplayStep(s)
      /\ LastIsThere(Append(s, e), STEP_EVENTS)
  <2>1. CASE e.type \in STEP_EVENTS
    BY <2>1, StampIn DEF ReplayStep
  <2>2. CASE e.type \notin STEP_EVENTS
    BY <2>2, StampOut DEF ReplayStep
  <2> QED BY <2>1, <2>2
<1> QED BY <1>1, <1>2

\* The invariant holds at the start.
LEMMA OrderInitially == OrderInit => OrderInv
<1> SUFFICES ASSUME OrderInit PROVE OrderInv
  OBVIOUS
<1> PICK e : e = Stamped(Evt("started"), 0)
  OBVIOUS
<1>1. /\ row = [status |-> "active", step |-> NoStep] /\ events = <<e>>
      /\ txns = {} /\ dbClock = 1
  BY DEF OrderInit
<1>2. e \in StampedEvent /\ e.type = "started" /\ e.created_at = 0
  BY DEF Stamped, Evt, StampedEvent, EventType, STATUS_EVENTS
<1>3. /\ events \in Seq(StampedEvent) /\ Len(events) = 1 /\ events[1] = e
      /\ \A i \in 1..Len(events) : i = 1
  BY <1>1, <1>2
<1>4. OrderTypes
  BY <1>1, <1>2, <1>3 DEF OrderTypes, Status
<1>5. Positions(events, DOMAIN STATUS_EVENTS) = {1} /\ Positions(events, STEP_EVENTS) = {}
  BY <1>2, <1>3 DEF Positions, STATUS_EVENTS, STEP_EVENTS
<1>6. LastPos(events, DOMAIN STATUS_EVENTS) = 1
  BY <1>5 DEF LastPos
<1>7. STATUS_EVENTS["started"] = "active"
  BY DEF STATUS_EVENTS
<1>8. WrittenInOrder
  BY <1>1, <1>2, <1>3, <1>5, <1>6, <1>7 DEF WrittenInOrder, LastIsThere, ReplayStatus, ReplayStep
<1> QED BY <1>3, <1>4, <1>8 DEF OrderInv, StampsGrow

\* The types of the rows of the log.
LEMMA StampsTyped ==
  ASSUME OrderTypes
  PROVE  /\ Len(events) \in Nat /\ DOMAIN events = 1..Len(events)
         /\ \A i \in 1..Len(events) : events[i] \in StampedEvent
         /\ \A i \in 1..Len(events) : events[i].created_at \in Nat
<1>1. events \in Seq(StampedEvent)
  BY DEF OrderTypes
<1>2. /\ Len(events) \in Nat /\ DOMAIN events = 1..Len(events)
      /\ \A i \in 1..Len(events) : events[i] \in StampedEvent
  BY <1>1
<1> QED BY <1>2 DEF StampedEvent

\* Every step of the service keeps the invariant.
LEMMA OrderStep == OrderInv /\ [OrderNext]_orderVars => OrderInv'
<1> SUFFICES ASSUME OrderInv, [OrderNext]_orderVars PROVE OrderInv'
  OBVIOUS
<1>t. OrderTypes
  BY DEF OrderInv
<1>1. CASE UNCHANGED orderVars
  BY <1>1 DEF orderVars, OrderInv, OrderTypes, WrittenInOrder, StampsGrow
<1>2. ASSUME NEW s \in Session, NEW type \in DOMAIN Target, NEW step \in Step \cup {NoStep},
             BeginTransaction(s, type, step)
      PROVE  OrderInv'
  <2>1. /\ row' = row /\ events' = events /\ dbClock' = dbClock + 1
        /\ txns' = txns \cup {[sess |-> s, type |-> type, step |-> step, began |-> dbClock]}
    BY <1>2 DEF BeginTransaction
  <2>2. OrderTypes'
    <3>1. \A i \in 1..Len(events) : events[i].created_at \in Nat /\ events[i].created_at < dbClock
      BY <1>t, StampsTyped DEF OrderTypes
    <3>2. dbClock \in Nat
      BY <1>t DEF OrderTypes
    <3>3. \A i \in 1..Len(events) : events[i].created_at < dbClock + 1
      BY <3>1, <3>2
    <3>4. \A t \in txns' : /\ t.sess \in Session /\ t.type \in DOMAIN Target
                           /\ t.step \in Step \cup {NoStep}
                           /\ t.began \in Nat /\ t.began < dbClock'
      BY <2>1, <1>t DEF OrderTypes
    <3> QED BY <1>t, <2>1, <3>2, <3>3, <3>4 DEF OrderTypes
  <2>3. WrittenInOrder' /\ StampsGrow'
    BY <2>1 DEF OrderInv, WrittenInOrder, StampsGrow
  <2> QED BY <2>2, <2>3 DEF OrderInv
<1>3. ASSUME NEW t \in txns, CommitTransaction(t) PROVE OrderInv'
  <2> PICK e : e = Stamped(StepEvt(t.type, t.step), CreatedAt(t))
    OBVIOUS
  <2>0. /\ t.type \in {"advanced", "paused", "resumed", "completed", "failed", "cancelled"}
        /\ t.step \in Step \cup {NoStep} /\ t.began \in Nat /\ t.began < dbClock
        /\ dbClock \in Nat
    BY <1>t DEF OrderTypes, Target
  <2>1. /\ e.type = t.type /\ e.step = t.step /\ e.created_at \in Nat /\ e.created_at <= dbClock
        /\ EventClock = "clock_timestamp" => e.created_at = dbClock
    BY <2>0 DEF Stamped, StepEvt, CreatedAt
  <2>2. e \in StampedEvent
    BY <2>0, <2>1 DEF Stamped, StepEvt, StampedEvent, EventType, STATUS_EVENTS, STEP_EVENTS
  <2>3. /\ events' = Append(events, e) /\ dbClock' = dbClock + 1 /\ txns' = txns \ {t}
        /\ row'.status = Target[t.type]
        /\ row'.step = IF t.type = "advanced" THEN t.step ELSE row.step
        /\ t.type = "advanced" => row.status = "active"
        /\ row' \in [status : Status, step : Step \cup {NoStep}]
    <3>1. Target[t.type] \in Status
      BY <2>0 DEF Target, Status
    <3> QED BY <1>3, <1>t, <2>0, <3>1 DEF CommitTransaction, OrderTypes
  <2>4. /\ events \in Seq(StampedEvent) /\ Len(events') = Len(events) + 1 /\ Len(events) \in Nat
        /\ events' \in Seq(StampedEvent)
        /\ events'[Len(events) + 1] = e /\ \A i \in 1..Len(events) : events'[i] = events[i]
    BY <1>t, <2>2, <2>3 DEF OrderTypes
  <2>5. OrderTypes'
    <3>1. \A i \in 1..Len(events') : events'[i].created_at < dbClock'
      <4> TAKE i \in 1..Len(events')
      <4>1. CASE i = Len(events) + 1
        BY <4>1, <2>0, <2>1, <2>3, <2>4
      <4>2. CASE i \in 1..Len(events)
        <5>1. events[i].created_at < dbClock /\ events[i].created_at \in Nat
          BY <4>2, <1>t, StampsTyped DEF OrderTypes
        <5> QED BY <5>1, <4>2, <2>0, <2>3, <2>4
      <4> QED BY <4>1, <4>2, <2>4
    <3>2. \A u \in txns' : /\ u.sess \in Session /\ u.type \in DOMAIN Target
                           /\ u.step \in Step \cup {NoStep}
                           /\ u.began \in Nat /\ u.began < dbClock'
      BY <1>t, <2>0, <2>3 DEF OrderTypes
    <3> QED BY <3>1, <3>2, <2>0, <2>3, <2>4 DEF OrderTypes
  <2>6. WrittenInOrder'
    <3>0. /\ LastIsThere(events, DOMAIN STATUS_EVENTS) /\ LastIsThere(events, STEP_EVENTS)
          /\ ReplayStatus(events) = row.status /\ ReplayStep(events) = row.step
      BY DEF OrderInv, WrittenInOrder
    <3>1. /\ ReplayStatus(Append(events, e))
              = IF e.type \in DOMAIN STATUS_EVENTS THEN STATUS_EVENTS[e.type] ELSE row.status
          /\ ReplayStep(Append(events, e)) = IF e.type \in STEP_EVENTS THEN e.step ELSE row.step
          /\ LastIsThere(Append(events, e), DOMAIN STATUS_EVENTS)
          /\ LastIsThere(Append(events, e), STEP_EVENTS)
      BY <3>0, <2>2, <2>4, ReplayStamp
    <3>2. /\ e.type \in STEP_EVENTS <=> t.type = "advanced"
          /\ e.type \in DOMAIN STATUS_EVENTS <=> t.type # "advanced"
          /\ t.type # "advanced" => Target[t.type] = STATUS_EVENTS[e.type]
          /\ Target["advanced"] = "active"
      BY <2>0, <2>1 DEF STATUS_EVENTS, STEP_EVENTS, Target
    <3> QED BY <3>1, <3>2, <2>1, <2>3 DEF WrittenInOrder
  <2>7. StampsGrow'
    <3> SUFFICES ASSUME EventClock = "clock_timestamp", NEW i \in 1..Len(events'),
                        NEW j \in 1..Len(events'), i < j
                 PROVE  events'[i].created_at < events'[j].created_at
      BY DEF StampsGrow
    <3>1. i \in 1..Len(events) /\ events[i].created_at < dbClock
      BY <1>t, <2>4 DEF OrderTypes
    <3>2. CASE j = Len(events) + 1
      BY <3>1, <3>2, <2>1, <2>4
    <3>3. CASE j \in 1..Len(events)
      BY <3>1, <3>3, <2>4 DEF OrderInv, StampsGrow
    <3> QED BY <3>2, <3>3, <2>4
  <2> QED BY <2>5, <2>6, <2>7 DEF OrderInv
<1>4. ASSUME NEW t \in txns, Abort(t) PROVE OrderInv'
  <2>1. row' = row /\ events' = events /\ dbClock' = dbClock /\ txns' = txns \ {t}
    BY <1>4 DEF Abort
  <2>2. OrderTypes'
    BY <2>1, <1>t DEF OrderTypes
  <2>3. WrittenInOrder' /\ StampsGrow'
    BY <2>1 DEF OrderInv, WrittenInOrder, StampsGrow
  <2> QED BY <2>2, <2>3 DEF OrderInv
<1>5. "advanced" \in DOMAIN Target
  BY DEF Target
<1> QED BY <1>1, <1>2, <1>3, <1>4, <1>5 DEF OrderNext

\* It is read back as it was written.
LEMMA ReadInOrder ==
  ASSUME OrderInv, EventClock = "clock_timestamp"
  PROVE  get_by_workflow = events
<1>a. OrderTypes
  BY DEF OrderInv
<1>t. /\ events \in Seq(StampedEvent) /\ Len(events) \in Nat /\ DOMAIN events = 1..Len(events)
      /\ \A i \in 1..Len(events) : events[i].created_at \in Nat
      /\ \A i, j \in 1..Len(events) : i < j => events[i].created_at < events[j].created_at
  BY <1>a, StampsTyped DEF OrderInv, OrderTypes, StampsGrow
<1>1. ASSUME NEW k \in 1..Len(events) PROVE Preceding(k) = k - 1
  <2>1. {j \in DOMAIN events : events[j].created_at < events[k].created_at} = 1..(k - 1)
    <3>1. ASSUME NEW j \in 1..Len(events) PROVE events[j].created_at < events[k].created_at <=> j < k
      <4>1. CASE j < k
        BY <4>1, <1>t
      <4>2. CASE k < j
        <5>1. events[k].created_at < events[j].created_at
          BY <4>2, <1>t
        <5> QED BY <5>1, <4>2, <1>t
      <4>3. CASE j = k
        BY <4>3, <1>t
      <4> QED BY <4>1, <4>2, <4>3
    <3> QED BY <3>1, <1>t
  <2>2. Cardinality(1..(k - 1)) = k - 1
    <3>1. k - 1 \in Nat
      BY <1>t
    <3> QED BY <3>1, CountedTo
  <2> QED BY <2>1, <2>2 DEF Preceding
<1> DEFINE Place(n) == CHOOSE i \in DOMAIN events : Preceding(i) = n - 1
<1>2. ASSUME NEW n \in DOMAIN events PROVE Place(n) = n
  <2>1. n \in DOMAIN events /\ Preceding(n) = n - 1
    BY <1>1, <1>t
  <2>2. \A i \in DOMAIN events : Preceding(i) = n - 1 => i = n
    BY <1>1, <1>t
  <2> QED BY <2>1, <2>2
<1>3. get_by_workflow = [n \in DOMAIN events |-> events[Place(n)]]
  BY DEF get_by_workflow
<1> HIDE DEF Place
<1>4. [n \in DOMAIN events |-> events[Place(n)]] = [n \in DOMAIN events |-> events[n]]
  BY <1>2
<1> QED BY <1>3, <1>4, <1>t

\* What the suite asks follows from the invariant.
LEMMA OrderImplies ==
  OrderInv => OrderTypeOK /\ (EventClock = "clock_timestamp" => ReplayDerivesState)
<1>1. OrderInv => OrderTypeOK
  BY StampsTyped DEF OrderInv, OrderTypes, OrderTypeOK, StampedEvent
<1>2. OrderInv /\ EventClock = "clock_timestamp" => ReplayDerivesState
  BY ReadInOrder DEF OrderInv, WrittenInOrder, ReplayDerivesState
<1> QED BY <1>1, <1>2

-----------------------------------------------------------------------------
(* EventStore.  Invariant: no two rows, committed or flushed, share an id  *)
(* or a number, and whoever sees a row sees every row numbered below it.   *)

\* All the rows there are, committed or not.
Rows == domainEvents \cup UNION {inserted[w] : w \in Writer}

\* The unique keys of the table, over the rows that are flushed as well.
KeysUnique ==
  \A r, q \in Rows :
    r.event_id = q.event_id \/ (r.channel = q.channel /\ r.seq_num = q.seq_num) => r = q

\* Every number up to n is taken in ch by one of the rows.
FilledTo(found, ch, n) == \A k \in 1..n : \E q \in found : q.channel = ch /\ q.seq_num = k

\* Below a row that is seen every number is taken by a row that is seen.
NoGaps ==
  /\ \A r \in domainEvents : r.seq_num >= 1 /\ FilledTo(domainEvents, r.channel, r.seq_num)
  /\ \A w \in Writer :
       /\ \A r \in inserted[w] : r.seq_num >= 1 /\ FilledTo(Visible(w), r.channel, r.seq_num)
       /\ numbered[w] # <<>> =>
            numbered[w][2] >= 1 /\ FilledTo(Visible(w), numbered[w][1], numbered[w][2] - 1)

RowsFinite == IsFiniteSet(domainEvents) /\ \A w \in Writer : IsFiniteSet(inserted[w])

StoreInv == StoreTypeOK /\ KeysUnique /\ NoGaps /\ RowsFinite /\ ReplayLosesNothing

\* The invariant holds at the start.
LEMMA StoreInitially == StoreInit => StoreInv
<1> SUFFICES ASSUME StoreInit PROVE StoreInv
  OBVIOUS
<1>1. StoreTypeOK
  BY DEF StoreInit, StoreTypeOK
<1>2. Rows = {}
  BY DEF StoreInit, Rows
<1>3. KeysUnique
  BY <1>2 DEF KeysUnique
<1>4. NoGaps
  BY DEF StoreInit, NoGaps
<1>5. RowsFinite
  BY FS_EmptySet DEF StoreInit, RowsFinite
<1>6. ReplayLosesNothing
  BY DEF StoreInit, ReplayLosesNothing
<1> QED BY <1>1, <1>3, <1>4, <1>5, <1>6 DEF StoreInv

\* The rows of a channel after the first s, ranked.
LEMMA RankTells ==
  ASSUME StoreInv, NEW ch \in LogChannel, NEW s \in Nat, NEW r \in After(ch, s)
  PROVE  Cardinality({q \in After(ch, s) : q.seq_num < r.seq_num}) = r.seq_num - s - 1
<1> DEFINE T == {q \in After(ch, s) : q.seq_num < r.seq_num}
           S == (s + 1)..(r.seq_num - 1)
           f == [q \in T |-> q.seq_num]
<1>1. \A q \in domainEvents : q.seq_num \in Nat
  BY DEF StoreInv, StoreTypeOK, Row
<1>2. /\ r \in domainEvents /\ r.channel = ch /\ r.seq_num > s /\ r.seq_num \in Nat
  BY <1>1 DEF After
<1>3. IsFiniteSet(T)
  BY FS_Subset DEF StoreInv, RowsFinite, After
<1>4. f \in [T -> S]
  BY <1>1, <1>2 DEF After
<1>5. \A p, q \in T : f[p] = f[q] => p = q
  <2> SUFFICES ASSUME NEW p \in T, NEW q \in T, p.seq_num = q.seq_num PROVE p = q
    OBVIOUS
  <2>1. p \in Rows /\ q \in Rows /\ p.channel = q.channel
    BY DEF Rows, After
  <2> QED BY <2>1 DEF StoreInv, KeysUnique
<1>6. \A k \in S : \E q \in T : f[q] = k
  <2> TAKE k \in S
  <2>1. k \in 1..r.seq_num /\ s < k /\ k < r.seq_num
    BY <1>2
  <2>2. PICK q \in domainEvents : q.channel = ch /\ q.seq_num = k
    BY <2>1, <1>2 DEF StoreInv, NoGaps, FilledTo
  <2>3. q \in T
    BY <2>1, <2>2 DEF After
  <2> QED BY <2>2, <2>3
<1>7. ExistsBijection(T, S)
  <2>1. f \in Bijection(T, S)
    <3> HIDE DEF T, S
    <3> QED BY <1>4, <1>5, <1>6 DEF Bijection, Injection, Surjection, IsInjective
  <2> QED BY <2>1 DEF ExistsBijection
<1>8. Cardinality(S) = Cardinality(T)
  <2> HIDE DEF T, S
  <2> QED BY <1>3, <1>7, FS_Bijection
<1>9. Cardinality(S) = r.seq_num - s - 1
  <2>1. s + 1 \in Int /\ r.seq_num - 1 \in Int
    BY <1>2
  <2>2. Cardinality(S) = IF s + 1 > r.seq_num - 1 THEN 0 ELSE (r.seq_num - 1) - (s + 1) + 1
    BY <2>1, FS_Interval
  <2> QED BY <2>2, <1>2
<1> QED BY <1>8, <1>9

\* A page after the first s rows of a channel holds the rows that follow.
LEMMA PageFollows ==
  ASSUME StoreInv, NEW ch \in LogChannel, NEW cursor, NEW page \in Pages(ch, cursor),
         StartSeq(ch, cursor) \in Nat
  PROVE  /\ page \in Seq(Row)
         /\ \A i \in 1..Len(page) : /\ page[i] \in domainEvents /\ page[i].channel = ch
                                    /\ page[i].seq_num = StartSeq(ch, cursor) + i
<1> PICK s \in Nat : s = StartSeq(ch, cursor)
  OBVIOUS
<1>1. PICK n \in 0..PageLimit : page \in [1..n -> After(ch, s)]
  BY Zenon DEF Pages
<1>2. n \in Nat
  BY StoreAssumption
<1>3. After(ch, s) \subseteq domainEvents /\ domainEvents \subseteq Row
  BY DEF After, StoreInv, StoreTypeOK
<1>4. page \in Seq(Row) /\ Len(page) = n /\ DOMAIN page = 1..n
  BY <1>1, <1>2, <1>3
<1>5. Page(After(ch, s), page)
  BY DEF Pages
<1>6. ASSUME NEW i \in 1..n
      PROVE  /\ page[i] \in domainEvents /\ page[i].channel = ch
             /\ page[i].seq_num = s + i
  <2>1. page[i] \in After(ch, s) /\ Cardinality({q \in After(ch, s) : q.seq_num < page[i].seq_num}) = i - 1
    BY <1>4, <1>5 DEF Page
  <2>2. page[i].seq_num - s - 1 = i - 1
    BY <2>1, RankTells
  <2>3. page[i].seq_num \in Nat
    BY <2>1, <1>3 DEF Row
  <2> QED BY <2>1, <2>2, <2>3, <1>2, <1>3 DEF After
<1> QED BY <1>4, <1>6

\* The rows and the numbers as they are.
LEMMA RowsRest ==
  ASSUME StoreInv, UNCHANGED <<domainEvents, inserted, numbered>>
  PROVE  KeysUnique' /\ NoGaps' /\ RowsFinite'
<1>1. KeysUnique'
  BY DEF StoreInv, KeysUnique, Rows
<1>2. NoGaps'
  <2>1. /\ domainEvents' = domainEvents /\ numbered' = numbered /\ inserted' = inserted
        /\ \A v \in Writer : Visible(v)' = Visible(v)
    BY DEF Visible
  <2> QED BY <2>1 DEF StoreInv, NoGaps
<1>3. RowsFinite'
  BY DEF StoreInv, RowsFinite
<1> QED BY <1>1, <1>2, <1>3

\* Every step of the service keeps the invariant.
LEMMA StoreStep == StoreInv /\ [StoreNext]_storeVars => StoreInv'
<1> SUFFICES ASSUME StoreInv, [StoreNext]_storeVars PROVE StoreInv'
  OBVIOUS
<1>t. StoreTypeOK /\ KeysUnique /\ NoGaps /\ RowsFinite /\ ReplayLosesNothing
  BY DEF StoreInv
<1>1. CASE UNCHANGED storeVars
  <2>1. KeysUnique' /\ NoGaps' /\ RowsFinite'
    BY <1>1, RowsRest DEF storeVars
  <2>2. StoreTypeOK' /\ ReplayLosesNothing'
    BY <1>1, <1>t DEF storeVars, StoreTypeOK, ReplayLosesNothing
  <2> QED BY <2>1, <2>2 DEF StoreInv
<1>2. ASSUME NEW w \in Writer, NEW ch \in LogChannel, LockChannel(w, ch) PROVE StoreInv'
  <2>1. UNCHANGED <<domainEvents, inserted, numbered, replayed>>
        /\ locked' \in [Writer -> SUBSET LogChannel]
    BY <1>2, <1>t DEF LockChannel, StoreTypeOK
  <2>2. KeysUnique' /\ NoGaps' /\ RowsFinite'
    BY <2>1, RowsRest
  <2>3. StoreTypeOK' /\ ReplayLosesNothing'
    BY <2>1, <1>t DEF StoreTypeOK, ReplayLosesNothing
  <2> QED BY <2>2, <2>3 DEF StoreInv
<1>3. ASSUME NEW w \in Writer, NEW ch \in LogChannel, NEW n \in 1..Cardinality(EventId) + 1,
             ReadSeqNum(w, ch, n)
      PROVE  StoreInv'
  <2>0. n \in Nat /\ n >= 1
    BY FS_CardinalityType, StoreAssumption
  <2>1. /\ UNCHANGED <<domainEvents, inserted, locked, replayed>>
        /\ numbered' = [numbered EXCEPT ![w] = <<ch, n>>] /\ NextSeqNum(w, ch, n)
    BY <1>3 DEF ReadSeqNum
  <2>2. StoreTypeOK'
    BY <2>0, <2>1, <1>t DEF StoreTypeOK
  <2>3. FilledTo(Visible(w), ch, n - 1)
    <3>1. CASE n = 1
      BY <3>1 DEF FilledTo
    <3>2. CASE n # 1
      <4>1. PICK r \in Visible(w) : r.channel = ch /\ r.seq_num = n - 1
        BY <3>2, <2>1 DEF NextSeqNum
      <4> QED BY <4>1, <1>t DEF NoGaps, FilledTo, Visible
    <3> QED BY <3>1, <3>2
  <2>4. NoGaps'
    <3>1. /\ numbered'[w] = <<ch, n>> /\ \A v \in Writer : v # w => numbered'[v] = numbered[v]
      BY <2>1, <1>t DEF StoreTypeOK
    <3>2. /\ domainEvents' = domainEvents /\ \A v \in Writer : Visible(v)' = Visible(v)
          /\ \A v \in Writer : inserted'[v] = inserted[v]
      BY <2>1 DEF Visible
    <3>3. \A v \in Writer : numbered'[v] # <<>> =>
            numbered'[v][2] >= 1 /\ FilledTo(Visible(v), numbered'[v][1], numbered'[v][2] - 1)
      BY <3>1, <2>0, <2>3, <1>t DEF NoGaps
    <3> QED BY <3>2, <3>3, <1>t DEF NoGaps
  <2> QED BY <2>1, <2>2, <2>4, <1>t DEF StoreInv, KeysUnique, Rows, RowsFinite, ReplayLosesNothing
<1>4. ASSUME NEW w \in Writer, NEW id \in EventId, InsertEvent(w, id) PROVE StoreInv'
  <2> PICK new : new = [channel |-> numbered[w][1], seq_num |-> numbered[w][2], event_id |-> id]
    OBVIOUS
  <2>1. /\ numbered[w] # <<>>
        /\ ~Conflicts(new, UNION {inserted[v] : v \in Writer \ {w}})
        /\ ~Conflicts(new, Visible(w))
        /\ inserted' = [inserted EXCEPT ![w] = @ \cup {new}]
        /\ numbered' = [numbered EXCEPT ![w] = <<>>]
        /\ UNCHANGED <<domainEvents, locked, replayed>>
    BY <1>4 DEF InsertEvent
  <2>2. new \in Row /\ new.channel = numbered[w][1] /\ new.seq_num = numbered[w][2]
    BY <2>1, <1>t DEF StoreTypeOK, Row
  <2>3. /\ inserted'[w] = inserted[w] \cup {new} /\ numbered'[w] = <<>>
        /\ \A v \in Writer : v # w => inserted'[v] = inserted[v] /\ numbered'[v] = numbered[v]
    BY <2>1, <1>t DEF StoreTypeOK
  <2>4. StoreTypeOK'
    BY <2>1, <2>2, <1>t DEF StoreTypeOK
  <2>5. Rows' = Rows \cup {new}
    <3>1. \A v \in Writer : inserted'[v] \subseteq inserted[v] \cup {new} /\ inserted[v] \subseteq inserted'[v]
      BY <2>3
    <3>2. new \in inserted'[w]
      BY <2>3
    <3> QED BY <3>1, <3>2, <2>1 DEF Rows
  <2>6. KeysUnique'
    <3>1. \A r \in Rows : ~ (r.event_id = new.event_id
                              \/ (r.channel = new.channel /\ r.seq_num = new.seq_num))
      <4> TAKE r \in Rows
      <4>1. r \in Visible(w) \/ r \in UNION {inserted[v] : v \in Writer \ {w}}
        BY DEF Rows, Visible
      <4> QED BY <4>1, <2>1 DEF Conflicts
    <3> QED BY <3>1, <2>5, <1>t DEF KeysUnique
  <2>7. NoGaps'
    <3>1. FilledTo(Visible(w)', new.channel, new.seq_num) /\ new.seq_num >= 1
      <4>1. new.seq_num \in Nat /\ new.seq_num >= 1
            /\ FilledTo(Visible(w), new.channel, new.seq_num - 1)
        BY <2>1, <2>2, <1>t DEF NoGaps, Row
      <4>2. Visible(w)' = Visible(w) \cup {new}
        BY <2>1, <2>3 DEF Visible
      <4>3. \A k \in 1..new.seq_num : k = new.seq_num \/ k \in 1..(new.seq_num - 1)
        BY <4>1
      <4> QED BY <4>1, <4>2, <4>3 DEF FilledTo
    <3>2. \A v \in Writer : Visible(v) \subseteq Visible(v)'
      BY <2>1, <2>3 DEF Visible
    <3>3. \A v \in Writer : \A r \in inserted'[v] :
            r.seq_num >= 1 /\ FilledTo(Visible(v)', r.channel, r.seq_num)
      BY <3>1, <3>2, <2>3, <1>t DEF NoGaps, FilledTo
    <3>4. \A v \in Writer : numbered'[v] # <<>> =>
            numbered'[v][2] >= 1 /\ FilledTo(Visible(v)', numbered'[v][1], numbered'[v][2] - 1)
      BY <3>2, <2>3, <1>t DEF NoGaps, FilledTo
    <3>5. \A r \in domainEvents' : r.seq_num >= 1 /\ FilledTo(domainEvents', r.channel, r.seq_num)
      BY <2>1, <1>t DEF NoGaps
    <3> QED BY <3>3, <3>4, <3>5 DEF NoGaps
  <2>8. RowsFinite'
    BY <2>1, <2>3, <1>t, FS_AddElement DEF RowsFinite
  <2>9. ReplayLosesNothing'
    BY <2>1, <1>t DEF ReplayLosesNothing
  <2> QED BY <2>4, <2>6, <2>7, <2>8, <2>9 DEF StoreInv
<1>5. ASSUME NEW w \in Writer, EndTransaction(w),
             domainEvents' = domainEvents \/ domainEvents' = domainEvents \cup inserted[w]
      PROVE  StoreInv'
  <2>1. /\ inserted'[w] = {} /\ numbered'[w] = <<>>
        /\ \A v \in Writer : v # w => inserted'[v] = inserted[v] /\ numbered'[v] = numbered[v]
        /\ inserted' \in [Writer -> SUBSET Row] /\ locked' \in [Writer -> SUBSET LogChannel]
        /\ numbered' \in [Writer -> {<<>>} \cup LogChannel \X Nat] /\ replayed' = replayed
        /\ domainEvents' \subseteq Row /\ domainEvents \subseteq domainEvents'
    BY <1>5, <1>t DEF StoreTypeOK, EndTransaction
  <2>2. StoreTypeOK'
    BY <2>1, <1>t DEF StoreTypeOK
  <2>3. Rows' \subseteq Rows
    BY <2>1, <1>5 DEF Rows
  <2>4. KeysUnique'
    BY <2>3, <1>t DEF KeysUnique
  <2>5. \A v \in Writer : v # w => Visible(v) \subseteq Visible(v)'
    BY <2>1 DEF Visible
  <2>6. \A r \in domainEvents' : r.seq_num >= 1 /\ FilledTo(domainEvents', r.channel, r.seq_num)
    BY <1>5, <1>t DEF NoGaps, Visible, FilledTo
  <2>7. \A v \in Writer :
       /\ \A r \in inserted'[v] : r.seq_num >= 1 /\ FilledTo(Visible(v)', r.channel, r.seq_num)
       /\ numbered'[v] # <<>> =>
            numbered'[v][2] >= 1 /\ FilledTo(Visible(v)', numbered'[v][1], numbered'[v][2] - 1)
    BY <2>1, <2>5, <1>t DEF NoGaps, FilledTo
  <2>8. NoGaps'
    BY <2>6, <2>7 DEF NoGaps
  <2>9. RowsFinite'
    <3>1. IsFiniteSet(domainEvents) /\ IsFiniteSet(domainEvents \cup inserted[w])
      BY <1>t, FS_Union DEF RowsFinite
    <3>2. \A v \in Writer : IsFiniteSet(inserted'[v])
      BY <2>1, <1>t, FS_EmptySet DEF RowsFinite
    <3> QED BY <1>5, <3>1, <3>2 DEF RowsFinite
  <2>10. ReplayLosesNothing'
    BY <2>1, <1>t DEF ReplayLosesNothing
  <2> QED BY <2>2, <2>4, <2>8, <2>9, <2>10 DEF StoreInv
<1>6. ASSUME NEW ch \in LogChannel, NEW client \in Seq(Row), NEW cursor,
             NEW page \in Pages(ch, cursor), StartSeq(ch, cursor) = Len(client),
             \A i \in 1..Len(client) : /\ client[i] \in domainEvents /\ client[i].channel = ch
                                     /\ client[i].seq_num = i,
             replayed' = [replayed EXCEPT ![ch] = client \o page],
             UNCHANGED <<domainEvents, inserted, locked, numbered>>
      PROVE  StoreInv'
  <2>1. /\ page \in Seq(Row) /\ Len(client) \in Nat /\ Len(page) \in Nat
        /\ \A i \in 1..Len(page) : /\ page[i] \in domainEvents /\ page[i].channel = ch
                                   /\ page[i].seq_num = Len(client) + i
    <3>1. Len(client) \in Nat /\ StartSeq(ch, cursor) \in Nat
      BY <1>6
    <3>2. /\ page \in Seq(Row)
          /\ \A i \in 1..Len(page) : /\ page[i] \in domainEvents /\ page[i].channel = ch
                                     /\ page[i].seq_num = StartSeq(ch, cursor) + i
      BY <1>6, <3>1, PageFollows
    <3> QED BY <3>1, <3>2, <1>6
  <2> PICK longer : longer = client \o page
    OBVIOUS
  <2>2. /\ longer \in Seq(Row) /\ Len(longer) = Len(client) + Len(page)
        /\ \A i \in 1..Len(client) : longer[i] = client[i]
        /\ \A i \in 1..Len(page) : longer[Len(client) + i] = page[i]
    BY <2>1
  <2>3. \A i \in 1..Len(longer) : /\ longer[i] \in domainEvents /\ longer[i].channel = ch
                                /\ longer[i].seq_num = i
    <3> TAKE i \in 1..Len(longer)
    <3>1. CASE i \in 1..Len(client)
      BY <3>1, <2>2, <1>6
    <3>2. CASE i \notin 1..Len(client)
      <4>1. i - Len(client) \in 1..Len(page) /\ Len(client) + (i - Len(client)) = i
        BY <3>2, <2>1, <2>2
      <4>2. longer[i] = page[i - Len(client)]
        BY <4>1, <2>2
      <4> QED BY <4>1, <4>2, <2>1
    <3> QED BY <3>1, <3>2
  <2>4. StoreTypeOK'
    BY <1>6, <2>2, <1>t DEF StoreTypeOK
  <2>5. /\ replayed'[ch] = longer /\ \A c \in LogChannel : c # ch => replayed'[c] = replayed[c]
    BY <1>6, <1>t DEF StoreTypeOK
  <2>6. ReplayLosesNothing'
    BY <2>3, <2>5, <1>6, <1>t DEF ReplayLosesNothing
  <2>7. KeysUnique' /\ NoGaps' /\ RowsFinite'
    BY <1>6, RowsRest
  <2> QED BY <2>4, <2>6, <2>7 DEF StoreInv
<1>7. ASSUME NEW ch \in LogChannel PROVE StartSeq(ch, "none") = 0
  BY StoreAssumption, <1>t DEF StartSeq, StoreTypeOK, Row
<1>8. ASSUME NEW ch \in LogChannel, ReplayAgain(ch) PROVE StoreInv'
  <2>1. PICK page \in Pages(ch, "none") : replayed' = [replayed EXCEPT ![ch] = page]
    BY <1>8 DEF ReplayAgain
  <2>2. UNCHANGED <<domainEvents, inserted, locked, numbered>>
    BY <1>8 DEF ReplayAgain
  <2>3. page \in Seq(Row)
    BY <1>7, PageFollows
  <2>4. << >> \o page = page /\ << >> \in Seq(Row) /\ Len(<< >>) = 0
    BY <2>3
  <2>5. \A i \in 1..Len(<< >>) : /\ << >>[i] \in domainEvents /\ << >>[i].channel = ch
                                  /\ << >>[i].seq_num = i
    BY <2>4
  <2> QED BY <2>1, <2>2, <2>4, <2>5, <1>6, <1>7
<1>9. ASSUME NEW ch \in LogChannel, ReplayNext(ch) PROVE StoreInv'
  <2> PICK client : client = replayed[ch]
    OBVIOUS
  <2> PICK cursor : cursor = IF client = <<>> THEN "none" ELSE client[Len(client)].event_id
    OBVIOUS
  <2>1. PICK page \in Pages(ch, cursor) : replayed' = [replayed EXCEPT ![ch] = client \o page]
    BY <1>9 DEF ReplayNext
  <2>2. UNCHANGED <<domainEvents, inserted, locked, numbered>>
    BY <1>9 DEF ReplayNext
  <2>3. /\ client \in Seq(Row) /\ Len(client) \in Nat
        /\ \A i \in 1..Len(client) : /\ client[i] \in domainEvents /\ client[i].channel = ch
                                   /\ client[i].seq_num = i
    BY <1>t DEF StoreTypeOK, ReplayLosesNothing
  <2>4. StartSeq(ch, cursor) = Len(client)
    <3>1. CASE client = <<>>
      BY <3>1, <1>7
    <3>2. CASE client # <<>>
      <4>1. Len(client) \in 1..Len(client)
        BY <3>2, <2>3
      <4> PICK last : last = client[Len(client)]
        OBVIOUS
      <4>2. /\ last \in domainEvents /\ last.channel = ch /\ last.event_id = cursor
            /\ last.seq_num = Len(client)
        BY <4>1, <2>3, <3>2
      <4>3. \A r \in domainEvents : r.channel = ch /\ r.event_id = cursor => r = last
        BY <4>2, <1>t DEF KeysUnique, Rows
      <4>4. (CHOOSE r \in domainEvents : r.channel = ch /\ r.event_id = cursor) = last
        BY <4>2, <4>3
      <4> QED BY <4>2, <4>4 DEF StartSeq
    <3> QED BY <3>1, <3>2
  <2> QED BY <2>1, <2>2, <2>3, <2>4, <1>6
<1>10. ASSUME NEW w \in Writer, CommitEvents(w) \/ RollbackEvents(w) PROVE StoreInv'
  BY <1>10, <1>5 DEF CommitEvents, RollbackEvents
<1> QED BY <1>1, <1>2, <1>3, <1>4, <1>8, <1>9, <1>10 DEF StoreNext

\* What the suite asks follows from the invariant.
LEMMA StoreImplies == StoreInv => StoreTypeOK /\ ReplayLosesNothing
BY DEF StoreInv

-----------------------------------------------------------------------------
(* Transcripts.  Invariant: the number a stream's transaction has read is  *)
(* above those of its own events, and its row is ahead of the committed one. *)

\* What a stream writes to the log, and what its open transaction holds.
StreamEventType ==
  {"stream.created", "stream.started", "stream.completed", "stream.interrupted",
   "stream.resumed", "stream.cancelled", "stream.failed", "stream.partial_updated",
   "stream.chunk_committed"}

StreamWork ==
  [at : {"indexed", "flushed", "numbered"}, type : StreamEventType, row : StreamRow,
   index : -1 .. MaxChunkIndex, sequence : -1 .. MaxSequence]

LoggedRow == [status : TranscriptStatus \cup StreamStatus \cup {"chunk_added"}, last : -1 .. MaxChunkIndex]

\* The types of the state.
TranscriptTypes ==
  /\ transcript \in TranscriptStatus
  /\ chunks \subseteq 0 .. MaxChunkIndex
  /\ streams \in [Stream -> StreamRow]
  /\ streamWork \in [Stream -> {IdleWork} \cup StreamWork]
  /\ transcriptLog \subseteq [sequence : 0 .. MaxSequence, of : Stream \cup {"transcript"}, row : LoggedRow]

\* What an open transaction of a stream is about to write.
WorkAhead ==
  \A s \in Stream : streamWork[s] # IdleWork =>
    /\ streamWork[s].row.last \in chunks \cup {-1, streamWork[s].index}
    /\ streams[s].last <= streamWork[s].row.last
    /\ streamWork[s].at = "numbered" =>
         /\ streamWork[s].sequence >= 0
         /\ \A e \in transcriptLog : e.of = s => e.sequence < streamWork[s].sequence

TranscriptInv == TranscriptTypes /\ WorkAhead /\ LogTellsState

\* A stream without a transaction, and one within.
LEMMA WorkTyped ==
  ASSUME TranscriptTypes, NEW s \in Stream
  PROVE  /\ streamWork[s] = IdleWork \/ streamWork[s] \in StreamWork
         /\ streamWork[s] # IdleWork <=> streamWork[s].at \in {"indexed", "flushed", "numbered"}
<1>1. streamWork[s] = IdleWork \/ streamWork[s] \in StreamWork
  BY DEF TranscriptTypes
<1>2. IdleWork.at = "idle"
  BY DEF IdleWork
<1>3. streamWork[s] \in StreamWork => streamWork[s].at \in {"indexed", "flushed", "numbered"}
  BY DEF StreamWork
<1> QED BY <1>1, <1>2, <1>3

\* The invariant holds at the start.
LEMMA TranscriptInitially == TranscriptInit => TranscriptInv
<1> SUFFICES ASSUME TranscriptInit PROVE TranscriptInv
  OBVIOUS
<1>0. 0 \in 0 .. MaxSequence /\ -1 \in -1 .. MaxChunkIndex
  BY TranscriptAssumption
<1> PICK newRow : newRow = [status |-> "created", last |-> -1]
  OBVIOUS
<1> PICK e : e = [sequence |-> 0, of |-> "transcript", row |-> newRow]
  OBVIOUS
<1>1. newRow \in LoggedRow /\ [status |-> "absent", last |-> -1] \in StreamRow
  BY <1>0 DEF LoggedRow, TranscriptStatus, StreamRow, StreamStatus
<1>2. e \in [sequence : 0 .. MaxSequence, of : Stream \cup {"transcript"}, row : LoggedRow]
  BY <1>0, <1>1
<1>3. transcriptLog = {e} /\ transcript = "created" /\ e.row.status = "created" /\ e.of \notin Stream
  BY TranscriptAssumption DEF TranscriptInit
<1>4. /\ streams \in [Stream -> StreamRow] /\ \A s \in Stream : streams[s].last = -1
      /\ \A s \in Stream : streamWork[s] = IdleWork
      /\ streamWork \in [Stream -> {IdleWork} \cup StreamWork] /\ chunks = {}
  BY <1>1 DEF TranscriptInit
<1>5. TranscriptTypes
  BY <1>2, <1>3, <1>4 DEF TranscriptTypes, TranscriptStatus
<1>6. WorkAhead
  BY <1>4 DEF WorkAhead
<1>7. LogTellsState
  BY <1>3, <1>4 DEF LogTellsState, LastOf
<1> QED BY <1>5, <1>6, <1>7 DEF TranscriptInv

\* An event of the transcript itself, numbered after all others.
LEMMA TranscriptLogs ==
  ASSUME TranscriptInv, NEW status \in TranscriptStatus \cup {"chunk_added"}, LogTranscript(status),
         UNCHANGED <<streams, streamWork>>, chunks \subseteq chunks', chunks' \subseteq 0 .. MaxChunkIndex,
         transcript' = IF status = "chunk_added" THEN transcript ELSE status
  PROVE  TranscriptInv'
<1>t. TranscriptTypes /\ WorkAhead /\ LogTellsState
  BY DEF TranscriptInv
<1> PICK newRow : newRow = [status |-> status, last |-> -1]
  OBVIOUS
<1>1. PICK n \in 0 .. MaxSequence :
        NextSequence(n) /\ transcriptLog' = transcriptLog \cup
                            {[sequence |-> n, of |-> "transcript", row |-> newRow]}
  BY DEF LogTranscript
<1> PICK e : e = [sequence |-> n, of |-> "transcript", row |-> newRow]
  OBVIOUS
<1>2. /\ transcriptLog' = transcriptLog \cup {e} /\ e.of \notin Stream /\ e.of = "transcript"
      /\ e.row.status = status /\ e.sequence = n
      /\ n \in Int /\ \A f \in transcriptLog : f.sequence < n
      /\ \A f \in transcriptLog : f.sequence \in Int
  BY <1>1, <1>t, TranscriptAssumption DEF NextSequence, TranscriptTypes
<1>3. newRow \in LoggedRow
  <2>1. -1 \in -1 .. MaxChunkIndex
    BY TranscriptAssumption
  <2> QED BY <2>1 DEF LoggedRow
<1>4. e \in [sequence : 0 .. MaxSequence, of : Stream \cup {"transcript"}, row : LoggedRow]
  BY <1>3
<1>5. transcript' \in TranscriptStatus
  BY <1>t DEF TranscriptTypes
<1>6. TranscriptTypes'
  BY <1>2, <1>4, <1>5, <1>t DEF TranscriptTypes
<1>7. WorkAhead'
  BY <1>2, <1>t DEF WorkAhead
<1>8. \A s \in Stream : {f \in transcriptLog : f.of = s}' = {f \in transcriptLog : f.of = s}
  BY <1>2
<1>9. \A s \in Stream :
       /\ \A f \in LastOf({g \in transcriptLog : g.of = s})' : f.row = streams'[s]
       /\ streams'[s].last \in chunks' \cup {-1}
       /\ \A f \in transcriptLog' : f.of = s => f.row.last <= streams'[s].last
  BY <1>2, <1>8, <1>t DEF LogTellsState, LastOf
<1>10. \A f \in LastOf({g \in transcriptLog : g.of = "transcript" /\ g.row.status # "chunk_added"})' :
         f.row.status = transcript'
  <2> DEFINE S == {g \in transcriptLog : g.of = "transcript" /\ g.row.status # "chunk_added"}
  <2>1. CASE status = "chunk_added"
    <3>1. S' = S
      BY <1>2, <2>1
    <3> QED BY <3>1, <2>1, <1>t DEF LogTellsState, LastOf
  <2>2. CASE status # "chunk_added"
    <3>1. e \in S' /\ \A f \in S' : f # e => f.sequence \in Int /\ f.sequence < e.sequence
      BY <1>2, <2>2
    <3>2. \A f \in LastOf(S)' : f = e
      BY <3>1, <1>2 DEF LastOf
    <3> QED BY <3>2, <2>2, <1>2
  <2> QED BY <2>1, <2>2
<1>11. LogTellsState'
  BY <1>9, <1>10 DEF LogTellsState
<1> QED BY <1>6, <1>7, <1>11 DEF TranscriptInv

\* A stream's transaction begins, goes on or ends without a commit.
LEMMA WorkMoves ==
  ASSUME TranscriptInv, NEW s \in Stream, NEW w \in {IdleWork} \cup StreamWork,
         streamWork' = [streamWork EXCEPT ![s] = w],
         UNCHANGED <<transcript, chunks, transcriptLog, streams>>,
         w # IdleWork =>
           /\ w.row.last \in chunks \cup {-1, w.index}
           /\ streams[s].last <= w.row.last
           /\ w.at = "numbered" => w.sequence >= 0 /\ \A e \in transcriptLog : e.sequence < w.sequence
  PROVE  TranscriptInv'
<1>1. TranscriptTypes'
  BY DEF TranscriptInv, TranscriptTypes
<1>2. streamWork'[s] = w /\ \A o \in Stream : o # s => streamWork'[o] = streamWork[o]
  BY DEF TranscriptInv, TranscriptTypes
<1>3. WorkAhead'
  BY <1>2 DEF TranscriptInv, WorkAhead
<1>4. LogTellsState'
  BY DEF TranscriptInv, LogTellsState, LastOf
<1> QED BY <1>1, <1>3, <1>4 DEF TranscriptInv

\* The operations on a stream that only move its status.
LEMMA StreamMoves ==
  ASSUME TranscriptInv, NEW s \in Stream, NEW from, NEW type \in StreamEventType, NEW to \in StreamStatus,
         MoveStream(s, from, type, to)
  PROVE  TranscriptInv'
<1> PICK newRow : newRow = [streams[s] EXCEPT !.status = to]
  OBVIOUS
<1> PICK w : w = [at |-> "flushed", type |-> type, row |-> newRow, index |-> -1, sequence |-> -1]
  OBVIOUS
<1>1. newRow \in StreamRow /\ newRow.last = streams[s].last /\ streams[s].last \in chunks \cup {-1}
      /\ streams[s].last \in Int
  BY DEF TranscriptInv, TranscriptTypes, StreamRow, LogTellsState
<1>2. w \in StreamWork
  <2>1. -1 \in -1 .. MaxChunkIndex /\ -1 \in -1 .. MaxSequence
    BY TranscriptAssumption
  <2> QED BY <1>1, <2>1 DEF StreamWork
<1>3. /\ streamWork' = [streamWork EXCEPT ![s] = w]
      /\ UNCHANGED <<transcript, chunks, transcriptLog, streams>>
  BY DEF MoveStream, BeginWork, streamUnchanged
<1>4. /\ w.row.last \in chunks \cup {-1, w.index}
      /\ streams[s].last <= w.row.last /\ w.at # "numbered"
  <2>1. w.row = newRow /\ w.at = "flushed"
    OBVIOUS
  <2>2. w.row.last = streams[s].last
    BY <1>1, <2>1, Zenon
  <2>3. w.row.last \in chunks \cup {-1, w.index}
    BY <1>1, <2>2
  <2>4. streams[s].last <= w.row.last
    BY <1>1, <2>2
  <2> QED BY <2>1, <2>3, <2>4
<1> QED BY <1>2, <1>3, <1>4, WorkMoves

\* Every step of the service keeps the invariant.
LEMMA TranscriptStep == TranscriptInv /\ [TranscriptNext]_transcriptVars => TranscriptInv'
<1> SUFFICES ASSUME TranscriptInv, [TranscriptNext]_transcriptVars PROVE TranscriptInv'
  OBVIOUS
<1>t. TranscriptTypes /\ WorkAhead /\ LogTellsState
  BY DEF TranscriptInv
<1>n. -1 \in -1 .. MaxChunkIndex /\ -1 \in -1 .. MaxSequence /\ 0 .. MaxChunkIndex \subseteq -1 .. MaxChunkIndex
      /\ 0 .. MaxSequence \subseteq -1 .. MaxSequence
  BY TranscriptAssumption
<1>1. CASE UNCHANGED transcriptVars
  BY <1>1, <1>t DEF transcriptVars, TranscriptInv, TranscriptTypes, WorkAhead, LogTellsState, LastOf
<1>2. ASSUME NEW to \in {"active", "paused", "completed", "failed", "archived"}, TransitionTranscript(to)
      PROVE  TranscriptInv'
  <2>1. to \in TranscriptStatus /\ to # "chunk_added" /\ chunks \subseteq 0 .. MaxChunkIndex
    BY <1>t DEF TranscriptStatus, TranscriptTypes
  <2>2. transcript' = to /\ LogTranscript(to) /\ UNCHANGED <<chunks, streams, streamWork>>
    BY <1>2 DEF TransitionTranscript
  <2>3. transcript' = IF to = "chunk_added" THEN transcript ELSE to
    BY <2>1, <2>2
  <2> QED BY <2>1, <2>2, <2>3, TranscriptLogs
<1>3. ASSUME NEW i \in 0 .. MaxChunkIndex, NEW explicit \in BOOLEAN, AppendChunk(i, explicit)
      PROVE  TranscriptInv'
  <2>1. /\ chunks' = chunks \cup {i} /\ LogTranscript("chunk_added")
        /\ UNCHANGED <<transcript, streams, streamWork>>
    BY <1>3 DEF AppendChunk
  <2>2. chunks \subseteq chunks' /\ chunks' \subseteq 0 .. MaxChunkIndex
    BY <2>1, <1>t DEF TranscriptTypes
  <2> PICK status : status = "chunk_added"
    OBVIOUS
  <2>3. transcript' = IF status = "chunk_added" THEN transcript ELSE status
    BY <2>1
  <2> QED BY <2>1, <2>2, <2>3, TranscriptLogs
<1>4. ASSUME NEW s \in Stream, NEW i \in 0 .. MaxChunkIndex, CommitChunk(s, i)
      PROVE  TranscriptInv'
  <2> PICK newRow : newRow = [streams[s] EXCEPT !.last = i]
    OBVIOUS
  <2> PICK w : w = [at |-> "indexed", type |-> "stream.chunk_committed", row |-> newRow, index |-> i,
                    sequence |-> -1]
    OBVIOUS
  <2>1. newRow \in StreamRow /\ newRow.last = i
    BY <1>t, <1>n DEF TranscriptTypes, StreamRow
  <2>2. w \in StreamWork
    BY <2>1, <1>n DEF StreamWork, StreamEventType
  <2>3. /\ streamWork' = [streamWork EXCEPT ![s] = w] /\ NextChunkIndex(i)
        /\ UNCHANGED <<transcript, chunks, transcriptLog, streams>>
    BY <1>4 DEF CommitChunk, BeginWork, streamUnchanged
  <2>4. streams[s].last <= i
    BY <2>3, <1>t DEF LogTellsState, NextChunkIndex, TranscriptTypes
  <2>5. w.row.last = i /\ w.index = i /\ w.at # "numbered"
    BY <2>1
  <2> QED BY <2>2, <2>3, <2>4, <2>5, WorkMoves
<1>5. ASSUME NEW s \in Stream,
             CreateStream(s) \/ StartStream(s) \/ CompleteStream(s) \/ InterruptStream(s)
               \/ ResumeStream(s) \/ CancelStream(s) \/ FailStream(s)
      PROVE  TranscriptInv'
  <2>1. \E from \in {{"absent"}, {"pending"}, {"active"}, {"interrupted"}, OpenStreams},
           type \in StreamEventType, to \in StreamStatus : MoveStream(s, from, type, to)
    <3>1. {"stream.created", "stream.started", "stream.completed", "stream.interrupted",
           "stream.resumed", "stream.cancelled", "stream.failed"} \subseteq StreamEventType
      BY DEF StreamEventType
    <3>2. {"pending", "active", "completed", "interrupted", "cancelled", "failed"} \subseteq StreamStatus
      BY DEF StreamStatus
    <3> QED BY <1>5, <3>1, <3>2, Zenon DEF CreateStream, StartStream, CompleteStream, InterruptStream,
                      ResumeStream, CancelStream, FailStream
  <2> QED BY <2>1, StreamMoves
<1>6. ASSUME NEW s \in Stream, ReceivePartial(s) PROVE TranscriptInv'
  <2> PICK w : w = [at |-> "flushed", type |-> "stream.partial_updated", row |-> streams[s], index |-> -1,
                    sequence |-> -1]
    OBVIOUS
  <2>1. streams[s] \in StreamRow /\ streams[s].last \in chunks \cup {-1} /\ streams[s].last \in Int
    BY <1>t DEF TranscriptTypes, LogTellsState, StreamRow
  <2>2. w \in StreamWork
    BY <2>1, <1>n DEF StreamWork, StreamEventType
  <2>3. /\ streamWork' = [streamWork EXCEPT ![s] = w]
        /\ UNCHANGED <<transcript, chunks, transcriptLog, streams>>
    BY <1>6 DEF ReceivePartial, BeginWork, streamUnchanged
  <2>4. /\ w.row.last \in chunks \cup {-1, w.index}
        /\ streams[s].last <= w.row.last /\ w.at # "numbered"
    BY <2>1
  <2> QED BY <2>2, <2>3, <2>4, WorkMoves
<1>7. ASSUME NEW s \in Stream, InsertChunk(s) \/ \E n \in 0 .. MaxSequence : ReadSequence(s, n)
      PROVE  TranscriptInv'
  <2>1. streamWork[s] \in StreamWork /\ streamWork[s] # IdleWork
    BY <1>7, <1>t, WorkTyped DEF InsertChunk, ReadSequence
  <2>2. /\ streamWork[s].row.last \in chunks \cup {-1, streamWork[s].index}
        /\ streams[s].last <= streamWork[s].row.last
    BY <2>1, <1>t DEF WorkAhead
  <2>3. CASE InsertChunk(s)
    <3> PICK w : w = [streamWork[s] EXCEPT !.at = "flushed"]
      OBVIOUS
    <3>1. /\ streamWork' = [streamWork EXCEPT ![s] = w]
          /\ UNCHANGED <<transcript, chunks, transcriptLog, streams>>
      BY <2>3, <1>t DEF InsertChunk, streamUnchanged, TranscriptTypes
    <3>2. /\ w \in StreamWork /\ w.row = streamWork[s].row /\ w.index = streamWork[s].index
          /\ w.at # "numbered"
      BY <2>1 DEF StreamWork
    <3> QED BY <3>1, <3>2, <2>2, WorkMoves
  <2>4. ASSUME NEW n \in 0 .. MaxSequence, ReadSequence(s, n) PROVE TranscriptInv'
    <3> PICK w : w = [streamWork[s] EXCEPT !.at = "numbered", !.sequence = n]
      OBVIOUS
    <3>1. /\ streamWork' = [streamWork EXCEPT ![s] = w]
          /\ UNCHANGED <<transcript, chunks, transcriptLog, streams>>
      BY <2>4, <1>t DEF ReadSequence, streamUnchanged, TranscriptTypes
    <3>2. /\ w \in StreamWork /\ w.row = streamWork[s].row /\ w.index = streamWork[s].index
          /\ w.sequence = n
      BY <2>1, <1>n DEF StreamWork
    <3>3. n >= 0 /\ \A e \in transcriptLog : e.sequence < n
      BY <2>4, TranscriptAssumption DEF ReadSequence, NextSequence
    <3> QED BY <3>1, <3>2, <3>3, <2>2, WorkMoves
  <2> QED BY <1>7, <2>3, <2>4
<1>8. ASSUME NEW s \in Stream, RollbackStream(s) PROVE TranscriptInv'
  <2>1. /\ streamWork' = [streamWork EXCEPT ![s] = IdleWork]
        /\ UNCHANGED <<transcript, chunks, transcriptLog, streams>>
    BY <1>8 DEF RollbackStream, streamUnchanged
  <2> QED BY <2>1, WorkMoves
<1>9. ASSUME NEW s \in Stream, CommitStream(s) PROVE TranscriptInv'
  <2> PICK work : work = streamWork[s]
    OBVIOUS
  <2> PICK e : e = [sequence |-> work.sequence, of |-> s, row |-> work.row]
    OBVIOUS
  <2>1. /\ transcriptLog' = transcriptLog \cup {e}
        /\ streams' = [streams EXCEPT ![s] = work.row]
        /\ chunks' = chunks \cup ({work.index} \ {-1})
        /\ streamWork' = [streamWork EXCEPT ![s] = IdleWork]
        /\ transcript' = transcript /\ work.at = "numbered"
    BY <1>9 DEF CommitStream
  <2>2. work \in StreamWork /\ work # IdleWork
    BY <2>1, <1>t, WorkTyped
  <2>3. /\ work.row \in StreamRow /\ work.index \in -1 .. MaxChunkIndex
        /\ work.sequence \in -1 .. MaxSequence
        /\ work.row.last \in -1 .. MaxChunkIndex /\ work.row \in LoggedRow
    BY <2>2 DEF StreamWork, StreamRow, LoggedRow
  <2>4. /\ work.row.last \in chunks \cup {-1, work.index}
        /\ streams[s].last <= work.row.last
        /\ work.sequence >= 0
        /\ \A f \in transcriptLog : f.of = s => f.sequence < work.sequence
    BY <2>1, <2>2, <1>t DEF WorkAhead
  <2>5. /\ streams'[s] = work.row /\ streamWork'[s] = IdleWork
        /\ \A o \in Stream : o # s => streams'[o] = streams[o] /\ streamWork'[o] = streamWork[o]
        /\ streams' \in [Stream -> StreamRow]
        /\ streamWork' \in [Stream -> {IdleWork} \cup StreamWork]
    BY <2>1, <2>3, <1>t DEF TranscriptTypes
  <2>6. chunks \subseteq chunks' /\ chunks' \subseteq 0 .. MaxChunkIndex
    <3>1. {work.index} \ {-1} \subseteq 0 .. MaxChunkIndex
      BY <2>3
    <3> QED BY <2>1, <3>1, <1>t DEF TranscriptTypes
  <2>7. /\ e \in [sequence : 0 .. MaxSequence, of : Stream \cup {"transcript"}, row : LoggedRow]
        /\ e.of = s /\ e.row = work.row /\ e.sequence = work.sequence
    BY <2>3, <2>4, TranscriptAssumption
  <2>8. TranscriptTypes'
    BY <2>1, <2>5, <2>6, <2>7, <1>t DEF TranscriptTypes
  <2>9. WorkAhead'
    BY <2>1, <2>5, <2>6, <2>7, <1>t DEF WorkAhead
  <2>10. \A f \in LastOf({g \in transcriptLog : g.of = "transcript" /\ g.row.status # "chunk_added"})' :
           f.row.status = transcript'
    <3>1. {g \in transcriptLog : g.of = "transcript" /\ g.row.status # "chunk_added"}'
            = {g \in transcriptLog : g.of = "transcript" /\ g.row.status # "chunk_added"}
      BY <2>1, <2>7, TranscriptAssumption
    <3> QED BY <3>1, <2>1, <1>t DEF LogTellsState, LastOf
  <2>11. /\ \A f \in LastOf({g \in transcriptLog : g.of = s})' : f.row = streams'[s]
         /\ streams'[s].last \in chunks' \cup {-1}
         /\ \A f \in transcriptLog' : f.of = s => f.row.last <= streams'[s].last
    <3>1. \A f \in transcriptLog : f.sequence \in Int /\ f.row.last \in Int
      BY <1>t DEF TranscriptTypes, LoggedRow
    <3>2. \A f \in LastOf({g \in transcriptLog : g.of = s})' : f = e
      BY <2>1, <2>3, <2>4, <2>7, <3>1 DEF LastOf
    <3>3. \A f \in transcriptLog : f.of = s => f.row.last <= streams[s].last
      BY <1>t DEF LogTellsState
    <3>4. streams[s].last \in Int /\ work.row.last \in Int
      BY <2>3, <1>t DEF TranscriptTypes, StreamRow
    <3>5. \A f \in transcriptLog' : f.of = s => f.row.last <= streams'[s].last
      BY <2>1, <2>4, <2>5, <2>7, <3>1, <3>3, <3>4
    <3> QED BY <2>1, <2>4, <2>5, <2>7, <3>2, <3>5
  <2>12. ASSUME NEW o \in Stream, o # s
         PROVE  /\ \A f \in LastOf({g \in transcriptLog : g.of = o})' : f.row = streams'[o]
                /\ streams'[o].last \in chunks' \cup {-1}
                /\ \A f \in transcriptLog' : f.of = o => f.row.last <= streams'[o].last
    <3>1. {g \in transcriptLog : g.of = o}' = {g \in transcriptLog : g.of = o}
      BY <2>1, <2>7, <2>12
    <3> QED BY <3>1, <2>1, <2>5, <2>6, <2>7, <2>12, <1>t DEF LogTellsState, LastOf
  <2>13. LogTellsState'
    BY <2>10, <2>11, <2>12 DEF LogTellsState
  <2> QED BY <2>8, <2>9, <2>13 DEF TranscriptInv
<1> QED BY <1>1, <1>2, <1>3, <1>4, <1>5, <1>6, <1>7, <1>8, <1>9
     DEF TranscriptNext, StartTranscript, ResumeTranscript, PauseTranscript, CompleteTranscript,
         FailTranscript, ArchiveTranscript

\* What the suite asks follows from the invariant.
LEMMA TranscriptImplies == TranscriptInv => TranscriptTypeOK /\ LogTellsState
BY DEF TranscriptInv, TranscriptTypes, TranscriptTypeOK, StreamWork

-----------------------------------------------------------------------------
(* TranscriptReaders.  Invariant: a consumer's batch leaves out no chunk it *)
(* has passed but one that a caller placed below, what a page owes ranks   *)
(* beyond it, and nobody writes a chunk while the index is built.          *)

\* How many of S come before i.
Rank(S, i) == Cardinality({j \in S : j < i})

\* Every set of chunks is finite.
LEMMA IndexesFinite ==
  ASSUME NEW S, S \subseteq 0..MaxIndex
  PROVE  IsFiniteSet(S)
<1>1. IsFiniteSet(0..MaxIndex)
  BY FS_Interval, ReadersAssumption
<1> QED BY <1>1, FS_Subset

\* A rank is a number not above the index, and grows with the index and the set.
LEMMA RankGrows ==
  ASSUME NEW S, S \subseteq 0..MaxIndex, NEW T, T \subseteq S, NEW i \in 0..MaxIndex,
         NEW h \in 0..MaxIndex, h <= i
  PROVE  Rank(T, h) \in Nat /\ Rank(S, i) \in Nat /\ Rank(T, h) <= Rank(S, i) /\ Rank(S, i) <= i
<1> USE ReadersAssumption
<1>a. i \in Int /\ h \in Int /\ \A j \in S : j \in Int /\ 0 <= j
  OBVIOUS
<1>1. {j \in T : j < h} \subseteq {j \in S : j < i} /\ {j \in S : j < i} \subseteq 0..(i - 1)
  <2>1. ASSUME NEW j \in T, j < h PROVE j \in S /\ j < i
    BY <1>a, <2>1
  <2>2. ASSUME NEW j \in S, j < i PROVE j \in 0..(i - 1)
    BY <1>a, <2>2
  <2> QED BY <2>1, <2>2
<1>2. IsFiniteSet({j \in S : j < i}) /\ IsFiniteSet({j \in T : j < h}) /\ IsFiniteSet(0..(i - 1))
      /\ Cardinality(0..(i - 1)) = i
  <2>1. {j \in S : j < i} \subseteq 0..MaxIndex /\ {j \in T : j < h} \subseteq 0..MaxIndex
    OBVIOUS
  <2>2. i - 1 \in Int /\ 0 \in Int /\ (i - 1) - 0 + 1 = i /\ (0 > i - 1 => i = 0)
    OBVIOUS
  <2>3. IsFiniteSet(0..(i - 1)) /\ Cardinality(0..(i - 1)) = IF 0 > i - 1 THEN 0 ELSE (i - 1) - 0 + 1
    BY <2>2, FS_Interval
  <2>4. Cardinality(0..(i - 1)) = i
    BY <2>2, <2>3
  <2> QED BY <2>1, <2>3, <2>4, IndexesFinite
<1>3. /\ Cardinality({j \in T : j < h}) <= Cardinality({j \in S : j < i})
      /\ Cardinality({j \in S : j < i}) <= Cardinality(0..(i - 1))
  BY <1>1, <1>2, FS_Subset
<1>4. Cardinality({j \in T : j < h}) \in Nat /\ Cardinality({j \in S : j < i}) \in Nat
  BY <1>2, FS_CardinalityType
<1> QED BY <1>2, <1>3, <1>4 DEF Rank

\* A rank is a number not above the index.
LEMMA RankTyped ==
  ASSUME NEW S, S \subseteq 0..MaxIndex, NEW i \in 0..MaxIndex
  PROVE  Rank(S, i) \in Nat /\ Rank(S, i) <= i
<1>1. S \subseteq S /\ i <= i
  BY ReadersAssumption
<1> QED BY <1>1, RankGrows

\* Of two in a set the greater has the higher rank.
LEMMA RankDiffers ==
  ASSUME NEW S, S \subseteq 0..MaxIndex, NEW i \in S, NEW h \in S, h < i
  PROVE  Rank(S, h) < Rank(S, i)
<1> USE ReadersAssumption
<1> DEFINE A == {j \in S : j < h}
           B == {j \in S : j < i}
<1>a. i \in Int /\ h \in Int /\ \A j \in S : j \in Int
  OBVIOUS
<1>1. A \subseteq B /\ h \in B /\ h \notin A /\ A # B
  <2>1. \A j \in S : j < h => j < i
    BY <1>a
  <2>2. h < i /\ ~ (h < h)
    BY <1>a
  <2>3. h \in B /\ h \notin A
    BY <2>2
  <2> QED BY <2>1, <2>3
<1>2. IsFiniteSet(A) /\ IsFiniteSet(B)
  <2>1. A \subseteq 0..MaxIndex /\ B \subseteq 0..MaxIndex
    OBVIOUS
  <2> QED BY <2>1, IndexesFinite
<1>3. Cardinality(A) <= Cardinality(B) /\ Cardinality(A) # Cardinality(B)
      /\ Cardinality(A) \in Nat /\ Cardinality(B) \in Nat
  <2> HIDE DEF A, B
  <2> QED BY <1>1, <1>2, FS_Subset, FS_CardinalityType
<1> QED BY <1>3 DEF Rank

\* Below an element there is one of every lower rank.
LEMMA RankTaken ==
  ASSUME NEW S, S \subseteq 0..MaxIndex, NEW r \in S, NEW k \in Nat, k < Rank(S, r)
  PROVE  \E q \in S : Rank(S, q) = k
<1> USE ReadersAssumption
<1> DEFINE T == {q \in S : q < r}
           n == Rank(S, r)
           U == 0..(n - 1)
           f == [q \in T |-> Rank(S, q)]
<1>a. \A q \in S : q \in 0..MaxIndex /\ q \in Int
  OBVIOUS
<1>1. n \in Nat /\ \A q \in S : Rank(S, q) \in Nat
  BY <1>a, RankTyped
<1>2. f \in [T -> U]
  <2>1. ASSUME NEW q \in T PROVE Rank(S, q) \in U
    <3>1. q \in S /\ q < r
      OBVIOUS
    <3>2. Rank(S, q) < Rank(S, r)
      BY <3>1, RankDiffers
    <3> QED BY <3>1, <3>2, <1>1
  <2> QED BY <2>1
<1>3. \A p, q \in T : f[p] = f[q] => p = q
  <2> SUFFICES ASSUME NEW p \in T, NEW q \in T, Rank(S, p) = Rank(S, q) PROVE p = q
    OBVIOUS
  <2>1. p \in S /\ q \in S /\ p \in Int /\ q \in Int /\ Rank(S, p) \in Nat
    BY <1>a, <1>1
  <2>2. ~ (p < q)
    <3> SUFFICES ASSUME p < q PROVE FALSE
      OBVIOUS
    <3>1. Rank(S, p) < Rank(S, q)
      BY <2>1, RankDiffers
    <3> QED BY <3>1, <2>1
  <2>3. ~ (q < p)
    <3> SUFFICES ASSUME q < p PROVE FALSE
      OBVIOUS
    <3>1. Rank(S, q) < Rank(S, p)
      BY <2>1, RankDiffers
    <3> QED BY <3>1, <2>1
  <2> QED BY <2>1, <2>2, <2>3
<1>4. IsFiniteSet(T) /\ Cardinality(T) = n
  <2>1. T \subseteq 0..MaxIndex
    OBVIOUS
  <2> QED BY <2>1, IndexesFinite DEF Rank
<1>5. IsFiniteSet(U) /\ Cardinality(U) = n
  <2>1. n - 1 \in Int /\ 0 \in Int /\ (n - 1) - 0 + 1 = n /\ (0 > n - 1 => n = 0)
    BY <1>1
  <2>2. IsFiniteSet(U) /\ Cardinality(U) = IF 0 > n - 1 THEN 0 ELSE (n - 1) - 0 + 1
    BY <2>1, FS_Interval
  <2> QED BY <2>1, <2>2
<1>6. f \in Injection(T, U)
  <2> HIDE DEF T, U
  <2> QED BY <1>2, <1>3 DEF Injection, IsInjective
<1>7. f \in Surjection(T, U)
  <2> HIDE DEF T, U, f, n
  <2> QED BY <1>4, <1>5, <1>6, FS_Injection
<1>8. k \in U
  BY <1>1
<1>9. \E q \in T : f[q] = k
  <2> HIDE DEF T, U, f, n
  <2> QED BY <1>7, <1>8 DEF Surjection
<1> QED BY <1>9

\* Where a row ranks beyond a page, the page is full.
LEMMA PageFull ==
  ASSUME NEW S, S \subseteq 0..MaxIndex, NEW a \in Nat, NEW m \in Nat, NEW r \in S, Rank(S, r) >= a + m
  PROVE  Cardinality({i \in S : a <= Rank(S, i) /\ Rank(S, i) < a + m}) = m
<1> USE ReadersAssumption
<1> DEFINE T == {i \in S : a <= Rank(S, i) /\ Rank(S, i) < a + m}
           U == a..(a + m - 1)
           f == [q \in T |-> Rank(S, q)]
<1>a. \A q \in S : q \in 0..MaxIndex /\ q \in Int
  OBVIOUS
<1>1. \A q \in S : Rank(S, q) \in Nat
  BY <1>a, RankTyped
<1>2. f \in [T -> U]
  <2>1. ASSUME NEW q \in T PROVE Rank(S, q) \in U
    <3>1. q \in S /\ a <= Rank(S, q) /\ Rank(S, q) < a + m /\ Rank(S, q) \in Nat
      BY <1>1
    <3> QED BY <3>1
  <2> QED BY <2>1
<1>3. \A p, q \in T : f[p] = f[q] => p = q
  <2> SUFFICES ASSUME NEW p \in T, NEW q \in T, Rank(S, p) = Rank(S, q) PROVE p = q
    OBVIOUS
  <2>1. p \in S /\ q \in S /\ p \in Int /\ q \in Int /\ Rank(S, p) \in Nat
    BY <1>a, <1>1
  <2>2. ~ (p < q)
    <3> SUFFICES ASSUME p < q PROVE FALSE
      OBVIOUS
    <3>1. Rank(S, p) < Rank(S, q)
      BY <2>1, RankDiffers
    <3> QED BY <3>1, <2>1
  <2>3. ~ (q < p)
    <3> SUFFICES ASSUME q < p PROVE FALSE
      OBVIOUS
    <3>1. Rank(S, q) < Rank(S, p)
      BY <2>1, RankDiffers
    <3> QED BY <3>1, <2>1
  <2> QED BY <2>1, <2>2, <2>3
<1>4. \A k \in U : \E q \in T : f[q] = k
  <2> TAKE k \in U
  <2>1. k \in Nat /\ k < Rank(S, r) /\ a <= k /\ k < a + m
    BY <1>1
  <2>2. PICK q \in S : Rank(S, q) = k
    BY <2>1, RankTaken
  <2> QED BY <2>1, <2>2
<1>5. IsFiniteSet(T)
  <2>1. T \subseteq 0..MaxIndex
    OBVIOUS
  <2> QED BY <2>1, IndexesFinite
<1>6. ExistsBijection(T, U)
  <2>1. f \in Bijection(T, U)
    <3> HIDE DEF T, U
    <3> QED BY <1>2, <1>3, <1>4 DEF Bijection, Injection, Surjection, IsInjective
  <2> QED BY <2>1 DEF ExistsBijection
<1>7. Cardinality(U) = Cardinality(T)
  <2> HIDE DEF T, U
  <2> QED BY <1>5, <1>6, FS_Bijection
<1>8. Cardinality(U) = m
  <2>1. a \in Int /\ a + m - 1 \in Int /\ (a + m - 1) - a + 1 = m /\ (a > a + m - 1 => m = 0)
    OBVIOUS
  <2>2. Cardinality(U) = IF a > a + m - 1 THEN 0 ELSE (a + m - 1) - a + 1
    BY <2>1, FS_Interval
  <2> QED BY <2>1, <2>2
<1> QED BY <1>7, <1>8

\* The latest of the checkpoints, -1 without one.
LEMMA LatestMarkIs ==
  ASSUME NEW S, S \subseteq 0..MaxIndex
  PROVE  /\ LatestMark(S) \in S \cup {-1} /\ LatestMark(S) \in Int
         /\ \A n \in S : n <= LatestMark(S)
<1> USE ReadersAssumption
<1>1. \E m \in S \cup {-1} : \A n \in S : n <= m
  <2>1. CASE S = {}
    BY <2>1
  <2>2. CASE S # {}
    <3>1. \E m \in S : \A n \in S : n <= m
      BY <2>2, GreatestBelow
    <3> QED BY <3>1
  <2> QED BY <2>1, <2>2
<1>2. LatestMark(S) \in S \cup {-1} /\ \A n \in S : n <= LatestMark(S)
  BY <1>1 DEF LatestMark
<1>3. \A m \in S \cup {-1} : m \in Int
  OBVIOUS
<1> QED BY <1>2, <1>3

\* The records of a writer, a consumer and the client that pages.
PenOf == [at : {"idle", "picked", "inserted"}, index : 0..MaxIndex]
BatchOf ==
  [at : {"idle", "marked", "fetched", "unmarked", "inserted", "marked twice"},
   batch : SUBSET (0..MaxIndex), mark : -1..MaxIndex]
PagerOf == [page : 0..MaxIndex + 1, seen : SUBSET (0..MaxIndex), owed : SUBSET (0..MaxIndex)]

ReadersTypes == ReadersTypeOK /\ audience \in {"consumer", "client", "indexer"}

\* Writers: who holds a share writes a new chunk, alone; whoever chooses its index
\* itself goes on where the chunks end.
PensApart ==
  /\ \A w \in Penman : HoldsShare(w) => pen[w].index \notin rows
  /\ \A w, o \in Penman : HoldsShare(w) /\ HoldsShare(o) /\ w # o => pen[w].index # pen[o].index
  /\ index.at # "idle" => \A w \in Penman : ~ HoldsShare(w)

\* As long as no caller has placed a chunk itself, the chunks have no gap, and a
\* writer goes on where they end.
InSequence ==
  ~ placed =>
    /\ misplaced = {}
    /\ \A i \in rows : 0..i \subseteq rows
    /\ \A w \in Penman : pen[w].at # "idle" => 0..(pen[w].index - 1) \subseteq rows

\* Consumers.
BatchWhole(c) ==
  /\ consumer[c].at # "idle" => consumer[c].mark <= LatestMark(marks)
  /\ consumer[c].at \notin {"idle", "marked"} =>
       /\ consumer[c].batch # {} /\ consumer[c].batch \subseteq rows
       /\ \A i \in rows : consumer[c].mark < i /\ i <= Reached(c) => i \in consumer[c].batch \cup misplaced

MarksCover == \A i \in rows : i <= LatestMark(marks) => i \in consumed \cup misplaced

\* The client that pages.
PagesOwe ==
  /\ pager.page = 0 => pager.seen = {} /\ pager.owed = {}
  /\ \A i \in pager.owed : i \in rows /\ (i \in pager.seen \/ Rank(rows, i) >= pager.page * PageSize)
  /\ pager.page > 0 => \E i \in rows : Rank(rows, i) >= (pager.page - 1) * PageSize

\* The text that was built is the beginning of the transcript's.
TextBegins == misplaced = {} => Begins(text, rows)

CountHolds == index.at = "counted" => index.counted = rows

ReadersInv ==
  /\ ReadersTypes /\ PensApart /\ InSequence
  /\ MarksCover /\ \A c \in Consumer : BatchWhole(c)
  /\ PagesOwe /\ TextBegins /\ CountHolds

\* The invariant holds at the start.
LEMMA ReadersInitially == ReadersInit => ReadersInv
<1> SUFFICES ASSUME ReadersInit PROVE ReadersInv
  OBVIOUS
<1> USE ReadersAssumption
<1>1. Unwritten \in PenOf
      /\ Unread \in BatchOf
  BY DEF Unwritten, Unread, PenOf, BatchOf
<1>2. ReadersTypes
  <2>1. /\ pen \in [Penman -> PenOf]
        /\ consumer \in [Consumer -> BatchOf]
    BY <1>1 DEF ReadersInit
  <2>2. /\ index \in [at : {"idle", "locked", "counted"}, counted : SUBSET (0..MaxIndex)]
        /\ pager \in PagerOf
    BY DEF ReadersInit, PagerOf
  <2>3. /\ rows = {} /\ marks = {} /\ consumed = {} /\ misplaced = {} /\ placed = FALSE /\ text = {}
        /\ audience \in {"consumer", "client", "indexer"}
    BY DEF ReadersInit
  <2> QED BY <2>1, <2>2, <2>3 DEF ReadersTypes, ReadersTypeOK, PenOf, BatchOf, PagerOf
<1>3. PensApart /\ InSequence
  BY DEF ReadersInit, PensApart, InSequence, HoldsShare, Unwritten
<1>4. MarksCover /\ \A c \in Consumer : BatchWhole(c)
  BY DEF ReadersInit, MarksCover, BatchWhole, Unread
<1>5. PagesOwe /\ TextBegins /\ CountHolds
  BY DEF ReadersInit, PagesOwe, TextBegins, CountHolds, Begins
<1> QED BY <1>2, <1>3, <1>4, <1>5 DEF ReadersInv

\* The parts that a step leaves alone.
LEMMA PagerRests ==
  ASSUME PagesOwe, UNCHANGED <<rows, pager>>
  PROVE  PagesOwe'
BY DEF PagesOwe, Rank

\* The consumers, where chunks and marks rest.
LEMMA ConsumersRest ==
  ASSUME MarksCover, \A c \in Consumer : BatchWhole(c),
         UNCHANGED <<rows, marks, consumed, misplaced, consumer>>
  PROVE  MarksCover' /\ \A c \in Consumer : BatchWhole(c)'
BY DEF MarksCover, BatchWhole, Reached, LatestMark

\* The writers, where theirs rests.
LEMMA WritersRest ==
  ASSUME PensApart, InSequence, UNCHANGED <<rows, misplaced, placed, pen>>,
         index'.at # "idle" => index.at # "idle"
  PROVE  PensApart' /\ InSequence'
BY DEF PensApart, InSequence, HoldsShare

\* A chunk appears.
LEMMA AppearsKeeps ==
  ASSUME ReadersInv, NEW i \in 0..MaxIndex, i \notin rows, Appears(i),
         UNCHANGED <<marks, consumer, consumed, pager, text>>
  PROVE  /\ MarksCover' /\ \A c \in Consumer : BatchWhole(c)'
         /\ PagesOwe' /\ TextBegins'
         /\ misplaced \subseteq misplaced' /\ misplaced' \subseteq rows' /\ rows' \subseteq 0..MaxIndex
<1> USE ReadersAssumption
<1>t. /\ rows \subseteq 0..MaxIndex /\ marks \subseteq rows /\ misplaced \subseteq rows
      /\ consumer \in [Consumer -> BatchOf]
  BY DEF ReadersInv, ReadersTypes, ReadersTypeOK, PenOf, BatchOf, PagerOf
<1>1. /\ rows' = rows \cup {i} /\ misplaced \subseteq misplaced' /\ misplaced' \subseteq misplaced \cup {i}
      /\ (\E j \in rows : j > i) => i \in misplaced'
  BY DEF Appears
<1>2. misplaced' \subseteq rows' /\ rows' \subseteq 0..MaxIndex
  BY <1>1, <1>t
<1>c. \A c \in Consumer : consumer[c].batch \subseteq 0..MaxIndex
  BY <1>t DEF BatchOf
<1>3. LatestMark(marks)' = LatestMark(marks) /\ \A c \in Consumer : Reached(c)' = Reached(c)
  BY DEF LatestMark, Reached
<1>4. MarksCover'
  <2>1. LatestMark(marks) \in marks \cup {-1} /\ LatestMark(marks) \in Int
    BY <1>t, LatestMarkIs
  <2>2. i <= LatestMark(marks) => i \in misplaced'
    BY <1>1, <1>t, <2>1
  <2> QED BY <1>1, <1>3, <2>2 DEF ReadersInv, MarksCover
<1>5. ASSUME NEW c \in Consumer PROVE BatchWhole(c)'
  <2>0. BatchWhole(c)
    BY DEF ReadersInv
  <2>1. consumer'[c] = consumer[c]
    OBVIOUS
  <2>2. ASSUME consumer[c].at \notin {"idle", "marked"}
        PROVE  /\ consumer[c].batch # {} /\ consumer[c].batch \subseteq rows'
               /\ \A j \in rows' : consumer[c].mark < j /\ j <= Reached(c)
                                     => j \in consumer[c].batch \cup misplaced'
    <3>1. /\ consumer[c].batch # {} /\ consumer[c].batch \subseteq rows
          /\ \A j \in rows : consumer[c].mark < j /\ j <= Reached(c) => j \in consumer[c].batch \cup misplaced
      BY <2>0, <2>2 DEF BatchWhole
    <3>2. Reached(c) \in consumer[c].batch \cup {-1} /\ Reached(c) \in Int
      BY <3>1, <1>c, LatestMarkIs DEF Reached
    <3>3. i <= Reached(c) => i \in misplaced'
      BY <1>1, <1>t, <3>1, <3>2
    <3> QED BY <1>1, <3>1, <3>3
  <2> QED BY <1>3, <2>0, <2>1, <2>2 DEF BatchWhole
<1>6. PagesOwe'
  <2>0. pager \in PagerOf
    BY DEF ReadersInv, ReadersTypes, ReadersTypeOK, PenOf, BatchOf, PagerOf
  <2>1. \A j \in rows : Rank(rows, j) <= Rank(rows', j) /\ Rank(rows, j) \in Nat /\ Rank(rows', j) \in Nat
    <3> TAKE j \in rows
    <3>1. j \in 0..MaxIndex /\ j <= j /\ rows \subseteq rows'
      BY <1>1, <1>t
    <3> QED BY <3>1, <1>2, RankGrows
  <2>2. pager.page * PageSize \in Int /\ (pager.page - 1) * PageSize \in Int
    BY <2>0 DEF PagerOf
  <2> PICK k : k = pager.page * PageSize
    OBVIOUS
  <2> PICK n : n = (pager.page - 1) * PageSize
    OBVIOUS
  <2>3. /\ pager.page = 0 => pager.seen = {} /\ pager.owed = {}
        /\ \A j \in pager.owed : j \in rows /\ (j \in pager.seen \/ Rank(rows, j) >= k)
        /\ pager.page > 0 => \E j \in rows : Rank(rows, j) >= n
    BY DEF ReadersInv, PagesOwe
  <2>a. k \in Int /\ n \in Int
    BY <2>2
  <2>b. ASSUME NEW j \in rows, NEW m \in Int, Rank(rows, j) >= m PROVE Rank(rows', j) >= m
    BY <2>1, <2>b
  <2>4. \A j \in pager.owed : j \in rows' /\ (j \in pager.seen \/ Rank(rows', j) >= k)
    BY <2>a, <2>b, <2>3, <1>1
  <2>5. pager.page > 0 => \E j \in rows' : Rank(rows', j) >= n
    BY <2>a, <2>b, <2>3, <1>1
  <2> QED BY <2>3, <2>4, <2>5 DEF PagesOwe, Rank
<1>7. TextBegins'
  <2> SUFFICES ASSUME misplaced' = {} PROVE Begins(text, rows')
    BY DEF TextBegins
  <2>1. Begins(text, rows)
    BY <1>1 DEF ReadersInv, TextBegins
  <2>2. \A j \in rows : j < i
    BY <1>1, <1>t
  <2> QED BY <1>1, <2>1, <2>2 DEF Begins
<1> QED BY <1>1, <1>2, <1>4, <1>5, <1>6, <1>7

\* A writer that has not committed.
LEMMA PensStep ==
  ASSUME ReadersInv, NEW w \in Penman,
         \/ \E i \in 0..MaxIndex : PickIndex(w, i)
         \/ InsertRow(w) \/ DropRow(w)
  PROVE  ReadersInv'
<1> USE ReadersAssumption
<1>t. /\ ReadersTypes /\ PensApart /\ InSequence /\ MarksCover /\ \A c \in Consumer : BatchWhole(c)
      /\ PagesOwe /\ TextBegins /\ CountHolds /\ pen \in [Penman -> PenOf] /\ rows \subseteq 0..MaxIndex
  BY DEF ReadersInv, ReadersTypes, ReadersTypeOK, PenOf
<1>1. UNCHANGED <<rows, misplaced, placed, writersUnchanged>>
  BY DEF PickIndex, InsertRow, DropRow
<1>2. UNCHANGED <<audience, rows, misplaced, placed, marks, consumer, consumed, index, pager, text>>
  BY <1>1 DEF writersUnchanged
<1>3. pen' \in [Penman -> PenOf]
  BY <1>t DEF PickIndex, InsertRow, DropRow, PenOf, Unwritten
<1>4. ReadersTypes'
  BY <1>2, <1>3, <1>t DEF ReadersTypes, ReadersTypeOK, PenOf
<1>5. \A o \in Penman : o # w => pen'[o] = pen[o]
  BY <1>t DEF PickIndex, InsertRow, DropRow
<1>6. \/ pen'[w].at = "idle"
      \/ /\ pen'[w].at = "picked"
         /\ ~ placed => 0..(pen'[w].index - 1) \subseteq rows
      \/ /\ pen'[w].at = "inserted" /\ pen[w].at = "picked" /\ pen'[w].index = pen[w].index
         /\ pen[w].index \notin rows /\ index.at = "idle"
         /\ \A o \in Penman : HoldsShare(o) => pen[o].index # pen[w].index
  <2>1. ASSUME NEW i \in 0..MaxIndex, PickIndex(w, i)
        PROVE  pen'[w].at = "picked" /\ (~ placed => 0..(pen'[w].index - 1) \subseteq rows)
    <3>1. pen'[w] = [at |-> "picked", index |-> i]
      BY <2>1, <1>t DEF PickIndex
    <3>2. ~ placed => 0..(i - 1) \subseteq rows
      <4>1. i = 0 \/ i - 1 \in rows
        BY <2>1 DEF PickIndex
      <4>2. i = 0 => 0..(i - 1) = {}
        OBVIOUS
      <4> QED BY <4>1, <4>2, <1>t DEF InSequence
    <3> QED BY <3>1, <3>2
  <2>2. ASSUME InsertRow(w)
        PROVE  /\ pen'[w].at = "inserted" /\ pen[w].at = "picked" /\ pen'[w].index = pen[w].index
               /\ pen[w].index \notin rows /\ index.at = "idle"
               /\ \A o \in Penman : HoldsShare(o) => pen[o].index # pen[w].index
    BY <2>2, <1>t DEF InsertRow, PenOf
  <2>3. ASSUME DropRow(w) PROVE pen'[w].at = "idle"
    BY <2>3, <1>t DEF DropRow, Unwritten
  <2> QED BY <2>1, <2>2, <2>3
<1>7. \A o \in Penman : /\ pen'[o].at = "inserted" => o = w \/ HoldsShare(o)
                        /\ o # w => pen'[o].index = pen[o].index
  BY <1>5 DEF HoldsShare
<1>8. PensApart'
  <2>1. \A o \in Penman : pen'[o].at = "inserted" => pen'[o].index \notin rows
    BY <1>6, <1>7, <1>t DEF PensApart
  <2>2. \A o, v \in Penman : pen'[o].at = "inserted" /\ pen'[v].at = "inserted" /\ o # v
                               => pen'[o].index # pen'[v].index
    BY <1>6, <1>7, <1>t DEF PensApart
  <2>3. index.at # "idle" => \A o \in Penman : pen'[o].at # "inserted"
    BY <1>6, <1>7, <1>t DEF PensApart
  <2> QED BY <1>2, <2>1, <2>2, <2>3 DEF PensApart, HoldsShare
<1>9. InSequence'
  BY <1>2, <1>5, <1>6, <1>t DEF InSequence
<1>10. MarksCover' /\ \A c \in Consumer : BatchWhole(c)'
  BY <1>2, <1>t, ConsumersRest
<1>11. PagesOwe'
  BY <1>2, <1>t, PagerRests
<1>12. TextBegins' /\ CountHolds'
  BY <1>2, <1>t DEF TextBegins, CountHolds
<1> QED BY <1>4, <1>8, <1>9, <1>10, <1>11, <1>12 DEF ReadersInv

LEMMA ChunkAppears ==
  ASSUME ReadersInv, NEW i \in 0..MaxIndex,
         \/ \E w \in Penman : i = pen[w].index /\ CommitRow(w)
         \/ PlaceChunk(i)
  PROVE  ReadersInv'
<1> USE ReadersAssumption
<1>t. /\ ReadersTypes /\ PensApart /\ InSequence /\ MarksCover /\ \A c \in Consumer : BatchWhole(c)
      /\ PagesOwe /\ TextBegins /\ CountHolds /\ pen \in [Penman -> PenOf] /\ rows \subseteq 0..MaxIndex
  BY DEF ReadersInv, ReadersTypes, ReadersTypeOK, PenOf
<1>1. /\ i \notin rows /\ Appears(i) /\ index.at = "idle"
      /\ UNCHANGED writersUnchanged
      /\ \A o \in Penman : pen'[o] = pen[o] \/ pen'[o] = Unwritten
      /\ pen' \in [Penman -> PenOf]
      /\ \A o \in Penman : pen'[o].at = "inserted" => pen'[o].index # i
      /\ placed' = placed \/ placed' = TRUE
      /\ placed' = FALSE => 0..(i - 1) \subseteq rows
  <2>1. CASE PlaceChunk(i)
    <3>1. \A o \in Penman : pen[o].at # "inserted"
      BY <2>1 DEF PlaceChunk, TranscriptFree, HoldsShare
    <3> QED BY <2>1, <3>1, <1>t DEF PlaceChunk, TranscriptFree
  <2>2. ASSUME NEW w \in Penman, i = pen[w].index, CommitRow(w)
        PROVE  /\ i \notin rows /\ Appears(i) /\ index.at = "idle"
               /\ UNCHANGED writersUnchanged
               /\ \A o \in Penman : pen'[o] = pen[o] \/ pen'[o] = Unwritten
               /\ pen' \in [Penman -> PenOf]
               /\ \A o \in Penman : pen'[o].at = "inserted" => pen'[o].index # i
               /\ placed' = placed
               /\ placed' = FALSE => 0..(i - 1) \subseteq rows
    <3>1. HoldsShare(w) /\ pen[w].at = "inserted" /\ Appears(i) /\ placed' = placed
          /\ UNCHANGED writersUnchanged /\ pen' = [pen EXCEPT ![w] = Unwritten]
      BY <2>2 DEF CommitRow, HoldsShare
    <3>2. i \notin rows /\ index.at = "idle"
      BY <2>2, <3>1, <1>t DEF PensApart
    <3>3. Unwritten \in PenOf /\ Unwritten.at = "idle"
      BY DEF PenOf, Unwritten
    <3>4. /\ pen'[w] = Unwritten /\ \A o \in Penman : o # w => pen'[o] = pen[o]
          /\ pen' \in [Penman -> PenOf]
      BY <3>1, <3>3, <1>t
    <3>5. \A o \in Penman : pen'[o].at = "inserted" => pen'[o].index # i
      BY <2>2, <3>1, <3>3, <3>4, <1>t DEF PensApart, HoldsShare
    <3>6. placed' = FALSE => 0..(i - 1) \subseteq rows
      BY <2>2, <3>1, <1>t DEF InSequence
    <3> QED BY <3>1, <3>2, <3>4, <3>5, <3>6
  <2> QED BY <2>1, <2>2
<1>2. UNCHANGED <<audience, marks, consumer, consumed, index, pager, text>>
  BY <1>1 DEF writersUnchanged
<1>3. /\ MarksCover' /\ \A c \in Consumer : BatchWhole(c)'
      /\ PagesOwe' /\ TextBegins'
      /\ misplaced \subseteq misplaced' /\ misplaced' \subseteq rows' /\ rows' \subseteq 0..MaxIndex
  BY <1>1, <1>2, AppearsKeeps
<1>4. rows' = rows \cup {i}
      /\ misplaced' = IF \E j \in rows : j > i THEN misplaced \cup {i} ELSE misplaced
  BY <1>1 DEF Appears
<1>5. ReadersTypes'
  BY <1>1, <1>2, <1>3, <1>4, <1>t DEF ReadersTypes, ReadersTypeOK, PenOf
<1>6. Unwritten.at = "idle"
  BY DEF Unwritten
<1>7. PensApart'
  <2>1. \A o \in Penman : pen'[o].at = "inserted" => pen'[o] = pen[o] /\ HoldsShare(o)
    BY <1>1, <1>6 DEF HoldsShare
  <2>2. \A o \in Penman : pen'[o].at = "inserted" => pen'[o].index \notin rows'
    BY <2>1, <1>1, <1>4, <1>t DEF PensApart
  <2>3. \A o, v \in Penman : pen'[o].at = "inserted" /\ pen'[v].at = "inserted" /\ o # v
                               => pen'[o].index # pen'[v].index
    BY <2>1, <1>t DEF PensApart
  <2> QED BY <2>2, <2>3, <1>1, <1>2 DEF PensApart, HoldsShare
<1>8. InSequence'
  <2> SUFFICES ASSUME ~ placed'
               PROVE  /\ misplaced' = {}
                      /\ \A j \in rows' : 0..j \subseteq rows'
                      /\ \A o \in Penman : pen'[o].at # "idle" => 0..(pen'[o].index - 1) \subseteq rows'
    BY DEF InSequence
  <2>1. ~ placed /\ 0..(i - 1) \subseteq rows
    BY <1>1, <1>5, <1>t DEF ReadersTypes, ReadersTypeOK
  <2>2. /\ misplaced = {} /\ \A j \in rows : 0..j \subseteq rows
        /\ \A o \in Penman : pen[o].at # "idle" => 0..(pen[o].index - 1) \subseteq rows
    BY <2>1, <1>t DEF InSequence
  <2>3. \A j \in rows : ~ (j > i)
    <3> SUFFICES ASSUME NEW j \in rows, j > i PROVE FALSE
      OBVIOUS
    <3>1. i \in 0..j
      BY <1>t
    <3> QED BY <3>1, <2>2, <1>1
  <2>4. misplaced' = {}
    BY <2>2, <2>3, <1>4
  <2>5. 0..i \subseteq rows'
    <3>1. \A k \in 0..i : k = i \/ k \in 0..(i - 1)
      OBVIOUS
    <3> QED BY <3>1, <2>1, <1>4
  <2>6. \A j \in rows' : 0..j \subseteq rows'
    BY <2>2, <2>5, <1>4
  <2>7. \A o \in Penman : pen'[o].at # "idle" => pen'[o] = pen[o]
    BY <1>1, <1>6
  <2>8. \A o \in Penman : pen'[o].at # "idle" => 0..(pen'[o].index - 1) \subseteq rows'
    <3> TAKE o \in Penman
    <3> HAVE pen'[o].at # "idle"
    <3>1. 0..(pen[o].index - 1) \subseteq rows /\ pen'[o] = pen[o]
      BY <2>2, <2>7
    <3> QED BY <3>1, <1>4
  <2> QED BY <2>4, <2>6, <2>8
<1>9. CountHolds'
  BY <1>1, <1>2 DEF CountHolds
<1> QED BY <1>3, <1>5, <1>7, <1>8, <1>9 DEF ReadersInv

\* What a consumer does without a commit.
LEMMA ConsumerMoves ==
  ASSUME ReadersInv, NEW c \in Consumer, NEW new \in BatchOf,
         consumer' = [consumer EXCEPT ![c] = new],
         UNCHANGED <<audience, rows, pen, marks, consumed, misplaced, placed, index, pager, text>>,
         new.at # "idle" => new.mark <= LatestMark(marks),
         new.at \notin {"idle", "marked"} =>
           /\ new.batch # {} /\ new.batch \subseteq rows
           /\ \A i \in rows : new.mark < i /\ i <= LatestMark(new.batch) => i \in new.batch \cup misplaced
  PROVE  ReadersInv'
<1>t. /\ ReadersTypes /\ PensApart /\ InSequence /\ MarksCover /\ \A d \in Consumer : BatchWhole(d)
      /\ PagesOwe /\ TextBegins /\ CountHolds /\ consumer \in [Consumer -> BatchOf]
  BY DEF ReadersInv, ReadersTypes, ReadersTypeOK, BatchOf
<1>1. consumer'[c] = new /\ \A d \in Consumer : d # c => consumer'[d] = consumer[d]
  BY <1>t
<1>2. consumer' \in [Consumer -> BatchOf]
  BY <1>t
<1>3. ReadersTypes'
  BY <1>2, <1>t DEF ReadersTypes, ReadersTypeOK, BatchOf
<1>4. LatestMark(marks)' = LatestMark(marks)
      /\ \A d \in Consumer : Reached(d)' = LatestMark(consumer'[d].batch)
  BY DEF LatestMark, Reached
<1>5. BatchWhole(c)'
  BY <1>1, <1>4 DEF BatchWhole
<1>6. \A d \in Consumer : d # c => BatchWhole(d)'
  BY <1>1, <1>4, <1>t DEF BatchWhole, Reached
<1>7. MarksCover'
  BY <1>4, <1>t DEF MarksCover
<1>8. PagesOwe'
  BY <1>t, PagerRests
<1>9. PensApart' /\ InSequence'
  BY <1>t, WritersRest
<1>10. TextBegins' /\ CountHolds'
  BY <1>t DEF TextBegins, CountHolds
<1> QED BY <1>3, <1>5, <1>6, <1>7, <1>8, <1>9, <1>10 DEF ReadersInv

\* A consumer reads, marks or forgets.
LEMMA ConsumerStep ==
  ASSUME ReadersInv, NEW c \in Consumer,
         \/ GetLatestMark(c) \/ ChunksSince(c) \/ FindMark(c) \/ InsertMark(c) \/ CommitMark(c)
         \/ ForgetChunks(c)
  PROVE  ReadersInv'
<1> USE ReadersAssumption
<1>t. /\ ReadersTypes /\ PensApart /\ InSequence /\ MarksCover /\ \A d \in Consumer : BatchWhole(d)
      /\ PagesOwe /\ TextBegins /\ CountHolds /\ consumer \in [Consumer -> BatchOf]
      /\ rows \subseteq 0..MaxIndex /\ marks \subseteq rows
  BY DEF ReadersInv, ReadersTypes, ReadersTypeOK, BatchOf
<1>u. Unread \in BatchOf /\ Unread.at = "idle"
  BY DEF Unread, BatchOf
<1>m. LatestMark(marks) \in marks \cup {-1} /\ LatestMark(marks) \in Int
      /\ \A n \in marks : n <= LatestMark(marks)
  BY <1>t, LatestMarkIs
<1>c. consumer[c] \in BatchOf /\ BatchWhole(c)
  BY <1>t
<1>d. \A d \in Consumer : consumer[d].mark \in Int
  <2>1. \A d \in Consumer : consumer[d].mark \in -1..MaxIndex
    BY <1>t DEF BatchOf
  <2> QED BY <2>1
<1>e. LatestMark(marks) \in -1..MaxIndex
  <2>1. \A n \in marks \cup {-1} : n \in -1..MaxIndex
    BY <1>t
  <2> QED BY <2>1, <1>m
<1>1. CASE GetLatestMark(c)
  <2> PICK new : new = [consumer[c] EXCEPT !.at = "marked", !.mark = LatestMark(marks)]
    OBVIOUS
  <2>1. new \in BatchOf /\ new.at = "marked" /\ new.mark = LatestMark(marks)
    BY <1>c, <1>e DEF BatchOf
  <2>2. consumer' = [consumer EXCEPT ![c] = new]
    BY <1>1, <1>t DEF GetLatestMark
  <2>3. UNCHANGED <<audience, rows, pen, marks, consumed, misplaced, placed, index, pager, text>>
    BY <1>1 DEF GetLatestMark, consumersUnchanged
  <2>4. new.mark <= LatestMark(marks)
    BY <2>1, <1>m
  <2> QED BY <2>1, <2>2, <2>3, <2>4, ConsumerMoves
<1>2. CASE ChunksSince(c)
  <2> PICK batch : batch = AfterIndex(consumer[c].mark, FetchLimit)
    OBVIOUS
  <2> PICK new : new = [consumer[c] EXCEPT !.at = "fetched", !.batch = batch]
    OBVIOUS
  <2>1. batch \subseteq rows /\ batch # {}
    BY <1>2 DEF ChunksSince, AfterIndex, FirstOf
  <2>2. new \in BatchOf /\ new.at = "fetched" /\ new.batch = batch /\ new.mark = consumer[c].mark
    BY <2>1, <1>c, <1>t DEF BatchOf
  <2>3. consumer' = [consumer EXCEPT ![c] = new]
    BY <1>2, <1>t DEF ChunksSince
  <2>4. UNCHANGED <<audience, rows, pen, marks, consumed, misplaced, placed, index, pager, text>>
    BY <1>2 DEF ChunksSince, consumersUnchanged
  <2>5. new.mark <= LatestMark(marks)
    BY <1>2, <2>2, <1>c DEF ChunksSince, BatchWhole
  <2>6. ASSUME NEW i \in rows, new.mark < i, i <= LatestMark(batch) PROVE i \in batch
    <3> DEFINE S == {j \in rows : j > consumer[c].mark}
    <3>1. LatestMark(batch) \in batch \cup {-1} /\ LatestMark(batch) \in Int
      BY <2>1, <1>t, LatestMarkIs
    <3>2. i \in Int /\ i >= 0
      BY <1>t
    <3>3. LatestMark(batch) \in batch
      BY <3>1, <3>2, <2>6
    <3>4. S \subseteq 0..MaxIndex /\ i \in S
      BY <1>t, <2>2, <2>6
    <3>5. batch = {j \in S : Rank(S, j) < FetchLimit}
      BY DEF AfterIndex, FirstOf, Rank
    <3>6. LatestMark(batch) \in S /\ Rank(S, LatestMark(batch)) < FetchLimit
      BY <3>3, <3>5
    <3>7. /\ Rank(S, i) <= Rank(S, LatestMark(batch)) /\ Rank(S, i) \in Nat
          /\ Rank(S, LatestMark(batch)) \in Nat
      <4>1. S \subseteq S /\ i \in 0..MaxIndex /\ LatestMark(batch) \in 0..MaxIndex
        BY <3>4, <3>6
      <4> HIDE DEF S
      <4> QED BY <3>4, <4>1, <2>6, RankGrows
    <3>8. Rank(S, i) < FetchLimit
      BY <3>6, <3>7
    <3> QED BY <3>4, <3>5, <3>8
  <2> QED BY <2>1, <2>2, <2>3, <2>4, <2>5, <2>6, ConsumerMoves
<1>3. CASE ForgetChunks(c)
  <2>1. UNCHANGED <<audience, rows, pen, marks, consumed, misplaced, placed, index, pager, text>>
        /\ consumer' = [consumer EXCEPT ![c] = Unread]
    BY <1>3 DEF ForgetChunks, consumersUnchanged
  <2> QED BY <2>1, <1>u, ConsumerMoves
<1>4. CASE FindMark(c) \/ InsertMark(c)
  <2>1. UNCHANGED <<audience, rows, pen, marks, consumed, misplaced, placed, index, pager, text>>
    BY <1>4 DEF FindMark, InsertMark, consumersUnchanged
  <2>2. consumer[c].at \notin {"idle", "marked"}
    BY <1>4 DEF FindMark, InsertMark
  <2>a. PICK at \in {"marked twice", "unmarked", "inserted"} :
          \E new : /\ consumer' = [consumer EXCEPT ![c] = new]
                   /\ new = Unread \/ new = [consumer[c] EXCEPT !.at = at]
    BY <1>4, <1>t DEF FindMark, InsertMark
  <2>3. PICK new : /\ consumer' = [consumer EXCEPT ![c] = new]
                   /\ new = Unread \/ new = [consumer[c] EXCEPT !.at = at]
    BY <2>a
  <2>4. CASE new = Unread
    BY <2>1, <2>3, <2>4, <1>u, ConsumerMoves
  <2>5. CASE new = [consumer[c] EXCEPT !.at = at]
    <3>1. /\ new \in BatchOf /\ new.batch = consumer[c].batch /\ new.mark = consumer[c].mark
      BY <2>5, <1>c DEF BatchOf
    <3>2. /\ new.mark <= LatestMark(marks)
          /\ new.batch # {} /\ new.batch \subseteq rows
          /\ \A i \in rows : new.mark < i /\ i <= LatestMark(new.batch) => i \in new.batch \cup misplaced
      BY <2>2, <3>1, <1>c DEF BatchWhole, Reached
    <3> QED BY <2>1, <2>3, <3>1, <3>2, ConsumerMoves
  <2> QED BY <2>3, <2>4, <2>5
<1>5. CASE CommitMark(c)
  <2> PICK batch : batch = consumer[c].batch
    OBVIOUS
  <2> PICK reached : reached = Reached(c)
    OBVIOUS
  <2>1. /\ consumed' = consumed \cup batch /\ marks' = marks \cup {reached}
        /\ consumer' = [consumer EXCEPT ![c] = Unread]
        /\ UNCHANGED <<audience, rows, pen, misplaced, placed, index, pager, text>>
        /\ consumer[c].at \notin {"idle", "marked"}
    BY <1>5 DEF CommitMark, consumersUnchanged
  <2>2. /\ batch # {} /\ batch \subseteq rows /\ consumer[c].mark <= LatestMark(marks)
        /\ \A i \in rows : consumer[c].mark < i /\ i <= reached => i \in batch \cup misplaced
    BY <2>1, <1>c DEF BatchWhole
  <2>3. reached \in batch /\ reached \in Int
    <3>1. /\ reached \in batch \cup {-1} /\ reached \in Int /\ \A n \in batch : n <= reached
      <4>1. reached = LatestMark(batch)
        BY DEF Reached
      <4>2. batch \subseteq 0..MaxIndex
        BY <2>2, <1>t
      <4> HIDE <2>1
      <4> QED BY <4>1, <4>2, LatestMarkIs
    <3>2. \A n \in batch : n \in Int /\ n >= 0
      BY <2>2, <1>t
    <3>3. PICK n \in batch : n <= reached /\ n \in Int /\ n >= 0
      BY <2>2, <3>1, <3>2
    <3>4. reached # -1
      BY <3>1, <3>3
    <3> QED BY <3>1, <3>4
  <2>4. marks' \subseteq rows /\ marks' \subseteq 0..MaxIndex
    BY <2>1, <2>2, <2>3, <1>t
  <2> PICK top : top = LatestMark(marks')
    OBVIOUS
  <2>5. top \in marks' \cup {-1} /\ top \in Int /\ \A n \in marks' : n <= top
    BY <2>4, LatestMarkIs
  <2>6. LatestMark(marks) <= top /\ (top = LatestMark(marks) \/ top = reached)
    <3>1. \A n \in marks' \cup {-1} : n \in Int /\ n >= -1
      BY <2>4
    <3>2. LatestMark(marks) <= top
      BY <1>m, <2>1, <2>5, <3>1
    <3>3. top \in marks \/ top = -1 => top <= LatestMark(marks)
      BY <1>m, <3>1, <2>1
    <3> QED BY <3>2, <3>3, <1>m, <2>1, <2>5
  <2>7. LatestMark(marks)' = top
    BY DEF LatestMark
  <2>8. MarksCover'
    <3> SUFFICES ASSUME NEW i \in rows, i <= top PROVE i \in consumed' \cup misplaced
      BY <2>1, <2>7 DEF MarksCover
    <3>1. i \in Int /\ consumer[c].mark \in Int
      BY <1>t, <1>d
    <3>2. CASE i <= LatestMark(marks)
      BY <3>2, <2>1, <1>t DEF MarksCover
    <3>3. CASE ~ (i <= LatestMark(marks))
      <4>1. top = reached /\ consumer[c].mark < i
        BY <3>1, <3>3, <2>2, <2>6, <1>m
      <4> QED BY <4>1, <2>1, <2>2
    <3> QED BY <3>2, <3>3
  <2>9. /\ consumer'[c] = Unread /\ \A d \in Consumer : d # c => consumer'[d] = consumer[d]
        /\ consumer' \in [Consumer -> BatchOf]
    BY <2>1, <1>u, <1>t
  <2>10. \A d \in Consumer : BatchWhole(d)'
    <3> TAKE d \in Consumer
    <3>1. CASE d = c
      BY <3>1, <2>9, <1>u DEF BatchWhole
    <3>2. CASE d # c
      <4>1. BatchWhole(d) /\ consumer'[d] = consumer[d] /\ consumer[d].mark \in Int
        BY <3>2, <2>9, <1>t, <1>d
      <4>2. Reached(d)' = Reached(d)
        BY <4>1 DEF Reached, LatestMark
      <4>3. consumer[d].mark <= LatestMark(marks) => consumer[d].mark <= top
        BY <4>1, <2>5, <2>6, <1>m
      <4> QED BY <4>1, <4>2, <4>3, <2>1, <2>7 DEF BatchWhole
    <3> QED BY <3>1, <3>2
  <2>11. ReadersTypes'
    <3>1. consumed' \subseteq rows
      BY <2>1, <2>2, <1>t DEF ReadersTypes, ReadersTypeOK
    <3> QED BY <3>1, <2>1, <2>4, <2>9, <1>t DEF ReadersTypes, ReadersTypeOK, BatchOf
  <2>12. PensApart' /\ InSequence' /\ PagesOwe'
    BY <2>1, <1>t, PagerRests, WritersRest
  <2>13. TextBegins' /\ CountHolds'
    BY <2>1, <1>t DEF TextBegins, CountHolds
  <2> QED BY <2>8, <2>10, <2>11, <2>12, <2>13 DEF ReadersInv
<1> QED BY <1>1, <1>2, <1>3, <1>4, <1>5

\* Nobody but the client that pages does anything.
LEMMA ReadersRest ==
  ASSUME ReadersInv, pager' \in PagerOf, PagesOwe',
         UNCHANGED <<audience, rows, pen, marks, consumer, consumed, misplaced, placed, index, text>>
  PROVE  ReadersInv'
<1>t. /\ ReadersTypes /\ PensApart /\ InSequence /\ MarksCover /\ \A c \in Consumer : BatchWhole(c)
      /\ TextBegins /\ CountHolds
  BY DEF ReadersInv
<1>1. ReadersTypes'
  BY <1>t DEF ReadersTypes, ReadersTypeOK, PagerOf
<1>2. PensApart' /\ InSequence' /\ MarksCover' /\ \A c \in Consumer : BatchWhole(c)'
  BY <1>t, WritersRest, ConsumersRest
<1>3. TextBegins' /\ CountHolds'
  BY <1>t DEF TextBegins, CountHolds
<1> QED BY <1>1, <1>2, <1>3 DEF ReadersInv

\* A page by the ranks of its chunks.
LEMMA PageOf ==
  ASSUME NEW page, NEW a, NEW b, a = (page - 1) * PageSize, b = page * PageSize
  PROVE  GetByTranscript(page) = {i \in rows : a <= Rank(rows, i) /\ Rank(rows, i) < b}
BY DEF GetByTranscript, Rank

\* The client reads a page.
LEMMA PageStep ==
  ASSUME ReadersInv, GetChunks
  PROVE  ReadersInv'
<1> USE ReadersAssumption
<1>t. /\ ReadersTypes /\ PensApart /\ InSequence /\ MarksCover /\ \A c \in Consumer : BatchWhole(c)
      /\ PagesOwe /\ TextBegins /\ CountHolds /\ pager \in PagerOf /\ rows \subseteq 0..MaxIndex
  BY DEF ReadersInv, ReadersTypes, ReadersTypeOK, PagerOf
<1>p. PICK p : p = pager.page
  OBVIOUS
<1>a. PICK a : a = p * PageSize
  OBVIOUS
<1>rest. PICK rest : rest = GetByTranscript(p + 1)
  OBVIOUS
<1>owed. PICK owed : owed = IF p + 1 = 1 THEN rows ELSE pager.owed
  OBVIOUS
<1>seen. PICK seen : seen = pager.seen \cup rest
  OBVIOUS
<1>1. /\ p \in 0..MaxIndex + 1 /\ p \in Nat /\ a \in Nat /\ p <= a
      /\ (p + 1) * PageSize = a + PageSize /\ (p + 1 - 1) * PageSize = a
  <2>1. p \in 0..MaxIndex + 1 /\ p \in Nat
    BY <1>t, <1>p DEF PagerOf
  <2>2. PageSize \in Nat /\ PageSize >= 1
    OBVIOUS
  <2>3. a \in Nat /\ p <= a
    BY <1>a, <2>1, <2>2
  <2>4. (p + 1) * PageSize = a + PageSize /\ (p + 1 - 1) * PageSize = a
    BY <1>a, <2>1, <2>2
  <2> QED BY <2>1, <2>3, <2>4
<1>2. rest = {i \in rows : a <= Rank(rows, i) /\ Rank(rows, i) < a + PageSize}
  <2>1. GetByTranscript(p + 1) = {i \in rows : a <= Rank(rows, i) /\ Rank(rows, i) < a + PageSize}
    BY <1>1, PageOf
  <2> QED BY <2>1, <1>rest
<1>3. pager' = IF Cardinality(rest) = PageSize
               THEN [page |-> p + 1, seen |-> seen, owed |-> owed]
               ELSE [page |-> 0, seen |-> {}, owed |-> owed \ seen]
  BY <1>p, <1>rest, <1>owed, <1>seen, Zenon DEF GetChunks
<1>4. UNCHANGED <<audience, rows, pen, marks, consumer, consumed, misplaced, placed, index, text>>
  BY DEF GetChunks, othersUnchanged
<1>5. \A i \in rows : Rank(rows, i) \in Nat /\ Rank(rows, i) <= i /\ i \in 0..MaxIndex
  BY <1>t, RankTyped
<1>6. \A i \in owed : i \in rows /\ (i \in seen \/ Rank(rows, i) >= a + PageSize)
  <2> TAKE i \in owed
  <2>1. i \in rows /\ (i \in pager.seen \/ Rank(rows, i) >= a)
    <3>1. CASE p = 0
      <4>1. owed = rows /\ a = 0
        BY <3>1, <1>owed, <1>a
      <4> QED BY <4>1, <1>5
    <3>2. CASE p # 0
      BY <3>2, <1>1, <1>t, <1>owed, <1>p, <1>a DEF PagesOwe
    <3> QED BY <3>1, <3>2
  <2>2. Rank(rows, i) >= a => i \in rest \/ Rank(rows, i) >= a + PageSize
    BY <2>1, <1>1, <1>2, <1>5
  <2> QED BY <2>1, <2>2, <1>seen
<1>7. /\ seen \subseteq 0..MaxIndex /\ owed \subseteq 0..MaxIndex
  BY <1>2, <1>t, <1>owed, <1>seen DEF PagerOf
<1>8. CASE Cardinality(rest) = PageSize
  <2>1. rest # {}
    <3>1. Cardinality(rest) # 0
      BY <1>8
    <3> QED BY <3>1, FS_EmptySet
  <2>2. PICK i \in rows : Rank(rows, i) >= a
    BY <2>1, <1>2
  <2>3. p <= MaxIndex
    BY <2>2, <1>1, <1>5
  <2>4. /\ pager'.page = p + 1 /\ pager'.seen = seen /\ pager'.owed = owed /\ pager' \in PagerOf
    <3>1. p + 1 \in 0..MaxIndex + 1
      <4>1. p \in Nat
        BY <1>1
      <4> QED BY <4>1, <2>3
    <3>2. pager' = [page |-> p + 1, seen |-> seen, owed |-> owed]
      BY <1>3, <1>8
    <3> QED BY <3>1, <3>2, <1>7 DEF PagerOf
  <2>5. PagesOwe'
    <3>1. \A j \in owed : j \in rows /\ (j \in seen \/ Rank(rows, j) >= (p + 1) * PageSize)
      BY <1>6, <1>1
    <3>2. \E j \in rows : Rank(rows, j) >= (p + 1 - 1) * PageSize
      BY <2>2, <1>1
    <3>3. rows' = rows /\ p + 1 # 0 /\ \A j : Rank(rows', j) = Rank(rows, j)
      BY <1>1, <1>4
    <3>4. \A j \in pager'.owed : j \in rows' /\ (j \in pager'.seen
                                                \/ Rank(rows', j) >= pager'.page * PageSize)
      BY <2>4, <3>1, <3>3
    <3>5. \E j \in rows' : Rank(rows', j) >= (pager'.page - 1) * PageSize
      <4>1. pager'.page = p + 1 /\ p \in Nat
        BY <2>4, <1>1
      <4> PICK x : x = pager'.page
        OBVIOUS
      <4>2. (x - 1) * PageSize = (p + 1 - 1) * PageSize
        BY <4>1
      <4> QED BY <4>2, <1>1, <2>2, <3>3
    <3>6. pager'.page # 0
      BY <2>4, <3>3
    <3> QED BY <3>4, <3>5, <3>6 DEF PagesOwe, Rank
  <2> QED BY <2>4, <2>5, <1>4, <1>t, ReadersRest
<1>9. CASE Cardinality(rest) # PageSize
  <2>1. owed \subseteq seen
    <3> SUFFICES ASSUME NEW i \in owed, i \notin seen PROVE FALSE
      OBVIOUS
    <3>1. i \in rows /\ Rank(rows, i) >= a + PageSize
      BY <1>6
    <3>2. Cardinality(rest) = PageSize
      BY <3>1, <1>1, <1>2, <1>t, PageFull
    <3> QED BY <3>2, <1>9
  <2>2. /\ pager'.page = 0 /\ pager'.seen = {} /\ pager'.owed = {} /\ pager' \in PagerOf
    BY <1>3, <1>9, <2>1 DEF PagerOf
  <2>3. PagesOwe'
    BY <2>2 DEF PagesOwe
  <2> QED BY <2>2, <2>3, <1>4, <1>t, ReadersRest
<1> QED BY <1>8, <1>9

\* Every step of the service keeps the invariant.
LEMMA ReadersStep == ReadersInv /\ [ReadersNext]_readersVars => ReadersInv'
<1> SUFFICES ASSUME ReadersInv, [ReadersNext]_readersVars PROVE ReadersInv'
  OBVIOUS
<1> USE ReadersAssumption
<1>t. /\ ReadersTypes /\ PensApart /\ InSequence /\ MarksCover /\ \A c \in Consumer : BatchWhole(c)
      /\ PagesOwe /\ TextBegins /\ CountHolds /\ rows \subseteq 0..MaxIndex /\ pager \in PagerOf
      /\ pen \in [Penman -> PenOf]
      /\ index \in [at : {"idle", "locked", "counted"}, counted : SUBSET (0..MaxIndex)]
  BY DEF ReadersInv, ReadersTypes, ReadersTypeOK, PagerOf, PenOf
<1>1. CASE UNCHANGED readersVars
  <2>1. UNCHANGED <<audience, rows, pen, marks, consumer, consumed, misplaced, placed, index, pager, text>>
    BY <1>1 DEF readersVars
  <2>2. PagesOwe'
    BY <2>1, <1>t, PagerRests
  <2> QED BY <2>1, <2>2, <1>t, ReadersRest
<1>2. ASSUME NEW w \in Penman, InsertRow(w) \/ DropRow(w) PROVE ReadersInv'
  BY <1>2, PensStep
<1>3. ASSUME NEW w \in Penman, NEW i \in 0..MaxIndex, PickIndex(w, i) PROVE ReadersInv'
  BY <1>3, PensStep
<1>4. ASSUME NEW w \in Penman, CommitRow(w) PROVE ReadersInv'
  <2> PICK i : i = pen[w].index
    OBVIOUS
  <2>1. i \in 0..MaxIndex
    BY <1>t DEF PenOf
  <2> QED BY <1>4, <2>1, ChunkAppears
<1>5. ASSUME NEW i \in 0..MaxIndex, PlaceChunk(i) PROVE ReadersInv'
  BY <1>5, ChunkAppears
<1>6. ASSUME NEW c \in Consumer,
             GetLatestMark(c) \/ ChunksSince(c) \/ FindMark(c) \/ InsertMark(c) \/ CommitMark(c)
               \/ ForgetChunks(c)
      PROVE  ReadersInv'
  BY <1>6, ConsumerStep
<1>7. CASE GetChunks
  BY <1>7, PageStep
<1>8. CASE ReadText
  <2>1. /\ UNCHANGED <<audience, rows, pen, marks, consumer, consumed, misplaced, placed, index, pager>>
        /\ text' = rows
    <3>1. \A i \in rows : -1 < i /\ i <= MaxIndex
      BY <1>t
    <3> QED BY <1>8, <3>1 DEF ReadText, othersUnchanged, Reconstruct
  <2>2. ReadersTypes'
    BY <2>1, <1>t DEF ReadersTypes, ReadersTypeOK
  <2>3. PensApart' /\ InSequence' /\ PagesOwe' /\ MarksCover' /\ \A c \in Consumer : BatchWhole(c)'
    BY <2>1, <1>t, WritersRest, PagerRests, ConsumersRest
  <2>4. TextBegins'
    BY <2>1 DEF TextBegins, Begins
  <2>5. CountHolds'
    BY <2>1, <1>t DEF CountHolds
  <2> QED BY <2>2, <2>3, <2>4, <2>5 DEF ReadersInv
<1>9. CASE LockIndexed \/ CountChunks \/ CommitIndex
  <2>1. UNCHANGED <<audience, rows, pen, marks, consumer, consumed, misplaced, placed, pager, text>>
    BY <1>9 DEF LockIndexed, CountChunks, CommitIndex, othersUnchanged
  <2>2. /\ index' \in [at : {"idle", "locked", "counted"}, counted : SUBSET (0..MaxIndex)]
        /\ index'.at = "counted" => index'.counted = rows
        /\ index'.at # "idle" => \A w \in Penman : ~ HoldsShare(w)
    BY <1>9, <1>t DEF LockIndexed, CountChunks, CommitIndex, TranscriptFree, PensApart
  <2>3. ReadersTypes'
    BY <2>1, <2>2, <1>t DEF ReadersTypes, ReadersTypeOK
  <2>4. PensApart'
    BY <2>1, <2>2, <1>t DEF PensApart, HoldsShare
  <2>5. InSequence' /\ TextBegins'
    BY <2>1, <1>t DEF InSequence, TextBegins
  <2>6. PagesOwe' /\ MarksCover' /\ \A c \in Consumer : BatchWhole(c)'
    BY <2>1, <1>t, PagerRests, ConsumersRest
  <2>7. CountHolds'
    BY <2>1, <2>2 DEF CountHolds
  <2> QED BY <2>3, <2>4, <2>5, <2>6, <2>7 DEF ReadersInv
<1> QED BY <1>1, <1>2, <1>3, <1>4, <1>5, <1>6, <1>7, <1>8, <1>9 DEF ReadersNext

\* What the suite asks follows from the invariant.
LEMMA ReadersImplies == ReadersInv => ReadersTypeOK /\ ReadersSound
<1> SUFFICES ASSUME ReadersInv PROVE ReadersTypeOK /\ ReadersSound
  OBVIOUS
<1>1. /\ ReadersTypeOK /\ rows \subseteq 0..MaxIndex
  BY DEF ReadersInv, ReadersTypes, ReadersTypeOK
<1>2. NothingSkipped
  BY DEF ReadersInv, NothingSkipped, MarksCover, InSequence
<1>3. Reconstruct(-1, MaxIndex) = rows
  <2>1. \A i \in rows : -1 < i /\ i <= MaxIndex
    BY <1>1, ReadersAssumption
  <2> QED BY <2>1 DEF Reconstruct
<1>4. ReadersAgree
  BY <1>3 DEF ReadersInv, ReadersAgree, PagesOwe, TextBegins, CountHolds
<1> QED BY <1>1, <1>2, <1>4 DEF ReadersSound

-----------------------------------------------------------------------------
(* ResearchPlans.  Invariant: what the log of a plan tells is its row.     *)

\* A row of the log of a plan.
PlanEventType ==
  [type : {"plan_created", "plan_revised", "plan_completed", "plan_abandoned"}, revision : 0..MaxRevision]

\* The plan is on record; while an insert is not committed it is the only one, and
\* there is no plan.
PlanInv ==
  /\ PlanTypeOK
  /\ planEvents \in Seq(PlanEventType)
  /\ PlanOnRecord
  /\ plan.status = "absent" <=> Len(planEvents) = 0
  /\ \A a, b \in Author : author[a] = "inserted" => plan.status = "absent" /\ (author[b] = "inserted" => a = b)

\* The invariant holds at the start.
LEMMA PlanInitially == PlanInit => PlanInv
<1> SUFFICES ASSUME PlanInit PROVE PlanInv
  OBVIOUS
<1> USE PlanAssumption
<1>1. PlanTypeOK
  BY DEF PlanInit, PlanTypeOK
<1>2. planEvents = <<>> /\ Len(planEvents) = 0 /\ planEvents \in Seq(PlanEventType)
  BY DEF PlanInit
<1>3. PlanOnRecord
  BY <1>2 DEF PlanInit, PlanOnRecord, PlanOver
<1> QED BY <1>1, <1>2, <1>3 DEF PlanInv, PlanInit

\* An operation on an open plan that writes an event.
LEMMA PlanLogged ==
  ASSUME PlanInv, NEW type, NEW r \in 0..MaxRevision,
         planEvents' = Append(planEvents, PlanEvent(type, r)),
         type \in {"plan_revised", "plan_completed", "plan_abandoned"},
         plan.status \in PlanOpen,
         r = plan.revision + (IF type = "plan_revised" THEN 1 ELSE 0),
         plan'.revision = r,
         plan'.status # "absent",
         plan'.status \in PlanOver <=> type # "plan_revised"
  PROVE  planEvents' \in Seq(PlanEventType) /\ PlanOnRecord' /\ (plan'.status = "absent" <=> Len(planEvents') = 0)
<1> DEFINE n == Len(planEvents)
<1> USE PlanAssumption
<1>1. planEvents \in Seq(PlanEventType) /\ PlanOnRecord /\ plan.status # "absent" /\ plan.status \notin PlanOver /\ n # 0
  BY DEF PlanInv, PlanOpen, PlanOver
<1>2. PlanEvent(type, r) \in PlanEventType
  BY DEF PlanEvent, PlanEventType
<1>3. n \in Nat /\ Len(planEvents') = n + 1 /\ planEvents' \in Seq(PlanEventType)
  BY <1>1, <1>2
<1>4. /\ planEvents'[n + 1] = PlanEvent(type, r)
      /\ \A i \in 1..n : planEvents'[i] = planEvents[i]
  BY <1>1, <1>2
<1>5. PlanEvent(type, r).type = type /\ PlanEvent(type, r).revision = r
  BY DEF PlanEvent
<1>6. /\ \A i \in 1..n : planEvents[i].type = "plan_created" <=> i = 1
      /\ \A i \in 2..n : planEvents[i].revision =
           planEvents[i - 1].revision + (IF planEvents[i].type = "plan_revised" THEN 1 ELSE 0)
      /\ plan.revision = (IF n = 0 THEN 0 ELSE planEvents[n].revision)
      /\ \A i \in 1..n : planEvents[i].type \in {"plan_completed", "plan_abandoned"} => i = n
      /\ plan.status \in PlanOver <=>
           n > 0 /\ planEvents[n].type \in {"plan_completed", "plan_abandoned"}
      /\ (\E a \in Author : author[a] = "returned") => plan.status # "absent"
  BY <1>1 DEF PlanOnRecord
<1> HIDE DEF n
<1>7. \A i \in 1..(n + 1) : planEvents'[i].type = "plan_created" <=> i = 1
  <2> SUFFICES ASSUME NEW i \in 1..(n + 1) PROVE planEvents'[i].type = "plan_created" <=> i = 1
    OBVIOUS
  <2>1. CASE i \in 1..n
    BY <2>1, <1>4, <1>6
  <2>2. CASE i = n + 1
    <3>1. i # 1 /\ type # "plan_created"
      BY <2>2, <1>1, <1>3
    <3> QED BY <2>2, <3>1, <1>4, <1>5
  <2> QED BY <2>1, <2>2, <1>3
<1>8. \A i \in 2..(n + 1) : planEvents'[i].revision =
         planEvents'[i - 1].revision + (IF planEvents'[i].type = "plan_revised" THEN 1 ELSE 0)
  <2> SUFFICES ASSUME NEW i \in 2..(n + 1)
               PROVE planEvents'[i].revision =
                 planEvents'[i - 1].revision + (IF planEvents'[i].type = "plan_revised" THEN 1 ELSE 0)
    OBVIOUS
  <2>1. CASE i \in 2..n
    BY <2>1, <1>3, <1>4, <1>6
  <2>2. CASE i = n + 1
    BY <2>2, <1>1, <1>3, <1>4, <1>5, <1>6
  <2> QED BY <2>1, <2>2, <1>3
<1>9. \A i \in 1..(n + 1) : planEvents'[i].type \in {"plan_completed", "plan_abandoned"} => i = n + 1
  BY <1>1, <1>3, <1>4, <1>5, <1>6
<1>10. PlanOnRecord'
  <2>1. plan'.revision = (IF n + 1 = 0 THEN 0 ELSE planEvents'[n + 1].revision)
    BY <1>3, <1>4, <1>5
  <2>2. plan'.status \in PlanOver <=>
          n + 1 > 0 /\ planEvents'[n + 1].type \in {"plan_completed", "plan_abandoned"}
    BY <1>3, <1>4, <1>5
  <2> QED BY <1>3, <1>7, <1>8, <1>9, <2>1, <2>2 DEF PlanOnRecord
<1> QED BY <1>3, <1>10

\* The types hold on.
LEMMA PlanTypes == PlanInv /\ [PlanNext]_planVars => PlanTypeOK'
<1> SUFFICES ASSUME PlanInv, [PlanNext]_planVars PROVE PlanTypeOK'
  OBVIOUS
<1> USE PlanAssumption DEF PlanTypeOK, PlanOpen, PlanOver
<1>0. PlanTypeOK
  BY DEF PlanInv
<1>1. ASSUME NEW a \in Author, LookUpPlan(a) \/ InsertPlan(a) \/ AbortPlan(a) PROVE PlanTypeOK'
  BY <1>0, <1>1 DEF LookUpPlan, InsertPlan, AbortPlan
<1>2. ASSUME NEW a \in Author, CommitPlan(a) PROVE PlanTypeOK'
  BY <1>0, <1>2 DEF CommitPlan
<1>3. CASE \E newSteps \in BOOLEAN : RevisePlan(newSteps)
  <2>1. PICK newSteps \in BOOLEAN : RevisePlan(newSteps)
    BY <1>3
  <2>2. PICK k, t : /\ k = (IF newSteps THEN plan.revision + 1 ELSE plan.steps)
                    /\ t = (IF plan.status = "active" THEN "revised" ELSE plan.status)
    OBVIOUS
  <2>3. plan' = [plan EXCEPT !.revision = plan.revision + 1, !.steps = k, !.status = t]
    BY <2>1, <2>2, <1>0 DEF RevisePlan
  <2>4. k \in 0..MaxRevision /\ plan.revision + 1 \in 0..MaxRevision
    BY <2>1, <2>2, <1>0 DEF RevisePlan
  <2>5. t \in {"absent"} \cup PlanOpen \cup PlanOver
    BY <2>2, <1>0
  <2> QED BY <2>1, <2>3, <2>4, <2>5, <1>0 DEF RevisePlan
<1>4. CASE ActivatePlan \/ CheckpointPlan \/ CompletePlan \/ AbandonPlan
  BY <1>0, <1>4 DEF ActivatePlan, CheckpointPlan, CompletePlan, AbandonPlan
<1>5. CASE UNCHANGED planVars
  BY <1>0, <1>5 DEF planVars
<1> QED BY <1>1, <1>2, <1>3, <1>4, <1>5 DEF PlanNext

\* Every step of the service keeps the invariant.
LEMMA PlanStep == PlanInv /\ [PlanNext]_planVars => PlanInv'
<1> SUFFICES ASSUME PlanInv, [PlanNext]_planVars PROVE PlanInv'
  OBVIOUS
<1> USE PlanAssumption
<1>0. PlanTypeOK'
  BY PlanTypes
<1>t. PlanTypeOK
  BY DEF PlanInv
<1>a. ASSUME author' = author, plan' .status = "absent" <=> plan.status = "absent"
      PROVE  \A a, b \in Author :
               author'[a] = "inserted" => plan'.status = "absent" /\ (author'[b] = "inserted" => a = b)
  BY <1>a DEF PlanInv
<1>b. ASSUME planEvents' = planEvents, author' = author, plan'.revision = plan.revision,
             plan'.status \in PlanOver <=> plan.status \in PlanOver,
             plan'.status = "absent" <=> plan.status = "absent"
      PROVE  PlanInv'
  <2>1. PlanOnRecord'
    BY <1>b DEF PlanInv, PlanOnRecord
  <2> QED BY <2>1, <1>0, <1>a, <1>b DEF PlanInv
<1>1. ASSUME NEW a \in Author, LookUpPlan(a) \/ InsertPlan(a) \/ AbortPlan(a) PROVE PlanInv'
  <2>1. plan' = plan /\ planEvents' = planEvents
    BY <1>1 DEF LookUpPlan, InsertPlan, AbortPlan
  <2>2. PICK to : author' = [author EXCEPT ![a] = to] /\ (to = "returned" => plan.status # "absent")
                  /\ (to = "inserted" => plan.status = "absent" /\ \A b \in Author : author[b] # "inserted")
    BY <1>1 DEF LookUpPlan, InsertPlan, AbortPlan
  <2>3. PlanOnRecord'
    BY <1>t, <2>1, <2>2 DEF PlanInv, PlanOnRecord, PlanTypeOK
  <2>4. \A c, d \in Author :
           author'[c] = "inserted" => plan'.status = "absent" /\ (author'[d] = "inserted" => c = d)
    BY <1>t, <2>1, <2>2 DEF PlanInv, PlanTypeOK
  <2> QED BY <1>0, <2>1, <2>3, <2>4 DEF PlanInv
<1>2. ASSUME NEW a \in Author, CommitPlan(a) PROVE PlanInv'
  <2>1. plan.status = "absent" /\ Len(planEvents) = 0 /\ planEvents \in Seq(PlanEventType) /\ plan.revision = 0
    BY <1>2 DEF CommitPlan, PlanInv, PlanOnRecord
  <2>2. planEvents' = <<PlanEvent("plan_created", 0)>>
    BY <1>2, <2>1 DEF CommitPlan
  <2>3. PlanEvent("plan_created", 0) \in PlanEventType
    BY DEF PlanEvent, PlanEventType
  <2>4. Len(planEvents') = 1 /\ planEvents' \in Seq(PlanEventType) /\ planEvents'[1] = PlanEvent("plan_created", 0)
    BY <2>2, <2>3
  <2>5. plan'.status = "draft" /\ plan'.revision = 0
    BY <1>2, <1>t, <2>1 DEF CommitPlan, PlanTypeOK
  <2>6. PlanOnRecord'
    BY <2>4, <2>5 DEF PlanOnRecord, PlanEvent, PlanOver
  <2>7. \A c \in Author : author'[c] # "inserted"
    BY <1>2, <1>t DEF CommitPlan, PlanInv, PlanTypeOK
  <2> QED BY <1>0, <2>4, <2>5, <2>6, <2>7 DEF PlanInv
<1>3. ASSUME NEW newSteps \in BOOLEAN, RevisePlan(newSteps) PROVE PlanInv'
  <2>1. /\ plan.status \in PlanOpen /\ plan.revision + 1 \in 0..MaxRevision
        /\ plan'.revision = plan.revision + 1 /\ plan'.status \in {"draft", "revised"}
        /\ planEvents' = Append(planEvents, PlanEvent("plan_revised", plan.revision + 1)) /\ author' = author
    BY <1>3, <1>t DEF RevisePlan, PlanOpen, PlanTypeOK
  <2>2. planEvents' \in Seq(PlanEventType) /\ PlanOnRecord' /\ (plan'.status = "absent" <=> Len(planEvents') = 0)
    BY <2>1, PlanLogged DEF PlanOver
  <2>3. plan'.status = "absent" <=> plan.status = "absent"
    BY <2>1 DEF PlanOpen
  <2> QED BY <1>0, <2>1, <2>2, <2>3, <1>a DEF PlanInv
<1>4. CASE CompletePlan \/ AbandonPlan
  <2>1. /\ plan.status \in PlanOpen /\ plan.revision \in 0..MaxRevision
        /\ plan'.revision = plan.revision /\ plan'.status \in PlanOver /\ author' = author
    BY <1>4, <1>t DEF CompletePlan, AbandonPlan, PlanOpen, PlanOver, PlanTypeOK
  <2>2. PICK type \in {"plan_completed", "plan_abandoned"} :
          planEvents' = Append(planEvents, PlanEvent(type, plan.revision))
    BY <1>4 DEF CompletePlan, AbandonPlan
  <2>3. planEvents' \in Seq(PlanEventType) /\ PlanOnRecord' /\ (plan'.status = "absent" <=> Len(planEvents') = 0)
    <3>1. plan.revision = plan.revision + 0 /\ type # "plan_revised" /\ plan'.status # "absent"
      BY <2>1, <2>2 DEF PlanOver
    <3> QED BY <2>1, <2>2, <3>1, PlanLogged
  <2>4. plan'.status = "absent" <=> plan.status = "absent"
    BY <2>1 DEF PlanOpen, PlanOver
  <2> QED BY <1>0, <2>1, <2>3, <2>4, <1>a DEF PlanInv
<1>5. CASE ActivatePlan \/ CheckpointPlan
  <2>1. /\ planEvents' = planEvents /\ author' = author /\ plan'.revision = plan.revision
        /\ plan'.status \in PlanOver <=> plan.status \in PlanOver
        /\ plan'.status = "absent" <=> plan.status = "absent"
    BY <1>5, <1>t DEF ActivatePlan, CheckpointPlan, PlanOver, PlanTypeOK
  <2> QED BY <2>1, <1>b
<1>6. CASE UNCHANGED planVars
  BY <1>6, <1>b DEF planVars
<1> QED BY <1>1, <1>2, <1>3, <1>4, <1>5, <1>6 DEF PlanNext

-----------------------------------------------------------------------------
(* ResearchSafety.  Invariant: how far the grants together can reach.      *)

\* The most that a task costs, those who have a grant, and what has been added, also
\* by the transaction that is open.
TopCost == CHOOSE c \in Cost : \A d \in Cost : d <= c
Granted == {r \in Runner : runner[r] = "granted"}
Added   == limits.tokens + charge.sum
Loose   == unchecked + charge.loose

ChargeOK ==
  /\ charge.loose <= charge.sum
  /\ charge.by = {} => charge.sum = 0

\* Whoever has a grant may still add a task.  As long as the ceiling seems kept, because
\* what exceeds it is not committed, the open transaction exceeds it by one task.
TokensBounded ==
  /\ Added + Cardinality(Granted) * TopCost <= MaxTokens + Cardinality(Runner) * TopCost + Loose
  /\ limits.tokens <= MaxTokens =>
       Added + (IF charge.by \cap Granted # {} THEN TopCost ELSE 0)
         <= MaxTokens + TopCost + charge.loose

SafetyInv ==
  /\ SafetyTypeOK
  /\ ChargeOK
  /\ TokensBounded
  /\ limits.age <= ran
  /\ TimeoutIsDue

\* So TopCost is the greatest cost.
LEMMA TopCostIs == TopCost \in Nat /\ \A d \in Cost : d \in Nat /\ d <= TopCost
<1>1. \E c \in Cost : \A d \in Cost : d <= c
  BY SafetyAssumption, GreatestOf
<1> QED BY <1>1, SafetyAssumption DEF TopCost

\* The products of the proof below.
LEMMA Multiples ==
  ASSUME NEW c \in Nat, NEW k \in Int
  PROVE  /\ k * c \in Int /\ (k - 1) * c = k * c - c
         /\ \A n \in Int : k <= n => k * c <= n * c
<1>1. k * c \in Int /\ (k - 1) * c = k * c - c
  OBVIOUS
<1>2. ASSUME NEW n \in Int, k <= n PROVE k * c <= n * c
  <2>1. PICK m \in Nat : n = k + m
    <3>1. n - k \in Nat /\ n = k + (n - k)
      BY <1>2
    <3> QED BY <3>1
  <2>2. n * c = k * c + m * c /\ m * c >= 0
    BY <2>1
  <2> QED BY <2>2, <1>1, <2>1
<1> QED BY <1>1, <1>2

\* There are finitely many grants, and not more than runners.
LEMMA GrantedFinite ==
  /\ IsFiniteSet(Granted) /\ Cardinality(Granted) \in Nat /\ Cardinality(Granted) <= Cardinality(Runner)
  /\ Cardinality(Runner) \in Nat /\ Cardinality(Runner) >= 1
<1>1. Granted \subseteq Runner
  BY DEF Granted
<1>2. IsFiniteSet(Granted) /\ Cardinality(Granted) <= Cardinality(Runner)
  BY <1>1, SafetyAssumption, FS_Subset
<1>3. Cardinality(Granted) \in Nat /\ Cardinality(Runner) \in Nat
  BY <1>2, SafetyAssumption, FS_CardinalityType
<1>4. Cardinality(Runner) # 0
  BY SafetyAssumption, FS_EmptySet
<1> QED BY <1>2, <1>3, <1>4

\* The invariant holds at the start.
LEMMA SafetyInitially == SafetyInit => SafetyInv
<1> SUFFICES ASSUME SafetyInit PROVE SafetyInv
  OBVIOUS
<1> USE SafetyAssumption
<1>1. SafetyTypeOK /\ ChargeOK
  BY DEF SafetyInit, SafetyTypeOK, ChargeOK, NoCharge
<1>2. Granted = {} /\ Cardinality(Granted) = 0
  <2>1. Granted = {}
    BY DEF SafetyInit, Granted
  <2> QED BY <2>1, FS_EmptySet
<1>3. limits.age = 0 /\ ran = 0 /\ TimeoutIsDue
  BY DEF SafetyInit, TimeoutIsDue
<1>4. Added = 0 /\ Loose = 0 /\ charge.loose = 0
  BY DEF SafetyInit, Added, Loose, NoCharge
<1>5. 0 * TopCost <= Cardinality(Runner) * TopCost /\ 0 * TopCost = 0
      /\ Cardinality(Runner) * TopCost \in Int
  BY Multiples, TopCostIs, GrantedFinite
<1>6. TokensBounded
  BY <1>2, <1>4, <1>5, TopCostIs DEF TokensBounded
<1> QED BY <1>1, <1>3, <1>6 DEF SafetyInv

\* The types hold on.
LEMMA SafetyTypes ==
  ASSUME SafetyTypeOK, ChargeOK, limits.age <= ran, [SafetyNext]_safetyVars
  PROVE  SafetyTypeOK' /\ ChargeOK'
<1> USE SafetyAssumption DEF SafetyTypeOK, ChargeOK
<1>1. ASSUME NEW r \in Runner, NEW added \in Cost \cup {0}, CheckBudget(r, added)
      PROVE  SafetyTypeOK' /\ ChargeOK'
  BY <1>1 DEF CheckBudget, tokensUnchanged
<1>2. ASSUME NEW r \in Runner, NEW cost \in Cost, AddTokens(r, cost)
      PROVE  SafetyTypeOK' /\ ChargeOK'
  <2>1. PICK more \in {0, cost} :
          charge' = [by |-> {r}, sum |-> charge.sum + cost, loose |-> charge.loose + more]
    BY <1>2 DEF AddTokens
  <2>2. charge.sum + cost \in Nat /\ charge.loose + more \in Nat
        /\ charge.loose + more <= charge.sum + cost
    <3>1. charge.loose \in Nat /\ charge.sum \in Nat /\ charge.loose <= charge.sum
      OBVIOUS
    <3>2. cost \in Nat /\ more \in {0, cost}
      BY <2>1
    <3> QED BY ONLY <3>1, <3>2
  <2>3. charge' \in [by : {{}} \cup {{q} : q \in Runner}, sum : Nat, loose : Nat]
    <3>1. PICK sum \in Nat, least \in Nat :
            sum = charge.sum + cost /\ least = charge.loose + more
      BY <2>2
    <3> QED BY <2>1, <3>1
  <2>4. runner' \in [Runner -> {"none", "granted", "unchecked"}]
        /\ UNCHANGED <<limits, unchecked, watcher, ran>>
    BY <1>2 DEF AddTokens
  <2> QED BY <2>1, <2>2, <2>3, <2>4
<1>3. ASSUME NEW r \in Runner, RunUnchecked(r) \/ GiveUpRun(r) PROVE SafetyTypeOK' /\ ChargeOK'
  BY <1>3 DEF RunUnchecked, GiveUpRun, tokensUnchanged
<1>4. ASSUME NEW r \in Runner, CommitTokens(r) PROVE SafetyTypeOK' /\ ChargeOK'
  <2>1. limits.tokens + charge.sum \in Nat /\ unchecked + charge.loose \in Nat
    OBVIOUS
  <2> QED BY <1>4, <2>1 DEF CommitTokens, NoCharge
<1>5. ASSUME NEW r \in Runner, RollBackTokens(r) PROVE SafetyTypeOK' /\ ChargeOK'
  BY <1>5 DEF RollBackTokens, NoCharge
<1>6. ASSUME NEW starts \in BOOLEAN, RunJob(starts) PROVE SafetyTypeOK' /\ ChargeOK'
  <2>1. (IF starts THEN 0 ELSE limits.age) \in 0..MaxTicks /\ (limits.started \/ starts) \in BOOLEAN
    OBVIOUS
  <2>2. PICK a, b : a = (IF starts THEN 0 ELSE limits.age) /\ b = (limits.started \/ starts)
    OBVIOUS
  <2>3. limits' = [limits EXCEPT !.status = "running", !.started = b, !.age = a]
    BY <1>6, <2>2 DEF RunJob
  <2> QED BY <1>6, <2>1, <2>2, <2>3 DEF RunJob, jobUnchanged
<1>7. ASSUME NEW status \in {"completed", "failed"}, EndJob(status) \/ HoldJob
      PROVE  SafetyTypeOK' /\ ChargeOK'
  BY <1>7 DEF EndJob, HoldJob, jobUnchanged
<1>8. CASE PassTime
  BY <1>8 DEF PassTime
<1>9. CASE \E w \in Watcher : CheckTimeout(w) \/ CancelTimedOut(w)
  BY <1>9 DEF CheckTimeout, CancelTimedOut
<1>10. CASE UNCHANGED safetyVars
  BY <1>10 DEF safetyVars
<1> QED BY <1>1, <1>2, <1>3, <1>4, <1>5, <1>6, <1>7, <1>8, <1>9, <1>10 DEF SafetyNext

\* The numbers the bounds are made of.
LEMMA TokensTyped ==
  ASSUME SafetyTypeOK
  PROVE  /\ limits.tokens \in Nat /\ charge.sum \in Nat /\ charge.loose \in Nat /\ unchecked \in Nat
         /\ TopCost \in Nat /\ MaxTokens \in Nat /\ Cardinality(Runner) * TopCost \in Int
         /\ Cardinality(Granted) * TopCost \in Int /\ Cardinality(Granted) * TopCost >= 0
<1>1. 0 * TopCost <= Cardinality(Granted) * TopCost /\ 0 * TopCost = 0
  BY Multiples, TopCostIs, GrantedFinite
<1>2. /\ Cardinality(Runner) * TopCost \in Int /\ Cardinality(Granted) * TopCost \in Int
  BY Multiples, TopCostIs, GrantedFinite
<1> QED BY <1>1, <1>2, TopCostIs, SafetyAssumption DEF SafetyTypeOK

\* A new grant: of the budget as r sees it something is left, and what others have
\* not committed exceeds it by one task at most.
LEMMA GrantBounded ==
  ASSUME SafetyTypeOK, ChargeOK, TokensBounded,
         NEW r \in Runner, NEW added \in Cost \cup {0}, CheckBudget(r, added)
  PROVE  TokensBounded'
<1> USE SafetyAssumption
<1>1. /\ limits' = limits /\ charge' = charge /\ unchecked' = unchecked
      /\ Granted' = Granted \cup {r} /\ r \notin Granted
  BY DEF CheckBudget, tokensUnchanged, SafetyTypeOK, Granted
<1>2. TokensSeen(r) <= MaxTokens /\ added \in Nat
  <2>1. TokensSeen(r) + added <= MaxTokens /\ added \in Nat /\ TokensSeen(r) \in Nat
    BY TokensTyped DEF CheckBudget, WithinBudget, TokensSeen
  <2> QED BY <2>1
<1>n. /\ Cardinality(Granted)' \in Nat /\ Cardinality(Granted)' * TopCost \in Int
      /\ Cardinality(Granted)' * TopCost <= Cardinality(Runner) * TopCost
      /\ \A l \in Runner : l \notin Granted' =>
           Cardinality(Granted)' * TopCost + TopCost <= Cardinality(Runner) * TopCost
  <2>1. Granted' \subseteq Runner /\ IsFiniteSet(Granted') /\ Cardinality(Granted)' \in Nat
        /\ Cardinality(Granted)' <= Cardinality(Runner)
    <3>1. Granted' \subseteq Runner
      BY DEF Granted
    <3> QED BY <3>1, FS_Subset, FS_CardinalityType
  <2>2. ASSUME NEW l \in Runner, l \notin Granted'
        PROVE  Cardinality(Granted)' * TopCost + TopCost <= Cardinality(Runner) * TopCost
    <3>1. Cardinality(Runner \ {l}) = Cardinality(Runner) - 1 /\ IsFiniteSet(Runner \ {l})
      BY <2>2, FS_RemoveElement
    <3>2. Granted' \subseteq Runner \ {l}
      BY <2>1, <2>2
    <3>3. Cardinality(Granted)' <= Cardinality(Runner) - 1
      BY <3>1, <3>2, FS_Subset
    <3>4. Cardinality(Granted)' * TopCost <= (Cardinality(Runner) - 1) * TopCost
      BY <2>1, <3>3, GrantedFinite, TopCostIs, Multiples
    <3>5. (Cardinality(Runner) - 1) * TopCost = Cardinality(Runner) * TopCost - TopCost
      BY GrantedFinite, TopCostIs, Multiples
    <3>6. Cardinality(Granted)' * TopCost \in Int
      BY <2>1, TopCostIs, Multiples
    <3> QED BY <3>4, <3>5, <3>6, TokensTyped
  <2> QED BY <2>1, <2>2, GrantedFinite, TopCostIs, Multiples
<1> PICK most \in Int : most = Cardinality(Granted)' * TopCost
  BY <1>n
<1> PICK all \in Int : all = Cardinality(Runner) * TopCost
  BY TokensTyped
<1>3. limits.tokens + charge.sum + most <= MaxTokens + all + unchecked + charge.loose
  <2>1. CASE charge.by = {} \/ r \in charge.by
    <3>1. limits.tokens + charge.sum <= MaxTokens
      BY <1>2, <2>1, TokensTyped DEF TokensSeen, ChargeOK
    <3> QED BY <3>1, <1>n, TokensTyped
  <2>2. CASE charge.by # {} /\ r \notin charge.by
    <3>1. PICK l \in Runner : charge.by = {l} /\ l # r
      BY <2>2 DEF SafetyTypeOK
    <3>2. limits.tokens <= MaxTokens
      BY <1>2, <2>2, TokensTyped DEF TokensSeen
    <3>3. CASE l \in Granted
      <4>1. charge.by \cap Granted # {}
        BY <3>1, <3>3
      <4>2. limits.tokens + charge.sum + TopCost <= MaxTokens + TopCost + charge.loose
        BY <3>2, <4>1 DEF TokensBounded, Added
      <4> QED BY <4>2, <1>n, TokensTyped
    <3>4. CASE l \notin Granted
      <4>1. l \notin Granted' /\ charge.by \cap Granted = {}
        BY <3>1, <3>4, <1>1
      <4>2. most + TopCost <= all
        BY <4>1, <1>n
      <4>3. limits.tokens + charge.sum <= MaxTokens + TopCost + charge.loose
        BY <3>2, <4>1, TokensTyped DEF TokensBounded, Added
      <4> QED BY <4>2, <4>3, TokensTyped
    <3> QED BY <3>3, <3>4
  <2> QED BY <2>1, <2>2
<1>4. limits.tokens <= MaxTokens =>
        limits.tokens + charge.sum + (IF charge.by \cap Granted' # {} THEN TopCost ELSE 0)
          <= MaxTokens + TopCost + charge.loose
  <2>1. CASE r \in charge.by
    <3>1. limits.tokens + charge.sum <= MaxTokens
      BY <1>2, <2>1 DEF TokensSeen
    <3> QED BY <3>1, TokensTyped
  <2>2. CASE r \notin charge.by
    <3>1. charge.by \cap Granted' = charge.by \cap Granted
      BY <1>1, <2>2
    <3> QED BY <3>1 DEF TokensBounded, Added
  <2> QED BY <2>1, <2>2
<1> QED BY <1>1, <1>3, <1>4, TokensTyped DEF TokensBounded, Added, Loose, TopCost

\* Somebody adds the tokens of a task, with its grant or without one.
LEMMA AddBounded ==
  ASSUME SafetyTypeOK, ChargeOK, TokensBounded, NEW r \in Runner, NEW cost \in Cost, AddTokens(r, cost)
  PROVE  TokensBounded'
<1> USE SafetyAssumption
<1>1. PICK more \in {0, cost} :
        /\ charge' = [by |-> {r}, sum |-> charge.sum + cost, loose |-> charge.loose + more]
        /\ more = IF runner[r] = "unchecked" THEN cost ELSE 0
  BY DEF AddTokens
<1>2. /\ limits' = limits /\ unchecked' = unchecked /\ Granted' = Granted \ {r}
      /\ charge.by \subseteq {r} /\ runner[r] \in {"granted", "unchecked"}
  BY DEF AddTokens, Granted, SafetyTypeOK
<1>3. cost \in Nat /\ cost <= TopCost /\ more \in Nat /\ charge'.by \cap Granted' = {}
  BY <1>1, <1>2, TopCostIs
<1>4. /\ Cardinality(Granted)' \in Nat
      /\ runner[r] = "granted" => Cardinality(Granted)' * TopCost = Cardinality(Granted) * TopCost - TopCost
      /\ runner[r] = "unchecked" => Cardinality(Granted)' = Cardinality(Granted)
  <2>1. CASE runner[r] = "granted"
    <3>1. r \in Granted
      BY <2>1 DEF Granted
    <3>2. Cardinality(Granted)' = Cardinality(Granted) - 1 /\ Cardinality(Granted)' \in Nat
      <4>1. Cardinality(Granted \ {r}) = Cardinality(Granted) - 1 /\ IsFiniteSet(Granted \ {r})
        BY <3>1, GrantedFinite, FS_RemoveElement
      <4> QED BY <4>1, <1>2, FS_CardinalityType
    <3> QED BY <2>1, <3>2, GrantedFinite, TopCostIs, Multiples
  <2>2. CASE runner[r] = "unchecked"
    <3>1. r \notin Granted
      BY <2>2 DEF Granted
    <3>2. Granted' = Granted
      BY <3>1, <1>2
    <3> QED BY <2>2, <3>2, GrantedFinite
  <2> QED BY <1>2, <2>1, <2>2
<1> PICK all \in Int : all = Cardinality(Runner) * TopCost
  BY TokensTyped
<1> PICK had \in Int : had = Cardinality(Granted) * TopCost
  BY TokensTyped
<1> PICK has \in Int : has = Cardinality(Granted)' * TopCost
  BY <1>4, TopCostIs, Multiples
<1>5. limits.tokens + charge.sum + had <= MaxTokens + all + unchecked + charge.loose
  BY TokensTyped DEF TokensBounded, Added, Loose
<1>6. limits.tokens + (charge.sum + cost) + has <= MaxTokens + all + (unchecked + (charge.loose + more))
  <2>1. CASE runner[r] = "granted"
    BY <2>1, <1>1, <1>3, <1>4, <1>5, TokensTyped
  <2>2. CASE runner[r] = "unchecked"
    BY <2>2, <1>1, <1>3, <1>4, <1>5, TokensTyped
  <2> QED BY <1>2, <2>1, <2>2
<1>7. ASSUME limits.tokens <= MaxTokens
      PROVE  limits.tokens + (charge.sum + cost) <= MaxTokens + TopCost + (charge.loose + more)
  <2>1. CASE charge.by = {}
    BY <1>7, <2>1, <1>3, TokensTyped DEF ChargeOK
  <2>2. CASE charge.by # {} /\ runner[r] = "granted"
    <3>1. charge.by \cap Granted # {}
      BY <2>2, <1>2 DEF Granted
    <3>2. limits.tokens + charge.sum + TopCost <= MaxTokens + TopCost + charge.loose
      BY <1>7, <3>1 DEF TokensBounded, Added
    <3> QED BY <3>2, <1>3, TokensTyped
  <2>3. CASE charge.by # {} /\ runner[r] = "unchecked"
    <3>1. charge.by \cap Granted = {}
      BY <2>3, <1>2 DEF Granted
    <3>2. limits.tokens + charge.sum <= MaxTokens + TopCost + charge.loose
      BY <1>7, <3>1, TokensTyped DEF TokensBounded, Added
    <3> QED BY <2>3, <3>2, <1>1, <1>3, TokensTyped
  <2> QED BY <1>2, <2>1, <2>2, <2>3
<1>8. charge'.sum = charge.sum + cost /\ charge'.loose = charge.loose + more
  BY <1>1
<1>9. TopCost' = TopCost /\ limits'.tokens = limits.tokens
  BY <1>2 DEF TopCost
<1> QED BY <1>2, <1>3, <1>6, <1>7, <1>8, <1>9, TokensTyped DEF TokensBounded, Added, Loose

\* A transaction ends, or a task is begun without a check or given up: nothing is added,
\* and nobody has a new grant.
LEMMA EndBounded ==
  ASSUME SafetyTypeOK, ChargeOK, TokensBounded, NEW r \in Runner,
         CommitTokens(r) \/ RollBackTokens(r) \/ RunUnchecked(r) \/ GiveUpRun(r)
  PROVE  TokensBounded'
<1> USE SafetyAssumption
<1>1. Granted' \subseteq Granted
  BY DEF CommitTokens, RollBackTokens, RunUnchecked, GiveUpRun, tokensUnchanged, Granted,
         SafetyTypeOK
<1>2. /\ Cardinality(Granted)' \in Nat
      /\ Cardinality(Granted)' * TopCost <= Cardinality(Granted) * TopCost
      /\ Cardinality(Granted)' * TopCost \in Int
  <2>1. Cardinality(Granted)' <= Cardinality(Granted) /\ Cardinality(Granted)' \in Nat
    BY <1>1, GrantedFinite, FS_Subset, FS_CardinalityType
  <2> QED BY <2>1, GrantedFinite, TopCostIs, Multiples
<1> PICK all \in Int : all = Cardinality(Runner) * TopCost
  BY TokensTyped
<1> PICK had \in Int : had = Cardinality(Granted) * TopCost
  BY TokensTyped
<1> PICK has \in Int : has = Cardinality(Granted)' * TopCost
  BY <1>2
<1>3. limits.tokens + charge.sum + had <= MaxTokens + all + unchecked + charge.loose
  BY TokensTyped DEF TokensBounded, Added, Loose
<1>4. CASE CommitTokens(r)
  <2>1. limits'.tokens = limits.tokens + charge.sum /\ unchecked' = unchecked + charge.loose
        /\ charge'.sum = 0 /\ charge'.loose = 0 /\ charge'.by = {}
    BY <1>4 DEF CommitTokens, NoCharge, SafetyTypeOK
  <2>2. TopCost' = TopCost
    BY DEF TopCost
  <2> QED BY <2>1, <2>2, <1>2, <1>3, TokensTyped DEF TokensBounded, Added, Loose
<1>5. CASE RollBackTokens(r)
  <2>1. limits' = limits /\ unchecked' = unchecked
        /\ charge'.sum = 0 /\ charge'.loose = 0 /\ charge'.by = {}
    BY <1>5 DEF RollBackTokens, NoCharge
  <2>2. TopCost' = TopCost /\ charge.loose <= charge.sum
    BY DEF TopCost, ChargeOK
  <2> QED BY <2>1, <2>2, <1>2, <1>3, TokensTyped DEF TokensBounded, Added, Loose
<1>6. CASE RunUnchecked(r) \/ GiveUpRun(r)
  <2>1. limits' = limits /\ unchecked' = unchecked /\ charge' = charge
    BY <1>6 DEF RunUnchecked, GiveUpRun, tokensUnchanged
  <2>2. TopCost' = TopCost
    BY DEF TopCost
  <2>3. limits.tokens + charge.sum + has <= MaxTokens + all + unchecked + charge.loose
    BY <1>2, <1>3, TokensTyped
  <2>4. limits.tokens <= MaxTokens =>
          limits.tokens + charge.sum + (IF charge.by \cap Granted' # {} THEN TopCost ELSE 0)
            <= MaxTokens + TopCost + charge.loose
    <3>1. charge.by \cap Granted' # {} => charge.by \cap Granted # {}
      BY <1>1
    <3> QED BY <3>1, TokensTyped DEF TokensBounded, Added
  <2> QED BY <2>1, <2>2, <2>3, <2>4, TokensTyped DEF TokensBounded, Added, Loose
<1> QED BY <1>4, <1>5, <1>6

\* Every step of the service keeps the invariant.
LEMMA SafetyStep == SafetyInv /\ [SafetyNext]_safetyVars => SafetyInv'
<1> SUFFICES ASSUME SafetyInv, [SafetyNext]_safetyVars PROVE SafetyInv'
  OBVIOUS
<1> USE SafetyAssumption
<1>t. SafetyTypeOK /\ ChargeOK /\ TokensBounded /\ limits.age <= ran /\ TimeoutIsDue
  BY DEF SafetyInv
<1>0. SafetyTypeOK' /\ ChargeOK'
  BY <1>t, SafetyTypes
<1>1. TokensBounded'
  <2>a. ASSUME limits'.tokens = limits.tokens, runner' = runner, charge' = charge,
               unchecked' = unchecked
        PROVE  TokensBounded'
    BY <2>a, <1>t DEF TokensBounded, Granted, Added, Loose, TopCost
  <2>1. ASSUME NEW r \in Runner, NEW added \in Cost \cup {0}, CheckBudget(r, added)
        PROVE  TokensBounded'
    BY <2>1, <1>t, GrantBounded
  <2>2. ASSUME NEW r \in Runner, NEW cost \in Cost, AddTokens(r, cost) PROVE TokensBounded'
    BY <2>2, <1>t, AddBounded
  <2>3. ASSUME NEW r \in Runner,
               CommitTokens(r) \/ RollBackTokens(r) \/ RunUnchecked(r) \/ GiveUpRun(r)
        PROVE  TokensBounded'
    BY <2>3, <1>t, EndBounded
  <2>4. CASE \/ \E starts \in BOOLEAN : RunJob(starts)
             \/ \E status \in {"completed", "failed"} : EndJob(status)
             \/ HoldJob \/ PassTime
    <3>1. ASSUME NEW starts \in BOOLEAN, RunJob(starts) PROVE TokensBounded'
      BY <3>1, <2>a, <1>t DEF RunJob, jobUnchanged, SafetyTypeOK
    <3>2. ASSUME NEW status \in {"completed", "failed"}, EndJob(status) PROVE TokensBounded'
      BY <3>2, <2>a, <1>t DEF EndJob, jobUnchanged, SafetyTypeOK
    <3>3. CASE HoldJob \/ PassTime
      BY <3>3, <2>a, <1>t DEF HoldJob, PassTime, jobUnchanged, SafetyTypeOK
    <3> QED BY <2>4, <3>1, <3>2, <3>3
  <2>5. CASE \E w \in Watcher : CheckTimeout(w) \/ CancelTimedOut(w)
    <3>1. limits'.tokens = limits.tokens /\ UNCHANGED <<runner, charge, unchecked>>
      BY <2>5, <1>t DEF CheckTimeout, CancelTimedOut, SafetyTypeOK
    <3> QED BY <3>1, <2>a
  <2>6. CASE UNCHANGED safetyVars
    BY <2>6, <2>a DEF safetyVars
  <2> QED BY <2>1, <2>2, <2>3, <2>4, <2>5, <2>6 DEF SafetyNext
<1>2. limits'.age <= ran' /\ TimeoutIsDue'
  <2> USE DEF SafetyTypeOK, TimeoutIsDue
  <2>1. CASE \E r \in Runner :
               \/ \E added \in Cost \cup {0} : CheckBudget(r, added)
               \/ \E cost \in Cost : AddTokens(r, cost)
               \/ RunUnchecked(r) \/ CommitTokens(r) \/ RollBackTokens(r) \/ GiveUpRun(r)
    <3>1. limits'.age = limits.age /\ limits'.status = limits.status /\ watcher' = watcher /\ ran' = ran
      BY <2>1, <1>t DEF AddTokens, GiveUpRun, CheckBudget, RunUnchecked, CommitTokens,
                        RollBackTokens, tokensUnchanged
    <3> QED BY <3>1, <1>t
  <2>2. ASSUME NEW starts \in BOOLEAN, RunJob(starts) PROVE limits'.age <= ran' /\ TimeoutIsDue'
    BY <2>2, <1>t DEF RunJob, jobUnchanged
  <2>7. ASSUME NEW status \in {"completed", "failed"}, EndJob(status)
        PROVE  limits'.age <= ran' /\ TimeoutIsDue'
    BY <2>7, <1>t DEF EndJob, jobUnchanged
  <2>8. CASE HoldJob
    BY <2>8, <1>t DEF HoldJob, jobUnchanged
  <2>3. CASE PassTime
    BY <2>3, <1>t DEF PassTime
  <2>4. ASSUME NEW w \in Watcher, CheckTimeout(w) PROVE limits'.age <= ran' /\ TimeoutIsDue'
    BY <2>4, <1>t DEF CheckTimeout, TimedOut
  <2>5. ASSUME NEW w \in Watcher, CancelTimedOut(w) PROVE limits'.age <= ran' /\ TimeoutIsDue'
    BY <2>5, <1>t DEF CancelTimedOut
  <2>6. CASE UNCHANGED safetyVars
    BY <2>6, <1>t DEF safetyVars
  <2> QED BY <2>1, <2>2, <2>3, <2>4, <2>5, <2>6, <2>7, <2>8 DEF SafetyNext
<1> QED BY <1>0, <1>1, <1>2 DEF SafetyInv

\* What the suite asks follows from the invariant.
LEMMA SafetyImplies == SafetyInv => SafetySound
<1> SUFFICES ASSUME SafetyInv PROVE OvershootBounded /\ TimeoutIsDue
  BY DEF SafetySound
<1>1. limits.tokens <= MaxTokens + unchecked + Cardinality(Runner) * TopCost
  <2>1. Added + Cardinality(Granted) * TopCost <= MaxTokens + Cardinality(Runner) * TopCost + Loose
    BY DEF SafetyInv, TokensBounded
  <2>2. charge.loose <= charge.sum
    BY DEF SafetyInv, ChargeOK
  <2> QED BY <2>1, <2>2, TokensTyped DEF SafetyInv, Added, Loose
<1> QED BY <1>1 DEF SafetyInv, OvershootBounded, TopCost

-----------------------------------------------------------------------------
(* ResearchTasks.  Invariant: the tokens of a job are those of its tasks.  *)

\* The completed tasks, and each token they cost.
Finished == {t \in Task : task[t].status = "completed"}
Spent == UNION {{t} \X (1 .. task[t].tokens) : t \in Finished}

\* JobCountersMatch, with names for its parts.
JobInv ==
  /\ ResearchTypeOK
  /\ IsFiniteSet(Spent)
  /\ job.saved <= job.tokensUsed
  /\ job.completedTasks = Cardinality(Finished)
  /\ job.tokensUsed = Cardinality(Spent)

\* There are finitely many of them.
LEMMA DoneFinite == IsFiniteSet(Finished) /\ Cardinality(Finished) \in Nat
<1>1. Finished \subseteq Task
  BY DEF Finished
<1> QED BY <1>1, ResearchAssumption, FS_Subset, FS_CardinalityType

\* The invariant holds at the start.
LEMMA JobInitially == ResearchInit => JobInv
<1> SUFFICES ASSUME ResearchInit PROVE JobInv
  OBVIOUS
<1> USE ResearchAssumption
<1>1. ResearchTypeOK
  BY DEF ResearchInit, ResearchTypeOK, JobStatus, TaskStatus
<1>2. Finished = {} /\ Spent = {}
  BY DEF ResearchInit, Finished, Spent
<1>3. Cardinality({}) = 0 /\ IsFiniteSet({})
  BY FS_EmptySet
<1> QED BY <1>1, <1>2, <1>3 DEF ResearchInit, JobInv

\* A task takes another status; a completed one takes none.
LEMMA TaskMoved ==
  ASSUME ResearchTypeOK, NEW t \in Task, NEW to, MoveTask(t, to)
  PROVE  /\ to \in TaskStatus /\ task[t].status # "completed"
         /\ task' \in [Task -> [status : TaskStatus, retryCount : 0 .. MaxTaskRetries, tokens : Tokens \cup {0}]]
         /\ task'[t].status = to
         /\ \A u \in Task : task'[u].tokens = task[u].tokens /\ (u # t => task'[u] = task[u])
<1>1. to \in TaskStatus /\ task[t].status # "completed"
  BY DEF MoveTask, TaskTransitions, TaskStatus
<1> QED BY <1>1 DEF MoveTask, ResearchTypeOK

\* Completed tasks that stay what they are.
LEMMA DoneKept ==
  ASSUME \A u \in Task : /\ task'[u].status = "completed" <=> task[u].status = "completed"
                         /\ task'[u].tokens = task[u].tokens
  PROVE  Finished' = Finished /\ Spent' = Spent
<1>1. Finished' = Finished
  BY DEF Finished
<1>2. \A t \in Finished : task'[t].tokens = task[t].tokens
  BY DEF Finished
<1> QED BY <1>1, <1>2 DEF Spent

\* A step that completes no task and adds no token.
LEMMA JobMoved ==
  ASSUME JobInv, ResearchTypeOK', job'.saved <= job'.tokensUsed,
         job'.completedTasks = job.completedTasks, job'.tokensUsed = job.tokensUsed,
         \A u \in Task : /\ task'[u].status = "completed" <=> task[u].status = "completed"
                         /\ task'[u].tokens = task[u].tokens
  PROVE  JobInv'
BY DoneKept DEF JobInv

\* A task is completed: its tokens are new, and are added.
LEMMA TaskDone ==
  ASSUME JobInv, NEW t \in Task, NEW cost \in Tokens, CompleteTask(t, cost)
  PROVE  JobInv'
<1> USE ResearchAssumption
<1>0. ResearchTypeOK
  BY DEF JobInv
<1>1. task[t].status = "running" /\ cost \in Nat
  BY DEF CompleteTask, TaskTransitions
<1>2. /\ task'[t].status = "completed" /\ task'[t].tokens = cost
      /\ \A u \in Task : u # t => task'[u] = task[u]
  BY <1>0 DEF CompleteTask, ResearchTypeOK
<1>3. Finished' = Finished \cup {t} /\ t \notin Finished
  BY <1>1, <1>2 DEF Finished
<1>4. Spent' = Spent \cup ({t} \X (1 .. cost))
  <2>1. \A u \in Finished : task'[u].tokens = task[u].tokens
    BY <1>2, <1>3 DEF Finished
  <2> QED BY <2>1, <1>2, <1>3 DEF Spent
<1>5. Spent \cap ({t} \X (1 .. cost)) = {}
  BY <1>3 DEF Spent
<1>6. IsFiniteSet(1 .. cost) /\ Cardinality(1 .. cost) = cost
  BY <1>1, CountedTo
<1>7. IsFiniteSet({t}) /\ Cardinality({t}) = 1
  BY FS_Singleton
<1>8. IsFiniteSet({t} \X (1 .. cost)) /\ Cardinality({t} \X (1 .. cost)) = cost
  <2>1. Cardinality({t} \X (1 .. cost)) = 1 * cost /\ IsFiniteSet({t} \X (1 .. cost))
    BY <1>6, <1>7, FS_Product
  <2> QED BY <2>1, <1>1
<1>9. IsFiniteSet(Spent) /\ Cardinality(Spent) \in Nat /\ job.tokensUsed = Cardinality(Spent)
  BY FS_CardinalityType DEF JobInv
<1>10. IsFiniteSet(Spent') /\ Cardinality(Spent') = Cardinality(Spent) + cost
  <2>1. Cardinality(Spent \cap ({t} \X (1 .. cost))) = 0
    BY <1>5, FS_EmptySet
  <2>2. Cardinality(Spent') = Cardinality(Spent) + Cardinality({t} \X (1 .. cost)) - 0 /\ IsFiniteSet(Spent')
    BY <2>1, <1>4, <1>8, <1>9, FS_Union
  <2> QED BY <2>2, <1>1, <1>8, <1>9
<1>11. Cardinality(Finished') = Cardinality(Finished) + 1
  BY <1>3, DoneFinite, FS_AddElement
<1>12. /\ job'.tokensUsed = job.tokensUsed + cost /\ job'.completedTasks = job.completedTasks + 1
       /\ job'.saved = job.saved /\ job.tokensUsed \in Nat /\ job.saved \in Nat
  BY <1>0 DEF CompleteTask, ResearchTypeOK
<1>13. ResearchTypeOK'
  <2>1. task' \in [Task -> [status : TaskStatus, retryCount : 0 .. MaxTaskRetries, tokens : Tokens \cup {0}]]
    BY <1>0 DEF CompleteTask, ResearchTypeOK, TaskStatus
  <2>2. job' \in [status : JobStatus, tokensUsed : Nat, completedTasks : Nat, saved : Nat]
    <3>1. PICK a, b : a = job.tokensUsed + cost /\ b = job.completedTasks + 1
      OBVIOUS
    <3>2. a \in Nat /\ b \in Nat
      BY <3>1, <1>0, <1>1 DEF ResearchTypeOK
    <3>3. job' = [job EXCEPT !.tokensUsed = a, !.completedTasks = b]
      BY <3>1, <1>0 DEF CompleteTask, ResearchTypeOK
    <3> QED BY <3>2, <3>3, <1>0 DEF ResearchTypeOK
  <2> QED BY <2>1, <2>2 DEF ResearchTypeOK
<1>14. job'.saved <= job'.tokensUsed
  BY <1>1, <1>12 DEF JobInv
<1>15. job'.completedTasks = Cardinality(Finished')
  BY <1>11, <1>12 DEF JobInv
<1> QED BY <1>9, <1>10, <1>12, <1>13, <1>14, <1>15 DEF JobInv

\* Every step of the service keeps the invariant.
LEMMA JobStep == JobInv /\ [ResearchNext]_researchVars => JobInv'
<1> SUFFICES ASSUME JobInv, [ResearchNext]_researchVars PROVE JobInv'
  OBVIOUS
<1> USE ResearchAssumption
<1>0. ResearchTypeOK /\ job.saved <= job.tokensUsed
  BY DEF JobInv
<1>a. ASSUME task' = task, NEW s \in JobStatus, NEW k \in {job.saved, job.tokensUsed},
             job' = [job EXCEPT !.status = s, !.saved = k]
      PROVE  JobInv'
  <2>1. ResearchTypeOK'
    BY <1>0, <1>a DEF ResearchTypeOK
  <2>2. job'.saved <= job'.tokensUsed /\ job'.completedTasks = job.completedTasks /\ job'.tokensUsed = job.tokensUsed
    BY <1>0, <1>a DEF ResearchTypeOK
  <2> QED BY <2>1, <2>2, <1>a, JobMoved
<1>b. ASSUME NEW t \in Task, NEW to, MoveTask(t, to), to # "completed", job' = job PROVE JobInv'
  <2>1. ResearchTypeOK'
    BY <1>0, <1>b, TaskMoved DEF ResearchTypeOK
  <2>2. \A u \in Task : /\ task'[u].status = "completed" <=> task[u].status = "completed"
                        /\ task'[u].tokens = task[u].tokens
    BY <1>0, <1>b, TaskMoved
  <2> QED BY <2>1, <2>2, <1>0, <1>b, JobMoved
<1>1. CASE CreateJob \/ CheckpointJob \/ StartJob \/ ResumeJob \/ CompleteJob \/ FailJob \/ CancelJob
  <2>1. CASE CreateJob
    <3>1. job' = [job EXCEPT !.status = "queued", !.saved = job.saved]
      BY <2>1, <1>0 DEF CreateJob, ResearchTypeOK
    <3> QED BY <3>1, <2>1, <1>a DEF CreateJob, JobStatus
  <2>2. CASE CheckpointJob
    <3>1. job' = [job EXCEPT !.status = job.status, !.saved = job.tokensUsed] /\ job.status \in JobStatus
      BY <2>2, <1>0 DEF CheckpointJob, ResearchTypeOK
    <3> QED BY <3>1, <2>2, <1>a DEF CheckpointJob
  <2>3. ASSUME NEW to, MoveJob(to) PROVE JobInv'
    <3>1. job' = [job EXCEPT !.status = to, !.saved = job.saved]
      BY <2>3, <1>0 DEF MoveJob, ResearchTypeOK
    <3>2. to \in JobStatus /\ task' = task
      BY <2>3 DEF MoveJob, JobTransitions, JobStatus
    <3> QED BY <3>1, <3>2, <1>a
  <2> QED BY <1>1, <2>1, <2>2, <2>3 DEF StartJob, ResumeJob, CompleteJob, FailJob, CancelJob
<1>2. CASE PauseJob
  BY <1>2, <1>a DEF PauseJob, JobStatus
<1>3. ASSUME NEW t \in Task, CreateTask(t) PROVE JobInv'
  <2>1. ResearchTypeOK' /\ job' = job
    BY <1>0, <1>3 DEF CreateTask, ResearchTypeOK, TaskStatus
  <2>2. \A u \in Task : /\ task'[u].status = "completed" <=> task[u].status = "completed"
                        /\ task'[u].tokens = task[u].tokens
    BY <1>0, <1>3 DEF CreateTask, ResearchTypeOK
  <2> QED BY <2>1, <2>2, <1>0, JobMoved
<1>4. ASSUME NEW t \in Task, StartTask(t) \/ FailTask(t) \/ CancelTask(t) \/ SkipTask(t) PROVE JobInv'
  <2>1. PICK to \in {"running", "failed", "cancelled", "skipped"} : MoveTask(t, to) /\ job' = job
    BY <1>4 DEF StartTask, FailTask, CancelTask, SkipTask
  <2> QED BY <2>1, <1>b
<1>5. ASSUME NEW t \in Task, RetryTask(t) PROVE JobInv'
  <2>1. task[t].status # "completed" /\ task[t].retryCount + 1 \in 0..MaxTaskRetries
    BY <1>0, <1>5 DEF RetryTask, TaskTransitions, ResearchTypeOK
  <2>2. PICK k : k = task[t].retryCount + 1
    OBVIOUS
  <2>3. task' = [task EXCEPT ![t] = [status |-> "running", retryCount |-> k, tokens |-> task[t].tokens]]
    BY <1>0, <1>5, <2>2 DEF RetryTask, ResearchTypeOK
  <2>4. ResearchTypeOK'
    BY <1>0, <1>5, <2>1, <2>2, <2>3 DEF RetryTask, ResearchTypeOK, TaskStatus
  <2>5. \A u \in Task : /\ task'[u].status = "completed" <=> task[u].status = "completed"
                        /\ task'[u].tokens = task[u].tokens
    BY <1>0, <2>1, <2>3 DEF ResearchTypeOK
  <2> QED BY <2>4, <2>5, <1>0, <1>5, JobMoved DEF RetryTask
<1>6. ASSUME NEW t \in Task, NEW cost \in Tokens, CompleteTask(t, cost) PROVE JobInv'
  BY <1>6, TaskDone
<1>7. CASE UNCHANGED researchVars
  <2>1. ResearchTypeOK'
    BY <1>0, <1>7 DEF ResearchTypeOK, researchVars
  <2> QED BY <2>1, <1>0, <1>7, JobMoved DEF researchVars
<1> QED BY <1>1, <1>2, <1>3, <1>4, <1>5, <1>6, <1>7 DEF ResearchNext

\* What the suite asks follows from the invariant.
LEMMA JobImplies == JobInv => JobCountersMatch
BY DEF JobInv, JobCountersMatch, Finished, Spent

-----------------------------------------------------------------------------
(* ResearchGraph: the order of any graph.                                  *)

\* The recursive definition of Popped has a solution, level by level.
LEMMA PoppedDefined ==
  ASSUME NEW N, IsFiniteSet(N), NEW edges
  PROVE  /\ Popped(N, edges)[0] = {}
         /\ \A n \in 1 .. Cardinality(N) : \A t :
              t \in Popped(N, edges)[n] <=>
                \/ t \in Popped(N, edges)[n-1]
                \/ t \in N /\ InDegree(edges, Popped(N, edges)[n-1], t) = 0
<1>0. Cardinality(N) \in Nat
  BY FS_CardinalityType
<1> DEFINE More(P) == P \cup {t \in N : InDegree(edges, P, t) = 0}
           Q == {k \in Nat : \E f : f = [n \in 0..k |-> IF n = 0 THEN {} ELSE More(f[n-1])]}
<1>1. 0 \in Q
  <2>1. PICK f : f = [n \in 0..0 |-> {}]
    OBVIOUS
  <2>2. f = [n \in 0..0 |-> IF n = 0 THEN {} ELSE More(f[n-1])]
    <3> HIDE DEF More
    <3> QED BY <2>1
  <2> QED BY <2>2
<1>2. ASSUME NEW k \in Nat, k \in Q PROVE k + 1 \in Q
  <2>1. PICK f : f = [n \in 0..k |-> IF n = 0 THEN {} ELSE More(f[n-1])]
    BY <1>2
  <2> HIDE DEF More
  <2>2. PICK g : g = [n \in 0..(k + 1) |-> IF n <= k THEN f[n] ELSE More(f[k])]
    OBVIOUS
  <2>3. \A n \in 0..(k + 1) : g[n] = IF n = 0 THEN {} ELSE More(g[n-1])
    <3> SUFFICES ASSUME NEW n \in 0..(k + 1) PROVE g[n] = IF n = 0 THEN {} ELSE More(g[n-1])
      OBVIOUS
    <3>1. CASE n = 0
      BY <3>1, <2>1, <2>2
    <3>2. CASE n # 0 /\ n <= k
      <4>1. g[n] = f[n] /\ g[n - 1] = f[n - 1] /\ n \in 0..k
        BY <3>2, <2>2
      <4> QED BY <4>1, <3>2, <2>1
    <3>3. CASE n = k + 1
      <4>1. g[n] = More(f[k]) /\ g[n - 1] = f[k] /\ n # 0
        BY <3>3, <2>2
      <4> QED BY <4>1
    <3> QED BY <3>1, <3>2, <3>3
  <2>4. g = [n \in 0..(k + 1) |-> g[n]]
    BY <2>2
  <2>5. g = [n \in 0..(k + 1) |-> IF n = 0 THEN {} ELSE More(g[n-1])]
    BY <2>3, <2>4
  <2> QED BY <2>5
<1>3. Nat \subseteq Q
  <2> HIDE DEF Q
  <2> QED BY <1>1, <1>2, NaturalsReached
<1>4. \E f : f = [n \in 0..Cardinality(N) |-> IF n = 0 THEN {} ELSE More(f[n-1])]
  BY <1>0, <1>3
<1>5. \E f : f = Popped(N, edges) /\ f = [n \in 0..Cardinality(N) |-> IF n = 0 THEN {} ELSE More(f[n-1])]
  BY <1>4 DEF Popped
<1> HIDE DEF More
<1>6. PICK f : f = Popped(N, edges) /\ f = [n \in 0..Cardinality(N) |-> IF n = 0 THEN {} ELSE More(f[n-1])]
  BY <1>5
<1>7. \A n \in 0..Cardinality(N) : f[n] = IF n = 0 THEN {} ELSE More(f[n-1])
  BY <1>6
<1>8. f[0] = {} /\ \A n \in 1..Cardinality(N) : f[n] = More(f[n-1])
  BY <1>0, <1>7
<1>9. f[0] = {} /\ \A n \in 1..Cardinality(N) : \A t :
                      t \in f[n] <=> t \in f[n-1] \/ (t \in N /\ InDegree(edges, f[n-1], t) = 0)
  BY <1>8 DEF More
<1>10. f = Popped(N, edges)
  BY <1>6
<1> QED BY <1>9, <1>10

\* A task is popped as soon as all it waits for have been.
LEMMA PoppedIs ==
  ASSUME NEW N, IsFiniteSet(N), NEW edges, IsFiniteSet(edges)
  PROVE  /\ Popped(N, edges)[0] = {}
         /\ \A n \in 1..Cardinality(N) :
              /\ Popped(N, edges)[n - 1] \subseteq Popped(N, edges)[n]
              /\ \A t : t \in Popped(N, edges)[n] <=>
                   \/ t \in Popped(N, edges)[n - 1]
                   \/ t \in N /\ \A e \in edges : e[2] = t => e[1] \in Popped(N, edges)[n - 1]
<1>0. Cardinality(N) \in Nat
  BY FS_CardinalityType
<1>4. ASSUME NEW S, NEW t
      PROVE  InDegree(edges, S, t) = 0 <=> \A e \in edges : e[2] = t => e[1] \in S
  <2> DEFINE W == {e \in edges : e[2] = t /\ e[1] \notin S}
  <2>1. IsFiniteSet(W)
    BY FS_Subset
  <2>2. Cardinality(W) = 0 <=> W = {}
    BY <2>1, FS_EmptySet
  <2>3. W = {} <=> \A e \in edges : e[2] = t => e[1] \in S
    OBVIOUS
  <2> QED BY <2>2, <2>3 DEF InDegree
<1>5. \A n \in 1..Cardinality(N) : \A t :
        t \in Popped(N, edges)[n] <=> t \in Popped(N, edges)[n-1] \/ (t \in N /\ InDegree(edges, Popped(N, edges)[n-1], t) = 0)
  BY PoppedDefined
<1>6. \A n \in 1..Cardinality(N) :
        /\ Popped(N, edges)[n - 1] \subseteq Popped(N, edges)[n]
        /\ \A t : t \in Popped(N, edges)[n] <=>
             \/ t \in Popped(N, edges)[n - 1]
             \/ t \in N /\ \A e \in edges : e[2] = t => e[1] \in Popped(N, edges)[n - 1]
  BY <1>4, <1>5
<1>7. Popped(N, edges)[0] = {}
  BY PoppedDefined
<1> QED BY <1>6, <1>7

\* What is popped are tasks of the graph.
LEMMA PoppedTasks ==
  ASSUME NEW N, IsFiniteSet(N), NEW edges
  PROVE  \A n \in 0..Cardinality(N) : Popped(N, edges)[n] \subseteq N
<1>0. Cardinality(N) \in Nat
  BY FS_CardinalityType
<1>1. PICK P, K : P = Popped(N, edges) /\ K = Cardinality(N)
  OBVIOUS
<1>2. P[0] = {} /\ \A n \in 1..K : \A t : t \in P[n] => t \in P[n-1] \/ t \in N
  BY <1>1, PoppedDefined
<1> DEFINE Q == {n \in Nat : n <= K => P[n] \subseteq N}
<1>3. 0 \in Q
  BY <1>2
<1>4. ASSUME NEW n \in Nat, n \in Q PROVE n + 1 \in Q
  <2> SUFFICES ASSUME n + 1 <= K, NEW t \in P[n + 1] PROVE t \in N
    OBVIOUS
  <2>1. n + 1 \in 1..K /\ (n + 1) - 1 = n /\ P[n] \subseteq N
    BY <1>0, <1>1, <1>4
  <2> QED BY <2>1, <1>2
<1>5. Nat \subseteq Q
  <2> HIDE DEF Q
  <2> QED BY <1>3, <1>4, NaturalsReached
<1> QED BY <1>0, <1>1, <1>5

\* Kahn's algorithm, for any finite graph, also one that has edges to other tasks.  A
\* ring is never popped; if something is left, a level has added nothing, and what is
\* left then waits for itself or for a task outside, which is never popped either.
LEMMA OrderOfAny ==
  ASSUME NEW N, IsFiniteSet(N), NEW M, NEW edges, IsFiniteSet(edges), edges \subseteq M \X M
  PROVE  /\ HasCycle(N, edges) => CycleDetected(N, edges)
         /\ (\E e \in edges : e[1] \notin N /\ e[2] \in N) => CycleDetected(N, edges)
         /\ CycleDetected(N, edges) =>
              HasCycle(N, edges) \/ \E e \in edges : e[1] \notin N /\ e[2] \in N
         /\ \A n \in 1 .. Cardinality(N) : \A e \in edges :
              e[2] \in Level(N, edges, n) => e[1] \in Popped(N, edges)[n-1]
<1>0. Cardinality(N) \in Nat
  BY FS_CardinalityType
<1>1. PICK P, K : P = Popped(N, edges) /\ K = Cardinality(N)
  OBVIOUS
<1>2. K \in Nat /\ P[0] = {}
  BY <1>0, <1>1, PoppedIs
<1>3. \A n \in 1..K : P[n - 1] \subseteq P[n]
  BY <1>1, PoppedIs
<1>4. \A n \in 1..K : \A t : t \in P[n] <=>
        \/ t \in P[n - 1]
        \/ t \in N /\ \A e \in edges : e[2] = t => e[1] \in P[n - 1]
  BY <1>1, PoppedIs
<1>5. \A n \in 1 .. K : \A e \in edges : e[2] \in Level(N, edges, n) => e[1] \in P[n-1]
  BY <1>1, <1>4 DEF Level
<1>6. ASSUME HasCycle(N, edges) PROVE CycleDetected(N, edges)
  <2>1. PICK ring \in (SUBSET N) \ {{}} : \A t \in ring : \E u \in ring : <<u, t>> \in edges
    BY <1>6 DEF HasCycle
  <2> DEFINE Q == {n \in Nat : n <= K => P[n] \cap ring = {}}
  <2>2. 0 \in Q
    BY <1>2
  <2>3. ASSUME NEW n \in Nat, n \in Q PROVE n + 1 \in Q
    <3> SUFFICES ASSUME n + 1 <= K, NEW t \in ring, t \in P[n + 1] PROVE FALSE
      OBVIOUS
    <3>1. n + 1 \in 1..K /\ (n + 1) - 1 = n /\ P[n] \cap ring = {}
      BY <2>3, <1>2
    <3>2. t \notin P[n]
      BY <3>1
    <3>3. \A e \in edges : e[2] = t => e[1] \in P[n]
      BY <3>1, <3>2, <1>4
    <3>4. PICK u \in ring : <<u, t>> \in edges
      BY <2>1
    <3> QED BY <3>1, <3>3, <3>4
  <2>4. K \in Q
    <3> HIDE DEF Q
    <3> QED BY <1>2, <2>2, <2>3, NaturalsReached
  <2>5. P[K] # N
    BY <2>1, <2>4, <1>2
  <2> QED BY <2>5, <1>1 DEF CycleDetected
<1>7. \A n \in 0..K : P[n] \subseteq N /\ IsFiniteSet(P[n]) /\ Cardinality(P[n]) \in Nat
  <2>1. \A n \in 0..K : P[n] \subseteq N
    BY <1>1, PoppedTasks
  <2> QED BY <2>1, FS_Subset, FS_CardinalityType
<1>8. ASSUME NEW a \in edges, a[1] \notin N, a[2] \in N PROVE CycleDetected(N, edges)
  <2> DEFINE Q == {n \in Nat : n <= K => a[2] \notin P[n]}
  <2>1. 0 \in Q
    BY <1>2
  <2>2. ASSUME NEW n \in Nat, n \in Q PROVE n + 1 \in Q
    <3> SUFFICES ASSUME n + 1 <= K, a[2] \in P[n + 1] PROVE FALSE
      OBVIOUS
    <3>1. n + 1 \in 1..K /\ (n + 1) - 1 = n /\ a[2] \notin P[n] /\ n \in 0..K
      BY <2>2, <1>2
    <3>2. \A e \in edges : e[2] = a[2] => e[1] \in P[n]
      BY <3>1, <1>4
    <3> QED BY <3>1, <3>2, <1>7, <1>8
  <2>3. K \in Q
    <3> HIDE DEF Q
    <3> QED BY <1>2, <2>1, <2>2, NaturalsReached
  <2> QED BY <2>3, <1>1, <1>2, <1>8 DEF CycleDetected
<1>9. ASSUME CycleDetected(N, edges), \A e \in edges : e[2] \in N => e[1] \in N
      PROVE  HasCycle(N, edges)
  <2>1. P[K] # N
    BY <1>1, <1>9 DEF CycleDetected
  <2>6. \E n \in 1..K : P[n] = P[n - 1]
    <3> SUFFICES ASSUME \A n \in 1..K : P[n] # P[n - 1] PROVE FALSE
      OBVIOUS
    <3> DEFINE R == {n \in Nat : n <= K => Cardinality(P[n]) >= n}
    <3>1. 0 \in R
      BY <1>7, <1>2
    <3>2. ASSUME NEW n \in Nat, n \in R PROVE n + 1 \in R
      <4> SUFFICES ASSUME n + 1 <= K PROVE Cardinality(P[n + 1]) >= n + 1
        OBVIOUS
      <4>1. n + 1 \in 1..K /\ (n + 1) - 1 = n /\ Cardinality(P[n]) >= n /\ n \in 0..K /\ n + 1 \in 0..K
        BY <3>2, <1>2
      <4>2. P[n] \subseteq P[n + 1] /\ P[n] # P[n + 1]
        BY <4>1, <1>3
      <4>3. Cardinality(P[n]) <= Cardinality(P[n + 1])
        BY <4>1, <4>2, <1>7, FS_Subset
      <4>4. Cardinality(P[n]) # Cardinality(P[n + 1])
        BY <4>1, <4>2, <1>7, FS_Subset
      <4> QED BY <4>1, <4>3, <4>4, <1>7
    <3>3. K \in R
      <4> HIDE DEF R
      <4> QED BY <3>1, <3>2, <1>2, NaturalsReached
    <3>4. Cardinality(P[K]) >= K /\ P[K] \subseteq N /\ Cardinality(P[K]) \in Nat
      BY <3>3, <1>7, <1>2
    <3>5. Cardinality(P[K]) <= K
      BY <3>4, <1>1, FS_Subset
    <3>6. P[K] = N
      BY <3>4, <3>5, <1>1, <1>2, FS_Subset
    <3> QED BY <3>6, <2>1
  <2>7. PICK n \in 1..K : P[n] = P[n - 1]
    BY <2>6
  <2> DEFINE U == {k \in Nat : n + k <= K => P[n] \subseteq P[n + k]}
  <2>8. 0 \in U
    BY <2>7
  <2>9. ASSUME NEW k \in Nat, k \in U PROVE k + 1 \in U
    <3> SUFFICES ASSUME n + (k + 1) <= K PROVE P[n] \subseteq P[n + (k + 1)]
      OBVIOUS
    <3>1. n + (k + 1) \in 1..K /\ n + (k + 1) - 1 = n + k /\ P[n] \subseteq P[n + k]
      BY <2>9, <1>2
    <3> QED BY <3>1, <1>3
  <2>10. Nat \subseteq U
    <3> HIDE DEF U
    <3> QED BY <2>8, <2>9, NaturalsReached
  <2>11. P[n] \subseteq P[K]
    <3>1. K - n \in Nat /\ n + (K - n) = K
      BY <1>2
    <3> QED BY <3>1, <2>10
  <2>12. N \ P[n] # {}
    <3>1. K \in 0..K
      BY <1>2
    <3> QED BY <3>1, <2>1, <1>7, <2>11
  <2>13. ASSUME NEW t \in N \ P[n] PROVE \E u \in N \ P[n] : <<u, t>> \in edges
    <3>1. PICK e \in edges : e[2] = t /\ e[1] \notin P[n]
      BY <2>7, <1>4
    <3>2. e = <<e[1], t>> /\ e[1] \in N
      BY <3>1, <1>9
    <3> QED BY <3>1, <3>2
  <2> QED BY <2>12, <2>13 DEF HasCycle
<1> QED BY <1>1, <1>5, <1>6, <1>8, <1>9

\* What a sort returned is what it says of the tasks and the dependencies that were
\* read; a dependency names tasks read, or added since.
GraphInv ==
  /\ GraphTypeOK
  /\ \A q \in Sorter :
       sorting[q].at = "done" =>
         /\ sorting[q].outcome = SortOf(sorting[q].tasks, sorting[q].edges)
         /\ sorting[q].edges \subseteq (sorting[q].tasks \cup sorting[q].grown)
                                     \X (sorting[q].tasks \cup sorting[q].grown)

\* The invariant holds at the start.
LEMMA GraphInitially == GraphInit => GraphInv
BY DEF GraphInit, GraphInv, GraphTypeOK, NoOrder

\* Every step of the service keeps the invariant.
LEMMA GraphStep == GraphInv /\ [GraphNext]_graphVars => GraphInv'
<1> SUFFICES ASSUME GraphInv, [GraphNext]_graphVars PROVE GraphInv'
  OBVIOUS
<1> USE DEF GraphInv
<1>1. ASSUME NEW tasks \in SUBSET (Node \ nodes),
             NEW edges \in SUBSET (((nodes \cup tasks) \X (nodes \cup tasks)) \ depends),
             Build(tasks, edges)
      PROVE  GraphInv'
  <2>1. nodes' = nodes \cup tasks /\ depends' = depends \cup edges /\ sorting' = sorting
    BY <1>1 DEF Build
  <2>2. edges \subseteq nodes' \X nodes'
    BY <2>1
  <2> QED BY <2>1, <2>2 DEF GraphTypeOK
<1>2. ASSUME NEW q \in Sorter, ReadTasks(q) PROVE GraphInv'
  BY <1>2 DEF ReadTasks, GraphTypeOK, NoOrder
<1>3. ASSUME NEW q \in Sorter, ReadDependencies(q) PROVE GraphInv'
  <2>1. PICK o : o = SortOf(sorting[q].tasks, depends)
    OBVIOUS
  <2>2. o \in {"none", "key_error", "cycle", "ordered"}
    BY <2>1 DEF SortOf
  <2>3. sorting[q].tasks \subseteq Node /\ depends \subseteq nodes \X nodes /\ nodes \subseteq Node
    BY DEF GraphTypeOK
  <2>4. sorting' = [sorting EXCEPT ![q] = [sorting[q] EXCEPT !.at = "done", !.edges = depends,
                      !.grown = nodes \ sorting[q].tasks, !.outcome = o]]
    BY <1>3, <2>1 DEF ReadDependencies
  <2>5. nodes' = nodes /\ depends' = depends
    BY <1>3 DEF ReadDependencies
  <2>6. GraphTypeOK'
    <3>1. depends \in SUBSET (Node \X Node) /\ nodes \ sorting[q].tasks \in SUBSET Node
      BY <2>3
    <3>2. [sorting[q] EXCEPT !.at = "done", !.edges = depends,
                             !.grown = nodes \ sorting[q].tasks, !.outcome = o]
            \in [at : {"idle", "read", "done"}, tasks : SUBSET Node,
                 edges : SUBSET (Node \X Node), grown : SUBSET Node,
                 outcome : {"none", "key_error", "cycle", "ordered"}]
      <4>1. PICK r, d, g : r = sorting[q] /\ d = depends /\ g = nodes \ sorting[q].tasks
        OBVIOUS
      <4>2. r \in [at : {"idle", "read", "done"}, tasks : SUBSET Node,
                   edges : SUBSET (Node \X Node), grown : SUBSET Node,
                   outcome : {"none", "key_error", "cycle", "ordered"}]
        BY <4>1 DEF GraphTypeOK
      <4>3. d \in SUBSET (Node \X Node) /\ g \in SUBSET Node
        BY <3>1, <4>1
      <4>4. [r EXCEPT !.at = "done", !.edges = d, !.grown = g, !.outcome = o]
              \in [at : {"idle", "read", "done"}, tasks : SUBSET Node,
                   edges : SUBSET (Node \X Node), grown : SUBSET Node,
                   outcome : {"none", "key_error", "cycle", "ordered"}]
        BY ONLY <2>2, <4>2, <4>3
      <4> QED BY <4>1, <4>4
    <3> QED BY <2>4, <2>5, <3>2 DEF GraphTypeOK
  <2>7. /\ sorting'[q].tasks = sorting[q].tasks /\ sorting'[q].edges = depends
        /\ sorting'[q].grown = nodes \ sorting[q].tasks /\ sorting'[q].outcome = o
        /\ \A p \in Sorter : p # q => sorting'[p] = sorting[p]
    BY <2>4 DEF GraphTypeOK
  <2>8. depends \subseteq (sorting[q].tasks \cup (nodes \ sorting[q].tasks))
                         \X (sorting[q].tasks \cup (nodes \ sorting[q].tasks))
    BY <2>3
  <2> QED BY <2>1, <2>6, <2>7, <2>8
<1>4. ASSUME NEW q \in Sorter, ReturnOrder(q) PROVE GraphInv'
  BY <1>4 DEF ReturnOrder, GraphTypeOK, NoOrder
<1>5. CASE UNCHANGED graphVars
  BY <1>5 DEF graphVars, GraphTypeOK
<1> QED BY <1>1, <1>2, <1>3, <1>4, <1>5 DEF GraphNext

\* What the suite asks follows from the invariant.
LEMMA GraphImplies == GraphInv => OrderIsSound
<1> SUFFICES ASSUME GraphInv PROVE OrderIsSound
  OBVIOUS
<1> SUFFICES ASSUME NEW q \in Sorter, sorting[q].at = "done",
                    NEW N, NEW edges, NEW grown,
                    N = sorting[q].tasks, edges = sorting[q].edges, grown = sorting[q].grown
             PROVE  /\ sorting[q].outcome = "ordered" =>
                         /\ ~HasCycle(N, edges)
                         /\ \A e \in edges : e[1] \in N <=> e[2] \in N
                         /\ \A n \in 1 .. Cardinality(N) : \A e \in edges :
                              e[2] \in Level(N, edges, n) => e[1] \in Popped(N, edges)[n-1]
                    /\ sorting[q].outcome # "ordered" =>
                         \/ HasCycle(N, edges)
                         \/ \E e \in edges : \/ e[1] \in grown /\ e[2] \in N
                                             \/ e[1] \in N /\ e[2] \in grown
  BY DEF OrderIsSound
<1>0. N \subseteq Node /\ edges \subseteq Node \X Node
  BY DEF GraphInv, GraphTypeOK
<1>1. IsFiniteSet(N) /\ edges \subseteq Node \X Node
  BY <1>0, GraphAssumption, FS_Subset
<1>2. IsFiniteSet(edges)
  BY <1>1, GraphAssumption, FS_Product, FS_Subset
<1>3. /\ HasCycle(N, edges) => CycleDetected(N, edges)
      /\ (\E e \in edges : e[1] \notin N /\ e[2] \in N) => CycleDetected(N, edges)
      /\ CycleDetected(N, edges) =>
           HasCycle(N, edges) \/ \E e \in edges : e[1] \notin N /\ e[2] \in N
      /\ \A n \in 1 .. Cardinality(N) : \A e \in edges :
           e[2] \in Level(N, edges, n) => e[1] \in Popped(N, edges)[n-1]
  BY ONLY <1>1, <1>2, OrderOfAny
<1>4. sorting[q].outcome = SortOf(N, edges) /\ \A e \in edges : e[1] \in N \cup grown /\ e[2] \in N \cup grown
  <2>1. sorting[q].outcome = SortOf(N, edges) /\ edges \subseteq (N \cup grown) \X (N \cup grown)
    BY DEF GraphInv
  <2> QED BY <2>1
<1> PICK last : last = Popped(N, edges)[Cardinality(N)]
  OBVIOUS
<1>5. CycleDetected(N, edges) <=> last # N
  BY DEF CycleDetected
<1>6. SortOf(N, edges) = IF \E e \in edges : e[1] \in last /\ e[2] \notin N THEN "key_error"
                         ELSE IF CycleDetected(N, edges) THEN "cycle" ELSE "ordered"
  BY DEF SortOf
<1>7. last \subseteq N
  BY <1>1, PoppedTasks, FS_CardinalityType
<1>8. ASSUME sorting[q].outcome = "ordered"
      PROVE  ~CycleDetected(N, edges) /\ \A e \in edges : e[1] \in N => e[2] \in N
  BY <1>4, <1>5, <1>6, <1>8
<1>9. ASSUME sorting[q].outcome # "ordered"
      PROVE  CycleDetected(N, edges) \/ \E e \in edges : e[1] \in N /\ e[2] \notin N
  BY <1>4, <1>6, <1>7, <1>9
<1> QED BY <1>3, <1>4, <1>8, <1>9

-----------------------------------------------------------------------------
(* ResearchStore and OperatorSessions: types.                              *)

\* A transaction intends what one of the lookups let it.
Intents ==
  {<<"none">>, <<"record">>, <<"insert">>} \cup ({"accepted", "rejected", "overwrite"} \X Scribe)

NoteInv == NoteTypeOK /\ intent = [w \in Scribe |-> intent[w]]

\* The invariant holds at the start.
LEMMA NoteInitially == NoteInit => NoteInv
BY DEF NoteInit, NoteInv, NoteTypeOK

\* One transaction changes what it intends, and rows keep their types.
LEMMA IntentChanges ==
  ASSUME NoteInv, NEW w \in Scribe, NEW what \in Intents, intent' = [intent EXCEPT ![w] = what],
         evidence' \in [Scribe -> {"none", "pending", "accepted", "rejected"}],
         memory' \in [Scribe -> {"none", "live", "expired"}]
  PROVE  NoteInv'
<1>1. \A x \in Scribe : intent[x] \in Intents
  BY DEF NoteInv, NoteTypeOK, Intents
<1>2. DOMAIN intent = Scribe
  BY DEF NoteInv
<1>3. \A x \in Scribe : intent'[x] = IF x = w THEN what ELSE intent[x]
  BY <1>2
<1>4. \A x \in Scribe : intent'[x] \in Intents
  BY <1>1, <1>3
<1>5. intent' = [x \in Scribe |-> intent'[x]]
  BY <1>2
<1> QED BY <1>4, <1>5 DEF NoteInv, NoteTypeOK, Intents

\* Every step of the service keeps the invariant.
LEMMA NoteStep == NoteInv /\ [NoteNext]_noteVars => NoteInv'
<1> SUFFICES ASSUME NoteInv, [NoteNext]_noteVars PROVE NoteInv'
  OBVIOUS
<1>0. /\ evidence \in [Scribe -> {"none", "pending", "accepted", "rejected"}]
      /\ memory \in [Scribe -> {"none", "live", "expired"}]
      /\ <<"none">> \in Intents /\ <<"record">> \in Intents /\ <<"insert">> \in Intents
      /\ \A read \in Scribe : \A v \in {"accepted", "rejected", "overwrite"} : <<v, read>> \in Intents
  BY DEF NoteInv, NoteTypeOK, Intents
<1>1. ASSUME NEW w \in Scribe, MissEvidence(w) \/ RecordEvidence(w) PROVE NoteInv'
  BY <1>0, <1>1, IntentChanges DEF MissEvidence, RecordEvidence, Intend, Carried
<1>2. ASSUME NEW w \in Scribe, NEW read \in Scribe, NEW verdict \in {"accepted", "rejected"},
             ReadEvidence(w, read, verdict) \/ DecideEvidence(w, read, verdict)
      PROVE  NoteInv'
  <2>1. <<verdict, read>> \in Intents
    BY <1>0
  <2>2. CASE ReadEvidence(w, read, verdict)
    BY <1>0, <2>1, <2>2, IntentChanges DEF ReadEvidence, Intend
  <2>3. CASE DecideEvidence(w, read, verdict)
    BY <1>0, <2>3, IntentChanges DEF DecideEvidence, Carried
  <2> QED BY <1>2, <2>2, <2>3
<1>3. ASSUME NEW w \in Scribe, LookUpMemory(w) PROVE NoteInv'
  BY <1>0, <1>3, IntentChanges DEF LookUpMemory, Intend
<1>4. ASSUME NEW w \in Scribe, InsertMemory(w) \/ GiveUp(w) PROVE NoteInv'
  BY <1>0, <1>4, IntentChanges DEF InsertMemory, GiveUp, Carried
<1>5. ASSUME NEW w \in Scribe, NEW read \in Scribe, OverwriteMemory(w, read) PROVE NoteInv'
  BY <1>0, <1>5, IntentChanges DEF OverwriteMemory, Carried
<1>6. ASSUME NEW w \in Scribe, Elapse(w) \/ ReadMemory(w) PROVE NoteInv'
  BY <1>0, <1>6 DEF Elapse, ReadMemory, NoteInv, NoteTypeOK
<1>7. CASE ExpireStale \/ ClearJob
  BY <1>0, <1>7 DEF ExpireStale, ClearJob, NoteInv, NoteTypeOK
<1>8. CASE UNCHANGED noteVars
  BY <1>8 DEF noteVars, NoteInv, NoteTypeOK
<1> QED BY <1>1, <1>2, <1>3, <1>4, <1>5, <1>6, <1>7, <1>8 DEF NoteNext

\* The types hold at the start.
LEMMA OperatorInitially == OperatorInit => OperatorTypeOK
BY OperatorAssumption DEF OperatorInit, OperatorTypeOK

\* Every step of the service keeps the invariant.
LEMMA OperatorStep == OperatorTypeOK /\ [OperatorNext]_operatorVars => OperatorTypeOK'
<1> SUFFICES ASSUME OperatorTypeOK, [OperatorNext]_operatorVars PROVE OperatorTypeOK'
  OBVIOUS
<1> USE OperatorAssumption DEF OperatorTypeOK
<1>1. ASSUME NEW s \in OperatorSession, Connect(s) \/ Heartbeat(s) \/ GoStale(s) \/ Disconnect(s)
      PROVE  OperatorTypeOK'
  <2>1. CASE Connect(s) \/ Disconnect(s)
    BY <2>1 DEF Connect, Disconnect
  <2>2. CASE Heartbeat(s)
    <3>1. beat[s] + 1 \in 0 .. LastBeat
      BY <2>2 DEF Heartbeat
    <3> QED BY <2>2, <3>1 DEF Heartbeat
  <2>3. CASE GoStale(s)
    BY <2>3 DEF GoStale
  <2> QED BY <1>1, <2>1, <2>2, <2>3
<1>2. ASSUME NEW x \in Terminator, NEW S, S \subseteq OperatorSession, ReadSessions(x, S)
      PROVE  OperatorTypeOK'
  <2>1. {<<s, beat[s]>> : s \in S} \in SUBSET (OperatorSession \X (0 .. LastBeat))
    BY <1>2
  <2> QED BY <1>2, <2>1 DEF ReadSessions
<1>3. ASSUME NEW x \in Terminator, ExpireSessions(x) PROVE OperatorTypeOK'
  BY <1>3 DEF ExpireSessions
<1>4. CASE UNCHANGED operatorVars
  BY <1>4 DEF operatorVars
<1> QED BY <1>1, <1>2, <1>3, <1>4 DEF OperatorNext, Sweep, ForceDisconnect

-----------------------------------------------------------------------------
(* ContextSnapshots.  Invariant: what the cache shows is backed by a row, or *)
(* by the assembly that cached it and has not ended.                       *)

\* Who has inserted a row is the only one with its key, and no row is committed.
OwnersAlone ==
  \A a \in Assembler : assembly[a].own =>
    /\ assembly[a].at \in {"result", "cached"}
    /\ snapshot[assembly[a].key] = NoSnapshot
    /\ \A b \in Assembler : assembly[b].own /\ assembly[b].key = assembly[a].key => b = a

\* Whoever returns a committed row returns the window that stays on record.
ReturnedOnRecord ==
  \A a \in Assembler : assembly[a].at \in {"result", "cached"} /\ ~ assembly[a].own =>
    /\ snapshot[assembly[a].key] # NoSnapshot
    /\ assembly[a].window = snapshot[assembly[a].key].window

\* An entry not spoilt is backed by a row, or by who has cached it and not ended.
EntriesBacked ==
  \A k \in AssemblyKey : cache[k].window # NoContent /\ k \notin spoilt =>
    \/ snapshot[k].window = cache[k].window
    \/ \E a \in Assembler : /\ assembly[a].key = k /\ assembly[a].own
                            /\ assembly[a].at = "cached"
                            /\ assembly[a].window = cache[k].window

\* A key is named wherever there is something to do with it.
KeysNamed ==
  /\ \A a \in Assembler : assembly[a].at # "none" => assembly[a].key \in AssemblyKey
  /\ \A r \in Retainer : retention[r] # NoTask =>
       /\ retention[r].key \in AssemblyKey /\ snapshot[retention[r].key] # NoSnapshot
       /\ retention[r].op \in {"archive", "expire"}
  /\ \A k \in AssemblyKey : snapshot[k].status = "none" => snapshot[k] = NoSnapshot

SnapshotInv ==
  SnapshotTypeOK /\ KeysNamed /\ OwnersAlone /\ ReturnedOnRecord /\ EntriesBacked

\* The invariant holds at the start.
LEMMA SnapshotInitially == SnapshotInit => SnapshotInv
BY DEF SnapshotInit, SnapshotInv, SnapshotTypeOK, KeysNamed, OwnersAlone, ReturnedOnRecord,
       EntriesBacked, NoSnapshot, NoContent, NoEntry, NoAssembly, NoTask, Content

\* What the suite asks follows from the invariant.
LEMMA SnapshotImplies == SnapshotInv => CacheAgrees
BY DEF SnapshotInv, EntriesBacked, CacheAgrees

\* What a transaction of an assembly keeps: no other transaction, and no retention.
LEMMA SnapshotStep == SnapshotInv /\ [SnapshotNext]_snapshotVars => SnapshotInv'
<1> SUFFICES ASSUME SnapshotInv, [SnapshotNext]_snapshotVars PROVE SnapshotInv'
  OBVIOUS
<1> USE DEF SnapshotInv
<1>1. ASSUME NEW a \in Assembler, NEW k \in AssemblyKey, NEW b \in Budget, Lookup(a, k, b)
      PROVE  SnapshotInv'
  <2>1. PICK at \in {"served", "built"}, w \in Content :
          /\ Goes(a, at, k, w, FALSE)
          /\ cache' \in {cache, [cache EXCEPT ![k] = NoEntry]}
    <3>1. [budget |-> b, by |-> a] \in Content /\ cache[k].window \in Content
      BY DEF SnapshotTypeOK, Content
    <3> QED BY <1>1, <3>1 DEF Lookup
  <2>2. assembly[a].at = "none" /\ UNCHANGED <<snapshot, retention, spoilt>>
    BY <1>1 DEF Lookup
  <2>3. ~ assembly[a].own
    BY <2>2 DEF OwnersAlone
  <2>4. \A x \in AssemblyKey : cache'[x] = cache[x] \/ cache'[x] = NoEntry
    BY <2>1 DEF SnapshotTypeOK
  <2>5. /\ assembly' = [assembly EXCEPT ![a] = assembly'[a]]
        /\ assembly'[a] = [at |-> at, key |-> k, window |-> w, own |-> FALSE]
    BY <2>1 DEF Goes, SnapshotTypeOK
  <2>6. SnapshotTypeOK'
    <3>1. NoEntry \in [window : Content, stale : BOOLEAN]
      BY DEF NoEntry, Content
    <3>2. cache' \in [AssemblyKey -> [window : Content, stale : BOOLEAN]]
      BY <2>1, <3>1 DEF SnapshotTypeOK
    <3>3. assembly' \in [Assembler ->
            [at : {"none", "served", "built", "missing", "result", "cached"},
             key : AssemblyKey \cup {"none"}, window : Content, own : BOOLEAN]]
      BY <2>1 DEF Goes, SnapshotTypeOK
    <3> QED BY <2>2, <3>2, <3>3 DEF SnapshotTypeOK
  <2>7. \A x \in Assembler : x # a => assembly'[x] = assembly[x]
    BY <2>5 DEF SnapshotTypeOK
  <2>8. KeysNamed'
    BY <2>2, <2>5, <2>7 DEF KeysNamed
  <2>9. OwnersAlone' /\ ReturnedOnRecord'
    BY <2>2, <2>5, <2>7 DEF OwnersAlone, ReturnedOnRecord
  <2>10. EntriesBacked'
    BY <2>2, <2>3, <2>4, <2>7 DEF EntriesBacked, NoEntry
  <2> QED BY <2>6, <2>8, <2>9, <2>10
<1>2. ASSUME NEW a \in Assembler, FindExisting(a) PROVE SnapshotInv'
  <2> DEFINE k == assembly[a].key
  <2>1. /\ assembly[a].at = "built" /\ UNCHANGED <<snapshot, cache, retention, spoilt>>
        /\ ~ assembly[a].own /\ k \in AssemblyKey
    BY <1>2 DEF FindExisting, OwnersAlone, KeysNamed
  <2>2. PICK at \in {"result", "missing"}, w \in Content :
          /\ assembly' = [assembly EXCEPT ![a] = [at |-> at, key |-> k, window |-> w, own |-> FALSE]]
          /\ at = "result" => snapshot[k] # NoSnapshot /\ w = snapshot[k].window
    BY <1>2, <2>1 DEF FindExisting, Goes, SnapshotTypeOK
  <2>3. \A x \in Assembler : x # a => assembly'[x] = assembly[x]
    BY <2>2 DEF SnapshotTypeOK
  <2>4. assembly'[a] = [at |-> at, key |-> k, window |-> w, own |-> FALSE]
    BY <2>2 DEF SnapshotTypeOK
  <2> HIDE DEF k
  <2>5. SnapshotTypeOK'
    BY <2>1, <2>2 DEF SnapshotTypeOK
  <2>6. KeysNamed'
    BY <2>1, <2>3, <2>4 DEF KeysNamed
  <2>7. OwnersAlone' /\ ReturnedOnRecord'
    BY <2>1, <2>2, <2>3, <2>4 DEF OwnersAlone, ReturnedOnRecord
  <2>8. EntriesBacked'
    BY <2>1, <2>3 DEF EntriesBacked
  <2> QED BY <2>5, <2>6, <2>7, <2>8
<1>3. ASSUME NEW a \in Assembler, InsertSnapshot(a) PROVE SnapshotInv'
  <2> DEFINE k == assembly[a].key
  <2>1. /\ assembly[a].at = "missing" /\ UNCHANGED <<snapshot, cache, retention, spoilt>>
        /\ ~ assembly[a].own /\ k \in AssemblyKey /\ snapshot[k] = NoSnapshot
        /\ \A x \in Assembler : ~ (assembly[x].key = k /\ assembly[x].own)
    BY <1>3 DEF InsertSnapshot, OwnersAlone, KeysNamed, Inserting
  <2>2. assembly' = [assembly EXCEPT ![a] = [at |-> "result", key |-> k,
                                             window |-> assembly[a].window, own |-> TRUE]]
    BY <1>3 DEF InsertSnapshot, Goes
  <2>3. \A x \in Assembler : x # a => assembly'[x] = assembly[x]
    BY <2>2 DEF SnapshotTypeOK
  <2>4. assembly'[a] = [at |-> "result", key |-> k, window |-> assembly[a].window, own |-> TRUE]
    BY <2>2 DEF SnapshotTypeOK
  <2> HIDE DEF k
  <2>5. SnapshotTypeOK'
    BY <2>1, <2>2 DEF SnapshotTypeOK
  <2>6. KeysNamed'
    BY <2>1, <2>3, <2>4 DEF KeysNamed
  <2>7. OwnersAlone' /\ ReturnedOnRecord'
    BY <2>1, <2>3, <2>4 DEF OwnersAlone, ReturnedOnRecord
  <2>8. EntriesBacked'
    BY <2>1, <2>3 DEF EntriesBacked
  <2> QED BY <2>5, <2>6, <2>7, <2>8
<1>4. ASSUME NEW a \in Assembler, CacheResult(a) PROVE SnapshotInv'
  <2> DEFINE k == assembly[a].key
             w == assembly[a].window
  <2>1. /\ assembly[a].at = "result" /\ UNCHANGED <<snapshot, retention>>
        /\ k \in AssemblyKey /\ w \in Content /\ spoilt' = spoilt \ {k}
        /\ cache' = [cache EXCEPT ![k] = [window |-> w, stale |-> FALSE]]
        /\ assembly' = [assembly EXCEPT ![a] = [at |-> "cached", key |-> k, window |-> w,
                                               own |-> assembly[a].own]]
    BY <1>4 DEF CacheResult, Goes, KeysNamed, SnapshotTypeOK
  <2>2. \A x \in Assembler : x # a => assembly'[x] = assembly[x]
    BY <2>1 DEF SnapshotTypeOK
  <2>3. assembly'[a] = [at |-> "cached", key |-> k, window |-> w, own |-> assembly[a].own]
    BY <2>1 DEF SnapshotTypeOK
  <2>4. \A x \in AssemblyKey : x # k => cache'[x] = cache[x]
    BY <2>1 DEF SnapshotTypeOK
  <2>5. cache'[k] = [window |-> w, stale |-> FALSE]
    BY <2>1 DEF SnapshotTypeOK
  <2>6. ~ assembly[a].own => snapshot[k].window = w
    BY <2>1 DEF ReturnedOnRecord
  <2>7. SnapshotTypeOK'
    <3>1. [window |-> w, stale |-> FALSE] \in [window : Content, stale : BOOLEAN]
      BY <2>1
    <3>2. [at |-> "cached", key |-> k, window |-> w, own |-> assembly[a].own]
            \in [at : {"none", "served", "built", "missing", "result", "cached"},
                 key : AssemblyKey \cup {"none"}, window : Content, own : BOOLEAN]
      BY <2>1 DEF SnapshotTypeOK
    <3> HIDE DEF k, w
    <3> QED BY <2>1, <3>1, <3>2 DEF SnapshotTypeOK
  <2>8. KeysNamed'
    BY <2>1, <2>2, <2>3 DEF KeysNamed
  <2>9. OwnersAlone'
    BY <2>1, <2>2, <2>3 DEF OwnersAlone
  <2>10. ReturnedOnRecord'
    BY <2>1, <2>2, <2>3 DEF ReturnedOnRecord
  <2>11. EntriesBacked'
    <3> SUFFICES ASSUME NEW x \in AssemblyKey, cache'[x].window # NoContent, x \notin spoilt'
                 PROVE  \/ snapshot'[x].window = cache'[x].window
                        \/ \E y \in Assembler : /\ assembly'[y].key = x /\ assembly'[y].own
                                                /\ assembly'[y].at = "cached"
                                                /\ assembly'[y].window = cache'[x].window
      BY DEF EntriesBacked
    <3>1. CASE x = k
      <4>1. CASE assembly[a].own
        BY <4>1, <3>1, <2>3, <2>5
      <4>2. CASE ~ assembly[a].own
        BY <4>2, <3>1, <2>1, <2>5, <2>6
      <4> QED BY <4>1, <4>2
    <3>2. CASE x # k
      <4>1. cache'[x] = cache[x] /\ x \notin spoilt
        BY <3>2, <2>1, <2>4
      <4>2. CASE snapshot[x].window = cache[x].window
        BY <4>1, <4>2, <2>1
      <4>3. CASE snapshot[x].window # cache[x].window
        <5>1. PICK y \in Assembler : /\ assembly[y].key = x /\ assembly[y].own
                                     /\ assembly[y].at = "cached"
                                     /\ assembly[y].window = cache[x].window
          BY <4>1, <4>3 DEF EntriesBacked
        <5>2. y # a
          BY <5>1, <2>1
        <5> QED BY <5>1, <5>2, <2>2, <4>1
      <4> QED BY <4>2, <4>3
    <3> QED BY <3>1, <3>2
  <2> QED BY <2>7, <2>8, <2>9, <2>10, <2>11
<1>5. ASSUME NEW a \in Assembler, CommitAssembly(a) PROVE SnapshotInv'
  <2> DEFINE k == assembly[a].key
             w == assembly[a].window
  <2>1. /\ assembly[a].at \in {"cached", "served"} /\ UNCHANGED <<cache, retention, spoilt>>
        /\ k \in AssemblyKey /\ w \in Content
        /\ assembly' = [assembly EXCEPT ![a] = [at |-> "none", key |-> "none",
                                               window |-> NoContent, own |-> FALSE]]
    BY <1>5 DEF CommitAssembly, Goes, KeysNamed, SnapshotTypeOK
  <2>2. \A x \in Assembler : x # a => assembly'[x] = assembly[x]
    BY <2>1 DEF SnapshotTypeOK
  <2>3. assembly'[a] = [at |-> "none", key |-> "none", window |-> NoContent, own |-> FALSE]
    BY <2>1 DEF SnapshotTypeOK
  <2>4. assembly' \in [Assembler ->
          [at : {"none", "served", "built", "missing", "result", "cached"},
           key : AssemblyKey \cup {"none"}, window : Content, own : BOOLEAN]]
    BY <2>1 DEF SnapshotTypeOK, Content
  <2>5. CASE ~ assembly[a].own
    <3>1. snapshot' = snapshot
      BY <1>5, <2>5 DEF CommitAssembly
    <3>2. SnapshotTypeOK'
      BY <2>1, <2>4, <3>1 DEF SnapshotTypeOK
    <3>3. KeysNamed'
      BY <2>1, <2>2, <2>3, <3>1 DEF KeysNamed
    <3>4. OwnersAlone' /\ ReturnedOnRecord'
      BY <2>2, <2>3, <3>1 DEF OwnersAlone, ReturnedOnRecord
    <3>5. EntriesBacked'
      BY <2>1, <2>2, <2>5, <3>1 DEF EntriesBacked
    <3> QED BY <3>2, <3>3, <3>4, <3>5
  <2>6. CASE assembly[a].own
    <3>1. /\ snapshot' = [snapshot EXCEPT ![k] = [status |-> "active", window |-> w]]
          /\ snapshot[k] = NoSnapshot
          /\ \A x \in Assembler : assembly[x].own /\ assembly[x].key = k => x = a
      BY <1>5, <2>6 DEF CommitAssembly, OwnersAlone
    <3>2. snapshot'[k] = [status |-> "active", window |-> w]
      BY <2>1, <3>1 DEF SnapshotTypeOK
    <3>3. \A x \in AssemblyKey : x # k => snapshot'[x] = snapshot[x]
      BY <2>1, <3>1 DEF SnapshotTypeOK
    <3>4. SnapshotTypeOK'
      <4>1. [status |-> "active", window |-> w]
              \in [status : {"none", "active", "archived", "expired"}, window : Content]
        BY <2>1
      <4> HIDE DEF k, w
      <4> QED BY <2>1, <2>4, <3>1, <4>1 DEF SnapshotTypeOK
    <3>5. snapshot'[k] # NoSnapshot /\ snapshot'[k].status # "none"
      BY <3>2 DEF NoSnapshot
    <3>6. KeysNamed'
      <4> HIDE DEF k, w
      <4> QED BY <2>1, <2>2, <2>3, <3>1, <3>3, <3>5 DEF KeysNamed
    <3>7. OwnersAlone'
      <4>1. \A x \in Assembler : assembly'[x].own => x # a /\ assembly[x].own
        BY <2>2, <2>3
      <4>2. \A x \in Assembler : assembly'[x].own => assembly[x].key # k /\ assembly[x].key \in AssemblyKey
        BY <4>1, <3>1 DEF OwnersAlone, KeysNamed
      <4> HIDE DEF k, w
      <4> QED BY <2>2, <3>3, <4>1, <4>2 DEF OwnersAlone
    <3>8. ReturnedOnRecord'
      <4> SUFFICES ASSUME NEW x \in Assembler, assembly'[x].at \in {"result", "cached"}, ~ assembly'[x].own
                   PROVE  /\ snapshot'[assembly'[x].key] # NoSnapshot
                          /\ assembly'[x].window = snapshot'[assembly'[x].key].window
        BY DEF ReturnedOnRecord
      <4>1. assembly'[x] = assembly[x]
        BY <2>2, <2>3
      <4>2. /\ snapshot[assembly[x].key] # NoSnapshot /\ assembly[x].key \in AssemblyKey
            /\ assembly[x].window = snapshot[assembly[x].key].window
        BY <4>1 DEF ReturnedOnRecord, KeysNamed
      <4>3. assembly[x].key # k
        BY <4>2, <3>1
      <4> HIDE DEF k, w
      <4> QED BY <4>1, <4>2, <4>3, <3>3
    <3>9. EntriesBacked'
      <4> SUFFICES ASSUME NEW x \in AssemblyKey, cache'[x].window # NoContent, x \notin spoilt'
                   PROVE  \/ snapshot'[x].window = cache'[x].window
                          \/ \E y \in Assembler : /\ assembly'[y].key = x /\ assembly'[y].own
                                                  /\ assembly'[y].at = "cached"
                                                  /\ assembly'[y].window = cache'[x].window
        BY DEF EntriesBacked
      <4>1. cache'[x] = cache[x] /\ x \notin spoilt
        BY <2>1
      <4>2. CASE snapshot[x].window = cache[x].window
        <5>1. x # k
          BY <4>1, <4>2, <3>1 DEF NoSnapshot
        <5> QED BY <5>1, <4>1, <4>2, <3>3
      <4>3. CASE snapshot[x].window # cache[x].window
        <5>1. PICK y \in Assembler : /\ assembly[y].key = x /\ assembly[y].own
                                     /\ assembly[y].at = "cached"
                                     /\ assembly[y].window = cache[x].window
          BY <4>1, <4>3 DEF EntriesBacked
        <5>2. CASE y = a
          BY <5>1, <5>2, <4>1, <3>2
        <5>3. CASE y # a
          BY <5>1, <5>3, <2>2, <4>1
        <5> QED BY <5>2, <5>3
      <4> QED BY <4>2, <4>3
    <3> QED BY <3>4, <3>6, <3>7, <3>8, <3>9
  <2> QED BY <2>5, <2>6
<1>6. ASSUME NEW a \in Assembler, RollbackAssembly(a) PROVE SnapshotInv'
  <2>1. /\ assembly[a].at # "none" /\ UNCHANGED <<snapshot, cache, retention>>
        /\ assembly[a].key \in AssemblyKey
        /\ spoilt' = IF assembly[a].at = "cached" /\ assembly[a].own
                     THEN spoilt \cup {assembly[a].key} ELSE spoilt
        /\ assembly' = [assembly EXCEPT ![a] = [at |-> "none", key |-> "none",
                                               window |-> NoContent, own |-> FALSE]]
    BY <1>6 DEF RollbackAssembly, Goes, KeysNamed
  <2>2. \A x \in Assembler : x # a => assembly'[x] = assembly[x]
    BY <2>1 DEF SnapshotTypeOK
  <2>3. assembly'[a] = [at |-> "none", key |-> "none", window |-> NoContent, own |-> FALSE]
    BY <2>1 DEF SnapshotTypeOK
  <2>4. SnapshotTypeOK'
    <3>1. assembly' \in [Assembler ->
            [at : {"none", "served", "built", "missing", "result", "cached"},
             key : AssemblyKey \cup {"none"}, window : Content, own : BOOLEAN]]
      BY <2>1 DEF SnapshotTypeOK, Content
    <3>2. spoilt' \subseteq AssemblyKey
      BY <2>1 DEF SnapshotTypeOK
    <3> QED BY <2>1, <3>1, <3>2 DEF SnapshotTypeOK
  <2>5. KeysNamed'
    BY <2>1, <2>2, <2>3 DEF KeysNamed
  <2>6. OwnersAlone' /\ ReturnedOnRecord'
    BY <2>1, <2>2, <2>3 DEF OwnersAlone, ReturnedOnRecord
  <2>7. EntriesBacked'
    BY <2>1, <2>2 DEF EntriesBacked
  <2> QED BY <2>4, <2>5, <2>6, <2>7
<1>7. ASSUME NEW k \in AssemblyKey, EntryExpires(k) \/ DropEntry(k) PROVE SnapshotInv'
  <2>1. UNCHANGED <<snapshot, assembly, retention, spoilt>>
    BY <1>7 DEF EntryExpires, DropEntry
  <2>2. PICK e \in [window : Content, stale : BOOLEAN] :
          /\ cache' = [cache EXCEPT ![k] = e] /\ e.window \in {cache[k].window, NoContent}
    <3>1. CASE EntryExpires(k)
      <4> PICK e : e = [cache[k] EXCEPT !.stale = TRUE]
        OBVIOUS
      <4>1. cache[k] \in [window : Content, stale : BOOLEAN]
        BY DEF SnapshotTypeOK
      <4>2. e \in [window : Content, stale : BOOLEAN] /\ e.window = cache[k].window
        BY <4>1
      <4>3. cache' = [cache EXCEPT ![k] = e]
        BY <3>1 DEF EntryExpires
      <4> QED BY <4>2, <4>3
    <3>2. CASE DropEntry(k)
      <4>1. NoEntry \in [window : Content, stale : BOOLEAN] /\ NoEntry.window = NoContent
        BY DEF NoEntry, Content
      <4> QED BY <3>2, <4>1 DEF DropEntry
    <3> QED BY <1>7, <3>1, <3>2
  <2>3. \A x \in AssemblyKey : cache'[x].window \in {cache[x].window, NoContent}
    BY <2>2 DEF SnapshotTypeOK
  <2>4. SnapshotTypeOK'
    BY <2>1, <2>2 DEF SnapshotTypeOK
  <2>5. KeysNamed' /\ OwnersAlone' /\ ReturnedOnRecord'
    BY <2>1 DEF KeysNamed, OwnersAlone, ReturnedOnRecord
  <2>6. EntriesBacked'
    BY <2>1, <2>3 DEF EntriesBacked
  <2> QED BY <2>4, <2>5, <2>6
<1>8. ASSUME NEW r \in Retainer, NEW k \in AssemblyKey, FindArchivable(r, k) \/ FindExpirable(r, k)
      PROVE  SnapshotInv'
  <2>1. PICK op \in {"archive", "expire"} :
          retention' = [retention EXCEPT ![r] = [op |-> op, key |-> k]]
    BY <1>8 DEF FindArchivable, FindExpirable
  <2>2. UNCHANGED <<snapshot, cache, assembly, spoilt>> /\ snapshot[k] # NoSnapshot
    BY <1>8 DEF FindArchivable, FindExpirable, NoSnapshot
  <2>3. SnapshotTypeOK'
    BY <2>1, <2>2 DEF SnapshotTypeOK
  <2>4. KeysNamed'
    BY <2>1, <2>2 DEF KeysNamed, SnapshotTypeOK
  <2>5. OwnersAlone' /\ ReturnedOnRecord' /\ EntriesBacked'
    BY <2>2 DEF OwnersAlone, ReturnedOnRecord, EntriesBacked
  <2> QED BY <2>3, <2>4, <2>5
<1>9. ASSUME NEW r \in Retainer, Retain(r) PROVE SnapshotInv'
  <2> DEFINE k == retention[r].key
  <2>1. k \in AssemblyKey /\ snapshot[k] # NoSnapshot /\ UNCHANGED <<cache, assembly, spoilt>>
    BY <1>9 DEF Retain, KeysNamed
  <2>2. PICK status \in {"archived", "expired"} :
          snapshot' = [snapshot EXCEPT ![k] = [status |-> status, window |-> snapshot[k].window]]
    <3>1. PICK status \in {"archived", "expired"} : snapshot' = [snapshot EXCEPT ![k].status = status]
      BY <1>9 DEF Retain
    <3>2. snapshot' = [snapshot EXCEPT ![k] = [status |-> status, window |-> snapshot[k].window]]
      <4>1. snapshot' = [snapshot EXCEPT ![k] = [snapshot[k] EXCEPT !.status = status]]
        BY <3>1
      <4>2. [snapshot[k] EXCEPT !.status = status] = [status |-> status, window |-> snapshot[k].window]
        BY <2>1 DEF SnapshotTypeOK
      <4> QED BY <4>1, <4>2
    <3> QED BY <3>2
  <2>3. retention' = [retention EXCEPT ![r] = NoTask]
    BY <1>9 DEF Retain
  <2>4. /\ snapshot'[k] = [status |-> status, window |-> snapshot[k].window]
        /\ \A x \in AssemblyKey : x # k => snapshot'[x] = snapshot[x]
    <3> HIDE DEF k
    <3> QED BY <2>1, <2>2 DEF SnapshotTypeOK
  <2>5. /\ \A x \in AssemblyKey : snapshot'[x].window = snapshot[x].window
        /\ \A x \in AssemblyKey : snapshot'[x] = NoSnapshot <=> snapshot[x] = NoSnapshot
        /\ snapshot'[k].status # "none"
    <3>1. snapshot'[k] # NoSnapshot
      BY <2>4 DEF NoSnapshot
    <3> HIDE DEF k
    <3> QED BY <2>1, <2>4, <3>1
  <2>6. SnapshotTypeOK'
    <3>1. snapshot' \in [AssemblyKey ->
            [status : {"none", "active", "archived", "expired"}, window : Content]]
      <4>1. [status |-> status, window |-> snapshot[k].window]
              \in [status : {"none", "active", "archived", "expired"}, window : Content]
        BY <2>1 DEF SnapshotTypeOK
      <4> HIDE DEF k
      <4> QED BY <2>2, <4>1 DEF SnapshotTypeOK
    <3>2. retention' \in [Retainer ->
            [op : {"none", "archive", "expire"}, key : AssemblyKey \cup {"none"}]]
      BY <2>3 DEF SnapshotTypeOK, NoTask
    <3> QED BY <2>1, <3>1, <3>2 DEF SnapshotTypeOK
  <2>7. \A x \in Retainer : retention'[x] # NoTask => retention'[x] = retention[x]
    BY <2>3 DEF SnapshotTypeOK
  <2>8. KeysNamed'
    <3>1. \A x \in AssemblyKey : snapshot'[x].status = "none" => snapshot'[x] = NoSnapshot
      <4> HIDE DEF k
      <4> QED BY <2>4, <2>5 DEF KeysNamed
    <3> QED BY <2>1, <2>5, <2>7, <3>1 DEF KeysNamed
  <2>9. OwnersAlone'
    BY <2>1, <2>5 DEF OwnersAlone, KeysNamed
  <2>10. ReturnedOnRecord'
    BY <2>1, <2>5 DEF ReturnedOnRecord, KeysNamed
  <2>11. EntriesBacked'
    BY <2>1, <2>5 DEF EntriesBacked
  <2> QED BY <2>6, <2>8, <2>9, <2>10, <2>11
<1>10. CASE UNCHANGED snapshotVars
  BY <1>10 DEF snapshotVars, SnapshotTypeOK, KeysNamed, OwnersAlone, ReturnedOnRecord, EntriesBacked
<1> QED BY <1>1, <1>2, <1>3, <1>4, <1>5, <1>6, <1>7, <1>8, <1>9, <1>10 DEF SnapshotNext

-----------------------------------------------------------------------------
(* ContextWindow.  Pure: what truncation promises is a lemma about any batch; *)
(* the last item given up is where the rest begins to fit.                 *)

\* The tokens of the items at some places, each a row of its own.
TokenRows(items, places) == UNION {{i} \X (1 .. items[i].tokens) : i \in places}

\* The items of a batch and their places.
LEMMA ItemsTyped ==
  ASSUME NEW items \in Seq(ContextItem)
  PROVE  /\ DOMAIN items = 1 .. Len(items) /\ Len(items) \in Nat /\ IsFiniteSet(DOMAIN items)
         /\ \A i \in DOMAIN items :
              /\ i \in Int /\ items[i].tokens \in Nat
              /\ items[i].priority \in Int /\ items[i].created \in Int
<1>1. DOMAIN items = 1 .. Len(items) /\ Len(items) \in Nat
  OBVIOUS
<1>2. IsFiniteSet(1 .. Len(items))
  BY <1>1, CountedTo
<1>3. \A i \in DOMAIN items : items[i] \in ContextItem /\ i \in Int
  BY <1>1
<1> QED BY <1>1, <1>2, <1>3, WindowAssumption

\* One item more brings its tokens, and no other.
LEMMA TokensAdded ==
  ASSUME NEW items \in Seq(ContextItem), NEW P, P \subseteq DOMAIN items,
         IsFiniteSet(TokenRows(items, P)), NEW g \in DOMAIN items, g \notin P
  PROVE  /\ IsFiniteSet(TokenRows(items, P \cup {g}))
         /\ TokenSum(items, P \cup {g}) = TokenSum(items, P) + items[g].tokens
<1> DEFINE Own == {g} \X (1 .. items[g].tokens)
<1>1. items[g].tokens \in Nat
  BY ItemsTyped
<1>2. IsFiniteSet(1 .. items[g].tokens) /\ Cardinality(1 .. items[g].tokens) = items[g].tokens
  BY <1>1, CountedTo
<1>3. IsFiniteSet({g}) /\ Cardinality({g}) = 1
  BY FS_Singleton
<1>4. IsFiniteSet(Own) /\ Cardinality(Own) = 1 * Cardinality(1 .. items[g].tokens)
  BY <1>2, <1>3, FS_Product
<1>5. Cardinality(Own) = items[g].tokens
  BY <1>1, <1>2, <1>4
<1>6. TokenRows(items, P \cup {g}) = TokenRows(items, P) \cup Own
  BY DEF TokenRows
<1>7. TokenRows(items, P) \cap Own = {}
  BY DEF TokenRows
<1> HIDE DEF Own
<1>8. /\ IsFiniteSet(TokenRows(items, P) \cup Own)
      /\ Cardinality(TokenRows(items, P) \cup Own)
           = Cardinality(TokenRows(items, P)) + Cardinality(Own) - Cardinality({})
  BY <1>4, <1>7, FS_Union
<1>9. Cardinality({}) = 0 /\ Cardinality(TokenRows(items, P)) \in Nat
  BY FS_EmptySet, FS_CardinalityType
<1>10. Cardinality(TokenRows(items, P) \cup Own) = Cardinality(TokenRows(items, P)) + items[g].tokens
  BY <1>1, <1>5, <1>8, <1>9
<1> QED BY <1>6, <1>8, <1>10 DEF TokenSum, TokenRows

\* The tokens of any places of a batch are finitely many.
LEMMA TokensFinite ==
  ASSUME NEW items \in Seq(ContextItem), NEW P, P \subseteq DOMAIN items
  PROVE  IsFiniteSet(P) /\ IsFiniteSet(TokenRows(items, P)) /\ TokenSum(items, P) \in Nat
<1>1. IsFiniteSet(P)
  BY ItemsTyped, FS_Subset
<1> DEFINE C == {T \in SUBSET P : IsFiniteSet(TokenRows(items, T))}
<1>2. {} \in C
  <2>1. TokenRows(items, {}) = {}
    BY DEF TokenRows
  <2> QED BY <2>1, FS_EmptySet
<1>3. ASSUME NEW T \in SUBSET P, NEW g \in T, T \ {g} \in C PROVE T \in C
  <2>1. T \ {g} \subseteq DOMAIN items /\ g \in DOMAIN items /\ g \notin T \ {g}
        /\ (T \ {g}) \cup {g} = T /\ IsFiniteSet(TokenRows(items, T \ {g}))
    BY <1>3
  <2>2. IsFiniteSet(TokenRows(items, (T \ {g}) \cup {g}))
    BY <2>1, TokensAdded
  <2> QED BY <2>1, <2>2
<1>4. P \in C
  <2> HIDE DEF C
  <2> QED BY <1>1, <1>2, <1>3, SubsetsReached
<1>5. Cardinality(TokenRows(items, P)) \in Nat
  BY <1>4, FS_CardinalityType
<1> QED BY <1>1, <1>4, <1>5 DEF TokenSum, TokenRows

\* Fewer places have no more tokens.
LEMMA TokensGrow ==
  ASSUME NEW items \in Seq(ContextItem), NEW P, NEW Q, P \subseteq Q, Q \subseteq DOMAIN items
  PROVE  TokenSum(items, P) <= TokenSum(items, Q)
<1>1. IsFiniteSet(TokenRows(items, Q))
  BY TokensFinite
<1>2. TokenRows(items, P) \subseteq TokenRows(items, Q)
  BY DEF TokenRows
<1>3. Cardinality(TokenRows(items, P)) <= Cardinality(TokenRows(items, Q))
  BY <1>1, <1>2, FS_Subset
<1> QED BY <1>3 DEF TokenSum, TokenRows

\* Items are sorted by what orders them, and those that are alike by their place.
LEMMA ImportanceInTurn ==
  ASSUME NEW items \in Seq(ContextItem),
         NEW i \in DOMAIN items, NEW j \in DOMAIN items, NEW k \in DOMAIN items
  PROVE  /\ ~ MoreImportant(items, i, i)
         /\ i # j => MoreImportant(items, i, j) \/ MoreImportant(items, j, i)
         /\ MoreImportant(items, i, j) /\ MoreImportant(items, j, k) => MoreImportant(items, i, k)
<1>1. /\ i \in Int /\ items[i].priority \in Int /\ items[i].created \in Int
      /\ j \in Int /\ items[j].priority \in Int /\ items[j].created \in Int
      /\ k \in Int /\ items[k].priority \in Int /\ items[k].created \in Int
  BY ItemsTyped
<1> QED BY <1>1 DEF MoreImportant

\* A strategy gives the items up one after the other.
LEMMA GivenUpInTurn ==
  ASSUME NEW items \in Seq(ContextItem), NEW strategy
  PROVE  /\ \A i \in DOMAIN items : ~ GivenUpBefore(items, strategy, i, i)
         /\ \A i, j \in DOMAIN items :
              i # j => GivenUpBefore(items, strategy, i, j) \/ GivenUpBefore(items, strategy, j, i)
         /\ \A i, j, k \in DOMAIN items :
              GivenUpBefore(items, strategy, i, j) /\ GivenUpBefore(items, strategy, j, k)
                => GivenUpBefore(items, strategy, i, k)
<1> SUFFICES ASSUME NEW i \in DOMAIN items, NEW j \in DOMAIN items, NEW k \in DOMAIN items
             PROVE  /\ ~ GivenUpBefore(items, strategy, i, i)
                    /\ i # j => \/ GivenUpBefore(items, strategy, i, j)
                                \/ GivenUpBefore(items, strategy, j, i)
                    /\ GivenUpBefore(items, strategy, i, j) /\ GivenUpBefore(items, strategy, j, k)
                         => GivenUpBefore(items, strategy, i, k)
  OBVIOUS
<1>1. /\ items[i].priority \in Int /\ items[i].tokens \in Int
      /\ items[j].priority \in Int /\ items[j].tokens \in Int
      /\ items[k].priority \in Int /\ items[k].tokens \in Int
  BY ItemsTyped
<1>2. /\ ~ MoreImportant(items, i, i)
      /\ i # j => MoreImportant(items, i, j) \/ MoreImportant(items, j, i)
      /\ MoreImportant(items, i, j) /\ MoreImportant(items, j, k) => MoreImportant(items, i, k)
  BY ImportanceInTurn
<1>3. CASE strategy = "truncate_lowest_priority"
  BY <1>1, <1>2, <1>3 DEF GivenUpBefore
<1>4. CASE strategy = "truncate_largest"
  BY <1>1, <1>2, <1>4 DEF GivenUpBefore
<1>5. CASE strategy # "truncate_lowest_priority" /\ strategy # "truncate_largest"
  BY <1>2, <1>5 DEF GivenUpBefore
<1> QED BY <1>3, <1>4, <1>5

\* Of finitely many things given up there is one that was given up last.
LEMMA LastGivenUp ==
  ASSUME NEW items \in Seq(ContextItem), NEW strategy, NEW G, G \subseteq DOMAIN items, G # {}
  PROVE  \E g \in G : \A h \in G : h # g => GivenUpBefore(items, strategy, h, g)
<1> DEFINE Since(g) == {h \in G : ~ GivenUpBefore(items, strategy, h, g)}
           C == {Since(g) : g \in G}
<1>1. IsFiniteSet(G)
  BY TokensFinite
<1>2. C \subseteq FiniteSubsetsOf(G) /\ C # {}
  <2>1. \A g \in G : Since(g) \subseteq G /\ IsFiniteSet(Since(g))
    BY <1>1, FS_Subset
  <2> HIDE DEF Since
  <2> QED BY <2>1 DEF FiniteSubsetsOf
<1>3. \E T \in C : \A U \in C : U \subseteq T => U = T
  <2> HIDE DEF C
  <2> QED BY <1>2, LeastSubset
<1>4. PICK g \in G : \A h \in G : Since(h) \subseteq Since(g) => Since(h) = Since(g)
  <2> HIDE DEF Since
  <2> QED BY <1>3
<1>5. ASSUME NEW h \in G, h # g PROVE GivenUpBefore(items, strategy, h, g)
  <2> SUFFICES ASSUME ~ GivenUpBefore(items, strategy, h, g) PROVE FALSE
    OBVIOUS
  <2>1. GivenUpBefore(items, strategy, g, h)
    BY <1>5, GivenUpInTurn
  <2>2. \A x \in G : GivenUpBefore(items, strategy, x, g) => GivenUpBefore(items, strategy, x, h)
    BY <2>1, GivenUpInTurn
  <2>3. Since(h) \subseteq Since(g)
    BY <2>2
  <2>4. g \in Since(g) /\ g \notin Since(h)
    BY <2>1, GivenUpInTurn
  <2> QED BY <1>4, <2>3, <2>4
<1> QED BY <1>5

\* What a truncation gives up: what may go, nothing before what comes earlier, and
\* no more than it must.
LEMMA TruncationGivesUp ==
  ASSUME NEW items \in Seq(ContextItem), NEW P, P \subseteq DOMAIN items,
         NEW budget \in Int, NEW strategy
  PROVE  /\ \A g \in GivenUp(items, P, budget, strategy) :
              g \in P /\ items[g].layer \notin Protected
         /\ \A g \in GivenUp(items, P, budget, strategy), k \in P :
              items[k].layer \notin Protected /\ GivenUpBefore(items, strategy, k, g)
                => k \in GivenUp(items, P, budget, strategy)
         /\ GivenUp(items, P, budget, strategy) # {} =>
              \E g \in GivenUp(items, P, budget, strategy) :
                TokenSum(items, P \ GivenUp(items, P, budget, strategy)) + items[g].tokens > budget
<1> DEFINE May == {i \in P : items[i].layer \notin Protected}
           Gone(i) == {j \in May : GivenUpBefore(items, strategy, j, i)}
<1>1. PICK G : G = {i \in May : TokenSum(items, P \ Gone(i)) > budget}
  OBVIOUS
<1>2. GivenUp(items, P, budget, strategy) = G
  BY <1>1 DEF GivenUp
<1>3. \A g \in G : g \in P /\ items[g].layer \notin Protected
  BY <1>1
<1>4. ASSUME NEW g \in G, NEW k \in May, GivenUpBefore(items, strategy, k, g) PROVE k \in G
  <2>1. Gone(k) \subseteq Gone(g)
    BY <1>3, <1>4, GivenUpInTurn
  <2>2. TokenSum(items, P \ Gone(g)) <= TokenSum(items, P \ Gone(k))
    <3> HIDE DEF Gone
    <3> QED BY <2>1, TokensGrow
  <2>3. TokenSum(items, P \ Gone(g)) \in Nat /\ TokenSum(items, P \ Gone(k)) \in Nat
    BY TokensFinite
  <2>4. TokenSum(items, P \ Gone(g)) > budget
    BY <1>1
  <2>5. TokenSum(items, P \ Gone(k)) > budget
    <3> HIDE DEF Gone
    <3> QED BY <2>2, <2>3, <2>4
  <2> QED BY <1>1, <2>5
<1>5. ASSUME G # {} PROVE \E g \in G : TokenSum(items, P \ G) + items[g].tokens > budget
  <2>1. PICK g \in G : \A h \in G : h # g => GivenUpBefore(items, strategy, h, g)
    BY <1>3, <1>5, LastGivenUp
  <2>2. Gone(g) = G \ {g}
    <3>1. Gone(g) \subseteq G
      BY <1>4
    <3>2. g \notin Gone(g)
      BY <1>3, GivenUpInTurn
    <3>3. G \ {g} \subseteq Gone(g)
      BY <1>1, <2>1
    <3> QED BY <3>1, <3>2, <3>3
  <2>3. P \ Gone(g) = (P \ G) \cup {g}
    BY <1>3, <2>2
  <2>4. TokenSum(items, P \ Gone(g)) > budget
    BY <1>1
  <2>5. P \ G \subseteq DOMAIN items /\ g \in DOMAIN items /\ g \notin P \ G
        /\ IsFiniteSet(TokenRows(items, P \ G))
    BY <1>3, TokensFinite
  <2>6. TokenSum(items, (P \ G) \cup {g}) = TokenSum(items, P \ G) + items[g].tokens
    BY <2>5, TokensAdded
  <2> HIDE DEF Gone
  <2> QED BY <2>3, <2>4, <2>6
<1>6. \A g \in G, k \in P :
        items[k].layer \notin Protected /\ GivenUpBefore(items, strategy, k, g) => k \in G
  BY <1>4
<1> HIDE DEF May, Gone
<1> QED BY <1>2, <1>3, <1>5, <1>6

\* The tokens at places that have nothing in common add up.
LEMMA TokensApart ==
  ASSUME NEW items \in Seq(ContextItem), NEW P, NEW Q, P \cup Q \subseteq DOMAIN items, P \cap Q = {}
  PROVE  TokenSum(items, P \cup Q) = TokenSum(items, P) + TokenSum(items, Q)
<1>1. TokenRows(items, P \cup Q) = TokenRows(items, P) \cup TokenRows(items, Q)
  BY DEF TokenRows
<1>2. TokenRows(items, P) \cap TokenRows(items, Q) = {}
  BY DEF TokenRows
<1>3. IsFiniteSet(TokenRows(items, P)) /\ IsFiniteSet(TokenRows(items, Q))
  BY TokensFinite
<1>4. Cardinality(TokenRows(items, P) \cup TokenRows(items, Q))
        = Cardinality(TokenRows(items, P)) + Cardinality(TokenRows(items, Q)) - Cardinality({})
  BY <1>2, <1>3, FS_Union
<1>5. /\ Cardinality({}) = 0 /\ Cardinality(TokenRows(items, P)) \in Nat
      /\ Cardinality(TokenRows(items, Q)) \in Nat
  BY <1>3, FS_EmptySet, FS_CardinalityType
<1>6. Cardinality(TokenRows(items, P \cup Q))
        = Cardinality(TokenRows(items, P)) + Cardinality(TokenRows(items, Q))
  <2>1. PICK p, q : p = Cardinality(TokenRows(items, P)) /\ q = Cardinality(TokenRows(items, Q))
    OBVIOUS
  <2>2. p \in Nat /\ q \in Nat /\ p + q - 0 = p + q
    BY <1>5, <2>1
  <2>3. Cardinality(TokenRows(items, P) \cup TokenRows(items, Q)) = p + q - 0
    BY <1>4, <1>5, <2>1
  <2> QED BY <1>1, <2>1, <2>2, <2>3
<1> QED BY <1>6 DEF TokenSum, TokenRows

\* What the sources of a window contributed adds up to the tokens of the window.
LEMMA SourcesAddUp ==
  ASSUME NEW items \in Seq(ContextItem), NEW P, P \subseteq DOMAIN items,
         NEW prov, prov = Provenance(items, P)
  PROVE  Cardinality(UNION {{src} \X (1 .. prov[src].token_count) : src \in DOMAIN prov})
           = TokenSum(items, P)
<1> DEFINE Src == {items[i].source : i \in P}
           Own(src) == {i \in P : items[i].source = src}
           From(S) == {i \in P : items[i].source \in S}
           Shares(S) == UNION {{src} \X (1 .. prov[src].token_count) : src \in S}
<1>1. /\ DOMAIN prov = Src
      /\ \A src \in Src : prov[src].token_count = TokenSum(items, Own(src))
  BY DEF Provenance
<1>2. IsFiniteSet(Src)
  <2>1. PICK f : f = [i \in P |-> items[i].source]
    OBVIOUS
  <2>2. f \in Surjection(P, Src)
    BY <2>1 DEF Surjection
  <2>3. IsFiniteSet(P)
    BY TokensFinite
  <2> HIDE DEF Src
  <2> QED BY <2>2, <2>3, FS_Surjection
<1> DEFINE C == {S \in SUBSET Src : /\ IsFiniteSet(Shares(S))
                                   /\ Cardinality(Shares(S)) = TokenSum(items, From(S))}
<1>3. {} \in C
  <2>1. Shares({}) = {} /\ TokenRows(items, From({})) = {}
    BY DEF TokenRows
  <2>2. IsFiniteSet({}) /\ Cardinality({}) = 0
    BY FS_EmptySet
  <2>3. TokenSum(items, From({})) = Cardinality(TokenRows(items, From({})))
    BY DEF TokenSum, TokenRows
  <2> QED BY <2>1, <2>2, <2>3
<1>4. ASSUME NEW S \in SUBSET Src, NEW s \in S, S \ {s} \in C PROVE S \in C
  <2>1. PICK R, c : R = S \ {s} /\ c = TokenSum(items, Own(s))
    OBVIOUS
  <2>2. s \in Src /\ prov[s].token_count = c /\ c \in Nat
    <3>1. Own(s) \subseteq DOMAIN items
      OBVIOUS
    <3>2. TokenSum(items, Own(s)) \in Nat
      <4> HIDE DEF Own
      <4> QED BY <3>1, TokensFinite
    <3> HIDE DEF Own, Src
    <3> QED BY <1>1, <2>1, <3>2
  <2>3. IsFiniteSet(Shares(R)) /\ Cardinality(Shares(R)) = TokenSum(items, From(R))
    BY <1>4, <2>1
  <2>4. Shares(S) = Shares(R) \cup ({s} \X (1 .. c))
    BY <2>1, <2>2
  <2>5. Shares(R) \cap ({s} \X (1 .. c)) = {}
    BY <2>1
  <2>6. IsFiniteSet({s} \X (1 .. c)) /\ Cardinality({s} \X (1 .. c)) = c
    <3>1. IsFiniteSet(1 .. c) /\ Cardinality(1 .. c) = c
      BY <2>2, CountedTo
    <3>2. IsFiniteSet({s}) /\ Cardinality({s}) = 1
      BY FS_Singleton
    <3>3. IsFiniteSet({s} \X (1 .. c)) /\ Cardinality({s} \X (1 .. c)) = 1 * Cardinality(1 .. c)
      BY <3>1, <3>2, FS_Product
    <3> QED BY <2>2, <3>1, <3>3
  <2>7. From(S) = From(R) \cup Own(s) /\ From(R) \cap Own(s) = {}
        /\ From(R) \cup Own(s) \subseteq DOMAIN items
    BY <2>1
  <2>8. TokenSum(items, From(S)) = TokenSum(items, From(R)) + c
    <3> HIDE DEF From, Own
    <3> QED BY <2>1, <2>7, TokensApart
  <2>9. IsFiniteSet(Shares(S)) /\ Cardinality(Shares(S)) = Cardinality(Shares(R)) + c
    <3> HIDE DEF Shares
    <3>1. /\ IsFiniteSet(Shares(S))
          /\ Cardinality(Shares(S)) = Cardinality(Shares(R)) + c - Cardinality({})
      BY <2>3, <2>4, <2>5, <2>6, FS_Union
    <3>2. Cardinality({}) = 0 /\ Cardinality(Shares(R)) \in Nat
      BY <2>3, FS_EmptySet, FS_CardinalityType
    <3> QED BY <2>2, <3>1, <3>2
  <2> HIDE DEF Shares, From
  <2> QED BY <2>3, <2>8, <2>9
<1>5. Src \in C
  <2> HIDE DEF C, Src
  <2> QED BY <1>2, <1>3, <1>4, SubsetsReached
<1>6. From(Src) = P
  OBVIOUS
<1>7. Cardinality(Shares(Src)) = TokenSum(items, From(Src))
  BY <1>5
<1> HIDE DEF Src, From
<1> QED BY <1>1, <1>6, <1>7

\* A window is what was built for what was asked, or nothing was asked.
WindowInv ==
  \/ asked = NoRequest /\ window = NoWindow
  \/ /\ asked # NoRequest /\ asked.items \in ItemBatch /\ asked.budget \in TokenBudget
     /\ window = Judged(BuildWindow(asked), asked.budget)

\* The invariant holds at the start.
LEMMA WindowInitially == WindowInit => WindowInv
BY DEF WindowInit, WindowInv

\* Every step of the service keeps the invariant.
LEMMA WindowStep == WindowInv /\ [WindowNext]_windowVars => WindowInv'
<1> SUFFICES ASSUME WindowInv, [WindowNext]_windowVars PROVE WindowInv'
  OBVIOUS
<1>1. ASSUME NEW items \in ItemBatch, NEW budget \in TokenBudget, NEW strategy \in WindowStrategy,
             NEW max_items \in ItemLimit, Assemble(items, budget, strategy, max_items)
      PROVE  WindowInv'
  <2>1. asked' = [items |-> items, budget |-> budget, strategy |-> strategy, max_items |-> max_items]
    BY <1>1 DEF Assemble
  <2>2. asked'.items = items /\ asked'.budget = budget /\ asked'.strategy = strategy
    BY <2>1
  <2>3. asked' # NoRequest
    BY <2>2 DEF NoRequest, WindowStrategy
  <2>4. window' = Judged(BuildWindow(asked'), asked'.budget)
    BY <1>1, <2>2 DEF Assemble
  <2>5. asked'.items \in ItemBatch /\ asked'.budget \in TokenBudget
    BY <2>2
  <2> QED BY <2>3, <2>4, <2>5 DEF WindowInv, Judged, BuildWindow, GivenUp, TokenSum, GivenUpBefore, MoreImportant
<1>2. CASE Done
  BY <1>2 DEF Done, WindowInv, NoRequest, NoWindow
<1>3. CASE UNCHANGED windowVars
  BY <1>3 DEF windowVars, WindowInv
<1> QED BY <1>1, <1>2, <1>3 DEF WindowNext

\* What the suite asks follows from the invariant.
LEMMA WindowImplies == WindowInv => WindowTypeOK /\ WindowSound
<1> SUFFICES ASSUME WindowInv PROVE WindowTypeOK /\ WindowSound
  OBVIOUS
<1>1. CASE asked = NoRequest /\ window = NoWindow
  <2>1. asked.items = <<>> /\ window.items = {} /\ window.total = 0 /\ window.outcome = "none"
    BY <1>1 DEF NoRequest, NoWindow
  <2>2. /\ DOMAIN asked.items = {} /\ asked.items \in Seq(ContextItem)
        /\ window.items \subseteq DOMAIN asked.items
    BY <2>1
  <2>3. TokenSum(asked.items, window.items) = 0
    <3>1. UNION {{i} \X (1 .. asked.items[i].tokens) : i \in window.items} = {}
      BY <2>1
    <3> QED BY <3>1, FS_EmptySet DEF TokenSum
  <2>4. PICK prov : prov = Provenance(asked.items, window.items)
    OBVIOUS
  <2>5. Cardinality(UNION {{src} \X (1 .. prov[src].token_count) : src \in DOMAIN prov})
          = TokenSum(asked.items, window.items)
    BY <2>2, <2>4, SourcesAddUp
  <2>6. WindowTypeOK
    BY <1>1, <2>1 DEF WindowTypeOK
  <2> QED BY <2>1, <2>2, <2>3, <2>4, <2>5, <2>6 DEF WindowSound
<1>2. CASE /\ asked # NoRequest /\ asked.items \in ItemBatch /\ asked.budget \in TokenBudget
           /\ window = Judged(BuildWindow(asked), asked.budget)
  <2> DEFINE items == asked.items
             capped == {i \in DOMAIN items : asked.max_items = 0 \/ i <= asked.max_items}
             lost == IF asked.strategy = "fail_on_overflow" THEN {}
                     ELSE GivenUp(items, capped, asked.budget, asked.strategy)
             prov == Provenance(items, window.items)
  <2>1. /\ window.items = capped \ lost /\ window.total = TokenSum(items, capped \ lost)
        /\ window.outcome = IF window.total > asked.budget THEN "refused" ELSE "injected"
    BY <1>2 DEF Judged, BuildWindow
  <2>2. items \in Seq(ContextItem) /\ asked.budget \in Int /\ capped \subseteq DOMAIN items
    BY <1>2, WindowAssumption
  <2>3. window.total \in Nat
    BY <2>1, <2>2, TokensFinite
  <2>4. /\ \A g \in lost : g \in capped /\ items[g].layer \notin Protected
        /\ \A g \in lost, k \in capped :
             items[k].layer \notin Protected /\ GivenUpBefore(items, asked.strategy, k, g) => k \in lost
        /\ lost # {} => \E g \in lost : TokenSum(items, capped \ lost) + items[g].tokens > asked.budget
    <3>1. CASE asked.strategy = "fail_on_overflow"
      BY <3>1
    <3>2. CASE asked.strategy # "fail_on_overflow"
      <4>1. lost = GivenUp(items, capped, asked.budget, asked.strategy)
        BY <3>2
      <4> HIDE DEF lost, capped, items
      <4> QED BY <2>2, <4>1, TruncationGivesUp
    <3> QED BY <3>1, <3>2
  <2>5. asked.max_items = 0 => capped = DOMAIN items /\ DOMAIN items \ window.items = lost
    BY <2>1, <2>4
  <2>6. window.outcome = "injected" => window.total <= asked.budget
    BY <2>1, <2>2, <2>3
  <2>7. asked.max_items = 0 => \A i \in DOMAIN items : items[i].layer \in Protected => i \in window.items
    BY <2>4, <2>5
  <2>8. asked.max_items = 0 /\ DOMAIN items \ window.items # {} =>
          \E g \in DOMAIN items \ window.items : window.total + items[g].tokens > asked.budget
    BY <2>1, <2>4, <2>5
  <2>9. ASSUME asked.max_items = 0, NEW g \in DOMAIN items \ window.items,
               NEW k \in {i \in window.items : items[i].layer \notin Protected}
        PROVE  /\ asked.strategy = "truncate_lowest_priority" => items[g].priority >= items[k].priority
               /\ asked.strategy = "truncate_largest" => items[g].tokens >= items[k].tokens
    <3>1. g \in lost /\ k \in capped /\ k \notin lost /\ g \in DOMAIN items /\ k \in DOMAIN items
      BY <2>1, <2>5, <2>9
    <3>2. ~ GivenUpBefore(items, asked.strategy, k, g)
      BY <2>4, <2>9, <3>1
    <3>3. /\ items[g].priority \in Int /\ items[k].priority \in Int
          /\ items[g].tokens \in Int /\ items[k].tokens \in Int
      BY <2>2, <3>1, ItemsTyped
    <3> HIDE DEF items
    <3> QED BY <3>2, <3>3 DEF GivenUpBefore
  <2>10. window.total = Cardinality(UNION {{src} \X (1 .. prov[src].token_count) : src \in DOMAIN prov})
    <3>1. window.items \subseteq DOMAIN items /\ window.total = TokenSum(items, window.items)
      BY <2>1
    <3> HIDE DEF items
    <3> QED BY <2>2, <3>1, SourcesAddUp
  <2>11. WindowTypeOK
    BY <1>2, <2>1 DEF WindowTypeOK
  <2>12. WindowSound
    <3> HIDE DEF capped, lost
    <3> QED BY <2>6, <2>7, <2>8, <2>9, <2>10 DEF WindowSound
  <2> QED BY <2>11, <2>12
<1> QED BY <1>1, <1>2 DEF WindowInv

-----------------------------------------------------------------------------
(* GovernanceEvaluation.  The loop over the rows, in any order of them, finds *)
(* what the reference does.  Invariant: who is barred is being refused.     *)

\* What the loop over the rows has found when it has met the rows R: a latest
\* version of each of their keys.
FoundAmong(found, R) ==
  /\ found \in Seq(PolicyRow)
  /\ Range(found) \subseteq R
  /\ \A r \in R : \E q \in Range(found) : q.key = r.key /\ q.version >= r.version
  /\ \A r \in R : \A q \in Range(found) : q.key = r.key => r.version <= q.version

\* The next row is added to what was found, takes the place of an older version, or
\* is left out.
LEMMA KeepFinds ==
  ASSUME NEW found, NEW R, R \subseteq PolicyRow, FoundAmong(found, R), NEW p \in PolicyRow
  PROVE  FoundAmong(Keep(found, p), R \cup {p})
<1>1. \A q \in PolicyRow : q.version \in Nat
  BY EvaluationAssumption
<1>2. CASE \A q \in Range(found) : q.key # p.key
  <2>1. Keep(found, p) = Append(found, p)
    BY <1>2 DEF Keep
  <2>2. Append(found, p) \in Seq(PolicyRow) /\ Range(Append(found, p)) = Range(found) \cup {p}
    <3>1. found \in Seq(PolicyRow) /\ Len(found) \in Nat /\ DOMAIN found = 1 .. Len(found)
      BY DEF FoundAmong
    <3>2. PICK g : g = Append(found, p)
      OBVIOUS
    <3>3. /\ g \in Seq(PolicyRow) /\ DOMAIN g = 1 .. Len(found) + 1
          /\ \A i \in 1 .. Len(found) : g[i] = found[i]
          /\ g[Len(found) + 1] = p
      BY <3>1, <3>2
    <3>4. 1 .. Len(found) + 1 = (1 .. Len(found)) \cup {Len(found) + 1}
      BY <3>1
    <3>5. Range(g) = Range(found) \cup {p}
      <4>1. \A x : x \in Range(g) <=> \E i \in DOMAIN g : x = g[i]
        BY DEF Range
      <4>2. \A x : x \in Range(found) <=> \E i \in DOMAIN found : x = found[i]
        BY DEF Range
      <4> QED BY <3>1, <3>3, <3>4, <4>1, <4>2
    <3> QED BY <3>2, <3>3, <3>5
  <2>3. \A r \in R : r.key # p.key
    BY <1>2 DEF FoundAmong
  <2>4. p.version <= p.version /\ p.version >= p.version
    BY <1>1
  <2>5. PICK found2 : found2 = Append(found, p)
    OBVIOUS
  <2>6. FoundAmong(found2, R \cup {p})
    BY <1>2, <2>2, <2>3, <2>4, <2>5 DEF FoundAmong
  <2> QED BY <2>1, <2>5, <2>6
<1>3. CASE ~ \A q \in Range(found) : q.key # p.key
  <2>1. PICK found2 : found2 = [i \in DOMAIN found |->
          IF found[i].key = p.key /\ p.version > found[i].version THEN p ELSE found[i]]
    OBVIOUS
  <2>2. Keep(found, p) = found2
    BY <1>3, <2>1 DEF Keep
  <2>3. found \in Seq(PolicyRow) /\ DOMAIN found2 = DOMAIN found
    BY <2>1 DEF FoundAmong
  <2>4. found2 \in Seq(PolicyRow)
    BY <2>1, <2>3
  <2>5. \A i \in DOMAIN found :
          /\ found[i] \in Range(found) /\ found2[i] \in Range(found2)
          /\ found2[i] \in {p, found[i]} /\ found2[i].key = found[i].key
          /\ found2[i].version >= found[i].version
          /\ found[i].key = p.key => found2[i].version >= p.version
    <3> SUFFICES ASSUME NEW i \in DOMAIN found
                 PROVE  /\ found[i] \in Range(found) /\ found2[i] \in Range(found2)
                        /\ found2[i] \in {p, found[i]} /\ found2[i].key = found[i].key
                        /\ found2[i].version >= found[i].version
                        /\ found[i].key = p.key => found2[i].version >= p.version
      OBVIOUS
    <3>1. found[i] \in Range(found) /\ found2[i] \in Range(found2)
      BY <2>3 DEF Range
    <3>2. found[i].version \in Nat /\ p.version \in Nat
      BY <1>1, <2>3
    <3> QED BY <3>1, <3>2, <2>1
  <2>6. \A q \in Range(found2) : \E i \in DOMAIN found : q = found2[i]
    BY <2>3 DEF Range
  <2>7. \A q \in Range(found) : \E i \in DOMAIN found : q = found[i]
    BY DEF Range
  <2>8. Range(found2) \subseteq R \cup {p}
    BY <2>5, <2>6 DEF FoundAmong
  <2>9. \A r \in R \cup {p} : \E q \in Range(found2) : q.key = r.key /\ q.version >= r.version
    <3>1. ASSUME NEW r \in R PROVE \E q \in Range(found2) : q.key = r.key /\ q.version >= r.version
      <4>1. PICK i \in DOMAIN found : found[i].key = r.key /\ found[i].version >= r.version
        BY <2>7 DEF FoundAmong
      <4>2. found[i].version \in Nat /\ found2[i].version \in Nat /\ r.version \in Nat
        BY <1>1, <2>3, <2>5
      <4>3. found2[i].key = r.key /\ found2[i].version >= r.version
        BY <2>5, <4>1, <4>2
      <4> QED BY <2>5, <4>3
    <3>2. PICK i \in DOMAIN found : found[i].key = p.key
      BY <1>3, <2>7
    <3>3. found2[i].key = p.key /\ found2[i].version >= p.version
      BY <2>5, <3>2
    <3> QED BY <2>5, <3>1, <3>3
  <2>10. \A r \in R \cup {p} : \A q \in Range(found2) : q.key = r.key => r.version <= q.version
    <3> SUFFICES ASSUME NEW r \in R \cup {p}, NEW i \in DOMAIN found, found2[i].key = r.key
                 PROVE  r.version <= found2[i].version
      BY <2>6
    <3>1. found[i].version \in Nat /\ found2[i].version \in Nat /\ r.version \in Nat /\ p.version \in Nat
      BY <1>1, <2>3, <2>5
    <3>2. CASE r = p
      BY <2>5, <3>1, <3>2
    <3>3. CASE r \in R
      <4>1. r.version <= found[i].version
        BY <2>5, <3>3 DEF FoundAmong
      <4> QED BY <2>5, <3>1, <4>1
    <3> QED BY <3>2, <3>3
  <2> QED BY <2>2, <2>4, <2>8, <2>9, <2>10 DEF FoundAmong
<1> QED BY <1>2, <1>3

\* The loop over the rows runs to its end.
LEMMA LatestRuns ==
  ASSUME NEW listed \in Seq(PolicyRow)
  PROVE  \E f : /\ f[0] = <<>> /\ \A n \in 1 .. Len(listed) : f[n] = Keep(f[n - 1], listed[n])
                /\ LatestOf(listed) = f[Len(listed)]
<1>0. Len(listed) \in Nat
  OBVIOUS
<1> DEFINE Q == {k \in Nat : \E f : f = [n \in 0..k |-> IF n = 0 THEN <<>> ELSE Keep(f[n-1], listed[n])]}
<1>1. 0 \in Q
  <2>1. PICK f : f = [n \in 0..0 |-> <<>>]
    OBVIOUS
  <2>2. f = [n \in 0..0 |-> IF n = 0 THEN <<>> ELSE Keep(f[n-1], listed[n])]
    BY <2>1
  <2> QED BY <2>2
<1>2. ASSUME NEW k \in Nat, k \in Q PROVE k + 1 \in Q
  <2>1. PICK f : f = [n \in 0..k |-> IF n = 0 THEN <<>> ELSE Keep(f[n-1], listed[n])]
    BY <1>2
  <2>2. PICK g : g = [n \in 0..(k + 1) |-> IF n <= k THEN f[n] ELSE Keep(f[k], listed[n])]
    OBVIOUS
  <2>3. \A n \in 0..(k + 1) : g[n] = IF n = 0 THEN <<>> ELSE Keep(g[n-1], listed[n])
    <3> SUFFICES ASSUME NEW n \in 0..(k + 1)
                 PROVE  g[n] = IF n = 0 THEN <<>> ELSE Keep(g[n-1], listed[n])
      OBVIOUS
    <3>1. CASE n = 0
      BY <3>1, <2>1, <2>2
    <3>2. CASE n # 0 /\ n <= k
      <4>1. g[n] = f[n] /\ g[n - 1] = f[n - 1] /\ n \in 0..k
        BY <3>2, <2>2
      <4> QED BY <4>1, <3>2, <2>1
    <3>3. CASE n = k + 1
      <4>1. g[n] = Keep(f[k], listed[n]) /\ g[n - 1] = f[k] /\ n # 0
        BY <3>3, <2>2
      <4> QED BY <4>1
    <3> QED BY <3>1, <3>2, <3>3
  <2>4. g = [n \in 0..(k + 1) |-> g[n]]
    BY <2>2
  <2>5. g = [n \in 0..(k + 1) |-> IF n = 0 THEN <<>> ELSE Keep(g[n-1], listed[n])]
    BY <2>3, <2>4
  <2> QED BY <2>5
<1>3. Nat \subseteq Q
  <2> HIDE DEF Q
  <2> QED BY <1>1, <1>2, NaturalsReached
<1>4. \E f : f = [n \in 0..Len(listed) |-> IF n = 0 THEN <<>> ELSE Keep(f[n-1], listed[n])]
  BY <1>0, <1>3
<1>5. \E f : /\ LatestOf(listed) = f[Len(listed)]
             /\ f = [n \in 0..Len(listed) |-> IF n = 0 THEN <<>> ELSE Keep(f[n-1], listed[n])]
  BY <1>4 DEF LatestOf
<1>6. PICK f : /\ LatestOf(listed) = f[Len(listed)]
               /\ f = [n \in 0..Len(listed) |-> IF n = 0 THEN <<>> ELSE Keep(f[n-1], listed[n])]
  BY <1>5
<1>7. \A n \in 0..Len(listed) : f[n] = IF n = 0 THEN <<>> ELSE Keep(f[n-1], listed[n])
  BY <1>6
<1>8. f[0] = <<>> /\ \A n \in 1..Len(listed) : f[n] = Keep(f[n-1], listed[n])
  BY <1>0, <1>7
<1> QED BY <1>6, <1>8

\* The loop finds a latest version of each key, in whatever order the rows come.
LEMMA LatestFinds ==
  ASSUME NEW listed \in Seq(PolicyRow)
  PROVE  FoundAmong(LatestOf(listed), Range(listed))
<1>1. PICK f : /\ f[0] = <<>> /\ \A n \in 1 .. Len(listed) : f[n] = Keep(f[n - 1], listed[n])
               /\ LatestOf(listed) = f[Len(listed)]
  BY LatestRuns
<1>0. Len(listed) \in Nat /\ \A n \in 1 .. Len(listed) : listed[n] \in PolicyRow
  OBVIOUS
<1> DEFINE Met(n) == {listed[m] : m \in 1..n}
           Q == {n \in Nat : n <= Len(listed) => FoundAmong(f[n], Met(n))}
<1>2. 0 \in Q
  <2>1. FoundAmong(<<>>, {})
    BY DEF FoundAmong, Range
  <2>2. Met(0) = {}
    OBVIOUS
  <2> QED BY <1>1, <2>1, <2>2
<1>3. ASSUME NEW n \in Nat, n \in Q PROVE n + 1 \in Q
  <2> SUFFICES ASSUME n + 1 <= Len(listed) PROVE FoundAmong(f[n + 1], Met(n + 1))
    OBVIOUS
  <2>1. /\ n <= Len(listed) /\ n + 1 \in 1 .. Len(listed) /\ (n + 1) - 1 = n
        /\ 1..(n + 1) = (1..n) \cup {n + 1} /\ 1..n \subseteq 1..Len(listed)
    BY <1>0
  <2>2. FoundAmong(f[n], Met(n)) /\ Met(n) \subseteq PolicyRow /\ listed[n + 1] \in PolicyRow
    BY <1>0, <1>3, <2>1
  <2>3. Met(n + 1) = Met(n) \cup {listed[n + 1]}
    BY <2>1
  <2>4. f[n + 1] = Keep(f[n], listed[n + 1])
    BY <1>1, <2>1
  <2> HIDE DEF Met
  <2> QED BY <2>2, <2>3, <2>4, KeepFinds
<1>4. Len(listed) \in Q
  <2> HIDE DEF Q
  <2> QED BY <1>0, <1>2, <1>3, NaturalsReached
<1>5. FoundAmong(f[Len(listed)], Met(Len(listed)))
  BY <1>0, <1>4
<1>6. Met(Len(listed)) = Range(listed)
  BY <1>0 DEF Range
<1> QED BY <1>1, <1>5, <1>6

\* The ranks are the numbers from 0 to 3.
LEMMA RanksAreNumbers ==
  /\ Safe \in Safe..Forbidden
  /\ \A x \in Safe..Forbidden :
       x \in Int /\ x >= Safe /\ (x = 0 \/ x = 1 \/ x = 2 \/ x = 3)
BY DEF Safe, Forbidden

\* A non-empty set of ranks has a greatest one.
LEMMA GreatestRank ==
  ASSUME NEW S, S \subseteq Safe..Forbidden, S # {}
  PROVE  Max(S) \in S /\ \A x \in S : Max(S) >= x
<1>1. \E x \in S : \A y \in S : x >= y
  <2>1. \A x \in S : x \in Int /\ (x = 0 \/ x = 1 \/ x = 2 \/ x = 3)
    BY RanksAreNumbers
  <2>2. CASE 3 \in S
    <3>1. \A y \in S : 3 >= y
      BY <2>1
    <3> QED BY <2>2, <3>1
  <2>3. CASE 3 \notin S /\ 2 \in S
    <3>1. \A y \in S : 2 >= y
      BY <2>1, <2>3
    <3> QED BY <2>3, <3>1
  <2>4. CASE 3 \notin S /\ 2 \notin S /\ 1 \in S
    <3>1. \A y \in S : 1 >= y
      BY <2>1, <2>4
    <3> QED BY <2>4, <3>1
  <2>5. CASE 3 \notin S /\ 2 \notin S /\ 1 \notin S
    <3>1. \A y \in S : y = 0
      BY <2>1, <2>5
    <3>2. PICK x : x \in S
      OBVIOUS
    <3>3. \A y \in S : x >= y
      BY <3>1, <3>2
    <3> QED BY <3>2, <3>3
  <2> QED BY <2>2, <2>3, <2>4, <2>5
<1>2. PICK x \in S : \A y \in S : x >= y
  BY <1>1
<1> QED BY <1>2 DEF Max

\* What is latest among the rows is what classify_action takes to be in force.
LEMMA LatestInForce ==
  ASSUME NEW R, R \subseteq PolicyRow, IsFiniteSet(R), NEW listed \in SetToSeqs(R)
  PROVE  /\ listed \in Seq(PolicyRow)
         /\ LatestOf(listed) \in Seq(PolicyRow)
         /\ Range(LatestOf(listed)) =
              {p \in R : \A q \in R : q.key = p.key => q.version <= p.version}
<1>0. Cardinality(R) \in Nat
  BY FS_CardinalityType
<1>1. /\ listed \in [1..Cardinality(R) -> R]
      /\ \A i, j \in 1..Cardinality(R) : i # j => listed[i] # listed[j]
  BY DEF SetToSeqs
<1>2. listed \in Seq(PolicyRow)
  BY <1>0, <1>1
<1>3. Range(listed) = R
  <2>1. listed \in Injection(1..Cardinality(R), R)
    BY <1>1 DEF Injection, IsInjective
  <2>2. Cardinality(1..Cardinality(R)) = Cardinality(R)
    BY <1>0, CountedTo
  <2>3. listed \in Surjection(1..Cardinality(R), R)
    BY <2>1, <2>2, FS_Injection
  <2> QED BY <1>1, <2>3 DEF Surjection, Range
<1>4. PICK found : found = LatestOf(listed)
  OBVIOUS
<1>5. FoundAmong(found, R)
  BY <1>2, <1>3, <1>4, LatestFinds
<1>6. Range(found) = {p \in R : \A q \in R : q.key = p.key => q.version <= p.version}
  <2>1. \A p \in R : p.version \in Nat
    BY EvaluationAssumption
  <2>2. ASSUME NEW p \in R, \A q \in R : q.key = p.key => q.version <= p.version
        PROVE  p \in Range(found)
    <3>1. PICK q \in Range(found) : q.key = p.key /\ q.version >= p.version
      BY <1>5 DEF FoundAmong
    <3>2. q \in R
      BY <1>5 DEF FoundAmong
    <3>3. q.version = p.version
      BY <2>1, <2>2, <3>1, <3>2
    <3>4. q = p
      BY <3>1, <3>2, <3>3, EvaluationAssumption
    <3> QED BY <3>1, <3>4
  <2>3. ASSUME NEW p \in Range(found)
        PROVE  p \in R /\ \A q \in R : q.key = p.key => q.version <= p.version
    BY <1>5 DEF FoundAmong
  <2> QED BY <2>2, <2>3
<1> QED BY <1>2, <1>4, <1>5, <1>6 DEF FoundAmong

\* The loop finds what classify_action finds, and its winner is a row.
LEMMA EvaluatesAsClassified ==
  ASSUME NEW R, R \subseteq PolicyRow, IsFiniteSet(R), NEW listed \in SetToSeqs(R), NEW deed
  PROVE  /\ EvaluateRows(deed, listed).class = Classify(deed, R)
         /\ EvaluateRows(deed, listed).class \in Safe..Forbidden
         /\ EvaluateRows(deed, listed).winner \in {p.key : p \in PolicyRow} \cup {"none"}
<1>1. PICK L, I : /\ L = LatestOf(listed) /\ L \in Seq(PolicyRow) /\ I = Range(L)
                  /\ I = {p \in R : \A q \in R : q.key = p.key => q.version <= p.version}
                  /\ DOMAIN L \subseteq Nat
  <2>1. PICK L : L = LatestOf(listed)
    OBVIOUS
  <2>2. L \in Seq(PolicyRow)
    BY <2>1, LatestInForce
  <2>3. DOMAIN L \subseteq Nat
    BY <2>2
  <2> QED BY <2>1, <2>2, <2>3, LatestInForce
<1>2. PICK M : M = {i \in DOMAIN L : deed \in Patterns(L[i], I)}
  OBVIOUS
<1>3. PICK C : C = {p.class : p \in {q \in I : deed \in Patterns(q, I)}}
  OBVIOUS
<1>4. /\ \A i \in DOMAIN L : L[i] \in I /\ L[i] \in PolicyRow
      /\ \A p \in I : \E i \in DOMAIN L : p = L[i]
  BY <1>1 DEF Range
<1>5. /\ \A c \in C : \E i \in M : c = L[i].class
      /\ \A i \in M : L[i].class \in C
  BY <1>2, <1>3, <1>4
<1>6. C \subseteq Safe..Forbidden /\ Safe \in Safe..Forbidden
  BY <1>2, <1>4, <1>5, EvaluationAssumption, RanksAreNumbers
<1>7. /\ Max(C \cup {Safe}) \in C \cup {Safe}
      /\ \A x \in C \cup {Safe} : Max(C \cup {Safe}) >= x
  BY <1>6, GreatestRank
<1>8. Classify(deed, R) = Max(C \cup {Safe})
  BY <1>1, <1>3 DEF Classify
<1>9. CASE M = {}
  <2>1. EvaluateRows(deed, listed) = [class |-> Safe, winner |-> "none"]
    BY <1>1, <1>2, <1>9 DEF EvaluateRows
  <2>2. C \cup {Safe} = {Safe}
    BY <1>5, <1>9
  <2> QED BY <1>6, <1>7, <1>8, <2>1, <2>2
<1>10. CASE M # {}
  <2>1. PICK i \in M : \A j \in M : L[j].class <= L[i].class
    <3>1. C # {}
      BY <1>5, <1>10
    <3>2. Max(C) \in C /\ \A x \in C : Max(C) >= x
      BY <1>6, <3>1, GreatestRank
    <3>3. PICK i \in M : L[i].class = Max(C)
      BY <1>5, <3>2
    <3>4. \A x \in C : x \in Int
      BY <1>6, RanksAreNumbers
    <3> QED BY <1>5, <3>2, <3>3, <3>4
  <2>2. PICK W : W = {j \in M : L[j].class = L[i].class}
    OBVIOUS
  <2>3. W \in SUBSET Nat /\ W # {}
    BY <1>1, <1>2, <2>2
  <2>4. PICK b \in W : \A j \in W : b <= j
    BY <2>3, LeastNatural
  <2>5. \A j \in M : j \in Int /\ L[j].class \in Int
    <3>1. \A c \in C : c \in Int
      BY <1>6, RanksAreNumbers
    <3> QED BY <1>1, <1>2, <1>5, <3>1
  <2>6. /\ b \in M
        /\ \A j \in M : L[j].class <= L[b].class
        /\ \A j \in M : j < b => L[j].class < L[b].class
    <3>1. b \in M /\ L[b].class = L[i].class
      BY <2>2, <2>4
    <3>2. ASSUME NEW j \in M, j < b PROVE L[j].class < L[b].class
      <4>1. j \notin W
        BY <2>3, <2>4, <2>5, <3>1, <3>2
      <4> QED BY <2>1, <2>2, <2>5, <3>1, <4>1
    <3> QED BY <2>1, <3>1, <3>2
  <2>7. PICK best : best = CHOOSE k \in M : /\ \A j \in M : L[j].class <= L[k].class
                                           /\ \A j \in M : j < k => L[j].class < L[k].class
    OBVIOUS
  <2>8. best \in M /\ \A j \in M : L[j].class <= L[best].class
    BY <2>6, <2>7
  <2>9. EvaluateRows(deed, listed) = [class |-> L[best].class, winner |-> L[best].key]
    BY <1>1, <1>2, <1>10, <2>7 DEF EvaluateRows
  <2>10. L[best].class = Max(C \cup {Safe})
    <3>1. Max(C \cup {Safe}) \in Int /\ \A x \in C : x \in Int /\ x >= Safe
      BY <1>6, <1>7, RanksAreNumbers
    <3>2. L[best].class \in C /\ \A x \in C \cup {Safe} : x <= L[best].class
      BY <1>5, <2>5, <2>8, <3>1
    <3> QED BY <1>7, <3>1, <3>2
  <2>11. L[best] \in PolicyRow
    BY <1>2, <1>4, <2>8
  <2>12. L[best].key \in {p.key : p \in PolicyRow}
    BY <2>11
  <2>13. /\ EvaluateRows(deed, listed).class = L[best].class
         /\ EvaluateRows(deed, listed).winner = L[best].key
    BY <2>9
  <2> QED BY <1>6, <1>7, <1>8, <2>10, <2>12, <2>13
<1> QED BY <1>9, <1>10

\* A row of a new key adds to what is in force, and never loosens it.
LEMMA NewKeyTightens ==
  ASSUME NEW R, R \subseteq PolicyRow, NEW p \in PolicyRow, \A q \in R : q.key # p.key, NEW deed
  PROVE  Classify(deed, R \cup {p}) >= Classify(deed, R)
<1> DEFINE In(S) == {r \in S : \A q \in S : q.key = r.key => q.version <= r.version}
           Ranks(S) == {r.class : r \in {q \in In(S) : deed \in Patterns(q, In(S))}}
<1>1. \A S : Classify(deed, S) = Max(Ranks(S) \cup {Safe})
  BY DEF Classify
<1>2. In(R) \subseteq In(R \cup {p})
  OBVIOUS
<1>3. \A q : Patterns(q, In(R)) \subseteq Patterns(q, In(R \cup {p}))
  <2> HIDE DEF In
  <2> QED BY <1>2 DEF Patterns
<1>4. Ranks(R) \subseteq Ranks(R \cup {p})
  <2> HIDE DEF In
  <2> QED BY <1>2, <1>3
<1>5. Ranks(R \cup {p}) \subseteq Safe..Forbidden /\ Safe \in Safe..Forbidden
  <2>1. Ranks(R \cup {p}) \subseteq {q.class : q \in PolicyRow}
    OBVIOUS
  <2> HIDE DEF Ranks
  <2> QED BY <2>1, EvaluationAssumption, RanksAreNumbers
<1> HIDE DEF Ranks
<1>6. /\ Max(Ranks(R) \cup {Safe}) \in Ranks(R) \cup {Safe}
      /\ \A x \in Ranks(R \cup {p}) \cup {Safe} : Max(Ranks(R \cup {p}) \cup {Safe}) >= x
  BY <1>4, <1>5, GreatestRank
<1> QED BY <1>1, <1>4, <1>6

\* Who is let on was not barred throughout: what is barred now is forbidden by the
\* rows in force before the evaluation, and by its result after it.
RulingsInv ==
  /\ EvaluationTypeOK
  /\ IsFiniteSet(rulebook)
  /\ \A e \in Enforcer : ruling[e].barred =>
       /\ ruling[e].at \in {"begun", "evaluated"}
       /\ ruling[e].at = "begun" => Classify(ruling[e].deed, rulebook) = Forbidden
       /\ ruling[e].at = "evaluated" => ruling[e].class = Forbidden

Ruling ==
  [at : {"none", "begun", "evaluated", "approval", "routed", "allowed"},
   deed : Deed \cup {"none"}, class : Safe..Forbidden,
   winner : {p.key : p \in PolicyRow} \cup {"none"}, barred : BOOLEAN]

\* The invariant holds at the start.
LEMMA RulingsInitially == EvaluationInit => RulingsInv
<1>1. Safe \in Safe..Forbidden
  BY RanksAreNumbers
<1>2. IsFiniteSet({})
  BY FS_EmptySet
<1> QED BY <1>1, <1>2 DEF EvaluationInit, RulingsInv, EvaluationTypeOK, NoRuling

\* What the suite asks follows from the invariant.
LEMMA RulingsImply == RulingsInv => EvaluationSound
<1> SUFFICES ASSUME RulingsInv PROVE EvaluationSound
  OBVIOUS
<1>1. DenyIsHonest
  BY DEF RulingsInv, DenyIsHonest
<1>2. rulebook \subseteq PolicyRow /\ IsFiniteSet(rulebook)
  BY DEF RulingsInv, EvaluationTypeOK
<1>3. ASSUME NEW deed \in Deed, NEW listed \in SetToSeqs(rulebook)
      PROVE  EvaluateRows(deed, listed).class = Classify(deed, rulebook)
  BY <1>2, EvaluatesAsClassified
<1>4. ASSUME NEW deed \in Deed, NEW p \in PolicyRow, \A q \in rulebook : q.key # p.key
      PROVE  Classify(deed, rulebook \cup {p}) >= Classify(deed, rulebook)
  BY <1>2, <1>4, NewKeyTightens
<1> QED BY <1>1, <1>3, <1>4 DEF EvaluationSound, MostRestrictiveWins

\* Whatever becomes of the rulebook, a call is as it was, and no more barred.
LEMMA RulesChange ==
  ASSUME RulingsInv, NEW listed, listed \subseteq PolicyRow, IsFiniteSet(listed), Rules(listed)
  PROVE  RulingsInv'
<1>1. rulebook' = listed
  BY DEF Rules
<1>2. ASSUME NEW e \in Enforcer
      PROVE  /\ ruling'[e] \in Ruling
             /\ ruling'[e].at = ruling[e].at /\ ruling'[e].deed = ruling[e].deed
             /\ ruling'[e].class = ruling[e].class
             /\ ruling'[e].barred => ruling[e].barred /\ Classify(ruling[e].deed, listed) = Forbidden
  <2>1. ruling[e] \in Ruling
    BY DEF RulingsInv, EvaluationTypeOK, Ruling
  <2>2. PICK b \in BOOLEAN : b <=> ruling[e].barred /\ Classify(ruling[e].deed, listed) = Forbidden
    OBVIOUS
  <2>3. ruling'[e] = [ruling[e] EXCEPT !.barred = b]
    BY <2>2 DEF Rules
  <2>4. ruling'[e] \in Ruling
    BY <2>1, <2>3 DEF Ruling
  <2>5. /\ ruling'[e].at = ruling[e].at /\ ruling'[e].deed = ruling[e].deed
        /\ ruling'[e].class = ruling[e].class
    BY <2>1, <2>3 DEF Ruling
  <2>6. ruling'[e].barred <=> b
    BY <2>1, <2>3 DEF Ruling
  <2> QED BY <2>2, <2>4, <2>5, <2>6
<1>3. ruling' = [e \in Enforcer |-> ruling'[e]]
  BY DEF Rules
<1>4. EvaluationTypeOK'
  BY <1>1, <1>2, <1>3 DEF EvaluationTypeOK, Ruling
<1> QED BY <1>1, <1>2, <1>4 DEF RulingsInv

\* A step of one call leaves the rulebook and the other calls.
LEMMA RulingChanges ==
  ASSUME RulingsInv, NEW e \in Enforcer, NEW x \in Ruling, ruling' = [ruling EXCEPT ![e] = x],
         rulebook' = rulebook,
         x.barred => /\ x.at \in {"begun", "evaluated"}
                     /\ x.at = "begun" => Classify(x.deed, rulebook) = Forbidden
                     /\ x.at = "evaluated" => x.class = Forbidden
  PROVE  RulingsInv'
<1>1. ruling \in [Enforcer -> Ruling]
  BY DEF RulingsInv, EvaluationTypeOK, Ruling
<1>2. ruling' \in [Enforcer -> Ruling] /\ ruling'[e] = x
  BY <1>1
<1>3. \A f \in Enforcer : f # e => ruling'[f] = ruling[f]
  BY <1>1
<1>4. EvaluationTypeOK'
  BY <1>2 DEF EvaluationTypeOK, RulingsInv, Ruling
<1> QED BY <1>2, <1>3, <1>4 DEF RulingsInv

\* Every step of the service keeps the invariant.
LEMMA RulingsStep == RulingsInv /\ [EvaluationNext]_evaluationVars => RulingsInv'
<1> SUFFICES ASSUME RulingsInv, [EvaluationNext]_evaluationVars PROVE RulingsInv'
  OBVIOUS
<1>0. /\ rulebook \subseteq PolicyRow /\ IsFiniteSet(rulebook)
      /\ \A e \in Enforcer : ruling[e] \in Ruling
  BY DEF RulingsInv, EvaluationTypeOK, Ruling
<1>1. ASSUME NEW p \in PolicyRow, Enact(p) \/ ArchivePolicy(p) PROVE RulingsInv'
  <2>1. IsFiniteSet(rulebook \cup {p}) /\ IsFiniteSet(rulebook \ {p})
    BY <1>0, FS_AddElement, FS_RemoveElement
  <2>2. CASE Enact(p)
    BY <1>0, <2>1, <2>2, RulesChange DEF Enact
  <2>3. CASE ArchivePolicy(p)
    BY <1>0, <2>1, <2>3, RulesChange DEF ArchivePolicy
  <2> QED BY <1>1, <2>2, <2>3
<1>2. ASSUME NEW e \in Enforcer, NEW deed \in Deed, EnterEnforcement(e, deed) PROVE RulingsInv'
  <2>1. PICK b \in BOOLEAN : b <=> Classify(deed, rulebook) = Forbidden
    OBVIOUS
  <2>2. PICK x : x = [NoRuling EXCEPT !.at = "begun", !.deed = deed, !.barred = b]
    OBVIOUS
  <2>3. ruling' = [ruling EXCEPT ![e] = x] /\ rulebook' = rulebook
    BY <1>2, <2>1, <2>2 DEF EnterEnforcement
  <2>4. x = [at |-> "begun", deed |-> deed, class |-> Safe, winner |-> "none", barred |-> b]
    BY <2>2 DEF NoRuling
  <2>5. x \in Ruling
    BY <2>4, RanksAreNumbers DEF Ruling
  <2> QED BY <2>1, <2>3, <2>4, <2>5, RulingChanges
<1>3. ASSUME NEW e \in Enforcer, EvaluateAction(e) PROVE RulingsInv'
  <2>1. PICK listed \in SetToSeqs(rulebook) :
          ruling' = [ruling EXCEPT ![e].at = "evaluated",
                                   ![e].class = EvaluateRows(ruling[e].deed, listed).class,
                                   ![e].winner = EvaluateRows(ruling[e].deed, listed).winner]
    BY <1>3 DEF EvaluateAction
  <2>2. PICK c, w : /\ c = EvaluateRows(ruling[e].deed, listed).class
                    /\ w = EvaluateRows(ruling[e].deed, listed).winner
    OBVIOUS
  <2>3. /\ c = Classify(ruling[e].deed, rulebook) /\ c \in Safe..Forbidden
        /\ w \in {p.key : p \in PolicyRow} \cup {"none"}
    BY <1>0, <2>2, EvaluatesAsClassified
  <2>4. PICK x : x = [ruling[e] EXCEPT !.at = "evaluated", !.class = c, !.winner = w]
    OBVIOUS
  <2>5. ruling' = [ruling EXCEPT ![e] = x]
    BY <1>0, <2>1, <2>2, <2>4 DEF RulingsInv, EvaluationTypeOK
  <2>6. /\ x \in Ruling /\ x.at = "evaluated" /\ x.class = c
        /\ x.deed = ruling[e].deed /\ x.barred = ruling[e].barred
    BY <1>0, <2>3, <2>4 DEF Ruling
  <2>7. ruling[e].at = "begun" /\ rulebook' = rulebook
    BY <1>3 DEF EvaluateAction
  <2>8. x.barred => x.class = Forbidden
    BY <2>3, <2>6, <2>7 DEF RulingsInv
  <2> QED BY <2>5, <2>6, <2>7, <2>8, RulingChanges
<1>4. ASSUME NEW e \in Enforcer, DenyGate(e) PROVE RulingsInv'
  <2>1. NoRuling \in Ruling /\ ~ NoRuling.barred
    BY RanksAreNumbers DEF Ruling, NoRuling
  <2>2. rulebook' = rulebook /\ ruling[e].at = "evaluated"
    BY <1>4 DEF DenyGate
  <2>3. CASE ruling[e].class = Forbidden
    BY <1>4, <2>1, <2>2, <2>3, RulingChanges DEF DenyGate
  <2>4. CASE ruling[e].class # Forbidden
    <3>1. PICK at \in {"approval", "allowed"} : ruling' = [ruling EXCEPT ![e] = [ruling[e] EXCEPT !.at = at]]
      BY <1>4, <2>4 DEF DenyGate
    <3>2. PICK x : x = [ruling[e] EXCEPT !.at = at]
      OBVIOUS
    <3>3. x \in Ruling /\ x.at = at /\ x.barred = ruling[e].barred
      BY <1>0, <3>2 DEF Ruling
    <3>4. ~ ruling[e].barred
      BY <2>2, <2>4 DEF RulingsInv
    <3> QED BY <2>2, <3>1, <3>2, <3>3, <3>4, RulingChanges
  <2> QED BY <2>3, <2>4
<1>5. ASSUME NEW e \in Enforcer, RouteApproval(e) PROVE RulingsInv'
  <2>1. PICK x : x = [ruling[e] EXCEPT !.at = "routed"]
    OBVIOUS
  <2>2. x \in Ruling /\ x.at = "routed" /\ x.barred = ruling[e].barred
    BY <1>0, <2>1 DEF Ruling
  <2>3. ruling' = [ruling EXCEPT ![e] = x] /\ rulebook' = rulebook /\ ruling[e].at = "approval"
    BY <1>5, <2>1 DEF RouteApproval
  <2>4. ~ ruling[e].barred
    BY <2>3 DEF RulingsInv
  <2> QED BY <2>2, <2>3, <2>4, RulingChanges
<1>6. ASSUME NEW e \in Enforcer, EndRuling(e) PROVE RulingsInv'
  <2>1. NoRuling \in Ruling /\ ~ NoRuling.barred
    BY RanksAreNumbers DEF Ruling, NoRuling
  <2> QED BY <1>6, <2>1, RulingChanges DEF EndRuling
<1>7. CASE UNCHANGED evaluationVars
  BY <1>7 DEF evaluationVars, RulingsInv, EvaluationTypeOK
<1> QED BY <1>1, <1>2, <1>3, <1>4, <1>5, <1>6, <1>7 DEF EvaluationNext
=============================================================================
