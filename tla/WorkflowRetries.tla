--------------------------- MODULE WorkflowRetries ---------------------------
(***************************************************************************)
(* RetryCoordinator and DeadLetterRuntime (backend/workflows/              *)
(* retry_coordinator.py, retries.py, deadletter.py) for one workflow.      *)
(*                                                                         *)
(* The attempt a workflow is on is read back from its events, without a    *)
(* lock: schedulers that report failures at the same time read the same    *)
(* attempt.  created_at is the time of the insert, so that a scheduler     *)
(* that read early and inserted late is the latest.  When no attempt is    *)
(* left the events are written and an error raised: whether they stay is   *)
(* for the caller to decide, who commits or rolls back.                    *)
(***************************************************************************)
EXTENDS Integers, FiniteSets

CONSTANTS Scheduler,    \* database sessions that report a failure
          MaxRetries,   \* policy.max_retries
          MaxInserts    \* bound on the events inserted

ASSUME RetryAssumption == MaxRetries \in Nat \ {0} /\ MaxInserts \in Nat

VARIABLES
  failed,     \* workflow_status = failed
  scheduled,  \* the committed retry.scheduled events: created_at and attempt
  elapsed,    \* those of them whose next_retry_at has come
  attempted,  \* the retry.attempted events, by the attempt that was due
  letters,    \* retry_count of the committed dead letters
  reporter,   \* reporter[c]: a session in schedule()
  clock       \* inserts so far

retryVars == <<failed, scheduled, elapsed, attempted, letters, reporter, clock>>

NoReport == [step |-> "idle", attempt |-> 0, at |-> 0]

RetryInit ==
  /\ failed = FALSE
  /\ scheduled = {} /\ elapsed = {} /\ attempted = {} /\ letters = {}
  /\ reporter = [c \in Scheduler |-> NoReport]
  /\ clock = 0

LatestRetry == {e \in scheduled : \A f \in scheduled : f.at <= e.at}

\* Mutant of CurrentAttempt: the events are counted.
CurrentAttempt_Count == Cardinality(scheduled)

\* _get_current_state: the attempt of the latest event.
CurrentAttempt ==
  IF scheduled = {} THEN 0 ELSE (CHOOSE e \in LatestRetry : TRUE).attempt

-----------------------------------------------------------------------------
\* schedule, up to record_failure: nothing asks for the workflow's status.
ReadAttempt(c) ==
  /\ reporter[c].step = "idle"
  /\ reporter' = [reporter EXCEPT ![c] =
       [step |-> "read", attempt |-> CurrentAttempt + 1, at |-> 0]]
  /\ UNCHANGED <<failed, scheduled, elapsed, attempted, letters, clock>>

\* The event is inserted, and then waits for the channel's lock.
InsertRetry(c) ==
  /\ reporter[c].step = "read"
  /\ reporter[c].attempt <= MaxRetries
  /\ clock < MaxInserts
  /\ clock' = clock + 1
  /\ reporter' = [reporter EXCEPT ![c].step = "inserted", ![c].at = clock + 1]
  /\ UNCHANGED <<failed, scheduled, elapsed, attempted, letters>>

CommitRetry(c) ==
  /\ reporter[c].step = "inserted"
  /\ scheduled' = scheduled \cup {[at |-> reporter[c].at, attempt |-> reporter[c].attempt]}
  /\ reporter' = [reporter EXCEPT ![c] = NoReport]
  /\ UNCHANGED <<failed, elapsed, attempted, letters, clock>>

\* DeadLetterRuntime.mark appends: a workflow can have several.
DeadLetters(c) == letters \cup {reporter[c].attempt}

\* _handle_exhausted and the raise: the caller commits or rolls back.
ExhaustRetries(c) ==
  /\ reporter[c].step = "read"
  /\ reporter[c].attempt > MaxRetries
  /\ letters' \in {letters, DeadLetters(c)}
  /\ reporter' = [reporter EXCEPT ![c] = NoReport]
  /\ UNCHANGED <<failed, scheduled, elapsed, attempted, clock>>

\* The session fails on the way.
AbortReport(c) ==
  /\ reporter[c].step # "idle"
  /\ reporter' = [reporter EXCEPT ![c] = NoReport]
  /\ UNCHANGED <<failed, scheduled, elapsed, attempted, letters, clock>>

\* The backoff of a retry is over.
BackoffEnds ==
  /\ \E e \in scheduled \ elapsed : elapsed' = elapsed \cup {e}
  /\ UNCHANGED <<failed, scheduled, attempted, letters, reporter, clock>>

\* get_due: the latest retry of a failed workflow, once its time has come; one
\* that was attempted is still due.
DueRetries == IF failed THEN LatestRetry \cap elapsed ELSE {}

\* mark_attempted, by whoever asked get_due.
MarkAttempted ==
  /\ \E e \in DueRetries : attempted' = attempted \cup {e.attempt}
  /\ UNCHANGED <<failed, scheduled, elapsed, letters, reporter, clock>>

\* The workflow fails, or is made active again, by other means.
WorkflowMoves ==
  /\ failed' = ~ failed
  /\ UNCHANGED <<scheduled, elapsed, attempted, letters, reporter, clock>>

RetryNext ==
  \/ \E c \in Scheduler :
       ReadAttempt(c) \/ InsertRetry(c) \/ CommitRetry(c) \/ ExhaustRetries(c) \/ AbortReport(c)
  \/ BackoffEnds \/ MarkAttempted \/ WorkflowMoves

RetrySpec == RetryInit /\ [][RetryNext]_retryVars

-----------------------------------------------------------------------------
(* Properties *)

RetryTypeOK ==
  /\ failed \in BOOLEAN
  /\ scheduled \subseteq [at : 1..MaxInserts, attempt : 1..MaxRetries]
  /\ elapsed \subseteq scheduled
  /\ attempted \subseteq 1..MaxRetries
  /\ letters \subseteq {MaxRetries + 1}
  /\ reporter \in [Scheduler -> [step : {"idle", "read", "inserted"},
                                 attempt : 0..(MaxRetries + 1), at : 0..MaxInserts]]
  /\ clock \in 0..MaxInserts

\* retry_coordinator.py reconstructs the retry state from the latest event.
\* Schedulers may repeat an attempt, or fall back to an earlier one, but none
\* is skipped: every attempt on record was preceded by the one below it, and a
\* dead letter by the last attempt allowed.
RetryLadder ==
  /\ \A e \in scheduled :
       e.attempt > 1 => \E f \in scheduled : f.attempt = e.attempt - 1 /\ f.at < e.at
  /\ letters # {} => \E e \in scheduled : e.attempt = MaxRetries
  /\ \A n \in attempted : \E e \in scheduled : e.attempt = n
=============================================================================
