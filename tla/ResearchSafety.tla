---------------------------- MODULE ResearchSafety -----------------------------
(***************************************************************************)
(* The limits of one research job (backend/research/safety.py): those who  *)
(* run its tasks may check the token budget first, do the work, and add    *)
(* what it cost (task.py); a watcher looks for a timeout and cancels.      *)
(* Every check reads the job without a lock, and nothing ties what it      *)
(* checks to what is added in the end.                                     *)
(***************************************************************************)
EXTENDS Integers, FiniteSets

CONSTANTS Runner,        \* those who run tasks of the job
          Watcher,       \* those who look for its timeout
          Cost,          \* what a task may cost
          MaxTokens,     \* config.max_tokens
          MaxUnchecked,  \* bound on what is added by tasks that no check preceded
          Timeout,       \* config.timeout_seconds, in ticks
          MaxTicks       \* bound on the ticks of the job

ASSUME SafetyAssumption ==
  /\ IsFiniteSet(Runner) /\ Runner # {} /\ Cost \subseteq Nat /\ IsFiniteSet(Cost) /\ Cost # {}
  /\ MaxTokens \in Nat /\ MaxUnchecked \in Nat /\ Timeout \in Nat /\ MaxTicks \in Nat

VARIABLES
  limits,    \* the job as committed: status, tokens_used, started_at set?, ticks since then
  runner,    \* runner[r]: does r run a task, and was it checked?
  charge,    \* what the transaction that has the job's row locked added so far;
             \* loose is a ghost, what of that no check preceded
  unchecked, \* ghost: the tokens committed that no check preceded
  watcher,   \* watcher[w]: has it seen the timeout?
  ran        \* ghost: ticks since the job was first started

safetyVars == <<limits, runner, charge, unchecked, watcher, ran>>

NoCharge == [by |-> {}, sum |-> 0, loose |-> 0]

SafetyInit ==
  /\ limits = [status |-> "queued", tokens |-> 0, started |-> FALSE, age |-> 0]
  /\ runner = [r \in Runner |-> "none"]
  /\ charge = NoCharge /\ unchecked = 0
  /\ watcher = [w \in Watcher |-> FALSE]
  /\ ran = 0

tokensUnchanged == <<limits, charge, unchecked, watcher, ran>>

\* tokens_used as r reads it: what is committed, and what r added itself.
TokensSeen(r) == limits.tokens + IF r \in charge.by THEN charge.sum ELSE 0

\* Mutant of WithinBudget: only what is to be added is compared.
WithinBudget_Added(r, added) == added <= MaxTokens

\* check_budget permits what it projects to fit; otherwise it raises, and its
\* budget_exceeded event is rolled back with the session.
WithinBudget(r, added) == TokensSeen(r) + added <= MaxTokens

\* governance.check permits everything: its evaluator cannot be imported.
GovernanceCheck == TRUE

\* tokens_to_add is 0 unless the caller says otherwise.
CheckBudget(r, added) ==
  /\ runner[r] = "none"
  /\ WithinBudget(r, added) /\ GovernanceCheck
  /\ runner' = [runner EXCEPT ![r] = "granted"]
  /\ UNCHANGED tokensUnchanged

\* start() of a task asks for no check.
RunUnchecked(r) ==
  /\ runner[r] = "none"
  /\ runner' = [runner EXCEPT ![r] = "unchecked"]
  /\ UNCHANGED tokensUnchanged

\* complete() of the task: one UPDATE adds to the job whatever its status and whatever
\* was checked, and locks its row until the transaction is over.
AddTokens(r, cost) ==
  LET loose == IF runner[r] = "unchecked" THEN cost ELSE 0
  IN /\ runner[r] # "none" /\ charge.by \subseteq {r}
     /\ unchecked + charge.loose + loose <= MaxUnchecked
     /\ charge' = [by |-> {r}, sum |-> charge.sum + cost, loose |-> charge.loose + loose]
     /\ runner' = [runner EXCEPT ![r] = "none"]
     /\ UNCHANGED <<limits, unchecked, watcher, ran>>

\* One transaction may complete several tasks.
CommitTokens(r) ==
  /\ charge.by = {r}
  /\ limits' = [limits EXCEPT !.tokens = @ + charge.sum]
  /\ unchecked' = unchecked + charge.loose
  /\ charge' = NoCharge
  /\ UNCHANGED <<runner, watcher, ran>>

RollBackTokens(r) ==
  /\ charge.by = {r}
  /\ charge' = NoCharge
  /\ runner' = [runner EXCEPT ![r] = "none"]
  /\ UNCHANGED <<limits, unchecked, watcher, ran>>

\* The task fails.
GiveUpRun(r) ==
  /\ runner[r] # "none"
  /\ runner' = [runner EXCEPT ![r] = "none"]
  /\ UNCHANGED tokensUnchanged

-----------------------------------------------------------------------------
(* The job and its timeout.  Who changes the job waits for its row.        *)

jobUnchanged == <<runner, charge, unchecked, watcher, ran>>

\* start() takes a paused job too, whose time begins again; resume() a queued one,
\* which then has no started_at.
RunJob(starts) ==
  /\ charge.by = {} /\ limits.status \in {"queued", "paused"}
  /\ limits' = [limits EXCEPT !.status = "running", !.started = @ \/ starts,
                  !.age = IF starts THEN 0 ELSE @]
  /\ UNCHANGED jobUnchanged

HoldJob ==
  /\ charge.by = {} /\ limits.status = "running"
  /\ limits' = [limits EXCEPT !.status = "paused"]
  /\ UNCHANGED jobUnchanged

EndJob(status) ==
  /\ charge.by = {} /\ limits.status = "running"
  /\ limits' = [limits EXCEPT !.status = status]
  /\ UNCHANGED jobUnchanged

\* Time passes for a paused job too, and for one that is over.
PassTime ==
  /\ limits.started /\ ran < MaxTicks
  /\ limits' = [limits EXCEPT !.age = @ + 1]
  /\ ran' = ran + 1
  /\ UNCHANGED <<runner, charge, unchecked, watcher>>

\* Mutant of TimedOut: the timeout itself is too long.
TimedOut_Equal == limits.started /\ limits.age >= Timeout

\* check_timeout: started_at is not None, whatever the status.
TimedOut == limits.started /\ limits.age > Timeout

CheckTimeout(w) ==
  /\ ~ watcher[w] /\ TimedOut
  /\ watcher' = [watcher EXCEPT ![w] = TRUE]
  /\ UNCHANGED <<limits, runner, charge, unchecked, ran>>

\* The watcher cancels the job, if that is still allowed.
CancelTimedOut(w) ==
  /\ watcher[w] /\ charge.by = {}
  /\ limits' = [limits EXCEPT !.status =
       IF @ \in {"running", "paused"} THEN "cancelled" ELSE @]
  /\ watcher' = [watcher EXCEPT ![w] = FALSE]
  /\ UNCHANGED <<runner, charge, unchecked, ran>>

SafetyNext ==
  \/ \E r \in Runner :
       \/ \E added \in Cost \cup {0} : CheckBudget(r, added)
       \/ \E cost \in Cost : AddTokens(r, cost)
       \/ RunUnchecked(r) \/ CommitTokens(r) \/ RollBackTokens(r) \/ GiveUpRun(r)
  \/ \E starts \in BOOLEAN : RunJob(starts)
  \/ \E status \in {"completed", "failed"} : EndJob(status)
  \/ HoldJob \/ PassTime
  \/ \E w \in Watcher : CheckTimeout(w) \/ CancelTimedOut(w)

SafetySpec == SafetyInit /\ [][SafetyNext]_safetyVars

-----------------------------------------------------------------------------
(* Properties *)

SafetyTypeOK ==
  /\ limits \in [status : {"queued", "running", "paused", "completed", "failed", "cancelled"},
                 tokens : Nat, started : BOOLEAN, age : 0..MaxTicks]
  /\ runner \in [Runner -> {"none", "granted", "unchecked"}]
  /\ charge \in [by : {{}} \cup {{r} : r \in Runner}, sum : Nat, loose : Nat]
  /\ unchecked \in Nat
  /\ watcher \in [Watcher -> BOOLEAN] /\ ran \in 0..MaxTicks

\* safety.py: "execution ceiling enforcement".  A check reserves nothing, need not
\* name what will be added, and does not see what others have not committed; so the
\* ceiling may be passed, but never by more than one task of each runner, and what
\* was run without a check.
OvershootBounded ==
  limits.tokens <= MaxTokens + unchecked
                     + Cardinality(Runner) * (CHOOSE c \in Cost : \A d \in Cost : d <= c)

\* A job is cancelled for its timeout only when its first start is longer ago,
\* however often it was paused and started again.
TimeoutIsDue == (limits.status = "cancelled" \/ \E w \in Watcher : watcher[w]) => ran > Timeout

SafetySound == OvershootBounded /\ TimeoutIsDue
=============================================================================
