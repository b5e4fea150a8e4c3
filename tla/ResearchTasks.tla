---------------------------- MODULE ResearchTasks ----------------------------
(***************************************************************************)
(* One research job (backend/research): the job's lifecycle (job.py), its  *)
(* tasks (task.py) and the counters of the job they add to.                *)
(*                                                                         *)
(* Job and task operations lock the row they change, and complete() then   *)
(* adds to the job's counters in one UPDATE: each is one step.             *)
(***************************************************************************)
EXTENDS Integers, FiniteSets

CONSTANTS Task,
          Tokens,           \* what a completed task may have cost
          MaxTaskRetries    \* max_retries of every task

ASSUME ResearchAssumption ==
  /\ IsFiniteSet(Task) /\ Tokens \subseteq Nat /\ MaxTaskRetries \in Nat

VARIABLES
  job,        \* [status, tokensUsed, completedTasks, saved: tokens_used at its checkpoint]
  task        \* task[t]: [status, retryCount, tokens]

researchVars == <<job, task>>

JobStatus == {"absent", "queued", "running", "paused", "completed", "failed", "cancelled"}
TaskStatus == {"absent", "pending", "blocked", "running", "completed", "failed",
               "cancelled", "skipped"}

JobTransitions(from) ==
  CASE from = "queued"  -> {"running", "cancelled"}
    [] from = "running" -> {"paused", "completed", "failed", "cancelled"}
    [] from = "paused"  -> {"running", "cancelled"}
    [] OTHER -> {}

\* Mutant of TaskTransitions: a task may be completed again.
TaskTransitions_Again(from) ==
  CASE from = "pending" -> {"running", "cancelled", "skipped", "blocked"}
    [] from = "blocked" -> {"pending", "cancelled"}
    [] from \in {"running", "completed"} -> {"completed", "failed", "cancelled"}
    [] from = "failed"  -> {"running", "cancelled"}
    [] OTHER -> {}

TaskTransitions(from) ==
  CASE from = "pending" -> {"running", "cancelled", "skipped", "blocked"}
    [] from = "blocked" -> {"pending", "cancelled"}
    [] from = "running" -> {"completed", "failed", "cancelled"}
    [] from = "failed"  -> {"running", "cancelled"}
    [] OTHER -> {}

ResearchInit ==
  /\ job = [status |-> "absent", tokensUsed |-> 0, completedTasks |-> 0, saved |-> 0]
  /\ task = [t \in Task |-> [status |-> "absent", retryCount |-> 0, tokens |-> 0]]

-----------------------------------------------------------------------------
(* The job *)

CreateJob ==
  /\ job.status = "absent"
  /\ job' = [job EXCEPT !.status = "queued"]
  /\ UNCHANGED task

MoveJob(to) ==
  /\ to \in JobTransitions(job.status)
  /\ job' = [job EXCEPT !.status = to]
  /\ UNCHANGED task

\* start() takes a paused job too, and resume() a queued one.
StartJob    == MoveJob("running")
ResumeJob   == MoveJob("running")

\* With or without a checkpoint.
PauseJob ==
  /\ "paused" \in JobTransitions(job.status)
  /\ \E saved \in {job.saved, job.tokensUsed} :
       job' = [job EXCEPT !.status = "paused", !.saved = saved]
  /\ UNCHANGED task

\* checkpoint: "running jobs can checkpoint", and so can all others.
CheckpointJob ==
  /\ job.status # "absent"
  /\ job' = [job EXCEPT !.saved = job.tokensUsed]
  /\ UNCHANGED task

CompleteJob == MoveJob("completed")
FailJob     == MoveJob("failed")
CancelJob   == MoveJob("cancelled")

-----------------------------------------------------------------------------
(* Tasks: no operation asks for the job's status, or for upstream tasks *)

MoveTask(t, to) ==
  /\ to \in TaskTransitions(task[t].status)
  /\ task' = [task EXCEPT ![t].status = to]

CreateTask(t) ==
  /\ task[t].status = "absent" /\ job.status # "absent"
  /\ task' = [task EXCEPT ![t].status = "pending"]
  /\ UNCHANGED job

StartTask(t)  == MoveTask(t, "running") /\ UNCHANGED job
FailTask(t)   == MoveTask(t, "failed") /\ UNCHANGED job
CancelTask(t) == MoveTask(t, "cancelled") /\ UNCHANGED job
SkipTask(t)   == MoveTask(t, "skipped") /\ UNCHANGED job

CompleteTask(t, cost) ==
  /\ "completed" \in TaskTransitions(task[t].status)
  /\ task' = [task EXCEPT ![t].status = "completed", ![t].tokens = cost]
  /\ job' = [job EXCEPT !.tokensUsed = @ + cost, !.completedTasks = @ + 1]

RetryTask(t) ==
  /\ task[t].retryCount < MaxTaskRetries
  /\ "running" \in TaskTransitions(task[t].status)
  /\ task' = [task EXCEPT ![t].status = "running", ![t].retryCount = @ + 1]
  /\ UNCHANGED job

ResearchNext ==
  \/ CreateJob \/ CheckpointJob \/ StartJob \/ ResumeJob \/ PauseJob \/ CompleteJob \/ FailJob \/ CancelJob
  \/ \E t \in Task :
       \/ CreateTask(t) \/ StartTask(t) \/ FailTask(t) \/ CancelTask(t) \/ SkipTask(t)
       \/ RetryTask(t)
       \/ \E cost \in Tokens : CompleteTask(t, cost)

ResearchSpec == ResearchInit /\ [][ResearchNext]_researchVars

-----------------------------------------------------------------------------
(* Properties *)

ResearchTypeOK ==
  /\ job \in [status : JobStatus, tokensUsed : Nat, completedTasks : Nat, saved : Nat]
  /\ task \in [Task -> [status : TaskStatus, retryCount : 0 .. MaxTaskRetries,
                        tokens : Tokens \cup {0}]]

\* task.py, "Token accounting flows up to the parent job": through failures and
\* retries, in every state the job's counters are what its completed tasks cost, and no
\* checkpoint is ahead of them.
JobCountersMatch ==
  LET completed == {t \in Task : task[t].status = "completed"}
  IN  /\ job.saved <= job.tokensUsed
      /\ job.completedTasks = Cardinality(completed)
      /\ job.tokensUsed = Cardinality(UNION {{t} \X (1 .. task[t].tokens) : t \in completed})
=============================================================================
