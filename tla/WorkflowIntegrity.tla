-------------------------- MODULE WorkflowIntegrity --------------------------
(***************************************************************************)
(* ExecutionIntegrityRuntime (backend/workflows/integrity.py): the sweep   *)
(* that expires leases, recovers the workflows they leave orphaned         *)
(* (orphaned.py over recovery.py) and reports the stalled ones             *)
(* (stalled.py), beside the workers, approvers and validators              *)
(* (resume_validator.py) of the same workflows.                            *)
(*                                                                         *)
(* A sweep is one transaction.  The lease and workflow rows it has written *)
(* stay locked, and its writes unseen, until it commits; it scans once,    *)
(* unlocked, and locks each workflow when its turn comes.                  *)
(*                                                                         *)
(* Two writers do not lock: resume_failed and the rollback read the row,   *)
(* and write it later, over whatever has become of it.  Their UPDATE waits *)
(* for a sweep that has the row locked.                                    *)
(***************************************************************************)
EXTENDS Naturals

CONSTANTS Sweeper,
          Hand,        \* resume_failed and rollback requests at one time
          Leased,      \* workflows that workers run under a lease
          LastStep     \* bound on the steps of a workflow

ASSUME IntegrityAssumption == LastStep \in Nat

VARIABLES
  held,     \* held[w]: the committed rows of w
  sweep,    \* sweep[s]: the open transaction of s
  hands,    \* hands[w]: who has read w unlocked, and the status they will write
  advice    \* advice[w]: what an operator was told by the resume validator

integrityVars == <<held, sweep, hands, advice>>

\* What the runtime calls terminal; recovery gives failed another chance.
Over  == {"completed", "failed", "cancelled"}
Final == {"completed", "cancelled"}
HeldStatus == {"active", "paused"} \cup Over

NoSweep == [at |-> "none", expired |-> {}, todo |-> {}, at_step |-> [w \in {} |-> 0],
            verdict |-> [w \in {} |-> 0], stalled |-> {}]

IntegrityInit ==
  /\ held = [w \in Leased |-> [status |-> "active", step |-> 0, checkpoint |-> 0, kept |-> {},
                               lease |-> "active", waiting |-> FALSE]]
  /\ sweep = [s \in Sweeper |-> NoSweep]
  /\ hands = [w \in Leased |-> {}]
  /\ advice = [w \in Leased |-> "none"]

SweepLocks(w)   == \E s \in Sweeper : w \in DOMAIN sweep[s].verdict
LeaseLocked(w) == \E s \in Sweeper : w \in sweep[s].expired

\* What the writers of a workflow change of its row.
Changed(row, status, step, waiting) ==
  [row EXCEPT !.status = status, !.step = step, !.waiting = waiting]

Write(w, status, step, waiting) ==
  held' = [held EXCEPT ![w] = Changed(held[w], status, step, waiting)]

-----------------------------------------------------------------------------
(* Workers and approvers *)

Advances(w) ==
  /\ ~ SweepLocks(w) /\ held[w].status = "active" /\ held[w].step < LastStep
  /\ Write(w, "active", held[w].step + 1, held[w].waiting)
  /\ UNCHANGED <<sweep, hands, advice>>

\* Only the first checkpoint of a step is kept; the newest row is the latest.
Checkpoints(w) ==
  /\ held[w].step \notin {0} \cup held[w].kept
  /\ held' = [held EXCEPT ![w].checkpoint = held[w].step, ![w].kept = @ \cup {held[w].step}]
  /\ UNCHANGED <<sweep, hands, advice>>

Ends(w, status) ==
  /\ ~ SweepLocks(w)
  /\ \/ held[w].status = "active"
     \/ held[w].status = "paused" /\ status = "cancelled"
  /\ Write(w, status, held[w].step, held[w].waiting)
  /\ UNCHANGED <<sweep, hands, advice>>

\* An approval is requested and the workflow paused; it is decided and the
\* workflow resumed if it is still paused.  A workflow is paused and resumed
\* without one, too.
Pauses(w, asking) ==
  /\ ~ SweepLocks(w) /\ held[w].status = "active"
  /\ asking => ~ held[w].waiting
  /\ Write(w, "paused", held[w].step, held[w].waiting \/ asking)
  /\ UNCHANGED <<sweep, hands, advice>>

Resumes(w, deciding) ==
  /\ ~ SweepLocks(w) /\ held[w].status = "paused"
  /\ deciding => held[w].waiting
  /\ Write(w, "active", held[w].step, held[w].waiting /\ ~ deciding)
  /\ UNCHANGED <<sweep, hands, advice>>

\* The approval is rejected, and the paused workflow has failed.
Rejects(w) ==
  /\ ~ SweepLocks(w) /\ held[w].status = "paused" /\ held[w].waiting
  /\ Write(w, "failed", held[w].step, FALSE)
  /\ UNCHANGED <<sweep, hands, advice>>

\* A snapshot of some earlier moment is restored; which one is left open.
Restores(w, status, step) ==
  /\ ~ SweepLocks(w) /\ held[w].status \notin Final
  /\ Write(w, status, step, held[w].waiting)
  /\ UNCHANGED <<sweep, hands, advice>>

\* acquire or release; acquiring waits for a sweep that holds the lease row.
TakesLease(w) ==
  /\ ~ LeaseLocked(w) /\ held[w].lease # "active"
  /\ held' = [held EXCEPT ![w].lease = "active"]
  /\ UNCHANGED <<sweep, hands, advice>>

ReleasesLease(w) ==
  /\ ~ LeaseLocked(w) /\ held[w].lease = "active"
  /\ held' = [held EXCEPT ![w].lease = "released"]
  /\ UNCHANGED <<sweep, hands, advice>>

\* The worker is lost: expires_at passes.
LeaseLapses(w) ==
  /\ held[w].lease = "active"
  /\ held' = [held EXCEPT ![w].lease = "overdue"]
  /\ UNCHANGED <<sweep, hands, advice>>

-----------------------------------------------------------------------------
(* The writers that do not lock *)

EmptyHand(h) == \A w \in Leased, status \in {"active", "cancelled"} : <<h, status>> \notin hands[w]

\* resume_failed finds the workflow failed.
LooksFailed(h, w) ==
  /\ EmptyHand(h) /\ held[w].status = "failed"
  /\ hands' = [hands EXCEPT ![w] = @ \cup {<<h, "active">>}]
  /\ UNCHANGED <<held, sweep, advice>>

\* The rollback finds it not over.
LooksUnfinished(h, w) ==
  /\ EmptyHand(h) /\ held[w].status \notin Over
  /\ hands' = [hands EXCEPT ![w] = @ \cup {<<h, "cancelled">>}]
  /\ UNCHANGED <<held, sweep, advice>>

\* Each writes the status without looking at the row again.
WritesOver(h, w, status) ==
  /\ <<h, status>> \in hands[w] /\ ~ SweepLocks(w)
  /\ Write(w, status, held[w].step, held[w].waiting)
  /\ hands' = [hands EXCEPT ![w] = @ \ {<<h, status>>}]
  /\ UNCHANGED <<sweep, advice>>

\* The request fails and is rolled back.
TurnsAway(h, w, status) ==
  /\ <<h, status>> \in hands[w]
  /\ hands' = [hands EXCEPT ![w] = @ \ {<<h, status>>}]
  /\ UNCHANGED <<held, sweep, advice>>

-----------------------------------------------------------------------------
(* The sweep *)

\* expire_stale, skipping the rows another sweep has locked.
ExpireLeases(s) ==
  /\ sweep[s].at = "none"
  /\ sweep' = [sweep EXCEPT ![s].at = "expired",
       ![s].expired = {w \in Leased : held[w].lease = "overdue" /\ ~ LeaseLocked(w)}]
  /\ UNCHANGED <<held, hands, advice>>

\* find_orphaned sees the committed rows and the leases it has just expired.
FindOrphaned(s) ==
  /\ sweep[s].at = "expired"
  /\ sweep' = [sweep EXCEPT ![s].at = "recovering",
       ![s].todo = {w \in Leased : /\ held[w].status \in {"active", "paused"}
                                   /\ held[w].lease = "expired" \/ w \in sweep[s].expired}]
  /\ UNCHANGED <<held, hands, advice>>

\* resume_from_checkpoint reads the latest checkpoint, if any, first.
ReadCheckpoint(s, w) ==
  /\ sweep[s].at = "recovering" /\ w \in sweep[s].todo
  /\ w \notin DOMAIN sweep[s].at_step
  /\ sweep' = [sweep EXCEPT ![s].at_step = [u \in DOMAIN @ \cup {w} |->
       IF u = w THEN held[w].checkpoint ELSE @[u]]]
  /\ UNCHANGED <<held, hands, advice>>

\* Mutant of Recovered: the status is not looked at again under the lock.
Recovered_Unchecked(w, checkpoint) ==
  IF checkpoint # 0 THEN [status |-> "active", step |-> checkpoint, say |-> "recovered"]
  ELSE [status |-> "cancelled", step |-> held[w].step, say |-> "cancelled"]

\* The row once locked: restored from the checkpoint unless it is final;
\* without a checkpoint cancelled, unless it is over, which is swallowed.
Recovered(w, checkpoint) ==
  IF checkpoint # 0 /\ held[w].status \notin Final
  THEN [status |-> "active", step |-> checkpoint, say |-> "recovered"]
  ELSE [status |-> IF held[w].status \in Over THEN held[w].status ELSE "cancelled",
        step |-> held[w].step, say |-> "cancelled"]

RecoverOrphan(s, w) ==
  /\ w \in DOMAIN sweep[s].at_step \cap sweep[s].todo
  /\ ~ SweepLocks(w)
  /\ sweep' = [sweep EXCEPT ![s].todo = @ \ {w},
       ![s].verdict = [u \in DOMAIN @ \cup {w} |->
          IF u = w THEN Recovered(w, sweep[s].at_step[w]) ELSE @[u]]]
  /\ UNCHANGED <<held, hands, advice>>

\* find_stalled and mark_stalled, advisory, of those that had no event in the last
\* hour; the sweep's own events count.
FindStalled(s, quiet) ==
  /\ sweep[s].at = "recovering" /\ sweep[s].todo = {}
  /\ sweep' = [sweep EXCEPT ![s].at = "done",
       ![s].stalled = {w \in quiet : /\ w \notin DOMAIN sweep[s].verdict
                                     /\ held[w].status \in {"active", "paused"}}]
  /\ UNCHANGED <<held, hands, advice>>

\* A row as the sweep leaves it.
SweptRow(s, w) ==
  LET row == [held[w] EXCEPT !.lease = IF w \in sweep[s].expired THEN "expired" ELSE @]
      verdict == sweep[s].verdict
  IN IF w \notin DOMAIN verdict THEN row
     ELSE Changed(row, verdict[w].status, verdict[w].step, row.waiting)

\* The orphan events say what was decided, the integrity event that the sweep
\* is complete.
CommitSweep(s) ==
  /\ sweep[s].at = "done"
  /\ held' = [w \in Leased |-> SweptRow(s, w)]
  /\ sweep' = [sweep EXCEPT ![s] = NoSweep]
  /\ UNCHANGED <<hands, advice>>

\* A deadlock of two sweeps, a lost connection: everything is rolled back.
AbortSweep(s) ==
  /\ sweep[s].at # "none"
  /\ sweep' = [sweep EXCEPT ![s] = NoSweep]
  /\ UNCHANGED <<held, hands, advice>>

-----------------------------------------------------------------------------
(* The operator *)

\* The strategy of ResumeValidator.validate when it finds no blocker.
Strategy(w) ==
  CASE held[w].status = "paused" /\ ~ held[w].waiting -> "direct_resume"
    [] held[w].status = "failed" /\ ~ held[w].waiting /\ held[w].checkpoint # 0 ->
         "checkpoint_restore"
    [] OTHER -> "none"

Validate(w) ==
  /\ Strategy(w) # "none"
  /\ advice' = [advice EXCEPT ![w] = Strategy(w)]
  /\ UNCHANGED <<held, sweep, hands>>

\* By then the workflow may be in any state.
FollowAdvice(w) ==
  /\ ~ SweepLocks(w)
  /\ \/ /\ advice[w] = "direct_resume" /\ held[w].status = "paused"
        /\ Write(w, "active", held[w].step, held[w].waiting)
     \/ /\ advice[w] = "checkpoint_restore" /\ held[w].status \notin Final
        /\ Write(w, "active", held[w].checkpoint, held[w].waiting)
  /\ advice' = [advice EXCEPT ![w] = "none"]
  /\ UNCHANGED <<sweep, hands>>

IntegrityNext ==
  \/ \E w \in Leased :
       \/ Advances(w) \/ Checkpoints(w)
       \/ \E status \in Over : Ends(w, status)
       \/ \E approval \in BOOLEAN : Pauses(w, approval) \/ Resumes(w, approval)
       \/ Rejects(w)
       \/ \E status \in HeldStatus, step \in 0..LastStep : Restores(w, status, step)
       \/ \E h \in Hand :
            \/ LooksFailed(h, w) \/ LooksUnfinished(h, w)
            \/ \E status \in {"active", "cancelled"} :
                 WritesOver(h, w, status) \/ TurnsAway(h, w, status)
       \/ Validate(w) \/ FollowAdvice(w)
       \/ TakesLease(w) \/ ReleasesLease(w) \/ LeaseLapses(w)
  \/ \E s \in Sweeper :
       \/ ExpireLeases(s) \/ FindOrphaned(s)
       \/ \E w \in Leased : ReadCheckpoint(s, w) \/ RecoverOrphan(s, w)
       \/ \E quiet \in SUBSET Leased : FindStalled(s, quiet)
       \/ CommitSweep(s) \/ AbortSweep(s)

IntegritySpec == IntegrityInit /\ [][IntegrityNext]_integrityVars
-----------------------------------------------------------------------------
(* Properties *)

IntegrityTypeOK ==
  /\ held \in [Leased ->
       [status : HeldStatus, step : 0..LastStep, checkpoint : 0..LastStep, kept : SUBSET (1..LastStep),
        lease : {"active", "overdue", "expired", "released"}, waiting : BOOLEAN]]
  /\ hands \in [Leased -> SUBSET (Hand \X {"active", "cancelled"})]
  /\ advice \in [Leased -> {"none", "direct_resume", "checkpoint_restore"}]
  /\ \A s \in Sweeper :
       /\ sweep[s].at \in {"none", "expired", "recovering", "done"}
       /\ sweep[s].expired \cup sweep[s].todo \cup sweep[s].stalled \subseteq Leased
       /\ DOMAIN sweep[s].verdict \subseteq DOMAIN sweep[s].at_step

\* What a sweep has decided of a workflow and will announce is true of the row
\* until it commits: it says "recovered" only of a row that is not final and
\* that it takes to a step the workflow has a checkpoint of, "cancelled" only of one
\* that ends up over, as it was if it was over before; and no other sweep decides
\* meanwhile.
VerdictsHold ==
  \A s \in Sweeper, w \in Leased :
    w \in DOMAIN sweep[s].verdict =>
      LET verdict == sweep[s].verdict[w]
      IN /\ verdict.say = "recovered" =>
              /\ verdict.status = "active" /\ held[w].status \notin Final
              /\ verdict.step \in held[w].kept
         /\ verdict.say = "cancelled" =>
              /\ verdict.status \in Over
              /\ held[w].status \in Over => verdict.status = held[w].status
         /\ w \notin sweep[s].stalled
         /\ \A r \in Sweeper \ {s} : w \notin DOMAIN sweep[r].verdict

\* orphaned.py and recovery.py: completed and cancelled are "terminal -- cannot
\* resume".  Of all the writers, and whatever happened since the scan or since the
\* validator was asked, only resume_failed and the rollback overturn such a status:
\* those that had read the row before it was final, each once.  And no step makes a
\* sweep's verdict untrue.
RecoveryIsSafe ==
  [][/\ VerdictsHold'
     /\ \A w \in Leased : held[w].status \in Final =>
          /\ hands'[w] \subseteq hands[w]
          /\ held'[w].status # held[w].status => hands'[w] # hands[w]]_integrityVars
=============================================================================
