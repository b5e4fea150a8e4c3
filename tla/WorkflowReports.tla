--------------------------- MODULE WorkflowReports ---------------------------
(***************************************************************************)
(* The reports on a workflow's integrity (backend/workflows/assertions.py):*)
(* ConsistencyValidator.validate and CrossRuntimeAssertions.assert_all.    *)
(* They read the workflow, its event log, its approvals, its leases and    *)
(* its checkpoints in statements of their own, without a lock, while       *)
(* others write.  The workflow they loaded first stays as it was loaded.   *)
(* A report here looks for all that one of the two looks for: validate     *)
(* leaves out the leases, assert_all the approvals of what is not paused.  *)
(*                                                                         *)
(* What the log replays to moves with the events that recovery.py replays, *)
(* and only with them: approvals, snapshots and rollbacks write others.    *)
(***************************************************************************)
EXTENDS Naturals, FiniteSets

CONSTANTS Reporter,
          MaxCommits   \* bound on what others commit

ASSUME ReportAssumption == MaxCommits \in Nat

VARIABLES
  flow,    \* the committed workflow, and what its log replays to
  commits, \* how often it was written
  report   \* report[r]: the report r is writing

reportVars == <<flow, commits, report>>

FlowStatus == {"active", "paused", "completed", "failed", "cancelled"}
FlowOver   == {"completed", "failed", "cancelled"}
FlowFinal  == {"completed", "cancelled"}
FlowStep   == {"a", "b"}
Finding    == {"state", "paused_unasked", "asked_unpaused", "unrecoverable", "lease"}

RowOf(f) == <<f.status, f.step>>
LogOf(f) == <<f.replayed, f.logged>>

\* What is wrong with a workflow, by the rules of the two reports.
Wrong(f) ==
  {x \in Finding :
     CASE x = "state"          -> RowOf(f) # LogOf(f)
       [] x = "paused_unasked" -> f.status = "paused" /\ f.open = {}
       [] x = "asked_unpaused" -> f.status = "active" /\ f.open # {}
       [] x = "unrecoverable"  -> f.status = "failed" /\ ~ f.checkpoint
       [] x = "lease"          -> f.status \in FlowOver /\ f.leased}

\* lasting, moved and mistaken are ghosts: what has been wrong at every moment of the
\* report; did the row differ from what was loaded; what was found that was not so.
NothingReported ==
  [at |-> "none", status |-> "active", step |-> "a", found |-> {}, lasting |-> {},
   moved |-> FALSE, mistaken |-> {}]

\* A workflow some way along: it has been at both steps and in every status, for an
\* unlocked resume_failed brings it back from any, and a snapshot was taken of each.
ReportInit ==
  /\ flow = [status |-> "active", step |-> "a", replayed |-> "active", logged |-> "a",
             open |-> {}, checkpoint |-> FALSE, leased |-> FALSE]
  /\ commits = 0
  /\ report = [r \in Reporter |-> NothingReported]

-----------------------------------------------------------------------------
(* What others commit *)

\* A report in the writing after such a commit.
Meanwhile(p, f) ==
  [p EXCEPT !.lasting = @ \cap Wrong(f),
            !.moved = IF p.at = "none" \/ RowOf(p) = RowOf(f) THEN p.moved ELSE TRUE]

Commits(f) ==
  /\ commits < MaxCommits /\ commits' = commits + 1
  /\ flow' = f
  /\ report' = [r \in Reporter |-> Meanwhile(report[r], f)]

\* An event is replayed in the order of created_at: if it is late, one before it has
\* the last word.
Replayed(late, old, new) == IF late THEN old ELSE new

\* A transition of the runtime.
Moves(status, late) ==
  /\ \/ flow.status = "active" /\ status # "active"
     \/ flow.status = "paused" /\ status \in {"active", "cancelled"}
  /\ Commits([flow EXCEPT !.status = status, !.replayed = Replayed(late, @, status)])

StepsTo(step, late) ==
  /\ flow.status = "active"
  /\ Commits([flow EXCEPT !.step = step, !.logged = Replayed(late, @, step)])

\* resume_failed looks for a failed workflow, the coordinated rollback for one that is
\* not over, both without a lock: they looked at some time before, and write over
\* whatever the status is now.  The event of a rollback is not replayed.
ResumesFailed(late) ==
  Commits([flow EXCEPT !.status = "active", !.replayed = Replayed(late, @, "active")])

RollsBack == Commits([flow EXCEPT !.status = "cancelled"])

\* resume_from_checkpoint: one event, of a status and of a step.
RestoresCheckpoint(step, late, lateStep) ==
  /\ flow.checkpoint /\ flow.status \notin FlowFinal
  /\ Commits([flow EXCEPT !.status = "active", !.replayed = Replayed(late, @, "active"),
                !.step = step, !.logged = Replayed(lateStep, @, step)])

\* Restoring a snapshot: its event is not replayed.
RestoresSnapshot(status, step) ==
  /\ flow.status \notin FlowFinal
  /\ Commits([flow EXCEPT !.status = status, !.step = step])

\* An approval is requested, which pauses the workflow; the AI gate requests one beside
\* the workflow.  open has the statuses of the open ones; none of this is replayed.
Asks(pausing) ==
  /\ pausing => flow.status = "active"
  /\ Commits([flow EXCEPT !.open = @ \cup {"pending"},
                !.status = IF pausing THEN "paused" ELSE @])

\* An open approval of this status is escalated or closed; more of them may be open.
Escalates(more) ==
  /\ "pending" \in flow.open
  /\ Commits([flow EXCEPT !.open = (IF more THEN @ ELSE @ \ {"pending"}) \cup {"escalated"}])

\* resolve: approved, the workflow is active again; rejected, it has failed.
Decides(open, more, status) ==
  /\ open \in flow.open /\ flow.status = "paused"
  /\ Commits([flow EXCEPT !.open = IF more THEN @ ELSE @ \ {open}, !.status = status])

\* Decided by the AI gate, overridden or expired: the workflow is left alone.
Settles(open, more) ==
  /\ open \in flow.open
  /\ Commits([flow EXCEPT !.open = IF more THEN @ ELSE @ \ {open}])

\* There is a checkpoint; which step the latest one is of is left open.
SetsCheckpoint == ~ flow.checkpoint /\ Commits([flow EXCEPT !.checkpoint = TRUE])

Leases(takes) == flow.leased # takes /\ Commits([flow EXCEPT !.leased = takes])

-----------------------------------------------------------------------------
(* The report *)

StartReport(r) ==
  /\ report[r].at = "none"
  /\ report' = [report EXCEPT ![r] =
       [at |-> "log", status |-> flow.status, step |-> flow.step, found |-> {},
        lasting |-> Wrong(flow), moved |-> FALSE, mistaken |-> {}]]
  /\ UNCHANGED <<flow, commits>>

Reads(r, now, next, wrong) ==
  /\ report[r].at = now
  /\ report' = [report EXCEPT ![r].at = next, ![r].found = @ \cup wrong,
                              ![r].mistaken = @ \cup (wrong \ Wrong(flow))]
  /\ UNCHANGED <<flow, commits>>

\* consistency_check: the row loaded first against the log as it is now.
CheckReplay(r) ==
  Reads(r, "log", "leases", {x \in {"state"} : RowOf(report[r]) # LogOf(flow)})

\* assert_all; the lease of a workflow that is over.
CheckLease(r) ==
  Reads(r, "leases", "approvals",
    {x \in {"lease"} : report[r].status \in FlowOver /\ flow.leased})

\* Mutant of CheckApprovals: an escalated approval is not open.
CheckApprovals_PendingOnly(r) ==
  Reads(r, "approvals", "checkpoints",
    {x \in {"paused_unasked"} : report[r].status = "paused" /\ "pending" \notin flow.open}
    \cup {x \in {"asked_unpaused"} : report[r].status = "active" /\ "pending" \in flow.open})

\* A pending or escalated approval is open.
CheckApprovals(r) ==
  Reads(r, "approvals", "checkpoints",
    {x \in {"paused_unasked"} : report[r].status = "paused" /\ flow.open = {}}
    \cup {x \in {"asked_unpaused"} : report[r].status = "active" /\ flow.open # {}})

\* assert_all also asks whether the checkpoints, read in order of created_at, are in
\* that order.
CheckCheckpoint(r) ==
  Reads(r, "checkpoints", "done",
    {x \in {"unrecoverable"} : report[r].status = "failed" /\ ~ flow.checkpoint})

EndReport(r) ==
  /\ report[r].at = "done"
  /\ report' = [report EXCEPT ![r] = NothingReported]
  /\ UNCHANGED <<flow, commits>>

ReportNext ==
  \/ \E late \in BOOLEAN :
       \/ \E status \in FlowStatus : Moves(status, late)
       \/ ResumesFailed(late)
       \/ \E step \in FlowStep :
            StepsTo(step, late) \/ \E lateStep \in BOOLEAN : RestoresCheckpoint(step, late, lateStep)
  \/ \E status \in FlowStatus, step \in FlowStep : RestoresSnapshot(status, step)
  \/ \E open \in {"pending", "escalated"}, more \in BOOLEAN :
       Settles(open, more) \/ \E status \in {"active", "failed"} : Decides(open, more, status)
  \/ RollsBack \/ SetsCheckpoint
  \/ \E b \in BOOLEAN : Asks(b) \/ Escalates(b) \/ Leases(b)
  \/ \E r \in Reporter :
       \/ StartReport(r) \/ CheckReplay(r) \/ CheckLease(r) \/ CheckApprovals(r)
       \/ CheckCheckpoint(r) \/ EndReport(r)

ReportSpec == ReportInit /\ [][ReportNext]_reportVars

-----------------------------------------------------------------------------
(* Properties *)

ReportTypeOK ==
  /\ flow \in [status : FlowStatus, step : FlowStep, replayed : FlowStatus, logged : FlowStep,
               open : SUBSET {"pending", "escalated"}, checkpoint : BOOLEAN, leased : BOOLEAN]
  /\ commits \in Nat
  /\ report \in [Reporter ->
       [at : {"none", "log", "leases", "approvals", "checkpoints", "done"},
        status : FlowStatus, step : FlowStep,
        found : SUBSET Finding, lasting : SUBSET Finding,
        moved : BOOLEAN, mistaken : SUBSET Finding]]

\* assertions.py: "comprehensive multi-dimension consistency report".  Its parts were
\* read at different moments, from a workflow that others were changing.  Whatever else
\* than the state has been wrong all the while is in it; and when the row was not
\* written meanwhile, so is the state, and nothing is in it that was not so.
FaultsAreReported ==
  \A r \in Reporter : report[r].at = "done" =>
    /\ report[r].lasting \subseteq report[r].found \cup {"state"}
    /\ ~ report[r].moved =>
         report[r].lasting \subseteq report[r].found /\ report[r].mistaken = {}

\* The state, too: a row that never agreed with its log is reported as drifting.
\* The code does not keep this, for the log may come to agree with the row that was
\* loaded, when the row is another one: a claim on record, asked by no run.
DriftIsReported ==
  \A r \in Reporter : report[r].at = "done" => report[r].lasting \subseteq report[r].found
=============================================================================
