----------------------------- MODULE SourceSync ------------------------------
(***************************************************************************)
(* The two-way exchange with the source system for one lead                *)
(* (backend/services/business_evidence.py and source_commands.py).         *)
(*                                                                         *)
(* Snapshots arrive late, twice and out of order.  Commands that users     *)
(* stage are sent by recovery workers, one per process: a worker finds the *)
(* lead without a lock, then takes the lead's advisory lock, re-reads it,  *)
(* posts, and commits what came of it.  Everything that writes the lead's  *)
(* metadata holds that lock until it commits.                              *)
(***************************************************************************)
EXTENDS Integers, FiniteSets

CONSTANTS RequestId,      \* request ids, in the order of their keys
          SyncWorker,
          Snapshot,       \* the deliveries the source makes:
                          \*   part (call or lead), rev, at, contact ("blank"
                          \*   without one), revision claimed, advisory
          MaxTries,       \* attempts per command (30)
          MaxCommands,    \* commands per lead (100)
          MaxCrash        \* bound on worker crashes

ASSUME SyncAssumption ==
  /\ RequestId \subseteq Nat
  /\ MaxTries \in Nat /\ MaxCommands \in Nat /\ MaxCrash \in Nat
  /\ \A d \in Snapshot : d.at \in Nat \ {0} /\ d.contact # "none"

VARIABLES
  businessEvidence,  \* its revision and observed_at, 0 if there is none
  receipts,  \* business_receipts: the deliveries accepted, with their status
  contact,   \* the lead's contact, "blank" while unknown, "none" without a lead
  command,   \* command[r]: state and attempts, state "none" before it is staged
  old,       \* the staged commands that are older than 24 hours
  moved,     \* the staged commands whose target is not the configured one
  worker,    \* worker[w]: step, the command it is posting, what came back
  sent,      \* the commands the source system has persisted
  crashes

syncVars == <<businessEvidence, receipts, contact, command, old, moved, worker, sent, crashes>>
evidenceVars == <<businessEvidence, receipts, contact>>
commandVars  == <<command, old, moved, worker, sent, crashes>>

Asleep == [step |-> "idle", request |-> 0, answer |-> "none", view |-> {}]

SyncInit ==
  /\ businessEvidence = [rev |-> "none", at |-> 0]
  /\ receipts = {} /\ contact = "none"
  /\ command = [r \in RequestId |-> [state |-> "none", tries |-> 0]]
  /\ old = {} /\ moved = {} /\ sent = {}
  /\ worker = [w \in SyncWorker |-> Asleep]
  /\ crashes = 0

Pending == {r \in RequestId : command[r].state = "pending"}
Staged  == {r \in RequestId : command[r].state # "none"}

\* Mutant of Locked: the lock is released after the post, before the answer to
\* it is committed.
Locked_UntilPosted == \E w \in SyncWorker : worker[w].step = "posting"

Locked == \E w \in SyncWorker : worker[w].step \in {"posting", "posted"}

-----------------------------------------------------------------------------
(* Snapshots *)

\* validate_snapshot: of this tenant, authorising neither a quote nor an offer, its
\* comparables, offers, appointment and valuation well-formed and bounded.
Advisory(d) == d.advisory

\* And its other records; of the revision that it claims, at most seven days old.
Valid(d) == Advisory(d) /\ d.claimed = d.rev

\* Mutant of ResolveLead: what the source says replaces what is known.
ResolveLead_Overwrite(d) == contact' = d.contact

\* resolve_lead: the lead is created with the contact it came with; a contact
\* that is known stays.
ResolveLead(d) == contact' = IF contact \in {"none", "blank"} THEN d.contact ELSE contact

\* Receipts are kept for seven days.  The cutoff is at most the time of the
\* snapshot that is being received, which may not be older than that itself.
Retained(cutoff) == {p \in receipts : p.at >= cutoff}

\* Mutant of Newer: the later delivery wins, not the later observation.
Newer_Arrival(d) == TRUE

Newer(d) == businessEvidence.at <= d.at

\* ingest_call resolves the lead of a new call, too.
IngestSourceCall(d) ==
  /\ ~ Locked
  /\ d.part = "call"
  /\ ResolveLead(d)
  /\ UNCHANGED <<businessEvidence, receipts>>
  /\ UNCHANGED commandVars

\* receive_business.  A revision is accepted once in each partition -- when it is
\* repeated the receipt answers, and the lead was resolved before --, a different
\* snapshot of the same time as the evidence is refused, and an older one is
\* acknowledged and ignored.
Receive(d) ==
  /\ ~ Locked /\ Valid(d)
  /\ \E cutoff \in 0..d.at :
       /\ \A p \in Retained(cutoff) : ~ (p.part = d.part /\ p.rev = d.rev)
       /\ receipts' = Retained(cutoff) \cup {d}
  /\ ~ (businessEvidence.at = d.at /\ businessEvidence.rev # d.rev)
  /\ businessEvidence' = IF Newer(d) THEN [rev |-> d.rev, at |-> d.at] ELSE businessEvidence
  /\ ResolveLead(d)
  /\ UNCHANGED commandVars

-----------------------------------------------------------------------------
(* Commands *)

\* _stage_command: for the revision on record, a request id without a command,
\* while the review budget lasts.
Stage(r) ==
  /\ ~ Locked
  /\ businessEvidence.at # 0
  /\ command[r].state = "none"
  /\ Cardinality(Staged) < MaxCommands
  /\ command' = [command EXCEPT ![r].state = "pending"]
  /\ UNCHANGED <<old, moved, worker, sent, crashes>>
  /\ UNCHANGED evidenceVars

\* recover_commands finds the lead by its pending commands.
Find(w) ==
  /\ worker[w].step = "idle"
  /\ Pending # {}
  /\ worker' = [worker EXCEPT ![w].step = "found"]
  /\ UNCHANGED <<command, old, moved, sent, crashes>>
  /\ UNCHANGED evidenceVars

\* Pending commands that may not be tried any more.
Exhausted(r) == r \in old \cup moved \/ command[r].tries >= MaxTries

\* In key order, over the lead read again under the lock: the first command
\* that may be tried is tried, and the loop ends at the second one.
Tryable == {r \in Pending : ~ Exhausted(r)}
IsFirst(r, R) == r \in R /\ \A s \in R : r <= s

\* Mutant of Reviewed: what may not be tried any more is passed over.
Reviewed_Skips == {}

Reviewed ==
  {r \in Pending : Exhausted(r) /\ Cardinality({s \in Tryable : s < r}) <= 1}

\* The command states the worker writes when it commits.
Outcome(w, answer) ==
  [r \in RequestId |->
     IF r = worker[w].request
     THEN [state |-> CASE answer = "receipt"  -> "applied"
                       [] answer = "rejected" -> "requires_review"
                       [] OTHER               -> "pending",
           tries |-> command[r].tries + 1]
     ELSE IF r \in worker[w].view THEN [command[r] EXCEPT !.state = "requires_review"]
     ELSE command[r]]

\* The lock is granted and the lead read, which gives the worker its view: the
\* commands to be marked for review.
TakeLock(w) ==
  /\ worker[w].step = "found"
  /\ ~ Locked
  /\ \E r \in RequestId \cup {0} :
       /\ IF Tryable = {} THEN r = 0 ELSE IsFirst(r, Tryable)
       /\ worker' = [worker EXCEPT ![w] =
            [step |-> IF r = 0 THEN "posted" ELSE "posting", request |-> r,
             answer |-> "none", view |-> Reviewed]]
  /\ UNCHANGED <<command, old, moved, sent, crashes>>
  /\ UNCHANGED evidenceVars

\* The post reaches the source system and is persisted there, or rejected, or
\* something fails on the way there or back.
Post(w) ==
  /\ worker[w].step = "posting"
  /\ \E answer \in {"receipt", "rejected", "error"}, persisted \in BOOLEAN :
       /\ answer = "receipt" => persisted
       /\ sent' = IF persisted THEN sent \cup {worker[w].request} ELSE sent
       /\ worker' = [worker EXCEPT ![w].step = "posted", ![w].answer = answer]
  /\ UNCHANGED <<command, old, moved, crashes>>
  /\ UNCHANGED evidenceVars

Record(w) ==
  /\ worker[w].step = "posted"
  /\ command' = Outcome(w, worker[w].answer)
  /\ worker' = [worker EXCEPT ![w] = Asleep]
  /\ UNCHANGED <<old, moved, sent, crashes>>
  /\ UNCHANGED evidenceVars

\* The process ends: the lock goes with the transaction, and with it the
\* attempt that was counted and the answer that came.
CrashWorker(w) ==
  /\ crashes < MaxCrash
  /\ worker[w].step # "idle"
  /\ crashes' = crashes + 1
  /\ worker' = [worker EXCEPT ![w] = Asleep]
  /\ UNCHANGED <<command, old, moved, sent>>
  /\ UNCHANGED evidenceVars

\* A day passes for a command.
Age(r) ==
  /\ r \in Staged \ old
  /\ old' = old \cup {r}
  /\ UNCHANGED <<command, moved, worker, sent, crashes>>
  /\ UNCHANGED evidenceVars

\* The processes are restarted for another destination, before anything is
\* staged for it.
Reconfigure ==
  /\ moved # Staged
  /\ moved' = Staged
  /\ worker' = [w \in SyncWorker |-> Asleep]
  /\ UNCHANGED <<command, old, sent, crashes>>
  /\ UNCHANGED evidenceVars

WorkerStep(w) == Find(w) \/ TakeLock(w) \/ Post(w) \/ Record(w)

SyncNext ==
  \/ \E d \in Snapshot : Receive(d) \/ IngestSourceCall(d)
  \/ \E r \in RequestId : Stage(r) \/ Age(r)
  \/ \E w \in SyncWorker : WorkerStep(w) \/ CrashWorker(w)
  \/ Reconfigure

\* recovery_loop calls recover_commands for ever, the lock queue is served, a
\* post ends within its timeout of 5 seconds, and a day passes.
SyncFairness ==
  /\ \A w \in SyncWorker : WF_syncVars(Find(w) \/ Post(w) \/ Record(w))
  /\ \A w \in SyncWorker : SF_syncVars(TakeLock(w))
  /\ \A r \in RequestId : WF_syncVars(Age(r))

SyncSpec == SyncInit /\ [][SyncNext]_syncVars /\ SyncFairness

-----------------------------------------------------------------------------
(* Properties *)

SyncTypeOK ==
  /\ businessEvidence \in [rev : {d.rev : d \in Snapshot} \cup {"none"}, at : Nat]
  /\ receipts \subseteq Snapshot
  /\ contact \in {d.contact : d \in Snapshot} \cup {"none", "blank"}
  /\ command \in [RequestId -> [state : {"none", "pending", "applied", "requires_review"},
                              tries : 0..MaxTries]]
  /\ old \subseteq Staged /\ moved \subseteq Staged /\ sent \subseteq Staged
  /\ worker \in [SyncWorker ->
       [step : {"idle", "found", "posting", "posted"}, request : RequestId \cup {0},
        answer : {"none", "receipt", "rejected", "error"}, view : SUBSET RequestId]]
  /\ crashes \in 0..MaxCrash

\* business_evidence.py ignores older snapshots: whatever the order of the
\* deliveries, their repetitions and the receipts forgotten, no accepted
\* snapshot is newer than the evidence, and none of its time differs from it.
\* voice_ingest.py fills in what the lead lacks: once an accepted snapshot named a
\* contact, the lead has one.
EvidenceIsNewest ==
  \A d \in receipts :
    /\ d.at <= businessEvidence.at
    /\ d.at = businessEvidence.at => d.rev = businessEvidence.rev
    /\ contact # "none" /\ (contact = "blank" => d.contact = "blank")

\* A worker only posts a command that is pending on record, and no two
\* workers are posting at once: a command that was applied, or handed to a
\* person, is never sent again, and no command is recorded as applied that the
\* source system has not persisted.
NoPostAfterDecision ==
  /\ \A w \in SyncWorker :
       worker[w].step = "posting" => command[worker[w].request].state = "pending"
  /\ \A v, w \in SyncWorker :
       v # w => ~ (worker[v].step = "posting" /\ worker[w].step = "posting")
  /\ \A r \in RequestId : command[r].state = "applied" => r \in sent

\* A command does not stay pending: it is applied or a person is asked.
PendingIsSettled ==
  \A r \in RequestId : command[r].state = "pending" ~> command[r].state # "pending"
=============================================================================
