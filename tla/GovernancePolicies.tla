------------------------- MODULE GovernancePolicies --------------------------
(***************************************************************************)
(* GovernancePolicyRuntime (backend/governance/policy.py) for one policy   *)
(* key, and the version the evaluator applies.                             *)
(*                                                                         *)
(* No row is locked.  create asks for the active version in one query and  *)
(* for the highest version number in another, and inserts later; supersede *)
(* and archive, and the capture of a snapshot, read the active version and *)
(* write what they decided on, whatever happened in between.               *)
(* (policy_key, version) is unique.                                        *)
(***************************************************************************)
EXTENDS Integers

CONSTANTS PolicyAdmin,   \* sessions that change the policy or capture it
          MaxVersion     \* bound on the number of versions

ASSUME PolicyAssumption == MaxVersion \in Nat

VARIABLES
  latest,    \* the highest version number of the key, 0 before the first
  policy,    \* policy[v]: status of version v, "none" above latest
  captured,  \* the version in the last policy_snapshot_captured event of capture()
  newest,    \* ghost: the highest version in such an event
  desk       \* desk[a]: the call a is in and the version it read; ghost: newest then

policyVars == <<latest, policy, captured, newest, desk>>

Version    == 1..MaxVersion
PolicyStatus == {"active", "superseded", "archived"}
NoDesk     == [op |-> "none", read |-> 0, floor |-> 0]

PolicyInit ==
  /\ latest = 0
  /\ policy = [v \in Version |-> "none"]
  /\ captured = 0 /\ newest = 0
  /\ desk = [a \in PolicyAdmin |-> NoDesk]

Active == {v \in Version : policy[v] = "active"}

\* Mutant of IsActiveVersion: the newest of several active rows is taken.
IsActiveVersion_First(v) == v \in Active /\ \A u \in Active : u <= v

\* get_active_version: scalar_one_or_none raises when there are two.
IsActiveVersion(v) == Active = {v}

\* The evaluator keeps the highest active version of each key.
Governing == IF Active = {} THEN 0 ELSE CHOOSE v \in Active : \A u \in Active : u <= v

-----------------------------------------------------------------------------
\* create: no active version was found.
BeginCreate(a) ==
  /\ desk[a] = NoDesk
  /\ Active = {}
  /\ desk' = [desk EXCEPT ![a].op = "number"]
  /\ UNCHANGED <<latest, policy, captured, newest>>

ReadLatestNumber(a) ==
  /\ desk[a].op = "number"
  /\ desk' = [desk EXCEPT ![a].op = "create", ![a].read = latest]
  /\ UNCHANGED <<latest, policy, captured, newest>>

\* The insert of version read + 1 fails when that version exists by now.
CommitCreate(a) ==
  /\ desk[a].op = "create" /\ desk[a].read = latest
  /\ latest < MaxVersion
  /\ latest' = latest + 1
  /\ policy' = [policy EXCEPT ![latest + 1] = "active"]
  /\ desk' = [desk EXCEPT ![a] = NoDesk]
  /\ UNCHANGED <<captured, newest>>

BeginChange(a, op) ==
  /\ desk[a] = NoDesk
  /\ \E v \in Version :
       /\ IsActiveVersion(v)
       /\ desk' = [desk EXCEPT ![a] = [op |-> op, read |-> v, floor |-> newest]]
  /\ UNCHANGED <<latest, policy, captured, newest>>

BeginSupersede(a) == BeginChange(a, "supersede")

BeginArchive(a) == BeginChange(a, "archive")

BeginCapture(a) == BeginChange(a, "capture")

\* The version that was read is superseded whatever its status is now, and
\* its successor is inserted, in one transaction.
CommitSupersede(a) ==
  /\ desk[a].op = "supersede" /\ desk[a].read = latest
  /\ latest < MaxVersion
  /\ latest' = latest + 1
  /\ policy' = [policy EXCEPT ![latest] = "superseded", ![latest + 1] = "active"]
  /\ desk' = [desk EXCEPT ![a] = NoDesk]
  /\ UNCHANGED <<captured, newest>>

CommitArchive(a) ==
  /\ desk[a].op = "archive"
  /\ policy' = [policy EXCEPT ![desk[a].read] = "archived"]
  /\ desk' = [desk EXCEPT ![a] = NoDesk]
  /\ UNCHANGED <<latest, captured, newest>>

\* GovernancePolicySnapshotRuntime.capture: what was read is recorded later, by then
\* it need not be in force any more, nor the newest on record.
CommitCapture(a) ==
  /\ desk[a].op = "capture"
  /\ captured' = desk[a].read
  /\ newest' = IF desk[a].read > newest THEN desk[a].read ELSE newest
  /\ desk' = [desk EXCEPT ![a] = NoDesk]
  /\ UNCHANGED <<latest, policy>>

\* PolicyError, a unique violation, a lost connection.
Abandon(a) ==
  /\ desk[a] # NoDesk
  /\ desk' = [desk EXCEPT ![a] = NoDesk]
  /\ UNCHANGED <<latest, policy, captured, newest>>

PolicyStep(a) ==
  \/ BeginCreate(a)
  \/ ReadLatestNumber(a)
  \/ CommitCreate(a)
  \/ BeginSupersede(a)
  \/ CommitSupersede(a)
  \/ BeginArchive(a)
  \/ CommitArchive(a)
  \/ BeginCapture(a)
  \/ CommitCapture(a)
  \/ Abandon(a)

PolicyNext == \E a \in PolicyAdmin : PolicyStep(a)

PolicySpec == PolicyInit /\ [][PolicyNext]_policyVars

-----------------------------------------------------------------------------
(* Properties *)

PolicyTypeOK ==
  /\ latest \in 0..MaxVersion
  /\ policy \in [Version -> PolicyStatus \cup {"none"}]
  /\ \A v \in Version : policy[v] = "none" <=> v > latest
  /\ newest \in 0..latest /\ captured \in 0..newest
  /\ desk \in [PolicyAdmin ->
       [op : {"none", "number", "create", "supersede", "archive", "capture"},
        read : 0..latest, floor : 0..newest]]

\* Two creates that race leave two active versions (the first committed
\* between the second's two queries).  Even so, and with archives that are
\* overtaken, the policy the evaluator goes by changes only to none or to a
\* version that did not exist before; and a capture records no older version than
\* any that was on record when it began.  The snapshots kept for replay may go back
\* to an older version all the same, but only by a capture that overlapped with the
\* one that recorded the newer.
GovernanceMovesForward ==
  [][/\ Governing' \notin {0, Governing} => Governing' > latest
     /\ \A a \in PolicyAdmin : CommitCapture(a) => captured' >= desk[a].floor]_policyVars

\* policy.py: "If policy_key already has an active version, raise."
\* The code does not keep this: a claim on record, asked by no run.
OneActiveVersion == \A u, v \in Active : u = v
=============================================================================
