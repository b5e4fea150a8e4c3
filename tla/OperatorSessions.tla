--------------------------- MODULE OperatorSessions ---------------------------
(***************************************************************************)
(* The rows of operator sessions (backend/services/operator_sessions.py):  *)
(* connect, heartbeat and disconnect by the client, force_disconnect by an *)
(* administrator, and the sweep that expires what has been silent for 90   *)
(* seconds (also backend/api/main.py).                                     *)
(*                                                                         *)
(* disconnect and heartbeat lock the row.  The sweep and force_disconnect  *)
(* read rows without a lock and write them later, whatever they are by     *)
(* then.                                                                   *)
(***************************************************************************)
EXTENDS Naturals

CONSTANTS OperatorSession,
          Terminator,    \* sweeps and force_disconnect calls
          LastBeat       \* bound on heartbeats, and on the clock of stale ones

ASSUME OperatorAssumption == LastBeat \in Nat

VARIABLES
  sessionStatus,  \* session_status, "absent" before connect
  beat,           \* last_heartbeat_at, as the number of the last heartbeat
  stale,          \* the sessions whose last heartbeat is over 90 seconds old
  ending          \* ending[x]: the sessions x read, with the heartbeat it saw

operatorVars == <<sessionStatus, beat, stale, ending>>

OperatorInit ==
  /\ sessionStatus = [s \in OperatorSession |-> "absent"]
  /\ beat = [s \in OperatorSession |-> 0]
  /\ stale = {}
  /\ ending = [x \in Terminator |-> {}]

Connect(s) ==
  /\ sessionStatus[s] = "absent"
  /\ sessionStatus' = [sessionStatus EXCEPT ![s] = "connected"]
  /\ UNCHANGED <<beat, stale, ending>>

\* It does not look at the status: an expired session beats on.
Heartbeat(s) ==
  /\ sessionStatus[s] # "absent" /\ beat[s] < LastBeat
  /\ beat' = [beat EXCEPT ![s] = @ + 1]
  /\ stale' = stale \ {s}
  /\ UNCHANGED <<sessionStatus, ending>>

GoStale(s) ==
  /\ sessionStatus[s] # "absent" /\ s \notin stale
  /\ stale' = stale \cup {s}
  /\ UNCHANGED <<sessionStatus, beat, ending>>

Disconnect(s) ==
  /\ sessionStatus[s] # "absent"
  /\ sessionStatus' = [sessionStatus EXCEPT ![s] = "disconnected"]
  /\ UNCHANGED <<beat, stale, ending>>

\* get_stale_connected, or get_active_by_user
ReadSessions(x, S) ==
  /\ ending[x] = {} /\ S # {}
  /\ \A s \in S : sessionStatus[s] = "connected"
  /\ ending' = [ending EXCEPT ![x] = {<<s, beat[s]>> : s \in S}]
  /\ UNCHANGED <<sessionStatus, beat, stale>>

Sweep(x) == ReadSessions(x, {s \in stale : sessionStatus[s] = "connected"})

ForceDisconnect(x) ==
  ReadSessions(x, {s \in OperatorSession : sessionStatus[s] = "connected"})

ExpireSessions(x) ==
  /\ ending[x] # {}
  /\ sessionStatus' = [s \in OperatorSession |->
       IF \E e \in ending[x] : e[1] = s THEN "expired" ELSE sessionStatus[s]]
  /\ ending' = [ending EXCEPT ![x] = {}]
  /\ UNCHANGED <<beat, stale>>

OperatorNext ==
  \/ \E s \in OperatorSession : Connect(s) \/ Heartbeat(s) \/ GoStale(s) \/ Disconnect(s)
  \/ \E x \in Terminator : Sweep(x) \/ ForceDisconnect(x) \/ ExpireSessions(x)

OperatorSpec == OperatorInit /\ [][OperatorNext]_operatorVars

-----------------------------------------------------------------------------
(* Properties *)

OperatorTypeOK ==
  /\ sessionStatus \in [OperatorSession -> {"absent", "connected", "disconnected", "expired"}]
  /\ beat \in [OperatorSession -> 0 .. LastBeat]
  /\ stale \subseteq OperatorSession
  /\ ending \in [Terminator -> SUBSET (OperatorSession \X (0 .. LastBeat))]

\* operator_sessions.py:154, "Expire sessions whose heartbeat has lapsed.
\* Idempotent: already-expired sessions are not re-processed": a session that is
\* expired was connected, and has not beaten since it was read.
\* The code does not keep this: a claim on record, asked by no run.
OnlyTheSilentExpire ==
  [][\A x \in Terminator : \A e \in ending[x] \ ending'[x] :
       sessionStatus[e[1]] = "connected" /\ beat[e[1]] = e[2]]_operatorVars
=============================================================================
