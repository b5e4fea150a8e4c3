-------------------------- MODULE RealtimeSessions ---------------------------
(***************************************************************************)
(* The WebSocket endpoint of one process (backend/api/routes/realtime.py)  *)
(* with the in-memory registries it shares with the eviction loop          *)
(* (backend/api/main.py) and with everyone who broadcasts:                 *)
(* ConnectionManager, SubscriptionManager and HeartbeatTracker             *)
(* (backend/realtime).                                                     *)
(*                                                                         *)
(* A step is what a task does between two awaits.  A connection has two    *)
(* tasks, the endpoint's and the heartbeat's; both await an identity check *)
(* while the others go on, and whoever finds the connection dead empties   *)
(* the registries under the task that is still using it.                   *)
(***************************************************************************)
EXTENDS Naturals

CONSTANTS Socket,    \* connection ids
          Channel    \* the channels the role of the users may read

VARIABLES
  endpoint,    \* endpoint[s]: where the endpoint's task is
  message,     \* message[s]: the client message it is handling
  heartbeat,   \* heartbeat[s]: where the heartbeat's task is
  connections, \* ConnectionManager._connections
  subs,        \* SubscriptionManager: subs[s], both of its maps
  pongs,       \* HeartbeatTracker._last_pong: its keys
  silent,      \* those of them older than 90 seconds
  closed,      \* the sockets that are closed, by either side
  refusable,   \* the connections whose user was logged out, deactivated, moved
  evicting     \* what is left of the stale connections the eviction loop read

realtimeVars == <<endpoint, message, heartbeat, connections, subs, pongs, silent, closed,
                  refusable, evicting>>
registryVars == <<connections, subs, pongs, silent, closed>>

ClientMessage == {<<"pong">>, <<"other">>} \cup {<<"subscribe", ch>> : ch \in Channel}
                                         \cup {<<"unsubscribe", ch>> : ch \in Channel}

RealtimeInit ==
  /\ endpoint = [s \in Socket |-> "absent"]
  /\ message = [s \in Socket |-> <<"none">>]
  /\ heartbeat = [s \in Socket |-> "absent"]
  /\ subs = [s \in Socket |-> {}]
  /\ connections = {} /\ pongs = {} /\ silent = {} /\ closed = {} /\ refusable = {}
  /\ evicting = {}

\* unsubscribe_all and record_disconnect.
Forget(s) ==
  /\ subs' = [subs EXCEPT ![s] = {}]
  /\ pongs' = pongs \ {s}
  /\ silent' = silent \ {s}

\* close_connection after them: the refusal of _check_identity, and eviction.
CloseAndForget(s) ==
  /\ Forget(s)
  /\ connections' = connections \ {s}
  /\ closed' = closed \cup {s}

\* send_json to the connections in S fails for some of them, which are removed.
SendTo(S) == \E lost \in SUBSET (S \cap connections) : connections' = connections \ lost

-----------------------------------------------------------------------------
(* The endpoint *)

\* A ticket was redeemed: accept, register, and await the first message out.
OpenSocket(s) ==
  /\ endpoint[s] = "absent"
  /\ endpoint' = [endpoint EXCEPT ![s] = "greeting"]
  /\ connections' = connections \cup {s}
  /\ pongs' = pongs \cup {s}
  /\ UNCHANGED <<message, heartbeat, subs, silent, closed, refusable, evicting>>

Greet(s) ==
  /\ endpoint[s] = "greeting"
  /\ SendTo({s})
  /\ heartbeat' = [heartbeat EXCEPT ![s] = "sleeping"]
  /\ endpoint' = [endpoint EXCEPT ![s] = "reading"]
  /\ UNCHANGED <<message, subs, pongs, silent, closed, refusable, evicting>>

\* A message arrives and its sender's identity is checked, which awaits.
ReceiveText(s, m) ==
  /\ endpoint[s] = "reading" /\ s \notin closed
  /\ message' = [message EXCEPT ![s] = m]
  /\ endpoint' = [endpoint EXCEPT ![s] = "checking"]
  /\ UNCHANGED <<heartbeat, refusable, evicting>>
  /\ UNCHANGED registryVars

\* More than 64 KiB.
ReceiveOversized(s) ==
  /\ endpoint[s] = "reading" /\ s \notin closed
  /\ connections' = connections \ {s}
  /\ closed' = closed \cup {s}
  /\ endpoint' = [endpoint EXCEPT ![s] = "leaving"]
  /\ UNCHANGED <<message, heartbeat, subs, pongs, silent, refusable, evicting>>

\* The check refuses, or fails, or cannot be made.
RefuseMessage(s) ==
  /\ endpoint[s] = "checking"
  /\ CloseAndForget(s)
  /\ endpoint' = [endpoint EXCEPT ![s] = "leaving"]
  /\ UNCHANGED <<message, heartbeat, refusable, evicting>>

\* The check passed while the identity was valid; the task resumes later.
AdmitMessage(s) ==
  /\ endpoint[s] = "checking" /\ s \notin refusable
  /\ endpoint' = [endpoint EXCEPT ![s] = "admitted"]
  /\ UNCHANGED <<message, heartbeat, refusable, evicting>>
  /\ UNCHANGED registryVars

\* Nothing asks again whether the connection is still registered.
HandleMessage(s) ==
  /\ endpoint[s] = "admitted"
  /\ IF message[s] = <<"pong">>
     THEN pongs' = pongs \cup {s} /\ silent' = silent \ {s}
     ELSE UNCHANGED <<pongs, silent>>
  /\ subs' = [subs EXCEPT ![s] =
       (@ \cup {ch \in Channel : message[s] = <<"subscribe", ch>>})
          \ {ch \in Channel : message[s] = <<"unsubscribe", ch>>}]
  /\ SendTo({s})
  /\ message' = [message EXCEPT ![s] = <<"none">>]
  /\ endpoint' = [endpoint EXCEPT ![s] = "reading"]
  /\ UNCHANGED <<heartbeat, closed, refusable, evicting>>

\* receive_text raises once the socket is closed.
ReadFails(s) ==
  /\ endpoint[s] = "reading" /\ s \in closed
  /\ endpoint' = [endpoint EXCEPT ![s] = "leaving"]
  /\ UNCHANGED <<message, heartbeat, refusable, evicting>>
  /\ UNCHANGED registryVars

\* Mutant of Leave: what was closed by others is not cleaned up again.
Leave_IfRegistered(s) ==
  /\ endpoint[s] = "leaving"
  /\ IF s \in connections
     THEN Forget(s) /\ connections' = connections \ {s}
     ELSE UNCHANGED <<subs, pongs, silent, connections>>
  /\ heartbeat' = [heartbeat EXCEPT ![s] = "gone"]
  /\ endpoint' = [endpoint EXCEPT ![s] = "gone"]
  /\ UNCHANGED <<message, closed, refusable, evicting>>

\* finally: the heartbeat is cancelled and awaited, then everything is removed.
Leave(s) ==
  /\ endpoint[s] = "leaving"
  /\ Forget(s)
  /\ connections' = connections \ {s}
  /\ heartbeat' = [heartbeat EXCEPT ![s] = "gone"]
  /\ endpoint' = [endpoint EXCEPT ![s] = "gone"]
  /\ UNCHANGED <<message, closed, refusable, evicting>>

-----------------------------------------------------------------------------
(* The heartbeat *)

Wake(s) ==
  /\ heartbeat[s] = "sleeping"
  /\ heartbeat' = [heartbeat EXCEPT ![s] = IF s \in connections THEN "checking" ELSE "gone"]
  /\ UNCHANGED <<endpoint, message, refusable, evicting>>
  /\ UNCHANGED registryVars

RefuseHeartbeat(s) ==
  /\ heartbeat[s] = "checking"
  /\ CloseAndForget(s)
  /\ heartbeat' = [heartbeat EXCEPT ![s] = "gone"]
  /\ UNCHANGED <<endpoint, message, refusable, evicting>>

\* The ping is sent; on failure the loop ends.
Ping(s) ==
  /\ heartbeat[s] = "checking" /\ s \notin refusable
  /\ SendTo({s})
  /\ heartbeat' = [heartbeat EXCEPT ![s] = IF s \in connections' THEN "sleeping" ELSE "gone"]
  /\ UNCHANGED <<endpoint, message, subs, pongs, silent, closed, refusable, evicting>>

-----------------------------------------------------------------------------
(* The others *)

\* The client goes away, or says nothing for 90 seconds, or may not stay.
ClientCloses(s) ==
  /\ endpoint[s] \notin {"absent", "gone"} /\ s \notin closed
  /\ closed' = closed \cup {s}
  /\ UNCHANGED <<endpoint, message, heartbeat, connections, subs, pongs, silent, refusable,
                 evicting>>

FallSilent(s) ==
  /\ s \in pongs \ silent
  /\ silent' = silent \cup {s}
  /\ UNCHANGED <<endpoint, message, heartbeat, connections, subs, pongs, closed, refusable,
                 evicting>>

Revoke(s) ==
  /\ endpoint[s] # "absent" /\ s \notin refusable
  /\ refusable' = refusable \cup {s}
  /\ UNCHANGED <<endpoint, message, heartbeat, evicting>>
  /\ UNCHANGED registryVars

\* _stale_ws_eviction_loop reads the stale connections once, then closes one
\* after the other.
FindStale ==
  /\ evicting = {} /\ silent # {}
  /\ evicting' = silent
  /\ UNCHANGED <<endpoint, message, heartbeat, refusable>>
  /\ UNCHANGED registryVars

Evict(s) ==
  /\ s \in evicting
  /\ CloseAndForget(s)
  /\ evicting' = evicting \ {s}
  /\ UNCHANGED <<endpoint, message, heartbeat, refusable>>

\* publish to the subscribers of a channel.
Broadcast(ch) ==
  /\ SendTo({s \in Socket : ch \in subs[s]})
  /\ UNCHANGED <<endpoint, message, heartbeat, subs, pongs, silent, closed, refusable, evicting>>

RealtimeNext ==
  \/ \E s \in Socket :
       \/ OpenSocket(s) \/ Greet(s)
       \/ \E m \in ClientMessage : ReceiveText(s, m)
       \/ ReceiveOversized(s) \/ RefuseMessage(s) \/ AdmitMessage(s) \/ HandleMessage(s)
       \/ ReadFails(s) \/ Leave(s)
       \/ Wake(s) \/ RefuseHeartbeat(s) \/ Ping(s)
       \/ ClientCloses(s) \/ FallSilent(s) \/ Revoke(s) \/ Evict(s)
  \/ FindStale
  \/ \E ch \in Channel : Broadcast(ch)

RealtimeSpec == RealtimeInit /\ [][RealtimeNext]_realtimeVars

-----------------------------------------------------------------------------
(* Properties *)

RealtimeTypeOK ==
  /\ endpoint \in [Socket -> {"absent", "greeting", "reading", "checking", "admitted",
                              "leaving", "gone"}]
  /\ message \in [Socket -> ClientMessage \cup {<<"none">>}]
  /\ heartbeat \in [Socket -> {"absent", "sleeping", "checking", "gone"}]
  /\ subs \in [Socket -> SUBSET Channel]
  /\ connections \subseteq Socket /\ pongs \subseteq Socket /\ silent \subseteq pongs
  /\ closed \subseteq Socket /\ refusable \subseteq Socket /\ evicting \subseteq Socket

\* realtime.py: "On disconnect: cleanup connections + subscriptions".  Whoever
\* evicted or refused a connection, and however its last message came to be
\* handled after that, nothing of it is left in any registry, and no heartbeat
\* runs, once its endpoint has returned.
NothingLeftBehind ==
  \A s \in Socket :
    endpoint[s] \in {"absent", "gone"} =>
      /\ s \notin connections /\ s \notin pongs /\ subs[s] = {}
      /\ heartbeat[s] = endpoint[s]
=============================================================================
