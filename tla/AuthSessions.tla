----------------------------- MODULE AuthSessions -----------------------------
(***************************************************************************)
(* Sessions of a user: login, refresh and logout (backend/api/routes/      *)
(* auth.py), the tokens and the keys in Redis they are checked against     *)
(* (backend/security/auth.py), and the single-use tickets that open a      *)
(* WebSocket (backend/security/websocket_tickets.py).                      *)
(*                                                                         *)
(* A request is several round trips to Redis and the database; others run  *)
(* between any two of them, and it may die after any of them.  The n-th    *)
(* login or refresh of a session issues the access and the refresh token   *)
(* numbered n.  Tokens live for minutes and days, their keys in Redis as   *)
(* long: neither expires here.                                             *)
(***************************************************************************)
EXTENDS Integers, FiniteSets

CONSTANTS AuthRequest,
          Sid,           \* sessions, one per login
          MaxIssued,     \* bound on the token pairs of a session
          MaxTickets     \* bound on its tickets

ASSUME AuthAssumption == MaxIssued \in Nat \ {0} /\ MaxTickets \in Nat

VARIABLES
  issued,      \* issued[sid]: token pairs issued; none before login
  usedRefresh, \* refresh-used: keys, as <<sid, n>>
  blacklist,   \* blacklist: keys, as <<kind, sid, n>>
  revokedSids, \* session-revoked: keys
  userActive,  \* the user exists and is active
  exchange,    \* exchange[q]: <<what, sid, n>> a request is doing
  ticketed,    \* ticketed[sid]: tickets issued
  tickets,     \* ws-ticket: keys, as <<sid, n of the access token, number>>
  opened       \* <<ticket, request>>: the sockets accepted

authVars == <<issued, usedRefresh, blacklist, revokedSids, userActive, exchange,
              ticketed, tickets, opened>>

NoExchange == <<"none">>

AuthInit ==
  /\ issued = [sid \in Sid |-> 0]
  /\ usedRefresh = {} /\ blacklist = {} /\ revokedSids = {}
  /\ userActive = TRUE
  /\ exchange = [q \in AuthRequest |-> NoExchange]
  /\ ticketed = [sid \in Sid |-> 0]
  /\ tickets = {} /\ opened = {}

Proceed(q, doing) == exchange' = [exchange EXCEPT ![q] = doing]

-----------------------------------------------------------------------------
(* Tokens *)

Login(sid) ==
  /\ issued[sid] = 0 /\ userActive
  /\ issued' = [issued EXCEPT ![sid] = 1]
  /\ UNCHANGED <<usedRefresh, blacklist, revokedSids, userActive, exchange, ticketed,
                 tickets, opened>>

\* decode_access_token and verify_refresh_token: signed, its session not
\* revoked, itself not blacklisted.
Accepted(kind, sid, n) ==
  /\ n \in 1 .. issued[sid]
  /\ sid \notin revokedSids
  /\ <<kind, sid, n>> \notin blacklist

\* get_current_active_user: the token, then the user it names.
CurrentUser(sid, n) == Accepted("access", sid, n) /\ userActive

VerifyRefresh(q, sid, n) ==
  /\ exchange[q] = NoExchange
  /\ Accepted("refresh", sid, n)
  /\ Proceed(q, <<"verified", sid, n>>)
  /\ UNCHANGED <<issued, usedRefresh, blacklist, revokedSids, userActive, ticketed,
                 tickets, opened>>

\* Mutant of Unclaimed: the key is not looked at, only the blacklist was.
Unclaimed_Blacklist(sid, n) == <<"refresh", sid, n>> \notin blacklist

\* SET refresh-used:jti NX
Unclaimed(sid, n) == <<sid, n>> \notin usedRefresh

\* The user was loaded after the token was verified.
ClaimRefresh(q, sid, n) ==
  /\ exchange[q] = <<"verified", sid, n>>
  /\ userActive
  /\ Unclaimed(sid, n)
  /\ usedRefresh' = usedRefresh \cup {<<sid, n>>}
  /\ Proceed(q, <<"claimed", sid, n>>)
  /\ UNCHANGED <<issued, blacklist, revokedSids, userActive, ticketed, tickets, opened>>

IssueTokens(q, sid, n) ==
  /\ exchange[q] = <<"claimed", sid, n>> /\ issued[sid] < MaxIssued
  /\ blacklist' = blacklist \cup {<<"refresh", sid, n>>}
  /\ issued' = [issued EXCEPT ![sid] = @ + 1]
  /\ Proceed(q, NoExchange)
  /\ UNCHANGED <<usedRefresh, revokedSids, userActive, ticketed, tickets, opened>>

\* The session's key first, the access token's own key after it.
RevokeSession(q, sid, n) ==
  /\ exchange[q] = NoExchange
  /\ CurrentUser(sid, n)
  /\ revokedSids' = revokedSids \cup {sid}
  /\ Proceed(q, <<"revoked", sid, n>>)
  /\ UNCHANGED <<issued, usedRefresh, blacklist, userActive, ticketed, tickets, opened>>

BlacklistAccess(q, sid, n) ==
  /\ exchange[q] = <<"revoked", sid, n>>
  /\ blacklist' = blacklist \cup {<<"access", sid, n>>}
  /\ Proceed(q, NoExchange)
  /\ UNCHANGED <<issued, usedRefresh, revokedSids, userActive, ticketed, tickets, opened>>

\* An error response, at any await: Redis or the database fails, the user is
\* inactive, the token was consumed.
FailRequest(q) ==
  /\ exchange[q] # NoExchange
  /\ Proceed(q, NoExchange)
  /\ UNCHANGED <<issued, usedRefresh, blacklist, revokedSids, userActive, ticketed,
                 tickets, opened>>

DeactivateUser ==
  /\ userActive
  /\ userActive' = FALSE
  /\ UNCHANGED <<issued, usedRefresh, blacklist, revokedSids, exchange, ticketed,
                 tickets, opened>>

-----------------------------------------------------------------------------
(* WebSocket tickets *)

IssueTicket(sid, n) ==
  /\ CurrentUser(sid, n)
  /\ ticketed[sid] < MaxTickets
  /\ ticketed' = [ticketed EXCEPT ![sid] = @ + 1]
  /\ tickets' = tickets \cup {<<sid, n, ticketed[sid] + 1>>}
  /\ UNCHANGED <<issued, usedRefresh, blacklist, revokedSids, userActive, exchange, opened>>

ExpireTicket(t) ==
  /\ t \in tickets
  /\ tickets' = tickets \ {t}
  /\ UNCHANGED <<issued, usedRefresh, blacklist, revokedSids, userActive, exchange,
                 ticketed, opened>>

\* GETDEL, and validate_principal after it.
TakeTicket(q, t) ==
  /\ exchange[q] = NoExchange
  /\ t \in tickets
  /\ tickets' = tickets \ {t}
  /\ Proceed(q, <<"took", t>>)
  /\ UNCHANGED <<issued, usedRefresh, blacklist, revokedSids, userActive, ticketed, opened>>

AcceptSocket(q, t) ==
  /\ exchange[q] = <<"took", t>>
  /\ Accepted("access", t[1], t[2]) /\ userActive
  /\ opened' = opened \cup {<<t, q>>}
  /\ Proceed(q, NoExchange)
  /\ UNCHANGED <<issued, usedRefresh, blacklist, revokedSids, userActive, ticketed, tickets>>

AuthNext ==
  \/ \E q \in AuthRequest, sid \in Sid, n \in 1 .. MaxIssued :
       \/ VerifyRefresh(q, sid, n) \/ ClaimRefresh(q, sid, n) \/ IssueTokens(q, sid, n)
       \/ RevokeSession(q, sid, n) \/ BlacklistAccess(q, sid, n)
  \/ \E q \in AuthRequest : FailRequest(q)
  \/ \E sid \in Sid : Login(sid) \/ \E n \in 1 .. MaxIssued : IssueTicket(sid, n)
  \/ \E t \in Sid \X (1 .. MaxIssued) \X (1 .. MaxTickets) :
       ExpireTicket(t) \/ \E q \in AuthRequest : TakeTicket(q, t) \/ AcceptSocket(q, t)
  \/ DeactivateUser

AuthSpec == AuthInit /\ [][AuthNext]_authVars

-----------------------------------------------------------------------------
(* Properties *)

Ticket == Sid \X (1 .. MaxIssued) \X (1 .. MaxTickets)

AuthTypeOK ==
  /\ issued \in [Sid -> 0 .. MaxIssued]
  /\ usedRefresh \subseteq Sid \X (1 .. MaxIssued)
  /\ blacklist \subseteq {"access", "refresh"} \X Sid \X (1 .. MaxIssued)
  /\ revokedSids \subseteq Sid /\ userActive \in BOOLEAN
  /\ exchange \in [AuthRequest ->
       {NoExchange} \cup ({"verified", "claimed", "revoked"} \X Sid \X (1 .. MaxIssued))
                    \cup ({"took"} \X Ticket)]
  /\ ticketed \in [Sid -> 0 .. MaxTickets]
  /\ tickets \subseteq Ticket /\ opened \subseteq Ticket \X AuthRequest

\* routes/auth.py, "Refresh token has already been consumed": however refreshes
\* of one session race, it never forks.  Only the newest refresh token may still
\* be spent, and not while a request that spent it has yet to answer; only one
\* request is ever in that place.
OneLiveRefresh ==
  \A sid \in Sid :
    /\ \A n \in 1 .. issued[sid] : <<sid, n>> \notin usedRefresh => n = issued[sid]
    /\ \A q \in AuthRequest, n \in 1 .. MaxIssued :
         exchange[q] = <<"claimed", sid, n>> =>
           /\ n = issued[sid] /\ <<sid, n>> \in usedRefresh
           /\ \A p \in AuthRequest \ {q}, m \in 1 .. MaxIssued :
                exchange[p] # <<"claimed", sid, m>>
=============================================================================
