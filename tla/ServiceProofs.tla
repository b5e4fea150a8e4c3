---------------------------- MODULE ServiceProofs ----------------------------
(***************************************************************************)
(* Proofs about the services around the workflow runtime, for any number   *)
(* of the actors, rows and keys that the suite MCServices bounds: freezes, *)
(* policy versions, decisions, realtime connections, AI executions,        *)
(* operator logins, source commands, the recovery sweep, voice messages,   *)
(* leads, notifications, conversations and retention.  One section per     *)
(* module; each proves an inductive invariant first, one step per action.  *)
(***************************************************************************)
EXTENDS GovernanceFreeze, GovernancePolicies, GovernanceDecisions, RealtimeSessions,
        AIExecution, AuthSessions, SourceSync, WorkflowIntegrity, VoiceIngest, LeadDesk,
        NoticeFeed, SophiaConversation, TranscriptRetention,
        FiniteSetTheorems, SequenceTheorems, TLAPS

-----------------------------------------------------------------------------
(* GovernanceFreeze.  Invariant: what froze a call's scopes when it began, and *)
(* was not lifted since, is still ahead of it.                             *)

ScopeList == {<<>>} \cup {<<s>> : s \in Scope} \cup {<<s, t>> : s, t \in Scope}

Call == [op : {"none", "check", "activate"}, key : FreezeKey \cup {"none"}, scope : Scope,
         left : ScopeList,
         step : {"activated", "killed", "deactivated", "passed", "done"},
         keys : SUBSET FreezeKey, live : SUBSET FreezeKey, doomed : BOOLEAN]

\* The scopes a call looks at after the one it is looking at.
Later(c) == {s \in Scope : \E t \in Scope : c.left = <<t, s>>}

\* A call that goes on has scopes left, one that is through has none, and an
\* activation has a key.
CallAdvances(c) ==
  /\ c.op = "activate" => c.key \in FreezeKey
  /\ c.step \in {"activated", "killed", "deactivated"} => c.left # <<>>
  /\ c.step = "passed" => c.left = <<>>

\* A key that froze the call's scopes when it began, and was not deactivated
\* since, is still to be met: it freezes a scope yet to be read, or the one being
\* read, whose keys are not read yet or include it.
WillMeetKey(c, k) ==
  \/ \E s \in Later(c) : <<k, s>> \in activated
  \/ /\ c.left # <<>> /\ <<k, Head(c.left)>> \in activated
     /\ c.step = "activated" \/ k \in c.keys

\* And so is a kill switch.
WillMeetKill(c) ==
  \/ \E s \in Later(c) : s \in killed
  \/ c.left # <<>> /\ Head(c.left) \in killed /\ c.step \in {"activated", "killed"}

WillMeet(c) ==
  c.step # "done" =>
    /\ \A k \in c.live \ deactivated : WillMeetKey(c, k)
    /\ c.doomed => WillMeetKill(c)

FreezeInv ==
  /\ FreezeTypeOK
  /\ \A g \in Gatekeeper : CallAdvances(gate[g]) /\ WillMeet(gate[g])

-----------------------------------------------------------------------------
(* Lists of one or two scopes. *)

\* A list of scopes is empty or has one or two.
LEMMA ListCases ==
  ASSUME NEW x \in ScopeList
  PROVE  x = <<>> \/ (\E s \in Scope : x = <<s>>) \/ (\E s, t \in Scope : x = <<s, t>>)
BY DEF ScopeList

\* A list of one scope.
LEMMA OneFacts ==
  ASSUME NEW s
  PROVE  /\ <<s>> # <<>> /\ Head(<<s>>) = s /\ Tail(<<s>>) = <<>>
         /\ \A t, u : <<s>> # <<t, u>>
OBVIOUS

\* A list of two scopes.
LEMMA TwoFacts ==
  ASSUME NEW s, NEW t
  PROVE  /\ <<s, t>> # <<>> /\ Head(<<s, t>>) = s /\ Tail(<<s, t>>) = <<t>>
         /\ \A u, v : <<s, t>> = <<u, v>> => u = s /\ v = t
OBVIOUS

\* The types, call by call.
LEMMA TypeByCall ==
  FreezeTypeOK <=> /\ activated \subseteq FreezeKey \X Scope
                   /\ deactivated \subseteq FreezeKey
                   /\ killed \subseteq Scope
                   /\ gate \in [Gatekeeper -> Call]
BY DEF FreezeTypeOK, Call, ScopeList

-----------------------------------------------------------------------------
(* One call moves and the log stays, or the log grows and the calls stay.   *)

\* A call with one field changed, and with several.
LEMMA CallWithOne ==
  ASSUME NEW d \in Call, NEW l \in ScopeList, NEW k \in SUBSET FreezeKey,
         NEW st \in {"activated", "killed", "deactivated", "passed", "done"}
  PROVE  /\ [d EXCEPT !.left = l] =
              [op |-> d.op, key |-> d.key, scope |-> d.scope, left |-> l, step |-> d.step,
               keys |-> d.keys, live |-> d.live, doomed |-> d.doomed]
         /\ [d EXCEPT !.step = st] =
              [op |-> d.op, key |-> d.key, scope |-> d.scope, left |-> d.left, step |-> st,
               keys |-> d.keys, live |-> d.live, doomed |-> d.doomed]
         /\ [d EXCEPT !.keys = k] =
              [op |-> d.op, key |-> d.key, scope |-> d.scope, left |-> d.left, step |-> d.step,
               keys |-> k, live |-> d.live, doomed |-> d.doomed]
         /\ {[d EXCEPT !.left = l], [d EXCEPT !.step = st], [d EXCEPT !.keys = k]} \subseteq Call
<1>1. [d EXCEPT !.left = l] =
        [op |-> d.op, key |-> d.key, scope |-> d.scope, left |-> l, step |-> d.step,
         keys |-> d.keys, live |-> d.live, doomed |-> d.doomed]
  BY DEF Call
<1>2. [d EXCEPT !.step = st] =
        [op |-> d.op, key |-> d.key, scope |-> d.scope, left |-> d.left, step |-> st,
         keys |-> d.keys, live |-> d.live, doomed |-> d.doomed]
  BY DEF Call
<1>3. [d EXCEPT !.keys = k] =
        [op |-> d.op, key |-> d.key, scope |-> d.scope, left |-> d.left, step |-> d.step,
         keys |-> k, live |-> d.live, doomed |-> d.doomed]
  BY DEF Call
<1>4. [d EXCEPT !.left = l] \in Call /\ [d EXCEPT !.step = st] \in Call
  BY DEF Call
<1>5. [d EXCEPT !.keys = k] \in Call
  BY DEF Call
<1> QED BY <1>1, <1>2, <1>3, <1>4, <1>5

\* A call that has read goes to its next step and keeps the rest.
LEMMA CallRead ==
  ASSUME NEW d \in Call, NEW k \in SUBSET FreezeKey,
         NEW st \in {"activated", "killed", "deactivated", "passed", "done"}
  PROVE  [d EXCEPT !.step = st, !.keys = k] =
           [op |-> d.op, key |-> d.key, scope |-> d.scope, left |-> d.left, step |-> st,
            keys |-> k, live |-> d.live, doomed |-> d.doomed]
<1> DEFINE a == [d EXCEPT !.step = st]
<1>1. d.left \in ScopeList
  BY DEF Call
<1>2. a \in Call
  BY <1>1, CallWithOne
<1>5. a = [op |-> d.op, key |-> d.key, scope |-> d.scope, left |-> d.left, step |-> st,
              keys |-> d.keys, live |-> d.live, doomed |-> d.doomed]
  BY <1>1, CallWithOne
<1>3. [d EXCEPT !.step = st, !.keys = k] = [a EXCEPT !.keys = k]
  OBVIOUS
<1> HIDE DEF a
<1>4. [a EXCEPT !.keys = k] =
        [op |-> a.op, key |-> a.key, scope |-> a.scope, left |-> a.left, step |-> a.step,
         keys |-> k, live |-> a.live, doomed |-> a.doomed]
  BY <1>2 DEF Call
<1> QED BY <1>3, <1>4, <1>5

\* Where the log stays, what a call will meet stays.
LEMMA SameMeeting ==
  ASSUME NEW h, NEW c, gate'[h] = c, CallAdvances(c), WillMeet(c),
         UNCHANGED <<activated, deactivated, killed>>
  PROVE  (CallAdvances(gate[h]) /\ WillMeet(gate[h]))'
<1>1. Later(gate[h])' = Later(c)
  BY DEF Later
<1>2. \A k : WillMeetKey(gate[h], k)' <=> WillMeetKey(c, k)
  BY <1>1 DEF WillMeetKey
<1>3. WillMeetKill(gate[h])' <=> WillMeetKill(c)
  BY <1>1 DEF WillMeetKill
<1> QED BY <1>2, <1>3 DEF CallAdvances, WillMeet

\* One call moves, the log stays.
LEMMA CallMoves ==
  ASSUME FreezeInv, NEW g \in Gatekeeper, NEW c \in Call,
         gate' = [gate EXCEPT ![g] = c], UNCHANGED <<activated, deactivated, killed>>,
         CallAdvances(c), WillMeet(c)
  PROVE  FreezeInv'
<1>1. gate \in [Gatekeeper -> Call]
  BY TypeByCall DEF FreezeInv
<1>2. FreezeTypeOK'
  <2>1. gate' \in [Gatekeeper -> Call]
    BY <1>1
  <2> QED BY <2>1, TypeByCall DEF FreezeInv, FreezeTypeOK, Call, ScopeList
<1>3. ASSUME NEW h \in Gatekeeper PROVE (CallAdvances(gate[h]) /\ WillMeet(gate[h]))'
  <2>1. gate'[h] = IF h = g THEN c ELSE gate[h]
    BY <1>1
  <2>2. CallAdvances(gate[h]) /\ WillMeet(gate[h])
    BY DEF FreezeInv
  <2>3. CASE h = g
    <3>1. gate'[h] = c
      BY <2>1, <2>3
    <3> QED BY <3>1, SameMeeting
  <2>4. CASE h # g
    <3>1. gate'[h] = gate[h]
      BY <2>1, <2>4
    <3> QED BY <2>2, <3>1, SameMeeting
  <2> QED BY <2>3, <2>4
<1> QED BY <1>2, <1>3 DEF FreezeInv

\* The log grows, the calls stay.
LEMMA LogGrows ==
  ASSUME FreezeInv, UNCHANGED gate, FreezeTypeOK',
         activated \subseteq activated', deactivated \subseteq deactivated',
         killed \subseteq killed'
  PROVE  FreezeInv'
<1>1. ASSUME NEW g \in Gatekeeper PROVE (CallAdvances(gate[g]) /\ WillMeet(gate[g]))'
  <2>1. CallAdvances(gate[g]) /\ WillMeet(gate[g])
    BY DEF FreezeInv
  <2> QED BY <2>1 DEF CallAdvances, WillMeet, WillMeetKey, WillMeetKill, Later
<1> QED BY <1>1 DEF FreezeInv

\* A call that has not begun.
LEMMA IdleIsCall == Idle \in Call /\ CallAdvances(Idle) /\ WillMeet(Idle)
BY FreezeAssumption DEF Idle, Call, ScopeList, CallAdvances, WillMeet

\* The log's relation to a call that begins, whatever scopes it is to read.
LEMMA BeginInv ==
  ASSUME FreezeInv, NEW g \in Gatekeeper, NEW op \in {"check", "activate"},
         NEW k \in FreezeKey \cup {"none"}, op = "activate" => k \in FreezeKey,
         NEW s \in Scope, NEW scopes \in ScopeList,
         NEW matter \in SUBSET Scope, Begin(g, op, k, s, scopes, matter),
         scopes # <<>>,
         \A t \in matter : t = Head(scopes) \/ \E u \in Scope : scopes = <<u, t>>
  PROVE  FreezeInv'
<1> DEFINE c == [op |-> op, key |-> k, scope |-> s, left |-> scopes, step |-> "activated",
                 keys |-> {}, live |-> LiveKeys(matter), doomed |-> matter \cap killed # {}]
<1>1. c \in Call
  BY DEF Call, LiveKeys
<1>2. CallAdvances(c)
  BY DEF CallAdvances
<1>3. WillMeet(c)
  <2>1. c.left = scopes /\ c.step = "activated" /\ c.live = LiveKeys(matter)
        /\ c.doomed = (matter \cap killed # {})
    OBVIOUS
  <2> HIDE DEF c
  <2>2. ASSUME NEW j \in c.live PROVE WillMeetKey(c, j)
    <3>1. PICK t \in matter : <<j, t>> \in activated
      BY <2>1 DEF LiveKeys
    <3> QED BY <2>1, <3>1 DEF WillMeetKey, Later
  <2>3. c.doomed => WillMeetKill(c)
    BY <2>1 DEF WillMeetKill, Later
  <2> QED BY <2>2, <2>3 DEF WillMeet
<1>4. gate' = [gate EXCEPT ![g] = c] /\ UNCHANGED <<activated, deactivated, killed>>
  BY DEF Begin
<1> HIDE DEF c
<1> QED BY <1>1, <1>2, <1>3, <1>4, CallMoves

\* A check begins.
LEMMA BeginCheckInv ==
  ASSUME FreezeInv, NEW g \in Gatekeeper, NEW s \in Scope, BeginCheck(g, s)
  PROVE  FreezeInv'
<1>1. ScopesToCheck(s) \in ScopeList /\ ScopesToCheck(s) # <<>>
  BY FreezeAssumption, OneFacts, TwoFacts DEF ScopesToCheck, ScopeList
<1>2. \A t \in {Global, s} : t = Head(ScopesToCheck(s)) \/ \E u \in Scope : ScopesToCheck(s) = <<u, t>>
  BY FreezeAssumption, OneFacts, TwoFacts DEF ScopesToCheck
<1>3. {Global, s} \in SUBSET Scope
  BY FreezeAssumption
<1>4. Begin(g, "check", "none", s, ScopesToCheck(s), {Global, s})
  BY DEF BeginCheck
<1>5. "check" \in {"check", "activate"} /\ "none" \in FreezeKey \cup {"none"}
      /\ ("check" = "activate" => "none" \in FreezeKey)
  OBVIOUS
<1> QED BY <1>1, <1>2, <1>3, <1>4, <1>5, BeginInv, Zenon

\* An activation begins.
LEMMA BeginActivateInv ==
  ASSUME FreezeInv, NEW g \in Gatekeeper, NEW k \in FreezeKey, NEW s \in Scope,
         BeginActivate(g, k, s)
  PROVE  FreezeInv'
<1>1. <<s>> \in ScopeList /\ <<s>> # <<>> /\ Head(<<s>>) = s
  BY OneFacts DEF ScopeList
<1>2. \A t \in {s} : t = Head(<<s>>) \/ \E u \in Scope : <<s>> = <<u, t>>
  BY <1>1
<1>3. {s} \in SUBSET Scope
  OBVIOUS
<1>4. Begin(g, "activate", k, s, <<s>>, {s})
  BY DEF BeginActivate
<1>5. "activate" \in {"check", "activate"} /\ k \in FreezeKey \cup {"none"}
  OBVIOUS
<1> QED BY <1>1, <1>2, <1>3, <1>4, <1>5, BeginInv, Zenon

-----------------------------------------------------------------------------
(* The three reads *)

\* The activations of a scope are read.
LEMMA ReadActivatedInv ==
  ASSUME FreezeInv, NEW g \in Gatekeeper, ReadActivated(g)
  PROVE  FreezeInv'
<1> DEFINE d == gate[g]
           found == {k \in FreezeKey : <<k, Head(d.left)>> \in activated}
           c == [op |-> d.op, key |-> d.key, scope |-> d.scope, left |-> d.left,
                 step |-> "killed", keys |-> found, live |-> d.live, doomed |-> d.doomed]
<1>1. d \in Call /\ CallAdvances(d) /\ WillMeet(d) /\ d.step = "activated"
  BY TypeByCall DEF FreezeInv, ReadActivated
<1>2. gate' = [gate EXCEPT ![g] = c] /\ UNCHANGED <<activated, deactivated, killed>>
  <2>1. [d EXCEPT !.step = "killed", !.keys = found] = c
    <3>1. found \in SUBSET FreezeKey /\ d.left \in ScopeList /\ d \in Call
      BY <1>1 DEF Call
    <3>2. "killed" \in {"activated", "killed", "deactivated", "passed", "done"}
      OBVIOUS
    <3> HIDE DEF d, found
    <3>3. [d EXCEPT !.step = "killed", !.keys = found] =
            [op |-> d.op, key |-> d.key, scope |-> d.scope, left |-> d.left, step |-> "killed",
             keys |-> found, live |-> d.live, doomed |-> d.doomed]
      BY <3>1, <3>2, CallRead, Zenon
    <3> QED BY <3>3, Zenon
  <2>2. gate' = [gate EXCEPT ![g] = [d EXCEPT !.step = "killed", !.keys = found]]
    BY DEF ReadActivated
  <2> QED BY <2>1, <2>2 DEF ReadActivated
<1>3. c \in Call /\ CallAdvances(c)
  BY <1>1 DEF Call, CallAdvances
<1>4. WillMeet(c)
  BY <1>1 DEF WillMeet, WillMeetKey, WillMeetKill, Later, Call
<1> HIDE DEF c
<1> QED BY <1>2, <1>3, <1>4, CallMoves

\* The kill switches of a scope are read.
LEMMA ReadKilledInv ==
  ASSUME FreezeInv, NEW g \in Gatekeeper, ReadKilled(g)
  PROVE  FreezeInv'
<1> DEFINE d == gate[g]
           c == [op |-> d.op, key |-> d.key, scope |-> d.scope, left |-> d.left,
                 step |-> "deactivated", keys |-> d.keys, live |-> d.live, doomed |-> d.doomed]
<1>1. d \in Call /\ CallAdvances(d) /\ WillMeet(d) /\ d.step = "killed"
  BY TypeByCall DEF FreezeInv, ReadKilled
<1>2. UNCHANGED <<activated, deactivated, killed>>
  BY DEF ReadKilled
<1>3. CASE Head(d.left) \in killed
  BY <1>2, <1>3, IdleIsCall, CallMoves DEF ReadKilled
<1>4. CASE Head(d.left) \notin killed
  <2>1. gate' = [gate EXCEPT ![g] = c]
    <3>1. [d EXCEPT !.step = "deactivated"] = c
      BY <1>1 DEF Call
    <3>2. gate' = [gate EXCEPT ![g] = [d EXCEPT !.step = "deactivated"]]
      BY <1>4 DEF ReadKilled
    <3> QED BY <3>1, <3>2
  <2>2. c \in Call /\ CallAdvances(c)
    BY <1>1 DEF Call, CallAdvances
  <2>3. WillMeet(c)
    BY <1>1, <1>4 DEF WillMeet, WillMeetKey, WillMeetKill, Later, Call
  <2> HIDE DEF c
  <2> QED BY <1>2, <2>1, <2>2, <2>3, CallMoves
<1> QED BY <1>3, <1>4

\* The deactivation of a key is read.
LEMMA ReadDeactivatedInv ==
  ASSUME FreezeInv, NEW g \in Gatekeeper, ReadDeactivated(g)
  PROVE  FreezeInv'
<1> DEFINE d == gate[g]
           rest == Tail(d.left)
           next == IF rest = <<>> THEN "passed" ELSE "activated"
           c == [op |-> d.op, key |-> d.key, scope |-> d.scope, left |-> rest, step |-> next,
                 keys |-> d.keys, live |-> d.live, doomed |-> d.doomed]
<1>1. d \in Call /\ CallAdvances(d) /\ WillMeet(d) /\ d.step = "deactivated"
  BY TypeByCall DEF FreezeInv, ReadDeactivated
<1>2. UNCHANGED <<activated, deactivated, killed>>
  BY DEF ReadDeactivated
<1>3. CASE Verdict(g)
  BY <1>2, <1>3, IdleIsCall, CallMoves DEF ReadDeactivated
<1>4. CASE ~ Verdict(g)
  <2>2. d.left # <<>> /\ d.left \in ScopeList
    BY <1>1 DEF CallAdvances, Call
  <2>3. \/ \E s \in Scope : d.left = <<s>> /\ rest = <<>> /\ Later(d) = {}
        \/ \E s, t \in Scope : d.left = <<s, t>> /\ rest = <<t>> /\ Later(d) = {t}
    <3>1. CASE \E s \in Scope : d.left = <<s>>
      BY <3>1, OneFacts DEF Later
    <3>2. CASE \E s, t \in Scope : d.left = <<s, t>>
      BY <3>2, TwoFacts DEF Later
    <3> QED BY <2>2, <3>1, <3>2, ListCases
  <2>6. gate' = [gate EXCEPT ![g] = c]
    <3>1. [d EXCEPT !.left = rest, !.step = next] = c
      <4>1. rest \in ScopeList
        BY <2>3 DEF ScopeList
      <4>3. d \in Call
        BY <1>1
      <4> DEFINE e == [d EXCEPT !.left = rest]
      <4>4. /\ e \in Call
            /\ e = [op |-> d.op, key |-> d.key, scope |-> d.scope, left |-> rest,
                    step |-> d.step, keys |-> d.keys, live |-> d.live, doomed |-> d.doomed]
        <5>1. d.keys \in SUBSET FreezeKey
          BY <4>3 DEF Call
        <5> HIDE DEF d, rest
        <5> QED BY <4>1, <4>3, <5>1, CallWithOne
      <4>5. [d EXCEPT !.left = rest, !.step = next] = [e EXCEPT !.step = next]
        <5> HIDE DEF d, rest, next
        <5> QED OBVIOUS
      <4>6. [e EXCEPT !.step = next] =
              [op |-> e.op, key |-> e.key, scope |-> e.scope, left |-> e.left, step |-> next,
               keys |-> e.keys, live |-> e.live, doomed |-> e.doomed]
        <5>1. e \in Call
          BY <4>4
        <5> HIDE DEF e, next
        <5> QED BY <5>1 DEF Call
      <4> HIDE DEF e, d, rest, next
      <4> QED BY <4>4, <4>5, <4>6
    <3>2. gate' = [gate EXCEPT ![g] = [d EXCEPT !.left = rest, !.step = next]]
      BY <1>4 DEF ReadDeactivated
    <3> QED BY <3>1, <3>2
  <2>4. c \in Call /\ CallAdvances(c)
    <3>1. rest \in ScopeList
      BY <2>3 DEF ScopeList
    <3> QED BY <1>1, <3>1 DEF Call, CallAdvances
  <2>5. WillMeet(c)
    <3>0. c.left = rest /\ c.live = d.live /\ c.doomed = d.doomed
          /\ (rest # <<>> => c.step = "activated")
      OBVIOUS
    <3> HIDE DEF c
    <3>1. ASSUME NEW s \in Later(d) PROVE rest # <<>> /\ Head(rest) = s
      BY <2>3, OneFacts
    <3>2. ASSUME NEW k \in d.live \ deactivated PROVE WillMeetKey(c, k)
      <4>1. \E s \in Later(d) : <<k, s>> \in activated
        BY <1>1, <1>4 DEF WillMeet, WillMeetKey, Verdict
      <4> QED BY <3>0, <3>1, <4>1 DEF WillMeetKey
    <3>3. d.doomed => WillMeetKill(c)
      <4>1. d.doomed => \E s \in Later(d) : s \in killed
        BY <1>1 DEF WillMeet, WillMeetKill
      <4> QED BY <3>0, <3>1, <4>1 DEF WillMeetKill
    <3> QED BY <3>0, <3>2, <3>3 DEF WillMeet
  <2> HIDE DEF c
  <2> QED BY <1>2, <2>4, <2>5, <2>6, CallMoves
<1> QED BY <1>3, <1>4

-----------------------------------------------------------------------------
(* The steps that write *)

\* A call ends.
LEMMA EndCallInv ==
  ASSUME FreezeInv, NEW g \in Gatekeeper, EndCall(g)
  PROVE  FreezeInv'
BY IdleIsCall, CallMoves DEF EndCall

\* An activation is committed.
LEMMA CommitActivateInv ==
  ASSUME FreezeInv, NEW g \in Gatekeeper, CommitActivate(g)
  PROVE  FreezeInv'
<1>1. gate \in [Gatekeeper -> Call] /\ gate' = [gate EXCEPT ![g] = Idle]
  BY TypeByCall DEF FreezeInv, CommitActivate
<1>2. activated \subseteq activated' /\ UNCHANGED <<deactivated, killed>>
  BY DEF CommitActivate
<1>3. FreezeTypeOK'
  <2>1. gate' \in [Gatekeeper -> Call]
    BY <1>1, IdleIsCall
  <2>2. gate[g].key \in FreezeKey /\ gate[g].scope \in Scope
    BY <1>1 DEF Call, FreezeInv, CallAdvances, CommitActivate
  <2>3. activated' \subseteq FreezeKey \X Scope
    BY <2>2 DEF CommitActivate, FreezeInv, FreezeTypeOK
  <2>4. deactivated' \subseteq FreezeKey /\ killed' \subseteq Scope
    BY <1>2 DEF FreezeInv, FreezeTypeOK
  <2> QED BY <2>1, <2>3, <2>4 DEF FreezeTypeOK, Call, ScopeList
<1>4. ASSUME NEW h \in Gatekeeper PROVE (CallAdvances(gate[h]) /\ WillMeet(gate[h]))'
  <2>1. CASE h = g
    <3>1. gate'[h] = Idle
      BY <1>1, <2>1
    <3> QED BY <3>1, IdleIsCall DEF CallAdvances, WillMeet, Idle
  <2>2. CASE h # g
    <3>1. gate'[h] = gate[h]
      BY <1>1, <2>2
    <3>2. CallAdvances(gate[h]) /\ WillMeet(gate[h])
      BY DEF FreezeInv
    <3> QED BY <1>2, <3>1, <3>2 DEF CallAdvances, WillMeet, WillMeetKey, WillMeetKill, Later
  <2> QED BY <2>1, <2>2
<1> QED BY <1>3, <1>4 DEF FreezeInv

\* A key is deactivated.
LEMMA DeactivateInv ==
  ASSUME FreezeInv, NEW k \in FreezeKey, Deactivate(k)
  PROVE  FreezeInv'
<1>1. FreezeTypeOK'
  BY DEF Deactivate, FreezeInv, FreezeTypeOK
<1> QED BY <1>1, LogGrows DEF Deactivate

\* A kill switch is triggered.
LEMMA KillSwitchInv ==
  ASSUME FreezeInv, NEW s \in Scope, KillSwitch(s)
  PROVE  FreezeInv'
<1>1. FreezeTypeOK'
  BY DEF KillSwitch, FreezeInv, FreezeTypeOK
<1> QED BY <1>1, LogGrows DEF KillSwitch

-----------------------------------------------------------------------------
\* The invariant holds at the start.
LEMMA InitFreezeInv == FreezeInit => FreezeInv
<1> SUFFICES ASSUME FreezeInit PROVE FreezeInv
  OBVIOUS
<1>1. \A g \in Gatekeeper : gate[g] = Idle
  BY DEF FreezeInit
<1>2. gate \in [Gatekeeper -> Call]
  BY IdleIsCall DEF FreezeInit
<1>3. FreezeTypeOK
  BY <1>2, TypeByCall DEF FreezeInit
<1> QED BY <1>1, <1>3, IdleIsCall DEF FreezeInv

\* Every step of the service keeps the invariant.
LEMMA NextFreezeInv == FreezeInv /\ [FreezeNext]_freezeVars => FreezeInv'
<1> SUFFICES ASSUME FreezeInv, [FreezeNext]_freezeVars PROVE FreezeInv'
  OBVIOUS
<1>1. CASE UNCHANGED freezeVars
  <2>1. UNCHANGED <<activated, deactivated, killed, gate>>
    BY <1>1 DEF freezeVars
  <2>2. FreezeTypeOK'
    BY <2>1 DEF FreezeInv, FreezeTypeOK
  <2> QED BY <2>1, <2>2, LogGrows
<1>2. ASSUME NEW g \in Gatekeeper, GateStep(g) PROVE FreezeInv'
  BY <1>2, BeginCheckInv, BeginActivateInv, ReadActivatedInv, ReadKilledInv,
     ReadDeactivatedInv, CommitActivateInv, EndCallInv DEF GateStep
<1> QED BY <1>1, <1>2, DeactivateInv, KillSwitchInv DEF FreezeNext

\* The types of the freeze model are preserved.
THEOREM FreezeTypeCorrect == FreezeSpec => []FreezeTypeOK
<1>1. FreezeInv => FreezeTypeOK
  BY DEF FreezeInv
<1> QED BY <1>1, InitFreezeInv, NextFreezeInv, PTL DEF FreezeSpec

\* check_freeze lets nothing pass that was frozen all the while: for any number
\* of requests, keys and scopes, and wherever the log grows between its reads.
THEOREM PassedIsHonest == FreezeSpec => []GateHonest
<1>1. FreezeInv => GateHonest
  <2> SUFFICES ASSUME FreezeInv, NEW g \in Gatekeeper, gate[g].step = "passed"
               PROVE  gate[g].live \subseteq deactivated /\ ~ gate[g].doomed
    BY DEF GateHonest
  <2>1. gate[g].left = <<>> /\ WillMeet(gate[g])
    BY DEF FreezeInv, CallAdvances
  <2>2. Later(gate[g]) = {}
    BY <2>1, TwoFacts DEF Later
  <2> QED BY <2>1, <2>2 DEF WillMeet, WillMeetKey, WillMeetKill
<1> QED BY <1>1, InitFreezeInv, NextFreezeInv, PTL DEF FreezeSpec

-----------------------------------------------------------------------------
(* The abstract gate *)

\* What the log freezes, step by step, in the terms of the gate.
LEMMA FrozenMap ==
  ASSUME [FreezeNext]_freezeVars, FreezeInv
  PROVE  [Gate!Next]_(Gate!gateVars)
<1>1. CASE \E g \in Gatekeeper : CommitActivate(g)
  <2>1. PICK g \in Gatekeeper : CommitActivate(g)
    BY <1>1
  <2> DEFINE s == gate[g].scope
             k == gate[g].key
  <2>2. s \in Scope /\ k \in FreezeKey
    BY <2>1, TypeByCall DEF FreezeInv, CallAdvances, CommitActivate, Call
  <2>3. killed' = killed /\ deactivated' = deactivated /\ activated' = activated \cup {<<k, s>>}
    BY <2>1 DEF CommitActivate
  <2> HIDE DEF s, k
  <2>4. CASE k \in deactivated
    <3>1. FrozenScopes' = FrozenScopes
      BY <2>2, <2>3, <2>4 DEF FrozenScopes, LiveKeys
    <3> QED BY <2>3, <3>1 DEF Gate!gateVars
  <2>5. CASE k \notin deactivated
    <3>1. FrozenScopes' = FrozenScopes \cup {s}
      BY <2>2, <2>3, <2>5 DEF FrozenScopes, LiveKeys
    <3> QED BY <2>2, <2>3, <3>1 DEF Gate!Next, Gate!Freeze
  <2> QED BY <2>4, <2>5
<1>2. CASE \E k \in FreezeKey : Deactivate(k)
  <2>1. killed' = killed /\ activated' = activated /\ deactivated \subseteq deactivated'
    BY <1>2 DEF Deactivate
  <2> DEFINE S == FrozenScopes \ FrozenScopes'
  <2>2. FrozenScopes' \subseteq FrozenScopes /\ killed \subseteq FrozenScopes'
    BY <2>1 DEF FrozenScopes, LiveKeys
  <2>3. FrozenScopes' = FrozenScopes \ S /\ S \cap killed = {}
    BY <2>2
  <2>4. S \in SUBSET Scope
    BY DEF FrozenScopes, FreezeInv, FreezeTypeOK
  <2> HIDE DEF S
  <2> QED BY <2>1, <2>3, <2>4 DEF Gate!Next, Gate!Thaw
<1>3. CASE \E s \in Scope : KillSwitch(s)
  <2>1. PICK s \in Scope : KillSwitch(s)
    BY <1>3
  <2>2. FrozenScopes' = FrozenScopes \cup {s} /\ killed' = killed \cup {s}
    BY <2>1 DEF KillSwitch, FrozenScopes, LiveKeys
  <2> QED BY <2>2 DEF Gate!Next, Gate!Kill
<1>4. CASE UNCHANGED <<activated, deactivated, killed>>
  BY <1>4 DEF FrozenScopes, LiveKeys, Gate!gateVars
<1> QED BY <1>1, <1>2, <1>3, <1>4
  DEF FreezeNext, GateStep, BeginCheck, BeginActivate, Begin, ReadActivated, ReadKilled,
      ReadDeactivated, EndCall, freezeVars

\* The event log implements the gate: a freeze ends only by a deactivation, and
\* a kill switch never.
THEOREM LogImplementsGate == FreezeSpec => ImplementsGate
<1>1. FreezeInit => Gate!Init
  BY DEF FreezeInit, Gate!Init, FrozenScopes, LiveKeys
<1> QED BY <1>1, FrozenMap, InitFreezeInv, NextFreezeInv, PTL
  DEF FreezeSpec, ImplementsGate, Gate!Spec

-----------------------------------------------------------------------------
(* GovernancePolicies.  Invariant: there is a greatest active version, and  *)
(* what was captured, or read to be archived or captured, is not newer than *)
(* any of them; a capture has read no older version than were on record.    *)

\* A version to go by, and how far the readers and the snapshots lag behind.
Topped == Active # {} => \E v \in Active : \A u \in Active : u <= v
NoneOlder ==
  \A u \in Active :
    /\ newest <= u
    /\ \A a \in PolicyAdmin : desk[a].op \in {"archive", "capture"} => desk[a].read <= u
CapturesFresh == \A a \in PolicyAdmin : desk[a].op = "capture" => desk[a].read >= desk[a].floor

PolicyInv == PolicyTypeOK /\ Topped /\ NoneOlder /\ CapturesFresh

\* What a step does to the active versions: nothing, a new one above all others
\* in place of the newest or beside the others, or one that none is older than
\* is given up.
ActiveStep ==
  \/ Active' = Active
  \/ Active' = Active \cup {latest + 1}
  \/ Active' = (Active \cup {latest + 1}) \ {latest}
  \/ \E v \in Version : Active' = Active \ {v} /\ \A u \in Active : v <= u

\* The invariant holds at the start.
LEMMA PolicyInitially == PolicyInit => PolicyInv
<1> SUFFICES ASSUME PolicyInit PROVE PolicyInv
  OBVIOUS
<1>1. Active = {}
  BY DEF PolicyInit, Active
<1>2. PolicyTypeOK
  BY PolicyAssumption DEF PolicyInit, PolicyTypeOK, NoDesk, PolicyStatus, Version
<1> QED BY <1>1, <1>2 DEF PolicyInit, PolicyInv, Topped, NoneOlder, CapturesFresh, NoDesk

\* The types.
LEMMA PolicyTypes ==
  ASSUME PolicyTypeOK, [PolicyNext]_policyVars
  PROVE  PolicyTypeOK'
<1> USE PolicyAssumption DEF PolicyTypeOK, Version, PolicyStatus, NoDesk
<1>1. ASSUME NEW a \in PolicyAdmin, BeginCreate(a) PROVE PolicyTypeOK'
  BY <1>1 DEF BeginCreate
<1>2. ASSUME NEW a \in PolicyAdmin, ReadLatestNumber(a) PROVE PolicyTypeOK'
  <2>1. desk'[a] = [op |-> "create", read |-> latest, floor |-> desk[a].floor]
    BY <1>2 DEF ReadLatestNumber
  <2>2. \A b \in PolicyAdmin \ {a} : desk'[b] = desk[b]
    BY <1>2 DEF ReadLatestNumber
  <2>3. desk' \in [PolicyAdmin ->
          [op : {"none", "number", "create", "supersede", "archive", "capture"},
           read : 0..latest, floor : 0..newest]]
    BY <1>2, <2>1, <2>2 DEF ReadLatestNumber
  <2> QED BY <1>2, <2>3 DEF ReadLatestNumber
<1>3. ASSUME NEW a \in PolicyAdmin, CommitCreate(a) PROVE PolicyTypeOK'
  BY <1>3 DEF CommitCreate
<1>4. ASSUME NEW a \in PolicyAdmin, NEW op \in {"supersede", "archive", "capture"},
             BeginChange(a, op)
      PROVE  PolicyTypeOK'
  <2>1. PICK v \in Version :
          Active = {v} /\ desk' = [desk EXCEPT ![a] = [op |-> op, read |-> v, floor |-> newest]]
    BY <1>4 DEF BeginChange, IsActiveVersion
  <2>2. policy[v] = "active"
    BY <2>1 DEF Active
  <2>3. v \in 0..latest
    BY <2>2
  <2> QED BY <1>4, <2>1, <2>3 DEF BeginChange
<1>5. ASSUME NEW a \in PolicyAdmin, CommitSupersede(a) PROVE PolicyTypeOK'
  BY <1>5 DEF CommitSupersede
<1>6. ASSUME NEW a \in PolicyAdmin, CommitArchive(a) PROVE PolicyTypeOK'
  <2>1. /\ desk[a].read \in 0..latest /\ latest' = latest
        /\ captured' = captured /\ newest' = newest
    BY <1>6 DEF CommitArchive
  <2>2. \A v \in Version : policy'[v] = IF v = desk[a].read THEN "archived" ELSE policy[v]
    BY <1>6 DEF CommitArchive
  <2>3. policy' \in [Version -> PolicyStatus \cup {"none"}]
    BY <1>6 DEF CommitArchive
  <2>4. desk' \in [PolicyAdmin ->
          [op : {"none", "number", "create", "supersede", "archive", "capture"},
           read : 0..latest', floor : 0..newest']]
    BY <1>6, <2>1 DEF CommitArchive
  <2>5. \A v \in Version : policy'[v] = "none" <=> v > latest'
    BY <2>1, <2>2
  <2> QED BY <2>1, <2>3, <2>4, <2>5
<1>7. ASSUME NEW a \in PolicyAdmin, Abandon(a) PROVE PolicyTypeOK'
  BY <1>7 DEF Abandon
<1>8. ASSUME NEW a \in PolicyAdmin, CommitCapture(a) PROVE PolicyTypeOK'
  <2>1. /\ newest' \in newest..latest /\ captured' \in 0..newest'
        /\ latest' = latest /\ policy' = policy /\ desk' = [desk EXCEPT ![a] = NoDesk]
    BY <1>8 DEF CommitCapture
  <2> QED BY <2>1
<1>9. CASE UNCHANGED policyVars
  BY <1>9 DEF policyVars
<1> QED
  BY <1>1, <1>2, <1>3, <1>4, <1>5, <1>6, <1>7, <1>8, <1>9
  DEF PolicyNext, PolicyStep, BeginSupersede, BeginArchive, BeginCapture

\* What a step does to the versions that are active.
LEMMA PolicySteps ==
  ASSUME PolicyTypeOK, NoneOlder, [PolicyNext]_policyVars
  PROVE  ActiveStep
<1> USE PolicyAssumption DEF PolicyTypeOK, Version, Active
<1>1. ASSUME NEW a \in PolicyAdmin, CommitCreate(a) PROVE Active' = Active \cup {latest + 1}
  <2>1. \A v \in Version : policy'[v] = IF v = latest + 1 THEN "active" ELSE policy[v]
    BY <1>1 DEF CommitCreate
  <2>2. latest + 1 \in Version
    BY <1>1 DEF CommitCreate
  <2> QED BY <2>1, <2>2
<1>2. ASSUME NEW a \in PolicyAdmin, CommitSupersede(a)
      PROVE  Active' = (Active \cup {latest + 1}) \ {latest}
  <2>1. \A v \in Version : policy'[v] = IF v = latest + 1 THEN "active"
                                        ELSE IF v = latest THEN "superseded" ELSE policy[v]
    BY <1>2 DEF CommitSupersede
  <2>2. latest + 1 \in Version /\ latest # latest + 1
    BY <1>2 DEF CommitSupersede
  <2> QED BY <2>1, <2>2
<1>3. ASSUME NEW a \in PolicyAdmin, CommitArchive(a) PROVE ActiveStep
  <2>1. \A v \in Version : policy'[v] = IF v = desk[a].read THEN "archived" ELSE policy[v]
    BY <1>3 DEF CommitArchive
  <2>2. Active' = Active \ {desk[a].read}
    BY <2>1
  <2>3. \A u \in Active : desk[a].read <= u
    BY <1>3 DEF CommitArchive, NoneOlder
  <2>4. CASE desk[a].read \in Version
    BY <2>2, <2>3, <2>4 DEF ActiveStep
  <2>5. CASE desk[a].read \notin Version
    BY <2>2, <2>5 DEF ActiveStep
  <2> QED BY <2>4, <2>5
<1>4. CASE UNCHANGED policy
  BY <1>4 DEF ActiveStep
<1>5. ASSUME NEW a \in PolicyAdmin, PolicyStep(a) PROVE ActiveStep
  BY <1>1, <1>2, <1>3, <1>4, <1>5
  DEF PolicyStep, ActiveStep, BeginCreate, ReadLatestNumber, BeginSupersede, BeginArchive,
      BeginCapture, CommitCapture, BeginChange, Abandon
<1> QED BY <1>4, <1>5 DEF PolicyNext, policyVars

\* The greatest active version stays one, or a newer one takes its place.
LEMMA TopMoves ==
  ASSUME PolicyTypeOK, Topped, ActiveStep
  PROVE  /\ Topped'
         /\ Governing' \notin {0, Governing} => Governing' > latest
<1> DEFINE IsTop(v, S) == v \in S /\ \A u \in S : u <= v
<1>0. /\ latest \in Nat /\ Active \subseteq 1 .. latest
      /\ Active \subseteq Nat /\ MaxVersion \in Nat
  BY PolicyAssumption DEF PolicyTypeOK, Active, Version
<1>1. ASSUME NEW v \in Active', \A u \in Active' : u <= v PROVE Governing' = v
  <2>1. \A w \in Active' : (\A u \in Active' : u <= w) => w = v
    BY <1>1, PolicyAssumption DEF Active, Version
  <2> QED BY <1>1, <2>1 DEF Governing
<1>2. ASSUME NEW v \in Active, \A u \in Active : u <= v PROVE Governing = v
  <2>1. \A w \in Active : (\A u \in Active : u <= w) => w = v
    BY <1>0, <1>2
  <2> QED BY <1>2, <2>1 DEF Governing
<1>3. CASE latest + 1 \in Active' /\ Active' \subseteq Active \cup {latest + 1}
  <2>1. \A u \in Active' : u <= latest + 1
    BY <1>0, <1>3
  <2> QED BY <1>0, <1>1, <1>3, <2>1 DEF Topped
<1>4. CASE Active' = Active
  BY <1>1, <1>2, <1>4 DEF Topped, Governing
<1>5. ASSUME NEW v \in Version, Active' = Active \ {v}, \A u \in Active : v <= u
      PROVE  Topped' /\ Governing' \in {0, Governing}
  <2>1. CASE Active' = {}
    BY <2>1 DEF Topped, Governing
  <2>2. CASE Active' # {}
    <3>1. PICK t \in Active : \A u \in Active : u <= t
      BY <1>5, <2>2 DEF Topped
    <3>2. PICK w \in Active : w # v
      BY <1>5, <2>2
    <3>3. v <= w /\ w <= t /\ v \in Nat /\ w \in Nat /\ t \in Nat
      BY <1>0, <1>5, <3>1, <3>2 DEF Version
    <3>4. t # v
      BY <3>2, <3>3
    <3>5. t \in Active' /\ \A u \in Active' : u <= t
      BY <1>5, <3>1, <3>4
    <3> QED BY <1>1, <1>2, <3>1, <3>5 DEF Topped
  <2> QED BY <2>1, <2>2
<1>6. latest + 1 # latest
  BY <1>0
<1> QED BY <1>0, <1>3, <1>4, <1>5, <1>6 DEF ActiveStep

\* What was captured or read stays no newer than the active ones, and a capture
\* goes on with what it has read.
LEMMA NoneOlderHolds ==
  ASSUME PolicyTypeOK, NoneOlder, CapturesFresh, [PolicyNext]_policyVars
  PROVE  NoneOlder' /\ CapturesFresh'
<1> USE PolicyAssumption DEF PolicyTypeOK
<1> DEFINE Kept(b) == desk'[b].op \in {"archive", "capture"} => desk'[b] = desk[b]
<1>0. /\ latest \in Nat /\ newest \in 0 .. latest
      /\ \A b \in PolicyAdmin : desk[b].read \in 0 .. latest
      /\ \A u \in Active : u \in 1 .. latest
  BY DEF Active, Version
<1>1. ASSUME Active' \subseteq Active \cup {latest + 1}, newest' = newest,
             \A b \in PolicyAdmin : Kept(b)
      PROVE  NoneOlder' /\ CapturesFresh'
  <2>1. NoneOlder'
    BY <1>0, <1>1 DEF NoneOlder
  <2>2. CapturesFresh'
    BY <1>1 DEF CapturesFresh
  <2> QED BY <2>1, <2>2
<1>2. Active' \subseteq Active \cup {latest + 1}
  BY PolicySteps DEF ActiveStep
<1>3. ASSUME NEW a \in PolicyAdmin, NEW op \in {"supersede", "archive", "capture"},
             BeginChange(a, op)
      PROVE  NoneOlder' /\ CapturesFresh'
  <2>1. PICK v \in Version :
          Active = {v} /\ desk' = [desk EXCEPT ![a] = [op |-> op, read |-> v, floor |-> newest]]
    BY <1>3 DEF BeginChange, IsActiveVersion
  <2>2. Active' = {v} /\ newest' = newest
    BY <1>3, <2>1 DEF BeginChange, Active
  <2>3. /\ newest <= v
        /\ \A b \in PolicyAdmin : desk[b].op \in {"archive", "capture"} => desk[b].read <= v
    BY <2>1 DEF NoneOlder
  <2>4. \A b \in PolicyAdmin : desk'[b].op \in {"archive", "capture"} => desk'[b].read <= v
    BY <2>1, <2>3 DEF Version
  <2>5. CapturesFresh'
    BY <2>1, <2>3 DEF CapturesFresh, Version
  <2> QED BY <1>0, <2>2, <2>3, <2>4, <2>5 DEF NoneOlder
<1>4. ASSUME NEW a \in PolicyAdmin, CommitCapture(a) PROVE NoneOlder' /\ CapturesFresh'
  <2>1. \A b \in PolicyAdmin : Kept(b)
    BY <1>4 DEF CommitCapture, NoDesk
  <2>2. Active' = Active /\ newest' \in {newest, desk[a].read}
    BY <1>4 DEF CommitCapture, Active
  <2>3. \A u \in Active : newest' <= u
    BY <1>4, <2>2 DEF CommitCapture, NoneOlder
  <2> QED BY <2>1, <2>2, <2>3 DEF NoneOlder, CapturesFresh
<1>5. ASSUME NEW a \in PolicyAdmin,
             \/ BeginCreate(a) \/ ReadLatestNumber(a) \/ CommitCreate(a)
             \/ CommitSupersede(a) \/ CommitArchive(a) \/ Abandon(a)
      PROVE  NoneOlder' /\ CapturesFresh'
  <2>1. newest' = newest
    BY <1>5 DEF BeginCreate, ReadLatestNumber, CommitCreate, CommitSupersede, CommitArchive,
                Abandon
  <2>2. \A b \in PolicyAdmin : Kept(b)
    BY <1>5 DEF BeginCreate, ReadLatestNumber, CommitCreate, CommitSupersede, CommitArchive,
                Abandon, NoDesk
  <2> QED BY <1>1, <1>2, <2>1, <2>2
<1>6. CASE UNCHANGED policyVars
  BY <1>1, <1>2, <1>6 DEF policyVars
<1> QED
  BY <1>3, <1>4, <1>5, <1>6
  DEF PolicyNext, PolicyStep, BeginSupersede, BeginArchive, BeginCapture

\* governance/policy.py and snapshot.py: the version that rules changes only to none
\* or to one that did not exist before, and a capture records no older version than
\* were on record when it began, however many administrators create, supersede,
\* archive and capture at once and however old what they have read is.
THEOREM PolicyForward == PolicySpec => GovernanceMovesForward
<1>1. PolicyInv /\ [PolicyNext]_policyVars =>
        /\ PolicyInv'
        /\ Governing' \notin {0, Governing} => Governing' > latest
  BY PolicyTypes, PolicySteps, TopMoves, NoneOlderHolds DEF PolicyInv
<1>2. ASSUME PolicyInv, NEW a \in PolicyAdmin, CommitCapture(a)
      PROVE  captured' >= desk[a].floor
  BY <1>2 DEF PolicyInv, CapturesFresh, CommitCapture
<1>3. PolicyInv /\ [PolicyNext]_policyVars =>
        [/\ Governing' \notin {0, Governing} => Governing' > latest
         /\ \A a \in PolicyAdmin : CommitCapture(a) => captured' >= desk[a].floor]_policyVars
  BY <1>1, <1>2
<1> QED BY <1>1, <1>3, PolicyInitially, PTL DEF PolicySpec, GovernanceMovesForward

-----------------------------------------------------------------------------
(* RealtimeSessions.  NothingLeftBehind is inductive with the types.        *)

\* The types.
LEMMA RealtimeTypes ==
  ASSUME RealtimeTypeOK, [RealtimeNext]_realtimeVars
  PROVE  RealtimeTypeOK'
<1> USE DEF RealtimeTypeOK, registryVars, SendTo, Forget, CloseAndForget
<1>1. ASSUME NEW s \in Socket, OpenSocket(s) \/ Greet(s) PROVE RealtimeTypeOK'
  BY <1>1 DEF OpenSocket, Greet
<1>2. ASSUME NEW s \in Socket, NEW m \in ClientMessage, ReceiveText(s, m)
      PROVE  RealtimeTypeOK'
  BY <1>2 DEF ReceiveText
<1>3. ASSUME NEW s \in Socket, ReceiveOversized(s) \/ RefuseMessage(s) \/ AdmitMessage(s)
      PROVE  RealtimeTypeOK'
  BY <1>3 DEF ReceiveOversized, RefuseMessage, AdmitMessage
<1>4. ASSUME NEW s \in Socket, HandleMessage(s) PROVE RealtimeTypeOK'
  BY <1>4 DEF HandleMessage
<1>5. ASSUME NEW s \in Socket, ReadFails(s) \/ Leave(s) PROVE RealtimeTypeOK'
  BY <1>5 DEF ReadFails, Leave
<1>6. ASSUME NEW s \in Socket, Wake(s) \/ RefuseHeartbeat(s) \/ Ping(s)
      PROVE  RealtimeTypeOK'
  BY <1>6 DEF Wake, RefuseHeartbeat, Ping
<1>7. ASSUME NEW s \in Socket, ClientCloses(s) \/ FallSilent(s) \/ Revoke(s) \/ Evict(s)
      PROVE  RealtimeTypeOK'
  BY <1>7 DEF ClientCloses, FallSilent, Revoke, Evict
<1>8. ASSUME FindStale \/ \E ch \in Channel : Broadcast(ch) PROVE RealtimeTypeOK'
  BY <1>8 DEF FindStale, Broadcast
<1>9. CASE UNCHANGED realtimeVars
  BY <1>9 DEF realtimeVars
<1> QED
  BY <1>1, <1>2, <1>3, <1>4, <1>5, <1>6, <1>7, <1>8, <1>9 DEF RealtimeNext

\* Every step of the service keeps the invariant.
LEMMA NothingLeftInductive ==
  ASSUME RealtimeTypeOK, NothingLeftBehind, [RealtimeNext]_realtimeVars
  PROVE  NothingLeftBehind'
<1> USE DEF RealtimeTypeOK, NothingLeftBehind, registryVars, SendTo, Forget, CloseAndForget
<1>1. ASSUME NEW s \in Socket, OpenSocket(s) \/ Greet(s) PROVE NothingLeftBehind'
  BY <1>1 DEF OpenSocket, Greet
<1>2. ASSUME NEW s \in Socket, NEW m \in ClientMessage, ReceiveText(s, m)
      PROVE  NothingLeftBehind'
  BY <1>2 DEF ReceiveText
<1>3. ASSUME NEW s \in Socket, ReceiveOversized(s) \/ RefuseMessage(s) \/ AdmitMessage(s)
      PROVE  NothingLeftBehind'
  BY <1>3 DEF ReceiveOversized, RefuseMessage, AdmitMessage
<1>4. ASSUME NEW s \in Socket, HandleMessage(s) PROVE NothingLeftBehind'
  BY <1>4 DEF HandleMessage
<1>5. ASSUME NEW s \in Socket, ReadFails(s) \/ Leave(s) PROVE NothingLeftBehind'
  BY <1>5 DEF ReadFails, Leave
<1>6. ASSUME NEW s \in Socket, Wake(s) \/ RefuseHeartbeat(s) \/ Ping(s)
      PROVE  NothingLeftBehind'
  BY <1>6 DEF Wake, RefuseHeartbeat, Ping
<1>7. ASSUME NEW s \in Socket, ClientCloses(s) \/ FallSilent(s) \/ Revoke(s) \/ Evict(s)
      PROVE  NothingLeftBehind'
  BY <1>7 DEF ClientCloses, FallSilent, Revoke, Evict
<1>8. ASSUME FindStale \/ \E ch \in Channel : Broadcast(ch) PROVE NothingLeftBehind'
  BY <1>8 DEF FindStale, Broadcast
<1>9. CASE UNCHANGED realtimeVars
  BY <1>9 DEF realtimeVars
<1> QED
  BY <1>1, <1>2, <1>3, <1>4, <1>5, <1>6, <1>7, <1>8, <1>9 DEF RealtimeNext

\* The types hold at the start.
LEMMA RealtimeInitially == RealtimeInit => RealtimeTypeOK /\ NothingLeftBehind
BY DEF RealtimeInit, RealtimeTypeOK, NothingLeftBehind

\* realtime.py, "On disconnect: cleanup connections + subscriptions": however a
\* connection ends -- closed by the client, refused, revoked, evicted, silent --
\* nothing of it is left in a registry once its endpoint has returned, and no
\* heartbeat runs.  (Its types are proved with it.)
THEOREM RealtimeClean == RealtimeSpec => [](RealtimeTypeOK /\ NothingLeftBehind)
<1>1. RealtimeTypeOK /\ NothingLeftBehind /\ [RealtimeNext]_realtimeVars
        => (RealtimeTypeOK /\ NothingLeftBehind)'
  BY RealtimeTypes, NothingLeftInductive
<1> QED BY <1>1, RealtimeInitially, PTL DEF RealtimeSpec

-----------------------------------------------------------------------------
(* AIExecution.  Row by row for the attempts; for the releases, the sets of *)
(* approvals granted and consumed are compared.                              *)

ExecutionRow ==
  [status : AIExecutionStatus \cup {"none"}, attempt : Nat, max : MaxAttempts \cup {0},
   approval : ToolApproval \cup {NoApproval}, started : BOOLEAN, saved : Nat]

\* What AttemptsBounded says of one row.
WithinAttempts(x) ==
  LET allowed == IF x.max = 0 THEN 1 ELSE x.max
  IN /\ x.saved <= x.attempt
     /\ x.status = "pending" => x.attempt < allowed /\ ~ x.started
     /\ x.status \in {"running", "awaiting_approval", "completed", "failed"} =>
          x.attempt \in 1..allowed /\ x.started

\* AttemptsBounded is a property of each row.
LEMMA AttemptsRowwise ==
  /\ AttemptsBounded <=> \A e \in Execution : WithinAttempts(execution[e])
  /\ AttemptsBounded' <=> \A e \in Execution : WithinAttempts(execution'[e])
BY DEF AttemptsBounded, WithinAttempts, Allowed

RowsOK == execution \in [Execution -> ExecutionRow] /\ AttemptsBounded

\* Every step of the service keeps the invariant.
LEMMA RowStep ==
  ASSUME RowsOK, NEW e \in Execution, NEW y \in ExecutionRow, WithinAttempts(y),
         execution' = [execution EXCEPT ![e] = y]
  PROVE  RowsOK'
<1>1. \A f \in Execution : execution'[f] = IF f = e THEN y ELSE execution[f]
  BY DEF RowsOK
<1>2. execution' \in [Execution -> ExecutionRow]
  BY DEF RowsOK
<1> QED BY <1>1, <1>2, AttemptsRowwise DEF RowsOK

\* A row once cancelled is within its attempts.
LEMMA CancelledRows ==
  ASSUME RowsOK, NEW e \in Execution, execution[e].status # "none", execution' = Cancelled(e)
  PROVE  RowsOK'
<1> DEFINE x == execution[e]
           y == [x EXCEPT !.status = "cancelled"]
<1>0. x \in ExecutionRow /\ WithinAttempts(x)
  BY AttemptsRowwise DEF RowsOK
<1>1. y \in ExecutionRow /\ WithinAttempts(y)
  BY <1>0 DEF ExecutionRow, AIExecutionStatus, WithinAttempts
<1>2. CASE x.status \in AI_TERMINAL
  BY <1>2 DEF Cancelled, RowsOK, AttemptsBounded, Allowed
<1>3. CASE x.status \notin AI_TERMINAL
  <2>1. execution' = [execution EXCEPT ![e] = y]
    BY <1>3 DEF Cancelled, RowsOK
  <2> HIDE DEF y
  <2> QED BY <1>1, <2>1, RowStep
<1> QED BY <1>2, <1>3

\* Every step of the service keeps the invariant.
LEMMA AttemptsInductive ==
  ASSUME RowsOK, [AINext]_aiVars
  PROVE  RowsOK'
<1> USE AIAssumption
<1>0. ASSUME NEW e \in Execution
      PROVE  execution[e] \in ExecutionRow /\ WithinAttempts(execution[e])
  BY AttemptsRowwise DEF RowsOK
<1>1. ASSUME NEW e \in Execution, CreateExecution(e) PROVE RowsOK'
  <2>1. PICK m \in MaxAttempts :
          execution' =
            [execution EXCEPT ![e] = [NoExecution EXCEPT !.status = "pending", !.max = m]]
    BY <1>1 DEF CreateExecution
  <2> DEFINE y == [NoExecution EXCEPT !.status = "pending", !.max = m]
  <2> DEFINE z == [NoExecution EXCEPT !.status = "pending"]
  <2>2. /\ z \in ExecutionRow /\ z.status = "pending" /\ z.attempt = 0 /\ z.saved = 0
        /\ z.started = FALSE
    BY DEF NoExecution, ExecutionRow, AIExecutionStatus
  <2>3. y = [z EXCEPT !.max = m]
    OBVIOUS
  <2>4. y \in ExecutionRow /\ WithinAttempts(y)
    <3> HIDE DEF z, y
    <3> QED BY <2>2, <2>3 DEF ExecutionRow, WithinAttempts
  <2> HIDE DEF y
  <2> QED BY <2>1, <2>4, RowStep DEF y
<1>2. ASSUME NEW e \in Execution, Start(e) PROVE RowsOK'
  <2> DEFINE y == [execution[e] EXCEPT !.status = "running", !.started = TRUE, !.attempt = @ + 1]
  <2>1. execution' = [execution EXCEPT ![e] = y] /\ execution[e].status = "pending"
    BY <1>2 DEF Start, RowsOK
  <2> DEFINE z == [execution[e] EXCEPT !.status = "running", !.started = TRUE]
  <2>2. /\ z \in ExecutionRow /\ z.status = "running" /\ z.started = TRUE
        /\ z.attempt = execution[e].attempt /\ z.max = execution[e].max
        /\ z.saved = execution[e].saved
    BY <1>0 DEF ExecutionRow, AIExecutionStatus
  <2>3. y = [z EXCEPT !.attempt = @ + 1]
    OBVIOUS
  <2>4. y \in ExecutionRow /\ WithinAttempts(y)
    <3> HIDE DEF z, y
    <3> QED BY <1>0, <2>1, <2>2, <2>3 DEF ExecutionRow, WithinAttempts
  <2> HIDE DEF y
  <2> QED BY <2>1, <2>4, RowStep
<1>3. ASSUME NEW e \in Execution, Complete(e) PROVE RowsOK'
  <2> DEFINE y == [execution[e] EXCEPT !.status = "completed"]
  <2>1. execution' = [execution EXCEPT ![e] = y] /\ execution[e].status = "running"
    BY <1>3 DEF Complete, RowsOK
  <2>2. y \in ExecutionRow /\ WithinAttempts(y)
    BY <1>0, <2>1 DEF ExecutionRow, AIExecutionStatus, WithinAttempts
  <2> HIDE DEF y
  <2> QED BY <2>1, <2>2, RowStep
<1>4. ASSUME NEW e \in Execution, Fail(e) PROVE RowsOK'
  <2> DEFINE y == IF execution[e].attempt < Allowed(e)
                  THEN [execution[e] EXCEPT !.status = "pending", !.started = FALSE]
                  ELSE [execution[e] EXCEPT !.status = "failed"]
  <2>1. execution' = [execution EXCEPT ![e] = y] /\ execution[e].status = "running"
    BY <1>4 DEF Fail, RowsOK
  <2>2. y \in ExecutionRow /\ WithinAttempts(y)
    BY <1>0, <2>1 DEF ExecutionRow, AIExecutionStatus, WithinAttempts, Allowed
  <2> HIDE DEF y
  <2> QED BY <2>1, <2>2, RowStep
<1>5. ASSUME NEW e \in Execution, Checkpoint(e) PROVE RowsOK'
  <2> DEFINE y == [execution[e] EXCEPT !.saved = execution[e].attempt]
  <2>1. execution' = [execution EXCEPT ![e] = y]
    BY <1>5 DEF Checkpoint, RowsOK
  <2>2. y \in ExecutionRow /\ WithinAttempts(y)
    BY <1>0 DEF ExecutionRow, WithinAttempts
  <2> HIDE DEF y
  <2> QED BY <2>1, <2>2, RowStep
<1>6. ASSUME NEW e \in Execution, NEW p \in ToolApproval, MarkAwaitingApproval(e, p) PROVE RowsOK'
  <2> DEFINE y == [execution[e] EXCEPT !.status = "awaiting_approval", !.approval = p]
  <2>1. execution' = [execution EXCEPT ![e] = y] /\ execution[e].status = "running"
    BY <1>6 DEF MarkAwaitingApproval, RowsOK
  <2>2. y \in ExecutionRow /\ WithinAttempts(y)
    BY <1>0, <2>1 DEF ExecutionRow, AIExecutionStatus, WithinAttempts
  <2> HIDE DEF y
  <2> QED BY <2>1, <2>2, RowStep
<1>7. ASSUME NEW e \in Execution, ResumeFromApproval(e) PROVE RowsOK'
  <2> DEFINE y == [execution[e] EXCEPT !.status = "running"]
  <2>1. execution' = [execution EXCEPT ![e] = y] /\ execution[e].status = "awaiting_approval"
    BY <1>7 DEF ResumeFromApproval, RowsOK
  <2>2. y \in ExecutionRow /\ WithinAttempts(y)
    BY <1>0, <2>1 DEF ExecutionRow, AIExecutionStatus, WithinAttempts
  <2> HIDE DEF y
  <2> QED BY <2>1, <2>2, RowStep
<1>8. ASSUME NEW e \in Execution, NEW p \in ToolApproval,
             CancelExecution(e) \/ ResolveRejected(e, p)
      PROVE  RowsOK'
  BY <1>8, CancelledRows DEF CancelExecution, ResolveRejected
<1>9. CASE UNCHANGED execution
  BY <1>9 DEF RowsOK, AttemptsBounded, Allowed
<1>10. ASSUME NEW e \in Execution, CancelExecution(e) PROVE RowsOK'
  BY <1>10, CancelledRows DEF CancelExecution
<1> QED
  BY <1>1, <1>2, <1>3, <1>4, <1>5, <1>6, <1>7, <1>8, <1>9, <1>10
  DEF AINext, CheckTool, ResolveApproved, DecideElsewhere, aiVars

\* The invariant holds at the start.
LEMMA AttemptsInitially == AIInit => RowsOK
BY AIAssumption DEF AIInit, RowsOK, ExecutionRow, AttemptsBounded, NoExecution, Allowed

\* lifecycle.py and recovery.py: however starts, failures, retries, pauses and
\* resumptions alternate, no execution is on an attempt beyond those it was given.
THEOREM AttemptsAreBounded == AISpec => []AttemptsBounded
<1>1. AIInit => RowsOK
  BY AttemptsInitially
<1>2. RowsOK /\ [AINext]_aiVars => RowsOK'
  BY AttemptsInductive
<1>3. RowsOK => AttemptsBounded
  BY DEF RowsOK
<1> QED BY <1>1, <1>2, <1>3, PTL DEF AISpec

-----------------------------------------------------------------------------
TicketStatus == {"none", "pending", "escalated", "approved", "rejected", "expired"}

\* The approvals that count in OneReleasePerApproval.
Releasing == {p \in byGate : ticket[p] = "approved"}

ReleaseInv ==
  /\ ticket \in [ToolApproval -> TicketStatus]
  /\ byGate \subseteq ToolApproval
  /\ \A p \in byGate : ticket[p] \in {"approved", "rejected"}
  /\ resumes \in Nat
  /\ OneReleasePerApproval

\* Every step of the service keeps the invariant.
LEMMA ReleaseInductive ==
  ASSUME ReleaseInv, [AINext]_aiVars
  PROVE  ReleaseInv'
<1> USE DEF TicketStatus
<1>0. IsFiniteSet(Releasing)
  BY AIAssumption, FS_Subset DEF Releasing, ReleaseInv
<1>1. ASSUME UNCHANGED <<byGate, resumes>>, Releasing' = Releasing,
             ticket' \in [ToolApproval -> TicketStatus],
             \A p \in byGate : ticket'[p] = ticket[p]
      PROVE  ReleaseInv'
  BY <1>1 DEF ReleaseInv, OneReleasePerApproval, Releasing
<1>2. ASSUME NEW p \in ToolApproval, NEW s \in TicketStatus,
             ticket[p] \notin {"approved", "rejected"}, ticket' = [ticket EXCEPT ![p] = s],
             UNCHANGED <<byGate, resumes>>
      PROVE  ReleaseInv'
  <2>1. p \notin byGate
    BY <1>2 DEF ReleaseInv
  <2>2. \A q \in byGate : ticket'[q] = ticket[q]
    BY <1>2, <2>1 DEF ReleaseInv
  <2>3. Releasing' = Releasing
    BY <1>2, <2>2 DEF Releasing
  <2> QED BY <1>1, <1>2, <2>2, <2>3 DEF ReleaseInv
<1>3. ASSUME NEW e \in Execution, NEW p \in ToolApproval, ResolveApproved(e, p)
      PROVE  ReleaseInv'
  <2>1. /\ ticket[p] \in {"pending", "escalated"} /\ ticket' = [ticket EXCEPT ![p] = "approved"]
        /\ byGate' = byGate \cup {p} /\ resumes' = resumes + 1
    BY <1>3 DEF ResolveApproved, Resolvable, ResumeFromApproval
  <2>2. p \notin Releasing /\ Releasing' = Releasing \cup {p}
    BY <2>1 DEF Releasing, ReleaseInv
  <2>3. Cardinality(Releasing') = Cardinality(Releasing) + 1
    BY <1>0, <2>2, FS_AddElement
  <2>4. resumes = Cardinality(Releasing)
    BY DEF ReleaseInv, OneReleasePerApproval, Releasing
  <2>5. resumes' = Cardinality(Releasing')
    BY <2>1, <2>3, <2>4
  <2>6. \A q \in byGate' : ticket'[q] \in {"approved", "rejected"}
    BY <2>1 DEF ReleaseInv
  <2> QED BY <2>1, <2>5, <2>6 DEF ReleaseInv, OneReleasePerApproval, Releasing
<1>4. ASSUME NEW e \in Execution, NEW p \in ToolApproval, ResolveRejected(e, p)
      PROVE  ReleaseInv'
  <2>1. /\ ticket[p] \in {"pending", "escalated"} /\ ticket' = [ticket EXCEPT ![p] = "rejected"]
        /\ byGate' = byGate \cup {p} /\ resumes' = resumes
    BY <1>4 DEF ResolveRejected, Resolvable
  <2>2. Releasing' = Releasing
    BY <2>1 DEF Releasing, ReleaseInv
  <2>3. \A q \in byGate' : ticket'[q] \in {"approved", "rejected"}
    BY <2>1 DEF ReleaseInv
  <2>4. ticket' \in [ToolApproval -> TicketStatus]
    BY <2>1 DEF ReleaseInv
  <2>5. resumes' = Cardinality(Releasing')
    BY <2>1, <2>2 DEF ReleaseInv, OneReleasePerApproval, Releasing
  <2> QED BY <2>1, <2>3, <2>4, <2>5 DEF ReleaseInv, OneReleasePerApproval, Releasing
<1>5. ASSUME UNCHANGED <<ticket, byGate, resumes>> PROVE ReleaseInv'
  BY <1>5 DEF ReleaseInv, OneReleasePerApproval
<1>6. ASSUME NEW e \in Execution,
             \/ CreateExecution(e) \/ Start(e) \/ Complete(e) \/ Fail(e)
             \/ CancelExecution(e) \/ Checkpoint(e)
      PROVE  ReleaseInv'
  BY <1>5, <1>6
  DEF CreateExecution, Start, Complete, Fail, CancelExecution, Checkpoint
<1>7. ASSUME NEW e \in Execution, NEW p \in ToolApproval, CheckTool(e, p) PROVE ReleaseInv'
  BY <1>2, <1>7 DEF CheckTool
<1>8. ASSUME NEW p \in ToolApproval, DecideElsewhere(p) PROVE ReleaseInv'
  BY <1>2, <1>8 DEF DecideElsewhere, Resolvable
<1>9. CASE UNCHANGED aiVars
  BY <1>5, <1>9 DEF aiVars
<1> QED BY <1>3, <1>4, <1>6, <1>7, <1>8, <1>9 DEF AINext

\* The invariant holds at the start.
LEMMA ReleaseInitially == AIInit => ReleaseInv
<1> SUFFICES ASSUME AIInit PROVE ReleaseInv
  OBVIOUS
<1>1. Releasing = {}
  BY DEF AIInit, Releasing
<1> QED
  BY <1>1, FS_EmptySet
  DEF AIInit, TicketStatus, ReleaseInv, OneReleasePerApproval, Releasing

\* The two invariants together are the types.
LEMMA AITypes == RowsOK /\ ReleaseInv => AITypeOK
BY DEF RowsOK, ExecutionRow, ReleaseInv, TicketStatus, AITypeOK

\* gate.py: executions were resumed exactly as often as there are approvals the
\* gate decided that stand approved, whoever resumes which execution with which
\* approval, for any number of them.
THEOREM ReleasesAreCounted == AISpec => []OneReleasePerApproval
<1>1. AIInit => ReleaseInv
  BY ReleaseInitially
<1>2. ReleaseInv /\ [AINext]_aiVars => ReleaseInv'
  BY ReleaseInductive
<1>3. ReleaseInv => OneReleasePerApproval
  BY DEF ReleaseInv
<1> QED BY <1>1, <1>2, <1>3, PTL DEF AISpec

-----------------------------------------------------------------------------
(* AuthSessions.  Invariant: no request has verified or claimed a token     *)
(* newer than the last one issued.                                           *)

\* No session has more tokens verified than were issued.
VerifiedIssued ==
  \A q \in AuthRequest, sid \in Sid, n \in 1 .. MaxIssued :
    exchange[q] = <<"verified", sid, n>> => n <= issued[sid]

RefreshInv ==
  /\ issued \in [Sid -> 0 .. MaxIssued]
  /\ exchange = [q \in AuthRequest |-> exchange[q]]
  /\ VerifiedIssued
  /\ OneLiveRefresh

\* A step that leaves the tokens alone and starts nothing that is verified or
\* claimed keeps the invariant.
LEMMA RefreshAside ==
  ASSUME RefreshInv, NEW q \in AuthRequest, NEW doing, Proceed(q, doing),
         UNCHANGED <<issued, usedRefresh>>,
         \A sid \in Sid, n \in 1 .. MaxIssued :
           doing # <<"claimed", sid, n>> /\ (doing = <<"verified", sid, n>> => n <= issued[sid])
  PROVE  RefreshInv'
<1>1. \A p \in AuthRequest : exchange'[p] = IF p = q THEN doing ELSE exchange[p]
  BY DEF Proceed, RefreshInv
<1>2. exchange' = [p \in AuthRequest |-> exchange'[p]]
  BY DEF Proceed, RefreshInv
<1>3. VerifiedIssued'
  BY <1>1 DEF VerifiedIssued, RefreshInv
<1>4. \A p \in AuthRequest, sid \in Sid, n \in 1 .. MaxIssued :
        exchange'[p] = <<"claimed", sid, n>> => exchange[p] = <<"claimed", sid, n>>
  BY <1>1
<1>5. OneLiveRefresh'
  BY <1>4 DEF OneLiveRefresh, RefreshInv
<1> QED BY <1>2, <1>3, <1>5 DEF RefreshInv

\* A token is claimed: it was the newest, and nobody else had.
LEMMA RefreshClaimed ==
  ASSUME RefreshInv, NEW q \in AuthRequest, NEW sid \in Sid, NEW n \in 1 .. MaxIssued,
         ClaimRefresh(q, sid, n)
  PROVE  RefreshInv'
<1> USE AuthAssumption DEF RefreshInv
<1>1. /\ exchange[q] = <<"verified", sid, n>> /\ <<sid, n>> \notin usedRefresh
      /\ usedRefresh' = usedRefresh \cup {<<sid, n>>} /\ issued' = issued
      /\ exchange' = [exchange EXCEPT ![q] = <<"claimed", sid, n>>]
  BY DEF ClaimRefresh, Unclaimed, Proceed
<1>2. \A p \in AuthRequest :
        exchange'[p] = IF p = q THEN <<"claimed", sid, n>> ELSE exchange[p]
  BY <1>1
<1>3. n = issued[sid]
  <2>1. n \in 1 .. issued[sid]
    BY <1>1 DEF VerifiedIssued
  <2> QED BY <1>1, <2>1 DEF OneLiveRefresh
<1>4. \A p \in AuthRequest, m \in 1 .. MaxIssued : exchange[p] # <<"claimed", sid, m>>
  BY <1>1, <1>3 DEF OneLiveRefresh
<1>5. VerifiedIssued'
  BY <1>1, <1>2 DEF VerifiedIssued
<1>6. OneLiveRefresh'
  <2> SUFFICES ASSUME NEW r \in Sid
               PROVE  /\ \A m \in 1 .. issued'[r] : <<r, m>> \notin usedRefresh' => m = issued'[r]
                      /\ \A p \in AuthRequest, m \in 1 .. MaxIssued :
                           exchange'[p] = <<"claimed", r, m>> =>
                             /\ m = issued'[r] /\ <<r, m>> \in usedRefresh'
                             /\ \A o \in AuthRequest \ {p}, k \in 1 .. MaxIssued :
                                  exchange'[o] # <<"claimed", r, k>>
    BY DEF OneLiveRefresh
  <2>1. CASE r = sid
    BY <1>1, <1>2, <1>3, <1>4, <2>1 DEF OneLiveRefresh
  <2>2. CASE r # sid
    BY <1>1, <1>2, <2>2 DEF OneLiveRefresh
  <2> QED BY <2>1, <2>2
<1>7. exchange' = [p \in AuthRequest |-> exchange'[p]]
  BY <1>1
<1> QED BY <1>1, <1>5, <1>6, <1>7

\* The next token is issued to who claimed the newest.
LEMMA RefreshIssued ==
  ASSUME RefreshInv, NEW q \in AuthRequest, NEW sid \in Sid, NEW n \in 1 .. MaxIssued,
         IssueTokens(q, sid, n)
  PROVE  RefreshInv'
<1> USE AuthAssumption DEF RefreshInv
<1>1. /\ exchange[q] = <<"claimed", sid, n>> /\ issued[sid] < MaxIssued
      /\ issued' = [issued EXCEPT ![sid] = @ + 1] /\ usedRefresh' = usedRefresh
      /\ exchange' = [exchange EXCEPT ![q] = NoExchange]
  BY DEF IssueTokens, Proceed
<1>2. \A p \in AuthRequest : exchange'[p] = IF p = q THEN NoExchange ELSE exchange[p]
  BY <1>1
<1>3. \A r \in Sid : issued'[r] = IF r = sid THEN issued[sid] + 1 ELSE issued[r]
  BY <1>1
<1>4. /\ n = issued[sid] /\ <<sid, n>> \in usedRefresh
      /\ \A o \in AuthRequest \ {q}, k \in 1 .. MaxIssued : exchange[o] # <<"claimed", sid, k>>
  BY <1>1 DEF OneLiveRefresh
<1>5. issued' \in [Sid -> 0 .. MaxIssued]
  BY <1>1
<1>6. \A p \in AuthRequest, r \in Sid, m \in 1 .. MaxIssued, what \in {"verified", "claimed"} :
        exchange'[p] = <<what, r, m>> => p # q /\ exchange[p] = <<what, r, m>>
  BY <1>2 DEF NoExchange
<1>7. VerifiedIssued'
  BY <1>3, <1>6 DEF VerifiedIssued
<1>8. OneLiveRefresh'
  <2> SUFFICES ASSUME NEW r \in Sid
               PROVE  /\ \A m \in 1 .. issued'[r] : <<r, m>> \notin usedRefresh' => m = issued'[r]
                      /\ \A p \in AuthRequest, m \in 1 .. MaxIssued :
                           exchange'[p] = <<"claimed", r, m>> =>
                             /\ m = issued'[r] /\ <<r, m>> \in usedRefresh'
                             /\ \A o \in AuthRequest \ {p}, k \in 1 .. MaxIssued :
                                  exchange'[o] # <<"claimed", r, k>>
    BY DEF OneLiveRefresh
  <2>1. CASE r = sid
    <3>1. \A p \in AuthRequest, m \in 1 .. MaxIssued : exchange'[p] # <<"claimed", sid, m>>
      BY <1>4, <1>6
    <3>2. ASSUME NEW m \in 1 .. issued'[r], <<r, m>> \notin usedRefresh'
          PROVE  m = issued'[r]
      <4>1. m \in 1 .. issued[sid] + 1 /\ m # n
        BY <1>1, <1>3, <1>4, <2>1, <3>2
      <4>2. m \notin 1 .. issued[sid]
        BY <1>1, <1>4, <2>1, <3>2, <4>1 DEF OneLiveRefresh
      <4> QED BY <1>3, <2>1, <4>1, <4>2
    <3> QED BY <2>1, <3>1, <3>2
  <2>2. CASE r # sid
    BY <1>1, <1>3, <1>6, <2>2 DEF OneLiveRefresh
  <2> QED BY <2>1, <2>2
<1>9. exchange' = [p \in AuthRequest |-> exchange'[p]]
  BY <1>1
<1> QED BY <1>5, <1>7, <1>8, <1>9

\* Every step of the service keeps the invariant.
LEMMA RefreshInductive ==
  ASSUME RefreshInv, [AuthNext]_authVars
  PROVE  RefreshInv'
<1> USE AuthAssumption
<1>1. ASSUME NEW q \in AuthRequest, NEW sid \in Sid, NEW n \in 1 .. MaxIssued,
             \/ VerifyRefresh(q, sid, n) \/ RevokeSession(q, sid, n) \/ BlacklistAccess(q, sid, n)
      PROVE  RefreshInv'
  <2>1. CASE VerifyRefresh(q, sid, n)
    BY <2>1, RefreshAside DEF VerifyRefresh, Accepted, RefreshInv
  <2>2. CASE RevokeSession(q, sid, n)
    BY <2>2, RefreshAside DEF RevokeSession
  <2>3. CASE BlacklistAccess(q, sid, n)
    BY <2>3, RefreshAside DEF BlacklistAccess, NoExchange
  <2> QED BY <1>1, <2>1, <2>2, <2>3
<1>2. ASSUME NEW q \in AuthRequest, FailRequest(q) PROVE RefreshInv'
  BY <1>2, RefreshAside DEF FailRequest, NoExchange
<1>3. ASSUME NEW sid \in Sid, Login(sid) PROVE RefreshInv'
  <2>1. /\ issued[sid] = 0 /\ issued' = [issued EXCEPT ![sid] = 1]
        /\ usedRefresh' = usedRefresh /\ exchange' = exchange
    BY <1>3 DEF Login
  <2>2. \A r \in Sid : issued'[r] = IF r = sid THEN 1 ELSE issued[r]
    BY <2>1 DEF RefreshInv
  <2>3. \A q \in AuthRequest, m \in 1 .. MaxIssued :
          exchange[q] # <<"claimed", sid, m>> /\ exchange[q] # <<"verified", sid, m>>
    <3> SUFFICES ASSUME NEW q \in AuthRequest, NEW m \in 1 .. MaxIssued
                 PROVE  exchange[q] # <<"claimed", sid, m>> /\ exchange[q] # <<"verified", sid, m>>
      OBVIOUS
    <3>1. m # issued[sid] /\ ~ (m <= issued[sid])
      BY <2>1
    <3>2. exchange[q] # <<"claimed", sid, m>>
      BY <3>1 DEF RefreshInv, OneLiveRefresh
    <3>3. exchange[q] # <<"verified", sid, m>>
      BY <3>1 DEF RefreshInv, VerifiedIssued
    <3> QED BY <3>2, <3>3
  <2>4. VerifiedIssued'
    BY <2>1, <2>2, <2>3 DEF RefreshInv, VerifiedIssued
  <2>5. OneLiveRefresh'
    BY <2>1, <2>2, <2>3 DEF RefreshInv, OneLiveRefresh
  <2>6. issued' \in [Sid -> 0 .. MaxIssued]
    BY <2>1 DEF RefreshInv
  <2> QED BY <2>1, <2>4, <2>5, <2>6 DEF RefreshInv
<1>4. ASSUME UNCHANGED <<issued, usedRefresh, exchange>> PROVE RefreshInv'
  BY <1>4 DEF RefreshInv, VerifiedIssued, OneLiveRefresh
<1>5. ASSUME NEW t \in Ticket, NEW q \in AuthRequest, TakeTicket(q, t) \/ AcceptSocket(q, t)
      PROVE  RefreshInv'
  <2>1. CASE TakeTicket(q, t)
    BY <2>1, RefreshAside DEF TakeTicket
  <2>2. CASE AcceptSocket(q, t)
    BY <2>2, RefreshAside DEF AcceptSocket, NoExchange
  <2> QED BY <1>5, <2>1, <2>2
<1>6. ASSUME NEW t \in Ticket, ExpireTicket(t) PROVE RefreshInv'
  BY <1>4, <1>6 DEF ExpireTicket
<1>7. ASSUME NEW sid \in Sid, NEW n \in 1 .. MaxIssued, IssueTicket(sid, n) PROVE RefreshInv'
  BY <1>4, <1>7 DEF IssueTicket
<1>8. CASE DeactivateUser
  BY <1>4, <1>8 DEF DeactivateUser
<1>9. CASE UNCHANGED authVars
  BY <1>4, <1>9 DEF authVars
<1> QED
  BY <1>1, <1>2, <1>3, <1>5, <1>6, <1>7, <1>8, <1>9, RefreshClaimed, RefreshIssued
  DEF AuthNext, Ticket

\* routes/auth.py: however many requests present the refresh tokens of a session
\* at once, only the newest can still be spent, and only by one of them.
THEOREM RefreshNeverForks == AuthSpec => []OneLiveRefresh
<1>1. AuthInit => RefreshInv
  BY AuthAssumption DEF AuthInit, RefreshInv, VerifiedIssued, OneLiveRefresh, NoExchange
<1>2. RefreshInv /\ [AuthNext]_authVars => RefreshInv'
  BY RefreshInductive
<1>3. RefreshInv => OneLiveRefresh
  BY DEF RefreshInv
<1> QED BY <1>1, <1>2, <1>3, PTL DEF AuthSpec

\* What a request may be doing.
Exchange ==
  {NoExchange} \cup ({"verified", "claimed", "revoked"} \X Sid \X (1 .. MaxIssued))
               \cup ({"took"} \X Ticket)

\* The types of the keys in Redis and of the requests, one step of one request at a
\* time.
LEMMA AuthTypes ==
  ASSUME AuthTypeOK, [AuthNext]_authVars
  PROVE  AuthTypeOK'
<1> USE AuthAssumption
<1>0. /\ NoExchange \in Exchange
      /\ \A what \in {"verified", "claimed", "revoked"}, sid \in Sid, n \in 1 .. MaxIssued :
           <<what, sid, n>> \in Exchange
      /\ \A t \in Ticket : <<"took", t>> \in Exchange
  BY DEF Exchange
<1>t. /\ issued \in [Sid -> 0 .. MaxIssued]
      /\ usedRefresh \subseteq Sid \X (1 .. MaxIssued)
      /\ blacklist \subseteq {"access", "refresh"} \X Sid \X (1 .. MaxIssued)
      /\ revokedSids \subseteq Sid /\ userActive \in BOOLEAN
      /\ exchange \in [AuthRequest -> Exchange]
      /\ ticketed \in [Sid -> 0 .. MaxTickets]
      /\ tickets \subseteq Ticket /\ opened \subseteq Ticket \X AuthRequest
  BY DEF AuthTypeOK, Exchange
<1>r. /\ MaxIssued \in Nat
      /\ \A q \in AuthRequest : \A x \in Exchange : [exchange EXCEPT ![q] = x] \in [AuthRequest -> Exchange]
  BY <1>t
<1>1. ASSUME NEW q \in AuthRequest, NEW x \in Exchange, Proceed(q, x),
             UNCHANGED <<ticketed, issued, userActive>>,
             usedRefresh' \subseteq Sid \X (1 .. MaxIssued),
             blacklist' \subseteq {"access", "refresh"} \X Sid \X (1 .. MaxIssued),
             revokedSids' \subseteq Sid,
             tickets' \subseteq Ticket, opened' \subseteq Ticket \X AuthRequest
      PROVE  AuthTypeOK'
  <2>1. exchange' \in [AuthRequest -> Exchange]
    BY <1>1, <1>r DEF Proceed
  <2> QED BY <1>1, <1>t, <2>1 DEF AuthTypeOK, Exchange
<1>2. ASSUME NEW q \in AuthRequest, NEW sid \in Sid, NEW n \in 1 .. MaxIssued,
             \/ VerifyRefresh(q, sid, n) \/ ClaimRefresh(q, sid, n)
             \/ RevokeSession(q, sid, n) \/ BlacklistAccess(q, sid, n)
      PROVE  AuthTypeOK'
  <2>0. <<sid, n>> \in Sid \X (1 .. MaxIssued)
        /\ <<"access", sid, n>> \in {"access", "refresh"} \X Sid \X (1 .. MaxIssued)
    OBVIOUS
  <2>1. CASE VerifyRefresh(q, sid, n)
    BY <2>1, <1>0, <1>1, <1>t DEF VerifyRefresh
  <2>2. CASE ClaimRefresh(q, sid, n)
    BY <2>2, <2>0, <1>0, <1>1, <1>t DEF ClaimRefresh
  <2>3. CASE RevokeSession(q, sid, n)
    BY <2>3, <1>0, <1>1, <1>t DEF RevokeSession
  <2>4. CASE BlacklistAccess(q, sid, n)
    BY <2>4, <2>0, <1>0, <1>1, <1>t DEF BlacklistAccess
  <2> QED BY <1>2, <2>1, <2>2, <2>3, <2>4
<1>3. ASSUME NEW q \in AuthRequest, NEW sid \in Sid, NEW n \in 1 .. MaxIssued,
             IssueTokens(q, sid, n)
      PROVE  AuthTypeOK'
  <2>1. exchange' \in [AuthRequest -> Exchange]
    BY <1>3, <1>0, <1>r DEF IssueTokens, Proceed
  <2>2. <<"refresh", sid, n>> \in {"access", "refresh"} \X Sid \X (1 .. MaxIssued)
    OBVIOUS
  <2>3. blacklist' \subseteq {"access", "refresh"} \X Sid \X (1 .. MaxIssued)
    BY <1>3, <1>t, <2>2 DEF IssueTokens
  <2>4. issued' \in [Sid -> 0 .. MaxIssued]
    BY <1>3, <1>t DEF IssueTokens
  <2> QED BY <1>3, <1>t, <2>1, <2>3, <2>4 DEF IssueTokens, AuthTypeOK, Exchange
<1>4. ASSUME NEW q \in AuthRequest, FailRequest(q) PROVE AuthTypeOK'
  BY <1>4, <1>0, <1>1, <1>t DEF FailRequest
<1>5. ASSUME NEW sid \in Sid, Login(sid) PROVE AuthTypeOK'
  <2>1. issued' \in [Sid -> 0 .. MaxIssued]
    BY <1>5, <1>t DEF Login
  <2> QED BY <1>5, <1>t, <2>1 DEF Login, AuthTypeOK, Exchange
<1>6. ASSUME NEW sid \in Sid, NEW n \in 1 .. MaxIssued, IssueTicket(sid, n) PROVE AuthTypeOK'
  <2>1. ticketed' \in [Sid -> 0 .. MaxTickets] /\ ticketed[sid] + 1 \in 1 .. MaxTickets
    BY <1>6, <1>t DEF IssueTicket
  <2>2. <<sid, n, ticketed[sid] + 1>> \in Ticket
    BY <2>1 DEF Ticket
  <2>3. tickets' \subseteq Ticket
    BY <1>6, <1>t, <2>2 DEF IssueTicket
  <2> QED BY <1>6, <1>t, <2>1, <2>3 DEF IssueTicket, AuthTypeOK, Exchange
<1>7. ASSUME NEW t \in Ticket, ExpireTicket(t) PROVE AuthTypeOK'
  BY <1>7, <1>t DEF ExpireTicket, AuthTypeOK, Exchange
<1>8. ASSUME NEW t \in Ticket, NEW q \in AuthRequest, TakeTicket(q, t) PROVE AuthTypeOK'
  BY <1>8, <1>0, <1>1, <1>t DEF TakeTicket
<1>9. ASSUME NEW t \in Ticket, NEW q \in AuthRequest, AcceptSocket(q, t) PROVE AuthTypeOK'
  <2>1. opened' \subseteq Ticket \X AuthRequest
    BY <1>9, <1>t DEF AcceptSocket
  <2> QED BY <2>1, <1>9, <1>0, <1>1, <1>t DEF AcceptSocket
<1>10. CASE DeactivateUser
  BY <1>10, <1>t DEF DeactivateUser, AuthTypeOK, Exchange
<1>11. CASE UNCHANGED authVars
  BY <1>11, <1>t DEF authVars, AuthTypeOK, Exchange
<1> QED BY <1>2, <1>3, <1>4, <1>5, <1>6, <1>7, <1>8, <1>9, <1>10, <1>11 DEF AuthNext, Ticket

\* The types hold at the start.
LEMMA AuthInitially == AuthInit => AuthTypeOK
BY AuthAssumption DEF AuthInit, AuthTypeOK, Ticket

-----------------------------------------------------------------------------
(* SourceSync.  The evidence against the receipts; the lock of the posting  *)
(* worker against the commands.                                              *)

EvidenceInv == businessEvidence.at \in Nat /\ receipts \subseteq Snapshot /\ EvidenceIsNewest

\* Every step of the service keeps the invariant.
LEMMA EvidenceInductive ==
  ASSUME EvidenceInv, [SyncNext]_syncVars
  PROVE  EvidenceInv'
<1> USE SyncAssumption
<1>1. ASSUME NEW d \in Snapshot, Receive(d) PROVE EvidenceInv'
  <2> DEFINE e == businessEvidence
  <2>1. PICK cutoff \in 0..d.at : receipts' = Retained(cutoff) \cup {d}
    BY <1>1 DEF Receive
  <2>2. /\ ~ (e.at = d.at /\ e.rev # d.rev)
        /\ businessEvidence' = IF e.at <= d.at THEN [rev |-> d.rev, at |-> d.at] ELSE e
        /\ contact' = IF contact \in {"none", "blank"} THEN d.contact ELSE contact
    BY <1>1 DEF Receive, Newer, ResolveLead
  <2>3. receipts' \subseteq receipts \cup {d}
    BY <2>1 DEF Retained
  <2>4. \A p \in receipts : p.at \in Nat /\ e.at \in Nat /\ d.at \in Nat
    BY DEF EvidenceInv
  <2>5. businessEvidence'.at \in Nat /\ receipts' \subseteq Snapshot
    BY <2>2, <2>3 DEF EvidenceInv
  <2>6. /\ d.at <= businessEvidence'.at
        /\ d.at = businessEvidence'.at => d.rev = businessEvidence'.rev
        /\ contact' # "none" /\ (contact' = "blank" => d.contact = "blank")
    BY <2>2, <2>5 DEF EvidenceInv
  <2>7. ASSUME NEW p \in receipts
        PROVE  /\ p.at <= businessEvidence'.at
               /\ p.at = businessEvidence'.at => p.rev = businessEvidence'.rev
               /\ contact' # "none" /\ (contact' = "blank" => p.contact = "blank")
    <3>1. /\ p.at <= e.at /\ (p.at = e.at => p.rev = e.rev)
          /\ contact # "none" /\ (contact = "blank" => p.contact = "blank")
      BY DEF EvidenceInv, EvidenceIsNewest
    <3>2. CASE e.at <= d.at
      BY <2>2, <2>4, <3>1, <3>2
    <3>3. CASE ~ (e.at <= d.at)
      BY <2>2, <2>4, <3>1, <3>3
    <3> QED BY <3>2, <3>3
  <2> QED BY <2>3, <2>5, <2>6, <2>7 DEF EvidenceInv, EvidenceIsNewest
<1>2. ASSUME NEW d \in Snapshot, IngestSourceCall(d) PROVE EvidenceInv'
  BY <1>2 DEF IngestSourceCall, ResolveLead, EvidenceInv, EvidenceIsNewest
<1>3. CASE UNCHANGED evidenceVars
  BY <1>3 DEF evidenceVars, EvidenceInv, EvidenceIsNewest
<1>4. ASSUME NEW r \in RequestId, Stage(r) \/ Age(r) PROVE EvidenceInv'
  BY <1>3, <1>4 DEF Stage, Age
<1>5. ASSUME NEW w \in SyncWorker, WorkerStep(w) \/ CrashWorker(w) PROVE EvidenceInv'
  BY <1>3, <1>5 DEF WorkerStep, CrashWorker, Find, TakeLock, Post, Record
<1>6. CASE Reconfigure
  BY <1>3, <1>6 DEF Reconfigure
<1>7. CASE UNCHANGED syncVars
  BY <1>3, <1>7 DEF syncVars, evidenceVars
<1> QED BY <1>1, <1>2, <1>4, <1>5, <1>6, <1>7 DEF SyncNext

\* business_evidence.py and voice_ingest.py: no accepted snapshot is newer than
\* the evidence, in whatever order and however often deliveries arrive, and a
\* contact once named is kept.
THEOREM EvidenceStaysNewest == SyncSpec => []EvidenceIsNewest
<1>1. SyncInit => EvidenceInv
  BY DEF SyncInit, EvidenceInv, EvidenceIsNewest
<1>2. EvidenceInv /\ [SyncNext]_syncVars => EvidenceInv'
  BY EvidenceInductive
<1>3. EvidenceInv => EvidenceIsNewest
  BY DEF EvidenceInv
<1> QED BY <1>1, <1>2, <1>3, PTL DEF SyncSpec

-----------------------------------------------------------------------------
\* One worker holds the lock; what it posts is pending, and what it was told is
\* persisted is.
Holds(w) == worker[w].step \in {"posting", "posted"}

PostInv ==
  /\ worker \in [SyncWorker ->
       [step : {"idle", "found", "posting", "posted"}, request : RequestId \cup {0},
        answer : {"none", "receipt", "rejected", "error"}, view : SUBSET RequestId]]
  /\ command \in [RequestId -> [state : {"none", "pending", "applied", "requires_review"},
                                tries : Nat]]
  /\ \A v, w \in SyncWorker : Holds(v) /\ Holds(w) => v = w
  /\ \A w \in SyncWorker : worker[w].step = "posting" =>
       worker[w].request \in RequestId /\ command[worker[w].request].state = "pending"
  /\ \A w \in SyncWorker :
       worker[w].step = "posted" /\ worker[w].answer = "receipt" => worker[w].request \in sent
  /\ \A r \in RequestId : command[r].state = "applied" => r \in sent

\* Every step of the service keeps the invariant.
LEMMA PostInductive ==
  ASSUME PostInv, [SyncNext]_syncVars
  PROVE  PostInv'
<1> USE SyncAssumption
<1>1. ASSUME NEW d \in Snapshot, Receive(d) \/ IngestSourceCall(d) PROVE PostInv'
  BY <1>1 DEF Receive, IngestSourceCall, commandVars, PostInv, Holds
<1>2. ASSUME NEW r \in RequestId, Stage(r) PROVE PostInv'
  <2>1. /\ command' = [command EXCEPT ![r].state = "pending"] /\ command[r].state = "none"
        /\ worker' = worker /\ sent' = sent
    BY <1>2 DEF Stage
  <2>2. \A w \in SyncWorker : ~ Holds(w)
    BY <1>2 DEF Stage, Locked, Holds
  <2>3. \A s \in RequestId : command'[s].state = "applied" => command[s].state = "applied"
    BY <2>1 DEF PostInv
  <2>4. command' \in [RequestId -> [state : {"none", "pending", "applied", "requires_review"},
                                    tries : Nat]]
    BY <2>1 DEF PostInv
  <2> QED BY <2>1, <2>2, <2>3, <2>4 DEF PostInv, Holds
<1>3. ASSUME NEW r \in RequestId, Age(r) PROVE PostInv'
  BY <1>3 DEF Age, PostInv, Holds
<1>4. ASSUME NEW w \in SyncWorker, NEW y, 
             y \in [step : {"idle", "found"}, request : RequestId \cup {0},
                    answer : {"none", "receipt", "rejected", "error"}, view : SUBSET RequestId],
             worker' = [worker EXCEPT ![w] = y], UNCHANGED <<command, sent>>
      PROVE  PostInv'
  BY <1>4 DEF PostInv, Holds
<1>5. ASSUME NEW w \in SyncWorker, Find(w) PROVE PostInv'
  <2>1. worker' = [worker EXCEPT ![w].step = "found"] /\ UNCHANGED <<command, sent>>
    BY <1>5 DEF Find
  <2> QED BY <2>1 DEF PostInv, Holds
<1>6. ASSUME NEW w \in SyncWorker, TakeLock(w) PROVE PostInv'
  <2>1. PICK r \in RequestId \cup {0} :
          /\ IF Tryable = {} THEN r = 0 ELSE IsFirst(r, Tryable)
          /\ worker' = [worker EXCEPT ![w] =
               [step |-> IF r = 0 THEN "posted" ELSE "posting", request |-> r,
                answer |-> "none", view |-> Reviewed]]
    BY <1>6 DEF TakeLock
  <2>2. UNCHANGED <<command, sent>> /\ \A v \in SyncWorker : ~ Holds(v)
    BY <1>6 DEF TakeLock, Locked, Holds
  <2>3. r # 0 => r \in RequestId /\ command[r].state = "pending"
    BY <2>1 DEF IsFirst, Tryable, Pending
  <2>4. Reviewed \in SUBSET RequestId
    BY DEF Reviewed, Pending
  <2>5. \A v \in SyncWorker : v # w => worker'[v] = worker[v]
    BY <2>1 DEF PostInv
  <2>6. /\ worker'[w].step = IF r = 0 THEN "posted" ELSE "posting"
        /\ worker'[w].request = r /\ worker'[w].answer = "none"
    BY <2>1 DEF PostInv
  <2>7. worker' \in [SyncWorker ->
          [step : {"idle", "found", "posting", "posted"}, request : RequestId \cup {0},
           answer : {"none", "receipt", "rejected", "error"}, view : SUBSET RequestId]]
    BY <2>1, <2>4 DEF PostInv
  <2> QED BY <2>2, <2>3, <2>5, <2>6, <2>7 DEF PostInv, Holds
<1>7. ASSUME NEW w \in SyncWorker, Post(w) PROVE PostInv'
  <2>1. PICK answer \in {"receipt", "rejected", "error"}, persisted \in BOOLEAN :
          /\ answer = "receipt" => persisted
          /\ sent' = IF persisted THEN sent \cup {worker[w].request} ELSE sent
          /\ worker' = [worker EXCEPT ![w].step = "posted", ![w].answer = answer]
    BY <1>7 DEF Post
  <2>2. worker[w].step = "posting" /\ command' = command
    BY <1>7 DEF Post
  <2>3. \A v \in SyncWorker : v # w => worker'[v] = worker[v]
    BY <2>1 DEF PostInv
  <2>4. /\ worker'[w].step = "posted" /\ worker'[w].answer = answer
        /\ worker'[w].request = worker[w].request
    BY <2>1 DEF PostInv
  <2>5. worker' \in [SyncWorker ->
          [step : {"idle", "found", "posting", "posted"}, request : RequestId \cup {0},
           answer : {"none", "receipt", "rejected", "error"}, view : SUBSET RequestId]]
    <3> DEFINE Row == [step : {"idle", "found", "posting", "posted"}, request : RequestId \cup {0},
                       answer : {"none", "receipt", "rejected", "error"}, view : SUBSET RequestId]
               x == [worker[w] EXCEPT !.step = "posted"]
               y == [x EXCEPT !.answer = answer]
    <3>1. worker' = [worker EXCEPT ![w] = y]
      BY <2>1 DEF PostInv
    <3>2. x \in Row
      BY DEF PostInv
    <3>3. y \in Row
      <4> HIDE DEF x
      <4> QED BY <3>2
    <3> HIDE DEF y
    <3> QED BY <3>1, <3>3 DEF PostInv
  <2>6. sent \subseteq sent' /\ (answer = "receipt" => worker[w].request \in sent')
    BY <2>1
  <2> QED BY <2>2, <2>3, <2>4, <2>5, <2>6 DEF PostInv, Holds
<1>8. ASSUME NEW w \in SyncWorker, Record(w) PROVE PostInv'
  <2>1. /\ worker[w].step = "posted" /\ command' = Outcome(w, worker[w].answer)
        /\ worker' = [worker EXCEPT ![w] = Asleep] /\ sent' = sent
    BY <1>8 DEF Record
  <2>2. worker' \in [SyncWorker ->
          [step : {"idle", "found", "posting", "posted"}, request : RequestId \cup {0},
           answer : {"none", "receipt", "rejected", "error"}, view : SUBSET RequestId]]
    BY <2>1 DEF PostInv, Asleep
  <2>3. \A v \in SyncWorker : ~ (worker'[v].step \in {"posting", "posted"})
    BY <2>1 DEF PostInv, Holds, Asleep
  <2>4. ASSUME NEW r \in RequestId
        PROVE  /\ command'[r] \in [state : {"none", "pending", "applied", "requires_review"},
                                   tries : Nat]
               /\ command'[r].state = "applied" => r \in sent
    <3>0. command[r] \in [state : {"none", "pending", "applied", "requires_review"}, tries : Nat]
      BY DEF PostInv
    <3>1. CASE r = worker[w].request
      BY <2>1, <3>0, <3>1 DEF Outcome, PostInv
    <3>2. CASE r # worker[w].request /\ r \in worker[w].view
      BY <2>1, <3>0, <3>2 DEF Outcome
    <3>3. CASE r # worker[w].request /\ r \notin worker[w].view
      BY <2>1, <3>0, <3>3 DEF Outcome, PostInv
    <3> QED BY <3>1, <3>2, <3>3
  <2>5. command' \in [RequestId -> [state : {"none", "pending", "applied", "requires_review"},
                                    tries : Nat]]
    BY <2>1, <2>4 DEF Outcome
  <2> QED BY <2>1, <2>2, <2>3, <2>4, <2>5 DEF PostInv, Holds
<1>9. ASSUME NEW w \in SyncWorker, CrashWorker(w) PROVE PostInv'
  BY <1>4, <1>9 DEF CrashWorker, Asleep
<1>10. CASE Reconfigure
  BY <1>10 DEF Reconfigure, PostInv, Holds, Asleep
<1>11. CASE UNCHANGED syncVars
  BY <1>11 DEF syncVars, PostInv, Holds
<1> QED
  BY <1>1, <1>2, <1>3, <1>5, <1>6, <1>7, <1>8, <1>9, <1>10, <1>11 DEF SyncNext, WorkerStep

\* source_commands.py: a worker only posts a command that is pending on record,
\* one worker at a time, and none is recorded as applied that the source system
\* has not persisted, whichever workers crash, retry or wait for the lock.
THEOREM DecidedIsNotPosted == SyncSpec => []NoPostAfterDecision
<1>1. SyncInit => PostInv
  BY DEF SyncInit, PostInv, Holds, Asleep
<1>2. PostInv /\ [SyncNext]_syncVars => PostInv'
  BY PostInductive
<1>3. PostInv => NoPostAfterDecision
  BY DEF PostInv, Holds, NoPostAfterDecision
<1> QED BY <1>1, <1>2, <1>3, PTL DEF SyncSpec

-----------------------------------------------------------------------------
(* WorkflowIntegrity.  Invariant: what a sweep has read and decided is true *)
(* of the committed rows (SweepTrue), and no two sweeps decide one workflow. *)

HeldRow ==
  [status : HeldStatus, step : 0..LastStep, checkpoint : 0..LastStep, kept : SUBSET (1..LastStep),
   lease : {"active", "overdue", "expired", "released"}, waiting : BOOLEAN]
SweepVerdict == [status : {"active"} \cup Over, step : 0..LastStep, say : {"recovered", "cancelled"}]
StepsRead == UNION {[S -> 0..LastStep] : S \in SUBSET Leased}
VerdictsTaken == UNION {[S -> SweepVerdict] : S \in SUBSET Leased}
SweepRow ==
  [at : {"none", "expired", "recovering", "done"}, expired : SUBSET Leased,
   todo : SUBSET Leased, at_step : StepsRead, verdict : VerdictsTaken, stalled : SUBSET Leased]

\* The verdict v is true of the row r.
VerdictTrue(v, r) ==
  /\ v.say = "recovered" => /\ v.status = "active" /\ r.status \notin Final
                            /\ v.step \in r.kept
  /\ v.say = "cancelled" => /\ v.status \in Over
                            /\ r.status \in Over => v.status = r.status

\* What one sweep has read and decided is true of the rows h.
SweepTrue(x, h) ==
  /\ x.at = "recovering" \/ x.todo = {}
  /\ x.at = "done" \/ x.stalled = {}
  /\ \A w \in Leased : w \in DOMAIN x.at_step => x.at_step[w] \in {0} \cup h[w].kept
  /\ \A w \in Leased : w \in DOMAIN x.verdict =>
       VerdictTrue(x.verdict[w], h[w]) /\ w \notin x.stalled

SweepsInv ==
  /\ held \in [Leased -> HeldRow]
  /\ \A w \in Leased : held[w].checkpoint \in {0} \cup held[w].kept
  /\ sweep \in [Sweeper -> SweepRow]
  /\ \A s \in Sweeper : SweepTrue(sweep[s], held)
  /\ \A r, s \in Sweeper :
       r # s => DOMAIN sweep[r].verdict \cap DOMAIN sweep[s].verdict = {}

\* The rows that are final stay so.
FinalStays == \A w \in Leased : held[w].status \in Final => held'[w].status = held[w].status

\* A row is written, whose checkpoints stay: not the status of one that a sweep has locked.
LEMMA RowWrites ==
  ASSUME SweepsInv, NEW w \in Leased, NEW y \in HeldRow, held' = [held EXCEPT ![w] = y],
         sweep' = sweep, held[w].kept \subseteq y.kept, y.checkpoint \in {0} \cup y.kept,
         SweepLocks(w) => y.status = held[w].status
  PROVE  SweepsInv' /\ ((held[w].status \in Final => y.status = held[w].status) => FinalStays)
<1>1. \A u \in Leased : held'[u] = IF u = w THEN y ELSE held[u]
  BY DEF SweepsInv
<1>2. /\ held' \in [Leased -> HeldRow]
      /\ \A u \in Leased : held'[u].checkpoint \in {0} \cup held'[u].kept
  BY <1>1 DEF SweepsInv
<1>3. ASSUME NEW s \in Sweeper PROVE SweepTrue(sweep[s], held')
  <2>1. SweepTrue(sweep[s], held)
    BY DEF SweepsInv
  <2>2. \A u \in Leased : held[u].kept \subseteq held'[u].kept
    BY <1>1
  <2>3. w \in DOMAIN sweep[s].verdict => SweepLocks(w)
    BY DEF SweepLocks
  <2>4. \A u \in Leased : u \in DOMAIN sweep[s].verdict => held'[u].status = held[u].status
    BY <1>1, <2>3
  <2>5. \A u \in Leased : u \in DOMAIN sweep[s].verdict => VerdictTrue(sweep[s].verdict[u], held'[u])
    BY <2>1, <2>2, <2>4 DEF SweepTrue, VerdictTrue
  <2> QED BY <2>1, <2>2, <2>5 DEF SweepTrue
<1>4. (held[w].status \in Final => y.status = held[w].status) => FinalStays
  BY <1>1 DEF FinalStays
<1>5. \A r, s \in Sweeper : r # s => DOMAIN sweep'[r].verdict \cap DOMAIN sweep'[s].verdict = {}
  BY DEF SweepsInv
<1> QED BY <1>2, <1>3, <1>4, <1>5 DEF SweepsInv

\* A sweep goes on, the rows stay as they are.
LEMMA SweepGoesOn ==
  ASSUME SweepsInv, NEW s \in Sweeper, NEW y \in SweepRow, sweep' = [sweep EXCEPT ![s] = y],
         held' = held, SweepTrue(y, held),
         \A w \in DOMAIN y.verdict : w \in DOMAIN sweep[s].verdict \/ ~ SweepLocks(w)
  PROVE  SweepsInv' /\ FinalStays
<1>1. \A r \in Sweeper : sweep'[r] = IF r = s THEN y ELSE sweep[r]
  BY DEF SweepsInv
<1>2. sweep' \in [Sweeper -> SweepRow]
  BY DEF SweepsInv
<1>3. \A r \in Sweeper : SweepTrue(sweep'[r], held')
  BY <1>1 DEF SweepsInv
<1>4. ASSUME NEW r \in Sweeper, r # s
      PROVE  DOMAIN sweep[r].verdict \cap DOMAIN y.verdict = {}
  <2>1. DOMAIN sweep[r].verdict \cap DOMAIN sweep[s].verdict = {}
    BY <1>4 DEF SweepsInv
  <2>2. \A w \in DOMAIN sweep[r].verdict : SweepLocks(w)
    BY DEF SweepLocks
  <2> QED BY <2>1, <2>2
<1>5. \A r, q \in Sweeper : r # q => DOMAIN sweep'[r].verdict \cap DOMAIN sweep'[q].verdict = {}
  BY <1>1, <1>4 DEF SweepsInv
<1> QED BY <1>2, <1>3, <1>5 DEF SweepsInv, FinalStays

\* A sweep that has not begun has decided nothing.
LEMMA NoSweepIsTrue == NoSweep \in SweepRow /\ \A h : SweepTrue(NoSweep, h)
<1>1. [w \in {} |-> 0] \in StepsRead
  <2>1. [w \in {} |-> 0] \in [{} -> 0..LastStep]
    OBVIOUS
  <2> QED BY <2>1 DEF StepsRead
<1>2. [w \in {} |-> 0] \in VerdictsTaken
  <2>1. [w \in {} |-> 0] \in [{} -> SweepVerdict]
    OBVIOUS
  <2> QED BY <2>1 DEF VerdictsTaken
<1>3. NoSweep \in SweepRow
  BY <1>1, <1>2 DEF NoSweep, SweepRow
<1>4. DOMAIN NoSweep.verdict = {} /\ DOMAIN NoSweep.at_step = {}
  BY DEF NoSweep
<1> QED BY <1>3, <1>4 DEF NoSweep, SweepTrue

\* A row as it is changed.
LEMMA RowChanged ==
  ASSUME NEW r \in HeldRow, NEW a \in HeldStatus, NEW b \in 0..LastStep, NEW c \in BOOLEAN
  PROVE  /\ Changed(r, a, b, c) \in HeldRow
         /\ Changed(r, a, b, c).kept = r.kept
         /\ Changed(r, a, b, c).checkpoint = r.checkpoint
         /\ Changed(r, a, b, c).status = a
<1> DEFINE x == [r EXCEPT !.status = a]
           y == [x EXCEPT !.step = b]
           z == [y EXCEPT !.waiting = c]
<1>1. x \in HeldRow /\ x.kept = r.kept /\ x.checkpoint = r.checkpoint /\ x.status = a
  BY DEF HeldRow
<1>2. Changed(r, a, b, c) = z
  BY DEF Changed
<1> HIDE DEF x
<1>3. y \in HeldRow /\ y.kept = r.kept /\ y.checkpoint = r.checkpoint /\ y.status = a
  BY <1>1 DEF HeldRow
<1> HIDE DEF y
<1>4. z \in HeldRow /\ z.kept = r.kept /\ z.checkpoint = r.checkpoint /\ z.status = a
  BY <1>3 DEF HeldRow
<1> HIDE DEF z
<1> QED BY <1>2, <1>4

\* Who has the row's lock writes one that is not final.
LEMMA LockedWrites ==
  ASSUME SweepsInv, NEW w \in Leased, NEW a \in HeldStatus, NEW b \in 0..LastStep, NEW c \in BOOLEAN,
         Write(w, a, b, c), sweep' = sweep, ~ SweepLocks(w), held[w].status \notin Final
  PROVE  SweepsInv' /\ FinalStays
<1> PICK y : y = Changed(held[w], a, b, c)
  OBVIOUS
<1>1. held[w] \in HeldRow /\ held[w].checkpoint \in {0} \cup held[w].kept
  BY DEF SweepsInv
<1>2. y \in HeldRow /\ y.kept = held[w].kept /\ y.checkpoint = held[w].checkpoint
  BY <1>1, RowChanged
<1>3. held' = [held EXCEPT ![w] = y]
  BY DEF Write
<1> QED BY <1>1, <1>2, <1>3, RowWrites

\* Workers, approvers and operators.
LEMMA WorkersAreSafe ==
  ASSUME SweepsInv, NEW w \in Leased,
         \/ Advances(w) \/ Checkpoints(w)
         \/ \E status \in Over : Ends(w, status)
         \/ \E approval \in BOOLEAN : Pauses(w, approval) \/ Resumes(w, approval)
         \/ Rejects(w)
         \/ \E status \in HeldStatus, step \in 0..LastStep : Restores(w, status, step)
         \/ Validate(w) \/ FollowAdvice(w)
         \/ TakesLease(w) \/ ReleasesLease(w) \/ LeaseLapses(w)
  PROVE  SweepsInv' /\ FinalStays
<1>0. /\ held[w] \in HeldRow /\ held[w].checkpoint \in {0} \cup held[w].kept
      /\ held[w].step \in 0..LastStep /\ held[w].waiting \in BOOLEAN
      /\ {"active", "paused", "failed"} \cup Over \subseteq HeldStatus
  BY DEF SweepsInv, HeldRow, HeldStatus, Over
<1>1. CASE Advances(w)
  <2>1. held[w].step + 1 \in 0..LastStep
    BY <1>0, <1>1, IntegrityAssumption DEF Advances
  <2> QED BY <1>0, <1>1, <2>1, LockedWrites DEF Advances, Final
<1>2. CASE Checkpoints(w)
  <2> PICK marks : marks = held[w].kept \cup {held[w].step}
    OBVIOUS
  <2> DEFINE y == [held[w] EXCEPT !.checkpoint = held[w].step, !.kept = marks]
  <2>1. marks \in SUBSET (1..LastStep)
    BY <1>0, <1>2, IntegrityAssumption DEF Checkpoints, HeldRow
  <2>2. /\ y \in HeldRow /\ y.kept = marks /\ y.checkpoint = held[w].step
        /\ y.status = held[w].status
    BY <1>0, <2>1 DEF HeldRow
  <2>3. held' = [held EXCEPT ![w] = y] /\ sweep' = sweep
    BY <1>2 DEF Checkpoints, SweepsInv
  <2> HIDE DEF y
  <2> QED BY <2>2, <2>3, RowWrites
<1>3. ASSUME NEW status \in Over, Ends(w, status) PROVE SweepsInv' /\ FinalStays
  BY <1>0, <1>3, LockedWrites DEF Ends, Final
<1>4. ASSUME NEW asking \in BOOLEAN, Pauses(w, asking) PROVE SweepsInv' /\ FinalStays
  <2> PICK c \in BOOLEAN : c = (held[w].waiting \/ asking)
    OBVIOUS
  <2> QED BY <1>0, <1>4, LockedWrites DEF Pauses, Final
<1>5. ASSUME NEW deciding \in BOOLEAN, Resumes(w, deciding) PROVE SweepsInv' /\ FinalStays
  <2> PICK c \in BOOLEAN : c = (held[w].waiting /\ ~ deciding)
    OBVIOUS
  <2> QED BY <1>0, <1>5, LockedWrites DEF Resumes, Final
<1>6. CASE Rejects(w)
  BY <1>0, <1>6, LockedWrites DEF Rejects, Final
<1>7. ASSUME NEW status \in HeldStatus, NEW step \in 0..LastStep, Restores(w, status, step)
      PROVE  SweepsInv' /\ FinalStays
  BY <1>0, <1>7, LockedWrites DEF Restores
<1>8. CASE Validate(w)
  BY <1>8 DEF Validate, SweepsInv, FinalStays
<1>9. CASE FollowAdvice(w)
  <2>1. held[w].checkpoint \in 0..LastStep
    BY <1>0 DEF HeldRow
  <2> QED BY <1>0, <1>9, <2>1, LockedWrites DEF FollowAdvice, Final
<1>10. ASSUME NEW l \in {"active", "released", "overdue"},
              held' = [held EXCEPT ![w].lease = l], sweep' = sweep
       PROVE  SweepsInv' /\ FinalStays
  <2> DEFINE y == [held[w] EXCEPT !.lease = l]
  <2>1. /\ y \in HeldRow /\ y.kept = held[w].kept /\ y.checkpoint = held[w].checkpoint
        /\ y.status = held[w].status
    BY <1>0 DEF HeldRow
  <2>2. held' = [held EXCEPT ![w] = y]
    BY <1>10
  <2> HIDE DEF y
  <2> QED BY <1>0, <1>10, <2>1, <2>2, RowWrites
<1>11. TakesLease(w) \/ ReleasesLease(w) \/ LeaseLapses(w) => SweepsInv' /\ FinalStays
  BY <1>10 DEF TakesLease, ReleasesLease, LeaseLapses
<1> QED BY <1>1, <1>2, <1>3, <1>4, <1>5, <1>6, <1>7, <1>8, <1>9, <1>11

\* The steps of a sweep before its commit.
LEMMA SweepsAreSafe ==
  ASSUME SweepsInv, NEW s \in Sweeper,
         \/ ExpireLeases(s) \/ FindOrphaned(s)
         \/ \E w \in Leased : ReadCheckpoint(s, w) \/ RecoverOrphan(s, w)
         \/ \E quiet \in SUBSET Leased : FindStalled(s, quiet)
         \/ AbortSweep(s)
  PROVE  SweepsInv' /\ FinalStays
<1>0. sweep[s] \in SweepRow /\ SweepTrue(sweep[s], held)
  BY DEF SweepsInv
<1>1. CASE ExpireLeases(s)
  <2> DEFINE e == {w \in Leased : held[w].lease = "overdue" /\ ~ LeaseLocked(w)}
             x == [sweep[s] EXCEPT !.at = "expired"]
             y == [x EXCEPT !.expired = e]
  <2>1. sweep' = [sweep EXCEPT ![s] = y] /\ held' = held
    BY <1>1 DEF ExpireLeases, SweepsInv
  <2>2. e \in SUBSET Leased
    OBVIOUS
  <2> HIDE DEF e
  <2>3. /\ x \in SweepRow /\ x.at = "expired"
        /\ x.todo = sweep[s].todo /\ x.at_step = sweep[s].at_step
        /\ x.verdict = sweep[s].verdict /\ x.stalled = sweep[s].stalled
    BY <1>0 DEF SweepRow
  <2> HIDE DEF x
  <2>4. /\ y \in SweepRow /\ y.at = "expired" /\ y.todo = x.todo /\ y.at_step = x.at_step
        /\ y.verdict = x.verdict /\ y.stalled = x.stalled
    BY <2>2, <2>3 DEF SweepRow
  <2> HIDE DEF y
  <2>5. SweepTrue(y, held)
    BY <1>0, <1>1, <2>3, <2>4 DEF SweepTrue, ExpireLeases
  <2> QED BY <2>1, <2>3, <2>4, <2>5, SweepGoesOn
<1>2. CASE FindOrphaned(s)
  <2> DEFINE e == {w \in Leased : /\ held[w].status \in {"active", "paused"}
                                  /\ held[w].lease = "expired" \/ w \in sweep[s].expired}
             x == [sweep[s] EXCEPT !.at = "recovering"]
             y == [x EXCEPT !.todo = e]
  <2>1. sweep' = [sweep EXCEPT ![s] = y] /\ held' = held
    BY <1>2 DEF FindOrphaned, SweepsInv
  <2>2. e \in SUBSET Leased
    OBVIOUS
  <2> HIDE DEF e
  <2>3. /\ x \in SweepRow /\ x.at = "recovering" /\ x.at_step = sweep[s].at_step
        /\ x.verdict = sweep[s].verdict /\ x.stalled = sweep[s].stalled
    BY <1>0 DEF SweepRow
  <2> HIDE DEF x
  <2>4. /\ y \in SweepRow /\ y.at = "recovering" /\ y.at_step = x.at_step
        /\ y.verdict = x.verdict /\ y.stalled = x.stalled
    BY <2>2, <2>3 DEF SweepRow
  <2> HIDE DEF y
  <2>5. SweepTrue(y, held)
    BY <1>0, <1>2, <2>3, <2>4 DEF SweepTrue, FindOrphaned
  <2> QED BY <2>1, <2>3, <2>4, <2>5, SweepGoesOn
<1>3. ASSUME NEW w \in Leased, ReadCheckpoint(s, w) PROVE SweepsInv' /\ FinalStays
  <2> DEFINE g == sweep[s].at_step
             f == [u \in DOMAIN g \cup {w} |-> IF u = w THEN held[w].checkpoint ELSE g[u]]
             y == [sweep[s] EXCEPT !.at_step = f]
  <2>1. sweep' = [sweep EXCEPT ![s] = y] /\ held' = held
    BY <1>3 DEF ReadCheckpoint, SweepsInv
  <2>2. f \in StepsRead
    <3>1. PICK S \in SUBSET Leased : g \in [S -> 0..LastStep]
      BY <1>0 DEF SweepRow, StepsRead
    <3>2. held[w].checkpoint \in 0..LastStep
      BY DEF SweepsInv, HeldRow
    <3>3. f \in [S \cup {w} -> 0..LastStep]
      BY <3>1, <3>2
    <3> QED BY <3>3 DEF StepsRead
  <2>3. \A u \in Leased : u \in DOMAIN f => f[u] \in {0} \cup held[u].kept
    <3>1. held[w].checkpoint \in {0} \cup held[w].kept
      BY DEF SweepsInv
    <3> QED BY <1>0, <3>1 DEF SweepTrue
  <2> HIDE DEF f
  <2>4. /\ y \in SweepRow /\ y.at = sweep[s].at /\ y.todo = sweep[s].todo /\ y.at_step = f
        /\ y.verdict = sweep[s].verdict /\ y.stalled = sweep[s].stalled
    BY <1>0, <2>2 DEF SweepRow
  <2> HIDE DEF y
  <2>5. SweepTrue(y, held)
    BY <1>0, <2>3, <2>4 DEF SweepTrue
  <2> QED BY <2>1, <2>4, <2>5, SweepGoesOn
<1>4. ASSUME NEW w \in Leased, RecoverOrphan(s, w) PROVE SweepsInv' /\ FinalStays
  <2> DEFINE g == sweep[s].verdict
             v == Recovered(w, sweep[s].at_step[w])
             f == [u \in DOMAIN g \cup {w} |-> IF u = w THEN v ELSE g[u]]
             x == [sweep[s] EXCEPT !.todo = @ \ {w}]
             y == [x EXCEPT !.verdict = f]
  <2>1. sweep' = [sweep EXCEPT ![s] = y] /\ held' = held
    BY <1>4 DEF RecoverOrphan, SweepsInv
  <2>2. /\ w \in DOMAIN sweep[s].at_step /\ w \in sweep[s].todo /\ ~ SweepLocks(w)
    BY <1>4 DEF RecoverOrphan
  <2>3. /\ sweep[s].at_step[w] \in 0..LastStep
        /\ sweep[s].at_step[w] \in {0} \cup held[w].kept
        /\ held[w] \in HeldRow
    BY <1>0, <2>2 DEF SweepRow, StepsRead, SweepTrue, SweepsInv
  <2>4. v \in SweepVerdict /\ VerdictTrue(v, held[w])
    <3>1. CASE sweep[s].at_step[w] # 0 /\ held[w].status \notin Final
      BY <2>3, <3>1 DEF Recovered, SweepVerdict, VerdictTrue
    <3>2. CASE ~ (sweep[s].at_step[w] # 0 /\ held[w].status \notin Final)
      <4> PICK status : status = IF held[w].status \in Over THEN held[w].status ELSE "cancelled"
        OBVIOUS
      <4>1. v = [status |-> status, step |-> held[w].step, say |-> "cancelled"]
        BY <3>2 DEF Recovered
      <4>2. status \in Over /\ (held[w].status \in Over => status = held[w].status)
        BY DEF Over
      <4>3. held[w].step \in 0..LastStep
        BY <2>3 DEF HeldRow
      <4> QED BY <4>1, <4>2, <4>3 DEF SweepVerdict, VerdictTrue
    <3> QED BY <3>1, <3>2
  <2> HIDE DEF v
  <2>5. f \in VerdictsTaken
    <3>1. PICK S \in SUBSET Leased : g \in [S -> SweepVerdict]
      BY <1>0 DEF SweepRow, VerdictsTaken
    <3>2. f \in [S \cup {w} -> SweepVerdict]
      BY <2>4, <3>1
    <3> QED BY <3>2 DEF VerdictsTaken
  <2>6. /\ DOMAIN f = DOMAIN g \cup {w} /\ f[w] = v
        /\ \A u \in DOMAIN g : u # w => f[u] = g[u]
    OBVIOUS
  <2> HIDE DEF f
  <2>7. /\ x \in SweepRow /\ x.at = sweep[s].at /\ x.todo = sweep[s].todo \ {w}
        /\ x.at_step = sweep[s].at_step /\ x.stalled = sweep[s].stalled
    BY <1>0 DEF SweepRow
  <2> HIDE DEF x
  <2>8. /\ y \in SweepRow /\ y.at = x.at /\ y.todo = x.todo /\ y.at_step = x.at_step
        /\ y.verdict = f /\ y.stalled = x.stalled
    BY <2>5, <2>7 DEF SweepRow
  <2> HIDE DEF y
  <2>9. SweepTrue(y, held)
    <3>1. sweep[s].at = "recovering" /\ sweep[s].stalled = {}
      BY <1>0, <2>2 DEF SweepTrue
    <3>2. \A u \in Leased : u \in DOMAIN g => VerdictTrue(g[u], held[u])
      BY <1>0 DEF SweepTrue
    <3>3. \A u \in Leased : u \in DOMAIN y.at_step => y.at_step[u] \in {0} \cup held[u].kept
      BY <1>0, <2>7, <2>8 DEF SweepTrue
    <3> HIDE DEF g
    <3> QED BY <2>4, <2>6, <2>7, <2>8, <3>1, <3>2, <3>3 DEF SweepTrue
  <2>10. \A u \in DOMAIN y.verdict : u \in DOMAIN sweep[s].verdict \/ ~ SweepLocks(u)
    BY <2>2, <2>6, <2>8
  <2>11. y \in SweepRow
    BY <2>8
  <2> QED BY <2>1, <2>9, <2>10, <2>11, SweepGoesOn
<1>5. ASSUME NEW quiet \in SUBSET Leased, FindStalled(s, quiet) PROVE SweepsInv' /\ FinalStays
  <2> DEFINE e == {w \in quiet : /\ w \notin DOMAIN sweep[s].verdict
                                 /\ held[w].status \in {"active", "paused"}}
             x == [sweep[s] EXCEPT !.at = "done"]
             y == [x EXCEPT !.stalled = e]
  <2>1. sweep' = [sweep EXCEPT ![s] = y] /\ held' = held /\ sweep[s].todo = {}
    BY <1>5 DEF FindStalled, SweepsInv
  <2>2. e \in SUBSET Leased /\ \A w \in e : w \notin DOMAIN sweep[s].verdict
    OBVIOUS
  <2> HIDE DEF e
  <2>3. /\ x \in SweepRow /\ x.at = "done" /\ x.at_step = sweep[s].at_step
        /\ x.verdict = sweep[s].verdict /\ x.todo = sweep[s].todo
    BY <1>0 DEF SweepRow
  <2> HIDE DEF x
  <2>4. /\ y \in SweepRow /\ y.at = "done" /\ y.at_step = x.at_step
        /\ y.verdict = x.verdict /\ y.todo = x.todo /\ y.stalled = e
    BY <2>2, <2>3 DEF SweepRow
  <2> HIDE DEF y
  <2>5. SweepTrue(y, held)
    BY <1>0, <2>1, <2>2, <2>3, <2>4 DEF SweepTrue
  <2>6. y \in SweepRow /\ y.verdict = sweep[s].verdict
    BY <2>3, <2>4
  <2> QED BY <2>1, <2>5, <2>6, SweepGoesOn
<1>6. CASE AbortSweep(s)
  <2>1. sweep' = [sweep EXCEPT ![s] = NoSweep] /\ held' = held
    BY <1>6 DEF AbortSweep
  <2>2. NoSweep \in SweepRow /\ SweepTrue(NoSweep, held) /\ DOMAIN NoSweep.verdict = {}
    BY NoSweepIsTrue DEF NoSweep
  <2> QED BY <2>1, <2>2, SweepGoesOn
<1> QED BY <1>1, <1>2, <1>3, <1>4, <1>5, <1>6

\* The rows of the sweep's verdicts change as it said, no others; the others
\* lose at most a lease.
LEMMA CommitIsSafe ==
  ASSUME SweepsInv, NEW s \in Sweeper, CommitSweep(s)
  PROVE  SweepsInv' /\ FinalStays
<1> DEFINE verdict == sweep[s].verdict
           Lost(w) == [held[w] EXCEPT
                         !.lease = IF w \in sweep[s].expired THEN "expired" ELSE @]
           Row(w) == SweptRow(s, w)
<1>1. held' = [w \in Leased |-> Row(w)] /\ sweep' = [sweep EXCEPT ![s] = NoSweep]
  BY DEF CommitSweep
<1>2. ASSUME NEW w \in Leased
      PROVE  /\ Row(w) \in HeldRow /\ Row(w).kept = held[w].kept
             /\ Row(w).checkpoint = held[w].checkpoint
             /\ (w \notin DOMAIN verdict) \/ (held[w].status \in Final) =>
                  Row(w).status = held[w].status
  <2>1. /\ Lost(w) \in HeldRow /\ Lost(w).kept = held[w].kept
        /\ Lost(w).checkpoint = held[w].checkpoint /\ Lost(w).status = held[w].status
        /\ Lost(w).waiting \in BOOLEAN
    BY DEF SweepsInv, HeldRow
  <2>2. CASE w \notin DOMAIN verdict
    <3>1. Row(w) = Lost(w)
      BY <2>2 DEF SweptRow
    <3> HIDE DEF Row, Lost
    <3> QED BY <2>1, <2>2, <3>1
  <2>3. CASE w \in DOMAIN verdict
    <3>1. /\ verdict[w].status \in HeldStatus /\ verdict[w].step \in 0..LastStep
          /\ verdict[w].say \in {"recovered", "cancelled"}
      BY <2>3 DEF SweepsInv, SweepRow, VerdictsTaken, SweepVerdict, HeldStatus
    <3>2. held[w].status \in Final => verdict[w].status = held[w].status
      <4>1. VerdictTrue(verdict[w], held[w])
        BY <2>3 DEF SweepsInv, SweepTrue
      <4> QED BY <3>1, <4>1 DEF VerdictTrue, Final, Over
    <3>3. Row(w) = Changed(Lost(w), verdict[w].status, verdict[w].step, Lost(w).waiting)
      BY <2>3 DEF SweptRow
    <3> HIDE DEF Row, Lost, verdict
    <3> QED BY <2>1, <2>3, <3>1, <3>2, <3>3, RowChanged
  <2> HIDE DEF Lost, verdict, Row
  <2> QED BY <2>2, <2>3
<1> HIDE DEF Row
<1>3. \A w \in Leased : held'[w] = Row(w)
  BY <1>1
<1>4. /\ held' \in [Leased -> HeldRow]
      /\ \A w \in Leased : held'[w].checkpoint \in {0} \cup held'[w].kept
  BY <1>1, <1>2, <1>3 DEF SweepsInv
<1>5. FinalStays
  BY <1>2, <1>3 DEF FinalStays
<1>6. \A r \in Sweeper : sweep'[r] = IF r = s THEN NoSweep ELSE sweep[r]
  BY <1>1 DEF SweepsInv
<1>7. sweep' \in [Sweeper -> SweepRow]
  BY <1>1, NoSweepIsTrue DEF SweepsInv
<1>8. ASSUME NEW r \in Sweeper PROVE SweepTrue(sweep'[r], held')
  <2>1. CASE r = s
    BY <1>6, <2>1, NoSweepIsTrue
  <2>2. CASE r # s
    <3>1. SweepTrue(sweep[r], held) /\ sweep'[r] = sweep[r]
      BY <1>6, <2>2 DEF SweepsInv
    <3>2. \A w \in Leased : held'[w].kept = held[w].kept
      BY <1>2, <1>3
    <3>3. \A w \in Leased : w \in DOMAIN sweep[r].verdict => w \notin DOMAIN verdict
      BY <2>2 DEF SweepsInv
    <3>4. \A w \in Leased : w \in DOMAIN sweep[r].verdict => held'[w].status = held[w].status
      BY <1>2, <1>3, <3>3
    <3> QED BY <3>1, <3>2, <3>4 DEF SweepTrue, VerdictTrue
  <2> QED BY <2>1, <2>2
<1>9. \A r, q \in Sweeper : r # q => DOMAIN sweep'[r].verdict \cap DOMAIN sweep'[q].verdict = {}
  BY <1>6 DEF SweepsInv, NoSweep
<1> QED BY <1>4, <1>5, <1>7, <1>8, <1>9 DEF SweepsInv

\* A final row is overturned only by one that had looked at it before, and is done then.
FinalKept ==
  \A w \in Leased : held[w].status \in Final =>
    /\ hands'[w] \subseteq hands[w]
    /\ held'[w].status # held[w].status => hands'[w] # hands[w]

\* The writers that do not lock.
LEMMA HandsAreSafe ==
  ASSUME SweepsInv, hands \in [Leased -> SUBSET (Hand \X {"active", "cancelled"})],
         NEW h \in Hand, NEW w \in Leased,
         \/ LooksFailed(h, w) \/ LooksUnfinished(h, w)
         \/ \E status \in {"active", "cancelled"} : WritesOver(h, w, status) \/ TurnsAway(h, w, status)
  PROVE  SweepsInv' /\ FinalKept
<1>1. CASE LooksFailed(h, w) \/ LooksUnfinished(h, w)
  <2>1. /\ held' = held /\ sweep' = sweep /\ held[w].status \notin Final
        /\ \A u \in Leased : u # w => hands'[u] = hands[u]
    BY <1>1 DEF LooksFailed, LooksUnfinished, Final, Over
  <2> QED BY <2>1 DEF SweepsInv, FinalKept
<1>2. ASSUME NEW status \in {"active", "cancelled"}, WritesOver(h, w, status)
      PROVE  SweepsInv' /\ FinalKept
  <2> PICK y : y = Changed(held[w], status, held[w].step, held[w].waiting)
    OBVIOUS
  <2>1. /\ held' = [held EXCEPT ![w] = y] /\ sweep' = sweep /\ ~ SweepLocks(w)
        /\ <<h, status>> \in hands[w]
        /\ hands' = [hands EXCEPT ![w] = @ \ {<<h, status>>}]
    BY <1>2 DEF WritesOver, Write
  <2>2. /\ y \in HeldRow /\ y.kept = held[w].kept
        /\ y.checkpoint \in {0} \cup y.kept
    <3>1. /\ held[w] \in HeldRow /\ status \in HeldStatus /\ held[w].step \in 0..LastStep
          /\ held[w].waiting \in BOOLEAN /\ held[w].checkpoint \in {0} \cup held[w].kept
      BY DEF SweepsInv, HeldRow, HeldStatus, Over
    <3> QED BY <3>1, RowChanged
  <2>3. SweepsInv'
    BY <2>1, <2>2, RowWrites
  <2>4. /\ hands'[w] \subseteq hands[w] /\ hands'[w] # hands[w]
        /\ \A u \in Leased : u # w => hands'[u] = hands[u] /\ held'[u] = held[u]
    BY <2>1 DEF SweepsInv
  <2> QED BY <2>3, <2>4 DEF FinalKept
<1>3. ASSUME NEW status \in {"active", "cancelled"}, TurnsAway(h, w, status)
      PROVE  SweepsInv' /\ FinalKept
  <2>1. /\ held' = held /\ sweep' = sweep
        /\ \A u \in Leased : hands'[u] \subseteq hands[u]
    BY <1>3 DEF TurnsAway
  <2> QED BY <2>1 DEF SweepsInv, FinalKept
<1> QED BY <1>1, <1>2, <1>3

\* Who has looked at a row, and what an operator was told, is as declared; nothing is
\* decided of a workflow before its checkpoint was read.
AdviceInv ==
  /\ hands \in [Leased -> SUBSET (Hand \X {"active", "cancelled"})]
  /\ advice \in [Leased -> {"none", "direct_resume", "checkpoint_restore"}]
  /\ \A s \in Sweeper : DOMAIN sweep[s].verdict \subseteq DOMAIN sweep[s].at_step

\* Every step of the service keeps the invariant.
LEMMA SweepsInductive ==
  SweepsInv /\ AdviceInv /\ [IntegrityNext]_integrityVars =>
    SweepsInv' /\ (FinalKept \/ UNCHANGED integrityVars)
<1> SUFFICES ASSUME SweepsInv, AdviceInv, [IntegrityNext]_integrityVars
             PROVE  SweepsInv' /\ (FinalKept \/ UNCHANGED integrityVars)
  OBVIOUS
<1>0. FinalStays /\ hands' = hands => FinalKept
  BY DEF FinalStays, FinalKept
<1>1. CASE UNCHANGED integrityVars
  BY <1>1 DEF integrityVars, SweepsInv
<1>2. ASSUME NEW w \in Leased,
             \/ Advances(w) \/ Checkpoints(w)
             \/ \E status \in Over : Ends(w, status)
             \/ \E approval \in BOOLEAN : Pauses(w, approval) \/ Resumes(w, approval)
             \/ Rejects(w)
             \/ \E status \in HeldStatus, step \in 0..LastStep : Restores(w, status, step)
             \/ Validate(w) \/ FollowAdvice(w)
             \/ TakesLease(w) \/ ReleasesLease(w) \/ LeaseLapses(w)
      PROVE  SweepsInv' /\ FinalKept
  <2>1. hands' = hands
    BY <1>2 DEF Advances, Checkpoints, Ends, Pauses, Resumes, Rejects, Restores, Validate,
                FollowAdvice, TakesLease, ReleasesLease, LeaseLapses
  <2> QED BY <1>0, <1>2, <2>1, WorkersAreSafe
<1>3. ASSUME NEW s \in Sweeper,
             \/ ExpireLeases(s) \/ FindOrphaned(s)
             \/ \E w \in Leased : ReadCheckpoint(s, w) \/ RecoverOrphan(s, w)
             \/ \E quiet \in SUBSET Leased : FindStalled(s, quiet)
             \/ AbortSweep(s) \/ CommitSweep(s)
      PROVE  SweepsInv' /\ FinalKept
  <2>1. hands' = hands
    BY <1>3 DEF ExpireLeases, FindOrphaned, ReadCheckpoint, RecoverOrphan, FindStalled,
                AbortSweep, CommitSweep
  <2> QED BY <1>0, <1>3, <2>1, SweepsAreSafe, CommitIsSafe
<1>4. ASSUME NEW w \in Leased, NEW h \in Hand,
             \/ LooksFailed(h, w) \/ LooksUnfinished(h, w)
             \/ \E status \in {"active", "cancelled"} :
                  WritesOver(h, w, status) \/ TurnsAway(h, w, status)
      PROVE  SweepsInv' /\ FinalKept
  BY <1>4, HandsAreSafe DEF AdviceInv
<1> QED BY <1>1, <1>2, <1>3, <1>4 DEF IntegrityNext

\* The invariant holds at the start.
LEMMA SweepsInitially == IntegrityInit => SweepsInv
<1> SUFFICES ASSUME IntegrityInit PROVE SweepsInv
  OBVIOUS
<1>1. /\ held \in [Leased -> HeldRow]
      /\ \A w \in Leased : held[w].checkpoint \in {0} \cup held[w].kept
  BY IntegrityAssumption DEF IntegrityInit, HeldRow, HeldStatus
<1>2. /\ sweep \in [Sweeper -> SweepRow]
      /\ \A s \in Sweeper : sweep[s] = NoSweep
  BY NoSweepIsTrue DEF IntegrityInit
<1>3. \A s \in Sweeper : SweepTrue(sweep[s], held)
  BY <1>2, NoSweepIsTrue
<1>4. \A s \in Sweeper : DOMAIN sweep[s].verdict = {}
  <2>1. DOMAIN NoSweep.verdict = {}
    BY DEF NoSweep
  <2> QED BY <1>2, <2>1
<1> QED BY <1>1, <1>2, <1>3, <1>4 DEF SweepsInv

\* The invariant holds at the start.
LEMMA AdviceInitially == IntegrityInit => AdviceInv
<1> SUFFICES ASSUME IntegrityInit PROVE AdviceInv
  OBVIOUS
<1>1. DOMAIN NoSweep.verdict = {}
  BY DEF NoSweep
<1> QED BY <1>1 DEF IntegrityInit, AdviceInv

\* What one sweep does to its transaction.
LEMMA AdviceSweeps ==
  ASSUME SweepsInv, AdviceInv, advice' = advice, hands' = hands, NEW s \in Sweeper, NEW x,
         sweep' = [sweep EXCEPT ![s] = x], DOMAIN x.verdict \subseteq DOMAIN x.at_step
  PROVE  AdviceInv'
BY DEF SweepsInv, AdviceInv

\* Every step of the service keeps the invariant.
LEMMA AdviceStep ==
  ASSUME SweepsInv, AdviceInv, [IntegrityNext]_integrityVars
  PROVE  AdviceInv'
<1>1. ASSUME NEW w \in Leased,
             \/ Advances(w) \/ Checkpoints(w)
             \/ \E status \in Over : Ends(w, status)
             \/ \E approval \in BOOLEAN : Pauses(w, approval) \/ Resumes(w, approval)
             \/ Rejects(w)
             \/ \E status \in HeldStatus, step \in 0..LastStep : Restores(w, status, step)
             \/ Validate(w) \/ FollowAdvice(w)
             \/ TakesLease(w) \/ ReleasesLease(w) \/ LeaseLapses(w)
      PROVE  AdviceInv'
  <2>1. /\ sweep' = sweep /\ hands' = hands
        /\ \/ advice' = advice
           \/ \E a \in {"none", "direct_resume", "checkpoint_restore"} : advice' = [advice EXCEPT ![w] = a]
    BY <1>1 DEF Advances, Checkpoints, Ends, Pauses, Resumes, Rejects, Restores, Validate,
                FollowAdvice, TakesLease, ReleasesLease, LeaseLapses, Strategy
  <2> QED BY <2>1 DEF AdviceInv
<1>2. ASSUME NEW s \in Sweeper, NEW w \in Leased, ReadCheckpoint(s, w) PROVE AdviceInv'
  <2>1. PICK steps : steps = [u \in DOMAIN sweep[s].at_step \cup {w} |->
                               IF u = w THEN held[w].checkpoint ELSE sweep[s].at_step[u]]
    OBVIOUS
  <2>2. DOMAIN steps = DOMAIN sweep[s].at_step \cup {w}
    BY <2>1
  <2>3. PICK x : x = [sweep[s] EXCEPT !.at_step = steps]
    OBVIOUS
  <2>4. sweep' = [sweep EXCEPT ![s] = x]
    BY <1>2, <2>1, <2>3 DEF ReadCheckpoint, SweepsInv
  <2>5. x.verdict = sweep[s].verdict /\ x.at_step = steps
    BY <2>3 DEF SweepsInv, SweepRow
  <2> QED BY <1>2, <2>2, <2>4, <2>5, AdviceSweeps DEF ReadCheckpoint, AdviceInv
<1>3. ASSUME NEW s \in Sweeper, NEW w \in Leased, RecoverOrphan(s, w) PROVE AdviceInv'
  <2>1. PICK verdicts : verdicts = [u \in DOMAIN sweep[s].verdict \cup {w} |->
          IF u = w THEN Recovered(w, sweep[s].at_step[w]) ELSE sweep[s].verdict[u]]
    OBVIOUS
  <2>2. DOMAIN verdicts = DOMAIN sweep[s].verdict \cup {w}
    BY <2>1
  <2>3. PICK x : x = [sweep[s] EXCEPT !.todo = @ \ {w}, !.verdict = verdicts]
    OBVIOUS
  <2>4. sweep' = [sweep EXCEPT ![s] = x]
    BY <1>3, <2>1, <2>3 DEF RecoverOrphan, SweepsInv
  <2>5. x.verdict = verdicts /\ x.at_step = sweep[s].at_step
    BY <2>3 DEF SweepsInv, SweepRow
  <2>6. DOMAIN x.verdict \subseteq DOMAIN x.at_step
    BY <1>3, <2>2, <2>5 DEF RecoverOrphan, AdviceInv
  <2>7. advice' = advice /\ hands' = hands
    BY <1>3 DEF RecoverOrphan
  <2> QED BY <2>4, <2>6, <2>7, AdviceSweeps
<1>4. ASSUME NEW s \in Sweeper, ExpireLeases(s) \/ FindOrphaned(s) PROVE AdviceInv'
  <2>1. ASSUME ExpireLeases(s) PROVE AdviceInv'
    <3>1. PICK leases : leases = {w \in Leased : held[w].lease = "overdue" /\ ~ LeaseLocked(w)}
      OBVIOUS
    <3>2. PICK x : x = [sweep[s] EXCEPT !.at = "expired", !.expired = leases]
      OBVIOUS
    <3>3. sweep' = [sweep EXCEPT ![s] = x] /\ advice' = advice /\ hands' = hands
      BY <2>1, <3>1, <3>2 DEF ExpireLeases, SweepsInv
    <3>4. x.verdict = sweep[s].verdict /\ x.at_step = sweep[s].at_step
      BY <3>2 DEF SweepsInv, SweepRow
    <3> QED BY <3>3, <3>4, AdviceSweeps DEF AdviceInv
  <2>2. ASSUME FindOrphaned(s) PROVE AdviceInv'
    <3>1. PICK orphans : 
            orphans = {w \in Leased : /\ held[w].status \in {"active", "paused"}
                                      /\ held[w].lease = "expired" \/ w \in sweep[s].expired}
      OBVIOUS
    <3>2. PICK x : x = [sweep[s] EXCEPT !.at = "recovering", !.todo = orphans]
      OBVIOUS
    <3>3. sweep' = [sweep EXCEPT ![s] = x] /\ advice' = advice /\ hands' = hands
      BY <2>2, <3>1, <3>2 DEF FindOrphaned, SweepsInv
    <3>4. x.verdict = sweep[s].verdict /\ x.at_step = sweep[s].at_step
      BY <3>2 DEF SweepsInv, SweepRow
    <3> QED BY <3>3, <3>4, AdviceSweeps DEF AdviceInv
  <2> QED BY <1>4, <2>1, <2>2
<1>5. ASSUME NEW s \in Sweeper, NEW quiet \in SUBSET Leased, FindStalled(s, quiet) PROVE AdviceInv'
  <2>1. PICK stalled : stalled = {w \in quiet : /\ w \notin DOMAIN sweep[s].verdict
                                                /\ held[w].status \in {"active", "paused"}}
    OBVIOUS
  <2>2. PICK x : x = [sweep[s] EXCEPT !.at = "done", !.stalled = stalled]
    OBVIOUS
  <2>3. sweep' = [sweep EXCEPT ![s] = x] /\ advice' = advice /\ hands' = hands
    BY <1>5, <2>1, <2>2 DEF FindStalled, SweepsInv
  <2>4. x.verdict = sweep[s].verdict /\ x.at_step = sweep[s].at_step
    BY <2>2 DEF SweepsInv, SweepRow
  <2> QED BY <2>3, <2>4, AdviceSweeps DEF AdviceInv
<1>6. ASSUME NEW h \in Hand, NEW w \in Leased,
             \/ LooksFailed(h, w) \/ LooksUnfinished(h, w)
             \/ \E status \in {"active", "cancelled"} :
                  WritesOver(h, w, status) \/ TurnsAway(h, w, status)
      PROVE  AdviceInv'
  <2>1. /\ sweep' = sweep /\ advice' = advice
        /\ \E status \in {"active", "cancelled"} :
             \/ hands' = [hands EXCEPT ![w] = @ \cup {<<h, status>>}]
             \/ hands' = [hands EXCEPT ![w] = @ \ {<<h, status>>}]
    BY <1>6 DEF LooksFailed, LooksUnfinished, WritesOver, TurnsAway
  <2> PICK status \in {"active", "cancelled"} :
        \/ hands' = [hands EXCEPT ![w] = @ \cup {<<h, status>>}]
        \/ hands' = [hands EXCEPT ![w] = @ \ {<<h, status>>}]
    BY <2>1
  <2>2. hands' \in [Leased -> SUBSET (Hand \X {"active", "cancelled"})]
    BY DEF AdviceInv
  <2> QED BY <2>1, <2>2 DEF AdviceInv
<1>7. ASSUME NEW s \in Sweeper, CommitSweep(s) \/ AbortSweep(s) PROVE AdviceInv'
  <2>1. sweep' = [sweep EXCEPT ![s] = NoSweep] /\ advice' = advice /\ hands' = hands
    BY <1>7 DEF CommitSweep, AbortSweep
  <2>2. DOMAIN NoSweep.verdict = {}
    BY DEF NoSweep
  <2> QED BY <2>1, <2>2, AdviceSweeps
<1>8. CASE UNCHANGED integrityVars
  BY <1>8 DEF integrityVars, AdviceInv
<1> QED BY <1>1, <1>2, <1>3, <1>4, <1>5, <1>6, <1>7, <1>8 DEF IntegrityNext

\* The types.
LEMMA IntegrityTypes == SweepsInv /\ AdviceInv => IntegrityTypeOK
BY DEF SweepsInv, HeldRow, SweepRow, AdviceInv, IntegrityTypeOK

\* workflows/orphaned.py, recovery.py, stalled.py, coordinator.py and rollback.py: for
\* any number of sweeps, of unlocked writers, of workflows and of steps, a completed or
\* cancelled workflow is overturned only by a resume_failed or a rollback that had read
\* the row before it was final, by each once; and what an open sweep has decided stays
\* true until it commits.
THEOREM RecoveryStaysSafe == IntegritySpec => RecoveryIsSafe
<1>1. IntegrityInit => SweepsInv /\ AdviceInv
  BY SweepsInitially, AdviceInitially
<1>2. SweepsInv => VerdictsHold
  <2> SUFFICES ASSUME SweepsInv, NEW s \in Sweeper, NEW w \in Leased,
                      w \in DOMAIN sweep[s].verdict
               PROVE  /\ sweep[s].verdict[w].say = "recovered" =>
                           /\ sweep[s].verdict[w].status = "active"
                           /\ held[w].status \notin Final
                           /\ sweep[s].verdict[w].step \in held[w].kept
                      /\ sweep[s].verdict[w].say = "cancelled" =>
                           /\ sweep[s].verdict[w].status \in Over
                           /\ held[w].status \in Over => sweep[s].verdict[w].status = held[w].status
                      /\ w \notin sweep[s].stalled
                      /\ \A r \in Sweeper \ {s} : w \notin DOMAIN sweep[r].verdict
    BY DEF VerdictsHold
  <2>1. SweepTrue(sweep[s], held)
    BY DEF SweepsInv
  <2>2. \A r \in Sweeper \ {s} : w \notin DOMAIN sweep[r].verdict
    BY DEF SweepsInv
  <2> QED BY <2>1, <2>2 DEF SweepTrue, VerdictTrue
<1>3. SweepsInv /\ AdviceInv /\ [IntegrityNext]_integrityVars =>
        SweepsInv' /\ AdviceInv' /\ [VerdictsHold' /\ FinalKept]_integrityVars
  <2>1. SweepsInv' => VerdictsHold'
    BY <1>2, PTL
  <2> QED BY <2>1, SweepsInductive, AdviceStep
<1>4. [VerdictsHold' /\ FinalKept]_integrityVars =>
        [/\ VerdictsHold'
         /\ \A w \in Leased : held[w].status \in Final =>
              /\ hands'[w] \subseteq hands[w]
              /\ held'[w].status # held[w].status => hands'[w] # hands[w]]_integrityVars
  BY DEF FinalKept
<1> QED BY <1>1, <1>3, <1>4, PTL DEF IntegritySpec, RecoveryIsSafe

-----------------------------------------------------------------------------
(* GovernanceDecisions.  Invariant: what an open request has read and       *)
(* written is true of the record and the rows, and no two requests are      *)
(* changing one approval or granting one delegation.                        *)

ForVotes(L, a) == {e \in L : e.type = "vote_for" /\ e.about = a}

\* A request r that has read: what it asked is known of the delegations D.
ReadTrue(r, D) ==
  \/ \E a, v : \E ballot \in {"vote_for", "vote_against"} : r = <<"vote", a, v, ballot>>
  \/ \E a \in GovernedApproval, k \in OverrideKey : r = <<"override", a, k>>
  \/ \E d \in DelegationKey : r = <<"revoke", d>> /\ D[d] # "none"

\* One that has written the events E, before it commits, beside the record L and
\* the rows A and D.
FlushTrue(q, r, E, L, A, D) ==
  \/ /\ r[1] = "vote"
     /\ \A e \in E : /\ e.type \in {"vote_for", "vote_against", "quorum_met"}
                     /\ e.type = "quorum_met" => Cardinality(ForVotes(L \cup E, e.about)) >= Required
  \/ \E a \in GovernedApproval, k \in OverrideKey :
       r = <<"override", a, k>> /\ E = {Entry(q, "override_applied", a, k)} /\ A[a] \in OpenStatus
  \/ \E a \in GovernedApproval :
       r = <<"escalate", a>> /\ E = {Entry(q, "escalation_triggered", a, "none")} /\ A[a] \in OpenStatus
  \/ \E d \in DelegationKey :
       r = <<"grant", d>> /\ E = {Entry(q, "delegation_granted", d, "none")} /\ D[d] = "none"
  \/ \E d \in DelegationKey :
       r = <<"revoke", d>> /\ E = {Entry(q, "delegation_revoked", d, "none")} /\ D[d] # "none"

Truth(q, r, s, E, L, A, D) ==
  /\ s = "read" => ReadTrue(r, D)
  /\ s = "flushed" => IsFiniteSet(E) /\ FlushTrue(q, r, E, L, A, D)

Granting(q, d) == stage[q] = "flushed" /\ request[q] = <<"grant", d>>

\* DecisionsOnRecord, with "one" for a cardinality of 1.
QuorumsOn(L) ==
  \A e \in L : e.type = "quorum_met" => Cardinality(ForVotes(L, e.about)) >= Required

OverridesOn(L, A) ==
  \A a \in GovernedApproval : \A e, f \in L :
    e.type = "override_applied" /\ e.about = a =>
      /\ A[a] = "approved"
      /\ f.type = "override_applied" /\ f.about = a => e = f

DelegationsOn(L, D) ==
  \A d \in DelegationKey :
    /\ D[d] # "none" <=> \E e \in L : e.type = "delegation_granted" /\ e.about = d
    /\ D[d] = "revoked" <=> \E e \in L : e.type = "delegation_revoked" /\ e.about = d
    /\ \A e, f \in L : e.type = "delegation_granted" /\ e.about = d
                       /\ f.type = "delegation_granted" /\ f.about = d => e = f

OnRecord(L, A, D) == QuorumsOn(L) /\ OverridesOn(L, A) /\ DelegationsOn(L, D)

DecisionInv ==
  /\ request = [q \in Request |-> request[q]]
  /\ stage \in [Request -> {"new", "read", "flushed", "done"}]
  /\ pendingEvents = [q \in Request |-> pendingEvents[q]]
  /\ approvalStatus \in [GovernedApproval -> OpenStatus \cup ClosedStatus]
  /\ delegations \in [DelegationKey -> {"none", "active", "revoked"}]
  /\ IsFiniteSet(governanceLog)
  /\ \A q \in Request : Truth(q, request[q], stage[q], pendingEvents[q],
                              governanceLog, approvalStatus, delegations)
  /\ \A q, o \in Request, a \in GovernedApproval :
       ChangesApproval(q, a) /\ ChangesApproval(o, a) => q = o
  /\ \A q, o \in Request, d \in DelegationKey : Granting(q, d) /\ Granting(o, d) => q = o
  /\ OnRecord(governanceLog, approvalStatus, delegations)

\* What kind of request it is, and whom it concerns.
LEMMA RequestKinds ==
  /\ \A a, v, b : <<"vote", a, v, b>>[1] = "vote" /\ <<"vote", a, v, b>>[2] = a
                  /\ <<"vote", a, v, b>>[3] = v /\ <<"vote", a, v, b>>[4] = b
  /\ \A a, k : <<"override", a, k>>[1] = "override" /\ <<"override", a, k>>[2] = a
               /\ <<"override", a, k>>[3] = k
  /\ \A a : <<"escalate", a>>[1] = "escalate" /\ <<"escalate", a>>[2] = a
  /\ \A d : <<"grant", d>>[1] = "grant" /\ <<"grant", d>>[2] = d
  /\ \A d : <<"revoke", d>>[1] = "revoke" /\ <<"revoke", d>>[2] = d
OBVIOUS

\* A request changes, and neither the record nor the rows do.
LEMMA RequestMoves ==
  ASSUME DecisionInv, NEW q \in Request, NEW r, NEW s \in {"new", "read", "flushed", "done"}, NEW E,
         request' = [request EXCEPT ![q] = r], stage' = [stage EXCEPT ![q] = s],
         pendingEvents' = [pendingEvents EXCEPT ![q] = E],
         UNCHANGED <<governanceLog, approvalStatus, delegations>>,
         Truth(q, r, s, E, governanceLog, approvalStatus, delegations),
         \A a \in GovernedApproval :
           s = "flushed" /\ r[1] \in {"override", "escalate"} /\ r[2] = a => ~ RowLocked(a),
         \A d \in DelegationKey, o \in Request :
           s = "flushed" /\ r = <<"grant", d>> => ~ Granting(o, d)
  PROVE  DecisionInv'
<1>1. /\ request'[q] = r /\ stage'[q] = s /\ pendingEvents'[q] = E
      /\ \A o \in Request \ {q} : /\ request'[o] = request[o] /\ stage'[o] = stage[o]
                                  /\ pendingEvents'[o] = pendingEvents[o]
      /\ request' = [o \in Request |-> request'[o]]
      /\ pendingEvents' = [o \in Request |-> pendingEvents'[o]]
      /\ stage' \in [Request -> {"new", "read", "flushed", "done"}]
  BY DEF DecisionInv
<1>2. \A o \in Request : Truth(o, request'[o], stage'[o], pendingEvents'[o],
                               governanceLog', approvalStatus', delegations')
  BY <1>1 DEF DecisionInv
<1>3. ASSUME NEW a \in GovernedApproval
      PROVE  /\ \A o \in Request \ {q} : ChangesApproval(o, a)' <=> ChangesApproval(o, a)
             /\ ChangesApproval(q, a)' => ~ RowLocked(a)
  <2>1. \A o \in Request \ {q} : ChangesApproval(o, a)' <=> ChangesApproval(o, a)
    BY <1>1 DEF ChangesApproval
  <2>2. ChangesApproval(q, a)' => s = "flushed" /\ r[1] \in {"override", "escalate"} /\ r[2] = a
    BY <1>1, RequestKinds DEF ChangesApproval
  <2> QED BY <2>1, <2>2
<1>4. \A o, p \in Request, a \in GovernedApproval :
        ChangesApproval(o, a)' /\ ChangesApproval(p, a)' => o = p
  BY <1>3 DEF DecisionInv, RowLocked
<1>5. \A o, p \in Request, d \in DelegationKey : Granting(o, d)' /\ Granting(p, d)' => o = p
  <2>1. \A o \in Request \ {q}, d \in DelegationKey : Granting(o, d)' <=> Granting(o, d)
    BY <1>1 DEF Granting
  <2>2. \A d \in DelegationKey : Granting(q, d)' => s = "flushed" /\ r = <<"grant", d>>
    BY <1>1 DEF Granting
  <2> QED BY <2>1, <2>2 DEF DecisionInv
<1> QED BY <1>1, <1>2, <1>4, <1>5 DEF DecisionInv

\* A request that has read.
LEMMA ReadMoves ==
  ASSUME DecisionInv, NEW q \in Request, NEW r, ReadFor(q, r), ReadTrue(r, delegations)
  PROVE  DecisionInv'
<1>1. /\ request' = [request EXCEPT ![q] = r] /\ stage' = [stage EXCEPT ![q] = "read"]
      /\ pendingEvents' = [pendingEvents EXCEPT ![q] = pendingEvents[q]]
      /\ UNCHANGED <<governanceLog, approvalStatus, delegations>>
  BY DEF ReadFor, DecisionInv
<1>2. Truth(q, r, "read", pendingEvents[q], governanceLog, approvalStatus, delegations)
  BY DEF Truth
<1> QED BY <1>1, <1>2, RequestMoves

\* A request that has written and not committed.
LEMMA FlushMoves ==
  ASSUME DecisionInv, NEW q \in Request, NEW r, NEW E, FlushFor(q, r, E), IsFiniteSet(E),
         FlushTrue(q, r, E, governanceLog, approvalStatus, delegations),
         \A a \in GovernedApproval :
           r[1] \in {"override", "escalate"} /\ r[2] = a => ~ RowLocked(a),
         \A d \in DelegationKey, o \in Request : r = <<"grant", d>> => ~ Granting(o, d)
  PROVE  DecisionInv'
<1>1. /\ request' = [request EXCEPT ![q] = r] /\ stage' = [stage EXCEPT ![q] = "flushed"]
      /\ pendingEvents' = [pendingEvents EXCEPT ![q] = E]
      /\ UNCHANGED <<governanceLog, approvalStatus, delegations>>
  BY DEF FlushFor
<1>2. Truth(q, r, "flushed", E, governanceLog, approvalStatus, delegations)
  BY DEF Truth
<1> QED BY <1>1, <1>2, RequestMoves

\* A vote, and the quorum it may make.
LEMMA VoteAppended ==
  ASSUME DecisionInv, NEW q \in Request, AppendVote(q)
  PROVE  DecisionInv'
<1>1. PICK a, v : \E ballot \in {"vote_for", "vote_against"} :
                    request[q] = <<"vote", a, v, ballot>>
  BY RequestKinds DEF AppendVote, DecisionInv, Truth, ReadTrue
<1>2. PICK ballot \in {"vote_for", "vote_against"} : request[q] = <<"vote", a, v, ballot>>
  BY <1>1
<1> DEFINE vote == Entry(q, ballot, a, v)
           votesFor == {e \in governanceLog \cup {vote} : e.type = "vote_for" /\ e.about = a}
           met == Entry(q, "quorum_met", a, v)
           E == {vote} \cup (IF Cardinality(votesFor) >= Required /\ ~ (Logged("quorum_met", a) # {})
                             THEN {met} ELSE {})
<1>3. FlushFor(q, request[q], E)
  BY <1>2, RequestKinds DEF AppendVote
<1>4. vote.type = ballot /\ met.type = "quorum_met" /\ met.about = a
  BY DEF Entry
<1>5. IsFiniteSet(E)
  <2>1. IsFiniteSet({vote}) /\ IsFiniteSet({vote} \cup {met})
    BY FS_Singleton, FS_AddElement
  <2>2. E = {vote} \/ E = {vote} \cup {met}
    OBVIOUS
  <2> QED BY <2>1, <2>2
<1>6. ASSUME NEW e \in E
      PROVE  /\ e.type \in {"vote_for", "vote_against", "quorum_met"}
             /\ e.type = "quorum_met" =>
                  Cardinality(ForVotes(governanceLog \cup E, e.about)) >= Required
  <2>1. CASE e = vote
    BY <1>4, <2>1
  <2>2. CASE e = met /\ Cardinality(votesFor) >= Required
    <3>1. ForVotes(governanceLog \cup E, a) = votesFor
      BY <1>4, <2>2 DEF ForVotes
    <3> QED BY <1>4, <2>2, <3>1
  <2> QED BY <2>1, <2>2
<1>7. request[q][1] = "vote"
  BY <1>2, RequestKinds
<1> HIDE DEF E
<1>8. FlushTrue(q, request[q], E, governanceLog, approvalStatus, delegations)
  BY <1>6, <1>7 DEF FlushTrue
<1> QED BY <1>3, <1>5, <1>7, <1>8, FlushMoves, RequestKinds

\* A vote is on its way to the record.
LEMMA VotesFlushed ==
  ASSUME DecisionInv, NEW q \in Request,
         \/ ApplyOverride(q) \/ RevokeDelegation(q)
         \/ \E a \in GovernedApproval : Escalate(q, a)
         \/ \E d \in DelegationKey : Grant(q, d)
  PROVE  DecisionInv'
<1>1. ASSUME NEW e PROVE IsFiniteSet({e})
  BY FS_Singleton
<1>2. CASE ApplyOverride(q)
  <2>1. PICK a \in GovernedApproval, k \in OverrideKey : request[q] = <<"override", a, k>>
    BY <1>2, RequestKinds DEF ApplyOverride, DecisionInv, Truth, ReadTrue
  <2>2. /\ FlushFor(q, request[q], {Entry(q, "override_applied", a, k)})
        /\ ~ RowLocked(a) /\ approvalStatus[a] \in OpenStatus
    BY <1>2, <2>1, RequestKinds DEF ApplyOverride, Overridable
  <2>3. FlushTrue(q, request[q], {Entry(q, "override_applied", a, k)},
                  governanceLog, approvalStatus, delegations)
    BY <2>1, <2>2 DEF FlushTrue
  <2>4. request[q][1] = "override" /\ request[q][2] = a
    BY <2>1, RequestKinds
  <2> QED BY <1>1, <2>2, <2>3, <2>4, FlushMoves, RequestKinds
<1>3. CASE RevokeDelegation(q)
  <2>1. PICK d \in DelegationKey : request[q] = <<"revoke", d>> /\ delegations[d] # "none"
    BY <1>3, RequestKinds DEF RevokeDelegation, DecisionInv, Truth, ReadTrue
  <2> DEFINE r == request[q]
             E == {Entry(q, "delegation_revoked", d, "none")}
  <2>2. FlushFor(q, r, E)
    BY <1>3, <2>1, RequestKinds DEF RevokeDelegation
  <2>3. IsFiniteSet(E) /\ FlushTrue(q, r, E, governanceLog, approvalStatus, delegations)
    BY <1>1, <2>1, <2>2 DEF FlushTrue
  <2>4. /\ \A b \in GovernedApproval :
             r[1] \in {"override", "escalate"} /\ r[2] = b => ~ RowLocked(b)
        /\ \A c \in DelegationKey, o \in Request : r = <<"grant", c>> => ~ Granting(o, c)
    BY <2>1, RequestKinds
  <2> HIDE DEF r, E
  <2> QED BY <2>2, <2>3, <2>4, FlushMoves
<1>4. ASSUME NEW a \in GovernedApproval, Escalate(q, a) PROVE DecisionInv'
  <2> DEFINE r == <<"escalate", a>>
  <2>2. /\ FlushFor(q, r, {Entry(q, "escalation_triggered", a, "none")})
        /\ ~ RowLocked(a) /\ approvalStatus[a] \in OpenStatus
    BY <1>4 DEF Escalate
  <2>3. FlushTrue(q, r, {Entry(q, "escalation_triggered", a, "none")},
                  governanceLog, approvalStatus, delegations)
    BY <2>2 DEF FlushTrue
  <2>4. r[1] = "escalate" /\ r[2] = a
    OBVIOUS
  <2> HIDE DEF r
  <2>5. /\ \A b \in GovernedApproval :
             r[1] \in {"override", "escalate"} /\ r[2] = b => ~ RowLocked(b)
        /\ \A d \in DelegationKey, o \in Request : r = <<"grant", d>> => ~ Granting(o, d)
    BY <2>2, <2>4, RequestKinds
  <2> DEFINE E == {Entry(q, "escalation_triggered", a, "none")}
  <2>6. IsFiniteSet(E) /\ FlushFor(q, r, E)
        /\ FlushTrue(q, r, E, governanceLog, approvalStatus, delegations)
    BY <1>1, <2>2, <2>3
  <2> HIDE DEF E
  <2> QED BY <2>5, <2>6, FlushMoves
<1>5. ASSUME NEW d \in DelegationKey, Grant(q, d) PROVE DecisionInv'
  <2> DEFINE r == <<"grant", d>>
  <2>2. /\ FlushFor(q, r, {Entry(q, "delegation_granted", d, "none")})
        /\ delegations[d] = "none" /\ \A o \in Request : ~ Granting(o, d)
    BY <1>5 DEF Grant, Granting
  <2>3. FlushTrue(q, r, {Entry(q, "delegation_granted", d, "none")},
                  governanceLog, approvalStatus, delegations)
    BY <2>2 DEF FlushTrue
  <2>4. r[1] = "grant" /\ r[2] = d
    OBVIOUS
  <2>5. \A c : r = <<"grant", c>> => c = d
    BY <2>4, RequestKinds
  <2> HIDE DEF r
  <2> DEFINE E == {Entry(q, "delegation_granted", d, "none")}
  <2>6. IsFiniteSet(E) /\ FlushFor(q, r, E)
        /\ FlushTrue(q, r, E, governanceLog, approvalStatus, delegations)
    BY <1>1, <2>2, <2>3
  <2>7. \A c \in DelegationKey, o \in Request : r = <<"grant", c>> => ~ Granting(o, c)
    BY <2>2, <2>5
  <2> HIDE DEF E
  <2> QED BY <2>4, <2>6, <2>7, FlushMoves
<1> QED BY <1>2, <1>3, <1>4, <1>5

\* A committed record only makes more of the votes.
LEMMA VotesGrow ==
  ASSUME NEW L, NEW M, IsFiniteSet(M), L \subseteq M, NEW a,
         DecisionAssumption, Cardinality(ForVotes(L, a)) >= Required
  PROVE  Cardinality(ForVotes(M, a)) >= Required
<1>1. IsFiniteSet(ForVotes(M, a))
  <2>1. ForVotes(M, a) \in SUBSET M
    BY DEF ForVotes
  <2> QED BY <2>1, FS_Subset
<1>2. ForVotes(L, a) \in SUBSET ForVotes(M, a)
  BY DEF ForVotes
<1>3. /\ IsFiniteSet(ForVotes(L, a))
      /\ Cardinality(ForVotes(L, a)) <= Cardinality(ForVotes(M, a))
  BY <1>1, <1>2, FS_Subset
<1> QED BY <1>1, <1>3, FS_CardinalityType DEF DecisionAssumption

\* The rows a commit writes.
LEMMA CommitWrites ==
  ASSUME DecisionInv, NEW q \in Request, CommitRequest(q)
  PROVE  /\ governanceLog' = governanceLog \cup pendingEvents[q]
         /\ IsFiniteSet(pendingEvents[q]) /\ IsFiniteSet(governanceLog')
         /\ approvalStatus' \in [GovernedApproval -> OpenStatus \cup ClosedStatus]
         /\ delegations' \in [DelegationKey -> {"none", "active", "revoked"}]
         /\ \A a \in GovernedApproval :
              ~ ChangesApproval(q, a) => approvalStatus'[a] = approvalStatus[a]
         /\ \A d \in DelegationKey : /\ delegations[d] # "none" => delegations'[d] # "none"
                                     /\ ~ Granting(q, d) /\ delegations[d] = "none"
                                          => delegations'[d] = "none"
<1>1. /\ stage[q] = "flushed" /\ governanceLog' = governanceLog \cup pendingEvents[q]
      /\ IsFiniteSet(pendingEvents[q])
      /\ FlushTrue(q, request[q], pendingEvents[q], governanceLog, approvalStatus, delegations)
  BY DEF CommitRequest, DecisionInv, Truth
<1>2. IsFiniteSet(governanceLog')
  BY <1>1, FS_Union DEF DecisionInv
<1>3. /\ approvalStatus' \in [GovernedApproval -> OpenStatus \cup ClosedStatus]
      /\ \A a \in GovernedApproval :
           ~ ChangesApproval(q, a) => approvalStatus'[a] = approvalStatus[a]
  BY DEF CommitRequest, DecisionInv, OpenStatus, ClosedStatus
<1>4. /\ delegations' \in [DelegationKey -> {"none", "active", "revoked"}]
      /\ \A d \in DelegationKey :
           delegations'[d] = IF request[q] = <<"grant", d>> THEN "active"
                             ELSE IF request[q] = <<"revoke", d>> THEN "revoked"
                             ELSE delegations[d]
  BY DEF CommitRequest, DecisionInv
<1>5. \A d \in DelegationKey : request[q] = <<"revoke", d>> => delegations[d] # "none"
  BY <1>1, RequestKinds DEF FlushTrue
<1> QED BY <1>1, <1>2, <1>3, <1>4, <1>5 DEF Granting

\* What others have read and written stays true when q commits.
LEMMA CommitSpares ==
  ASSUME DecisionInv, NEW q \in Request, CommitRequest(q), NEW u \in Request, u # q
  PROVE  Truth(u, request[u], stage[u], pendingEvents[u], governanceLog', approvalStatus', delegations')
<1> DEFINE r == request[u]
           E == pendingEvents[u]
<1>0. Truth(u, r, stage[u], E, governanceLog, approvalStatus, delegations)
  BY DEF DecisionInv
<1>1. CASE stage[u] = "read"
  BY <1>0, <1>1, CommitWrites DEF Truth, ReadTrue
<1>2. CASE stage[u] = "flushed"
  <2>0. IsFiniteSet(E) /\ FlushTrue(u, r, E, governanceLog, approvalStatus, delegations)
    BY <1>0, <1>2 DEF Truth
  <2>1. CASE /\ r[1] = "vote"
             /\ \A e \in E : /\ e.type \in {"vote_for", "vote_against", "quorum_met"}
                             /\ e.type = "quorum_met" =>
                                  Cardinality(ForVotes(governanceLog \cup E, e.about)) >= Required
    <3>1. IsFiniteSet(governanceLog' \cup E) /\ governanceLog \cup E \subseteq governanceLog' \cup E
      BY <2>0, CommitWrites, FS_Union
    <3>2. \A e \in E : e.type = "quorum_met" =>
            Cardinality(ForVotes(governanceLog' \cup E, e.about)) >= Required
      BY <2>1, <3>1, VotesGrow, DecisionAssumption DEF DecisionAssumption
    <3>3. FlushTrue(u, r, E, governanceLog', approvalStatus', delegations')
      BY <2>1, <3>2 DEF FlushTrue
    <3> QED BY <1>2, <2>0, <3>3 DEF Truth
  <2>2. ASSUME NEW a \in GovernedApproval, approvalStatus[a] \in OpenStatus,
               \/ r = <<"escalate", a>> /\ E = {Entry(u, "escalation_triggered", a, "none")}
               \/ \E k \in OverrideKey :
                    r = <<"override", a, k>> /\ E = {Entry(u, "override_applied", a, k)}
        PROVE  FlushTrue(u, r, E, governanceLog', approvalStatus', delegations')
    <3>1. ChangesApproval(u, a)
      BY <1>2, <2>2 DEF ChangesApproval
    <3>2. ~ ChangesApproval(q, a)
      BY <3>1 DEF DecisionInv
    <3>3. approvalStatus'[a] \in OpenStatus
      BY <2>2, <3>2, CommitWrites
    <3> QED BY <2>2, <3>3 DEF FlushTrue
  <2>3. ASSUME NEW d \in DelegationKey, r = <<"grant", d>>, delegations[d] = "none",
               E = {Entry(u, "delegation_granted", d, "none")}
        PROVE  FlushTrue(u, r, E, governanceLog', approvalStatus', delegations')
    <3>1. Granting(u, d)
      BY <1>2, <2>3 DEF Granting
    <3>2. ~ Granting(q, d)
      BY <3>1 DEF DecisionInv
    <3>3. delegations'[d] = "none"
      BY <2>3, <3>2, CommitWrites
    <3> QED BY <2>3, <3>3 DEF FlushTrue
  <2>4. ASSUME NEW d \in DelegationKey, r = <<"revoke", d>>, delegations[d] # "none",
               E = {Entry(u, "delegation_revoked", d, "none")}
        PROVE  FlushTrue(u, r, E, governanceLog', approvalStatus', delegations')
    <3>1. delegations'[d] # "none"
      BY <2>4, CommitWrites
    <3> QED BY <2>4, <3>1 DEF FlushTrue
  <2>5. CASE FlushTrue(u, r, E, governanceLog', approvalStatus', delegations')
    BY <1>2, <2>0, <2>5 DEF Truth
  <2> HIDE DEF r, E
  <2> QED BY <2>0, <2>1, <2>2, <2>3, <2>4, <2>5 DEF FlushTrue, r, E
<1> QED BY <1>1, <1>2 DEF Truth

\* Events that tell nothing of delegations change nothing of them.
LEMMA DelegationsKept ==
  ASSUME NEW L, NEW M, NEW D, NEW C, DelegationsOn(L, D), L \subseteq M,
         \A e \in M : e \in L \/ e.type \notin {"delegation_granted", "delegation_revoked"},
         \A d \in DelegationKey : C[d] = D[d]
  PROVE  DelegationsOn(M, C)
<1>1. \A e : e \in M /\ e.type \in {"delegation_granted", "delegation_revoked"} => e \in L
  OBVIOUS
<1> SUFFICES ASSUME NEW d \in DelegationKey
             PROVE  /\ C[d] # "none" <=> \E e \in M : e.type = "delegation_granted" /\ e.about = d
                    /\ C[d] = "revoked" <=> \E e \in M : e.type = "delegation_revoked" /\ e.about = d
                    /\ \A e, f \in M : e.type = "delegation_granted" /\ e.about = d
                                       /\ f.type = "delegation_granted" /\ f.about = d => e = f
  BY DEF DelegationsOn
<1>2. C[d] # "none" <=> \E e \in M : e.type = "delegation_granted" /\ e.about = d
  BY <1>1 DEF DelegationsOn
<1>3. C[d] = "revoked" <=> \E e \in M : e.type = "delegation_revoked" /\ e.about = d
  BY <1>1 DEF DelegationsOn
<1>4. \A e, f \in M : e.type = "delegation_granted" /\ e.about = d
                      /\ f.type = "delegation_granted" /\ f.about = d => e = f
  <2>1. \A e, f \in L : e.type = "delegation_granted" /\ e.about = d
                        /\ f.type = "delegation_granted" /\ f.about = d => e = f
    BY DEF DelegationsOn
  <2>2. \A e \in M : e.type = "delegation_granted" => e \in L
    BY <1>1
  <2> QED BY <2>1, <2>2
<1> QED BY <1>2, <1>3, <1>4

\* The record and the rows after a commit.
LEMMA CommitOnRecord ==
  ASSUME DecisionInv, NEW q \in Request, CommitRequest(q)
  PROVE  OnRecord(governanceLog', approvalStatus', delegations')
<1> DEFINE E == pendingEvents[q]
           r == request[q]
<1>0. /\ stage[q] = "flushed" /\ FlushTrue(q, r, E, governanceLog, approvalStatus, delegations)
      /\ OnRecord(governanceLog, approvalStatus, delegations)
      /\ governanceLog' = governanceLog \cup E /\ IsFiniteSet(governanceLog')
  BY CommitWrites DEF CommitRequest, DecisionInv, Truth
<1>1. /\ \A a \in GovernedApproval :
           approvalStatus'[a] = IF ~ChangesApproval(q, a) THEN approvalStatus[a]
                                ELSE IF r[1] = "override" THEN "approved" ELSE "escalated"
      /\ \A d \in DelegationKey :
           delegations'[d] = IF r = <<"grant", d>> THEN "active"
                             ELSE IF r = <<"revoke", d>> THEN "revoked"
                             ELSE delegations[d]
  BY DEF CommitRequest
<1>2. \A e \in governanceLog : e.type = "quorum_met" =>
        Cardinality(ForVotes(governanceLog', e.about)) >= Required
  BY <1>0, VotesGrow, DecisionAssumption DEF OnRecord, QuorumsOn, DecisionAssumption
<1>3. CASE /\ r[1] = "vote"
           /\ \A e \in E : /\ e.type \in {"vote_for", "vote_against", "quorum_met"}
                           /\ e.type = "quorum_met" =>
                                Cardinality(ForVotes(governanceLog \cup E, e.about)) >= Required
  <2>1. \A a \in GovernedApproval : approvalStatus'[a] = approvalStatus[a]
    BY <1>1, <1>3, RequestKinds DEF ChangesApproval
  <2>2. \A d \in DelegationKey : delegations'[d] = delegations[d]
    BY <1>1, <1>3, RequestKinds
  <2> HIDE DEF E, r
  <2>3. QuorumsOn(governanceLog')
    BY <1>0, <1>2, <1>3 DEF QuorumsOn
  <2>4. \A e \in governanceLog' : e \in governanceLog \/ e.type \in {"vote_for", "vote_against", "quorum_met"}
    BY <1>0, <1>3
  <2>5. OverridesOn(governanceLog', approvalStatus')
    BY <1>0, <2>1, <2>4 DEF OnRecord, OverridesOn
  <2>6. DelegationsOn(governanceLog', delegations')
    BY <1>0, <2>2, <2>4, DelegationsKept DEF OnRecord
  <2> QED BY <2>3, <2>5, <2>6 DEF OnRecord
<1>4. ASSUME NEW a \in GovernedApproval, NEW k \in OverrideKey, r = <<"override", a, k>>,
             E = {Entry(q, "override_applied", a, k)}, approvalStatus[a] \in OpenStatus
      PROVE  OnRecord(governanceLog', approvalStatus', delegations')
  <2> DEFINE x == Entry(q, "override_applied", a, k)
  <2>1. x.type = "override_applied" /\ x.about = a /\ E = {x}
    BY <1>4 DEF Entry
  <2>2. /\ approvalStatus'[a] = "approved"
        /\ \A b \in GovernedApproval \ {a} : approvalStatus'[b] = approvalStatus[b]
    BY <1>0, <1>1, <1>4, RequestKinds DEF ChangesApproval
  <2>3. \A d \in DelegationKey : delegations'[d] = delegations[d]
    BY <1>1, <1>4, RequestKinds
  <2>4. \A e \in governanceLog : ~ (e.type = "override_applied" /\ e.about = a)
    BY <1>0, <1>4 DEF OnRecord, OverridesOn, OpenStatus
  <2> HIDE DEF x, E, r
  <2>5. \A e : e \in governanceLog' <=> e \in governanceLog \/ e = x
    BY <1>0, <2>1
  <2>6. QuorumsOn(governanceLog')
    BY <1>2, <2>1, <2>5 DEF QuorumsOn
  <2>7. OverridesOn(governanceLog', approvalStatus')
    BY <1>0, <2>1, <2>2, <2>4, <2>5 DEF OnRecord, OverridesOn
  <2>8. DelegationsOn(governanceLog', delegations')
    BY <1>0, <2>1, <2>3, <2>5, DelegationsKept DEF OnRecord
  <2> QED BY <2>6, <2>7, <2>8 DEF OnRecord
<1>5. ASSUME NEW a \in GovernedApproval, r = <<"escalate", a>>,
             E = {Entry(q, "escalation_triggered", a, "none")}, approvalStatus[a] \in OpenStatus
      PROVE  OnRecord(governanceLog', approvalStatus', delegations')
  <2> DEFINE x == Entry(q, "escalation_triggered", a, "none")
  <2>1. x.type = "escalation_triggered" /\ E = {x}
    BY <1>5 DEF Entry
  <2>2. \A b \in GovernedApproval \ {a} : approvalStatus'[b] = approvalStatus[b]
    BY <1>1, <1>5, RequestKinds DEF ChangesApproval
  <2>3. \A d \in DelegationKey : delegations'[d] = delegations[d]
    BY <1>1, <1>5, RequestKinds
  <2>4. \A e \in governanceLog : ~ (e.type = "override_applied" /\ e.about = a)
    BY <1>0, <1>5 DEF OnRecord, OverridesOn, OpenStatus
  <2> HIDE DEF x, E, r
  <2>5. \A e : e \in governanceLog' <=> e \in governanceLog \/ e = x
    BY <1>0, <2>1
  <2>6. QuorumsOn(governanceLog')
    BY <1>2, <2>1, <2>5 DEF QuorumsOn
  <2>7. OverridesOn(governanceLog', approvalStatus')
    BY <1>0, <2>1, <2>2, <2>4, <2>5 DEF OnRecord, OverridesOn
  <2>8. DelegationsOn(governanceLog', delegations')
    BY <1>0, <2>1, <2>3, <2>5, DelegationsKept DEF OnRecord
  <2> QED BY <2>6, <2>7, <2>8 DEF OnRecord
<1>6. ASSUME NEW d \in DelegationKey, r = <<"grant", d>>,
             E = {Entry(q, "delegation_granted", d, "none")}, delegations[d] = "none"
      PROVE  OnRecord(governanceLog', approvalStatus', delegations')
  <2> DEFINE x == Entry(q, "delegation_granted", d, "none")
  <2>1. x.type = "delegation_granted" /\ x.about = d /\ E = {x}
    BY <1>6 DEF Entry
  <2>2. \A b \in GovernedApproval : approvalStatus'[b] = approvalStatus[b]
    BY <1>1, <1>6, RequestKinds DEF ChangesApproval
  <2>3. delegations'[d] = "active" /\ \A c \in DelegationKey \ {d} : delegations'[c] = delegations[c]
    BY <1>1, <1>6, RequestKinds
  <2>4. \A e \in governanceLog :
          /\ ~ (e.type = "delegation_granted" /\ e.about = d)
          /\ ~ (e.type = "delegation_revoked" /\ e.about = d)
    BY <1>0, <1>6 DEF OnRecord, DelegationsOn
  <2> HIDE DEF x, E, r
  <2>5. \A e : e \in governanceLog' <=> e \in governanceLog \/ e = x
    BY <1>0, <2>1
  <2>6. QuorumsOn(governanceLog')
    BY <1>2, <2>1, <2>5 DEF QuorumsOn
  <2>7. OverridesOn(governanceLog', approvalStatus')
    BY <1>0, <2>1, <2>2, <2>5 DEF OnRecord, OverridesOn
  <2>8. ASSUME NEW c \in DelegationKey
        PROVE  /\ delegations'[c] # "none" <=>
                    \E e \in governanceLog' : e.type = "delegation_granted" /\ e.about = c
               /\ delegations'[c] = "revoked" <=>
                    \E e \in governanceLog' : e.type = "delegation_revoked" /\ e.about = c
               /\ \A e, f \in governanceLog' :
                    e.type = "delegation_granted" /\ e.about = c
                      /\ f.type = "delegation_granted" /\ f.about = c => e = f
    <3>0. DelegationsOn(governanceLog, delegations)
      BY <1>0 DEF OnRecord
    <3>1. CASE c = d
      <4>1. \A e \in governanceLog' : e.type = "delegation_granted" /\ e.about = d <=> e = x
        BY <2>1, <2>4, <2>5
      <4>2. \A e \in governanceLog' : ~ (e.type = "delegation_revoked" /\ e.about = d)
        BY <2>1, <2>4, <2>5
      <4>3. x \in governanceLog' /\ delegations'[d] = "active"
        BY <2>3, <2>5
      <4> QED BY <3>1, <4>1, <4>2, <4>3
    <3>2. CASE c # d
      <4>1. \A e \in governanceLog' :
              e.about = c /\ e.type \in {"delegation_granted", "delegation_revoked"}
                => e \in governanceLog
        BY <2>1, <2>5, <3>2
      <4>2. delegations'[c] = delegations[c] /\ governanceLog \subseteq governanceLog'
        BY <2>3, <2>5, <3>2
      <4>3. delegations'[c] # "none" <=>
              \E e \in governanceLog' : e.type = "delegation_granted" /\ e.about = c
        BY <3>0, <4>1, <4>2 DEF DelegationsOn
      <4>4. delegations'[c] = "revoked" <=>
              \E e \in governanceLog' : e.type = "delegation_revoked" /\ e.about = c
        BY <3>0, <4>1, <4>2 DEF DelegationsOn
      <4>5. \A e, f \in governanceLog' :
              e.type = "delegation_granted" /\ e.about = c
                /\ f.type = "delegation_granted" /\ f.about = c => e = f
        <5>1. \A e, f \in governanceLog :
                e.type = "delegation_granted" /\ e.about = c
                  /\ f.type = "delegation_granted" /\ f.about = c => e = f
          BY <3>0 DEF DelegationsOn
        <5> QED BY <4>1, <5>1
      <4> QED BY <4>3, <4>4, <4>5
    <3> QED BY <3>1, <3>2
  <2>9. DelegationsOn(governanceLog', delegations')
    BY <2>8 DEF DelegationsOn
  <2> QED BY <2>6, <2>7, <2>9 DEF OnRecord
<1>7. ASSUME NEW d \in DelegationKey, r = <<"revoke", d>>,
             E = {Entry(q, "delegation_revoked", d, "none")}, delegations[d] # "none"
      PROVE  OnRecord(governanceLog', approvalStatus', delegations')
  <2> DEFINE x == Entry(q, "delegation_revoked", d, "none")
  <2>1. x.type = "delegation_revoked" /\ x.about = d /\ E = {x}
    BY <1>7 DEF Entry
  <2>2. \A b \in GovernedApproval : approvalStatus'[b] = approvalStatus[b]
    BY <1>1, <1>7, RequestKinds DEF ChangesApproval
  <2>3. delegations'[d] = "revoked" /\ \A c \in DelegationKey \ {d} : delegations'[c] = delegations[c]
    BY <1>1, <1>7, RequestKinds
  <2> HIDE DEF x, E, r
  <2>4. \A e : e \in governanceLog' <=> e \in governanceLog \/ e = x
    BY <1>0, <2>1
  <2>5. QuorumsOn(governanceLog')
    BY <1>2, <2>1, <2>4 DEF QuorumsOn
  <2>6. OverridesOn(governanceLog', approvalStatus')
    BY <1>0, <2>1, <2>2, <2>4 DEF OnRecord, OverridesOn
  <2>7. ASSUME NEW c \in DelegationKey
        PROVE  /\ delegations'[c] # "none" <=>
                    \E e \in governanceLog' : e.type = "delegation_granted" /\ e.about = c
               /\ delegations'[c] = "revoked" <=>
                    \E e \in governanceLog' : e.type = "delegation_revoked" /\ e.about = c
               /\ \A e, f \in governanceLog' :
                    e.type = "delegation_granted" /\ e.about = c
                      /\ f.type = "delegation_granted" /\ f.about = c => e = f
    <3>0. DelegationsOn(governanceLog, delegations)
      BY <1>0 DEF OnRecord
    <3>1. governanceLog \subseteq governanceLog'
          /\ \A e \in governanceLog' : e.type = "delegation_granted" => e \in governanceLog
      BY <2>1, <2>4
    <3>2. delegations'[c] # "none" <=> delegations[c] # "none"
      BY <1>7, <2>3
    <3>3. delegations'[c] # "none" <=>
            \E e \in governanceLog' : e.type = "delegation_granted" /\ e.about = c
      BY <3>0, <3>1, <3>2 DEF DelegationsOn
    <3>4. delegations'[c] = "revoked" <=>
            \E e \in governanceLog' : e.type = "delegation_revoked" /\ e.about = c
      <4>1. CASE c = d
        BY <2>1, <2>3, <2>4, <4>1
      <4>2. CASE c # d
        <5>1. \A e \in governanceLog' :
                e.type = "delegation_revoked" /\ e.about = c => e \in governanceLog
          BY <2>1, <2>4, <4>2
        <5> QED BY <2>3, <3>0, <3>1, <4>2, <5>1 DEF DelegationsOn
      <4> QED BY <4>1, <4>2
    <3>5. \A e, f \in governanceLog' :
            e.type = "delegation_granted" /\ e.about = c
              /\ f.type = "delegation_granted" /\ f.about = c => e = f
      <4>1. \A e, f \in governanceLog :
              e.type = "delegation_granted" /\ e.about = c
                /\ f.type = "delegation_granted" /\ f.about = c => e = f
        BY <3>0 DEF DelegationsOn
      <4> QED BY <3>1, <4>1
    <3> QED BY <3>3, <3>4, <3>5
  <2>8. DelegationsOn(governanceLog', delegations')
    BY <2>7 DEF DelegationsOn
  <2> QED BY <2>5, <2>6, <2>8 DEF OnRecord
<1> HIDE DEF E, r
<1> QED BY <1>0, <1>3, <1>4, <1>5, <1>6, <1>7 DEF FlushTrue

\* A request commits.
LEMMA CommitMoves ==
  ASSUME DecisionInv, NEW q \in Request, CommitRequest(q)
  PROVE  DecisionInv'
<1>1. /\ request' = request /\ stage'[q] = "done"
      /\ stage' \in [Request -> {"new", "read", "flushed", "done"}]
      /\ pendingEvents' = [u \in Request |-> pendingEvents'[u]]
      /\ \A u \in Request \ {q} : stage'[u] = stage[u] /\ pendingEvents'[u] = pendingEvents[u]
  BY DEF CommitRequest, EndRequest, DecisionInv
<1>2. \A u \in Request : Truth(u, request'[u], stage'[u], pendingEvents'[u],
                               governanceLog', approvalStatus', delegations')
  <2>1. Truth(q, request'[q], stage'[q], pendingEvents'[q],
              governanceLog', approvalStatus', delegations')
    BY <1>1 DEF Truth
  <2> QED BY <1>1, <2>1, CommitSpares
<1>3. \A u \in Request : /\ \A a \in GovernedApproval : ChangesApproval(u, a)' => ChangesApproval(u, a)
                         /\ \A d \in DelegationKey : Granting(u, d)' => Granting(u, d)
  BY <1>1 DEF ChangesApproval, Granting
<1> QED BY <1>1, <1>2, <1>3, CommitWrites, CommitOnRecord DEF DecisionInv

\* The approval runtimes decide a row that nobody has locked.
LEMMA ResolveMoves ==
  ASSUME DecisionInv, NEW a \in GovernedApproval, NEW status \in ClosedStatus,
         ResolveApproval(a, status)
  PROVE  DecisionInv'
<1>1. /\ approvalStatus' \in [GovernedApproval -> OpenStatus \cup ClosedStatus]
      /\ \A b \in GovernedApproval \ {a} : approvalStatus'[b] = approvalStatus[b]
      /\ UNCHANGED <<request, stage, pendingEvents, governanceLog, delegations>>
      /\ approvalStatus[a] \in OpenStatus
      /\ \A q \in Request : ~ ChangesApproval(q, a)
  BY DEF ResolveApproval, DecisionInv, RowLocked
<1>2. ASSUME NEW q \in Request
      PROVE  Truth(q, request[q], stage[q], pendingEvents[q],
                   governanceLog, approvalStatus', delegations)
  <2>1. Truth(q, request[q], stage[q], pendingEvents[q],
              governanceLog, approvalStatus, delegations)
    BY DEF DecisionInv
  <2>2. stage[q] = "flushed" =>
          /\ request[q] # <<"escalate", a>>
          /\ \A k \in OverrideKey : request[q] # <<"override", a, k>>
    BY <1>1 DEF ChangesApproval
  <2>3. stage[q] = "flushed" => FlushTrue(q, request[q], pendingEvents[q],
                                          governanceLog, approvalStatus', delegations)
    BY <1>1, <2>1, <2>2 DEF Truth, FlushTrue
  <2> QED BY <2>1, <2>3 DEF Truth
<1>3. OnRecord(governanceLog, approvalStatus', delegations)
  <2>1. \A e \in governanceLog : ~ (e.type = "override_applied" /\ e.about = a)
    BY <1>1 DEF DecisionInv, OnRecord, OverridesOn, OpenStatus
  <2>2. OverridesOn(governanceLog, approvalStatus')
    BY <1>1, <2>1 DEF DecisionInv, OnRecord, OverridesOn
  <2> QED BY <2>2 DEF DecisionInv, OnRecord
<1>4. \A u \in Request : /\ \A b \in GovernedApproval : ChangesApproval(u, b)' <=> ChangesApproval(u, b)
                         /\ \A d \in DelegationKey : Granting(u, d)' <=> Granting(u, d)
  BY <1>1 DEF ChangesApproval, Granting
<1> QED BY <1>1, <1>2, <1>3, <1>4 DEF DecisionInv

\* Every step of the service keeps the invariant.
LEMMA DecisionsInductive == DecisionInv /\ [DecisionNext]_decisionVars => DecisionInv'
<1> SUFFICES ASSUME DecisionInv, [DecisionNext]_decisionVars PROVE DecisionInv'
  OBVIOUS
<1>1. ASSUME NEW q \in Request, NEW a \in GovernedApproval, NEW v \in Voter,
             NEW ballot \in {"vote_for", "vote_against"}, ReadVotes(q, a, v, ballot)
      PROVE  DecisionInv'
  <2>1. ReadTrue(<<"vote", a, v, ballot>>, delegations)
    BY DEF ReadTrue
  <2> QED BY <1>1, <2>1, ReadMoves DEF ReadVotes
<1>2. ASSUME NEW q \in Request, NEW a \in GovernedApproval, NEW k \in OverrideKey,
             LookUpOverride(q, a, k)
      PROVE  DecisionInv'
  <2>1. ReadTrue(<<"override", a, k>>, delegations)
    BY DEF ReadTrue
  <2> QED BY <1>2, <2>1, ReadMoves DEF LookUpOverride
<1>3. ASSUME NEW q \in Request, NEW d \in DelegationKey, ReadDelegation(q, d)
      PROVE  DecisionInv'
  <2>1. ReadTrue(<<"revoke", d>>, delegations)
    BY <1>3 DEF ReadTrue, ReadDelegation
  <2> QED BY <1>3, <2>1, ReadMoves DEF ReadDelegation
<1>4. ASSUME NEW q \in Request, RollbackRequest(q)
      PROVE  DecisionInv'
  <2>1. Truth(q, request[q], "done", {}, governanceLog, approvalStatus, delegations)
    BY DEF Truth
  <2>2. /\ request' = [request EXCEPT ![q] = request[q]]
        /\ stage' = [stage EXCEPT ![q] = "done"]
        /\ pendingEvents' = [pendingEvents EXCEPT ![q] = {}]
        /\ UNCHANGED <<governanceLog, approvalStatus, delegations>>
    BY <1>4 DEF RollbackRequest, EndRequest, DecisionInv
  <2> QED BY <2>1, <2>2, RequestMoves
<1>5. CASE UNCHANGED decisionVars
  <2>1. \A u \in Request : /\ \A b \in GovernedApproval : ChangesApproval(u, b)' <=> ChangesApproval(u, b)
                           /\ \A d \in DelegationKey : Granting(u, d)' <=> Granting(u, d)
    BY <1>5 DEF decisionVars, ChangesApproval, Granting
  <2> QED BY <1>5, <2>1 DEF decisionVars, DecisionInv
<1> QED BY <1>1, <1>2, <1>3, <1>4, <1>5, VoteAppended, VotesFlushed, CommitMoves, ResolveMoves
    DEF DecisionNext

\* The invariant holds at the start.
LEMMA DecisionsInitially == DecisionInit => DecisionInv
<1> SUFFICES ASSUME DecisionInit PROVE DecisionInv
  OBVIOUS
<1>1. /\ stage \in [Request -> {"new", "read", "flushed", "done"}]
      /\ \A q \in Request : stage[q] = "new"
      /\ approvalStatus \in [GovernedApproval -> OpenStatus \cup ClosedStatus]
      /\ delegations \in [DelegationKey -> {"none", "active", "revoked"}]
      /\ governanceLog = {} /\ \A d \in DelegationKey : delegations[d] = "none"
      /\ request = [q \in Request |-> request[q]]
      /\ pendingEvents = [q \in Request |-> pendingEvents[q]]
  BY DEF DecisionInit, OpenStatus
<1>2. OnRecord(governanceLog, approvalStatus, delegations)
  BY <1>1 DEF OnRecord, QuorumsOn, OverridesOn, DelegationsOn
<1>3. \A q \in Request : Truth(q, request[q], stage[q], pendingEvents[q],
                               governanceLog, approvalStatus, delegations)
  BY <1>1 DEF Truth
<1> QED BY <1>1, <1>2, <1>3, FS_EmptySet DEF DecisionInv, ChangesApproval, Granting

\* The property, in the terms the invariant uses.
LEMMA OnRecordShows ==
  ASSUME DecisionInv
  PROVE  DecisionsOnRecord
<1>1. OnRecord(governanceLog, approvalStatus, delegations)
  BY DEF DecisionInv
<1>2. \A a : ForVotes(governanceLog, a) = Logged("vote_for", a)
  BY DEF ForVotes, Logged
<1>3. ASSUME NEW a \in GovernedApproval, Logged("override_applied", a) # {}
      PROVE  Cardinality(Logged("override_applied", a)) = 1 /\ approvalStatus[a] = "approved"
  <2>1. PICK e : e \in Logged("override_applied", a)
    BY <1>3
  <2>2. Logged("override_applied", a) = {e} /\ approvalStatus[a] = "approved"
    BY <1>1, <2>1 DEF OnRecord, OverridesOn, Logged
  <2> QED BY <2>2, FS_Singleton
<1>4. ASSUME NEW d \in DelegationKey
      PROVE  delegations[d] # "none" <=> Cardinality(Logged("delegation_granted", d)) = 1
  <2>1. ASSUME NEW e \in Logged("delegation_granted", d)
        PROVE  Logged("delegation_granted", d) = {e}
    BY <1>1, <2>1 DEF OnRecord, DelegationsOn, Logged
  <2>2. delegations[d] # "none" <=> Logged("delegation_granted", d) # {}
    BY <1>1 DEF OnRecord, DelegationsOn, Logged
  <2>3. CASE Logged("delegation_granted", d) = {}
    BY <2>2, <2>3, FS_EmptySet
  <2>4. CASE Logged("delegation_granted", d) # {}
    BY <2>1, <2>2, <2>4, FS_Singleton
  <2> QED BY <2>3, <2>4
<1>5. \A d \in DelegationKey :
        delegations[d] = "revoked" <=> Logged("delegation_revoked", d) # {}
  BY <1>1 DEF OnRecord, DelegationsOn, Logged
<1> QED BY <1>1, <1>2, <1>3, <1>4, <1>5 DEF OnRecord, QuorumsOn, DecisionsOnRecord

\* However votes, overrides, escalations, delegations and decisions of the
\* approval runtimes cross, the governance record and the rows agree, for any
\* number of requests.
THEOREM DecisionsStayOnRecord == DecisionSpec => []DecisionsOnRecord
BY DecisionsInitially, DecisionsInductive, OnRecordShows, PTL DEF DecisionSpec

\* Events of the kinds there are, of requests that there are.
TypedEvents(E) ==
  \A e \in E :
    /\ e.request \in Request
    /\ e.type \in {"vote_for", "vote_against", "quorum_met", "override_applied",
                   "escalation_triggered", "delegation_granted", "delegation_revoked"}

EventsTyped == TypedEvents(governanceLog) /\ \A q \in Request : TypedEvents(pendingEvents[q])

\* The invariant holds at the start.
LEMMA EventsInitially == DecisionInit => EventsTyped
BY DEF DecisionInit, EventsTyped, TypedEvents

\* Every step of the service keeps the invariant.
LEMMA EventsStep ==
  ASSUME DecisionInv, EventsTyped, [DecisionNext]_decisionVars
  PROVE  EventsTyped'
<1>e. ASSUME NEW q \in Request, NEW about, NEW by,
             NEW type \in {"vote_for", "vote_against", "quorum_met", "override_applied",
                           "escalation_triggered", "delegation_granted", "delegation_revoked"}
      PROVE  TypedEvents({Entry(q, type, about, by)})
  BY DEF TypedEvents, Entry
<1>f. ASSUME NEW q \in Request, NEW what, NEW E, TypedEvents(E), FlushFor(q, what, E)
      PROVE  EventsTyped'
  <2>1. governanceLog' = governanceLog /\ pendingEvents' = [pendingEvents EXCEPT ![q] = E]
    BY <1>f DEF FlushFor
  <2>2. \A o \in Request : pendingEvents'[o] = IF o = q THEN E ELSE pendingEvents[o]
    BY <2>1 DEF DecisionInv
  <2> QED BY <2>1, <2>2, <1>f DEF EventsTyped, TypedEvents
<1>g. ASSUME NEW q \in Request, EndRequest(q) PROVE \A o \in Request : TypedEvents(pendingEvents'[o])
  <2>1. \A o \in Request : pendingEvents'[o] = IF o = q THEN {} ELSE pendingEvents[o]
    BY <1>g DEF EndRequest, DecisionInv
  <2> QED BY <2>1 DEF EventsTyped, TypedEvents
<1>1. ASSUME NEW q \in Request, AppendVote(q) PROVE EventsTyped'
  <2>1. PICK a : a = request[q][2]
    OBVIOUS
  <2>2. PICK vote : vote = Entry(q, request[q][4], a, request[q][3])
    OBVIOUS
  <2>3. request[q][4] \in {"vote_for", "vote_against"}
    <3>1. ReadTrue(request[q], delegations) /\ request[q][1] = "vote"
      BY <1>1 DEF AppendVote, DecisionInv, Truth
    <3>2. \E b, v : \E ballot \in {"vote_for", "vote_against"} : request[q] = <<"vote", b, v, ballot>>
      BY <3>1 DEF ReadTrue
    <3> QED BY <3>2
  <2>4. TypedEvents({vote})
    BY <2>2, <2>3, <1>e
  <2>5. TypedEvents({Entry(q, "quorum_met", a, request[q][3])}) /\ TypedEvents({})
    BY <1>e DEF TypedEvents
  <2>6. PICK met : /\ TypedEvents(met) /\ FlushFor(q, request[q], {vote} \cup met)
    <3>1. FlushFor(q, request[q], {vote} \cup {Entry(q, "quorum_met", a, request[q][3])})
          \/ FlushFor(q, request[q], {vote} \cup {})
      BY <1>1, <2>1, <2>2 DEF AppendVote
    <3> QED BY <3>1, <2>5
  <2>7. TypedEvents({vote} \cup met)
    BY <2>4, <2>6 DEF TypedEvents
  <2> QED BY <2>6, <2>7, <1>f
<1>2. ASSUME NEW q \in Request, ApplyOverride(q) \/ RevokeDelegation(q) PROVE EventsTyped'
  BY <1>2, <1>e, <1>f DEF ApplyOverride, RevokeDelegation
<1>3. ASSUME NEW q \in Request, NEW a \in GovernedApproval, Escalate(q, a) PROVE EventsTyped'
  BY <1>3, <1>e, <1>f DEF Escalate
<1>4. ASSUME NEW q \in Request, NEW d \in DelegationKey, Grant(q, d) PROVE EventsTyped'
  BY <1>4, <1>e, <1>f DEF Grant
<1>5. ASSUME NEW q \in Request, CommitRequest(q) PROVE EventsTyped'
  <2>1. EndRequest(q) /\ governanceLog' = governanceLog \cup pendingEvents[q]
    BY <1>5 DEF CommitRequest
  <2>2. TypedEvents(governanceLog')
    BY <2>1 DEF EventsTyped, TypedEvents
  <2> QED BY <2>1, <2>2, <1>g DEF EventsTyped
<1>6. ASSUME NEW q \in Request, RollbackRequest(q) PROVE EventsTyped'
  <2>1. EndRequest(q) /\ governanceLog' = governanceLog
    BY <1>6 DEF RollbackRequest
  <2> QED BY <2>1, <1>g DEF EventsTyped
<1>7. ASSUME UNCHANGED <<pendingEvents, governanceLog>> PROVE EventsTyped'
  BY <1>7 DEF EventsTyped
<1>8. ASSUME NEW q \in Request, NEW what, ReadFor(q, what) PROVE EventsTyped'
  BY <1>7, <1>8 DEF ReadFor
<1>9. ASSUME NEW q \in Request,
             \/ \E a \in GovernedApproval, v \in Voter, ballot \in {"vote_for", "vote_against"} :
                  ReadVotes(q, a, v, ballot)
             \/ \E a \in GovernedApproval, k \in OverrideKey : LookUpOverride(q, a, k)
             \/ \E d \in DelegationKey : ReadDelegation(q, d)
      PROVE  EventsTyped'
  BY <1>8, <1>9 DEF ReadVotes, LookUpOverride, ReadDelegation
<1>10. ASSUME NEW a \in GovernedApproval, NEW status \in ClosedStatus, ResolveApproval(a, status)
       PROVE  EventsTyped'
  BY <1>7, <1>10 DEF ResolveApproval
<1>11. CASE UNCHANGED decisionVars
  BY <1>7, <1>11 DEF decisionVars
<1> QED BY <1>1, <1>2, <1>3, <1>4, <1>5, <1>6, <1>9, <1>10, <1>11 DEF DecisionNext

\* The types.
LEMMA DecisionTypes == DecisionInv /\ EventsTyped => DecisionTypeOK
BY DEF DecisionInv, EventsTyped, TypedEvents, DecisionTypeOK

-----------------------------------------------------------------------------
(* VoiceIngest.  Invariant: one message to each key, whatever the order of the *)
(* reports.                                                                *)

\* What the rows of one call agree on.
IngestInv ==
  /\ IngestTypeOK
  /\ OutcomeIsOrderFree

\* The key of a call's end is no key of a turn.
LEMMA KeysApart ==
  /\ \A n, m : Once(n) = Once(m) => n = m
  /\ \A n : Once(n) \notin TurnKey
BY DEF Once, TurnKey

\* The invariant holds at the start.
LEMMA IngestInitially == IngestInit => IngestInv
<1> SUFFICES ASSUME IngestInit PROVE IngestInv
  OBVIOUS
<1>1. IngestTypeOK
  BY DEF IngestInit, IngestTypeOK
<1>2. OutcomeIsOrderFree
  BY DEF IngestInit, OutcomeIsOrderFree, Known
<1> QED BY <1>1, <1>2 DEF IngestInv

\* An acknowledged message is known from then on, and no other.
LEMMA KnownNext ==
  ASSUME NEW key, NEW body, Acknowledge(key, body)
  PROVE  \A k : Known(k)' <=> Known(k) \/ k = key
<1> PICK new : new = [key |-> key, body |-> body]
  OBVIOUS
<1>1. new.key = key /\ \A r : r \in ingested' <=> r \in ingested \/ r = new
  BY DEF Acknowledge
<1> QED BY <1>1 DEF Known

\* A fresh message leaves one body to each key.
LEMMA OneBody ==
  ASSUME NEW key, NEW body, Acknowledge(key, body), Fresh(key, body),
         \A r, s \in ingested : r.key = s.key => r = s
  PROVE  \A r, s \in ingested' : r.key = s.key => r = s
<1>1. \A r \in ingested : r.key # key
  BY DEF Fresh, Known
<1>2. \A r \in ingested' : r \in ingested \/ r = [key |-> key, body |-> body]
  BY DEF Acknowledge
<1> QED BY <1>1, <1>2

\* Every step of the service keeps the invariant.
LEMMA IngestStep == IngestInv /\ [IngestNext]_ingestVars => IngestInv'
<1> SUFFICES ASSUME IngestInv, [IngestNext]_ingestVars PROVE IngestInv'
  OBVIOUS
<1> USE IngestAssumption
<1>t. IngestTypeOK /\ OutcomeIsOrderFree
  BY DEF IngestInv
<1>1. CASE UNCHANGED ingestVars
  BY <1>1 DEF IngestInv, ingestVars, IngestTypeOK, OutcomeIsOrderFree, Known
<1>2. ASSUME NEW body \in Body, IngestCall(body) PROVE IngestInv'
  <2>1. \A k : Known(k)' <=> Known(k) \/ k = Once("call")
    BY <1>2, KnownNext DEF IngestCall
  <2>2. IngestTypeOK'
    <3>1. Once("call") \in EventKey
      BY DEF EventKey
    <3> QED BY <1>2, <1>t, <3>1 DEF IngestCall, IngestTypeOK, Acknowledge, StartSession
  <2>3. callStatus = "none" /\ conversation.status = "none" /\ callStatus' = "connected"
        /\ conversation' = [conversation EXCEPT !.status = "active"]
    BY <1>2, <1>t DEF IngestCall, StartSession, OutcomeIsOrderFree
  <2>4. conversation'.status = "active" /\ conversation'.count = conversation.count
        /\ conversation'.turns = conversation.turns
    BY <2>3, <1>t DEF IngestTypeOK
  <2>5. ~ Known(Once("failed")) /\ ~ Known(Once("complete")) /\ ~ Known(Once("ended"))
    BY <1>t, <2>3 DEF OutcomeIsOrderFree
  <2>6. Once("failed") # Once("call") /\ Once("complete") # Once("call") /\ Once("ended") # Once("call")
    BY KeysApart
  <2>7. conversation'.turns = {k \in TurnKey : Known(k)'}
    BY <2>1, <2>4, <1>t, KeysApart DEF OutcomeIsOrderFree
  <2>8. \A r, s \in ingested' : r.key = s.key => r = s
    BY <1>2, <1>t, OneBody DEF IngestCall, OutcomeIsOrderFree
  <2>9. OutcomeIsOrderFree'
    BY <2>1, <2>3, <2>4, <2>5, <2>6, <2>7, <2>8, <1>t DEF OutcomeIsOrderFree
  <2> QED BY <2>2, <2>9 DEF IngestInv
<1>3. ASSUME NEW body \in Body, NEW speaker \in Speaker, NEW index \in TurnIndex,
             IngestTurn(speaker, index, body)
      PROVE  IngestInv'
  <2> PICK key : key = <<speaker, index>>
    OBVIOUS
  <2>0. key \in TurnKey /\ key[2] = index /\ key \in EventKey /\ index \in Nat
    BY DEF TurnKey, EventKey
  <2>1. \A k : Known(k)' <=> Known(k) \/ k = key
    BY <1>3, KnownNext DEF IngestTurn
  <2>3. /\ conversation'.status = conversation.status
        /\ conversation'.count = IF index + 1 > conversation.count THEN index + 1
                                 ELSE conversation.count
        /\ conversation'.turns = conversation.turns \cup {key}
        /\ callStatus' = callStatus
        /\ conversation' \in [status : {"none", "active", "completed", "failed"},
                       count : {0} \cup {i + 1 : i \in TurnIndex}, turns : SUBSET TurnKey]
    BY <1>3, <1>t, <2>0 DEF IngestTurn, IngestTypeOK
  <2>2. IngestTypeOK'
    BY <1>3, <1>t, <2>0, <2>3 DEF IngestTurn, IngestTypeOK, Acknowledge
  <2>4. \A n : Once(n) # key
    BY KeysApart, <2>0
  <2>5. conversation'.turns = {k \in TurnKey : Known(k)'}
    BY <2>0, <2>1, <2>3, <1>t DEF OutcomeIsOrderFree
  <2>6. \A r, s \in ingested' : r.key = s.key => r = s
    BY <1>3, <1>t, OneBody DEF IngestTurn, OutcomeIsOrderFree
  <2>7. conversation.count \in Nat /\ \A k \in TurnKey : k[2] \in Nat
    <3>1. conversation.count \in {0} \cup {i + 1 : i \in TurnIndex}
      BY <1>t DEF IngestTypeOK
    <3>2. \A i \in TurnIndex : i + 1 \in Nat
      OBVIOUS
    <3>3. conversation.count \in Nat
      BY <3>1, <3>2
    <3>4. \A k \in TurnKey : k[2] \in Nat
      BY DEF TurnKey
    <3> QED BY <3>3, <3>4
  <2>a. conversation.turns \subseteq TurnKey
    BY <1>t DEF IngestTypeOK
  <2>8. \A k \in conversation'.turns : k[2] < conversation'.count
    <3> SUFFICES ASSUME NEW k \in conversation'.turns PROVE k[2] < conversation'.count
      OBVIOUS
    <3>1. CASE k = key
      BY <3>1, <2>0, <2>3, <2>7
    <3>2. CASE k \in conversation.turns
      <4>1. k[2] < conversation.count
        BY <3>2, <1>t DEF OutcomeIsOrderFree
      <4> QED BY <4>1, <3>2, <2>0, <2>3, <2>7, <2>a
    <3> QED BY <3>1, <3>2, <2>3
  <2>9. conversation'.count > 0 => \E k \in conversation'.turns : k[2] + 1 = conversation'.count
    <3>1. CASE index + 1 > conversation.count
      BY <3>1, <2>0, <2>3
    <3>2. CASE ~ (index + 1 > conversation.count)
      BY <3>2, <2>3, <2>7, <2>0, <1>t DEF OutcomeIsOrderFree
    <3> QED BY <3>1, <3>2
  <2>10. OutcomeIsOrderFree'
    BY <2>1, <2>3, <2>4, <2>5, <2>6, <2>8, <2>9, <1>t DEF OutcomeIsOrderFree
  <2> QED BY <2>2, <2>10 DEF IngestInv
<1>4. ASSUME NEW body \in Body, NEW key \in EndKey, Finish(key, body) PROVE IngestInv'
  <2>1. \A k : Known(k)' <=> Known(k) \/ k = Once(key)
    BY <1>4, KnownNext DEF Finish
  <2>2. Once(key) \in EventKey
    BY DEF EventKey
  <2>3. /\ conversation'.status = Ended(key)
        /\ conversation'.count = conversation.count /\ conversation'.turns = conversation.turns
        /\ callStatus' = Ended(key) /\ Ended(key) \in {"completed", "failed"}
        /\ conversation' \in [status : {"none", "active", "completed", "failed"},
                       count : {0} \cup {i + 1 : i \in TurnIndex}, turns : SUBSET TurnKey]
    BY <1>4, <1>t DEF Finish, IngestTypeOK, Ended
  <2>4. IngestTypeOK'
    BY <1>4, <1>t, <2>2, <2>3 DEF Finish, IngestTypeOK, Acknowledge
  <2>5. conversation'.turns = {k \in TurnKey : Known(k)'}
    BY <2>1, <2>3, <1>t, KeysApart DEF OutcomeIsOrderFree
  <2>6. \A r, s \in ingested' : r.key = s.key => r = s
    BY <1>4, <1>t, OneBody DEF Finish, OutcomeIsOrderFree
  <2>7. callStatus = "failed" <=> Known(Once("failed"))
    BY <1>t DEF OutcomeIsOrderFree
  <2>8. callStatus' = IF Known(Once("failed"))' THEN "failed"
                      ELSE IF Known(Once("complete"))' \/ Known(Once("ended"))' THEN "completed"
                      ELSE IF Known(Once("call"))' THEN "connected" ELSE "none"
    BY <2>1, <2>3, <2>7, KeysApart DEF Ended, EndKey
  <2>9. OutcomeIsOrderFree'
    BY <2>3, <2>5, <2>6, <2>8, <1>t DEF OutcomeIsOrderFree
  <2> QED BY <2>4, <2>9 DEF IngestInv
<1>5. ASSUME NEW body \in Body, IngestTranscript(body) PROVE IngestInv'
  <2>1. \A k : Known(k)' <=> Known(k) \/ k = Once("transcript")
    BY <1>5, KnownNext DEF IngestTranscript
  <2>2. Once("transcript") \in EventKey
    BY DEF EventKey
  <2>4. IngestTypeOK'
    BY <1>5, <1>t, <2>2 DEF IngestTranscript, IngestTypeOK, Acknowledge
  <2>5. conversation.turns = {k \in TurnKey : Known(k)'}
    BY <2>1, <1>t, KeysApart DEF OutcomeIsOrderFree
  <2>6. \A r, s \in ingested' : r.key = s.key => r = s
    BY <1>5, <1>t, OneBody DEF IngestTranscript, OutcomeIsOrderFree
  <2>7. Once("transcript") \notin {Once("failed"), Once("complete"), Once("ended"), Once("call")}
    BY KeysApart
  <2>8. conversation' = conversation /\ callStatus' = callStatus
    BY <1>5 DEF IngestTranscript
  <2>9. OutcomeIsOrderFree'
    BY <2>1, <2>5, <2>6, <2>7, <2>8, <1>t DEF OutcomeIsOrderFree
  <2> QED BY <2>4, <2>9 DEF IngestInv
<1> QED BY <1>1, <1>2, <1>3, <1>4, <1>5 DEF IngestNext

-----------------------------------------------------------------------------
(* LeadDesk, the operators.  Invariant: a request carries only its own field. *)

\* What a request on the lead carries to its commit.
EditOf(d) ==
  LET e == editing[d] IN
  \/ e = NoEdit
  \/ /\ e.field \in {"status", "followup", "notes", "rewrite"}
     /\ e.seen \in [status : LeadStatus, followup : FollowUp, notes : SUBSET Desk]
     /\ e.asked \in [status : LeadStatus, followup : FollowUp, notes : SUBSET Desk]
     /\ e.field \in {"status", "followup"} => e.asked.notes = e.seen.notes
     /\ e.field = "notes" => d \notin e.seen.notes /\ e.asked.notes = e.seen.notes \cup {d}
     /\ e.field = "rewrite" => e.asked.notes = {}

DeskInv ==
  /\ DeskTypeOK
  /\ DOMAIN editing = Desk
  /\ editing = [d \in Desk |-> editing[d]]
  /\ \A d \in Desk : EditOf(d)
  /\ FieldsKeepApart

\* The invariant holds at the start.
LEMMA DeskInitially == DeskInit => DeskInv
<1> SUFFICES ASSUME DeskInit PROVE DeskInv
  OBVIOUS
<1>1. \A d \in Desk : editing[d] = NoEdit
  BY DEF DeskInit
<1>2. DeskTypeOK
  BY <1>1 DEF DeskInit, DeskTypeOK, NewLead, LeadStatus, FollowUp
<1> QED BY <1>1, <1>2 DEF DeskInit, DeskInv, EditOf, FieldsKeepApart

\* A request on the lead begins.
LEMMA OpensStep ==
  ASSUME DeskInv, NEW d \in Desk, NEW field \in {"status", "followup", "notes", "rewrite"},
         NEW asked \in [status : LeadStatus, followup : FollowUp, notes : SUBSET Desk],
         field \in {"status", "followup"} => asked.notes = lead.notes,
         field = "notes" => d \notin lead.notes /\ asked.notes = lead.notes \cup {d},
         field = "rewrite" => asked.notes = {},
         Opens(d, field, asked)
  PROVE  DeskInv'
<1>1. lead' = lead /\ kept' = kept
  BY DEF Opens
<1>2. /\ editing'[d] = [field |-> field, seen |-> lead, asked |-> asked]
      /\ \A o \in Desk : o # d => editing'[o] = editing[o]
      /\ DOMAIN editing' = Desk /\ editing' = [o \in Desk |-> editing'[o]]
  BY DEF Opens, DeskInv
<1>3. DeskTypeOK'
  BY <1>1, <1>2 DEF DeskInv, DeskTypeOK
<1>4. \A o \in Desk : EditOf(o)'
  BY <1>1, <1>2 DEF DeskInv, DeskTypeOK, EditOf
<1> QED BY <1>1, <1>2, <1>3, <1>4 DEF DeskInv, FieldsKeepApart

\* A request on the lead commits: what others confirmed meanwhile stays.
LEMMA CommitDeskStep ==
  ASSUME DeskInv, NEW d \in Desk, CommitDesk(d) PROVE DeskInv'
<1>1. /\ editing[d].field \in {"status", "followup", "notes", "rewrite"}
      /\ editing[d].seen \in [status : LeadStatus, followup : FollowUp, notes : SUBSET Desk]
      /\ editing[d].asked \in [status : LeadStatus, followup : FollowUp, notes : SUBSET Desk]
      /\ editing[d].field \in {"status", "followup"} => editing[d].asked.notes = editing[d].seen.notes
      /\ editing[d].field = "notes" =>
           d \notin editing[d].seen.notes /\ editing[d].asked.notes = editing[d].seen.notes \cup {d}
      /\ editing[d].field = "rewrite" => editing[d].asked.notes = {}
  BY DEF DeskInv, EditOf, CommitDesk
<1>2. /\ lead' \in [status : LeadStatus, followup : FollowUp, notes : SUBSET Desk]
      /\ lead'.notes = IF editing[d].asked.notes = editing[d].seen.notes
                       THEN lead.notes ELSE editing[d].asked.notes
  BY <1>1 DEF CommitDesk, Flushed, DeskInv, DeskTypeOK
<1>3. kept' = CASE editing[d].field = "notes"   -> (kept \cap editing[d].seen.notes) \cup {d}
               [] editing[d].field = "rewrite" -> {}
               [] OTHER -> kept
  BY DEF CommitDesk
<1>4. /\ editing'[d] = NoEdit
      /\ \A o \in Desk : o # d => editing'[o] = editing[o]
      /\ DOMAIN editing' = Desk /\ editing' = [o \in Desk |-> editing'[o]]
  BY DEF CommitDesk, DeskInv
<1>5. kept \subseteq lead.notes /\ kept \subseteq Desk
  BY DEF DeskInv, FieldsKeepApart, DeskTypeOK
<1>6. kept' \subseteq lead'.notes /\ kept' \subseteq Desk
  <2>1. CASE editing[d].field = "notes"
    BY <2>1, <1>1, <1>2, <1>3, <1>5
  <2>2. CASE editing[d].field = "rewrite"
    BY <2>2, <1>1, <1>2, <1>3, <1>5
  <2>3. CASE editing[d].field \in {"status", "followup"}
    BY <2>3, <1>1, <1>2, <1>3, <1>5
  <2> QED BY <2>1, <2>2, <2>3, <1>1
<1>7. DeskTypeOK'
  BY <1>2, <1>4, <1>6 DEF DeskInv, DeskTypeOK
<1>8. \A o \in Desk : EditOf(o)'
  BY <1>4 DEF DeskInv, EditOf
<1> QED BY <1>4, <1>6, <1>7, <1>8 DEF DeskInv, FieldsKeepApart

\* Every step of the service keeps the invariant.
LEMMA DeskStep == DeskInv /\ [DeskNext]_deskVars => DeskInv'
<1> SUFFICES ASSUME DeskInv, [DeskNext]_deskVars PROVE DeskInv'
  OBVIOUS
<1>0. lead \in [status : LeadStatus, followup : FollowUp, notes : SUBSET Desk]
  BY DEF DeskInv, DeskTypeOK
<1>1. CASE UNCHANGED deskVars
  BY <1>1 DEF DeskInv, deskVars, DeskTypeOK, EditOf, FieldsKeepApart
<1>2. ASSUME NEW d \in Desk, NEW status \in LeadStatus, UpdateLeadStatus(d, status) PROVE DeskInv'
  BY <1>0, <1>2, OpensStep DEF UpdateLeadStatus
<1>3. ASSUME NEW d \in Desk, NEW date \in FollowUp, UpdateFollowup(d, date) PROVE DeskInv'
  BY <1>0, <1>3, OpensStep DEF UpdateFollowup
<1>4. ASSUME NEW d \in Desk, AddLeadNote(d) PROVE DeskInv'
  BY <1>0, <1>4, OpensStep DEF AddLeadNote
<1>5. ASSUME NEW d \in Desk, UpdateLeadNotes(d) PROVE DeskInv'
  BY <1>0, <1>5, OpensStep DEF UpdateLeadNotes
<1>6. ASSUME NEW d \in Desk, CommitDesk(d) PROVE DeskInv'
  BY <1>6, CommitDeskStep
<1> QED BY <1>1, <1>2, <1>3, <1>4, <1>5, <1>6 DEF DeskNext

-----------------------------------------------------------------------------
(* LeadDesk, creation.  Invariant: who holds the key knows the row.        *)

\* A creation between its lock on the key and its commit.
KeyHeld(t) == taker[t].at \in {"locked", "missing"}

\* One creation holds the key, and one that misses the row is right as long as it
\* does; every answer names the row.
TakerInv ==
  /\ TakerTypeOK
  /\ records = {} \/ \E r : records = {r}
  /\ \A t, o \in Taker : KeyHeld(t) /\ KeyHeld(o) => t = o
  /\ \A t \in Taker : taker[t].at = "missing" => records = {}
  /\ \A t \in Taker : KeyHeld(t) => taker[t].payload \in Payload
  /\ \A r \in records : r.payload \in Payload /\ r.id \in Nat
                        /\ r = [id |-> r.id, payload |-> r.payload, lead |-> r.lead]
  /\ \A a \in answers : \E r \in records : a = <<r.payload, r.id>>

\* The invariant holds at the start.
LEMMA TakerInitially == TakerInit => TakerInv
BY DEF TakerInit, TakerInv, TakerTypeOK, NoTake, KeyHeld

\* What the suite asks follows from the invariant.
LEMMA TakerImplies == TakerInv => OneRowPerKey
<1> SUFFICES ASSUME TakerInv PROVE OneRowPerKey
  OBVIOUS
<1>1. Cardinality(records) <= 1
  <2>1. CASE records = {}
    BY <2>1, FS_EmptySet
  <2>2. CASE \E r : records = {r}
    BY <2>2, FS_Singleton
  <2> QED BY <2>1, <2>2 DEF TakerInv
<1> QED BY <1>1 DEF TakerInv, OneRowPerKey

\* The place of a creation, written out.
LEMMA TakerPlace ==
  ASSUME NEW t \in Taker, NEW at,
         taker \in [Taker -> [at : {"idle", "locked", "missing", "converting"},
                          payload : Payload \cup {"none"}]]
  PROVE  [taker EXCEPT ![t].at = at] = [taker EXCEPT ![t] = [at |-> at, payload |-> taker[t].payload]]
<1> PICK w : w = taker[t]
  OBVIOUS
<1>1. [w EXCEPT !.at = at] = [at |-> at, payload |-> w.payload]
  OBVIOUS
<1> QED BY <1>1

\* A step that gives one creation another place.
LEMMA TakerMoves ==
  ASSUME TakerInv, NEW t \in Taker, NEW at \in {"idle", "locked", "missing", "converting"},
         NEW payload \in Payload \cup {"none"},
         taker' = [taker EXCEPT ![t] = [at |-> at, payload |-> payload]],
         at \in {"locked", "missing"} =>
            payload \in Payload /\ \A o \in Taker \ {t} : ~ KeyHeld(o)
  PROVE  /\ taker' \in [Taker -> [at : {"idle", "locked", "missing", "converting"},
                          payload : Payload \cup {"none"}]]
         /\ \A u, o \in Taker : KeyHeld(u)' /\ KeyHeld(o)' => u = o
         /\ \A u \in Taker : KeyHeld(u)' => taker'[u].payload \in Payload
         /\ taker'[t].at = at
         /\ \A u \in Taker : u # t => taker'[u] = taker[u]
<1>1. /\ taker'[t] = [at |-> at, payload |-> payload]
      /\ \A u \in Taker : u # t => taker'[u] = taker[u]
      /\ taker' \in [Taker -> [at : {"idle", "locked", "missing", "converting"},
                          payload : Payload \cup {"none"}]]
  BY DEF TakerInv, TakerTypeOK
<1>2. \A u \in Taker : u # t => (KeyHeld(u)' <=> KeyHeld(u))
  BY <1>1 DEF KeyHeld
<1>3. KeyHeld(t)' => at \in {"locked", "missing"}
  BY <1>1 DEF KeyHeld
<1>4. \A u, o \in Taker : KeyHeld(u)' /\ KeyHeld(o)' => u = o
  BY <1>2, <1>3 DEF TakerInv
<1>5. \A u \in Taker : KeyHeld(u)' => taker'[u].payload \in Payload
  BY <1>1, <1>2, <1>3 DEF TakerInv
<1> QED BY <1>1, <1>4, <1>5

\* Every step of the service keeps the invariant.
LEMMA TakerStep == TakerInv /\ [TakerNext]_takerVars => TakerInv'
<1> SUFFICES ASSUME TakerInv, [TakerNext]_takerVars PROVE TakerInv'
  OBVIOUS
<1>0. /\ taker \in [Taker -> [at : {"idle", "locked", "missing", "converting"},
                          payload : Payload \cup {"none"}]]
      /\ answers \subseteq Payload \X Nat
  BY DEF TakerInv, TakerTypeOK
<1>1. CASE UNCHANGED takerVars
  BY <1>1 DEF TakerInv, takerVars, TakerTypeOK, KeyHeld
<1>2. ASSUME NEW t \in Taker, NEW payload \in Payload, LockKey(t, payload) PROVE TakerInv'
  <2>1. /\ taker' = [taker EXCEPT ![t] = [at |-> "locked", payload |-> payload]]
        /\ records' = records /\ answers' = answers
        /\ \A o \in Taker : ~ KeyHeld(o)
    BY <1>2 DEF LockKey, KeyHeld
  <2>2. /\ taker' \in [Taker -> [at : {"idle", "locked", "missing", "converting"},
                            payload : Payload \cup {"none"}]]
        /\ \A u, o \in Taker : KeyHeld(u)' /\ KeyHeld(o)' => u = o
        /\ \A u \in Taker : KeyHeld(u)' => taker'[u].payload \in Payload
        /\ taker'[t].at = "locked"
        /\ \A u \in Taker : u # t => taker'[u] = taker[u]
    BY <2>1, TakerMoves
  <2> QED BY <2>1, <2>2 DEF TakerInv, TakerTypeOK
<1>3. ASSUME NEW t \in Taker, FindRecord(t) PROVE TakerInv'
  <2>1. KeyHeld(t) /\ taker[t].payload \in Payload /\ \A o \in Taker \ {t} : ~ KeyHeld(o)
    BY <1>3 DEF FindRecord, TakerInv, KeyHeld
  <2>2. records' = records
    BY <1>3 DEF FindRecord
  <2>3. CASE records = {}
    <3>1. taker' = [taker EXCEPT ![t] = [at |-> "missing", payload |-> taker[t].payload]]
          /\ answers' = answers
      BY <1>3, <2>3, <1>0, TakerPlace DEF FindRecord
    <3>2. /\ taker' \in [Taker -> [at : {"idle", "locked", "missing", "converting"},
                              payload : Payload \cup {"none"}]]
          /\ \A u, o \in Taker : KeyHeld(u)' /\ KeyHeld(o)' => u = o
          /\ \A u \in Taker : KeyHeld(u)' => taker'[u].payload \in Payload
      BY <3>1, <2>1, TakerMoves
    <3> QED BY <3>1, <3>2, <2>2, <2>3 DEF TakerInv, TakerTypeOK
  <2>4. CASE records # {}
    <3>1. taker' = [taker EXCEPT ![t] = [at |-> "idle", payload |-> "none"]]
      BY <1>3, <2>4 DEF FindRecord, NoTake
    <3>2. /\ taker' \in [Taker -> [at : {"idle", "locked", "missing", "converting"},
                              payload : Payload \cup {"none"}]]
          /\ \A u, o \in Taker : KeyHeld(u)' /\ KeyHeld(o)' => u = o
          /\ \A u \in Taker : KeyHeld(u)' => taker'[u].payload \in Payload
          /\ taker'[t].at = "idle"
          /\ \A u \in Taker : u # t => taker'[u] = taker[u]
      BY <3>1, TakerMoves
    <3>3. \A a \in answers' : a \in answers \/ \E r \in records : a = <<r.payload, r.id>>
      BY <1>3, <2>4 DEF FindRecord
    <3>4. answers' \subseteq Payload \X Nat
      BY <3>3, <1>0 DEF TakerInv
    <3>5. \A a \in answers' : \E r \in records' : a = <<r.payload, r.id>>
      BY <3>3, <2>2 DEF TakerInv
    <3>6. \A u \in Taker : taker'[u].at = "missing" => records' = {}
      <4>1. \A u \in Taker : taker[u].at = "missing" => records = {}
        BY DEF TakerInv
      <4>2. taker'[t].at = "idle" /\ \A u \in Taker : u # t => taker'[u] = taker[u]
        BY <3>2
      <4> QED BY <4>1, <4>2, <2>2
    <3> QED BY <3>2, <3>4, <3>5, <3>6, <2>2 DEF TakerInv, TakerTypeOK
  <2> QED BY <2>3, <2>4
<1>4. ASSUME NEW t \in Taker, CommitRecord(t) PROVE TakerInv'
  <2>1. KeyHeld(t) /\ taker[t].payload \in Payload /\ records = {} /\ \A o \in Taker \ {t} : ~ KeyHeld(o)
    BY <1>4 DEF CommitRecord, TakerInv, KeyHeld
  <2>2. answers = {}
    BY <2>1 DEF TakerInv
  <2> PICK new : new = [id |-> 1, payload |-> taker[t].payload, lead |-> 0]
    OBVIOUS
  <2>3. records' = {new} /\ answers' = {<<new.payload, new.id>>}
    <3>1. Cardinality(records) = 0
      BY <2>1, FS_EmptySet
    <3> QED BY <1>4, <3>1, <2>1, <2>2 DEF CommitRecord
  <2>4. taker' = [taker EXCEPT ![t] = [at |-> "idle", payload |-> "none"]]
    BY <1>4 DEF CommitRecord, NoTake
  <2>5. /\ taker' \in [Taker -> [at : {"idle", "locked", "missing", "converting"},
                            payload : Payload \cup {"none"}]]
        /\ \A u, o \in Taker : KeyHeld(u)' /\ KeyHeld(o)' => u = o
        /\ \A u \in Taker : KeyHeld(u)' => taker'[u].payload \in Payload
        /\ taker'[t].at = "idle"
        /\ \A u \in Taker : u # t => taker'[u] = taker[u]
    BY <2>4, TakerMoves
  <2>6. \A u \in Taker : taker'[u].at # "missing"
    BY <2>5, <2>1 DEF KeyHeld
  <2>7. /\ records' = {} \/ \E q : records' = {q}
        /\ \A q \in records' : q.payload \in Payload /\ q.id \in Nat
                        /\ q = [id |-> q.id, payload |-> q.payload, lead |-> q.lead]
        /\ \A a \in answers' : \E q \in records' : a = <<q.payload, q.id>>
        /\ answers' \subseteq Payload \X Nat
    BY <2>1, <2>3
  <2> QED BY <2>5, <2>6, <2>7 DEF TakerInv, TakerTypeOK
<1>5. ASSUME NEW t \in Taker, DropRecord(t) PROVE TakerInv'
  <2>1. taker' = [taker EXCEPT ![t] = [at |-> "idle", payload |-> "none"]]
        /\ records' = records /\ answers' = answers
    BY <1>5 DEF DropRecord, NoTake
  <2>5. /\ taker' \in [Taker -> [at : {"idle", "locked", "missing", "converting"},
                            payload : Payload \cup {"none"}]]
        /\ \A u, o \in Taker : KeyHeld(u)' /\ KeyHeld(o)' => u = o
        /\ \A u \in Taker : KeyHeld(u)' => taker'[u].payload \in Payload
        /\ taker'[t].at = "idle"
        /\ \A u \in Taker : u # t => taker'[u] = taker[u]
    BY <2>1, TakerMoves
  <2>6. \A u \in Taker : taker'[u].at = "missing" => records' = {}
    BY <2>1, <2>5 DEF TakerInv
  <2> QED BY <2>1, <2>5, <2>6 DEF TakerInv, TakerTypeOK
<1>6. ASSUME NEW t \in Taker, LoadToConvert(t) PROVE TakerInv'
  <2>1. taker' = [taker EXCEPT ![t] = [at |-> "converting", payload |-> taker[t].payload]]
        /\ records' = records /\ answers' = answers
    BY <1>6, <1>0, TakerPlace DEF LoadToConvert
  <2>2. taker[t].payload \in Payload \cup {"none"}
    BY <1>0
  <2>5. /\ taker' \in [Taker -> [at : {"idle", "locked", "missing", "converting"},
                            payload : Payload \cup {"none"}]]
        /\ \A u, o \in Taker : KeyHeld(u)' /\ KeyHeld(o)' => u = o
        /\ \A u \in Taker : KeyHeld(u)' => taker'[u].payload \in Payload
        /\ taker'[t].at = "converting"
        /\ \A u \in Taker : u # t => taker'[u] = taker[u]
    BY <2>1, <2>2, TakerMoves
  <2>6. \A u \in Taker : taker'[u].at = "missing" => records' = {}
    BY <2>1, <2>5 DEF TakerInv
  <2> QED BY <2>1, <2>5, <2>6 DEF TakerInv, TakerTypeOK
<1>7. ASSUME NEW t \in Taker, NEW r \in records, ConvertToLead(t, r) PROVE TakerInv'
  <2>1. taker' = [taker EXCEPT ![t] = [at |-> "idle", payload |-> "none"]]
        /\ answers' = answers
    BY <1>7 DEF ConvertToLead, NoTake
  <2> PICK new : new = [id |-> r.id, payload |-> r.payload, lead |-> r.lead + 1]
    OBVIOUS
  <2>2. r = [id |-> r.id, payload |-> r.payload, lead |-> r.lead] /\ records = {r}
        /\ r.payload \in Payload /\ r.id \in Nat
    BY DEF TakerInv
  <2>3. records' = {new}
    <3>1. [r EXCEPT !.lead = @ + 1] = new
      BY <2>2
    <3> QED BY <1>7, <2>2, <3>1 DEF ConvertToLead
  <2>5. /\ taker' \in [Taker -> [at : {"idle", "locked", "missing", "converting"},
                            payload : Payload \cup {"none"}]]
        /\ \A u, o \in Taker : KeyHeld(u)' /\ KeyHeld(o)' => u = o
        /\ \A u \in Taker : KeyHeld(u)' => taker'[u].payload \in Payload
        /\ taker'[t].at = "idle"
        /\ \A u \in Taker : u # t => taker'[u] = taker[u]
    BY <2>1, TakerMoves
  <2>6. \A u \in Taker : taker'[u].at # "missing"
    BY <2>5 DEF TakerInv
  <2>7. \A a \in answers' : \E q \in records' : a = <<q.payload, q.id>>
    BY <2>1, <2>2, <2>3 DEF TakerInv
  <2>8. answers' \subseteq Payload \X Nat
    BY <2>1, <1>0
  <2>9. \A q \in records' : q.payload \in Payload /\ q.id \in Nat
                        /\ q = [id |-> q.id, payload |-> q.payload, lead |-> q.lead]
    BY <2>2, <2>3
  <2>10. records' = {} \/ \E q : records' = {q}
    BY <2>3
  <2> QED BY <2>5, <2>6, <2>7, <2>8, <2>9, <2>10 DEF TakerInv, TakerTypeOK
<1> QED BY <1>1, <1>2, <1>3, <1>4, <1>5, <1>6, <1>7 DEF TakerNext

-----------------------------------------------------------------------------
(* NoticeFeed.  Invariant: what a client is owed comes behind the pages it read, *)
(* and what it missed when it stopped is as little as the property says.    *)

SenderType == [at : {"idle", "stored", "committed"}, notice : 0..MaxNotices]

\* The record of a client that pages.
PagerType  == [at : {"idle", "paging", "counted", "done"}, unreadOnly : BOOLEAN,
               byTotal : BOOLEAN, page : Nat, total : Nat,
               got : SUBSET (1..MaxNotices), owed : SUBSET (1..MaxNotices), grown : Nat]

NoticeTypes ==
  /\ begun \in 0..MaxNotices
  /\ notices \subseteq 1..begun /\ unread \subseteq notices
  /\ sender \in [Sender -> SenderType]
  /\ marker \in [Marker -> [at : {"idle", "loaded", "committed"}, notices : SUBSET (1..MaxNotices)]]
  /\ feed \in [Pager -> PagerType]
  /\ pushed \subseteq notices
  /\ toldRead \subseteq notices

\* A stored notification is not committed yet, and it is one request's.
Stored ==
  /\ \A s \in Sender : sender[s].at = "stored" =>
        sender[s].notice \in 1..begun /\ sender[s].notice \notin notices
  /\ \A s, o \in Sender :
        sender[s].at = "stored" /\ sender[o].at = "stored" /\ s # o
          => sender[s].notice # sender[o].notice
  /\ \A s \in Sender : sender[s].at = "committed" => sender[s].notice \in notices

\* What a request has marked and committed is read, and stays read.
Marked ==
  /\ \A m \in Marker : marker[m].notices \subseteq notices
  /\ \A m \in Marker : marker[m].at = "committed" => marker[m].notices \cap unread = {}
  /\ toldRead \cap unread = {}

Missed(p) == feed[p].owed \ feed[p].got

\* What a client missed when it stopped.
MissedFew(p) ==
  feed[p].at = "done" =>
    IF feed[p].byTotal THEN Cardinality(Missed(p)) <= feed[p].grown ELSE Missed(p) = {}

\* What a client is owed and has not got comes behind the pages it has read.
OwedAhead(p) ==
  /\ feed[p].got \subseteq notices
  /\ feed[p].owed \subseteq Listed(p)
  /\ feed[p].at \in {"paging", "counted"} =>
       /\ feed[p].page >= 1
       /\ \A n \in Missed(p) : Ahead(Listed(p), n) >= (feed[p].page - 1) * FeedPage
  /\ MissedFew(p)

NoticeInv == NoticeTypes /\ Stored /\ Marked /\ \A p \in Pager : OwedAhead(p)

\* Rows are put before a row only when rows are added.
LEMMA AheadGrows ==
  ASSUME NEW k \in Nat, NEW S \in SUBSET (1..k), NEW T \in SUBSET (1..k), S \subseteq T, NEW n \in T
  PROVE  /\ Ahead(S, n) \in Nat /\ Ahead(T, n) \in Nat
         /\ Ahead(S, n) <= Ahead(T, n)
         /\ Ahead(T, n) < Cardinality(T)
<1>1. IsFiniteSet(1..k)
  BY FS_Interval
<1>2. IsFiniteSet(S) /\ IsFiniteSet(T)
  BY <1>1, FS_Subset
<1> PICK A : A = {m \in S : m > n}
  OBVIOUS
<1> PICK B : B = {m \in T : m > n}
  OBVIOUS
<1>3. A \subseteq B /\ B \subseteq T /\ n \notin B /\ A \subseteq S
  <2>1. n \in Int
    OBVIOUS
  <2>2. ~ (n > n)
    BY <2>1
  <2>3. n \notin B
    BY <2>2
  <2> QED BY <2>3
<1>4. IsFiniteSet(A) /\ IsFiniteSet(B)
  BY <1>2, <1>3, FS_Subset
<1>5. Cardinality(A) <= Cardinality(B) /\ Cardinality(A) \in Nat /\ Cardinality(B) \in Nat
  BY <1>3, <1>4, FS_Subset, FS_CardinalityType
<1>6. Cardinality(B) < Cardinality(T)
  BY <1>2, <1>3, FS_Subset, FS_CardinalityType
<1> QED BY <1>5, <1>6 DEF Ahead

\* Rows that have so many rows before them are no more than the other rows there are.
LEMMA FewBehind ==
  ASSUME NEW k \in Nat, NEW R \in SUBSET (1..k), NEW M \in SUBSET R, M # {}, NEW j \in Nat,
         \A n \in M : Ahead(R, n) >= j
  PROVE  Cardinality(R) \in Nat /\ Cardinality(M) \in Nat /\ Cardinality(M) + j <= Cardinality(R)
<1> DEFINE Above(n) == {m \in M : m > n}
           C == {Above(n) : n \in M}
<1>1. IsFiniteSet(R)
  <2>1. IsFiniteSet(1..k)
    BY FS_Interval
  <2> QED BY <2>1, FS_Subset
<1>2. \A T : T \subseteq R => IsFiniteSet(T) /\ Cardinality(T) \in Nat
  BY <1>1, FS_Subset, FS_CardinalityType
<1>3. C # {} /\ C \subseteq FiniteSubsetsOf(R)
  BY <1>2 DEF FiniteSubsetsOf
<1>4. \E T \in C : \A U \in C : ~ (<<U, T>> \in StrictSubsetOrdering(R))
  <2> HIDE DEF C
  <2> QED BY <1>1, <1>3, FS_StrictSubsetOrderingWellFounded, WFMin
<1>5. PICK t \in M : \A n \in M : ~ (<<Above(n), Above(t)>> \in StrictSubsetOrdering(R))
  BY <1>4
<1>6. Above(t) = {}
  <2> SUFFICES ASSUME NEW n \in Above(t) PROVE FALSE
    OBVIOUS
  <2>1. n \in Int /\ t \in Int /\ n > t /\ ~ (n > n) /\ \A m \in M : m \in Int
    OBVIOUS
  <2>2. Above(n) \subseteq Above(t) /\ n \notin Above(n)
    <3>1. \A m \in M : m > n => m > t
      BY <2>1
    <3> QED BY <2>1, <3>1
  <2>3. Above(n) \subseteq R /\ Above(t) \subseteq R /\ Above(n) # Above(t)
    BY <2>2
  <2>4. <<Above(n), Above(t)>> \in StrictSubsetOrdering(R)
    BY <1>2, <2>2, <2>3 DEF StrictSubsetOrdering, FiniteSubsetsOf
  <2> QED BY <1>5, <2>4
<1> PICK A : A = {m \in R : m > t}
  OBVIOUS
<1>7. A \subseteq R /\ A \cap M = {} /\ Cardinality(A) >= j
  BY <1>6 DEF Ahead
<1>8. /\ IsFiniteSet(A) /\ IsFiniteSet(M) /\ Cardinality(A) \in Nat /\ Cardinality(M) \in Nat
      /\ A \cup M \subseteq R /\ Cardinality(R) \in Nat /\ Cardinality(A \cup M) \in Nat
  BY <1>2, <1>7
<1>9. Cardinality(A \cup M) = Cardinality(A) + Cardinality(M) - Cardinality(A \cap M)
  BY <1>8, FS_Union
<1>10. Cardinality(A \cap M) = 0
  BY <1>7, FS_EmptySet
<1>11. Cardinality(A \cup M) <= Cardinality(R)
  BY <1>1, <1>8, FS_Subset
<1> QED BY <1>7, <1>8, <1>9, <1>10, <1>11

\* The invariant holds at the start.
LEMMA NoticeInitially == NoticeInit => NoticeInv
<1> SUFFICES ASSUME NoticeInit PROVE NoticeInv
  OBVIOUS
<1> USE NoticeAssumption
<1>1. NoticeTypes
  BY DEF NoticeInit, NoticeTypes, NoSender, NoMarker, NoPager, SenderType, PagerType
<1>2. Stored
  BY DEF NoticeInit, Stored, NoSender
<1>3. Marked
  BY DEF NoticeInit, Marked, NoMarker
<1>4. \A p \in Pager : OwedAhead(p)
  BY DEF NoticeInit, OwedAhead, MissedFew, NoPager, Listed
<1> QED BY <1>1, <1>2, <1>3, <1>4 DEF NoticeInv

\* What the suite asks follows from the invariant.
LEMMA NoticeImplies == NoticeInv => NoticeTypeOK /\ FeedSound
<1> SUFFICES ASSUME NoticeInv PROVE NoticeTypeOK /\ FeedSound
  OBVIOUS
<1> USE NoticeAssumption
<1>1. FeedComplete
  BY DEF NoticeInv, OwedAhead, MissedFew, Missed, FeedComplete
<1>2. PushesOnRecord
  BY DEF NoticeInv, NoticeTypes, Marked, PushesOnRecord
<1>3. NoticeTypeOK
  <2>1. notices \subseteq 1..MaxNotices
    BY DEF NoticeInv, NoticeTypes
  <2>2. sender \in [Sender -> [at : {"idle", "stored", "committed"}, notice : 0..MaxNotices]]
    BY DEF NoticeInv, NoticeTypes, SenderType
  <2>3. marker \in [Marker -> [at : {"idle", "loaded", "committed"}, notices : SUBSET notices]]
    <3>1. \A m \in Marker : marker[m] \in [at : {"idle", "loaded", "committed"}, notices : SUBSET notices]
      BY DEF NoticeInv, NoticeTypes, Marked
    <3> QED BY <3>1 DEF NoticeInv, NoticeTypes
  <2>4. \A p \in Pager : feed[p].got \subseteq notices /\ feed[p].owed \subseteq notices
    BY DEF NoticeInv, NoticeTypes, OwedAhead, Listed
  <2> QED BY <2>1, <2>2, <2>3, <2>4 DEF NoticeInv, NoticeTypes, NoticeTypeOK
<1> QED BY <1>1, <1>2, <1>3 DEF FeedSound

\* What is owed stays behind the pages read when the rows of a feed only grow.
LEMMA OwedGrows ==
  ASSUME NoticeInv, NEW p \in Pager, feed'[p] = feed[p], notices \subseteq notices',
         unread \subseteq unread', notices' \subseteq 1..MaxNotices, unread' \subseteq notices'
  PROVE  OwedAhead(p)'
<1> USE NoticeAssumption
<1> PICK L : L = Listed(p)
  OBVIOUS
<1> PICK M : M = Listed(p)'
  OBVIOUS
<1>1. L \subseteq M /\ M \subseteq 1..MaxNotices /\ L \in SUBSET (1..MaxNotices)
  BY DEF Listed, NoticeInv, NoticeTypes
<1>2. feed[p].owed \subseteq L /\ feed[p].got \subseteq notices
  BY DEF NoticeInv, OwedAhead
<1>3. feed[p].page \in Nat
  BY DEF NoticeInv, NoticeTypes, PagerType
<1>4. \A n \in Missed(p) :
        feed[p].at \in {"paging", "counted"} => Ahead(M, n) >= (feed[p].page - 1) * FeedPage
  <2> SUFFICES ASSUME NEW n \in Missed(p), feed[p].at \in {"paging", "counted"}
               PROVE  Ahead(M, n) >= (feed[p].page - 1) * FeedPage
    OBVIOUS
  <2>1. n \in M /\ Ahead(L, n) \in Nat /\ Ahead(M, n) \in Nat /\ Ahead(L, n) <= Ahead(M, n)
    BY <1>1, <1>2, AheadGrows DEF Missed
  <2>2. Ahead(L, n) >= (feed[p].page - 1) * FeedPage
    BY DEF NoticeInv, OwedAhead
  <2>3. (feed[p].page - 1) * FeedPage \in Int
    BY <1>3
  <2> QED BY <2>1, <2>2, <2>3
<1> QED BY <1>1, <1>2, <1>4 DEF NoticeInv, OwedAhead, MissedFew, Missed

\* Every step of the service keeps the invariant.
LEMMA NoticeStep == NoticeInv /\ [NoticeNext]_noticeVars => NoticeInv'
<1> SUFFICES ASSUME NoticeInv, [NoticeNext]_noticeVars PROVE NoticeInv'
  OBVIOUS
<1> USE NoticeAssumption
<1>t. NoticeTypes /\ Stored /\ Marked /\ (\A p \in Pager : OwedAhead(p)) /\ begun \in Nat
  BY DEF NoticeInv, NoticeTypes
<1>u. notices \subseteq 1..MaxNotices
  BY <1>t DEF NoticeTypes
<1>1. CASE UNCHANGED noticeVars
  BY <1>1 DEF NoticeInv, noticeVars, NoticeTypes, Stored, Marked, OwedAhead, MissedFew, Missed, Listed
<1>2. ASSUME NEW s \in Sender, CreateNotification(s) PROVE NoticeInv'
  <2>1. /\ begun' = begun + 1 /\ begun' \in 0..MaxNotices /\ begun + 1 \in 1..MaxNotices
        /\ sender'[s] = [at |-> "stored", notice |-> begun + 1]
        /\ \A o \in Sender : o # s => sender'[o] = sender[o]
        /\ notices' = notices /\ unread' = unread /\ marker' = marker /\ pushed' = pushed
        /\ toldRead' = toldRead /\ feed' = feed
    BY <1>2, <1>t DEF CreateNotification, NoticeTypes
  <2>2. NoticeTypes'
    <3>1. sender' \in [Sender -> SenderType]
      BY <1>2, <1>t, <2>1 DEF CreateNotification, NoticeTypes, SenderType
    <3> QED BY <1>t, <2>1, <3>1 DEF NoticeTypes
  <2>3. Stored'
    <3>1. \A n \in notices : n < begun + 1
      BY <1>t DEF NoticeTypes
    <3>2. \A o \in Sender : sender[o].at = "stored" => sender[o].notice \in 1..begun
      BY <1>t DEF Stored
    <3>3. \A o \in Sender : o # s /\ sender'[o].at = "stored" => sender'[o].notice # begun + 1
      BY <2>1, <3>2, <1>t
    <3> QED BY <1>t, <2>1, <3>1, <3>2, <3>3 DEF Stored
  <2>4. Marked'
    BY <1>t, <2>1 DEF Marked
  <2>5. \A p \in Pager : OwedAhead(p)'
    BY <1>t, <2>1 DEF OwedAhead, MissedFew, Missed, Listed
  <2> QED BY <2>2, <2>3, <2>4, <2>5 DEF NoticeInv
<1>3. ASSUME NEW s \in Sender, CommitNotification(s) PROVE NoticeInv'
  <2> PICK new : new = sender[s].notice
    OBVIOUS
  <2>0. sender[s].at = "stored" /\ new \in 1..begun /\ new \notin notices
    BY <1>3, <1>t DEF CommitNotification, Stored
  <2>1. /\ begun' = begun /\ notices' = notices \cup {new} /\ unread' = unread \cup {new}
        /\ sender'[s].at = "committed" /\ sender'[s].notice = new
        /\ \A o \in Sender : o # s => sender'[o] = sender[o]
        /\ sender' \in [Sender -> SenderType]
        /\ marker' = marker /\ pushed' = pushed /\ toldRead' = toldRead /\ feed' = feed
    BY <1>3, <1>t DEF CommitNotification, NoticeTypes, SenderType
  <2>2. NoticeTypes'
    BY <1>t, <2>0, <2>1 DEF NoticeTypes
  <2>3. Stored'
    <3>1. \A o \in Sender : o # s /\ sender[o].at = "stored" => sender[o].notice # new
      BY <1>t, <2>0 DEF Stored
    <3> QED BY <1>t, <2>1, <3>1 DEF Stored
  <2>4. Marked'
    BY <1>t, <2>0, <2>1 DEF Marked, NoticeTypes
  <2>5. \A p \in Pager : OwedAhead(p)'
    <3>1. new \in 1..MaxNotices
      BY <1>t, <2>0 DEF NoticeTypes
    <3>2. notices' \subseteq 1..MaxNotices
      BY <1>u, <2>1, <3>1
    <3>3. unread' \subseteq notices'
      BY <1>t, <2>1 DEF NoticeTypes
    <3> QED BY <2>1, <3>2, <3>3, OwedGrows
  <2> QED BY <2>2, <2>3, <2>4, <2>5 DEF NoticeInv
<1>4. ASSUME NEW s \in Sender, FailNotification(s) \/ PushNotification(s) PROVE NoticeInv'
  <2>1. /\ begun' = begun /\ notices' = notices /\ unread' = unread
        /\ sender'[s] = NoSender
        /\ \A o \in Sender : o # s => sender'[o] = sender[o]
        /\ marker' = marker /\ toldRead' = toldRead /\ feed' = feed
    BY <1>4, <1>t DEF FailNotification, PushNotification, NoticeTypes
  <2>2. pushed' \subseteq notices
    BY <1>4, <1>t DEF FailNotification, PushNotification, NoticeTypes, Stored
  <2>3. sender' \in [Sender -> SenderType]
    BY <1>4, <1>t DEF FailNotification, PushNotification, NoticeTypes, SenderType, NoSender
  <2>4. NoticeTypes'
    BY <1>t, <2>1, <2>2, <2>3 DEF NoticeTypes
  <2>5. Stored'
    BY <1>t, <2>1 DEF Stored, NoSender
  <2>6. Marked'
    BY <1>t, <2>1 DEF Marked
  <2>7. \A p \in Pager : OwedAhead(p)'
    BY <1>t, <2>1 DEF OwedAhead, MissedFew, Missed, Listed
  <2> QED BY <2>4, <2>5, <2>6, <2>7 DEF NoticeInv
<1>5. ASSUME NEW m \in Marker, (\E n \in notices : MarkRead(m, n)) \/ MarkAllRead(m)
      PROVE  NoticeInv'
  <2>1. PICK found \in SUBSET notices : LoadToMark(m, found)
    BY <1>5, <1>t DEF MarkRead, MarkAllRead, NoticeTypes
  <2>2. /\ begun' = begun /\ notices' = notices /\ unread' = unread /\ sender' = sender
        /\ marker'[m] = [at |-> "loaded", notices |-> found]
        /\ \A o \in Marker : o # m => marker'[o] = marker[o]
        /\ pushed' = pushed /\ toldRead' = toldRead /\ feed' = feed
    BY <2>1, <1>t DEF LoadToMark, NoticeTypes
  <2>3. marker' \in [Marker -> [at : {"idle", "loaded", "committed"}, notices : SUBSET (1..MaxNotices)]]
    BY <2>1, <1>t, <1>u DEF LoadToMark, NoticeTypes
  <2>4. NoticeTypes'
    BY <1>t, <2>2, <2>3 DEF NoticeTypes
  <2>5. Stored' /\ Marked'
    BY <1>t, <2>2 DEF Stored, Marked
  <2>7. \A p \in Pager : OwedAhead(p)'
    BY <1>t, <2>2 DEF OwedAhead, MissedFew, Missed, Listed
  <2> QED BY <2>4, <2>5, <2>7 DEF NoticeInv
<1>6. ASSUME NEW m \in Marker, CommitRead(m) PROVE NoticeInv'
  <2>1. /\ begun' = begun /\ notices' = notices /\ sender' = sender
        /\ unread' = unread \ marker[m].notices
        /\ marker'[m].at = "committed" /\ marker'[m].notices = marker[m].notices
        /\ \A o \in Marker : o # m => marker'[o] = marker[o]
        /\ marker' \in [Marker -> [at : {"idle", "loaded", "committed"}, notices : SUBSET (1..MaxNotices)]]
        /\ pushed' = pushed /\ toldRead' = toldRead
    BY <1>6, <1>t DEF CommitRead, NoticeTypes
  <2>2. \A p \in Pager : feed'[p] = IF unread' # unread /\ feed[p].unreadOnly
                                    THEN [feed[p] EXCEPT !.owed = {}] ELSE feed[p]
    BY <1>6 DEF CommitRead
  <2>3. feed' \in [Pager -> PagerType]
    <3>1. \A p \in Pager : [feed[p] EXCEPT !.owed = {}] \in PagerType
      BY <1>t DEF NoticeTypes, PagerType
    <3>2. feed' = feed \/ feed' = [p \in Pager |-> IF feed[p].unreadOnly
                                    THEN [feed[p] EXCEPT !.owed = {}] ELSE feed[p]]
      BY <1>6 DEF CommitRead
    <3> QED BY <3>1, <3>2, <1>t DEF NoticeTypes
  <2>4. NoticeTypes'
    BY <1>t, <2>1, <2>3 DEF NoticeTypes
  <2>5. Stored'
    BY <1>t, <2>1 DEF Stored
  <2>6. Marked'
    BY <1>t, <2>1 DEF Marked
  <2>7. \A p \in Pager : OwedAhead(p)'
    <3> SUFFICES ASSUME NEW p \in Pager PROVE OwedAhead(p)'
      OBVIOUS
    <3>1. CASE unread' # unread /\ feed[p].unreadOnly
      <4>1. feed'[p].owed = {} /\ feed'[p].got = feed[p].got /\ feed'[p].page = feed[p].page
            /\ feed'[p].at = feed[p].at /\ feed'[p].grown \in Nat
        BY <2>2, <3>1, <1>t DEF NoticeTypes, PagerType
      <4>2. Missed(p)' = {} /\ Cardinality({}) = 0
        BY <4>1, FS_EmptySet DEF Missed
      <4>3. MissedFew(p)'
        BY <4>1, <4>2 DEF MissedFew
      <4> QED BY <4>1, <4>2, <4>3, <2>1, <1>t DEF OwedAhead
    <3>2. CASE ~ (unread' # unread /\ feed[p].unreadOnly)
      <4>1. feed'[p] = feed[p] /\ Listed(p)' = Listed(p)
        BY <2>1, <2>2, <3>2 DEF Listed
      <4> QED BY <4>1, <2>1, <1>t DEF OwedAhead, MissedFew, Missed
    <3> QED BY <3>1, <3>2
  <2> QED BY <2>4, <2>5, <2>6, <2>7 DEF NoticeInv
<1>7. ASSUME NEW m \in Marker, PushMark(m) PROVE NoticeInv'
  <2>1. /\ begun' = begun /\ notices' = notices /\ sender' = sender /\ unread' = unread
        /\ marker'[m] = NoMarker
        /\ \A o \in Marker : o # m => marker'[o] = marker[o]
        /\ marker' \in [Marker -> [at : {"idle", "loaded", "committed"}, notices : SUBSET (1..MaxNotices)]]
        /\ pushed' = pushed /\ feed' = feed
    BY <1>7, <1>t DEF PushMark, NoticeTypes, NoMarker
  <2>2. toldRead' \subseteq notices /\ toldRead' \cap unread = {}
    BY <1>7, <1>t DEF PushMark, NoticeTypes, Marked
  <2>4. NoticeTypes'
    BY <1>t, <2>1, <2>2 DEF NoticeTypes
  <2>5. Stored' /\ Marked'
    BY <1>t, <2>1, <2>2 DEF Stored, Marked, NoMarker
  <2>7. \A p \in Pager : OwedAhead(p)'
    BY <1>t, <2>1 DEF OwedAhead, MissedFew, Missed, Listed
  <2> QED BY <2>4, <2>5, <2>7 DEF NoticeInv
<1>8. ASSUME NEW p \in Pager,
             \/ \E unreadOnly, byTotal \in BOOLEAN : OpenFeed(p, unreadOnly, byTotal)
             \/ CountFeed(p) \/ GetFeed(p) \/ CloseFeed(p)
      PROVE NoticeInv'
  <2>1. /\ begun' = begun /\ notices' = notices /\ sender' = sender /\ unread' = unread
        /\ marker' = marker /\ pushed' = pushed /\ toldRead' = toldRead
        /\ \A o \in Pager : o # p => feed'[o] = feed[o]
    <3>1. CASE CountFeed(p)
      BY <3>1, <1>t DEF CountFeed, NoticeTypes
    <3>2. CASE GetFeed(p)
      BY <3>2, <1>t DEF GetFeed, NoticeTypes
    <3>3. CASE CloseFeed(p)
      BY <3>3, <1>t DEF CloseFeed, NoticeTypes
    <3>4. CASE \E unreadOnly, byTotal \in BOOLEAN : OpenFeed(p, unreadOnly, byTotal)
      BY <3>4, <1>t DEF OpenFeed, NoticeTypes
    <3> QED BY <1>8, <3>1, <3>2, <3>3, <3>4
  <2>2. Stored' /\ Marked'
    BY <1>t, <2>1 DEF Stored, Marked
  <2>3. \A o \in Pager : o # p => OwedAhead(o)'
    BY <1>t, <2>1 DEF OwedAhead, MissedFew, Missed, Listed
  <2> PICK L : L = Listed(p)
    OBVIOUS
  <2> PICK f : f = feed[p]
    OBVIOUS
  <2>4. f \in PagerType /\ L \in SUBSET (1..MaxNotices) /\ unread \in SUBSET (1..MaxNotices)
        /\ notices \in SUBSET (1..MaxNotices) /\ L \subseteq notices
    BY <1>t, <1>u DEF NoticeTypes, Listed
  <2>c. /\ Cardinality(L) \in Nat
        /\ \A n \in L : Ahead(L, n) \in Nat /\ Ahead(L, n) < Cardinality(L)
    <3>1. IsFiniteSet(L)
      <4>1. IsFiniteSet(1..MaxNotices)
        BY FS_Interval
      <4> QED BY <2>4, <4>1, FS_Subset
    <3> QED BY <2>4, <3>1, AheadGrows, FS_CardinalityType
  <2>5. ASSUME NEW unreadOnly \in BOOLEAN, NEW byTotal \in BOOLEAN, OpenFeed(p, unreadOnly, byTotal)
        PROVE  NoticeInv'
    <3>1. feed'[p] = [at |-> "paging", unreadOnly |-> unreadOnly, byTotal |-> byTotal, page |-> 1,
                      total |-> 0, got |-> {}, owed |-> IF unreadOnly THEN unread ELSE notices,
                      grown |-> 0]
      BY <2>5, <1>t DEF OpenFeed, NoticeTypes, NoPager
    <3>2. feed' \in [Pager -> PagerType]
      <4>1. feed'[p] \in PagerType
        BY <3>1, <2>4 DEF PagerType
      <4> QED BY <4>1, <2>5, <1>t, <2>1 DEF OpenFeed, NoticeTypes
    <3> PICK M : M = Listed(p)'
      OBVIOUS
    <3>3. M = (IF unreadOnly THEN unread ELSE notices) /\ M \in SUBSET (1..MaxNotices)
      BY <3>1, <2>1, <2>4 DEF Listed
    <3>4. \A n \in M : Ahead(M, n) >= (1 - 1) * FeedPage
      <4>1. (1 - 1) * FeedPage = 0
        BY NoticeAssumption
      <4>2. ASSUME NEW n \in M PROVE Ahead(M, n) \in Nat
        BY <3>3, NoticeAssumption, AheadGrows
      <4> QED BY <4>1, <4>2
    <3>5. OwedAhead(p)'
      <4>1. feed'[p].got = {} /\ feed'[p].owed = M /\ feed'[p].at = "paging" /\ feed'[p].page = 1
        BY <3>1, <3>3
      <4>2. Missed(p)' = M /\ MissedFew(p)'
        BY <4>1 DEF Missed, MissedFew
      <4> HIDE <3>1
      <4> QED BY <4>1, <4>2, <3>4, <2>1 DEF OwedAhead
    <3>6. NoticeTypes'
      BY <1>t, <2>1, <3>2 DEF NoticeTypes
    <3> QED BY <2>2, <2>3, <3>5, <3>6 DEF NoticeInv
  <2>6. ASSUME GetFeed(p) PROVE NoticeInv'
    <3> PICK page : page = OnPage(L, f.page)
      OBVIOUS
    <3>0. page \subseteq L
      BY DEF OnPage
    <3>1. /\ feed'[p].got = f.got \cup page
          /\ feed'[p].page = f.page + 1
          /\ feed'[p].at = IF LastPage(f, L) THEN "done" ELSE "paging"
          /\ feed'[p].grown = IF f.byTotal /\ LastPage(f, L) /\ Cardinality(L) > f.total
                              THEN Cardinality(L) - f.total ELSE 0
          /\ feed'[p].owed = f.owed /\ feed'[p].unreadOnly = f.unreadOnly
          /\ feed'[p].byTotal = f.byTotal /\ feed'[p].total = 0
          /\ f.at = "counted"
      BY <2>6, <1>t, <2>4 DEF GetFeed, NoticeTypes, PagerType
    <3>2. feed' \in [Pager -> PagerType]
      <4>1. feed'[p] = [at |-> feed'[p].at, unreadOnly |-> f.unreadOnly, byTotal |-> f.byTotal,
                        page |-> f.page + 1, total |-> 0, got |-> f.got \cup page, owed |-> f.owed,
                        grown |-> feed'[p].grown]
        BY <2>6, <1>t, <2>4 DEF GetFeed, NoticeTypes, PagerType
      <4>2. feed'[p].grown \in Nat /\ feed'[p].at \in {"paging", "done"}
        BY <3>1, <2>c, <2>4 DEF PagerType
      <4>3. feed'[p] \in PagerType
        <5> HIDE <3>1
        <5> QED BY <4>1, <4>2, <3>0, <2>4 DEF PagerType
      <4> QED BY <4>3, <2>6, <1>t, <2>1 DEF GetFeed, NoticeTypes
    <3>3. f.page \in Nat /\ f.page >= 1 /\ f.owed \subseteq L /\ f.got \subseteq notices
          /\ \A n \in f.owed \ f.got : Ahead(L, n) >= (f.page - 1) * FeedPage
      BY <3>1, <2>4, <1>t DEF OwedAhead, PagerType, Missed
    <3>4. Listed(p)' = L
      BY <3>1, <2>1 DEF Listed
    <3> PICK M : M = f.owed \ (f.got \cup page)
      OBVIOUS
    <3>6. \A n \in M : Ahead(L, n) >= f.page * FeedPage
      <4> SUFFICES ASSUME NEW n \in f.owed \ (f.got \cup page) PROVE Ahead(L, n) >= f.page * FeedPage
        OBVIOUS
      <4>1. f.page * FeedPage \in Int
        BY <3>3
      <4>2. ~ (Ahead(L, n) < f.page * FeedPage)
        BY <3>3 DEF OnPage
      <4> QED BY <4>1, <4>2, <3>3, <2>c
    <3>7. (f.page + 1) - 1 = f.page /\ f.page * FeedPage \in Nat
      BY <3>3
    <3>8. M # {} => Cardinality(M) \in Nat /\ Cardinality(M) + f.page * FeedPage <= Cardinality(L)
      BY <3>3, <3>6, <3>7, <2>4, FewBehind
    <3>m. Missed(p)' = M
      BY <3>1 DEF Missed
    <3>9. MissedFew(p)'
      <4> SUFFICES ASSUME LastPage(f, L)
                   PROVE  IF f.byTotal THEN Cardinality(M) <= feed'[p].grown ELSE M = {}
        BY <3>1, <3>m DEF MissedFew
      <4>1. CASE ~ f.byTotal
        <5>1. Cardinality(L) < f.page * FeedPage
          BY <4>1 DEF LastPage
        <5>2. \A n \in M : n \in L /\ Ahead(L, n) >= f.page * FeedPage
          BY <3>3, <3>6
        <5> QED BY <4>1, <5>1, <5>2, <2>c, <3>7
      <4>2. CASE f.byTotal /\ M = {}
        <5>1. Cardinality(M) = 0 /\ feed'[p].grown \in Nat
          BY <4>2, <3>2, FS_EmptySet DEF PagerType
        <5> QED BY <4>2, <5>1
      <4>3. CASE f.byTotal /\ M # {}
        <5>1. f.total <= f.page * FeedPage /\ f.total \in Nat
          BY <4>3, <2>4 DEF LastPage, PagerType
        <5>2. /\ Cardinality(M) \in Nat /\ Cardinality(M) + f.page * FeedPage <= Cardinality(L)
              /\ Cardinality(M) # 0
          <6>1. IsFiniteSet(M)
            <7>1. IsFiniteSet(1..MaxNotices) /\ M \subseteq 1..MaxNotices
              BY <3>3, <2>4, FS_Interval
            <7> QED BY <7>1, FS_Subset
          <6> QED BY <6>1, <4>3, <3>8, FS_EmptySet
        <5>3. Cardinality(L) > f.total /\ Cardinality(M) <= Cardinality(L) - f.total
          BY <5>1, <5>2, <2>c, <3>7
        <5> QED BY <4>3, <5>3, <3>1
      <4> QED BY <4>1, <4>2, <4>3
    <3>10. OwedAhead(p)'
      <4>1. feed'[p].got \subseteq notices' /\ feed'[p].owed \subseteq Listed(p)'
        BY <2>1, <2>4, <3>0, <3>1, <3>3, <3>4
      <4>2. feed'[p].page >= 1 /\ feed'[p].page - 1 = f.page
        BY <3>1, <3>3
      <4>3. \A n \in Missed(p)' : Ahead(Listed(p)', n) >= (feed'[p].page - 1) * FeedPage
        BY <3>m, <3>4, <3>6, <4>2
      <4> QED BY <3>9, <4>1, <4>2, <4>3 DEF OwedAhead, Ahead
    <3>11. NoticeTypes'
      BY <1>t, <2>1, <3>2 DEF NoticeTypes
    <3> QED BY <2>2, <2>3, <3>10, <3>11 DEF NoticeInv
  <2>7. ASSUME CloseFeed(p) PROVE NoticeInv'
    <3>1. feed'[p] = NoPager /\ feed' \in [Pager -> PagerType]
      BY <2>7, <1>t DEF CloseFeed, NoticeTypes, PagerType, NoPager
    <3>2. OwedAhead(p)'
      BY <3>1 DEF OwedAhead, MissedFew, NoPager
    <3>3. NoticeTypes'
      BY <1>t, <2>1, <3>1 DEF NoticeTypes
    <3> QED BY <2>2, <2>3, <3>2, <3>3 DEF NoticeInv
  <2>8. ASSUME CountFeed(p) PROVE NoticeInv'
    <3>1. /\ f.at = "paging" /\ feed'[p].at = "counted" /\ feed'[p].owed = f.owed
          /\ feed'[p].got = f.got /\ feed'[p].page = f.page /\ feed'[p].unreadOnly = f.unreadOnly
      BY <2>8, <1>t, <2>4 DEF CountFeed, NoticeTypes, PagerType
    <3>2. feed' \in [Pager -> PagerType]
      BY <2>8, <1>t, <2>4, <2>c DEF CountFeed, NoticeTypes, PagerType
    <3>3. OwedAhead(p)'
      BY <3>1, <2>1, <1>t DEF OwedAhead, MissedFew, Missed, Listed
    <3>4. NoticeTypes'
      BY <1>t, <2>1, <3>2 DEF NoticeTypes
    <3> QED BY <2>2, <2>3, <3>3, <3>4 DEF NoticeInv
  <2> QED BY <1>8, <2>5, <2>6, <2>7, <2>8
<1> QED BY <1>1, <1>2, <1>3, <1>4, <1>5, <1>6, <1>7, <1>8 DEF NoticeNext

-----------------------------------------------------------------------------
(* SophiaConversation.  Invariant: the turns counted are those that completed. *)

\* A turn is among those counted when it is completed.
SophiaInv ==
  /\ SophiaTypeOK
  /\ IsFiniteSet(counted)
  /\ EachTurnCountsOnce

\* The invariant holds at the start.
LEMMA SophiaInitially == SophiaInit => SophiaInv
<1> SUFFICES ASSUME SophiaInit PROVE SophiaInv
  OBVIOUS
<1>1. SophiaTypeOK
  BY DEF SophiaInit, SophiaTypeOK, NoCancel
<1>2. IsFiniteSet(counted) /\ EachTurnCountsOnce
  BY FS_EmptySet DEF SophiaInit, EachTurnCountsOnce
<1> QED BY <1>1, <1>2 DEF SophiaInv

\* A step that completes no turn leaves the count alone.
LEMMA NoTurnCounted ==
  ASSUME SophiaInv, SophiaTypeOK', counted' = counted, dialog'.count = dialog.count,
         \A t \in Turn : turn'[t] = "completed" => turn[t] = "completed",
         \A t \in Turn : turn[t] = "completed" => turn'[t] \in {"completed", "cancelled"},
         \A t \in Turn : turn[t] = "cancelled" => turn'[t] = "cancelled"
  PROVE  SophiaInv'
<1>1. counted \subseteq Turn
  BY DEF SophiaInv, SophiaTypeOK
<1>2. dialog'.count = Cardinality(counted')
  BY DEF SophiaInv, EachTurnCountsOnce
<1>3. \A t \in Turn : turn'[t] = "completed" => t \in counted'
  BY DEF SophiaInv, EachTurnCountsOnce
<1>4. \A t \in counted' : turn'[t] \in {"completed", "cancelled"}
  BY <1>1 DEF SophiaInv, EachTurnCountsOnce
<1> QED BY <1>2, <1>3, <1>4 DEF SophiaInv, EachTurnCountsOnce

\* A step of the session that touches neither its count nor its turns.
LEMMA DialogOnly ==
  ASSUME SophiaInv, NEW status \in SophiaSessionStatus \cup {"none"},
         NEW mode \in {"ai", "human_takeover"},
         dialog' = [status |-> status, mode |-> mode, count |-> dialog.count],
         saved' \in 0..dialog.count, UNCHANGED <<turn, cancel, counted>>
  PROVE  SophiaInv'
<1>1. SophiaTypeOK'
  BY DEF SophiaInv, SophiaTypeOK
<1> QED BY <1>1, NoTurnCounted

\* A move of the session, written out.
LEMMA MoveTo ==
  ASSUME SophiaInv, NEW target \in SophiaSessionStatus, Move(target)
  PROVE  dialog' = [status |-> target, mode |-> dialog.mode, count |-> dialog.count]
<1> PICK d : d = dialog
  OBVIOUS
<1>1. d \in [status : SophiaSessionStatus \cup {"none"}, mode : {"ai", "human_takeover"}, count : Nat]
  BY DEF SophiaInv, SophiaTypeOK
<1>2. [d EXCEPT !.status = target] = [status |-> target, mode |-> d.mode, count |-> d.count]
  BY <1>1
<1> QED BY <1>2 DEF Move

\* A turn that is going, or interrupted, takes a status other than completed.
LEMMA TurnElsewhere ==
  ASSUME SophiaInv, NEW t \in Turn, turn[t] \notin {"completed", "cancelled"},
         NEW s \in SophiaTurnStatus \ {"completed"}, turn' = [turn EXCEPT ![t] = s],
         UNCHANGED <<saved, cancel, counted>>,
         NEW status \in SophiaSessionStatus \cup {"none"}, NEW mode \in {"ai", "human_takeover"},
         dialog' = [status |-> status, mode |-> mode, count |-> dialog.count]
  PROVE  SophiaInv'
<1>1. turn \in [Turn -> SophiaTurnStatus \cup {"none"}]
  BY DEF SophiaInv, SophiaTypeOK
<1>2. /\ turn'[t] = s
      /\ \A u \in Turn : u # t => turn'[u] = turn[u]
      /\ turn' \in [Turn -> SophiaTurnStatus \cup {"none"}]
  BY <1>1
<1>3. SophiaTypeOK'
  BY <1>2 DEF SophiaInv, SophiaTypeOK
<1> QED BY <1>2, <1>3, NoTurnCounted

\* Every step of the service keeps the invariant.
LEMMA SophiaStep == SophiaInv /\ [SophiaNext]_sophiaVars => SophiaInv'
<1> SUFFICES ASSUME SophiaInv, [SophiaNext]_sophiaVars PROVE SophiaInv'
  OBVIOUS
<1>t. /\ dialog \in [status : SophiaSessionStatus \cup {"none"}, mode : {"ai", "human_takeover"},
                    count : Nat]
      /\ turn \in [Turn -> SophiaTurnStatus \cup {"none"}]
      /\ saved \in 0..dialog.count
      /\ cancel \in [Canceller -> [open : BOOLEAN, turns : SUBSET Turn]]
      /\ counted \subseteq Turn
  BY DEF SophiaInv, SophiaTypeOK
<1>s. dialog = [status |-> dialog.status, mode |-> dialog.mode, count |-> dialog.count]
  BY <1>t
<1>1. CASE UNCHANGED sophiaVars
  BY <1>1 DEF SophiaInv, sophiaVars, SophiaTypeOK, EachTurnCountsOnce
<1>2. CASE CreateSession
  <2>1. dialog' = [status |-> "initializing", mode |-> dialog.mode, count |-> dialog.count]
    BY <1>2, <1>t DEF CreateSession
  <2> QED BY <1>2, <2>1, <1>t, DialogOnly DEF CreateSession, SophiaSessionStatus
<1>3. ASSUME NEW target \in SophiaSessionStatus, Move(target), UNCHANGED <<turn, cancel, counted>>,
             saved' \in 0..dialog.count
      PROVE  SophiaInv'
  BY <1>3, <1>t, MoveTo, DialogOnly
<1>4. CASE Activate \/ InterruptOnly \/ RequestHandoff \/ AcceptHandoff \/ RejectHandoff
           \/ CompleteDialog \/ FailDialog \/ Recover
  BY <1>3, <1>4, <1>t DEF Activate, InterruptOnly, RequestHandoff, AcceptHandoff, RejectHandoff,
       CompleteDialog, FailDialog, Recover, SophiaSessionStatus
<1>5. CASE SetMode
  <2>1. PICK m \in {"ai", "human_takeover"} : dialog' = [dialog EXCEPT !.mode = m]
    BY <1>5 DEF SetMode
  <2>2. dialog' = [status |-> dialog.status, mode |-> m, count |-> dialog.count]
    BY <2>1, <1>t
  <2> QED BY <1>5, <2>2, <1>t, DialogOnly DEF SetMode
<1>6. CASE CaptureCheckpoint
  <2>1. dialog' = [status |-> dialog.status, mode |-> dialog.mode, count |-> dialog.count]
        /\ saved' \in 0..dialog.count
    BY <1>6, <1>s, <1>t DEF CaptureCheckpoint
  <2> QED BY <1>6, <2>1, <1>t, DialogOnly DEF CaptureCheckpoint
<1>7. ASSUME NEW t \in Turn, StartTurn(t) PROVE SophiaInv'
  <2>1. turn[t] \notin {"completed", "cancelled"} /\ "running" \in SophiaTurnStatus \ {"completed"}
        /\ turn' = [turn EXCEPT ![t] = "running"] /\ UNCHANGED <<saved, cancel, counted>>
        /\ dialog' = [status |-> dialog.status, mode |-> dialog.mode, count |-> dialog.count]
    BY <1>7, <1>s DEF StartTurn, SophiaTurnStatus
  <2> QED BY <2>1, <1>t, TurnElsewhere
<1>8. ASSUME NEW t \in Turn, CompleteTurn(t) PROVE SophiaInv'
  <2>1. /\ turn'[t] = "completed"
        /\ \A u \in Turn : u # t => turn'[u] = turn[u]
        /\ turn' \in [Turn -> SophiaTurnStatus \cup {"none"}]
        /\ dialog' = [status |-> dialog.status, mode |-> dialog.mode, count |-> dialog.count + 1]
        /\ counted' = counted \cup {t} /\ saved' = saved /\ cancel' = cancel
    BY <1>8, <1>t DEF CompleteTurn, SophiaTurnStatus
  <2>2. t \notin counted
    BY <1>8 DEF CompleteTurn, Going, SophiaInv, EachTurnCountsOnce
  <2>3. IsFiniteSet(counted') /\ Cardinality(counted') = Cardinality(counted) + 1
    BY <2>1, <2>2, FS_AddElement DEF SophiaInv
  <2>4. SophiaTypeOK'
    <3>1. dialog'.count = dialog.count + 1 /\ saved \in 0..dialog'.count
      BY <2>1, <1>t
    <3>2. dialog' \in [status : SophiaSessionStatus \cup {"none"}, mode : {"ai", "human_takeover"},
                    count : Nat]
      BY <2>1, <1>t
    <3> QED BY <2>1, <3>1, <3>2, <1>t DEF SophiaTypeOK
  <2>5. EachTurnCountsOnce'
    <3>1. dialog'.count = Cardinality(counted')
      BY <2>1, <2>3 DEF SophiaInv, EachTurnCountsOnce
    <3>2. \A u \in Turn : turn'[u] = "completed" => u \in counted'
      BY <2>1 DEF SophiaInv, EachTurnCountsOnce
    <3>3. \A u \in counted' : turn'[u] \in {"completed", "cancelled"}
      BY <2>1, <1>t DEF SophiaInv, EachTurnCountsOnce
    <3> QED BY <3>1, <3>2, <3>3 DEF EachTurnCountsOnce
  <2> QED BY <2>3, <2>4, <2>5 DEF SophiaInv
<1>9. ASSUME NEW t \in Turn, BargeIn(t) \/ AwaitApproval(t) \/ ResumeTurn(t) \/ FailTurn(t) \/ CancelTurn(t)
      PROVE  SophiaInv'
  <2>1. PICK s \in SophiaTurnStatus \ {"completed"} : turn' = [turn EXCEPT ![t] = s]
    BY <1>9 DEF BargeIn, AwaitApproval, ResumeTurn, FailTurn, CancelTurn, TurnTo, SophiaTurnStatus
  <2>2. turn[t] \notin {"completed", "cancelled"} /\ UNCHANGED <<saved, cancel, counted, dialog>>
    BY <1>9 DEF BargeIn, AwaitApproval, ResumeTurn, FailTurn, CancelTurn, TurnTo, Going
  <2>3. dialog' = [status |-> dialog.status, mode |-> dialog.mode, count |-> dialog.count]
    BY <2>2, <1>s
  <2> QED BY <2>1, <2>2, <2>3, <1>t, TurnElsewhere
<1>10. ASSUME NEW t \in Turn, InterruptTurn(t) PROVE SophiaInv'
  <2>1. turn[t] \notin {"completed", "cancelled"} /\ UNCHANGED <<saved, cancel, counted>>
        /\ turn' = [turn EXCEPT ![t] = "interrupted"] /\ Move("interrupted")
    BY <1>10 DEF InterruptTurn, TurnTo, Going
  <2>2. "interrupted" \in SophiaTurnStatus \ {"completed"} /\ "interrupted" \in SophiaSessionStatus
    BY DEF SophiaTurnStatus, SophiaSessionStatus
  <2>3. dialog' = [status |-> "interrupted", mode |-> dialog.mode, count |-> dialog.count]
    BY <2>1, <2>2, MoveTo
  <2> QED BY <2>1, <2>2, <2>3, <1>t, TurnElsewhere
<1>11. ASSUME NEW t \in Turn, WarmTransfer(t) PROVE SophiaInv'
  <2>1. turn[t] \notin {"completed", "cancelled"} /\ UNCHANGED <<saved, cancel, counted>>
        /\ turn' = [turn EXCEPT ![t] = "interrupted"]
    BY <1>11 DEF WarmTransfer, TurnTo, Going
  <2>2. "interrupted" \in SophiaTurnStatus \ {"completed"} /\ "interrupted" \in SophiaSessionStatus
    BY DEF SophiaTurnStatus, SophiaSessionStatus
  <2>3. dialog' = [status |-> "interrupted", mode |-> "human_takeover", count |-> dialog.count]
    BY <1>11, <1>t DEF WarmTransfer
  <2> QED BY <2>1, <2>2, <2>3, <1>t, TurnElsewhere
<1>12. ASSUME NEW c \in Canceller, BeginCancel(c) \/ AbandonCancel(c) PROVE SophiaInv'
  <2>1. UNCHANGED <<dialog, turn, saved, counted>>
    BY <1>12 DEF BeginCancel, AbandonCancel
  <2>2. cancel' \in [Canceller -> [open : BOOLEAN, turns : SUBSET Turn]]
    <3>1. CASE AbandonCancel(c)
      BY <3>1, <1>t DEF AbandonCancel, NoCancel
    <3>2. CASE BeginCancel(c)
      <4>1. PICK S \in SUBSET Turn : cancel' = [cancel EXCEPT ![c] = [open |-> TRUE, turns |-> S]]
        BY <3>2 DEF BeginCancel
      <4> QED BY <4>1, <1>t
    <3> QED BY <1>12, <3>1, <3>2
  <2>3. SophiaTypeOK'
    BY <2>1, <2>2, <1>t DEF SophiaTypeOK
  <2> QED BY <2>1, <2>3, NoTurnCounted
<1>13. ASSUME NEW c \in Canceller, Cancel(c) PROVE SophiaInv'
  <2>1. turn' = [t \in Turn |-> IF t \in cancel[c].turns THEN "cancelled" ELSE turn[t]]
        /\ cancel' = [cancel EXCEPT ![c] = NoCancel] /\ UNCHANGED <<saved, counted>>
        /\ Move("cancelled")
    BY <1>13 DEF Cancel
  <2>2. dialog' = [status |-> "cancelled", mode |-> dialog.mode, count |-> dialog.count]
    BY <2>1, MoveTo DEF SophiaSessionStatus
  <2>3. turn' \in [Turn -> SophiaTurnStatus \cup {"none"}]
    BY <2>1, <1>t DEF SophiaTurnStatus
  <2>4. cancel' \in [Canceller -> [open : BOOLEAN, turns : SUBSET Turn]]
    BY <2>1, <1>t DEF NoCancel
  <2>5. SophiaTypeOK'
    BY <2>1, <2>2, <2>3, <2>4, <1>t DEF SophiaTypeOK, SophiaSessionStatus
  <2>6. dialog'.count = dialog.count
    BY <2>2
  <2> QED BY <2>1, <2>5, <2>6, NoTurnCounted
<1> QED BY <1>1, <1>2, <1>4, <1>5, <1>6, <1>7, <1>8, <1>9, <1>10, <1>11, <1>12, <1>13 DEF SophiaNext

-----------------------------------------------------------------------------
(* TranscriptRetention.  Invariant: a run that found the transcript relies only *)
(* on what cannot be undone.                                               *)

\* What a run that found the transcript may still rely on: it is over, and if it
\* was read to be archived, it was not failed.
RetentionInv ==
  /\ RetentionTypeOK
  /\ Len(shelfLog) >= 1
  /\ RetentionSafe
  /\ \A a \in Archivist :
       /\ archivist[a].at \in {"expired", "archivable"} => shelf.status \in {"completed", "archived"}
       /\ archivist[a].at = "loaded" =>
            archivist[a].status = "completed" /\ shelf.status \in {"completed", "archived"}

\* The invariant holds at the start.
LEMMA RetentionInitially == RetentionInit => RetentionInv
<1> SUFFICES ASSUME RetentionInit PROVE RetentionInv
  OBVIOUS
<1>1. RetentionTypeOK
  BY RetentionAssumption DEF RetentionInit, RetentionTypeOK, ShelfStatus, Away
<1> QED BY <1>1 DEF RetentionInit, RetentionInv, RetentionSafe, Away

\* A transcript that is over stays over, and archived when it was.
LEMMA OverStaysOver ==
  ASSUME RetentionInv, NEW from \in ShelfStatus, NEW to \in ShelfStatus, MovesFrom(from, to),
         from = shelf.status \/ (from = "completed" /\ shelf.status \in {"completed", "archived"})
  PROVE  /\ shelf' \in [status : ShelfStatus, deleted : BOOLEAN]
         /\ shelfLog' \in Seq(ShelfStatus) /\ Len(shelfLog') <= MaxShelfLog
         /\ RetentionSafe'
         /\ shelf.status \in {"completed", "archived"} => shelf'.status \in {"completed", "archived"}
         /\ Len(shelfLog') >= 1
<1>1. /\ shelf \in [status : ShelfStatus, deleted : BOOLEAN]
      /\ shelfLog \in Seq(ShelfStatus) /\ Len(shelfLog) \in Nat /\ Len(shelfLog) >= 1
  BY DEF RetentionInv, RetentionTypeOK
<1>2. /\ shelf' \in [status : ShelfStatus, deleted : BOOLEAN]
      /\ shelf'.status = to /\ shelf'.deleted = shelf.deleted
  BY <1>1 DEF MovesFrom
<1>3. from \in {"completed", "archived"} => to = "archived" /\ from = "completed"
  BY DEF MovesFrom, ShelfMoves
<1>4. shelf.status \in {"completed", "archived"} => to = "archived"
  BY <1>3
<1>5. /\ shelfLog' \in Seq(ShelfStatus) /\ Len(shelfLog') = Len(shelfLog) + 1
      /\ shelfLog'[Len(shelfLog) + 1] = to
      /\ \A i \in 1..Len(shelfLog) : shelfLog'[i] = shelfLog[i]
  BY <1>1 DEF MovesFrom
<1>6. Len(shelfLog') <= MaxShelfLog
  <2>1. Len(shelfLog) < MaxShelfLog
    BY DEF MovesFrom
  <2>2. MaxShelfLog \in Nat
    BY RetentionAssumption
  <2> QED BY <2>1, <2>2, <1>5, <1>1
<1>7. RetentionSafe'
  <2>1. shelf'.deleted => shelf'.status \in {"completed", "archived"}
    BY <1>2, <1>4 DEF RetentionInv, RetentionSafe
  <2>2. shelfLog'[Len(shelfLog')] = shelf'.status
    BY <1>2, <1>5
  <2>3. ASSUME NEW i \in 1 .. Len(shelfLog') - 1, shelfLog'[i] = "archived"
        PROVE  shelfLog'[i + 1] = "archived"
    <3>1. CASE i = Len(shelfLog)
      <4>1. shelf.status = "archived"
        BY <3>1, <2>3, <1>1, <1>5 DEF RetentionInv, RetentionSafe
      <4> QED BY <4>1, <1>4, <1>5, <3>1
    <3>2. CASE i # Len(shelfLog)
      <4>1. i \in 1..Len(shelfLog) - 1 /\ i \in 1..Len(shelfLog) /\ i + 1 \in 1..Len(shelfLog)
        BY <3>2, <1>1, <1>5
      <4> QED BY <4>1, <2>3, <1>5 DEF RetentionInv, RetentionSafe
    <3> QED BY <3>1, <3>2
  <2> QED BY <2>1, <2>2, <2>3 DEF RetentionSafe
<1> QED BY <1>1, <1>2, <1>4, <1>5, <1>6, <1>7

\* Every step of the service keeps the invariant.
LEMMA RetentionStep == RetentionInv /\ [RetentionNext]_retentionVars => RetentionInv'
<1> SUFFICES ASSUME RetentionInv, [RetentionNext]_retentionVars PROVE RetentionInv'
  OBVIOUS
<1>t. /\ shelf \in [status : ShelfStatus, deleted : BOOLEAN]
      /\ archivist \in [Archivist ->
           [at : {"none", "expired", "archivable", "loaded"}, status : ShelfStatus]]
  BY DEF RetentionInv, RetentionTypeOK
<1>1. CASE UNCHANGED retentionVars
  BY <1>1 DEF RetentionInv, retentionVars, RetentionTypeOK, RetentionSafe
<1>2. ASSUME NEW to \in ShelfStatus, MoveOnShelf(to) PROVE RetentionInv'
  <2>1. MovesFrom(shelf.status, to) /\ archivist' = archivist /\ shelf.status \in ShelfStatus
    BY <1>2, <1>t DEF MoveOnShelf
  <2>2. /\ shelf' \in [status : ShelfStatus, deleted : BOOLEAN]
        /\ shelfLog' \in Seq(ShelfStatus) /\ Len(shelfLog') <= MaxShelfLog
        /\ RetentionSafe'
        /\ shelf.status \in {"completed", "archived"} => shelf'.status \in {"completed", "archived"}
        /\ Len(shelfLog') >= 1
    BY <2>1, OverStaysOver
  <2> QED BY <2>1, <2>2, <1>t DEF RetentionInv, RetentionTypeOK
<1>3. ASSUME NEW a \in Archivist, FindExpired(a) \/ FindArchivableTranscripts(a) PROVE RetentionInv'
  <2>1. PICK at \in {"expired", "archivable"} : archivist' = [archivist EXCEPT ![a].at = at]
    BY <1>3 DEF FindExpired, FindArchivableTranscripts, Shelves
  <2>2. shelf' = shelf /\ shelfLog' = shelfLog /\ shelf.status \in {"completed", "archived"}
    BY <1>3 DEF FindExpired, FindArchivableTranscripts, Shelves
  <2>3. /\ archivist'[a].at = at
        /\ \A o \in Archivist : o # a => archivist'[o] = archivist[o]
        /\ archivist' \in [Archivist ->
             [at : {"none", "expired", "archivable", "loaded"}, status : ShelfStatus]]
    BY <2>1, <1>t
  <2> QED BY <2>2, <2>3 DEF RetentionInv, RetentionTypeOK, RetentionSafe
<1>4. ASSUME NEW a \in Archivist, SoftDelete(a) PROVE RetentionInv'
  <2>1. shelfLog' = shelfLog /\ shelf.status \in {"completed", "archived"}
    BY <1>4 DEF SoftDelete, RetentionInv
  <2>2. shelf' \in [status : ShelfStatus, deleted : BOOLEAN] /\ shelf'.status = shelf.status
    BY <1>4, <1>t DEF SoftDelete
  <2>3. /\ archivist'[a].at = "none"
        /\ \A o \in Archivist : o # a => archivist'[o] = archivist[o]
        /\ archivist' \in [Archivist ->
             [at : {"none", "expired", "archivable", "loaded"}, status : ShelfStatus]]
    BY <1>4, <1>t DEF SoftDelete, Away, ShelfStatus
  <2> QED BY <2>1, <2>2, <2>3 DEF RetentionInv, RetentionTypeOK, RetentionSafe
<1>5. ASSUME NEW a \in Archivist, LoadToArchive(a) PROVE RetentionInv'
  <2>1. shelfLog' = shelfLog /\ shelf' = shelf /\ shelf.status \in {"completed", "archived"}
    BY <1>5 DEF LoadToArchive, RetentionInv
  <2>2. /\ archivist'[a] = IF shelf.deleted \/ shelf.status = "archived" THEN Away
                           ELSE [at |-> "loaded", status |-> shelf.status]
        /\ \A o \in Archivist : o # a => archivist'[o] = archivist[o]
        /\ archivist' \in [Archivist ->
             [at : {"none", "expired", "archivable", "loaded"}, status : ShelfStatus]]
    BY <1>5, <1>t DEF LoadToArchive, Away, ShelfStatus
  <2>3. archivist'[a].at \in {"none", "loaded"}
        /\ (archivist'[a].at = "loaded" => archivist'[a].status = "completed")
    BY <2>1, <2>2 DEF Away
  <2> QED BY <2>1, <2>2, <2>3 DEF RetentionInv, RetentionTypeOK, RetentionSafe
<1>6. ASSUME NEW a \in Archivist, ArchiveLoaded(a) PROVE RetentionInv'
  <2>1. MovesFrom("completed", "archived") /\ shelf.status \in {"completed", "archived"}
    BY <1>6 DEF ArchiveLoaded, RetentionInv
  <2>2. /\ shelf' \in [status : ShelfStatus, deleted : BOOLEAN]
        /\ shelfLog' \in Seq(ShelfStatus) /\ Len(shelfLog') <= MaxShelfLog
        /\ RetentionSafe'
        /\ shelf.status \in {"completed", "archived"} => shelf'.status \in {"completed", "archived"}
        /\ Len(shelfLog') >= 1
    BY <2>1, OverStaysOver DEF ShelfStatus
  <2>3. /\ archivist'[a].at = "none"
        /\ \A o \in Archivist : o # a => archivist'[o] = archivist[o]
        /\ archivist' \in [Archivist ->
             [at : {"none", "expired", "archivable", "loaded"}, status : ShelfStatus]]
    BY <1>6, <1>t DEF ArchiveLoaded, Away, ShelfStatus
  <2> QED BY <2>1, <2>2, <2>3 DEF RetentionInv, RetentionTypeOK
<1> QED BY <1>1, <1>2, <1>3, <1>4, <1>5, <1>6 DEF RetentionNext
=============================================================================
