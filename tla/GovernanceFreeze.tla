-------------------------- MODULE GovernanceFreeze ---------------------------
(***************************************************************************)
(* FreezeRuntime and GovernanceEngine.check_freeze (backend/governance).   *)
(*                                                                         *)
(* Freezes are rows of governance_events, which are only ever added: here  *)
(* three growing sets.  is_frozen reads the three kinds of row in three    *)
(* queries, and nothing holds the log still in between; check_freeze runs  *)
(* is_frozen for the global scope and then for its own, activate runs it   *)
(* for its own scope before it appends.                                    *)
(***************************************************************************)
EXTENDS Sequences

CONSTANTS FreezeKey, Scope, Global,
          Gatekeeper    \* requests that are in check_freeze or in activate

ASSUME FreezeAssumption == Global \in Scope

VARIABLES
  activated,    \* <<key, scope>> of the freeze_activated rows
  deactivated,  \* keys of the freeze_deactivated rows
  killed,       \* scopes of the kill_switch_triggered rows
  gate          \* gate[g]: what g is doing and what it has read

freezeVars == <<activated, deactivated, killed, gate>>

Idle == [op |-> "none", key |-> "none", scope |-> Global, left |-> <<>>, step |-> "done",
         keys |-> {}, live |-> {}, doomed |-> FALSE]

FreezeInit ==
  /\ activated = {} /\ deactivated = {} /\ killed = {}
  /\ gate = [g \in Gatekeeper |-> Idle]

\* The keys that freeze one of the scopes at this moment.
LiveKeys(S) == {k \in FreezeKey \ deactivated : \E s \in S : <<k, s>> \in activated}

FrozenScopes == killed \cup {s \in Scope : LiveKeys({s}) # {}}

-----------------------------------------------------------------------------
\* Mutant of ScopesToCheck: the global scope is forgotten when another is meant.
ScopesToCheck_Own(s) == <<s>>

\* check_freeze asks for the global scope first.
ScopesToCheck(s) == IF s = Global THEN <<s>> ELSE <<Global, s>>

\* live and doomed remember, for the properties, how the scopes that matter
\* to the call stood when it began.
Begin(g, op, k, s, scopes, matter) ==
  /\ gate[g].op = "none"
  /\ gate' = [gate EXCEPT ![g] =
       [op |-> op, key |-> k, scope |-> s, left |-> scopes, step |-> "activated",
        keys |-> {}, live |-> LiveKeys(matter), doomed |-> matter \cap killed # {}]]
  /\ UNCHANGED <<activated, deactivated, killed>>

BeginCheck(g, s) == Begin(g, "check", "none", s, ScopesToCheck(s), {Global, s})

BeginActivate(g, k, s) == Begin(g, "activate", k, s, <<s>>, {s})

ReadActivated(g) ==
  /\ gate[g].step = "activated"
  /\ gate' = [gate EXCEPT
       ![g].step = "killed",
       ![g].keys = {k \in FreezeKey : <<k, Head(gate[g].left)>> \in activated}]
  /\ UNCHANGED <<activated, deactivated, killed>>

\* A kill switch for the scope answers True at once: a check is refused, an
\* activation has nothing to do.
ReadKilled(g) ==
  /\ gate[g].step = "killed"
  /\ gate' = [gate EXCEPT ![g] =
       IF Head(gate[g].left) \in killed THEN Idle
       ELSE [gate[g] EXCEPT !.step = "deactivated"]]
  /\ UNCHANGED <<activated, deactivated, killed>>

Verdict(g) == gate[g].keys \ deactivated # {}

\* A frozen scope ends the call; a scope that is not leads to the next one.
ReadDeactivated(g) ==
  LET rest == Tail(gate[g].left)
  IN /\ gate[g].step = "deactivated"
     /\ gate' = [gate EXCEPT ![g] =
          IF Verdict(g) THEN Idle
          ELSE [gate[g] EXCEPT !.left = rest,
                               !.step = IF rest = <<>> THEN "passed" ELSE "activated"]]
     /\ UNCHANGED <<activated, deactivated, killed>>

\* activate appends its row.
CommitActivate(g) ==
  /\ gate[g].op = "activate" /\ gate[g].step = "passed"
  /\ activated' = activated \cup {<<gate[g].key, gate[g].scope>>}
  /\ gate' = [gate EXCEPT ![g] = Idle]
  /\ UNCHANGED <<deactivated, killed>>

\* The checked action goes ahead, or any call ends without an effect.
EndCall(g) ==
  /\ gate[g].op # "none"
  /\ gate' = [gate EXCEPT ![g] = Idle]
  /\ UNCHANGED <<activated, deactivated, killed>>

\* Mutant of Deactivate: the kill switches of the scope are lifted with the key.
Deactivate_Kills(k) ==
  /\ deactivated' = deactivated \cup {k}
  /\ killed' = {s \in killed : <<k, s>> \notin activated}
  /\ UNCHANGED <<activated, gate>>

\* deactivate looks for kill switches among the freeze_activated rows, where
\* none is ever recorded, so it refuses no key; the kill switches stay.
Deactivate(k) ==
  /\ deactivated' = deactivated \cup {k}
  /\ UNCHANGED <<activated, killed, gate>>

KillSwitch(s) ==
  /\ killed' = killed \cup {s}
  /\ UNCHANGED <<activated, deactivated, gate>>

GateStep(g) ==
  \/ \E s \in Scope : BeginCheck(g, s)
  \/ \E k \in FreezeKey, s \in Scope : BeginActivate(g, k, s)
  \/ ReadActivated(g)
  \/ ReadKilled(g)
  \/ ReadDeactivated(g)
  \/ CommitActivate(g)
  \/ EndCall(g)

FreezeNext ==
  \/ \E g \in Gatekeeper : GateStep(g)
  \/ \E k \in FreezeKey : Deactivate(k)
  \/ \E s \in Scope : KillSwitch(s)

FreezeSpec == FreezeInit /\ [][FreezeNext]_freezeVars

-----------------------------------------------------------------------------
(* Properties *)

FreezeTypeOK ==
  /\ activated \subseteq FreezeKey \X Scope
  /\ deactivated \subseteq FreezeKey
  /\ killed \subseteq Scope
  /\ gate \in [Gatekeeper ->
       [op : {"none", "check", "activate"}, key : FreezeKey \cup {"none"}, scope : Scope,
        left : {<<>>} \cup {<<s>> : s \in Scope} \cup {<<s, t>> : s, t \in Scope},
        step : {"activated", "killed", "deactivated", "passed", "done"},
        keys : SUBSET FreezeKey, live : SUBSET FreezeKey, doomed : BOOLEAN]]

\* check_freeze: "Raise GovernanceFrozenError if scope or global scope is
\* frozen."  It reads six times without a lock, so what it can promise is
\* this: when it lets a request through, every freeze of either scope that
\* was in force when it began has been deactivated in the meantime, and
\* neither scope had been killed.
GateHonest ==
  \A g \in Gatekeeper :
    gate[g].step = "passed" => gate[g].live \subseteq deactivated /\ ~ gate[g].doomed

\* freeze.py: "Permanently freeze scope. Cannot be deactivated." and freezes
\* that end only by a deactivation: the log implements the abstract gate.
Gate == INSTANCE FreezeGate WITH frozen <- FrozenScopes, permanent <- killed

ImplementsGate == Gate!Spec

\* freeze.py: "A freeze_activated event is active unless a later
\* freeze_deactivated event exists for the same freeze_key": an activation
\* leaves its scope frozen.
\* The code does not keep this: a claim on record, asked by no run.
ActivationFreezes ==
  [][\A p \in activated' \ activated : p[2] \in FrozenScopes']_freezeVars
=============================================================================
