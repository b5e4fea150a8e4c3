----------------------------- MODULE FreezeGate ------------------------------
(***************************************************************************)
(* What freezes and kill switches promise: a scope is frozen or it is not, *)
(* a freeze may be lifted, a kill switch never.                            *)
(***************************************************************************)
CONSTANT Scope
VARIABLES frozen, permanent

gateVars == <<frozen, permanent>>

Init == frozen = {} /\ permanent = {}

Freeze(s) == frozen' = frozen \cup {s} /\ UNCHANGED permanent

\* One deactivation lifts every freeze made with its key.
Thaw(S) ==
  /\ S \cap permanent = {}
  /\ frozen' = frozen \ S
  /\ UNCHANGED permanent

Kill(s) ==
  /\ frozen' = frozen \cup {s}
  /\ permanent' = permanent \cup {s}

Next ==
  \/ \E s \in Scope : Freeze(s) \/ Kill(s)
  \/ \E S \in SUBSET Scope : Thaw(S)

Spec == Init /\ [][Next]_gateVars
=============================================================================
