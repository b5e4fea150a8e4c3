--------------------------- MODULE ExecutionLock ----------------------------
(***************************************************************************)
(* What an execution lease promises: at most one worker executes the       *)
(* workflow, and the right to execute never passes from one worker to      *)
(* another without a moment in which nobody has it.                        *)
(***************************************************************************)
CONSTANTS Holder, Nobody

VARIABLE owner

Init == owner = Nobody

Grab(h) == owner = Nobody /\ owner' = h
Lose    == owner' = Nobody

Next == Lose \/ \E h \in Holder : Grab(h)

Spec == Init /\ [][Next]_owner
=============================================================================
