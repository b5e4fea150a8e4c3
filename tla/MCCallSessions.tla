--------------------------- MODULE MCCallSessions ---------------------------
(***************************************************************************)
(* TLC instance of CallSessions: participants and transactions are         *)
(* interchangeable.                                                        *)
(***************************************************************************)
EXTENDS CallSessions, TLC

Symmetry == Permutations(Participant) \cup Permutations(Txn)
=============================================================================
