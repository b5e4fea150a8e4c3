----------------------------- MODULE MCApprovals -----------------------------
(***************************************************************************)
(* TLC instance of Approvals: approvals, and types, are interchangeable.   *)
(* The symmetry is used for the safety run only.                           *)
(***************************************************************************)
EXTENDS Approvals, TLC

Symmetry == Permutations(Approval) \cup Permutations(ApprovalType)
=============================================================================
