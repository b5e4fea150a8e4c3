---------------------------- MODULE MCSourceSync ----------------------------
(***************************************************************************)
(* SourceSync for TLC.                                                     *)
(***************************************************************************)
EXTENDS SourceSync

\* What the business source delivers: a call, a lead seen a moment later of which
\* two states were read at the same time, and a later snapshot under the revision
\* of another and one that authorises an offer.
Delivery(part, rev, at, named, claimed) ==
  [part |-> part, rev |-> rev, at |-> at, contact |-> named, claimed |-> claimed,
   advisory |-> TRUE]

MCSnapshot ==
  {Delivery("call", "A", 1, "blank", "A"), Delivery("lead", "B", 2, "phone", "B"),
   Delivery("lead", "C", 2, "email", "C"), Delivery("lead", "D", 3, "phone", "C"),
   [Delivery("lead", "E", 3, "phone", "E") EXCEPT !.advisory = FALSE]}
=============================================================================
