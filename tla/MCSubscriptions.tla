-------------------------- MODULE MCSubscriptions --------------------------
(***************************************************************************)
(* Subscriptions on small instances: the subscriptions of one customer to  *)
(* one variant.                                                            *)
(***************************************************************************)
EXTENDS Subscriptions

CONSTANT p1

\* All subscriptions are for the same customer and variant.
MCSamePair == [s \in Subs |-> p1]
=============================================================================
