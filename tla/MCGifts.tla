------------------------------ MODULE MCGifts -------------------------------
(***************************************************************************)
(* Gifts on small instances: one customer, two subscriptions, of the same   *)
(* variant or of two, and one gift that may be redeemed for any of them.    *)
(***************************************************************************)
EXTENDS Gifts, TLC

CONSTANTS s1, s2, p1, p2, c1, g1

MCSamePair   == [s \in Subs |-> p1]
MCOwnPair    == (s1 :> p1) @@ (s2 :> p2)
MCOnePerson  == [p \in Pairs |-> c1]
MCGiftPairs  == [g \in Codes |-> Pairs]
MCShipments  == [g \in Codes |-> 1]

\* Sound where the pairs do not tell the subscriptions apart.
MCSymmetry == Permutations(Subs) \cup Permutations(Redeemers)
=============================================================================
