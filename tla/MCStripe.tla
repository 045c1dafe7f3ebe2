------------------------------ MODULE MCStripe ------------------------------
(***************************************************************************)
(* StripeCheckout on small instances: two orders compete for one variant   *)
(* and one coupon, or one order meets two admins.                          *)
(***************************************************************************)
EXTENDS StripeCheckout, TLC

CONSTANTS o1, o2, u1, v1, k1

MCOwner == [o \in Orders |-> u1]

\* One variant on two lines of one unit each.
MCTwoLines == {v1 :> <<1, 1>>}

\* One line, of one unit or of two.
MCOneLine == {v1 :> <<1, 0>>, v1 :> <<2, 0>>}

MCStockOfTwo   == v1 :> 2
MCStockOfThree == v1 :> 3

MCMaxRedemptions == k1 :> 1

MCSymmetry == Permutations({o1, o2})
=============================================================================
