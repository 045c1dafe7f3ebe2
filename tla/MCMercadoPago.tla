--------------------------- MODULE MCMercadoPago ---------------------------
(***************************************************************************)
(* MercadoPagoCheckout on a small instance: one order for one variant with *)
(* a coupon, and notifications handled side by side.                       *)
(***************************************************************************)
EXTENDS MercadoPagoCheckout, TLC

CONSTANTS o1, u1, v1, k1

MCOwner          == [o \in Orders |-> u1]
MCTwoLines       == {v1 :> <<1, 1>>}
MCStockOfThree   == v1 :> 3
MCMaxRedemptions == k1 :> 1
MCNoCaps         == <<>>
=============================================================================
