--------------------------- MODULE PaymentPromise ---------------------------
(***************************************************************************)
(* What an order may expect of a payment provider and its webhook: an      *)
(* order is accounted for (paid, stock and coupon moved) exactly once, only *)
(* after its customer was charged, and its confirmation event is only      *)
(* raised for an order that was accounted for.  What the service cannot    *)
(* promise is an order it drops: the record of its payment fails, which is *)
(* taken for a payment recorded before.  Such an order may be announced     *)
(* though it was not accounted for, and may never be.  The service says     *)
(* nothing else: neither which webhook did it nor how often it was          *)
(* delivered.                                                              *)
(***************************************************************************)
EXTENDS Naturals

CONSTANT Orders

VARIABLES
    charged,     \* the orders whose customer was charged
    counted,     \* how often each order was accounted for
    announced,   \* the orders whose confirmation event was raised or attempted
    dropped      \* the orders of which a payment was taken for one recorded before

promiseVars == <<charged, counted, announced, dropped>>

PromiseInit ==
    /\ charged = {}
    /\ counted = [o \in Orders |-> 0]
    /\ announced = {}
    /\ dropped = {}

Charge(o) ==
    /\ charged' = charged \cup {o}
    /\ UNCHANGED <<counted, announced, dropped>>

Account(o) ==
    /\ o \in charged
    /\ counted[o] = 0
    /\ counted' = [counted EXCEPT ![o] = 1]
    /\ UNCHANGED <<charged, announced, dropped>>

Drop(o) ==
    /\ o \in charged
    /\ counted[o] = 0
    /\ dropped' = dropped \cup {o}
    /\ UNCHANGED <<charged, counted, announced>>

Confirm(o) ==
    /\ counted[o] = 1 \/ o \in dropped
    /\ announced' = announced \cup {o}
    /\ UNCHANGED <<charged, counted, dropped>>

PromiseNext == \E o \in Orders : Charge(o) \/ Account(o) \/ Drop(o) \/ Confirm(o)

PromiseSafety == PromiseInit /\ [][PromiseNext]_promiseVars

Promise ==
    /\ PromiseSafety
    /\ \A o \in Orders : WF_promiseVars(o \notin dropped /\ Account(o))
=============================================================================
