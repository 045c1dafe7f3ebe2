------------------------------- MODULE Gifts --------------------------------
(***************************************************************************)
(* Gift subscriptions next to the subscriptions they become                *)
(* (gifts.service.ts).  A code is created in the back office; a customer    *)
(* who presents it gets an ACTIVE subscription for the gift's variant, which *)
(* the renewal job of Subscriptions then treats like any other.             *)
(*                                                                         *)
(* Redeeming is a read (the gift by its code, while PENDING_ACTIVATION) and, *)
(* later, a transaction that creates the subscription and writes the gift   *)
(* by id: two requests that found one code open both make a subscription   *)
(* from it, though the service refuses a code "no válido o ya utilizado".   *)
(*                                                                         *)
(* The subscriptions' own steps are those of Subscriptions, with what they  *)
(* do to a customer's id at Stripe added: without one the job cannot        *)
(* charge.                                                                 *)
(***************************************************************************)
EXTENDS Subscriptions

CONSTANTS
    Codes,           \* gifts
    Customers,
    CustomerOf,      \* the customer of each pair
    GiftPairs,       \* the pairs whose variant is that of the gift
    Shipments,       \* totalShipments of each gift
    Redeemers        \* redemptions that may be in flight at once

ASSUME GiftsAssumption ==
    /\ CustomerOf \in [Pairs -> Customers]
    /\ GiftPairs \in [Codes -> SUBSET Pairs]
    /\ Shipments \in [Codes -> Nat \ {0}]

VARIABLES
    gift,        \* GiftStatus, "NONE" before the row exists
    linked,      \* subscriptions created from each gift, the last one linked
    hold,        \* what each redemption holds between its read and its write
    atStripe,    \* customers with a stripeCustomerId
    strangers    \* subscriptions each run read without a stripeCustomerId

giftVars == <<gift, linked, hold, atStripe, strangers>>
allVars  == <<vars, giftVars>>

Redemption == [pc : {"read"}, code : Codes, pair : Pairs, freq : Frequencies, next : Nat]

GiftsTypeOK ==
    /\ gift \in [Codes -> {"NONE", "PENDING_ACTIVATION", "ACTIVE"}]
    /\ linked \in [Codes -> SUBSET Subs]
    /\ hold \in [Redeemers -> {Idle} \cup Redemption]
    /\ atStripe \in SUBSET Customers
    /\ strangers \in [Runs -> SUBSET Subs]
    /\ \A h \in Redeemers : hold[h].pc = "read" => gift[hold[h].code] # "NONE"
    /\ \A g \in Codes : gift[g] # "ACTIVE" => linked[g] = {}

GiftsInit ==
    /\ Init
    /\ gift = [g \in Codes |-> "NONE"]
    /\ linked = [g \in Codes |-> {}]
    /\ hold = [h \in Redeemers |-> Idle]
    /\ atStripe = {}
    /\ strangers = [w \in Runs |-> {}]

Gifted(s) == \E g \in Codes : s \in linked[g]

CustomerOfSub(s) == CustomerOf[PairOf[s]]

-----------------------------------------------------------------------------
\* A code is generated; a number that exists is drawn again.
CreateGift(g) ==
    /\ gift[g] = "NONE"
    /\ gift' = [gift EXCEPT ![g] = "PENDING_ACTIVATION"]
    /\ UNCHANGED <<vars, linked, hold, atStripe, strangers>>

\* Mutant: a code that was never issued is taken for a gift.
NotLookedUp(g) == TRUE

\* The gift this code finds.
Redeemable(g) == gift[g] = "PENDING_ACTIVATION"

\* The gift is found, and the date of the first delivery computed.
ReadGift(h, g, p, f) ==
    /\ hold[h] = Idle
    /\ Redeemable(g)
    /\ p \in GiftPairs[g]
    /\ hold' = [hold EXCEPT ![h] = [pc |-> "read", code |-> g, pair |-> p, freq |-> f,
                                    next |-> now + f]]
    /\ UNCHANGED <<vars, gift, linked, atStripe, strangers>>

\* The transaction.  The gift is written by id, whatever its status is by now;
\* the partial index refuses a second ACTIVE subscription of the pair, and the
\* transaction with it.
Redeem(h, s) ==
    /\ hold[h].pc = "read"
    /\ status[s] = "NONE"
    /\ PairOf[s] = hold[h].pair
    /\ hold' = [hold EXCEPT ![h] = Idle]
    /\ IF IndexAllows(s)
       THEN /\ status' = [status EXCEPT ![s] = "ACTIVE"]
            /\ freq' = [freq EXCEPT ![s] = hold[h].freq]
            /\ nextShip' = [nextShip EXCEPT ![s] = hold[h].next]
            /\ born' = [born EXCEPT ![s] = now]
            /\ gift' = [gift EXCEPT ![hold[h].code] = "ACTIVE"]
            /\ linked' = [linked EXCEPT ![hold[h].code] = @ \cup {s}]
       ELSE UNCHANGED <<status, freq, nextShip, born, gift, linked>>
    /\ UNCHANGED <<now, setup, recorded, req, run, orders, charges, requests, faults, late,
                   atStripe, strangers>>

-----------------------------------------------------------------------------
(***************************************************************************)
(* The steps of Subscriptions, with the customer's id at Stripe.           *)
(***************************************************************************)

\* createOrGetStripeCustomer comes before the row of a subscription.
CreateWithCustomer(s, f) ==
    /\ Create(s, f)
    /\ atStripe' = atStripe \cup {CustomerOfSub(s)}
    /\ UNCHANGED <<gift, linked, hold, strangers>>

\* A gifted subscription has no SetupIntent: only its creation makes one.
SetupOfOwn(s) ==
    /\ ~Gifted(s)
    /\ CreateSetupIntent(s)
    /\ UNCHANGED giftVars

\* The batch is read with each customer's stripeCustomerId.
StartRunWithCustomers(w) ==
    /\ StartRun(w)
    /\ strangers' = [strangers EXCEPT ![w] =
          {s \in run'[w].due : CustomerOfSub(s) \notin atStripe}]
    /\ UNCHANGED <<gift, linked, hold, atStripe>>

\* What becomes of a subscription that cannot be charged: an error like any other.
Refused(w, s) ==
    run' = [run EXCEPT ![w].pc = "failed", ![w].cur = s, ![w].due = @ \ {s}]

\* A customer without an id at Stripe: no order and no charge.
NoPaymentMethod(w) ==
    /\ run[w].pc = "loop"
    /\ \E s \in run[w].due \cap strangers[w] : Refused(w, s)
    /\ UNCHANGED <<now, status, nextShip, freq, setup, recorded, req, orders, charges, requests,
                   faults, born, giftVars>>

\* Stripe has a payment method of the customer: a set-up was confirmed.
HasCard(s) ==
    \E t \in Subs : CustomerOfSub(t) = CustomerOfSub(s) /\ setup[t] = "succeeded"

\* The other steps of a run: an order is for a customer known at Stripe, and a
\* charge needs a payment method.
OtherRunStep(w) ==
    /\ \/ CreateOrder(w) /\ run'[w].cur \notin strangers[w]
       \/ CreateOrderFails(w)
       \/ Charge(w) \/ ChargeThrows(w)
       \/ Advance(w) \/ AdvanceFails(w)
       \/ MarkFailed(w)
       \/ EndRun(w)
    /\ charges' # charges => HasCard(run[w].cur)
    /\ UNCHANGED giftVars

GiftRunStep(w) == StartRunWithCustomers(w) \/ NoPaymentMethod(w) \/ OtherRunStep(w)

CrashWithGifts ==
    /\ Crash
    /\ hold' = [h \in Redeemers |-> Idle]
    /\ UNCHANGED <<gift, linked, atStripe, strangers>>

NextDayWithGifts ==
    /\ NextDay
    /\ \A h \in Redeemers : hold[h] = Idle
    /\ UNCHANGED giftVars

\* The steps of Subscriptions and of the job; late follows as it does there.
JobStep ==
    /\ \/ \E s \in Subs :
             \/ \E f \in Frequencies : CreateWithCustomer(s, f)
             \/ SetupOfOwn(s)
             \/ (ConfirmSetup(s) \/ OnSetupIntentSucceeded(s)) /\ UNCHANGED giftVars
       \/ \E h \in Handlers :
             /\ \/ \E s \in Subs, op \in Requested, f \in Frequencies : Request(h, s, op, f)
                \/ Apply(h)
             /\ UNCHANGED giftVars
       \/ \E w \in Runs : GiftRunStep(w)
       \/ CrashWithGifts
       \/ NextDayWithGifts
    /\ RecordLate

GiftStep ==
    \/ \E g \in Codes : CreateGift(g)
    \/ \E h \in Redeemers :
          \/ \E g \in Codes, p \in Pairs, f \in Frequencies : ReadGift(h, g, p, f)
          \/ \E s \in Subs : Redeem(h, s)

GiftsNext == GiftStep \/ JobStep

GiftsSpec == GiftsInit /\ [][GiftsNext]_allVars

-----------------------------------------------------------------------------
\* "Número de envíos incluidos en el regalo" (create-gift.dto.ts): the
\* deliveries of a gift are not charged to the customer who redeemed it.
GiftShipmentsIncluded ==
    \A g \in Codes : \A s \in linked[g] : charges[s] = 0 \/ orders[s] > Shipments[g]
=============================================================================
