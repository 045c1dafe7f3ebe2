--------------------------- MODULE StripeCheckout ---------------------------
(***************************************************************************)
(* Orders paid through Stripe: the checkout creates a PaymentIntent, the   *)
(* customer pays it in the browser, and Stripe reports by webhook          *)
(* (stripe/stripe.service.ts).                                             *)
(*                                                                         *)
(* Stripe, which is outside the repository, delivers every event at least  *)
(* once and in any order: it repeats one until it is answered with a 2xx,   *)
(* and may repeat it after that.  A delivery whose transaction fails after    *)
(* the insert of its event row changes nothing, is answered with an error   *)
(* and is repeated, so it needs no step of its own.  An error of the insert *)
(* itself is a step: the handler takes every such error for a repeated      *)
(* event, changes nothing and answers with a 2xx all the same.              *)
(***************************************************************************)
EXTENDS OrderBook

CONSTANTS
    FailureBound,    \* bound: rejected attempts per PaymentIntent
    RestartBound,    \* bound: restarts of the server in a behaviour
    DropBound        \* bound: orders whose paid event meets a failing insert

ASSUME StripeAssumption ==
    FailureBound \in Nat /\ RestartBound \in Nat /\ DropBound \in Nat

VARIABLES
    intent,      \* PaymentIntent of each order: "none", "open", "paid"
    attempts,    \* rejected attempts of each PaymentIntent
    emitted,     \* events Stripe has emitted
    acked,       \* events answered with a 2xx
    processed,   \* the StripeEvent table
    sending,     \* deliveries past their transaction, before inngest.send
    confirmed,   \* orders for which order/created reached Inngest
    unsent,      \* orders for which a failed inngest.send was swallowed
    dropped,     \* history: orders whose paid event was taken for a repeated one
    restarts

stripeVars == <<intent, attempts, emitted, acked, processed, sending,
                confirmed, unsent, dropped, restarts>>
vars == <<bookVars, stripeVars>>

Succeeded(o) == [type |-> "succeeded", order |-> o, n |-> 0]
Failed(o, n) == [type |-> "failed", order |-> o, n |-> n]
Successes    == {Succeeded(o) : o \in Orders}
Failures     == {Failed(o, n) : o \in Orders, n \in 1..FailureBound}
Events       == Successes \cup Failures

\* Every variable holds a value of its type, the order book's included.
TypeOK ==
    /\ BookTypeOK
    /\ intent \in [Orders -> {"none", "open", "paid"}]
    /\ attempts \in [Orders -> 0..FailureBound]
    /\ emitted \subseteq Events
    /\ acked \subseteq emitted
    /\ processed \subseteq emitted
    /\ sending \subseteq emitted \cap Successes
    /\ confirmed \subseteq Orders
    /\ unsent \subseteq Orders
    /\ dropped \subseteq Orders
    /\ restarts \in 0..RestartBound

Init ==
    /\ BookInit
    /\ intent = [o \in Orders |-> "none"]
    /\ attempts = [o \in Orders |-> 0]
    /\ emitted = {}
    /\ acked = {}
    /\ processed = {}
    /\ sending = {}
    /\ confirmed = {}
    /\ unsent = {}
    /\ dropped = {}
    /\ restarts = 0

-----------------------------------------------------------------------------
\* createPaymentIntent: the intent names the order in its metadata.
CreatePaymentIntent(o) ==
    /\ phase[o] = "placed"
    /\ intent' = [intent EXCEPT ![o] = "open"]
    /\ phase' = [phase EXCEPT ![o] = "intent"]
    /\ UNCHANGED <<basket, code, status, payment, cart, stock, redeemed, deskVars,
                   counted, taken>>
    /\ UNCHANGED <<attempts, emitted, acked, processed, sending, confirmed, unsent, dropped,
                   restarts>>

\* The intent's id is stored and the client secret goes to the browser: from
\* here on the customer can pay.
AnswerCheckout(o) ==
    /\ phase[o] = "intent"
    /\ phase' = [phase EXCEPT ![o] = "open"]
    /\ UNCHANGED <<basket, code, status, payment, cart, stock, redeemed, deskVars,
                   counted, taken>>
    /\ UNCHANGED stripeVars

\* External: the customer's card is refused; the intent stays payable.
AttemptFails(o) ==
    /\ phase[o] = "open"
    /\ intent[o] = "open"
    /\ attempts[o] < FailureBound
    /\ attempts' = [attempts EXCEPT ![o] = @ + 1]
    /\ emitted' = emitted \cup {Failed(o, attempts[o] + 1)}
    /\ UNCHANGED bookVars
    /\ UNCHANGED <<intent, acked, processed, sending, confirmed, unsent, dropped, restarts>>

\* External: the customer is charged, once per intent.
AttemptSucceeds(o) ==
    /\ phase[o] = "open"
    /\ intent[o] = "open"
    /\ intent' = [intent EXCEPT ![o] = "paid"]
    /\ emitted' = emitted \cup {Succeeded(o)}
    /\ UNCHANGED bookVars
    /\ UNCHANGED <<attempts, acked, processed, sending, confirmed, unsent, dropped, restarts>>

-----------------------------------------------------------------------------
\* constructEvent accepts what Stripe emitted and nothing else.
Delivered(e) == e \in emitted

\* Mutant: every delivery is a new one.
NeverRecorded(e) == FALSE

\* The insert into StripeEvent hits its primary key.
Recorded(e) == e \in processed

\* Mutant: the delivery is answered as soon as its transaction commits.
AnsweredEarly(e) == acked \cup {e}

\* The answers given when the transaction of e commits: none, the send comes first.
AnsweredAtCommit(e) == acked

\* The transaction of onPaymentSucceeded.  The primary key of StripeEvent makes
\* a repeated delivery, concurrent or later, leave the transaction at once; the
\* handler then goes on to inngest.send all the same.
OnPaymentSucceeded(o) ==
    /\ Delivered(Succeeded(o))
    /\ processed' = processed \cup {Succeeded(o)}
    /\ IF Recorded(Succeeded(o))
       THEN UNCHANGED <<payment, stock, redeemed, counted, taken>>
       ELSE AccountPayment(o)
    /\ UNCHANGED <<checkoutVars, status, deskVars>>
    /\ sending' = sending \cup {Succeeded(o)}
    /\ acked' = AnsweredAtCommit(Succeeded(o))
    /\ UNCHANGED <<intent, attempts, emitted, confirmed, unsent, dropped, restarts>>

\* The insert fails though the event is new: a statement time-out, a deadlock, a
\* lock not granted.  The catch around it names no error, so the transaction is left
\* without a change as for a repeated event, and the handler goes on to inngest.send.
PaymentDropped(o) ==
    /\ Delivered(Succeeded(o))
    /\ ~Recorded(Succeeded(o))
    /\ Cardinality(dropped \cup {o}) <= DropBound
    /\ dropped' = dropped \cup {o}
    /\ sending' = sending \cup {Succeeded(o)}
    /\ UNCHANGED bookVars
    /\ UNCHANGED <<intent, attempts, emitted, acked, processed, confirmed, unsent, restarts>>

\* Mutant: order/created is sent without waiting for the transaction.
SendsAtOnce(o) == Delivered(Succeeded(o))

ReadyToSend(o) == Succeeded(o) \in sending

\* inngest.send of order/created and the 2xx answer.  An error of the send is
\* logged and swallowed.
SendOrderCreated(o) ==
    /\ ReadyToSend(o)
    /\ \/ confirmed' = confirmed \cup {o} /\ UNCHANGED unsent
       \/ unsent' = unsent \cup {o} /\ UNCHANGED confirmed
    /\ sending' = sending \ {Succeeded(o)}
    /\ acked' = acked \cup {Succeeded(o)}
    /\ UNCHANGED bookVars
    /\ UNCHANGED <<intent, attempts, emitted, processed, dropped, restarts>>

\* onPaymentFailed: the same guard, then FAILED whatever the status was.  Its
\* answer may be lost on the way, and the event comes back.
OnPaymentFailed(o, n) ==
    /\ Delivered(Failed(o, n))
    /\ processed' = processed \cup {Failed(o, n)}
    /\ IF Recorded(Failed(o, n))
       THEN UNCHANGED <<payment, stock, redeemed, counted, taken>>
       ELSE RejectPayment(o)
    /\ acked' \in {acked, acked \cup {Failed(o, n)}}
    /\ UNCHANGED <<checkoutVars, status, deskVars>>
    /\ UNCHANGED <<intent, attempts, emitted, sending, confirmed, unsent, dropped, restarts>>

\* The same failing insert in onPaymentFailed: the event is answered, and the order's
\* payment stays what it was.
FailureDropped(o, n) ==
    /\ Delivered(Failed(o, n))
    /\ ~Recorded(Failed(o, n))
    /\ acked' = acked \cup {Failed(o, n)}
    /\ UNCHANGED bookVars
    /\ UNCHANGED <<intent, attempts, emitted, processed, sending, confirmed, unsent,
                   dropped, restarts>>

\* The server stops and starts again: requests and deliveries in flight are gone.
Restart ==
    /\ restarts < RestartBound
    /\ restarts' = restarts + 1
    /\ sending' = {}
    /\ LoseRequests
    /\ UNCHANGED <<intent, attempts, emitted, acked, processed, confirmed, unsent, dropped>>

-----------------------------------------------------------------------------
Checkout(o) == Price(o) \/ CreateOrder(o)

Next ==
    \/ \E o \in Orders :
          \/ Checkout(o) /\ UNCHANGED stripeVars
          \/ CreatePaymentIntent(o)
          \/ AnswerCheckout(o)
          \/ AttemptFails(o)
          \/ AttemptSucceeds(o)
          \/ OnPaymentSucceeded(o)
          \/ SendOrderCreated(o)
          \/ PaymentDropped(o)
          \/ \E n \in 1..FailureBound : OnPaymentFailed(o, n) \/ FailureDropped(o, n)
    \/ BackOffice /\ UNCHANGED stripeVars
    \/ Restart

Spec == Init /\ [][Next]_vars

\* Stripe repeats an event that was not answered, and a running handler goes on.
\* Nothing is assumed of customers, admins or restarts.
Fairness ==
    \A o \in Orders :
        /\ WF_vars(Succeeded(o) \notin acked /\ OnPaymentSucceeded(o))
        /\ WF_vars(SendOrderCreated(o))

FairSpec == Spec /\ Fairness

-----------------------------------------------------------------------------
\* order/created is only raised for an order whose payment is in the book: the send
\* comes after the transaction, also on a repeated delivery.  One way round it is
\* open, and only one: the insert of the order's paid event failed and was taken for
\* a repeated event, so the order was announced without having been accounted for.
ConfirmationHasPayment ==
    confirmed \cup unsent \subseteq {o \in Orders : counted[o] > 0} \cup dropped

\* A restart between the transaction and inngest.send does not lose the
\* confirmation, because the event is still unanswered: for every charged order
\* order/created is raised, or its send failed and was swallowed.
ChargedIsConfirmed ==
    \A o \in Orders : intent[o] = "paid" ~> o \in confirmed \cup unsent

\* The checkout and the webhook implement the payment promise: every charged order is
\* accounted for, once, whatever is repeated or restarted, unless the insert of its
\* event failed; and only what was accounted for, or dropped so, is announced.
Promise == INSTANCE PaymentPromise
                WITH charged <- {o \in Orders : intent[o] = "paid"},
                     announced <- confirmed \cup unsent,
                     dropped <- dropped

ImplementsPromise == Promise!Promise
=============================================================================
