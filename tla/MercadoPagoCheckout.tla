------------------------ MODULE MercadoPagoCheckout ------------------------
(***************************************************************************)
(* Orders paid through MercadoPago (mercadopago/mercadopago.service.ts):   *)
(* the checkout request itself creates the payment with the tenant's       *)
(* token, and notifications make the server ask for the payment's state    *)
(* again.  Both end in applyPaymentStatus, and both hold what they read    *)
(* (credentials, a payment's state) across calls to MercadoPago.           *)
(*                                                                         *)
(* MercadoPago, which is outside the repository, sends one notification    *)
(* for each state of a payment, repeats it until it is answered with a     *)
(* 2xx, and may repeat it after that.  A notification carries the payment's *)
(* id only.                                                                *)
(*                                                                         *)
(* An error on the way is an answer MercadoPago is not content with, with   *)
(* one exception: an error of the insert of the approval's row is taken for *)
(* an approval recorded before, nothing changes, and the answer is a 200.   *)
(***************************************************************************)
EXTENDS OrderBook

CONSTANTS
    Hooks,           \* notifications that may be handled at once
    FaultBound       \* bound: failed calls, lost replies, duplicates, restarts

ASSUME MercadoPagoAssumption == Hooks \cap Orders = {} /\ FaultBound \in Nat

\* What the server tells apart of MercadoPago's statuses: pending stands for
\* in_process and authorized, rejected for cancelled, refunded for charged_back.
MpStatuses == {"pending", "approved", "rejected", "refunded"}

VARIABLES
    mp,          \* MercadoPago's payment of each order, "none" before it exists
    linked,      \* orders whose row holds its mpPaymentId
    tok,         \* the tenant's credentials: "none", "fresh", "stale"
    call,        \* what each checkout request and each notification handler holds
    notes,       \* notifications sent, one per payment and state
    acked,       \* notifications answered with a 2xx
    events,      \* the MercadoPagoEvent table
    confirmed,   \* orders for which order/created reached Inngest
    unsent,      \* orders for which a failed inngest.send was swallowed
    dropped,     \* history: orders whose approval was taken for one recorded before
    faults

mpVars == <<mp, linked, tok, call, notes, acked, events, confirmed, unsent, dropped, faults>>
vars == <<bookVars, mpVars>>

\* A checkout request is named by its order.
Calls == Orders \cup Hooks
Notes == Orders \X MpStatuses
NoNote == <<>>

\* pc "stale": a token to be refreshed was read; "ready": a valid token is at
\* hand; "got": the payment's state (saw) is; "sending": the transaction is over,
\* and inngest.send is next.
InCall == [pc : {"stale", "ready", "got", "sending"}, order : Orders,
           note : Notes \cup {NoNote}, saw : MpStatuses \cup {"none"}]

\* Every variable holds a value of its type; only payments that exist are
\* linked, notified or recorded as events.
TypeOK ==
    /\ BookTypeOK
    /\ mp \in [Orders -> MpStatuses \cup {"none"}]
    /\ linked \subseteq {o \in Orders : mp[o] # "none"}
    /\ tok \in {"none", "fresh", "stale"}
    /\ call \in [Calls -> {Idle} \cup InCall]
    /\ notes \subseteq Notes
    /\ acked \subseteq notes
    /\ events \subseteq linked
    /\ confirmed \subseteq Orders
    /\ unsent \subseteq Orders
    /\ dropped \subseteq Orders
    /\ faults \in 0..FaultBound

Init ==
    /\ BookInit
    /\ mp = [o \in Orders |-> "none"]
    /\ linked = {}
    /\ tok = "none"
    /\ call = [c \in Calls |-> Idle]
    /\ notes = {}
    /\ acked = {}
    /\ events = {}
    /\ confirmed = {}
    /\ unsent = {}
    /\ dropped = {}
    /\ faults = 0

Fault == faults < FaultBound /\ faults' = faults + 1

-----------------------------------------------------------------------------
(***************************************************************************)
(* The tenant's credentials.                                               *)
(***************************************************************************)

\* The OAuth callback stores what MercadoPago hands out.
ExchangeCodeAndStore ==
    /\ tok = "none"
    /\ tok' = "fresh"
    /\ UNCHANGED bookVars
    /\ UNCHANGED <<mp, linked, call, notes, acked, events, confirmed, unsent, dropped, faults>>

Disconnect ==
    /\ tok # "none"
    /\ tok' = "none"
    /\ UNCHANGED bookVars
    /\ UNCHANGED <<mp, linked, call, notes, acked, events, confirmed, unsent, dropped, faults>>

\* Time passes: less than the margin is left of the token's life.
TokenExpires ==
    /\ tok = "fresh"
    /\ tok' = "stale"
    /\ UNCHANGED bookVars
    /\ UNCHANGED <<mp, linked, call, notes, acked, events, confirmed, unsent, dropped, faults>>

\* getFreshAccessToken: a token with time left is used as it was read, and one
\* about to expire is refreshed first.
AfterRead == IF tok = "fresh" THEN "ready" ELSE "stale"

\* The refresh, whose answer persistCreds stores whatever has become of the
\* connection since the read.
RefreshToken(c) ==
    /\ call[c].pc = "stale"
    /\ tok' = "fresh"
    /\ call' = [call EXCEPT ![c].pc = "ready"]
    /\ UNCHANGED bookVars
    /\ UNCHANGED <<mp, linked, notes, acked, events, confirmed, unsent, dropped, faults>>

-----------------------------------------------------------------------------
(***************************************************************************)
(* The checkout request.                                                   *)
(***************************************************************************)

OpenPhase(o, p) == phase' = [phase EXCEPT ![o] = p]

\* The store is not connected or the request has no card: the order stays.
PaymentRefused(o) ==
    /\ phase[o] = "placed"
    /\ call[o] = Idle
    /\ OpenPhase(o, "lost")
    /\ UNCHANGED <<basket, code, cart, status, payment, stock, redeemed, deskVars,
                   counted, taken>>
    /\ UNCHANGED mpVars

\* createPayment reads the order and the tenant's credentials.
StartPayment(o) ==
    /\ phase[o] = "placed"
    /\ call[o] = Idle
    /\ tok # "none"
    /\ call' = [call EXCEPT ![o] = [pc |-> AfterRead, order |-> o, note |-> NoNote,
                                  saw |-> "none"]]
    /\ UNCHANGED bookVars
    /\ UNCHANGED <<mp, linked, tok, notes, acked, events, confirmed, unsent, dropped, faults>>

\* payment.create; idempotencyKey is the order, so there is one payment.  The
\* reply may be lost with the request that waits for it.
CreatePayment(o) ==
    /\ call[o].pc = "ready"
    /\ \E s \in MpStatuses \ {"refunded"} :
          /\ mp' = [mp EXCEPT ![o] = s]
          /\ notes' = notes \cup {<<o, s>>}
          /\ \/ /\ call' = [call EXCEPT ![o].pc = "got", ![o].saw = s]
                /\ OpenPhase(o, "intent")
                /\ UNCHANGED faults
             \/ /\ Fault
                /\ call' = [call EXCEPT ![o] = Idle]
                /\ OpenPhase(o, "lost")
    /\ UNCHANGED <<basket, code, cart, status, payment, stock, redeemed, deskVars,
                   counted, taken>>
    /\ UNCHANGED <<linked, tok, acked, events, confirmed, unsent, dropped>>

\* A call to MercadoPago before that fails: an error for the customer.
CheckoutFails(o) ==
    /\ call[o].pc \in {"stale", "ready"}
    /\ Fault
    /\ call' = [call EXCEPT ![o] = Idle]
    /\ OpenPhase(o, "lost")
    /\ UNCHANGED <<basket, code, cart, status, payment, stock, redeemed, deskVars,
                   counted, taken>>
    /\ UNCHANGED <<mp, linked, tok, notes, acked, events, confirmed, unsent, dropped>>

-----------------------------------------------------------------------------
(***************************************************************************)
(* External: the payment goes on at MercadoPago.                           *)
(***************************************************************************)
Becomes(o, from, to) ==
    /\ mp[o] = from
    /\ mp' = [mp EXCEPT ![o] = to]
    /\ notes' = notes \cup {<<o, to>>}
    /\ UNCHANGED bookVars
    /\ UNCHANGED <<linked, tok, call, acked, events, confirmed, unsent, dropped, faults>>

PaymentMoves(o) ==
    \/ Becomes(o, "pending", "approved")
    \/ Becomes(o, "pending", "rejected")
    \/ Becomes(o, "approved", "refunded")

-----------------------------------------------------------------------------
(***************************************************************************)
(* The webhook.                                                            *)
(***************************************************************************)

\* No order has this payment id: a warning, and the answer is 200.
DropNote(n) ==
    /\ n \in notes \ acked
    /\ n[1] \notin linked
    /\ acked' = acked \cup {n}
    /\ UNCHANGED bookVars
    /\ UNCHANGED <<mp, linked, tok, call, notes, events, confirmed, unsent, dropped, faults>>

\* The order of the payment is read, with the tenant's credentials.  Without
\* credentials the answer is an error, and nothing has changed.
TakeNote(h, n) ==
    /\ call[h] = Idle
    /\ n \in notes
    /\ IF n \in acked THEN Fault ELSE UNCHANGED faults
    /\ n[1] \in linked
    /\ tok # "none"
    /\ call' = [call EXCEPT ![h] = [pc |-> AfterRead, order |-> n[1], note |-> n,
                                  saw |-> "none"]]
    /\ UNCHANGED bookVars
    /\ UNCHANGED <<mp, linked, tok, notes, acked, events, confirmed, unsent, dropped>>

\* payment.get: the state the payment has now.
GetPayment(h) ==
    /\ call[h].pc = "ready"
    /\ call' = [call EXCEPT ![h].pc = "got", ![h].saw = mp[call[h].order]]
    /\ UNCHANGED bookVars
    /\ UNCHANGED <<mp, linked, tok, notes, acked, events, confirmed, unsent, dropped, faults>>

\* Mutant: a notification whose handling failed is answered all the same.
AnsweredAnyway(n) == acked \cup {n}

\* An error is no answer MercadoPago is content with.
AnsweredOnError(n) == acked

\* An error before the state is applied: the notification is repeated.
HookFails(h) ==
    /\ call[h].pc \in {"stale", "ready", "got"}
    /\ Fault
    /\ call' = [call EXCEPT ![h] = Idle]
    /\ acked' = AnsweredOnError(call[h].note)
    /\ UNCHANGED bookVars
    /\ UNCHANGED <<mp, linked, tok, notes, events, confirmed, unsent, dropped>>

-----------------------------------------------------------------------------
(***************************************************************************)
(* applyPaymentStatus, for the request and for the handler.                *)
(***************************************************************************)

\* The caller is done: the customer or MercadoPago has its answer.
Done(c) ==
    /\ call' = [call EXCEPT ![c] = Idle]
    /\ acked' = acked \cup ({call[c].note} \ {NoNote})
    /\ IF c \in Orders THEN OpenPhase(c, "open") ELSE UNCHANGED phase

\* Mutant: MercadoPago's word goes into the column as it is.
AsIs(s) == s

\* The paymentStatus of the states that are not an approval.
PaymentFor(s) ==
    CASE s = "rejected" -> "FAILED"
      [] s = "refunded" -> "REFUNDED"
      [] OTHER          -> "PENDING"

\* Written over whatever the row holds, with the payment's id.
ApplyOther(c) ==
    LET o == call[c].order IN
    /\ call[c].pc = "got"
    /\ call[c].saw # "approved"
    /\ payment' = [payment EXCEPT ![o] = PaymentFor(call[c].saw)]
    /\ linked' = linked \cup {o}
    /\ Done(c)
    /\ UNCHANGED <<basket, code, cart, status, stock, redeemed, deskVars, counted, taken>>
    /\ UNCHANGED <<mp, tok, notes, events, confirmed, unsent, dropped, faults>>

\* Mutant: an approval is taken for a new one every time.
NeverRecorded(o) == FALSE

\* The insert into MercadoPagoEvent hits its primary key.
Recorded(o) == o \in events

\* Mutant: what the handler read is not looked at.
AnyState(s) == TRUE

Approved(s) == s = "approved"

\* The transaction of markOrderPaid: an approval recorded before leaves it at
\* once, without even the payment's id.
MarkOrderPaid(c) ==
    LET o == call[c].order IN
    /\ call[c].pc = "got"
    /\ Approved(call[c].saw)
    /\ events' = events \cup {o}
    /\ IF Recorded(o)
       THEN UNCHANGED <<payment, stock, redeemed, counted, taken, linked>>
       ELSE AccountPayment(o) /\ linked' = linked \cup {o}
    /\ call' = [call EXCEPT ![c].pc = "sending"]
    /\ UNCHANGED <<checkoutVars, status, deskVars>>
    /\ UNCHANGED <<mp, tok, notes, acked, confirmed, unsent, dropped, faults>>

\* The insert fails though the approval is new: a statement time-out, a deadlock, a
\* lock not granted.  The catch around it names no error, so the order is left as it
\* was, without the payment's id too, and the caller goes on to inngest.send.
PaymentDropped(c) ==
    LET o == call[c].order IN
    /\ call[c].pc = "got"
    /\ Approved(call[c].saw)
    /\ ~Recorded(o)
    /\ Fault
    /\ dropped' = dropped \cup {o}
    /\ call' = [call EXCEPT ![c].pc = "sending"]
    /\ UNCHANGED bookVars
    /\ UNCHANGED <<mp, linked, tok, notes, acked, events, confirmed, unsent>>

\* Mutant: order/created goes out before the transaction.
SendsAtOnce(c) == call[c].pc \in {"got", "sending"}

ReadyToSend(c) == call[c].pc = "sending"

\* inngest.send, whose error is swallowed, and the answer.
SendOrderCreated(c) ==
    LET o == call[c].order IN
    /\ ReadyToSend(c)
    /\ \/ confirmed' = confirmed \cup {o} /\ UNCHANGED unsent
       \/ unsent' = unsent \cup {o} /\ UNCHANGED confirmed
    /\ Done(c)
    /\ UNCHANGED <<basket, code, cart, status, payment, stock, redeemed, deskVars,
                   counted, taken>>
    /\ UNCHANGED <<mp, linked, tok, notes, events, dropped, faults>>

\* The server stops and starts again: requests and handlers in flight are gone.
Restart ==
    /\ Fault
    /\ call' = [c \in Calls |-> Idle]
    /\ LoseRequests
    /\ UNCHANGED <<mp, linked, tok, notes, acked, events, confirmed, unsent, dropped>>

-----------------------------------------------------------------------------
\* What a request or a handler does on its own, once it has started.
Proceed(c) ==
    \/ RefreshToken(c)
    \/ c \in Orders /\ CreatePayment(c)
    \/ c \in Hooks /\ GetPayment(c)
    \/ ApplyOther(c)
    \/ MarkOrderPaid(c)
    \/ SendOrderCreated(c)

Next ==
    \/ \E o \in Orders :
          \/ (Price(o) \/ CreateOrder(o)) /\ UNCHANGED mpVars
          \/ PaymentRefused(o) \/ StartPayment(o) \/ CheckoutFails(o)
          \/ PaymentMoves(o)
    \/ \E c \in Calls : Proceed(c) \/ PaymentDropped(c)
    \/ \E n \in Notes : DropNote(n) \/ \E h \in Hooks : TakeNote(h, n)
    \/ \E h \in Hooks : HookFails(h)
    \/ ExchangeCodeAndStore \/ Disconnect \/ TokenExpires
    \/ BackOffice /\ UNCHANGED mpVars
    \/ Restart

Spec == Init /\ [][Next]_vars

\* MercadoPago repeats a notification that was not answered, and a running
\* handler goes on.  Nothing is assumed of customers, admins or payments.
Fairness ==
    /\ \A n \in Notes : WF_vars(n \notin acked /\ (DropNote(n) \/ \E h \in Hooks : TakeNote(h, n)))
    /\ \A c \in Calls : WF_vars(Proceed(c))

FairSpec == Spec /\ Fairness

-----------------------------------------------------------------------------
\* An order is PAID only when its approval was accounted for, and an approval
\* is accounted for at most once: the checkout's own answer and any number of
\* notifications, in any order, share one MercadoPagoEvent row.  No payment set
\* by hand.
PaidIsAccountedOnce ==
    \A o \in Orders :
        /\ payment[o] = "PAID" => counted[o] = 1
        /\ counted[o] <= 1

\* order/created is only raised for an order whose payment is in the book, or of whose
\* approval the insert failed and was taken for an approval recorded before.
ConfirmationHasPayment ==
    confirmed \cup unsent \subseteq {o \in Orders : counted[o] > 0} \cup dropped

\* Safety of the payment promise: only payments MercadoPago approved are accounted
\* for, and only orders accounted for, or dropped by a failing insert, are announced.
Promise == INSTANCE PaymentPromise
                WITH charged <- {o \in Orders : mp[o] \in {"approved", "refunded"}},
                     announced <- confirmed \cup unsent,
                     dropped <- dropped

KeepsPromiseSafety == Promise!PromiseSafety

\* A payment that was pending when its order was linked is accounted for once it
\* is approved, whatever fails on the way, unless it is refunded first, the store is
\* disconnected, or the insert of the approval failed: that error alone is answered
\* with a 200, and MercadoPago does not come back.
LinkedPaymentIsReconciled ==
    \A o \in Orders :
        [](o \in linked /\ mp[o] = "pending" =>
             []((mp[o] = "approved") => <>(\/ counted[o] > 0
                                           \/ mp[o] = "refunded"
                                           \/ o \in dropped
                                           \/ tok = "none")))

\* "El pago ya quedo asociado a la orden en createPayment"
\* (mercadopago.service.ts): the order of a payment that is notified is found.
NotifiedPaymentIsLinked ==
    [][\A n \in acked' \ acked : n[1] \in linked]_vars
=============================================================================
