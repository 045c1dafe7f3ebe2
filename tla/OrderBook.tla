----------------------------- MODULE OrderBook -----------------------------
(***************************************************************************)
(* The order rows of one tenant, with the product stock and the discount   *)
(* counters that every payment provider and the back office write to.      *)
(* It holds the provider-independent half of the checkout                  *)
(* (orders/checkout.service.ts), the accounting both webhooks run when a   *)
(* payment succeeds, and the two admin handlers of                         *)
(* orders/admin-orders.service.ts.  StripeCheckout composes it with a      *)
(* payment provider.                                                       *)
(*                                                                         *)
(* A Prisma transaction is one step, taken where it commits.  Whatever a   *)
(* handler read before its transaction, or read inside it without a lock   *)
(* (PostgreSQL READ COMMITTED), was read in an earlier step.               *)
(***************************************************************************)
EXTENDS Integers, FiniteSets, FiniteSetsExt

CONSTANTS
    Orders,          \* checkout requests; each creates at most one order row
    Customers,
    Owner,           \* the customer behind each request
    Variants,
    Baskets,         \* the baskets a request may carry
    InitialStock,
    Codes,           \* discount codes, active and inside their window
    NoCode,
    MaxRedemptions,  \* DiscountCode.maxRedemptions, 0 when there is no cap
    OneUse,          \* the codes with oneUsePerCustomer
    Admins,          \* back-office requests that may be in flight at once
    ManualPayments,  \* payment statuses an admin sets by hand
    RequestBound     \* bound: updateStatus and update calls in a behaviour

Statuses == {"RECEIVED", "PREPARING", "SHIPPED", "DELIVERED", "CANCELLED"}
Payments == {"PENDING", "PAID", "FAILED", "REFUNDED"}
Phases   == {"new", "priced", "placed", "intent", "open", "lost"}

ASSUME OrderBookAssumption ==
    /\ IsFiniteSet(Orders)
    /\ Owner \in [Orders -> Customers]
    /\ Baskets \subseteq [Variants -> Nat \X Nat]
    /\ InitialStock \in [Variants -> Nat]
    /\ NoCode \notin Codes
    /\ MaxRedemptions \in [Codes -> Nat]
    /\ OneUse \subseteq Codes
    /\ ManualPayments \subseteq Payments
    /\ RequestBound \in Nat

VARIABLES
    phase,       \* how far the checkout request of an order has come
    basket,      \* per variant the quantities of its (at most two) lines
    code,        \* the order's discountCode
    status,      \* the order's fulfilment status, "NONE" before the row exists
    payment,     \* the order's paymentStatus
    cart,        \* the variants in each customer's persistent cart
    stock,
    redeemed,    \* DiscountCode.timesRedeemed
    desk,        \* what each admin request holds between two awaits
    requests,    \* admin requests made so far
    counted,     \* history: how often an order's payment was accounted for
    taken,       \* history: the units that accounting took out of stock
    restored     \* history: how often an order's units were put back

bookVars == <<phase, basket, code, status, payment, cart, stock, redeemed,
              desk, requests, counted, taken, restored>>
checkoutVars == <<phase, basket, code, cart>>
deskVars     == <<desk, requests, restored>>

EmptyBasket  == [v \in Variants |-> <<0, 0>>]
Units(b, v)  == b[v][1] + b[v][2]

\* The order row is in the database.
Placed(o) == status[o] # "NONE"

Idle     == [pc |-> "idle"]
Checked  == [pc : {"checked"}, order : Orders, seen : Statuses, target : Statuses]
Read     == [pc : {"read"}, order : Orders, seen : Statuses, paid : BOOLEAN]

BookTypeOK ==
    /\ phase \in [Orders -> Phases]
    /\ basket \in [Orders -> Baskets \cup {EmptyBasket}]
    /\ code \in [Orders -> Codes \cup {NoCode}]
    /\ status \in [Orders -> Statuses \cup {"NONE"}]
    /\ payment \in [Orders -> Payments \cup {"NONE"}]
    /\ cart \in [Customers -> SUBSET Variants]
    /\ stock \in [Variants -> Int]
    /\ redeemed \in [Codes -> Int]
    /\ desk \in [Admins -> {Idle} \cup Checked \cup Read]
    /\ requests \in 0..RequestBound
    /\ counted \in [Orders -> Nat]
    /\ taken \in [Orders -> [Variants -> Int]]
    /\ restored \in [Orders -> Nat]

BookInit ==
    /\ phase = [o \in Orders |-> "new"]
    /\ basket = [o \in Orders |-> EmptyBasket]
    /\ code = [o \in Orders |-> NoCode]
    /\ status = [o \in Orders |-> "NONE"]
    /\ payment = [o \in Orders |-> "NONE"]
    /\ cart = [c \in Customers |-> Variants]
    /\ stock = InitialStock
    /\ redeemed = [c \in Codes |-> 0]
    /\ desk = [a \in Admins |-> Idle]
    /\ requests = 0
    /\ counted = [o \in Orders |-> 0]
    /\ taken = [o \in Orders |-> [v \in Variants |-> 0]]
    /\ restored = [o \in Orders |-> 0]

-----------------------------------------------------------------------------
(***************************************************************************)
(* Checkout.  Two lines of one variant are two lines: each is compared     *)
(* with the stock on its own.                                              *)
(***************************************************************************)

\* hasStockIssues of the priced cart.
HasStockIssues(b) ==
    \E v \in Variants : \E i \in {1, 2} : stock[v] < b[v][i]

\* validateDiscount for a code inside its window.
ValidDiscount(c, customer) ==
    /\ MaxRedemptions[c] = 0 \/ redeemed[c] < MaxRedemptions[c]
    /\ c \in OneUse =>
          ~\E p \in Orders : /\ Owner[p] = customer
                             /\ code[p] = c
                             /\ payment[p] = "PAID"

\* The cart is priced and the request goes on with what it read.  A code that
\* is not valid is dropped and the purchase continues without it.
Price(o) ==
    /\ phase[o] = "new"
    /\ \E b \in Baskets :
          /\ ~HasStockIssues(b)
          /\ basket' = [basket EXCEPT ![o] = b]
    /\ \E c \in {NoCode} \cup {d \in Codes : ValidDiscount(d, Owner[o])} :
          code' = [code EXCEPT ![o] = c]
    /\ phase' = [phase EXCEPT ![o] = "priced"]
    /\ UNCHANGED <<status, payment, cart, stock, redeemed, deskVars, counted, taken>>

\* The transaction that empties the cart of what is bought and creates the row.
CreateOrder(o) ==
    /\ phase[o] = "priced"
    /\ cart' = [cart EXCEPT ![Owner[o]] =
                   {v \in @ : Units(basket[o], v) = 0}]
    /\ status' = [status EXCEPT ![o] = "RECEIVED"]
    /\ payment' = [payment EXCEPT ![o] = "PENDING"]
    /\ phase' = [phase EXCEPT ![o] = "placed"]
    /\ UNCHANGED <<basket, code, stock, redeemed, deskVars, counted, taken>>

-----------------------------------------------------------------------------
(***************************************************************************)
(* The accounting of a successful payment, the same in the two providers'  *)
(* transactions: PAID, stock, discount use.                                *)
(***************************************************************************)

\* UPDATE ... SET stock = stock - q WHERE stock > 0.
DeductLine(s, q) == IF s > 0 THEN s - q ELSE s
Deduct(s, lines) == DeductLine(DeductLine(s, lines[1]), lines[2])

AccountPayment(o) ==
    /\ payment' = [payment EXCEPT ![o] = "PAID"]
    /\ stock' = [v \in Variants |-> Deduct(stock[v], basket[o][v])]
    /\ redeemed' = [c \in Codes |-> IF c = code[o] THEN redeemed[c] + 1
                                                   ELSE redeemed[c]]
    /\ counted' = [counted EXCEPT ![o] = @ + 1]
    /\ taken' = [taken EXCEPT ![o] =
                    [v \in Variants |-> stock[v] - Deduct(stock[v], basket[o][v])]]

\* A rejected payment only marks the row.
RejectPayment(o) ==
    /\ payment' = [payment EXCEPT ![o] = "FAILED"]
    /\ UNCHANGED <<stock, redeemed, counted, taken>>

-----------------------------------------------------------------------------
(***************************************************************************)
(* Back office.  updateStatus reads the status (ensure), checks the        *)
(* transition, and writes later; a cancellation reads the row once more,   *)
(* for its payment, inside the transaction that puts stock and coupon back. *)
(***************************************************************************)

Allowed == [RECEIVED  |-> {"PREPARING", "CANCELLED"},
            PREPARING |-> {"SHIPPED", "CANCELLED"},
            SHIPPED   |-> {"DELIVERED", "CANCELLED"},
            DELIVERED |-> {},
            CANCELLED |-> {}]

\* Mutant: the transition check is missing.
AnyTransition(from, to) == TRUE

MayGo(from, to) == to = from \/ to \in Allowed[from]

\* ensure, and the check of the requested status against what it read.
CheckStatus(a, o, target) ==
    /\ desk[a] = Idle
    /\ requests < RequestBound
    /\ Placed(o)
    /\ MayGo(status[o], target)
    /\ desk' = [desk EXCEPT ![a] =
                   [pc |-> "checked", order |-> o, seen |-> status[o], target |-> target]]
    /\ requests' = requests + 1
    /\ UNCHANGED <<checkoutVars, status, payment, stock, redeemed, counted, taken, restored>>

\* Does the request take the branch that restores stock and coupon?
Cancels(d) == d.target = "CANCELLED" /\ d.seen # "CANCELLED"

\* Every other transition is one unconditional update.
WriteStatus(a) ==
    /\ desk[a].pc = "checked"
    /\ ~Cancels(desk[a])
    /\ status' = [status EXCEPT ![desk[a].order] = desk[a].target]
    /\ desk' = [desk EXCEPT ![a] = Idle]
    /\ UNCHANGED <<checkoutVars, payment, stock, redeemed, requests, counted, taken, restored>>

\* findUnique inside the cancelling transaction.
ReadForCancel(a) ==
    /\ desk[a].pc = "checked"
    /\ Cancels(desk[a])
    /\ desk' = [desk EXCEPT ![a] =
                   [pc |-> "read", order |-> desk[a].order, seen |-> desk[a].seen,
                    paid |-> payment[desk[a].order] = "PAID"]]
    /\ UNCHANGED <<checkoutVars, status, payment, stock, redeemed, requests, counted, taken, restored>>

\* Mutant: stock and coupon go back whatever the payment status was.
RestoresAlways(d) == TRUE

Restores(d) == d.paid

\* Mutant: the units of the second line of a variant are forgotten.
UnitsOfFirstLine(b, v) == b[v][1]

UnitsBack(b, v) == Units(b, v)

\* Mutant: the guard timesRedeemed > 0 is missing.
OneUseLessUnchecked(n) == n - 1

OneUseLess(n) == IF n > 0 THEN n - 1 ELSE n

\* The rest of the cancelling transaction, and its commit.
CommitCancel(a) ==
    LET o == desk[a].order IN
    /\ desk[a].pc = "read"
    /\ IF Restores(desk[a])
       THEN /\ stock' = [v \in Variants |-> stock[v] + UnitsBack(basket[o], v)]
            /\ redeemed' = [c \in Codes |-> IF c = code[o] THEN OneUseLess(redeemed[c])
                                                           ELSE redeemed[c]]
            /\ restored' = [restored EXCEPT ![o] = @ + 1]
       ELSE UNCHANGED <<stock, redeemed, restored>>
    /\ status' = [status EXCEPT ![o] = "CANCELLED"]
    /\ desk' = [desk EXCEPT ![a] = Idle]
    /\ UNCHANGED <<checkoutVars, payment, requests, counted, taken>>

\* PATCH of the order's paymentStatus: no effect on stock or coupon.
UpdatePayment(o, p) ==
    /\ requests < RequestBound
    /\ Placed(o)
    /\ payment' = [payment EXCEPT ![o] = p]
    /\ requests' = requests + 1
    /\ UNCHANGED <<checkoutVars, status, stock, redeemed, desk, counted, taken, restored>>

BackOffice ==
    \/ \E a \in Admins :
          \/ \E o \in Orders, t \in Statuses : CheckStatus(a, o, t)
          \/ WriteStatus(a)
          \/ ReadForCancel(a)
          \/ CommitCancel(a)
    \/ \E o \in Orders, p \in ManualPayments : UpdatePayment(o, p)

\* A restart of the server forgets every request in flight: what committed stays.
LoseRequests ==
    /\ phase' = [o \in Orders |-> IF phase[o] \in {"priced", "placed", "intent"}
                                  THEN "lost" ELSE phase[o]]
    /\ desk' = [a \in Admins |-> Idle]
    /\ UNCHANGED <<basket, code, status, payment, cart, stock, redeemed, requests,
                   counted, taken, restored>>

-----------------------------------------------------------------------------
(***************************************************************************)
(* What the book promises.                                                 *)
(***************************************************************************)

\* Every change of a fulfilment status is one of ALLOWED_TRANSITIONS
\* (admin-orders.service.ts), although the check and the write are separate
\* steps with webhooks and restarts in between.  One admin request at a time.
StatusFollowsTransitions ==
    [][\A o \in Orders :
          status[o] \in Statuses /\ status'[o] # status[o] =>
             status'[o] \in Allowed[status[o]]]_bookVars

\* A cancellation puts an order's units and coupon use back at most once, and
\* only for an order whose payment was accounted for (the branch of updateStatus
\* for an order already paid).  One admin request at a time, no manual payments.
RestoredOnceAfterPayment ==
    \A o \in Orders : restored[o] <= counted[o] /\ restored[o] <= 1

\* timesRedeemed is the number of paid orders with the code less those that were
\* cancelled after payment, whatever webhooks are repeated, late or cut short
\* by a restart.  One admin request at a time, no manual payments.
RedemptionLedger ==
    \A c \in Codes :
        redeemed[c] = Cardinality({o \in Orders : code[o] = c /\ counted[o] > 0})
                      - Cardinality({o \in Orders : code[o] = c /\ restored[o] > 0})

\* A coupon counter never runs negative or ahead of the orders that paid with
\* the code, even with concurrent cancellations and payments set by hand.
RedemptionsBacked ==
    \A c \in Codes :
        redeemed[c] \in 0..Cardinality({o \in Orders : code[o] = c /\ counted[o] > 0})

\* The sum of h over the orders.
Total(h) == MapThenSumSet(LAMBDA o : h[o], Orders)

\* The stock of a variant is its initial stock, less what the one accounting of
\* each paid order took, plus the units of each restitution.
StockLedger ==
    \A v \in Variants :
        stock[v] = InitialStock[v]
                   - Total([o \in Orders |-> taken[o][v]])
                   + Total([o \in Orders |-> restored[o] * Units(basket[o], v)])

\* "Decrementar stock sin ir a negativo" (stripe.service.ts): the accounting of
\* a payment never leaves a variant with negative stock.
StockNeverNegative == \A v \in Variants : stock[v] >= 0
=============================================================================
