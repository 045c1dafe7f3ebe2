------------------------ MODULE StripeCheckoutProofs ------------------------
(***************************************************************************)
(* Theorems about StripeCheckout for every value of its constants.         *)
(***************************************************************************)
EXTENDS StripeCheckout, OrderBookProofs

-----------------------------------------------------------------------------
(***************************************************************************)
(* Types.  One lemma per group of actions.                                 *)
(***************************************************************************)

LEMMA InitType == Init => TypeOK
<1> SUFFICES ASSUME Init PROVE TypeOK
  OBVIOUS
<1>1. BookTypeOK
  BY BookInitType DEF Init
<1> QED
  BY <1>1, StripeAssumption DEF Init, TypeOK

LEMMA CheckoutType ==
    ASSUME TypeOK, NEW o \in Orders, Checkout(o), UNCHANGED stripeVars
    PROVE  TypeOK'
BY CheckoutBookType DEF Checkout, TypeOK, stripeVars

LEMMA ProviderType ==
    ASSUME TypeOK, NEW o \in Orders,
           \/ CreatePaymentIntent(o)
           \/ AnswerCheckout(o)
           \/ AttemptFails(o)
           \/ AttemptSucceeds(o)
    PROVE  TypeOK'
<1> USE DEF TypeOK
<1>1. CASE CreatePaymentIntent(o)
  BY <1>1 DEF CreatePaymentIntent, BookTypeOK, deskVars, Phases
<1>2. CASE AnswerCheckout(o)
  BY <1>2 DEF AnswerCheckout, BookTypeOK, deskVars, stripeVars, Phases
<1>3. CASE AttemptFails(o)
  <2>1. BookTypeOK'
    BY <1>3 DEF AttemptFails, BookTypeOK, bookVars
  <2>2. attempts[o] + 1 \in 1..FailureBound
    BY <1>3, StripeAssumption DEF AttemptFails
  <2>3. Failed(o, attempts[o] + 1) \in Events
    BY <2>2 DEF Events, Failures
  <2> QED
    BY <1>3, <2>1, <2>2, <2>3, StripeAssumption DEF AttemptFails
<1>4. CASE AttemptSucceeds(o)
  <2>1. BookTypeOK'
    BY <1>4 DEF AttemptSucceeds, BookTypeOK, bookVars
  <2>2. Succeeded(o) \in Events
    BY DEF Events, Successes
  <2> QED
    BY <1>4, <2>1, <2>2 DEF AttemptSucceeds
<1> QED
  BY <1>1, <1>2, <1>3, <1>4

LEMMA WebhookType ==
    ASSUME TypeOK, NEW o \in Orders,
           \/ OnPaymentSucceeded(o)
           \/ SendOrderCreated(o)
           \/ PaymentDropped(o)
           \/ \E n \in 1..FailureBound : OnPaymentFailed(o, n) \/ FailureDropped(o, n)
    PROVE  TypeOK'
<1>1. CASE OnPaymentSucceeded(o)
  <2>1. /\ payment' \in [Orders -> Payments \cup {"NONE"}]
        /\ stock' \in [Variants -> Int]
        /\ redeemed' \in [Codes -> Int]
        /\ counted' \in [Orders -> Nat]
        /\ taken' \in [Orders -> [Variants -> Int]]
    BY <1>1, AccountType DEF OnPaymentSucceeded, TypeOK, BookTypeOK
  <2>2. BookTypeOK'
    BY <1>1, <2>1
       DEF OnPaymentSucceeded, TypeOK, BookTypeOK, checkoutVars, deskVars
  <2>3. Succeeded(o) \in emitted \cap Successes
    BY <1>1 DEF OnPaymentSucceeded, Delivered, Successes
  <2> QED
    BY <1>1, <2>2, <2>3 DEF OnPaymentSucceeded, AnsweredAtCommit, TypeOK
<1>2. CASE SendOrderCreated(o)
  <2>1. BookTypeOK'
    BY <1>2 DEF SendOrderCreated, TypeOK, BookTypeOK, bookVars
  <2> QED
    BY <1>2, <2>1 DEF SendOrderCreated, ReadyToSend, TypeOK
<1>3. ASSUME NEW n \in 1..FailureBound, OnPaymentFailed(o, n)
      PROVE  TypeOK'
  <2>1. payment' \in [Orders -> Payments \cup {"NONE"}]
    BY <1>3 DEF OnPaymentFailed, RejectPayment, TypeOK, BookTypeOK, Payments
  <2>2. UNCHANGED <<stock, redeemed, counted, taken>>
    BY <1>3 DEF OnPaymentFailed, RejectPayment
  <2>3. BookTypeOK'
    BY <1>3, <2>1, <2>2 DEF OnPaymentFailed, TypeOK, BookTypeOK, checkoutVars, deskVars
  <2> QED
    BY <1>3, <2>3 DEF OnPaymentFailed, Delivered, TypeOK
<1>4. CASE PaymentDropped(o)
  <2>1. BookTypeOK'
    BY <1>4 DEF PaymentDropped, TypeOK, BookTypeOK, bookVars
  <2>2. Succeeded(o) \in emitted \cap Successes
    BY <1>4 DEF PaymentDropped, Delivered, Successes
  <2> QED
    BY <1>4, <2>1, <2>2 DEF PaymentDropped, TypeOK
<1>5. ASSUME NEW n \in 1..FailureBound, FailureDropped(o, n)
      PROVE  TypeOK'
  <2>1. BookTypeOK'
    BY <1>5 DEF FailureDropped, TypeOK, BookTypeOK, bookVars
  <2> QED
    BY <1>5, <2>1 DEF FailureDropped, Delivered, TypeOK
<1> QED
  BY <1>1, <1>2, <1>3, <1>4, <1>5

LEMMA BackOfficeType ==
    ASSUME TypeOK, BackOffice, UNCHANGED stripeVars
    PROVE  TypeOK'
BY BackOfficeBookType DEF TypeOK, stripeVars

LEMMA RestartType ==
    ASSUME TypeOK, Restart
    PROVE  TypeOK'
BY RequestsLostType, StripeAssumption DEF Restart, TypeOK

LEMMA StutterType ==
    ASSUME TypeOK, UNCHANGED vars
    PROVE  TypeOK'
<1>1. BookTypeOK'
  BY DEF vars, bookVars, TypeOK, BookTypeOK
<1> QED
  BY <1>1 DEF vars, stripeVars, TypeOK

\* In every behaviour every variable of the order book and of the Stripe half
\* holds a value of its type.
THEOREM TypeCorrect == Spec => []TypeOK
<1>1. Init => TypeOK
  BY InitType
<1>2. TypeOK /\ [Next]_vars => TypeOK'
  BY CheckoutType, ProviderType, WebhookType, BackOfficeType, RestartType, StutterType
     DEF Next
<1> QED
  BY <1>1, <1>2, PTL DEF Spec

-----------------------------------------------------------------------------
(***************************************************************************)
(* Accounting.  An event is only ever emitted for a paid intent, an intent *)
(* is only paid once the checkout answered, and an order was accounted for *)
(* once or never, according to the StripeEvent table.  A delivery on its    *)
(* way to inngest.send passed that table, or met a failing insert.          *)
(***************************************************************************)

Progress ==
    /\ \A o \in Orders :
          /\ phase[o] \in {"new", "priced"} => ~Placed(o)
          /\ phase[o] \in {"placed", "intent", "open"} => Placed(o)
          /\ intent[o] = "paid" => phase[o] = "open"
          /\ Succeeded(o) \in emitted => intent[o] = "paid"
    /\ \A a \in Admins : desk[a].pc # "idle" => Placed(desk[a].order)

Counting ==
    /\ \A o \in Orders : Succeeded(o) \in sending =>
                          Succeeded(o) \in processed \/ o \in dropped
    /\ \A o \in Orders : counted[o] = IF Succeeded(o) \in processed THEN 1 ELSE 0

AccountingInv == TypeOK /\ Progress /\ Counting /\ ConfirmationHasPayment

\* Different orders have different events, and no success is a failure.
LEMMA DistinctEvents ==
    ASSUME NEW o \in Orders, NEW p \in Orders, NEW n
    PROVE  /\ Succeeded(o) = Succeeded(p) => o = p
           /\ Succeeded(o) # Failed(p, n)
<1>1. Succeeded(o).order = o /\ Succeeded(p).order = p
  BY DEF Succeeded
<1>2. Succeeded(o).type = "succeeded" /\ Failed(p, n).type = "failed"
  BY DEF Succeeded, Failed
<1> QED
  BY <1>1, <1>2

LEMMA ProgressNext ==
    ASSUME TypeOK, Progress, [Next]_vars
    PROVE  Progress'
<1> USE DEF Progress, Placed
<1>1. ASSUME NEW o \in Orders, Price(o), UNCHANGED stripeVars
      PROVE  Progress'
  BY <1>1 DEF Price, stripeVars, deskVars, TypeOK, BookTypeOK
<1>2. ASSUME NEW o \in Orders, CreateOrder(o), UNCHANGED stripeVars
      PROVE  Progress'
  <2>1. \A a \in Admins : desk[a].pc # "idle" => desk[a].order \in Orders
    BY DEF TypeOK, BookTypeOK, Idle, Checked, Read
  <2> QED
    BY <1>2, <2>1 DEF CreateOrder, stripeVars, deskVars, TypeOK, BookTypeOK
<1>3. ASSUME NEW o \in Orders, CreatePaymentIntent(o)
      PROVE  Progress'
  BY <1>3 DEF CreatePaymentIntent, deskVars, TypeOK, BookTypeOK
<1>4. ASSUME NEW o \in Orders, AnswerCheckout(o)
      PROVE  Progress'
  BY <1>4 DEF AnswerCheckout, stripeVars, deskVars, TypeOK, BookTypeOK
<1>5. ASSUME NEW o \in Orders, AttemptFails(o)
      PROVE  Progress'
  BY <1>5, DistinctEvents DEF AttemptFails, bookVars, TypeOK, BookTypeOK
<1>6. ASSUME NEW o \in Orders, AttemptSucceeds(o)
      PROVE  Progress'
  BY <1>6, DistinctEvents DEF AttemptSucceeds, bookVars, TypeOK, BookTypeOK
<1>7. ASSUME NEW o \in Orders,
             OnPaymentSucceeded(o) \/ \E n \in 1..FailureBound : OnPaymentFailed(o, n)
      PROVE  Progress'
  BY <1>7 DEF OnPaymentSucceeded, OnPaymentFailed, checkoutVars, deskVars
<1>8. ASSUME NEW o \in Orders,
             \/ SendOrderCreated(o)
             \/ PaymentDropped(o)
             \/ \E n \in 1..FailureBound : FailureDropped(o, n)
      PROVE  Progress'
  BY <1>8 DEF SendOrderCreated, PaymentDropped, FailureDropped, bookVars
<1>9. ASSUME BackOffice, UNCHANGED stripeVars
      PROVE  Progress'
  BY <1>9, BackOfficeRows DEF checkoutVars, stripeVars, TypeOK
<1>10. CASE Restart
  BY <1>10 DEF Restart, LoseRequests, Idle, TypeOK, BookTypeOK
<1>11. CASE UNCHANGED vars
  BY <1>11 DEF vars, bookVars, stripeVars
<1> QED
  BY <1>1, <1>2, <1>3, <1>4, <1>5, <1>6, <1>7, <1>8, <1>9, <1>10, <1>11 DEF Next, Checkout

\* Only onPaymentSucceeded moves the accounting: every other step keeps the
\* counters, the StripeEvent rows of successes, and what a send rests on.
LEMMA CountingNext ==
    ASSUME TypeOK, Counting, ConfirmationHasPayment, [Next]_vars
    PROVE  Counting' /\ ConfirmationHasPayment'
<1> USE DEF Counting, ConfirmationHasPayment
<1>1. ASSUME UNCHANGED <<counted, processed, sending, confirmed, unsent, dropped>>
      PROVE  Counting' /\ ConfirmationHasPayment'
  BY <1>1
<1>2. ASSUME NEW o \in Orders, Checkout(o), UNCHANGED stripeVars
      PROVE  Counting' /\ ConfirmationHasPayment'
  BY <1>1, <1>2 DEF Checkout, Price, CreateOrder, stripeVars
<1>3. ASSUME NEW o \in Orders,
             \/ CreatePaymentIntent(o)
             \/ AnswerCheckout(o)
             \/ AttemptFails(o)
             \/ AttemptSucceeds(o)
      PROVE  Counting' /\ ConfirmationHasPayment'
  BY <1>1, <1>3 DEF CreatePaymentIntent, AnswerCheckout, AttemptFails, AttemptSucceeds,
                    stripeVars, bookVars
<1>4. ASSUME NEW o \in Orders, OnPaymentSucceeded(o)
      PROVE  Counting' /\ ConfirmationHasPayment'
  <2>1. /\ processed' = processed \cup {Succeeded(o)}
        /\ sending' = sending \cup {Succeeded(o)}
        /\ UNCHANGED <<confirmed, unsent, dropped>>
    BY <1>4 DEF OnPaymentSucceeded
  <2>2. CASE Succeeded(o) \in processed
    BY <1>4, <2>1, <2>2 DEF OnPaymentSucceeded, Recorded
  <2>3. CASE Succeeded(o) \notin processed
    <3>1. counted' = [counted EXCEPT ![o] = @ + 1]
      BY <1>4, <2>3 DEF OnPaymentSucceeded, Recorded, AccountPayment
    <3>2. counted \in [Orders -> Nat] /\ counted[o] = 0
      BY <2>3 DEF TypeOK, BookTypeOK
    <3>3. \A p \in Orders : p # o => (Succeeded(p) \in processed' <=> Succeeded(p) \in processed)
      BY <2>1, DistinctEvents
    <3>4. \A p \in Orders : counted'[p] = IF Succeeded(p) \in processed' THEN 1 ELSE 0
      BY <2>1, <3>1, <3>2, <3>3
    <3>5. confirmed' \cup unsent' \subseteq {p \in Orders : counted'[p] > 0} \cup dropped'
      BY <2>1, <3>1, <3>2
    <3>6. \A p \in Orders : Succeeded(p) \in sending' =>
                             Succeeded(p) \in processed' \/ p \in dropped'
      BY <2>1
    <3> QED
      BY <3>4, <3>5, <3>6
  <2> QED
    BY <2>2, <2>3
<1>5. ASSUME NEW o \in Orders, SendOrderCreated(o)
      PROVE  Counting' /\ ConfirmationHasPayment'
  <2>1. counted[o] = 1 \/ o \in dropped
    BY <1>5 DEF SendOrderCreated, ReadyToSend
  <2> QED
    BY <1>5, <2>1 DEF SendOrderCreated, bookVars
<1>6. ASSUME NEW o \in Orders, NEW n \in 1..FailureBound, OnPaymentFailed(o, n)
      PROVE  Counting' /\ ConfirmationHasPayment'
  <2>1. \A p \in Orders : Succeeded(p) \in processed' <=> Succeeded(p) \in processed
    BY <1>6, DistinctEvents DEF OnPaymentFailed
  <2>2. UNCHANGED <<counted, sending, confirmed, unsent, dropped>>
    BY <1>6 DEF OnPaymentFailed, RejectPayment
  <2> QED
    BY <2>1, <2>2
<1>7. ASSUME BackOffice, UNCHANGED stripeVars
      PROVE  Counting' /\ ConfirmationHasPayment'
  BY <1>1, <1>7 DEF BackOffice, CheckStatus, WriteStatus, ReadForCancel, CommitCancel,
                    UpdatePayment, stripeVars
<1>8. CASE Restart
  BY <1>8 DEF Restart, LoseRequests
<1>9. CASE UNCHANGED vars
  BY <1>1, <1>9 DEF vars, bookVars, stripeVars
<1>10. ASSUME NEW o \in Orders, PaymentDropped(o)
      PROVE  Counting' /\ ConfirmationHasPayment'
  <2>1. /\ sending' = sending \cup {Succeeded(o)}
        /\ dropped' = dropped \cup {o}
        /\ UNCHANGED <<counted, processed, confirmed, unsent>>
    BY <1>10 DEF PaymentDropped, bookVars
  <2>2. \A p \in Orders : Succeeded(p) = Succeeded(o) => p = o
    BY DistinctEvents
  <2> QED
    BY <2>1, <2>2
<1>11. ASSUME NEW o \in Orders, NEW n \in 1..FailureBound, FailureDropped(o, n)
      PROVE  Counting' /\ ConfirmationHasPayment'
  BY <1>1, <1>11 DEF FailureDropped, bookVars
<1> QED
  BY <1>2, <1>3, <1>4, <1>5, <1>6, <1>7, <1>8, <1>9, <1>10, <1>11 DEF Next

\* The accounting invariant holds throughout every behaviour of the checkout with the
\* book (create, the webhook and the back office of the orders service).
THEOREM AccountingInvariant == Spec => []AccountingInv
<1>1. Init => AccountingInv
  <2> SUFFICES ASSUME Init PROVE Progress /\ Counting /\ ConfirmationHasPayment
    BY InitType DEF AccountingInv
  <2> QED
    BY DEF Init, BookInit, Progress, Counting, ConfirmationHasPayment, Placed, Idle
<1>2. AccountingInv /\ [Next]_vars => AccountingInv'
  <2> SUFFICES ASSUME AccountingInv, [Next]_vars PROVE AccountingInv'
    OBVIOUS
  <2>1. TypeOK'
    BY CheckoutType, ProviderType, WebhookType, BackOfficeType, RestartType, StutterType
       DEF Next, AccountingInv
  <2> QED
    BY <2>1, ProgressNext, CountingNext DEF AccountingInv
<1> QED
  BY <1>1, <1>2, PTL DEF Spec

\* order/created is only raised for an order whose payment is in the book, or of
\* whose paid event the insert failed and was taken for a repeated event; whatever is
\* repeated, reordered or cut short by a restart, for any number of orders, admins,
\* restarts and failing inserts.
THEOREM ConfirmationsHavePayment == Spec => []ConfirmationHasPayment
<1>1. AccountingInv => ConfirmationHasPayment
  BY DEF AccountingInv
<1> QED
  BY <1>1, AccountingInvariant, PTL

-----------------------------------------------------------------------------
(***************************************************************************)
(* The safety half of the payment promise: a step of StripeCheckout is a   *)
(* charge, an accounting, a drop or an announcement of one order, or       *)
(* invisible.                                                              *)
(***************************************************************************)

LEMMA PromiseStep ==
    ASSUME AccountingInv, [Next]_vars
    PROVE  [Promise!PromiseNext]_(Promise!promiseVars)
<1> DEFINE Paid == {o \in Orders : intent[o] = "paid"}
           Announced == confirmed \cup unsent
<1> USE DEF Promise!PromiseNext, Promise!promiseVars
<1>1. ASSUME UNCHANGED <<intent, counted, confirmed, unsent, dropped>>
      PROVE  UNCHANGED Promise!promiseVars
  BY <1>1
<1>2. ASSUME NEW o \in Orders, Checkout(o), UNCHANGED stripeVars
      PROVE  UNCHANGED Promise!promiseVars
  BY <1>1, <1>2 DEF Checkout, Price, CreateOrder, stripeVars
<1>3. ASSUME NEW o \in Orders, CreatePaymentIntent(o)
      PROVE  UNCHANGED Promise!promiseVars
  <2>1. intent[o] # "paid"
    BY <1>3 DEF CreatePaymentIntent, AccountingInv, Progress
  <2>2. Paid' = Paid
    BY <1>3, <2>1 DEF CreatePaymentIntent, AccountingInv, TypeOK
  <2> QED
    BY <1>3, <2>2 DEF CreatePaymentIntent
<1>4. ASSUME NEW o \in Orders, AnswerCheckout(o) \/ AttemptFails(o)
      PROVE  UNCHANGED Promise!promiseVars
  BY <1>1, <1>4 DEF AnswerCheckout, AttemptFails, stripeVars, bookVars
<1>5. ASSUME NEW o \in Orders, AttemptSucceeds(o)
      PROVE  Promise!PromiseNext
  <2>1. Paid' = Paid \cup {o}
    BY <1>5 DEF AttemptSucceeds, AccountingInv, TypeOK
  <2>2. UNCHANGED <<counted, Announced, dropped>>
    BY <1>5 DEF AttemptSucceeds, bookVars
  <2> QED
    BY <2>1, <2>2 DEF Promise!Charge
<1>6. ASSUME NEW o \in Orders, OnPaymentSucceeded(o)
      PROVE  [Promise!PromiseNext]_(Promise!promiseVars)
  <2>1. UNCHANGED <<Paid, Announced, dropped>>
    BY <1>6 DEF OnPaymentSucceeded
  <2>2. CASE Succeeded(o) \in processed
    BY <1>6, <2>1, <2>2 DEF OnPaymentSucceeded, Recorded
  <2>3. CASE Succeeded(o) \notin processed
    <3>1. counted[o] = 0 /\ o \in Paid
      BY <1>6, <2>3 DEF OnPaymentSucceeded, Delivered, AccountingInv, Counting, Progress
    <3>2. counted' = [counted EXCEPT ![o] = 1]
      BY <1>6, <2>3, <3>1 DEF OnPaymentSucceeded, Recorded, AccountPayment
    <3>3. Promise!Account(o)
      BY <2>1, <3>1, <3>2 DEF Promise!Account
    <3> QED
      BY <3>3
  <2> QED
    BY <2>2, <2>3
<1>7. ASSUME NEW o \in Orders, SendOrderCreated(o)
      PROVE  Promise!PromiseNext
  <2>1. counted[o] = 1 \/ o \in dropped
    BY <1>7 DEF SendOrderCreated, ReadyToSend, AccountingInv, Counting
  <2>2. Announced' = Announced \cup {o}
    BY <1>7 DEF SendOrderCreated
  <2>3. UNCHANGED <<Paid, counted, dropped>>
    BY <1>7 DEF SendOrderCreated, bookVars
  <2> QED
    BY <2>1, <2>2, <2>3 DEF Promise!Confirm
<1>8. ASSUME NEW o \in Orders, NEW n \in 1..FailureBound, OnPaymentFailed(o, n)
      PROVE  UNCHANGED Promise!promiseVars
  BY <1>1, <1>8 DEF OnPaymentFailed, RejectPayment
<1>9. ASSUME BackOffice, UNCHANGED stripeVars
      PROVE  UNCHANGED Promise!promiseVars
  BY <1>1, <1>9 DEF BackOffice, CheckStatus, WriteStatus, ReadForCancel, CommitCancel,
                    UpdatePayment, stripeVars
<1>10. CASE Restart
  BY <1>1, <1>10 DEF Restart, LoseRequests
<1>11. CASE UNCHANGED vars
  BY <1>1, <1>11 DEF vars, bookVars, stripeVars
<1>12. ASSUME NEW o \in Orders, PaymentDropped(o)
       PROVE  Promise!PromiseNext
  <2>1. counted[o] = 0 /\ o \in Paid
    BY <1>12 DEF PaymentDropped, Delivered, Recorded, AccountingInv, Counting, Progress
  <2>2. dropped' = dropped \cup {o} /\ UNCHANGED <<Paid, counted, Announced>>
    BY <1>12 DEF PaymentDropped, bookVars
  <2> QED
    BY <2>1, <2>2 DEF Promise!Drop
<1>13. ASSUME NEW o \in Orders, NEW n \in 1..FailureBound, FailureDropped(o, n)
       PROVE  UNCHANGED Promise!promiseVars
  BY <1>1, <1>13 DEF FailureDropped, bookVars
<1> QED
  BY <1>2, <1>3, <1>4, <1>5, <1>6, <1>7, <1>8, <1>9, <1>10, <1>11, <1>12, <1>13 DEF Next

\* The checkout and the webhook keep the safety half of the payment promise:
\* an order is accounted for at most once and only after its customer was charged,
\* and announced only when it was accounted for or its paid event was dropped, which
\* only befalls a charged order not accounted for.  (TLC checks the liveness half.)
THEOREM ImplementsPromiseSafety == Spec => Promise!PromiseSafety
<1>1. Init => Promise!PromiseInit
  BY DEF Init, BookInit, Promise!PromiseInit
<1>2. AccountingInv /\ [Next]_vars => [Promise!PromiseNext]_(Promise!promiseVars)
  BY PromiseStep
<1> QED
  BY <1>1, <1>2, AccountingInvariant, PTL DEF Spec, Promise!PromiseSafety

-----------------------------------------------------------------------------
(***************************************************************************)
(* The back office, one request at a time and nobody setting a payment by  *)
(* hand.  With two requests at a time none of this holds: their reads are   *)
(* not in the transactions that write.                                      *)
(***************************************************************************)

\* One back-office request at a time, and payments only through the provider.
SerialBackOffice ==
    /\ \A a, b \in Admins : a = b
    /\ ManualPayments = {}

\* The request in flight still knows the order's status, and an order it read
\* as paid was accounted for.
DeskFresh ==
    \A a \in Admins :
        /\ desk[a].pc # "idle" => status[desk[a].order] = desk[a].seen
        /\ desk[a].pc = "checked" => MayGo(desk[a].seen, desk[a].target)
        /\ desk[a].pc = "read" =>
              /\ "CANCELLED" \in Allowed[desk[a].seen]
              /\ desk[a].paid => counted[desk[a].order] = 1

\* A row marked PAID was accounted for; a restored order was, and is cancelled.
BookSettled ==
    \A o \in Orders :
        /\ payment[o] = "PAID" => counted[o] = 1
        /\ restored[o] \in {0, 1}
        /\ restored[o] = 1 => counted[o] = 1 /\ status[o] = "CANCELLED"

SerialInv == AccountingInv /\ DeskFresh /\ BookSettled

\* No transition leaves a terminal status, and none enters RECEIVED.
LEMMA AllowedFacts ==
    ASSUME NEW s \in Statuses
    PROVE  /\ Allowed[s] \subseteq Statuses
           /\ "CANCELLED" \in Allowed[s] => s # "CANCELLED"
BY DEF Allowed, Statuses

LEMMA SerialInit == Init => SerialInv
<1> SUFFICES ASSUME Init PROVE SerialInv
  OBVIOUS
<1>1. AccountingInv
  <2>1. Progress /\ Counting /\ ConfirmationHasPayment
    BY DEF Init, BookInit, Progress, Counting, ConfirmationHasPayment, Placed, Idle
  <2> QED
    BY <2>1, InitType DEF AccountingInv
<1>2. DeskFresh /\ BookSettled
  BY DEF Init, BookInit, DeskFresh, BookSettled, Idle
<1> QED
  BY <1>1, <1>2 DEF SerialInv

\* Requests in flight name rows, so creating a row disturbs none of them.
LEMMA DeskType ==
    ASSUME TypeOK, NEW a \in Admins, desk[a].pc # "idle"
    PROVE  /\ desk[a].order \in Orders
           /\ desk[a].seen \in Statuses
           /\ desk[a].pc = "checked" => desk[a] \in Checked
           /\ desk[a].pc = "read" => desk[a] \in Read
<1>1. desk[a] \in Checked \cup Read
  BY DEF TypeOK, BookTypeOK, Idle
<1> QED
  BY <1>1 DEF Checked, Read

LEMMA BackOfficeSerial ==
    ASSUME SerialBackOffice, SerialInv, BackOffice, UNCHANGED stripeVars
    PROVE  /\ DeskFresh' /\ BookSettled'
           /\ \A o \in Orders :
                 status[o] \in Statuses /\ status'[o] # status[o] =>
                    status'[o] \in Allowed[status[o]]
<1> USE DEF SerialInv
<1> DEFINE Goal == /\ DeskFresh' /\ BookSettled'
                   /\ \A o \in Orders :
                         status[o] \in Statuses /\ status'[o] # status[o] =>
                            status'[o] \in Allowed[status[o]]
<1>t. TypeOK
  BY DEF AccountingInv
<1>1. ASSUME NEW a \in Admins, NEW o \in Orders, NEW t \in Statuses, CheckStatus(a, o, t)
      PROVE  Goal
  <2>1. desk' = [desk EXCEPT ![a] =
                    [pc |-> "checked", order |-> o, seen |-> status[o], target |-> t]]
    BY <1>1 DEF CheckStatus
  <2>2. UNCHANGED <<status, payment, counted, restored>> /\ MayGo(status[o], t)
    BY <1>1 DEF CheckStatus
  <2>3. DeskFresh'
    BY <1>t, <2>1, <2>2 DEF DeskFresh, TypeOK, BookTypeOK, MayGo
  <2> QED
    BY <2>2, <2>3 DEF BookSettled
<1>2. ASSUME NEW a \in Admins, WriteStatus(a)
      PROVE  Goal
  <2> DEFINE o == desk[a].order
             t == desk[a].target
  <2>1. /\ desk[a] \in Checked /\ o \in Orders /\ t \in Statuses
        /\ status[o] = desk[a].seen /\ MayGo(status[o], t) /\ ~Cancels(desk[a])
    BY <1>2, <1>t, DeskType DEF WriteStatus, DeskFresh, Checked
  <2>2. /\ status' = [status EXCEPT ![o] = t]
        /\ desk' = [desk EXCEPT ![a] = Idle]
        /\ UNCHANGED <<payment, counted, restored>>
    BY <1>2 DEF WriteStatus
  <2>3. DeskFresh'
    BY <1>t, <2>2 DEF DeskFresh, SerialBackOffice, TypeOK, BookTypeOK, Idle
  <2>4. status[o] \in Statuses /\ (t = status[o] \/ t \in Allowed[status[o]])
    BY <2>1 DEF MayGo, Checked
  <2>5. status[o] = "CANCELLED" => t = "CANCELLED"
    BY <2>4 DEF Allowed
  <2>6. BookSettled'
    BY <1>t, <2>1, <2>2, <2>5 DEF BookSettled, TypeOK, BookTypeOK
  <2>7. \A p \in Orders : status[p] \in Statuses /\ status'[p] # status[p] =>
                             status'[p] \in Allowed[status[p]]
    BY <1>t, <2>1, <2>2, <2>4 DEF TypeOK, BookTypeOK
  <2> QED
    BY <2>3, <2>6, <2>7
<1>3. ASSUME NEW a \in Admins, ReadForCancel(a)
      PROVE  Goal
  <2> DEFINE d == desk[a]
  <2>1. /\ d \in Checked /\ d.order \in Orders /\ status[d.order] = d.seen
        /\ MayGo(d.seen, d.target) /\ Cancels(d)
    BY <1>3, <1>t, DeskType DEF ReadForCancel, DeskFresh
  <2>2. /\ desk' = [desk EXCEPT ![a] = [pc |-> "read", order |-> d.order, seen |-> d.seen,
                                        paid |-> payment[d.order] = "PAID"]]
        /\ UNCHANGED <<status, payment, counted, restored>>
    BY <1>3 DEF ReadForCancel
  <2>3. "CANCELLED" \in Allowed[d.seen]
    BY <2>1 DEF MayGo, Cancels
  <2>4. payment[d.order] = "PAID" => counted[d.order] = 1
    BY <2>1 DEF BookSettled
  <2>5. DeskFresh'
    BY <1>t, <2>1, <2>2, <2>3, <2>4 DEF DeskFresh, SerialBackOffice, TypeOK, BookTypeOK
  <2> QED
    BY <2>2, <2>5 DEF BookSettled
<1>4. ASSUME NEW a \in Admins, CommitCancel(a)
      PROVE  Goal
  <2> DEFINE d == desk[a]
             o == desk[a].order
  <2>1. /\ d \in Read /\ o \in Orders /\ status[o] = d.seen /\ d.seen \in Statuses
        /\ "CANCELLED" \in Allowed[d.seen] /\ (d.paid => counted[o] = 1)
    BY <1>4, <1>t, DeskType DEF CommitCancel, DeskFresh
  <2>2. /\ status' = [status EXCEPT ![o] = "CANCELLED"]
        /\ desk' = [desk EXCEPT ![a] = Idle]
        /\ UNCHANGED <<payment, counted>>
    BY <1>4 DEF CommitCancel
  <2>3. restored' = restored \/ (d.paid /\ restored' = [restored EXCEPT ![o] = @ + 1])
    BY <1>4 DEF CommitCancel, Restores
  <2>4. DeskFresh'
    BY <1>t, <2>2 DEF DeskFresh, SerialBackOffice, TypeOK, BookTypeOK, Idle
  <2>5. status[o] # "CANCELLED"
    BY <2>1, AllowedFacts
  <2>6. restored[o] = 0
    BY <2>1, <2>5 DEF BookSettled
  <2>7. BookSettled'
    BY <1>t, <2>1, <2>2, <2>3, <2>6 DEF BookSettled, TypeOK, BookTypeOK
  <2>8. \A p \in Orders : status[p] \in Statuses /\ status'[p] # status[p] =>
                             status'[p] \in Allowed[status[p]]
    BY <1>t, <2>1, <2>2 DEF TypeOK, BookTypeOK
  <2> QED
    BY <2>4, <2>7, <2>8
<1>5. ASSUME NEW o \in Orders, NEW p \in ManualPayments, UpdatePayment(o, p)
      PROVE  Goal
  BY <1>5 DEF SerialBackOffice
<1> HIDE DEF Goal
<1>6. Goal
  BY <1>1, <1>2, <1>3, <1>4, <1>5 DEF BackOffice
<1> QED
  BY <1>6 DEF Goal

\* The steps of checkouts and webhooks: none touches a row's fulfilment status
\* once it is there, and only the accounting writes PAID.
LEMMA OtherSerial ==
    ASSUME SerialInv, [Next]_vars, ~(BackOffice /\ UNCHANGED stripeVars)
    PROVE  /\ DeskFresh' /\ BookSettled'
           /\ \A o \in Orders :
                 status[o] \in Statuses /\ status'[o] # status[o] =>
                    status'[o] \in Allowed[status[o]]
<1> USE DEF SerialInv
<1> DEFINE Goal == /\ DeskFresh' /\ BookSettled'
                   /\ \A o \in Orders :
                         status[o] \in Statuses /\ status'[o] # status[o] =>
                            status'[o] \in Allowed[status[o]]
<1>t. TypeOK /\ Progress /\ Counting
  BY DEF AccountingInv
<1>1. ASSUME UNCHANGED <<status, payment, counted, restored, desk>>
      PROVE  Goal
  BY <1>1 DEF DeskFresh, BookSettled
<1>2. ASSUME NEW o \in Orders, Price(o)
      PROVE  Goal
  BY <1>1, <1>2 DEF Price, deskVars
<1>3. ASSUME NEW o \in Orders, CreateOrder(o)
      PROVE  Goal
  <2>1. status[o] = "NONE"
    BY <1>3, <1>t DEF CreateOrder, Progress, Placed
  <2>2. /\ status' = [status EXCEPT ![o] = "RECEIVED"]
        /\ payment' = [payment EXCEPT ![o] = "PENDING"]
        /\ UNCHANGED <<counted, restored, desk>>
    BY <1>3 DEF CreateOrder, deskVars
  <2>3. \A a \in Admins : desk[a].pc # "idle" => desk[a].order # o
    BY <1>t, <2>1 DEF Progress, Placed
  <2>4. DeskFresh'
    BY <1>t, <2>2, <2>3 DEF DeskFresh, TypeOK, BookTypeOK
  <2>5. BookSettled'
    BY <1>t, <2>1, <2>2 DEF BookSettled, TypeOK, BookTypeOK
  <2>6. \A p \in Orders : status[p] \in Statuses => status'[p] = status[p]
    BY <1>t, <2>1, <2>2 DEF TypeOK, BookTypeOK, Statuses
  <2> QED
    BY <2>4, <2>5, <2>6
<1>4. ASSUME NEW o \in Orders,
             \/ CreatePaymentIntent(o)
             \/ AnswerCheckout(o)
             \/ AttemptFails(o)
             \/ AttemptSucceeds(o)
             \/ SendOrderCreated(o)
             \/ PaymentDropped(o)
             \/ \E n \in 1..FailureBound : FailureDropped(o, n)
      PROVE  Goal
  BY <1>1, <1>4 DEF CreatePaymentIntent, AnswerCheckout, AttemptFails, AttemptSucceeds,
                    SendOrderCreated, PaymentDropped, FailureDropped, deskVars, bookVars
<1>5. ASSUME NEW o \in Orders, OnPaymentSucceeded(o)
      PROVE  Goal
  <2>1. UNCHANGED <<status, restored, desk>>
    BY <1>5 DEF OnPaymentSucceeded, deskVars
  <2>2. CASE Succeeded(o) \in processed
    BY <1>1, <1>5, <2>1, <2>2 DEF OnPaymentSucceeded, Recorded
  <2>3. CASE Succeeded(o) \notin processed
    <3>1. /\ payment' = [payment EXCEPT ![o] = "PAID"]
          /\ counted' = [counted EXCEPT ![o] = @ + 1]
      BY <1>5, <2>3 DEF OnPaymentSucceeded, Recorded, AccountPayment
    <3>2. counted[o] = 0 /\ counted \in [Orders -> Nat]
      BY <1>t, <2>3 DEF Counting, TypeOK, BookTypeOK
    <3>3. \A p \in Orders : counted[p] = 1 => counted'[p] = 1
      BY <3>1, <3>2
    <3>4. counted'[o] = 1
      BY <3>1, <3>2
    <3>5. BookSettled'
      BY <1>t, <2>1, <3>1, <3>3, <3>4 DEF BookSettled, TypeOK, BookTypeOK
    <3>6. DeskFresh'
      BY <1>t, <2>1, <3>3, DeskType DEF DeskFresh
    <3> QED
      BY <2>1, <3>5, <3>6
  <2> QED
    BY <2>2, <2>3
<1>6. ASSUME NEW o \in Orders, NEW n \in 1..FailureBound, OnPaymentFailed(o, n)
      PROVE  Goal
  <2>1. UNCHANGED <<status, restored, desk, counted>>
    BY <1>6 DEF OnPaymentFailed, RejectPayment, deskVars
  <2>2. payment' = payment \/ payment' = [payment EXCEPT ![o] = "FAILED"]
    BY <1>6 DEF OnPaymentFailed, RejectPayment
  <2>3. BookSettled'
    BY <1>t, <2>1, <2>2 DEF BookSettled, TypeOK, BookTypeOK
  <2> QED
    BY <2>1, <2>3 DEF DeskFresh
<1>7. ASSUME Restart PROVE Goal
  <2>1. desk' = [a \in Admins |-> Idle] /\ UNCHANGED <<status, payment, counted, restored>>
    BY <1>7 DEF Restart, LoseRequests
  <2> QED
    BY <2>1 DEF DeskFresh, BookSettled, Idle
<1>8. ASSUME UNCHANGED vars PROVE Goal
  BY <1>1, <1>8 DEF vars, bookVars
<1> HIDE DEF Goal
<1>9. Goal
  <2>1. CASE Restart \/ UNCHANGED vars
    BY <2>1, <1>7, <1>8
  <2>2. ASSUME NEW o \in Orders, Checkout(o)
        PROVE  Goal
    BY <2>2, <1>2, <1>3 DEF Checkout
  <2> QED
    BY <2>1, <2>2, <1>4, <1>5, <1>6 DEF Next
<1> QED
  BY <1>9 DEF Goal

\* With one operator and no payment captured by hand, what a request of the back office
\* in flight read of its order stays true (updateStatus of admin-orders.service.ts).
THEOREM SerialInvariant == SerialBackOffice => (Spec => []SerialInv)
<1> SUFFICES ASSUME SerialBackOffice PROVE Spec => []SerialInv
  OBVIOUS
<1>1. Init => SerialInv
  BY SerialInit
<1>2. SerialInv /\ [Next]_vars /\ AccountingInv' => SerialInv'
  BY BackOfficeSerial, OtherSerial DEF SerialInv
<1> QED
  BY <1>1, <1>2, AccountingInvariant, PTL DEF Spec

\* A cancellation restores an order once at most, and only one accounted for.
THEOREM RestoresOnce == SerialBackOffice => (Spec => []RestoredOnceAfterPayment)
<1>1. SerialInv => RestoredOnceAfterPayment
  BY DEF SerialInv, AccountingInv, TypeOK, BookTypeOK, BookSettled, RestoredOnceAfterPayment
<1> QED
  BY <1>1, SerialInvariant, PTL

\* The fulfilment status only takes the transitions the table allows.
THEOREM TransitionsFollowed == SerialBackOffice => (Spec => StatusFollowsTransitions)
<1> SUFFICES ASSUME SerialBackOffice PROVE Spec => StatusFollowsTransitions
  OBVIOUS
<1> DEFINE Legal == \A o \in Orders :
                       status[o] \in Statuses /\ status'[o] # status[o] =>
                          status'[o] \in Allowed[status[o]]
<1>1. SerialInv /\ [Next]_vars => [Legal]_bookVars
  BY BackOfficeSerial, OtherSerial
<1> QED
  BY <1>1, SerialInvariant, PTL DEF Spec, StatusFollowsTransitions

-----------------------------------------------------------------------------
(***************************************************************************)
(* The coupon ledger.                                                      *)
(***************************************************************************)

\* The ledger in terms of the two sets.
LEMMA LedgerForm ==
    RedemptionLedger <=> \A c \in Codes : redeemed[c] = Cardinality(Using(c)) - Cardinality(Returned(c))
BY DEF RedemptionLedger, Using, Returned

\* One more order pays with its code: one more use.
LEMMA LedgerAccount ==
    ASSUME SerialInv, RedemptionLedger, NEW o \in Orders, OnPaymentSucceeded(o),
           Succeeded(o) \notin processed
    PROVE  RedemptionLedger'
<1>1. TypeOK /\ counted[o] = 0 /\ counted \in [Orders -> Nat]
  BY DEF SerialInv, AccountingInv, Counting, TypeOK, BookTypeOK
<1>2. /\ redeemed' = [c \in Codes |-> IF c = code[o] THEN redeemed[c] + 1 ELSE redeemed[c]]
      /\ counted' = [counted EXCEPT ![o] = @ + 1]
      /\ UNCHANGED <<code, restored>>
  BY DEF OnPaymentSucceeded, Recorded, AccountPayment, checkoutVars, deskVars
<1>3. ASSUME NEW c \in Codes
      PROVE  redeemed'[c] = Cardinality(Using(c)') - Cardinality(Returned(c)')
  <2>1. Returned(c)' = Returned(c)
    BY <1>2 DEF Returned
  <2>2. redeemed[c] = Cardinality(Using(c)) - Cardinality(Returned(c))
    BY LedgerForm
  <2>3. CASE c = code[o]
    <3>1. o \notin Using(c)
      BY <1>1 DEF Using
    <3>2. Using(c)' = Using(c) \cup {o}
      BY <1>1, <1>2, <2>3 DEF Using
    <3>3. Cardinality(Using(c)') = Cardinality(Using(c)) + 1
      BY <3>1, <3>2, LedgerSets, FS_AddElement
    <3> QED
      BY <1>2, <2>1, <2>2, <2>3, <3>3, LedgerSets
  <2>4. CASE c # code[o]
    <3>1. Using(c)' = Using(c)
      BY <1>1, <1>2, <2>4 DEF Using
    <3> QED
      BY <1>2, <2>1, <2>2, <2>4, <3>1
  <2> QED
    BY <2>3, <2>4
<1> QED
  BY <1>3 DEF RedemptionLedger, Using, Returned

\* A restoring cancellation gives one use back, and there is one to give.
LEMMA LedgerRestore ==
    ASSUME SerialInv, RedemptionLedger, NEW a \in Admins, CommitCancel(a), Restores(desk[a])
    PROVE  RedemptionLedger'
<1> DEFINE o == desk[a].order
<1>1. TypeOK
  BY DEF SerialInv, AccountingInv
<1>2. /\ o \in Orders /\ desk[a].seen \in Statuses /\ status[o] = desk[a].seen
      /\ "CANCELLED" \in Allowed[desk[a].seen] /\ counted[o] = 1
  BY <1>1, DeskType DEF CommitCancel, Restores, SerialInv, DeskFresh
<1>3. status[o] # "CANCELLED"
  BY <1>2, AllowedFacts
<1>4. restored[o] = 0 /\ restored \in [Orders -> Nat]
  BY <1>1, <1>2, <1>3 DEF SerialInv, BookSettled, TypeOK, BookTypeOK
<1>5. redeemed' = [c \in Codes |-> IF c = code[o] THEN OneUseLess(redeemed[c])
                                                  ELSE redeemed[c]]
  BY DEF CommitCancel
<1>6. restored' = [restored EXCEPT ![o] = @ + 1] /\ UNCHANGED <<code, counted>>
  BY DEF CommitCancel, checkoutVars
<1>7. ASSUME NEW c \in Codes
      PROVE  redeemed'[c] = Cardinality(Using(c)') - Cardinality(Returned(c)')
  <2>1. Using(c)' = Using(c)
    BY <1>6 DEF Using
  <2>2. redeemed[c] = Cardinality(Using(c)) - Cardinality(Returned(c))
    BY LedgerForm
  <2>3. CASE c = code[o]
    <3>1. o \in Using(c) /\ o \notin Returned(c)
      BY <1>2, <1>4, <2>3 DEF Using, Returned
    <3>2. Returned(c)' = Returned(c) \cup {o}
      BY <1>2, <1>4, <1>6, <2>3 DEF Returned
    <3>3. Cardinality(Returned(c)') = Cardinality(Returned(c)) + 1
      BY <3>1, <3>2, LedgerSets, FS_AddElement
    <3>4. Returned(c) \cup {o} \in SUBSET Using(c)
      <4>1. \A p \in Orders : restored[p] > 0 => counted[p] > 0
        BY DEF SerialInv, BookSettled
      <4> QED
        BY <3>1, <4>1 DEF Using, Returned
    <3>5. Cardinality(Returned(c) \cup {o}) <= Cardinality(Using(c))
      BY <3>4, LedgerSets, FS_Subset
    <3>6. redeemed[c] > 0
      BY <2>2, <3>2, <3>3, <3>5, LedgerSets
    <3>7. redeemed'[c] = redeemed[c] - 1
      BY <1>5, <2>3, <3>6 DEF OneUseLess
    <3> QED
      BY <2>1, <2>2, <3>3, <3>7, LedgerSets
  <2>4. CASE c # code[o]
    <3>1. Returned(c)' = Returned(c)
      BY <1>2, <1>4, <1>6, <2>4 DEF Returned
    <3> QED
      BY <1>5, <2>1, <2>2, <2>4, <3>1
  <2> QED
    BY <2>3, <2>4
<1> QED
  BY <1>7 DEF RedemptionLedger, Using, Returned

\* Every other step leaves the counters and the codes of paid orders alone.
LEMMA LedgerNext ==
    ASSUME SerialBackOffice, SerialInv, RedemptionLedger, [Next]_vars
    PROVE  RedemptionLedger'
<1>1. ASSUME UNCHANGED <<redeemed, code, counted, restored>>
      PROVE  RedemptionLedger'
  BY <1>1 DEF RedemptionLedger
<1>2. ASSUME NEW o \in Orders, Price(o)
      PROVE  RedemptionLedger'
  <2>1. UNCHANGED <<redeemed, counted, restored>>
    BY <1>2 DEF Price, deskVars
  <2>2. counted[o] = 0
    BY <1>2 DEF Price, SerialInv, AccountingInv, Progress, Counting, TypeOK
  <2>3. restored[o] = 0
    BY <2>2 DEF SerialInv, BookSettled
  <2>4. \A p \in Orders : p # o => code'[p] = code[p]
    BY <1>2 DEF Price, SerialInv, AccountingInv, TypeOK, BookTypeOK
  <2>5. \A c \in Codes : Using(c)' = Using(c) /\ Returned(c)' = Returned(c)
    BY <2>1, <2>2, <2>3, <2>4 DEF Using, Returned
  <2> QED
    BY <2>1, <2>5 DEF RedemptionLedger, Using, Returned
<1>3. ASSUME NEW o \in Orders,
             \/ CreateOrder(o)
             \/ CreatePaymentIntent(o)
             \/ AnswerCheckout(o)
             \/ AttemptFails(o)
             \/ AttemptSucceeds(o)
             \/ SendOrderCreated(o)
             \/ PaymentDropped(o)
             \/ \E n \in 1..FailureBound : FailureDropped(o, n)
      PROVE  RedemptionLedger'
  BY <1>1, <1>3 DEF CreateOrder, CreatePaymentIntent, AnswerCheckout, AttemptFails,
                    AttemptSucceeds, SendOrderCreated, PaymentDropped, FailureDropped,
                    deskVars, bookVars
<1>4. ASSUME NEW o \in Orders, OnPaymentSucceeded(o)
      PROVE  RedemptionLedger'
  <2>1. CASE Succeeded(o) \in processed
    BY <1>1, <1>4, <2>1 DEF OnPaymentSucceeded, Recorded, checkoutVars, deskVars
  <2> QED
    BY <1>4, <2>1, LedgerAccount
<1>5. ASSUME NEW o \in Orders, NEW n \in 1..FailureBound, OnPaymentFailed(o, n)
      PROVE  RedemptionLedger'
  BY <1>1, <1>5 DEF OnPaymentFailed, RejectPayment, checkoutVars, deskVars
<1>6. ASSUME BackOffice
      PROVE  RedemptionLedger'
  <2>1. ASSUME NEW a \in Admins, CommitCancel(a)
        PROVE  RedemptionLedger'
    <3>1. CASE ~Restores(desk[a])
      BY <1>1, <2>1, <3>1 DEF CommitCancel, checkoutVars
    <3> QED
      BY <2>1, <3>1, LedgerRestore
  <2>2. ASSUME NEW a \in Admins, WriteStatus(a) \/ ReadForCancel(a)
        PROVE  RedemptionLedger'
    BY <1>1, <2>2 DEF WriteStatus, ReadForCancel, checkoutVars
  <2>3. ASSUME NEW a \in Admins, NEW o \in Orders, NEW t \in Statuses, CheckStatus(a, o, t)
        PROVE  RedemptionLedger'
    BY <1>1, <2>3 DEF CheckStatus, checkoutVars
  <2>4. ASSUME NEW o \in Orders, NEW p \in ManualPayments, UpdatePayment(o, p)
        PROVE  RedemptionLedger'
    BY <2>4 DEF SerialBackOffice
  <2> QED
    BY <1>6, <2>1, <2>2, <2>3, <2>4 DEF BackOffice
<1>7. CASE Restart
  BY <1>1, <1>7 DEF Restart, LoseRequests
<1>8. CASE UNCHANGED vars
  BY <1>1, <1>8 DEF vars, bookVars
<1> QED
  BY <1>2, <1>3, <1>4, <1>5, <1>6, <1>7, <1>8 DEF Next, Checkout

\* timesRedeemed is the number of orders accounted for with the code less those
\* cancelled after it, for any number of orders, codes, webhooks and restarts.
THEOREM CouponLedger == SerialBackOffice => (Spec => []RedemptionLedger)
<1> SUFFICES ASSUME SerialBackOffice PROVE Spec => []RedemptionLedger
  OBVIOUS
<1>1. Init => RedemptionLedger
  <2> SUFFICES ASSUME Init, NEW c \in Codes
               PROVE  redeemed[c] = Cardinality(Using(c)) - Cardinality(Returned(c))
    BY LedgerForm
  <2>1. Using(c) = {} /\ Returned(c) = {} /\ redeemed[c] = 0
    BY DEF Init, BookInit, Using, Returned
  <2> QED
    BY <2>1, FS_EmptySet
<1>2. SerialInv /\ RedemptionLedger /\ [Next]_vars => RedemptionLedger'
  BY LedgerNext
<1> QED
  BY <1>1, <1>2, SerialInvariant, PTL DEF Spec

-----------------------------------------------------------------------------
(***************************************************************************)
(* What Stripe and its webhooks do to the order book is what a provider    *)
(* may do to it, so that the book is kept.                                 *)
(***************************************************************************)

LEMMA IsBookStep ==
    ASSUME AccountingInv, [Next]_vars
    PROVE  [BookStep]_bookVars
<1>t. TypeOK /\ Progress /\ Counting
  BY DEF AccountingInv
<1>1. ASSUME NEW o \in Orders, Checkout(o)
      PROVE  BookStep
  BY <1>1 DEF Checkout, BookStep
<1>2. ASSUME NEW o \in Orders, CreatePaymentIntent(o) \/ AnswerCheckout(o)
      PROVE  Marks
  BY <1>2, <1>t DEF CreatePaymentIntent, AnswerCheckout, Marks, TypeOK, BookTypeOK, Phases
<1>3. ASSUME NEW o \in Orders,
             \/ AttemptFails(o) \/ AttemptSucceeds(o)
             \/ SendOrderCreated(o) \/ PaymentDropped(o)
             \/ \E n \in 1..FailureBound : FailureDropped(o, n)
      PROVE  UNCHANGED bookVars
  BY <1>3 DEF AttemptFails, AttemptSucceeds, SendOrderCreated, PaymentDropped, FailureDropped
<1>4. ASSUME NEW o \in Orders, OnPaymentSucceeded(o)
      PROVE  [BookStep]_bookVars
  <2>1. CASE Succeeded(o) \in processed
    BY <1>4, <2>1 DEF OnPaymentSucceeded, Recorded, checkoutVars, deskVars, bookVars
  <2>2. CASE Succeeded(o) \notin processed
    <3>1. counted[o] = 0 /\ phase[o] = "open"
      BY <1>4, <1>t, <2>2 DEF OnPaymentSucceeded, Delivered, Counting, Progress
    <3>2. AccountPayment(o) /\ UNCHANGED <<checkoutVars, status, deskVars>>
      BY <1>4, <2>2 DEF OnPaymentSucceeded, Recorded
    <3> QED
      BY <3>1, <3>2 DEF AccountsOnce, BookStep
  <2> QED
    BY <2>1, <2>2
<1>5. ASSUME NEW o \in Orders, NEW n \in 1..FailureBound, OnPaymentFailed(o, n)
      PROVE  [BookStep]_bookVars
  BY <1>5, <1>t DEF OnPaymentFailed, RejectPayment, Marks, BookStep, checkoutVars, bookVars, TypeOK,
                    BookTypeOK, Payments, deskVars
<1> QED
  BY <1>1, <1>2, <1>3, <1>4, <1>5 DEF Next, BookStep, Restart, vars

\* The order book is kept by a shop that is paid through Stripe.
THEOREM BookAlwaysKept == Spec => []BookInv
<1>1. Init => BookInit
  BY DEF Init
<1>2. AccountingInv /\ [Next]_vars => [BookStep]_bookVars
  BY IsBookStep
<1> QED
  BY <1>1, <1>2, AccountingInvariant, BookKept, PTL DEF Spec

\* A coupon counter is never negative and never ahead of the orders that paid with
\* the code, for any number of admins that cancel at once and payments set by hand.
THEOREM CouponAlwaysBacked == Spec => []RedemptionsBacked
<1>1. BookInv => RedemptionsBacked
  BY DEF BookInv
<1> QED
  BY <1>1, BookAlwaysKept, PTL

\* The stock of a variant is its initial stock less what was taken of it and with
\* what was put back, for any number of orders, lines, admins at once, payments set
\* by hand, repeated webhooks and restarts.
THEOREM StockAlwaysBalanced == Spec => []StockLedger
<1>1. BookInv => StockLedger
  BY DEF BookInv, StockInv
<1> QED
  BY <1>1, BookAlwaysKept, PTL
=============================================================================
