------------------------- MODULE MercadoPagoProofs -------------------------
(***************************************************************************)
(* Theorems about MercadoPagoCheckout for every value of its constants.    *)
(*                                                                         *)
(* That an approval is accounted for once rests on the MercadoPagoEvent    *)
(* table: an order is counted exactly when it is in the table.  That only  *)
(* approvals are accounted for rests on what a call holds: a state that    *)
(* was read as approved can since have become refunded, and nothing else.  *)
(* And a payment is created once, because a checkout request only gets to  *)
(* payment.create while its order is placed and has no payment.            *)
(*                                                                         *)
(* The rest is the order book's: every step is a BookStep of               *)
(* OrderBookProofs, so stock and coupons balance here as they do with      *)
(* Stripe.                                                                 *)
(***************************************************************************)
EXTENDS MercadoPagoCheckout, OrderBookProofs

\* The orders whose payment was approved at some time.
Approvals == {o \in Orders : mp[o] \in {"approved", "refunded"}}

Types ==
    /\ mp \in [Orders -> MpStatuses \cup {"none"}]
    /\ phase \in [Orders -> Phases]
    /\ payment \in [Orders -> Payments \cup {"NONE"}]
    /\ counted \in [Orders -> Nat]
    /\ call \in [Calls -> {Idle} \cup InCall]

\* A checkout request is before its payment, and after it once it knows it.
BeforePayment ==
    \A o \in Orders :
        /\ phase[o] \in {"new", "priced", "placed"} => mp[o] = "none"
        /\ call[o].pc \in {"stale", "ready"} => phase[o] = "placed"
        /\ call[o].pc # "idle" => call[o].order = o

\* What a call holds was true, and still is as far as it matters.
CallsHoldTruth ==
    \A c \in Calls :
        /\ call[c].pc = "got" /\ call[c].saw = "approved" => call[c].order \in Approvals
        /\ call[c].pc = "sending" => call[c].order \in events \cup dropped

Accounting ==
    /\ events \subseteq Approvals
    /\ \A o \in Orders : counted[o] = IF o \in events THEN 1 ELSE 0
    /\ dropped \subseteq Approvals
    /\ confirmed \cup unsent \subseteq events \cup dropped

MpInv == Types /\ BeforePayment /\ CallsHoldTruth /\ Accounting

-----------------------------------------------------------------------------
\* A call is idle, or a record that names an order.
LEMMA CallShape ==
    ASSUME Types, NEW c \in Calls
    PROVE  /\ call[c].pc # "idle" => call[c] \in InCall /\ call[c].order \in Orders
           /\ call[c] = Idle => call[c].pc = "idle"
BY DEF Types, Idle, InCall

LEMMA InitMp == Init => MpInv
<1> SUFFICES ASSUME Init PROVE MpInv
  OBVIOUS
<1>1. Types
  BY DEF Init, BookInit, Types, Phases, Payments, Calls
<1>2. \A c \in Calls : call[c].pc = "idle"
  BY DEF Init, Idle
<1>3. BeforePayment /\ CallsHoldTruth
  BY <1>2 DEF Init, BookInit, BeforePayment, CallsHoldTruth, Calls
<1>4. Accounting
  BY DEF Init, BookInit, Accounting
<1> QED
  BY <1>1, <1>3, <1>4 DEF MpInv

\* A step that changes nothing the invariant speaks of.
LEMMA Untouched ==
    ASSUME MpInv,
           UNCHANGED <<mp, phase, payment, counted, call, events, confirmed, unsent, dropped>>
    PROVE  MpInv'
BY DEF MpInv, Types, BeforePayment, CallsHoldTruth, Accounting, Approvals

\* The checkout up to the payment, and its refusal.
LEMMA PhaseStep ==
    ASSUME MpInv, NEW o \in Orders,
           \/ (Price(o) \/ CreateOrder(o)) /\ UNCHANGED mpVars
           \/ PaymentRefused(o)
    PROVE  MpInv'
<1> USE DEF MpInv
<1>1. UNCHANGED <<mp, call, events, counted, confirmed, unsent, dropped>>
  BY DEF Price, CreateOrder, PaymentRefused, mpVars
<1>2. PICK p \in Phases : phase' = [phase EXCEPT ![o] = p]
  BY DEF Price, CreateOrder, PaymentRefused, OpenPhase, Phases
<1>3. Types'
  BY <1>1, <1>2 DEF Types, Price, CreateOrder, PaymentRefused, Payments
<1>4. phase[o] \in {"new", "priced", "placed"} /\ (call[o].pc \in {"stale", "ready"} => p = "placed")
  <2>1. CASE Price(o)
    BY <2>1 DEF Price, BeforePayment
  <2>2. CASE CreateOrder(o)
    BY <2>2, <1>2 DEF CreateOrder, BeforePayment, Types
  <2>3. CASE PaymentRefused(o)
    BY <2>3 DEF PaymentRefused, Idle
  <2> QED
    BY <2>1, <2>2, <2>3
<1>5. BeforePayment'
  BY <1>1, <1>2, <1>4 DEF BeforePayment, Types
<1>6. CallsHoldTruth' /\ Accounting'
  BY <1>1 DEF CallsHoldTruth, Accounting, Approvals
<1> QED
  BY <1>3, <1>5, <1>6

-----------------------------------------------------------------------------
\* The steps of the checkout request after the order exists.
LEMMA RequestStep ==
    ASSUME MpInv, NEW o \in Orders,
           StartPayment(o) \/ CreatePayment(o) \/ CheckoutFails(o)
    PROVE  MpInv'
<1> USE DEF MpInv
<1>0. o \in Calls
  BY DEF Calls
<1>1. CASE StartPayment(o)
  <2> DEFINE new == [pc |-> AfterRead, order |-> o, note |-> NoNote, saw |-> "none"]
  <2>1. /\ call' = [call EXCEPT ![o] = new]
        /\ phase[o] = "placed"
        /\ UNCHANGED <<mp, phase, payment, events, counted, confirmed, unsent, dropped>>
    BY <1>1 DEF StartPayment, bookVars
  <2>2. new.pc \in {"stale", "ready"} /\ new.order = o /\ new \in InCall
    BY DEF AfterRead, InCall
  <2> HIDE DEF new
  <2>3. Types'
    BY <2>1, <2>2, <1>0 DEF Types
  <2>4. BeforePayment'
    BY <2>1, <2>2, <1>0 DEF BeforePayment, Types, Calls
  <2>5. CallsHoldTruth' /\ Accounting'
    BY <2>1, <2>2, <1>0 DEF CallsHoldTruth, Accounting, Approvals, Types
  <2> QED
    BY <2>3, <2>4, <2>5
<1>2. CASE CreatePayment(o)
  <2>1. /\ call[o].pc = "ready"
        /\ mp[o] = "none"
        /\ call[o].order = o
        /\ call[o] \in InCall
    BY <1>0, <1>2, CallShape DEF CreatePayment, BeforePayment
  <2>2. PICK s \in MpStatuses \ {"refunded"} :
           /\ mp' = [mp EXCEPT ![o] = s]
           /\ \/ call' = [call EXCEPT ![o].pc = "got", ![o].saw = s] /\ OpenPhase(o, "intent")
              \/ call' = [call EXCEPT ![o] = Idle] /\ OpenPhase(o, "lost")
    BY <1>2 DEF CreatePayment
  <2>3. UNCHANGED <<payment, events, counted, confirmed, unsent, dropped>>
    BY <1>2 DEF CreatePayment
  <2>4. PICK r \in {Idle} \cup InCall :
           /\ call' = [call EXCEPT ![o] = r]
           /\ r.pc \in {"idle", "got"}
           /\ r.pc = "got" => r.order = o /\ r.saw = s
    <3>1. [call[o] EXCEPT !.pc = "got", !.saw = s] \in InCall
      BY <2>1 DEF InCall
    <3>2. CASE call' = [call EXCEPT ![o].pc = "got", ![o].saw = s]
      <4>1. call' = [call EXCEPT ![o] = [call[o] EXCEPT !.pc = "got", !.saw = s]]
        BY <3>2
      <4> QED
        BY <4>1, <3>1, <2>1 DEF InCall
    <3>3. CASE call' = [call EXCEPT ![o] = Idle]
      <4>1. Idle.pc = "idle" /\ Idle \in {Idle} \cup InCall
        BY DEF Idle
      <4> QED
        BY <4>1, <3>3
    <3> QED
      BY <2>2, <3>2, <3>3
  <2>5. PICK p \in {"intent", "lost"} : phase' = [phase EXCEPT ![o] = p]
    BY <2>2 DEF OpenPhase
  <2>6. Types'
    BY <2>2, <2>3, <2>4, <2>5, <1>0 DEF Types, Phases
  <2>7. BeforePayment'
    BY <2>2, <2>4, <2>5, <1>0 DEF BeforePayment, Types, Calls
  <2>8. o \notin events
    BY <2>1 DEF Accounting, Approvals
  <2>9. \A c \in Calls \ {o} : call'[c] = call[c]
    BY <2>4, <1>0 DEF Types
  <2>10. Approvals \subseteq Approvals'
    BY <2>1, <2>2 DEF Approvals, Types
  <2>11. call'[o] = r /\ mp'[o] = s
    BY <2>2, <2>4, <1>0 DEF Types
  <2>12. CallsHoldTruth'
    <3>1. ASSUME NEW c \in Calls, c # o
          PROVE  /\ call'[c].pc = "got" /\ call'[c].saw = "approved" => call'[c].order \in Approvals'
                 /\ call'[c].pc = "sending" => call'[c].order \in events' \cup dropped'
      BY <3>1, <2>3, <2>9, <2>10, CallShape DEF CallsHoldTruth
    <3>2. /\ call'[o].pc = "got" /\ call'[o].saw = "approved" => call'[o].order \in Approvals'
          /\ call'[o].pc = "sending" => call'[o].order \in events' \cup dropped'
      BY <2>4, <2>11 DEF Approvals
    <3> QED
      BY <3>1, <3>2 DEF CallsHoldTruth
  <2>13. Accounting'
    BY <2>3, <2>10 DEF Accounting
  <2> QED
    BY <2>6, <2>7, <2>12, <2>13
<1>3. CASE CheckoutFails(o)
  <2>1. /\ call' = [call EXCEPT ![o] = Idle]
        /\ phase' = [phase EXCEPT ![o] = "lost"]
        /\ UNCHANGED <<mp, payment, events, counted, confirmed, unsent, dropped>>
    BY <1>3 DEF CheckoutFails, OpenPhase
  <2>2. Types'
    BY <2>1, <1>0 DEF Types, Phases
  <2>3. BeforePayment'
    BY <2>1, <1>0 DEF BeforePayment, Types, Calls, Idle
  <2>4. CallsHoldTruth' /\ Accounting'
    BY <2>1, <1>0 DEF CallsHoldTruth, Accounting, Approvals, Types, Idle
  <2> QED
    BY <2>2, <2>3, <2>4
<1> QED
  BY <1>1, <1>2, <1>3

-----------------------------------------------------------------------------
\* A call that changes without an effect on the orders: a token refreshed, the
\* payment asked for, a notification taken or given up.
LEMMA CallStep ==
    ASSUME MpInv, NEW c \in Calls, NEW r \in {Idle} \cup InCall,
           call' = [call EXCEPT ![c] = r],
           UNCHANGED <<mp, phase, payment, counted, events, confirmed, unsent, dropped>>,
           c \in Orders => /\ r.pc # "idle" => r.order = c
                           /\ r.pc \in {"stale", "ready"} => phase[c] = "placed",
           r.pc = "got" /\ r.saw = "approved" => r.order \in Approvals,
           r.pc # "sending"
    PROVE  MpInv'
<1> USE DEF MpInv
<1>1. Types'
  BY DEF Types
<1>2. call'[c] = r /\ \A d \in Calls \ {c} : call'[d] = call[d]
  BY DEF Types
<1>3. BeforePayment'
  <2>1. Orders \subseteq Calls
    BY DEF Calls
  <2>2. ASSUME NEW o \in Orders
        PROVE  /\ call'[o].pc \in {"stale", "ready"} => phase[o] = "placed"
               /\ call'[o].pc # "idle" => call'[o].order = o
    <3>1. CASE o = c
      BY <3>1, <1>2
    <3>2. CASE o # c
      BY <3>2, <1>2, <2>1 DEF BeforePayment
    <3> QED
      BY <3>1, <3>2
  <2> QED
    BY <2>2 DEF BeforePayment
<1>4. CallsHoldTruth' /\ Accounting'
  BY <1>2 DEF CallsHoldTruth, Accounting, Approvals
<1> QED
  BY <1>1, <1>3, <1>4

LEMMA HookStep ==
    ASSUME MpInv,
           \/ \E c \in Calls : RefreshToken(c)
           \/ \E h \in Hooks : GetPayment(h) \/ HookFails(h)
           \/ \E h \in Hooks, n \in Notes : TakeNote(h, n)
    PROVE  MpInv'
<1> USE DEF MpInv
<1>0. Hooks \subseteq Calls /\ \A h \in Hooks : h \notin Orders
  BY MercadoPagoAssumption DEF Calls
<1>1. ASSUME NEW c \in Calls, RefreshToken(c)
      PROVE  MpInv'
  <2> DEFINE r == [call[c] EXCEPT !.pc = "ready"]
  <2>1. call[c] \in InCall /\ call[c].pc = "stale"
    BY <1>1, CallShape DEF RefreshToken
  <2>2. r \in InCall /\ r.pc = "ready" /\ r.order = call[c].order
    BY <2>1 DEF InCall
  <2>3. call' = [call EXCEPT ![c] = r]
    BY <1>1 DEF RefreshToken
  <2>4. UNCHANGED <<mp, phase, payment, counted, events, confirmed, unsent, dropped>>
    BY <1>1 DEF RefreshToken, bookVars
  <2>5. c \in Orders => call[c].order = c /\ phase[c] = "placed"
    BY <2>1 DEF BeforePayment
  <2> HIDE DEF r
  <2> QED
    BY <2>2, <2>3, <2>4, <2>5, CallStep
<1>2. ASSUME NEW h \in Hooks, GetPayment(h)
      PROVE  MpInv'
  <2> DEFINE r == [call[h] EXCEPT !.pc = "got", !.saw = mp[call[h].order]]
  <2>1. call[h] \in InCall /\ call[h].order \in Orders
    BY <1>0, <1>2, CallShape DEF GetPayment
  <2>2. mp[call[h].order] \in MpStatuses \cup {"none"}
    BY <2>1 DEF Types
  <2>3. r \in InCall /\ r.pc = "got" /\ r.order = call[h].order /\ r.saw = mp[call[h].order]
    BY <2>1, <2>2 DEF InCall
  <2>4. r.saw = "approved" => r.order \in Approvals
    BY <2>1, <2>3 DEF Approvals
  <2>5. call' = [call EXCEPT ![h] = r]
    BY <1>2 DEF GetPayment
  <2>6. UNCHANGED <<mp, phase, payment, counted, events, confirmed, unsent, dropped>>
    BY <1>2 DEF GetPayment, bookVars
  <2> HIDE DEF r
  <2> QED
    BY <1>0, <2>3, <2>4, <2>5, <2>6, CallStep
<1>3. ASSUME NEW h \in Hooks, HookFails(h)
      PROVE  MpInv'
  <2>1. call' = [call EXCEPT ![h] = Idle]
    BY <1>3 DEF HookFails
  <2>2. UNCHANGED <<mp, phase, payment, counted, events, confirmed, unsent, dropped>>
    BY <1>3 DEF HookFails, bookVars
  <2>3. Idle.pc = "idle"
    BY DEF Idle
  <2> QED
    BY <1>0, <2>1, <2>2, <2>3, CallStep
<1>4. ASSUME NEW h \in Hooks, NEW n \in Notes, TakeNote(h, n)
      PROVE  MpInv'
  <2> DEFINE r == [pc |-> AfterRead, order |-> n[1], note |-> n, saw |-> "none"]
  <2>1. r \in InCall /\ r.pc \in {"stale", "ready"}
    BY DEF InCall, AfterRead, Notes
  <2>2. call' = [call EXCEPT ![h] = r]
    BY <1>4 DEF TakeNote
  <2>3. UNCHANGED <<mp, phase, payment, counted, events, confirmed, unsent, dropped>>
    BY <1>4 DEF TakeNote, bookVars
  <2> HIDE DEF r
  <2> QED
    BY <1>0, <2>1, <2>2, <2>3, CallStep
<1> QED
  BY <1>1, <1>2, <1>3, <1>4

\* MercadoPago moves a payment on: an approval is never taken back otherwise than
\* by a refund, and a payment that exists goes on existing.
LEMMA PaymentStep ==
    ASSUME MpInv, NEW o \in Orders, PaymentMoves(o)
    PROVE  MpInv'
<1> USE DEF MpInv
<1>1. PICK s \in MpStatuses :
         /\ mp' = [mp EXCEPT ![o] = s]
         /\ mp[o] # "none"
         /\ o \in Approvals => s = "refunded"
  BY DEF PaymentMoves, Becomes, MpStatuses, Approvals
<1>2. UNCHANGED <<phase, payment, counted, call, events, confirmed, unsent, dropped>>
  BY DEF PaymentMoves, Becomes, bookVars
<1>3. Types'
  BY <1>1, <1>2 DEF Types
<1>4. Approvals \subseteq Approvals'
  BY <1>1 DEF Approvals, Types
<1>5. BeforePayment'
  BY <1>1, <1>2 DEF BeforePayment, Types
<1>6. CallsHoldTruth' /\ Accounting'
  BY <1>2, <1>4 DEF CallsHoldTruth, Accounting
<1> QED
  BY <1>3, <1>5, <1>6

-----------------------------------------------------------------------------
(***************************************************************************)
(* applyPaymentStatus.                                                     *)
(***************************************************************************)

\* A caller that is done holds nothing any more.
LEMMA DoneStep ==
    ASSUME MpInv, NEW c \in Calls, Done(c)
    PROVE  /\ call' \in [Calls -> {Idle} \cup InCall]
           /\ phase' \in [Orders -> Phases]
           /\ \A d \in Calls : call'[d].pc = "idle" \/ call'[d] = call[d]
           /\ \A o \in Orders : phase'[o] \in {phase[o], "open"}
           /\ \A o \in Orders : phase'[o] # phase[o] => call'[o].pc = "idle"
<1> USE DEF MpInv
<1>1. Idle.pc = "idle"
  BY DEF Idle
<1>2. call' = [call EXCEPT ![c] = Idle]
  BY DEF Done
<1>3. phase' = phase \/ (c \in Orders /\ phase' = [phase EXCEPT ![c] = "open"])
  BY DEF Done, OpenPhase
<1>4. call' \in [Calls -> {Idle} \cup InCall]
  BY <1>2 DEF Types
<1>5. phase' \in [Orders -> Phases]
  BY <1>3 DEF Types, Phases
<1>6. \A d \in Calls : call'[d].pc = "idle" \/ call'[d] = call[d]
  BY <1>1, <1>2 DEF Types
<1>7. \A o \in Orders : phase'[o] \in {phase[o], "open"}
  BY <1>3 DEF Types
<1>8. \A o \in Orders : phase'[o] # phase[o] => o = c
  BY <1>3 DEF Types
<1>9. call'[c].pc = "idle"
  BY <1>1, <1>2 DEF Types
<1> QED
  BY <1>4, <1>5, <1>6, <1>7, <1>8, <1>9

\* What DoneStep says is all that the request invariants need.
LEMMA DoneKeeps ==
    ASSUME MpInv, NEW c \in Calls, Done(c), UNCHANGED <<mp, events, dropped>>
    PROVE  BeforePayment' /\ CallsHoldTruth'
<1> USE DEF MpInv
<1>1. Orders \subseteq Calls
  BY DEF Calls
<1>2. BeforePayment'
  BY <1>1, DoneStep DEF BeforePayment
<1>3. CallsHoldTruth'
  BY DoneStep DEF CallsHoldTruth, Approvals
<1> QED
  BY <1>2, <1>3

LEMMA ApplyStep ==
    ASSUME MpInv, NEW c \in Calls, ApplyOther(c)
    PROVE  MpInv'
<1> USE DEF MpInv
<1>1. Done(c) /\ UNCHANGED <<mp, counted, events, confirmed, unsent, dropped>>
  BY DEF ApplyOther
<1>2. call[c].order \in Orders /\ call[c].saw \in MpStatuses \cup {"none"}
  BY CallShape DEF ApplyOther, InCall
<1>3. payment' \in [Orders -> Payments \cup {"NONE"}]
  BY DEF ApplyOther, PaymentFor, Types, Payments
<1>4. Types'
  BY <1>1, <1>3, DoneStep DEF Types
<1>5. Accounting'
  BY <1>1 DEF Accounting, Approvals
<1> QED
  BY <1>1, <1>4, <1>5, DoneKeeps

LEMMA PaidStep ==
    ASSUME MpInv, NEW c \in Calls, MarkOrderPaid(c)
    PROVE  MpInv'
<1> USE DEF MpInv
<1> DEFINE o == call[c].order
           r == [call[c] EXCEPT !.pc = "sending"]
<1>1. call[c] \in InCall /\ o \in Approvals /\ o \in Orders
  BY CallShape DEF MarkOrderPaid, Approved, CallsHoldTruth
<1>2. r \in InCall /\ r.pc = "sending" /\ r.order = o
  BY <1>1 DEF InCall
<1>3. call' = [call EXCEPT ![c] = r] /\ events' = events \cup {o}
  BY DEF MarkOrderPaid
<1>4. UNCHANGED <<mp, phase, confirmed, unsent, dropped>>
  BY DEF MarkOrderPaid, checkoutVars
<1>5. \/ o \in events /\ UNCHANGED <<payment, counted>>
      \/ /\ o \notin events
         /\ payment' = [payment EXCEPT ![o] = "PAID"]
         /\ counted' = [counted EXCEPT ![o] = @ + 1]
  BY DEF MarkOrderPaid, Recorded, AccountPayment
<1> HIDE DEF o, r
<1>6. Types'
  BY <1>1, <1>2, <1>3, <1>4, <1>5 DEF Types, Payments
<1>7. call'[c] = r /\ \A d \in Calls \ {c} : call'[d] = call[d]
  BY <1>3 DEF Types
<1>8. BeforePayment'
  <2>1. c \in Orders => o = c
    BY CallShape DEF BeforePayment, MarkOrderPaid, o
  <2>2. Orders \subseteq Calls
    BY DEF Calls
  <2> QED
    BY <1>2, <1>4, <1>7, <2>1, <2>2 DEF BeforePayment
<1>9. CallsHoldTruth'
  <2>1. \A d \in Calls : call'[d].pc = "sending" => call'[d].order \in events' \cup dropped'
    BY <1>2, <1>3, <1>4, <1>7 DEF CallsHoldTruth
  <2>2. \A d \in Calls : call'[d].pc = "got" /\ call'[d].saw = "approved" => call'[d].order \in Approvals
    BY <1>2, <1>7 DEF CallsHoldTruth
  <2> QED
    BY <1>4, <2>1, <2>2 DEF CallsHoldTruth, Approvals
<1>10. Accounting'
  <2>1. /\ events' \subseteq Approvals /\ dropped' \subseteq Approvals
        /\ confirmed' \cup unsent' \subseteq events' \cup dropped'
    BY <1>1, <1>3, <1>4 DEF Accounting
  <2>2. \A p \in Orders : counted'[p] = IF p \in events' THEN 1 ELSE 0
    BY <1>1, <1>3, <1>5 DEF Accounting, Types
  <2> QED
    BY <1>4, <2>1, <2>2 DEF Accounting, Approvals
<1> QED
  BY <1>6, <1>8, <1>9, <1>10

LEMMA SendStep ==
    ASSUME MpInv, NEW c \in Calls, SendOrderCreated(c)
    PROVE  MpInv'
<1> USE DEF MpInv
<1>1. Done(c) /\ UNCHANGED <<mp, payment, counted, events, dropped>>
  BY DEF SendOrderCreated
<1>2. call[c].order \in events \cup dropped
  BY DEF SendOrderCreated, ReadyToSend, CallsHoldTruth
<1>3. confirmed' \cup unsent' \subseteq confirmed \cup unsent \cup {call[c].order}
  BY DEF SendOrderCreated
<1>4. Types'
  BY <1>1, DoneStep DEF Types
<1>5. Accounting'
  BY <1>1, <1>2, <1>3 DEF Accounting, Approvals
<1> QED
  BY <1>1, <1>4, <1>5, DoneKeeps

\* A failing insert: the call goes on, with nothing but the history to show for it.
LEMMA DropStep ==
    ASSUME MpInv, NEW c \in Calls, PaymentDropped(c)
    PROVE  MpInv'
<1> USE DEF MpInv
<1> DEFINE o == call[c].order
           r == [call[c] EXCEPT !.pc = "sending"]
<1>1. call[c] \in InCall /\ o \in Approvals /\ o \in Orders
  BY CallShape DEF PaymentDropped, Approved, CallsHoldTruth
<1>2. r \in InCall /\ r.pc = "sending" /\ r.order = o
  BY <1>1 DEF InCall
<1>3. call' = [call EXCEPT ![c] = r] /\ dropped' = dropped \cup {o}
  BY DEF PaymentDropped
<1>4. UNCHANGED <<mp, phase, payment, counted, events, confirmed, unsent>>
  BY DEF PaymentDropped, bookVars
<1>5. c \in Orders => o = c
  BY <1>1 DEF BeforePayment, PaymentDropped
<1> HIDE DEF o, r
<1>6. Types'
  BY <1>2, <1>3, <1>4 DEF Types
<1>7. call'[c] = r /\ \A d \in Calls \ {c} : call'[d] = call[d]
  BY <1>3 DEF Types
<1>8. BeforePayment'
  <2>1. Orders \subseteq Calls
    BY DEF Calls
  <2> QED
    BY <1>2, <1>4, <1>5, <1>7, <2>1 DEF BeforePayment
<1>9. CallsHoldTruth'
  BY <1>2, <1>3, <1>4, <1>7 DEF CallsHoldTruth, Approvals
<1>10. Accounting'
  BY <1>1, <1>3, <1>4 DEF Accounting, Approvals
<1> QED
  BY <1>6, <1>8, <1>9, <1>10

LEMMA RestartStep ==
    ASSUME MpInv, Restart
    PROVE  MpInv'
<1> USE DEF MpInv
<1>1. Idle.pc = "idle"
  BY DEF Idle
<1>2. call' = [c \in Calls |-> Idle] /\ UNCHANGED <<mp, payment, counted, events, confirmed, unsent, dropped>>
  BY DEF Restart, LoseRequests
<1>3. \A o \in Orders : phase'[o] \in {phase[o], "lost"}
  BY DEF Restart, LoseRequests
<1>4. phase' \in [Orders -> Phases]
  BY DEF Restart, LoseRequests, Types, Phases
<1>5. Types'
  BY <1>2, <1>4 DEF Types
<1>6. BeforePayment'
  BY <1>1, <1>2, <1>3 DEF BeforePayment, Calls
<1>7. CallsHoldTruth' /\ Accounting'
  BY <1>1, <1>2 DEF CallsHoldTruth, Accounting, Approvals
<1> QED
  BY <1>5, <1>6, <1>7

\* The credentials, a notification that is dropped, and the back office.
LEMMA OtherStep ==
    ASSUME MpInv,
           \/ ExchangeCodeAndStore \/ Disconnect \/ TokenExpires
           \/ \E n \in Notes : DropNote(n)
           \/ BackOffice /\ UNCHANGED mpVars
           \/ UNCHANGED vars
    PROVE  MpInv'
<1> USE DEF MpInv
<1>1. UNCHANGED <<mp, phase, counted, call, events, confirmed, unsent, dropped>>
  BY DEF ExchangeCodeAndStore, Disconnect, TokenExpires, DropNote, BackOffice, CheckStatus,
         WriteStatus, ReadForCancel, CommitCancel, UpdatePayment, vars, mpVars, bookVars,
         checkoutVars
<1>2. payment' \in [Orders -> Payments \cup {"NONE"}]
  BY OrderBookAssumption
     DEF ExchangeCodeAndStore, Disconnect, TokenExpires, DropNote, BackOffice, CheckStatus,
         WriteStatus, ReadForCancel, CommitCancel, UpdatePayment, vars, bookVars,
         checkoutVars, Types
<1> QED
  BY <1>1, <1>2 DEF Types, BeforePayment, CallsHoldTruth, Accounting, Approvals

LEMMA StepMp == MpInv /\ [Next]_vars => MpInv'
<1> SUFFICES ASSUME MpInv, [Next]_vars
             PROVE  MpInv'
  OBVIOUS
<1>1. ASSUME NEW o \in Orders,
             \/ (Price(o) \/ CreateOrder(o)) /\ UNCHANGED mpVars
             \/ PaymentRefused(o)
      PROVE  MpInv'
  BY <1>1, PhaseStep
<1>2. ASSUME NEW o \in Orders, StartPayment(o) \/ CreatePayment(o) \/ CheckoutFails(o)
      PROVE  MpInv'
  BY <1>2, RequestStep
<1>3. ASSUME NEW o \in Orders, PaymentMoves(o)
      PROVE  MpInv'
  BY <1>3, PaymentStep
<1>4. ASSUME NEW c \in Calls,
             \/ ApplyOther(c) \/ MarkOrderPaid(c)
             \/ PaymentDropped(c) \/ SendOrderCreated(c)
      PROVE  MpInv'
  BY <1>4, ApplyStep, PaidStep, DropStep, SendStep
<1> QED
  BY <1>1, <1>2, <1>3, <1>4, HookStep, OtherStep, RestartStep DEF Next, Proceed

-----------------------------------------------------------------------------
(***************************************************************************)
(* The theorems.                                                           *)
(***************************************************************************)

\* The invariant of the checkout: what calls hold is true, an order is counted
\* once exactly when it is in the MercadoPagoEvent table, and only approvals are.
THEOREM MpInvariant == Spec => []MpInv
BY InitMp, StepMp, PTL DEF Spec

\* order/created is only raised for an order whose payment is in the book, or of whose
\* approval the insert failed, for any number of orders, handlers, lost replies,
\* failing inserts, repetitions and restarts.
THEOREM ConfirmationsHavePayment == Spec => []ConfirmationHasPayment
<1>1. MpInv => ConfirmationHasPayment
  <2>1. ASSUME MpInv, NEW o \in confirmed \cup unsent
        PROVE  o \in Orders /\ (counted[o] > 0 \/ o \in dropped)
    BY <2>1 DEF MpInv, Accounting, Approvals
  <2> QED
    BY <2>1 DEF ConfirmationHasPayment
<1> QED
  BY <1>1, MpInvariant, PTL

\* As long as no admin sets a payment to PAID: an order that says PAID is in the
\* MercadoPagoEvent table.
PaidIsRecorded == \A o \in Orders : payment[o] = "PAID" => o \in events

LEMMA InitRecorded == Init => PaidIsRecorded
BY DEF Init, BookInit, PaidIsRecorded

LEMMA StepRecorded ==
    ASSUME "PAID" \notin ManualPayments, MpInv, PaidIsRecorded, [Next]_vars
    PROVE  PaidIsRecorded'
<1> USE DEF MpInv
<1>1. ASSUME NEW c \in Calls, ApplyOther(c)
      PROVE  PaidIsRecorded'
  <2>1. PICK s \in {"FAILED", "REFUNDED", "PENDING"} :
           payment' = [payment EXCEPT ![call[c].order] = s]
    BY <1>1 DEF ApplyOther, PaymentFor
  <2>2. UNCHANGED events
    BY <1>1 DEF ApplyOther
  <2> QED
    BY <2>1, <2>2 DEF PaidIsRecorded, Types
<1>2. ASSUME NEW c \in Calls, MarkOrderPaid(c)
      PROVE  PaidIsRecorded'
  <2>1. /\ events' = events \cup {call[c].order}
        /\ payment' = payment \/ payment' = [payment EXCEPT ![call[c].order] = "PAID"]
    BY <1>2 DEF MarkOrderPaid, AccountPayment
  <2> QED
    BY <2>1 DEF PaidIsRecorded, Types
<1>3. ASSUME NEW o \in Orders, CreateOrder(o), UNCHANGED mpVars
      PROVE  PaidIsRecorded'
  <2>1. payment' = [payment EXCEPT ![o] = "PENDING"] /\ UNCHANGED events
    BY <1>3 DEF CreateOrder, mpVars
  <2> QED
    BY <2>1 DEF PaidIsRecorded, Types
<1>4. ASSUME NEW o \in Orders, NEW p \in ManualPayments, UpdatePayment(o, p), UNCHANGED mpVars
      PROVE  PaidIsRecorded'
  <2>1. payment' = [payment EXCEPT ![o] = p] /\ UNCHANGED events /\ p # "PAID"
    BY <1>4 DEF UpdatePayment, mpVars
  <2> QED
    BY <2>1 DEF PaidIsRecorded, Types
<1>5. ASSUME UNCHANGED <<payment, events>>
      PROVE  PaidIsRecorded'
  BY <1>5 DEF PaidIsRecorded
<1>6. ASSUME NEW o \in Orders,
             \/ Price(o) /\ UNCHANGED mpVars
             \/ PaymentRefused(o) \/ StartPayment(o) \/ CreatePayment(o)
             \/ CheckoutFails(o) \/ PaymentMoves(o)
      PROVE  UNCHANGED <<payment, events>>
  BY <1>6 DEF Price, mpVars, bookVars, PaymentRefused, StartPayment, CreatePayment,
              CheckoutFails, PaymentMoves, Becomes
<1>7. ASSUME NEW c \in Calls,
             \/ RefreshToken(c) \/ GetPayment(c) \/ SendOrderCreated(c) \/ HookFails(c)
             \/ PaymentDropped(c)
             \/ \E n \in Notes : TakeNote(c, n)
      PROVE  UNCHANGED <<payment, events>>
  BY <1>7 DEF RefreshToken, GetPayment, SendOrderCreated, HookFails, PaymentDropped, TakeNote,
              bookVars
<1>8. ASSUME NEW a \in Admins,
             \/ \E o \in Orders, t \in Statuses : CheckStatus(a, o, t)
             \/ WriteStatus(a) \/ ReadForCancel(a) \/ CommitCancel(a),
             UNCHANGED mpVars
      PROVE  UNCHANGED <<payment, events>>
  BY <1>8 DEF CheckStatus, WriteStatus, ReadForCancel, CommitCancel, checkoutVars, mpVars
<1>9. ASSUME \/ ExchangeCodeAndStore \/ Disconnect \/ TokenExpires \/ Restart
             \/ UNCHANGED vars \/ \E n \in Notes : DropNote(n)
      PROVE  UNCHANGED <<payment, events>>
  BY <1>9 DEF ExchangeCodeAndStore, Disconnect, TokenExpires, Restart, LoseRequests, DropNote,
              vars, bookVars, mpVars
<1>10. Hooks \subseteq Calls
  BY DEF Calls
<1> QED
  BY <1>1, <1>2, <1>3, <1>4, <1>5, <1>6, <1>7, <1>8, <1>9, <1>10
     DEF Next, Proceed, BackOffice

\* An order is PAID only when its approval was accounted for, and an approval is
\* accounted for at most once, for every number of handlers and repetitions.
THEOREM PaidOnce == "PAID" \notin ManualPayments => (Spec => []PaidIsAccountedOnce)
<1> SUFFICES ASSUME "PAID" \notin ManualPayments
             PROVE  Spec => []PaidIsAccountedOnce
  OBVIOUS
<1>1. MpInv /\ PaidIsRecorded /\ [Next]_vars => PaidIsRecorded'
  BY StepRecorded
<1>2. MpInv /\ PaidIsRecorded => PaidIsAccountedOnce
  BY DEF MpInv, Accounting, PaidIsRecorded, PaidIsAccountedOnce
<1> QED
  BY <1>1, <1>2, InitRecorded, MpInvariant, PTL DEF Spec

-----------------------------------------------------------------------------
(***************************************************************************)
(* Refinement of the payment promise: a charge is the step by which a      *)
(* payment becomes approved, an accounting the transaction that inserts    *)
(* the event, a drop the insert that fails, a confirmation the             *)
(* inngest.send.  All else stutters.                                       *)
(***************************************************************************)
Announced == confirmed \cup unsent

\* A step of the promise, in the checkout's terms.
PromiseMove ==
    \/ UNCHANGED <<Approvals, counted, Announced, dropped>>
    \/ \E o \in Orders :
          \/ Approvals' = Approvals \cup {o} /\ UNCHANGED <<counted, Announced, dropped>>
          \/ /\ o \in Approvals /\ counted[o] = 0
             /\ counted' = [counted EXCEPT ![o] = 1]
             /\ UNCHANGED <<Approvals, Announced, dropped>>
          \/ /\ o \in Approvals /\ counted[o] = 0
             /\ dropped' = dropped \cup {o}
             /\ UNCHANGED <<Approvals, counted, Announced>>
          \/ /\ counted[o] = 1 \/ o \in dropped
             /\ Announced' = Announced \cup {o}
             /\ UNCHANGED <<Approvals, counted, dropped>>

LEMMA PromiseStep ==
    ASSUME MpInv, [Next]_vars
    PROVE  PromiseMove
<1> USE DEF MpInv
<1> DEFINE Goal == PromiseMove
<1> USE DEF PromiseMove
<1>1. ASSUME NEW o \in Orders, CreatePayment(o) \/ PaymentMoves(o)
      PROVE  Goal
  <2>1. UNCHANGED <<counted, confirmed, unsent, dropped>>
    BY <1>1 DEF CreatePayment, PaymentMoves, Becomes, bookVars
  <2>2. PICK s \in MpStatuses : mp' = [mp EXCEPT ![o] = s] /\ (o \in Approvals => s = "refunded")
    <3>1. CASE CreatePayment(o)
      <4>1. o \in Calls
        BY DEF Calls
      <4>2. mp[o] = "none"
        BY <3>1 DEF CreatePayment, BeforePayment
      <4> QED
        BY <3>1, <4>2 DEF CreatePayment, Approvals
    <3>2. CASE PaymentMoves(o)
      BY <3>2 DEF PaymentMoves, Becomes, MpStatuses, Approvals
    <3> QED
      BY <1>1, <3>1, <3>2
  <2>3. Approvals' = Approvals \/ Approvals' = Approvals \cup {o}
    BY <2>2 DEF Approvals, Types
  <2> QED
    BY <2>1, <2>3 DEF Announced
<1>2. ASSUME NEW c \in Calls, MarkOrderPaid(c)
      PROVE  Goal
  <2> DEFINE o == call[c].order
  <2>1. o \in Approvals /\ o \in Orders
    BY <1>2, CallShape DEF MarkOrderPaid, Approved, CallsHoldTruth
  <2>2. UNCHANGED <<Approvals, Announced, dropped>>
    BY <1>2 DEF MarkOrderPaid, Approvals, Announced
  <2>3. CASE o \in events
    <3>1. counted' = counted
      BY <1>2, <2>3 DEF MarkOrderPaid, Recorded
    <3> QED
      BY <2>2, <3>1
  <2>4. CASE o \notin events
    <3>1. counted[o] = 0 /\ counted' = [counted EXCEPT ![o] = @ + 1]
      BY <1>2, <2>1, <2>4 DEF MarkOrderPaid, Recorded, AccountPayment, Accounting
    <3>2. counted' = [counted EXCEPT ![o] = 1]
      BY <3>1
    <3> HIDE DEF o
    <3> QED
      BY <2>1, <2>2, <3>1, <3>2
  <2> QED
    BY <2>3, <2>4
<1>3. ASSUME NEW c \in Calls, SendOrderCreated(c)
      PROVE  Goal
  <2> DEFINE o == call[c].order
  <2>1. o \in Orders /\ (counted[o] = 1 \/ o \in dropped)
    BY <1>3 DEF SendOrderCreated, ReadyToSend, CallsHoldTruth, Accounting, Approvals
  <2>2. UNCHANGED <<Approvals, counted, dropped>>
    BY <1>3 DEF SendOrderCreated, Approvals
  <2>3. Announced' = Announced \cup {o}
    BY <1>3 DEF SendOrderCreated, Announced
  <2> HIDE DEF o
  <2> QED
    BY <2>1, <2>2, <2>3
<1>4. ASSUME UNCHANGED <<mp, counted, confirmed, unsent, dropped>>
      PROVE  Goal
  BY <1>4 DEF Approvals, Announced
<1>5. ASSUME NEW o \in Orders,
             \/ (Price(o) \/ CreateOrder(o)) /\ UNCHANGED mpVars
             \/ PaymentRefused(o) \/ StartPayment(o) \/ CheckoutFails(o)
      PROVE  UNCHANGED <<mp, counted, confirmed, unsent, dropped>>
  BY <1>5 DEF Price, CreateOrder, mpVars, bookVars, PaymentRefused, StartPayment, CheckoutFails
<1>6. ASSUME NEW c \in Calls,
             \/ RefreshToken(c) \/ GetPayment(c) \/ ApplyOther(c) \/ HookFails(c)
             \/ \E n \in Notes : TakeNote(c, n)
      PROVE  UNCHANGED <<mp, counted, confirmed, unsent, dropped>>
  BY <1>6 DEF RefreshToken, GetPayment, ApplyOther, HookFails, TakeNote, bookVars
<1>7. ASSUME BackOffice, UNCHANGED mpVars
      PROVE  UNCHANGED <<mp, counted, confirmed, unsent, dropped>>
  BY <1>7 DEF BackOffice, CheckStatus, WriteStatus, ReadForCancel, CommitCancel, UpdatePayment,
              mpVars
<1>8. ASSUME \/ ExchangeCodeAndStore \/ Disconnect \/ TokenExpires \/ Restart
             \/ UNCHANGED vars \/ \E n \in Notes : DropNote(n)
      PROVE  UNCHANGED <<mp, counted, confirmed, unsent, dropped>>
  BY <1>8 DEF ExchangeCodeAndStore, Disconnect, TokenExpires, Restart, LoseRequests, DropNote,
              vars, bookVars, mpVars
<1>9. Hooks \subseteq Calls
  BY DEF Calls
<1>10. ASSUME NEW c \in Calls, PaymentDropped(c)
       PROVE  Goal
  <2> DEFINE o == call[c].order
  <2>1. o \in Approvals /\ o \in Orders
    BY <1>10, CallShape DEF PaymentDropped, Approved, CallsHoldTruth
  <2>2. counted[o] = 0
    BY <1>10, <2>1 DEF PaymentDropped, Recorded, Accounting
  <2>3. dropped' = dropped \cup {o} /\ UNCHANGED <<Approvals, counted, Announced>>
    BY <1>10 DEF PaymentDropped, Approvals, Announced, bookVars
  <2> HIDE DEF o
  <2> QED
    BY <2>1, <2>2, <2>3
<1> HIDE DEF Goal
<1>11. Goal
  BY <1>1, <1>2, <1>3, <1>4, <1>5, <1>6, <1>7, <1>8, <1>9, <1>10 DEF Next, Proceed
<1> QED
  BY <1>11 DEF Goal

\* The checkout through MercadoPago implements the safety of the payment promise:
\* an order is accounted for once, only after its payment was approved, and is
\* announced only when it was accounted for or its approval was dropped, which only
\* befalls an approved order not accounted for.
THEOREM MercadoPagoKeepsPromise == Spec => KeepsPromiseSafety
<1>1. Init => Promise!PromiseInit
  BY DEF Init, BookInit, Promise!PromiseInit
<1>2. MpInv /\ [Next]_vars => [Promise!PromiseNext]_Promise!promiseVars
  BY PromiseStep
     DEF Promise!PromiseNext, Promise!promiseVars, Promise!Charge, Promise!Account,
         Promise!Drop, Promise!Confirm, PromiseMove, Approvals, Announced
<1> QED
  BY <1>1, <1>2, MpInvariant, PTL DEF Spec, KeepsPromiseSafety, Promise!PromiseSafety
-----------------------------------------------------------------------------
(***************************************************************************)
(* Types.  That only payments that exist are linked needs that a call that *)
(* will link an order has seen its payment, and that a handler was started *)
(* for a linked one.                                                       *)
(***************************************************************************)

\* The payment a call is about exists, unless a checkout request is yet to create it.
CallsHavePayments ==
    \A c \in Calls :
        /\ call[c].pc # "idle" => call[c].note \in notes \cup {NoNote}
        /\ call[c].pc # "idle" /\ (c \in Hooks \/ call[c].pc \in {"got", "sending"})
              => mp[call[c].order] # "none"

Records ==
    /\ linked \subseteq {o \in Orders : mp[o] # "none"}
    /\ events \subseteq linked
    /\ tok \in {"none", "fresh", "stale"}
    /\ notes \subseteq Notes
    /\ acked \subseteq notes
    /\ faults \in 0..FaultBound

RecordsInv == CallsHavePayments /\ Records

\* What the steps of a call leave behind: payments stay, notifications add up, and
\* the calls that are not done are as they were, or satisfy what is asked of them.
LEMMA RecordsKeep ==
    ASSUME Types, RecordsInv, NEW c \in Calls, NEW r \in {Idle} \cup InCall,
           call' = [call EXCEPT ![c] = r],
           r.pc # "idle" => r.note \in notes \cup {NoNote},
           r.pc # "idle" /\ (c \in Hooks \/ r.pc \in {"got", "sending"})
              => mp'[r.order] # "none",
           \A o \in Orders : mp[o] # "none" => mp'[o] # "none",
           notes \subseteq notes'
    PROVE  CallsHavePayments'
<1> USE DEF RecordsInv
<1>1. call'[c] = r /\ \A d \in Calls \ {c} : call'[d] = call[d]
  BY DEF Types
<1>2. ASSUME NEW d \in Calls \ {c}
      PROVE  /\ call'[d].pc # "idle" => call'[d].note \in notes' \cup {NoNote}
             /\ call'[d].pc # "idle" /\ (d \in Hooks \/ call'[d].pc \in {"got", "sending"})
                   => mp'[call'[d].order] # "none"
  <2>1. call[d].pc # "idle" => call[d].order \in Orders
    BY CallShape
  <2> QED
    BY <1>1, <2>1 DEF CallsHavePayments
<1> QED
  BY <1>1, <1>2 DEF CallsHavePayments

\* The steps that only change what a call holds.
LEMMA RecordsCallStep ==
    ASSUME MpInv, RecordsInv,
           \/ \E o \in Orders : StartPayment(o) \/ CheckoutFails(o)
           \/ \E c \in Calls : RefreshToken(c)
           \/ \E h \in Hooks : GetPayment(h) \/ HookFails(h)
           \/ \E h \in Hooks, n \in Notes : TakeNote(h, n)
    PROVE  RecordsInv'
<1> USE DEF MpInv
<1>0. Hooks \subseteq Calls /\ Orders \subseteq Calls /\ \A h \in Hooks : h \notin Orders
  BY MercadoPagoAssumption DEF Calls
<1>i. Idle.pc = "idle"
  BY DEF Idle
<1>f. Fault => faults' \in 0..FaultBound
  BY MercadoPagoAssumption DEF Fault, RecordsInv, Records
<1>1. ASSUME NEW o \in Orders, StartPayment(o)
      PROVE  RecordsInv'
  <2> DEFINE r == [pc |-> AfterRead, order |-> o, note |-> NoNote, saw |-> "none"]
  <2>1. r \in InCall /\ r.pc \in {"stale", "ready"} /\ r.note = NoNote
    BY DEF InCall, AfterRead
  <2>2. call' = [call EXCEPT ![o] = r] /\ UNCHANGED <<mp, linked, tok, notes, acked, events, faults>>
    BY <1>1 DEF StartPayment
  <2> HIDE DEF r
  <2>3. CallsHavePayments'
    BY <1>0, <2>1, <2>2, RecordsKeep
  <2> QED
    BY <2>2, <2>3 DEF RecordsInv, Records
<1>2. ASSUME NEW o \in Orders, CheckoutFails(o)
      PROVE  RecordsInv'
  <2>1. /\ call' = [call EXCEPT ![o] = Idle] /\ faults' \in 0..FaultBound
        /\ UNCHANGED <<mp, linked, tok, notes, acked, events>>
    BY <1>2, <1>f DEF CheckoutFails
  <2>2. CallsHavePayments'
    BY <1>0, <1>i, <2>1, RecordsKeep
  <2> QED
    BY <2>1, <2>2 DEF RecordsInv, Records
<1>3. ASSUME NEW c \in Calls, RefreshToken(c)
      PROVE  RecordsInv'
  <2> DEFINE r == [call[c] EXCEPT !.pc = "ready"]
  <2>1. call[c] \in InCall /\ call[c].pc = "stale"
    BY <1>3, CallShape DEF RefreshToken
  <2>2. /\ r \in InCall /\ r.pc = "ready" /\ r.order = call[c].order
        /\ r.note = call[c].note
    BY <2>1 DEF InCall
  <2>3. /\ call' = [call EXCEPT ![c] = r] /\ tok' = "fresh"
        /\ UNCHANGED <<mp, linked, notes, acked, events, faults>>
    BY <1>3 DEF RefreshToken
  <2> HIDE DEF r
  <2>4. r.note \in notes \cup {NoNote} /\ (c \in Hooks => mp[r.order] # "none")
    BY <2>1, <2>2 DEF RecordsInv, CallsHavePayments
  <2>5. CallsHavePayments'
    BY <2>2, <2>3, <2>4, RecordsKeep
  <2> QED
    BY <2>3, <2>5 DEF RecordsInv, Records
<1>4. ASSUME NEW h \in Hooks, GetPayment(h)
      PROVE  RecordsInv'
  <2> DEFINE r == [call[h] EXCEPT !.pc = "got", !.saw = mp[call[h].order]]
  <2>1. call[h] \in InCall /\ call[h].order \in Orders /\ call[h].pc = "ready"
    BY <1>0, <1>4, CallShape DEF GetPayment
  <2>2. mp[call[h].order] \in MpStatuses \cup {"none"}
    BY <2>1 DEF Types
  <2>3. /\ r \in InCall /\ r.pc = "got" /\ r.order = call[h].order
        /\ r.note = call[h].note
    BY <2>1, <2>2 DEF InCall
  <2>4. /\ call' = [call EXCEPT ![h] = r]
        /\ UNCHANGED <<mp, linked, tok, notes, acked, events, faults>>
    BY <1>4 DEF GetPayment
  <2> HIDE DEF r
  <2>5. r.note \in notes \cup {NoNote} /\ mp[r.order] # "none"
    BY <1>0, <2>1, <2>3 DEF RecordsInv, CallsHavePayments
  <2>6. CallsHavePayments'
    BY <1>0, <2>3, <2>4, <2>5, RecordsKeep
  <2> QED
    BY <2>4, <2>6 DEF RecordsInv, Records
<1>5. ASSUME NEW h \in Hooks, HookFails(h)
      PROVE  RecordsInv'
  <2>1. /\ call' = [call EXCEPT ![h] = Idle] /\ faults' \in 0..FaultBound
        /\ UNCHANGED <<mp, linked, tok, notes, acked, events>>
    BY <1>5, <1>f DEF HookFails, AnsweredOnError
  <2>2. CallsHavePayments'
    BY <1>0, <1>i, <2>1, RecordsKeep
  <2> QED
    BY <2>1, <2>2 DEF RecordsInv, Records
<1>6. ASSUME NEW h \in Hooks, NEW n \in Notes, TakeNote(h, n)
      PROVE  RecordsInv'
  <2> DEFINE r == [pc |-> AfterRead, order |-> n[1], note |-> n, saw |-> "none"]
  <2>1. r \in InCall /\ r.note = n /\ r.order = n[1]
    BY DEF InCall, AfterRead, Notes
  <2>2. n \in notes /\ mp[n[1]] # "none"
    BY <1>6 DEF TakeNote, RecordsInv, Records
  <2>3. /\ call' = [call EXCEPT ![h] = r] /\ faults' \in 0..FaultBound
        /\ UNCHANGED <<mp, linked, tok, notes, acked, events>>
    BY <1>6, <1>f DEF TakeNote, RecordsInv, Records
  <2> HIDE DEF r
  <2>4. CallsHavePayments'
    BY <1>0, <2>1, <2>2, <2>3, RecordsKeep
  <2> QED
    BY <2>3, <2>4 DEF RecordsInv, Records
<1> QED
  BY <1>1, <1>2, <1>3, <1>4, <1>5, <1>6

\* A payment is created, or goes on.
LEMMA RecordsPaymentStep ==
    ASSUME MpInv, RecordsInv, NEW o \in Orders, CreatePayment(o) \/ PaymentMoves(o)
    PROVE  RecordsInv'
<1> USE DEF MpInv
<1>0. o \in Calls
  BY DEF Calls
<1>1. PICK s \in MpStatuses : mp' = [mp EXCEPT ![o] = s] /\ notes' = notes \cup {<<o, s>>}
  BY DEF CreatePayment, PaymentMoves, Becomes, MpStatuses
<1>2. /\ \A p \in Orders : mp[p] # "none" => mp'[p] # "none"
      /\ mp'[o] # "none"
  BY <1>1 DEF Types, MpStatuses
<1>3. UNCHANGED <<linked, tok, acked, events>> /\ faults' \in 0..FaultBound
  BY MercadoPagoAssumption
     DEF CreatePayment, PaymentMoves, Becomes, Fault, RecordsInv, Records
<1>4. Records'
  BY <1>1, <1>2, <1>3 DEF RecordsInv, Records, Notes
<1>5. CASE CreatePayment(o)
  <2>1. call[o] \in InCall /\ call[o].pc = "ready" /\ call[o].order = o
    BY <1>0, <1>5, CallShape DEF CreatePayment, BeforePayment
  <2>2. PICK r \in {Idle} \cup InCall :
           /\ call' = [call EXCEPT ![o] = r]
           /\ r.pc # "idle" => r.order = o /\ r.note = call[o].note
    <3>0. Idle.pc = "idle" /\ Idle \in {Idle} \cup InCall
      BY DEF Idle
    <3>1. CASE call' = [call EXCEPT ![o] = Idle]
      BY <3>0, <3>1
    <3>2. ASSUME NEW t \in MpStatuses, call' = [call EXCEPT ![o].pc = "got", ![o].saw = t]
          PROVE  \E r \in InCall : /\ call' = [call EXCEPT ![o] = r]
                                   /\ r.order = o /\ r.note = call[o].note
      <4> DEFINE r == [call[o] EXCEPT !.pc = "got", !.saw = t]
      <4>1. r \in InCall /\ r.order = o /\ r.note = call[o].note
        BY <2>1 DEF InCall
      <4>2. call' = [call EXCEPT ![o] = r]
        BY <3>2
      <4> QED
        BY <4>1, <4>2
    <3> QED
      BY <1>5, <3>1, <3>2 DEF CreatePayment
  <2>3. r.pc # "idle" => r.note \in notes \cup {NoNote} /\ mp'[r.order] # "none"
    BY <1>0, <1>2, <2>1, <2>2 DEF RecordsInv, CallsHavePayments
  <2>4. CallsHavePayments'
    BY <1>0, <1>1, <1>2, <2>2, <2>3, RecordsKeep
  <2> QED
    BY <1>4, <2>4 DEF RecordsInv
<1>6. CASE PaymentMoves(o)
  <2>1. UNCHANGED call
    BY <1>6 DEF PaymentMoves, Becomes
  <2>2. \A c \in Calls : call[c].pc # "idle" => call[c].order \in Orders
    BY CallShape
  <2>3. CallsHavePayments'
    BY <1>1, <1>2, <2>1, <2>2 DEF RecordsInv, CallsHavePayments
  <2> QED
    BY <1>4, <2>3 DEF RecordsInv
<1> QED
  BY <1>5, <1>6

\* The end of a call: the payment is in the book, or its state is, and the
\* notification is answered.
LEMMA RecordsApplyStep ==
    ASSUME MpInv, RecordsInv, NEW c \in Calls,
           \/ ApplyOther(c) \/ MarkOrderPaid(c)
           \/ PaymentDropped(c) \/ SendOrderCreated(c)
    PROVE  RecordsInv'
<1> USE DEF MpInv
<1> DEFINE o == call[c].order
<1>1. /\ call[c] \in InCall /\ o \in Orders /\ mp[o] # "none"
      /\ call[c].note \in notes \cup {NoNote}
  BY CallShape
     DEF ApplyOther, MarkOrderPaid, PaymentDropped, SendOrderCreated, ReadyToSend, RecordsInv, CallsHavePayments
<1>2. UNCHANGED <<mp, tok, notes>> /\ faults' \in 0..FaultBound
  BY MercadoPagoAssumption
     DEF ApplyOther, MarkOrderPaid, PaymentDropped, SendOrderCreated, Fault, RecordsInv, Records
<1>3. linked' \subseteq linked \cup {o} /\ linked \subseteq linked'
  BY DEF ApplyOther, MarkOrderPaid, PaymentDropped, SendOrderCreated
<1>4. events' \subseteq linked'
  <2>1. CASE MarkOrderPaid(c)
    BY <2>1 DEF MarkOrderPaid, Recorded, RecordsInv, Records
  <2>2. CASE ApplyOther(c) \/ PaymentDropped(c) \/ SendOrderCreated(c)
    BY <1>3, <2>2 DEF ApplyOther, PaymentDropped, SendOrderCreated, RecordsInv, Records
  <2> QED
    BY <2>1, <2>2
<1>5. acked' \subseteq notes'
  BY <1>1, <1>2 DEF ApplyOther, MarkOrderPaid, PaymentDropped, SendOrderCreated, Done, RecordsInv, Records
<1>6. Records'
  BY <1>1, <1>2, <1>3, <1>4, <1>5 DEF RecordsInv, Records
<1>7. PICK r \in {Idle} \cup InCall :
         /\ call' = [call EXCEPT ![c] = r]
         /\ r.pc # "idle" => r.order = o /\ r.note = call[c].note
  <2>1. CASE MarkOrderPaid(c) \/ PaymentDropped(c)
    <3> DEFINE r == [call[c] EXCEPT !.pc = "sending"]
    <3>1. r \in InCall /\ r.order = o /\ r.note = call[c].note
      BY <1>1 DEF InCall
    <3>2. call' = [call EXCEPT ![c] = r]
      BY <2>1 DEF MarkOrderPaid, PaymentDropped
    <3> QED
      BY <3>1, <3>2
  <2>2. CASE Done(c)
    <3>1. Idle.pc = "idle" /\ Idle \in {Idle} \cup InCall
      BY DEF Idle
    <3> QED
      BY <2>2, <3>1 DEF Done
  <2> QED
    BY <2>1, <2>2 DEF ApplyOther, SendOrderCreated
<1> HIDE DEF o
<1>8. CallsHavePayments'
  BY <1>1, <1>2, <1>7, RecordsKeep
<1> QED
  BY <1>6, <1>8 DEF RecordsInv

\* The credentials, a notification that finds no order, a restart, and what has
\* nothing to do with MercadoPago.
LEMMA RecordsOtherStep ==
    ASSUME RecordsInv,
           \/ \E o \in Orders : (Price(o) \/ CreateOrder(o)) /\ UNCHANGED mpVars
           \/ \E o \in Orders : PaymentRefused(o)
           \/ ExchangeCodeAndStore \/ Disconnect \/ TokenExpires
           \/ \E n \in Notes : DropNote(n)
           \/ BackOffice /\ UNCHANGED mpVars
           \/ Restart
           \/ UNCHANGED vars
    PROVE  RecordsInv'
<1> USE DEF RecordsInv
<1>1. CASE UNCHANGED mpVars
  BY <1>1 DEF mpVars, Records, CallsHavePayments
<1>2. CASE ExchangeCodeAndStore \/ Disconnect \/ TokenExpires
  BY <1>2 DEF ExchangeCodeAndStore, Disconnect, TokenExpires, Records, CallsHavePayments
<1>3. ASSUME NEW n \in Notes, DropNote(n)
      PROVE  RecordsInv'
  BY <1>3 DEF DropNote, Records, CallsHavePayments
<1>4. CASE Restart
  <2>1. faults' \in 0..FaultBound
    BY <1>4, MercadoPagoAssumption DEF Restart, Fault, Records
  <2>2. \A c \in Calls : call'[c].pc = "idle"
    BY <1>4 DEF Restart, Idle
  <2> QED
    BY <1>4, <2>1, <2>2 DEF Restart, Records, CallsHavePayments
<1>5. (\E o \in Orders : PaymentRefused(o)) => UNCHANGED mpVars
  BY DEF PaymentRefused
<1> QED
  BY <1>1, <1>2, <1>3, <1>4, <1>5 DEF vars

LEMMA StepRecords ==
    ASSUME MpInv, RecordsInv, [Next]_vars
    PROVE  RecordsInv'
BY RecordsCallStep, RecordsPaymentStep, RecordsApplyStep, RecordsOtherStep DEF Next, Proceed

LEMMA InitRecords == Init => RecordsInv
BY MercadoPagoAssumption DEF Init, RecordsInv, Records, CallsHavePayments, Idle

-----------------------------------------------------------------------------
(***************************************************************************)
(* The order book, which the same lemmas keep as for Stripe.               *)
(***************************************************************************)

LEMMA IsBookStep ==
    ASSUME BookTypeOK, MpInv, [Next]_vars
    PROVE  [BookStep]_bookVars
<1> USE DEF MpInv
<1>1. ASSUME NEW o \in Orders, Price(o) \/ CreateOrder(o)
      PROVE  BookStep
  BY <1>1 DEF BookStep
<1>2. ASSUME NEW o \in Orders, PaymentRefused(o) \/ CreatePayment(o) \/ CheckoutFails(o)
      PROVE  Marks
  <2>1. PICK p \in {"lost", "intent"} : phase' = [phase EXCEPT ![o] = p]
    BY <1>2 DEF PaymentRefused, CreatePayment, CheckoutFails, OpenPhase
  <2>2. UNCHANGED <<payment, basket, code, cart, status, stock, redeemed, deskVars, counted, taken>>
    BY <1>2 DEF PaymentRefused, CreatePayment, CheckoutFails
  <2> QED
    BY <2>1, <2>2 DEF Marks, BookTypeOK, Phases
<1>3. ASSUME NEW c \in Calls, ApplyOther(c) \/ SendOrderCreated(c)
      PROVE  Marks
  <2>1. Done(c)
    BY <1>3 DEF ApplyOther, SendOrderCreated
  <2>2. phase' \in [Orders -> Phases] /\ \A o \in Orders : phase'[o] \in {phase[o], "open"}
    BY <2>1, DoneStep
  <2>3. payment' \in [Orders -> Payments \cup {"NONE"}]
    BY <1>3 DEF ApplyOther, SendOrderCreated, PaymentFor, BookTypeOK, Payments
  <2>4. UNCHANGED <<basket, code, cart, status, stock, redeemed, deskVars, counted, taken>>
    BY <1>3 DEF ApplyOther, SendOrderCreated
  <2> QED
    BY <2>2, <2>3, <2>4 DEF Marks
<1>4. ASSUME NEW c \in Calls, MarkOrderPaid(c)
      PROVE  [BookStep]_bookVars
  <2> DEFINE o == call[c].order
  <2>1. o \in Approvals
    BY <1>4 DEF MarkOrderPaid, Approved, CallsHoldTruth
  <2>2. o \in Orders /\ phase[o] \notin {"new", "priced"}
    BY <2>1 DEF Approvals, BeforePayment
  <2> HIDE DEF o
  <2>3. CASE o \in events
    BY <1>4, <2>3 DEF MarkOrderPaid, Recorded, checkoutVars, deskVars, bookVars, o
  <2>4. CASE o \notin events
    <3>1. counted[o] = 0
      BY <2>2, <2>4 DEF Accounting
    <3>2. AccountPayment(o) /\ UNCHANGED <<checkoutVars, status, deskVars>>
      BY <1>4, <2>4 DEF MarkOrderPaid, Recorded, o
    <3> QED
      BY <2>2, <3>1, <3>2 DEF AccountsOnce, BookStep
  <2> QED
    BY <2>3, <2>4
<1>5. ASSUME NEW o \in Orders, StartPayment(o) \/ PaymentMoves(o)
      PROVE  UNCHANGED bookVars
  BY <1>5 DEF StartPayment, PaymentMoves, Becomes
<1>6. ASSUME \/ \E c \in Calls : RefreshToken(c) \/ PaymentDropped(c)
             \/ \E h \in Hooks : GetPayment(h) \/ HookFails(h)
             \/ \E n \in Notes : DropNote(n) \/ \E h \in Hooks : TakeNote(h, n)
             \/ ExchangeCodeAndStore \/ Disconnect \/ TokenExpires
             \/ UNCHANGED vars
      PROVE  UNCHANGED bookVars
  BY <1>6 DEF RefreshToken, PaymentDropped, GetPayment, HookFails, DropNote, TakeNote,
              ExchangeCodeAndStore, Disconnect, TokenExpires, vars
<1> QED
  BY <1>1, <1>2, <1>3, <1>4, <1>5, <1>6 DEF Next, Proceed, BookStep, Restart

\* The order book is kept by a shop that is paid through MercadoPago: its stock is
\* balanced and its coupon counters are backed, however notifications and the
\* checkout's own answer meet.
THEOREM BookAlwaysKept == Spec => []BookInv
<1>1. Init => BookInv
  <2>1. BookInit => Rows
    BY DEF BookInit, Rows, Placed, Idle
  <2> QED
    BY <2>1, BookInitType, BackedInit, StockInit DEF Init, BookInv
<1>2. MpInv /\ BookInv /\ [Next]_vars => BookInv'
  <2>1. ASSUME MpInv, BookInv, [Next]_vars PROVE [BookStep]_bookVars
    BY <2>1, IsBookStep DEF BookInv
  <2> QED
    BY <2>1, BookTypeStep, RowsStep, BackedStep, StockStep DEF BookInv
<1> QED
  BY <1>1, <1>2, MpInvariant, PTL DEF Spec

\* In every behaviour every variable holds a value of its type, and only payments
\* that exist are linked, notified or recorded as events.
THEOREM TypeCorrect == Spec => []TypeOK
<1>1. MpInv /\ RecordsInv /\ [Next]_vars => RecordsInv'
  BY StepRecords
<1>2. MpInv /\ RecordsInv /\ BookInv => TypeOK
  BY DEF MpInv, Types, Accounting, Approvals, RecordsInv, Records, BookInv, TypeOK
<1> QED
  BY <1>1, <1>2, InitRecords, MpInvariant, BookAlwaysKept, PTL DEF Spec
=============================================================================
