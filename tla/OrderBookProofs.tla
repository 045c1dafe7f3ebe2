--------------------------- MODULE OrderBookProofs --------------------------
(***************************************************************************)
(* What holds of the order book whichever provider the orders are paid     *)
(* with.  BookStep says what a provider may do to the book, and BookInv is *)
(* inductive under it: types, the ledger of the stock, and the bounds of   *)
(* the coupon counters.  StripeCheckoutProofs and MercadoPagoProofs show   *)
(* that every step of theirs is a BookStep, and so keeps BookInv.          *)
(***************************************************************************)
EXTENDS OrderBook, FiniteSetTheorems, WellFoundedInduction, TLAPS

\* A row exists from CreateOrder on, an order is not accounted for before, and
\* only rows that exist are on an admin's desk.
Rows ==
    /\ \A o \in Orders : phase[o] \in {"new", "priced"} => ~Placed(o) /\ counted[o] = 0
    /\ \A a \in Admins : desk[a].pc # "idle" => Placed(desk[a].order)

\* A provider accounts for the payment of an order once.
AccountsOnce ==
    \E o \in Orders :
        /\ phase[o] \notin {"new", "priced"}
        /\ counted[o] = 0
        /\ AccountPayment(o)
        /\ UNCHANGED <<checkoutVars, status, deskVars>>

\* A provider marks orders, and takes the checkout further.
Marks ==
    /\ payment' \in [Orders -> Payments \cup {"NONE"}]
    /\ phase' \in [Orders -> Phases]
    /\ \A o \in Orders : phase'[o] = phase[o] \/ phase'[o] \notin {"new", "priced"}
    /\ UNCHANGED <<basket, code, cart, status, stock, redeemed, deskVars, counted, taken>>

BookStep ==
    \/ \E o \in Orders : Price(o) \/ CreateOrder(o)
    \/ AccountsOnce
    \/ Marks
    \/ BackOffice
    \/ LoseRequests

-----------------------------------------------------------------------------
(***************************************************************************)
(* Types.                                                                  *)
(***************************************************************************)

LEMMA BookInitType == BookInit => BookTypeOK
BY OrderBookAssumption DEF BookInit, BookTypeOK, Phases, Statuses, Payments, EmptyBasket, Idle

\* What a basket holds are pairs of quantities.
LEMMA BasketType ==
    ASSUME BookTypeOK, NEW o \in Orders, NEW v \in Variants
    PROVE  /\ basket[o][v] \in Nat \X Nat
           /\ Deduct(stock[v], basket[o][v]) \in Int
           /\ Units(basket[o], v) \in Nat
<1>1. basket[o][v] \in Nat \X Nat
  BY OrderBookAssumption DEF BookTypeOK, EmptyBasket
<1>2. basket[o][v][1] \in Nat /\ basket[o][v][2] \in Nat
  BY <1>1
<1>3. stock[v] \in Int
  BY DEF BookTypeOK
<1> QED
  BY <1>1, <1>2, <1>3 DEF Deduct, DeductLine, Units

LEMMA CheckoutBookType ==
    ASSUME BookTypeOK, NEW o \in Orders, Price(o) \/ CreateOrder(o)
    PROVE  BookTypeOK'
<1>1. CASE Price(o)
  <2>1. basket' \in [Orders -> Baskets \cup {EmptyBasket}] /\ code' \in [Orders -> Codes \cup {NoCode}]
    BY <1>1 DEF Price, BookTypeOK
  <2>2. phase' \in [Orders -> Phases]
    BY <1>1 DEF Price, BookTypeOK, Phases
  <2> QED
    BY <1>1, <2>1, <2>2 DEF Price, BookTypeOK, deskVars, EmptyBasket, Statuses, Payments
<1>2. CASE CreateOrder(o)
  <2>1. Owner[o] \in Customers
    BY OrderBookAssumption
  <2>2. cart' \in [Customers -> SUBSET Variants]
    BY <1>2, <2>1 DEF CreateOrder, BookTypeOK
  <2> QED
    BY <1>2, <2>2 DEF CreateOrder, BookTypeOK, deskVars, Statuses, Payments, Phases
<1> QED
  BY <1>1, <1>2

\* The accounting of a payment keeps the types of what it writes.
LEMMA AccountType ==
    ASSUME BookTypeOK, NEW o \in Orders, AccountPayment(o)
    PROVE  /\ payment' \in [Orders -> Payments \cup {"NONE"}]
           /\ stock' \in [Variants -> Int]
           /\ redeemed' \in [Codes -> Int]
           /\ counted' \in [Orders -> Nat]
           /\ taken' \in [Orders -> [Variants -> Int]]
<1>1. \A v \in Variants : stock[v] \in Int /\ Deduct(stock[v], basket[o][v]) \in Int
  BY BasketType DEF BookTypeOK
<1>2. [v \in Variants |-> stock[v] - Deduct(stock[v], basket[o][v])] \in [Variants -> Int]
  BY <1>1
<1> QED
  BY <1>1, <1>2 DEF AccountPayment, BookTypeOK, Payments

LEMMA BackOfficeBookType ==
    ASSUME BookTypeOK, BackOffice
    PROVE  BookTypeOK'
<1>1. ASSUME NEW a \in Admins, NEW o \in Orders, NEW t \in Statuses, CheckStatus(a, o, t)
      PROVE  BookTypeOK'
  <2>1. status[o] \in Statuses
    BY <1>1 DEF CheckStatus, Placed, BookTypeOK
  <2>2. [pc |-> "checked", order |-> o, seen |-> status[o], target |-> t] \in Checked
    BY <2>1 DEF Checked
  <2>3. desk' \in [Admins -> {Idle} \cup Checked \cup Read]
    BY <1>1, <2>2 DEF CheckStatus, BookTypeOK
  <2>4. requests' \in 0..RequestBound
    BY <1>1, OrderBookAssumption DEF CheckStatus, BookTypeOK
  <2> QED
    BY <1>1, <2>3, <2>4 DEF CheckStatus, BookTypeOK, checkoutVars
<1>2. ASSUME NEW a \in Admins, WriteStatus(a)
      PROVE  BookTypeOK'
  <2>1. desk[a] \in Checked
    BY <1>2 DEF WriteStatus, BookTypeOK, Idle, Read
  <2>2. status' \in [Orders -> Statuses \cup {"NONE"}]
    BY <1>2, <2>1 DEF WriteStatus, BookTypeOK, Checked
  <2> QED
    BY <1>2, <2>2 DEF WriteStatus, BookTypeOK, checkoutVars
<1>3. ASSUME NEW a \in Admins, ReadForCancel(a)
      PROVE  BookTypeOK'
  <2>1. desk[a] \in Checked
    BY <1>3 DEF ReadForCancel, BookTypeOK, Idle, Read
  <2>2. [pc |-> "read", order |-> desk[a].order, seen |-> desk[a].seen,
         paid |-> payment[desk[a].order] = "PAID"] \in Read
    BY <2>1 DEF Checked, Read
  <2>3. desk' \in [Admins -> {Idle} \cup Checked \cup Read]
    BY <1>3, <2>2 DEF ReadForCancel, BookTypeOK
  <2> QED
    BY <1>3, <2>3 DEF ReadForCancel, BookTypeOK, checkoutVars
<1>4. ASSUME NEW a \in Admins, CommitCancel(a)
      PROVE  BookTypeOK'
  <2>1. desk[a] \in Read
    BY <1>4 DEF CommitCancel, BookTypeOK, Idle, Checked
  <2> DEFINE o == desk[a].order
  <2>2. o \in Orders
    BY <2>1 DEF Read
  <2>3. \A v \in Variants : stock[v] \in Int /\ UnitsBack(basket[o], v) \in Nat
    BY <2>2, BasketType DEF BookTypeOK, UnitsBack
  <2>4. \A c \in Codes : redeemed[c] \in Int /\ OneUseLess(redeemed[c]) \in Int
    BY DEF BookTypeOK, OneUseLess
  <2>5. /\ stock' \in [Variants -> Int]
        /\ redeemed' \in [Codes -> Int]
        /\ restored' \in [Orders -> Nat]
    <3>1. CASE Restores(desk[a])
      <4>1. stock' = [v \in Variants |-> stock[v] + UnitsBack(basket[o], v)]
        BY <1>4, <3>1 DEF CommitCancel
      <4>2. redeemed' = [c \in Codes |-> IF c = code[o] THEN OneUseLess(redeemed[c])
                                                        ELSE redeemed[c]]
        BY <1>4, <3>1 DEF CommitCancel
      <4>3. restored' = [restored EXCEPT ![o] = @ + 1]
        BY <1>4, <3>1 DEF CommitCancel
      <4> QED
        BY <4>1, <4>2, <4>3, <2>2, <2>3, <2>4 DEF BookTypeOK
    <3>2. CASE ~Restores(desk[a])
      BY <1>4, <3>2 DEF CommitCancel, BookTypeOK
    <3> QED
      BY <3>1, <3>2
  <2>6. status' \in [Orders -> Statuses \cup {"NONE"}]
    BY <1>4, <2>2 DEF CommitCancel, BookTypeOK, Statuses
  <2> QED
    BY <1>4, <2>5, <2>6 DEF CommitCancel, BookTypeOK, checkoutVars
<1>5. ASSUME NEW o \in Orders, NEW p \in ManualPayments, UpdatePayment(o, p)
      PROVE  BookTypeOK'
  <2>1. payment' \in [Orders -> Payments \cup {"NONE"}]
    BY <1>5, OrderBookAssumption DEF UpdatePayment, BookTypeOK
  <2>2. requests' \in 0..RequestBound
    BY <1>5, OrderBookAssumption DEF UpdatePayment, BookTypeOK
  <2> QED
    BY <1>5, <2>1, <2>2 DEF UpdatePayment, BookTypeOK, checkoutVars
<1> QED
  BY <1>1, <1>2, <1>3, <1>4, <1>5 DEF BackOffice

LEMMA RequestsLostType ==
    ASSUME BookTypeOK, LoseRequests
    PROVE  BookTypeOK'
<1>1. phase' \in [Orders -> Phases] /\ desk' \in [Admins -> {Idle} \cup Checked \cup Read]
  BY DEF LoseRequests, BookTypeOK, Phases
<1> QED
  BY <1>1 DEF LoseRequests, BookTypeOK

LEMMA BookTypeStep ==
    ASSUME BookTypeOK, [BookStep]_bookVars
    PROVE  BookTypeOK'
<1>1. CASE AccountsOnce
  BY <1>1, AccountType DEF AccountsOnce, BookTypeOK, checkoutVars, deskVars
<1>2. CASE Marks
  BY <1>2 DEF Marks, BookTypeOK, deskVars
<1>3. CASE UNCHANGED bookVars
  BY <1>3 DEF bookVars, BookTypeOK
<1> QED
  BY <1>1, <1>2, <1>3, CheckoutBookType, BackOfficeBookType, RequestsLostType DEF BookStep

-----------------------------------------------------------------------------
(***************************************************************************)
(* Rows.                                                                   *)
(***************************************************************************)

\* The back office creates no row and takes none away, and what comes to an
\* admin's desk is a row.
LEMMA BackOfficeRows ==
    ASSUME BookTypeOK, BackOffice,
           \A a \in Admins : desk[a].pc # "idle" => Placed(desk[a].order)
    PROVE  /\ \A o \in Orders : Placed(o)' <=> Placed(o)
           /\ \A a \in Admins : desk'[a].pc # "idle" => status'[desk'[a].order] # "NONE"
           /\ UNCHANGED <<checkoutVars, counted, taken>>
<1> USE DEF Placed
<1> DEFINE Goal == /\ \A o \in Orders : status'[o] # "NONE" <=> status[o] # "NONE"
                   /\ \A a \in Admins : desk'[a].pc # "idle" => status'[desk'[a].order] # "NONE"
                   /\ UNCHANGED <<checkoutVars, counted, taken>>
<1>1. ASSUME NEW a \in Admins, NEW o \in Orders, NEW t \in Statuses, CheckStatus(a, o, t)
      PROVE  Goal
  BY <1>1 DEF CheckStatus, BookTypeOK
<1>2. ASSUME NEW a \in Admins, WriteStatus(a)
      PROVE  Goal
  <2>1. desk[a] \in Checked /\ desk[a].pc # "idle"
    BY <1>2 DEF WriteStatus, BookTypeOK, Idle, Read
  <2>2. desk[a].order \in Orders /\ desk[a].target \in Statuses /\ Placed(desk[a].order)
    BY <2>1 DEF Checked
  <2>3. \A o \in Orders : status'[o] # "NONE" <=> status[o] # "NONE"
    BY <1>2, <2>2 DEF WriteStatus, BookTypeOK, Statuses
  <2>4. \A b \in Admins : desk'[b].pc # "idle" => desk'[b] = desk[b] /\ desk[b].order \in Orders
    BY <1>2 DEF WriteStatus, BookTypeOK, Idle, Checked, Read
  <2> QED
    BY <1>2, <2>3, <2>4 DEF WriteStatus
<1>3. ASSUME NEW a \in Admins, ReadForCancel(a)
      PROVE  Goal
  BY <1>3 DEF ReadForCancel, BookTypeOK
<1>4. ASSUME NEW a \in Admins, CommitCancel(a)
      PROVE  Goal
  <2>1. desk[a] \in Read /\ desk[a].pc # "idle"
    BY <1>4 DEF CommitCancel, BookTypeOK, Idle, Checked
  <2>2. desk[a].order \in Orders /\ Placed(desk[a].order)
    BY <2>1 DEF Read
  <2>3. \A o \in Orders : status'[o] # "NONE" <=> status[o] # "NONE"
    BY <1>4, <2>2 DEF CommitCancel, BookTypeOK
  <2>4. \A b \in Admins : desk'[b].pc # "idle" => desk'[b] = desk[b] /\ desk[b].order \in Orders
    BY <1>4 DEF CommitCancel, BookTypeOK, Idle, Checked, Read
  <2>5. UNCHANGED <<checkoutVars, counted, taken>>
    BY <1>4 DEF CommitCancel
  <2> QED
    BY <2>3, <2>4, <2>5
<1>5. ASSUME NEW o \in Orders, NEW p \in ManualPayments, UpdatePayment(o, p)
      PROVE  Goal
  BY <1>5 DEF UpdatePayment
<1> QED
  BY <1>1, <1>2, <1>3, <1>4, <1>5 DEF BackOffice

LEMMA RowsStep ==
    ASSUME BookTypeOK, Rows, [BookStep]_bookVars
    PROVE  Rows'
<1> USE DEF Rows, Placed
<1>0. \A a \in Admins : desk[a].pc # "idle" => desk[a].order \in Orders
  BY DEF BookTypeOK, Idle, Checked, Read
<1>1. ASSUME NEW o \in Orders, Price(o)
      PROVE  Rows'
  BY <1>1 DEF Price, deskVars, BookTypeOK
<1>2. ASSUME NEW o \in Orders, CreateOrder(o)
      PROVE  Rows'
  BY <1>0, <1>2 DEF CreateOrder, deskVars, BookTypeOK
<1>3. CASE AccountsOnce
  BY <1>3 DEF AccountsOnce, AccountPayment, checkoutVars, deskVars, BookTypeOK
<1>4. CASE Marks
  BY <1>4 DEF Marks, deskVars
<1>5. CASE BackOffice
  BY <1>5, BackOfficeRows DEF checkoutVars
<1>6. CASE LoseRequests
  BY <1>6 DEF LoseRequests, Idle
<1>7. CASE UNCHANGED bookVars
  BY <1>7 DEF bookVars
<1> QED
  BY <1>1, <1>2, <1>3, <1>4, <1>5, <1>6, <1>7 DEF BookStep

-----------------------------------------------------------------------------
(***************************************************************************)
(* The coupon counter whatever admins do at once: between nothing and the  *)
(* orders that paid with the code.                                         *)
(***************************************************************************)

Using(c)    == {o \in Orders : code[o] = c /\ counted[o] > 0}
Returned(c) == {o \in Orders : code[o] = c /\ restored[o] > 0}

LEMMA LedgerSets ==
    ASSUME NEW c
    PROVE  /\ IsFiniteSet(Using(c)) /\ Cardinality(Using(c)) \in Nat
           /\ IsFiniteSet(Returned(c)) /\ Cardinality(Returned(c)) \in Nat
<1>1. Using(c) \in SUBSET Orders /\ Returned(c) \in SUBSET Orders
  BY DEF Using, Returned
<1>2. IsFiniteSet(Using(c)) /\ IsFiniteSet(Returned(c))
  BY <1>1, OrderBookAssumption, FS_Subset
<1> QED
  BY <1>2, FS_CardinalityType

\* One more order pays with its code: the counter and its bound grow together.
LEMMA BackedAccount ==
    ASSUME BookTypeOK, RedemptionsBacked, AccountsOnce
    PROVE  RedemptionsBacked'
<1>1. PICK o \in Orders : /\ counted[o] = 0 /\ AccountPayment(o)
                          /\ UNCHANGED <<checkoutVars, status, deskVars>>
  BY DEF AccountsOnce
<1>2. /\ redeemed' = [c \in Codes |-> IF c = code[o] THEN redeemed[c] + 1 ELSE redeemed[c]]
      /\ counted' = [counted EXCEPT ![o] = @ + 1]
      /\ counted \in [Orders -> Nat]
      /\ UNCHANGED code
  BY <1>1 DEF AccountPayment, checkoutVars, BookTypeOK
<1>3. ASSUME NEW c \in Codes
      PROVE  redeemed'[c] \in 0..Cardinality(Using(c)')
  <2>1. redeemed[c] \in 0..Cardinality(Using(c)) /\ Cardinality(Using(c)) \in Nat
    BY LedgerSets DEF RedemptionsBacked, Using
  <2>2. CASE c = code[o]
    <3>1. o \notin Using(c)
      BY <1>1 DEF Using
    <3>2. Using(c)' = Using(c) \cup {o}
      BY <1>1, <1>2, <2>2 DEF Using
    <3>3. Cardinality(Using(c)') = Cardinality(Using(c)) + 1
      BY <3>1, <3>2, LedgerSets, FS_AddElement
    <3>4. redeemed'[c] = redeemed[c] + 1
      BY <1>2, <2>2
    <3> QED
      BY <2>1, <3>3, <3>4
  <2>3. CASE c # code[o]
    <3>1. Using(c)' = Using(c) /\ redeemed'[c] = redeemed[c]
      BY <1>1, <1>2, <2>3 DEF Using
    <3> QED
      BY <2>1, <3>1
  <2> QED
    BY <2>2, <2>3
<1> QED
  BY <1>3 DEF RedemptionsBacked, Using

\* A cancellation takes a use back only from a counter that has one.
LEMMA BackedCancel ==
    ASSUME RedemptionsBacked, NEW a \in Admins, CommitCancel(a)
    PROVE  RedemptionsBacked'
<1>1. /\ \A c \in Codes : redeemed'[c] \in {redeemed[c], OneUseLess(redeemed[c])}
      /\ UNCHANGED <<code, counted>>
  BY DEF CommitCancel, checkoutVars
<1>2. ASSUME NEW c \in Codes
      PROVE  redeemed'[c] \in 0..Cardinality(Using(c)')
  <2>1. redeemed[c] \in 0..Cardinality(Using(c)) /\ Cardinality(Using(c)) \in Nat
    BY LedgerSets DEF RedemptionsBacked, Using
  <2>2. Using(c)' = Using(c)
    BY <1>1 DEF Using
  <2>3. OneUseLess(redeemed[c]) \in 0..Cardinality(Using(c))
    BY <2>1 DEF OneUseLess
  <2> QED
    BY <1>1, <2>1, <2>2, <2>3
<1> QED
  BY <1>2 DEF RedemptionsBacked, Using

LEMMA BackedStep ==
    ASSUME BookTypeOK, Rows, RedemptionsBacked, [BookStep]_bookVars
    PROVE  RedemptionsBacked'
<1>1. ASSUME UNCHANGED <<redeemed, code, counted>>
      PROVE  RedemptionsBacked'
  BY <1>1 DEF RedemptionsBacked
<1>2. ASSUME NEW o \in Orders, Price(o)
      PROVE  RedemptionsBacked'
  <2>1. UNCHANGED <<redeemed, counted>>
    BY <1>2 DEF Price
  <2>2. counted[o] = 0
    BY <1>2 DEF Price, Rows
  <2>3. \A p \in Orders : p # o => code'[p] = code[p]
    BY <1>2 DEF Price, BookTypeOK
  <2>4. \A c \in Codes : Using(c)' = Using(c)
    BY <2>1, <2>2, <2>3 DEF Using
  <2> QED
    BY <2>1, <2>4 DEF RedemptionsBacked, Using
<1>3. ASSUME NEW o \in Orders, CreateOrder(o)
      PROVE  RedemptionsBacked'
  BY <1>1, <1>3 DEF CreateOrder
<1>4. CASE Marks
  BY <1>1, <1>4 DEF Marks
<1>5. CASE BackOffice
  <2>1. ASSUME NEW a \in Admins, WriteStatus(a) \/ ReadForCancel(a)
        PROVE  RedemptionsBacked'
    BY <1>1, <2>1 DEF WriteStatus, ReadForCancel, checkoutVars
  <2>2. ASSUME NEW a \in Admins, NEW o \in Orders, NEW t \in Statuses, CheckStatus(a, o, t)
        PROVE  RedemptionsBacked'
    BY <1>1, <2>2 DEF CheckStatus, checkoutVars
  <2>3. ASSUME NEW o \in Orders, NEW p \in ManualPayments, UpdatePayment(o, p)
        PROVE  RedemptionsBacked'
    BY <1>1, <2>3 DEF UpdatePayment, checkoutVars
  <2> QED
    BY <1>5, <2>1, <2>2, <2>3, BackedCancel DEF BackOffice
<1>6. CASE LoseRequests
  BY <1>1, <1>6 DEF LoseRequests
<1>7. CASE UNCHANGED bookVars
  BY <1>1, <1>7 DEF bookVars
<1> QED
  BY <1>2, <1>3, <1>4, <1>5, <1>6, <1>7, BackedAccount DEF BookStep

LEMMA BackedInit == BookInit => RedemptionsBacked
<1> SUFFICES ASSUME BookInit, NEW c \in Codes
             PROVE  redeemed[c] \in 0..Cardinality(Using(c))
  BY DEF RedemptionsBacked, Using
<1>1. Using(c) = {} /\ redeemed[c] = 0
  BY DEF BookInit, Using
<1> QED
  BY <1>1, FS_EmptySet

-----------------------------------------------------------------------------
(***************************************************************************)
(* Sums over the orders.  A set of orders is summed up by taking one order *)
(* after the other out of it; what holds of every such sum is shown of a   *)
(* smallest set without it.                                                *)
(***************************************************************************)

OneOf(U) == CHOOSE o \in U : TRUE
Rest(U)  == U \ {OneOf(U)}

SumStep(h, g, U) == IF U = {} THEN 0 ELSE h[OneOf(U)] + g[Rest(U)]
Sums(h)          == CHOOSE g : g = [U \in SUBSET Orders |-> SumStep(h, g, U)]

LEMMA TotalIsSum == ASSUME NEW h PROVE Total(h) = Sums(h)[Orders]
BY DEF Total, MapThenSumSet, MapThenFoldSet, Sums, SumStep, OneOf, Rest

\* A set of numbers that is not empty has a least one.
LEMMA LeastNumber ==
    ASSUME NEW B, B \subseteq Nat, B # {}
    PROVE  \E n \in B : \A m \in B : n <= m
<1> DEFINE R == OpToRel(<, Nat)
<1>1. IsWellFoundedOn(R, Nat)
  BY NatLessThanWellFounded
<1> HIDE DEF R
<1>2. PICK n \in B : \A m \in B : ~(<<m, n>> \in R)
  BY <1>1, WFMin
<1>3. \A m \in B : ~(m < n)
  BY <1>2 DEF R, OpToRel
<1> QED
  BY <1>3

\* The orders of a set: how many there are, and in the rest of it.
LEMMA RestFacts ==
    ASSUME NEW U, U \subseteq Orders
    PROVE  /\ IsFiniteSet(U) /\ Cardinality(U) \in Nat
           /\ U # {} => /\ OneOf(U) \in U
                        /\ Rest(U) \subseteq Orders
                        /\ Cardinality(Rest(U)) = Cardinality(U) - 1
                        /\ Cardinality(Rest(U)) \in Nat
<1>1. IsFiniteSet(U) /\ Cardinality(U) \in Nat
  BY OrderBookAssumption, FS_Subset, FS_CardinalityType
<1>2. ASSUME U # {}
      PROVE  /\ OneOf(U) \in U
             /\ Rest(U) \subseteq Orders
             /\ Cardinality(Rest(U)) = Cardinality(U) - 1
             /\ Cardinality(Rest(U)) \in Nat
  <2>1. OneOf(U) \in U
    BY <1>2 DEF OneOf
  <2>2. Rest(U) \subseteq Orders
    BY DEF Rest
  <2>3. IsFiniteSet(Rest(U)) /\ Cardinality(Rest(U)) = Cardinality(U) - 1
    BY <1>1, <2>1, FS_RemoveElement DEF Rest
  <2> QED
    BY <2>1, <2>2, <2>3, FS_CardinalityType
<1> QED
  BY <1>1, <1>2

\* There are such sums: those of n + 1 orders from those of n.
LEMMA SumsExist ==
    ASSUME NEW h \in [Orders -> Int]
    PROVE  \E g : g = [U \in SUBSET Orders |-> SumStep(h, g, U)]
<1> DEFINE Few(n)     == {U \in SUBSET Orders : Cardinality(U) <= n}
           Fits(n, g) == g = [U \in Few(n) |-> SumStep(h, g, U)]
           Bad        == {n \in Nat : ~ \E g : Fits(n, g)}
<1>1. ASSUME NEW n \in Nat, NEW g, Fits(n, g)
      PROVE  \E k : Fits(n + 1, k)
  <2> DEFINE k == [U \in Few(n + 1) |-> SumStep(h, g, U)]
  <2>1. ASSUME NEW U \in Few(n + 1)
        PROVE  SumStep(h, k, U) = SumStep(h, g, U)
    <3>1. CASE U = {}
      BY <3>1 DEF SumStep
    <3>2. CASE U # {}
      <4>1. Rest(U) \in Few(n) /\ Rest(U) \in Few(n + 1)
        BY <3>2, RestFacts
      <4>2. k[Rest(U)] = SumStep(h, g, Rest(U)) /\ g[Rest(U)] = SumStep(h, g, Rest(U))
        BY <1>1, <4>1
      <4> QED
        BY <4>2 DEF SumStep
    <3> QED
      BY <3>1, <3>2
  <2>2. Fits(n + 1, k)
    BY <2>1
  <2> QED
    BY <2>2
<1>2. \E g : Fits(0, g)
  <2> DEFINE g == [U \in Few(0) |-> 0]
  <2>1. ASSUME NEW U \in Few(0) PROVE SumStep(h, g, U) = 0
    <3>1. U = {}
      BY RestFacts
    <3> QED
      BY <3>1 DEF SumStep
  <2>2. Fits(0, g)
    BY <2>1
  <2> QED
    BY <2>2
<1> HIDE DEF Fits
<1>3. Bad = {}
  <2> SUFFICES ASSUME Bad # {} PROVE FALSE
    OBVIOUS
  <2>1. PICK n \in Bad : \A m \in Bad : n <= m
    BY LeastNumber
  <2>2. n # 0
    BY <1>2
  <2>3. n - 1 \in Nat /\ (n - 1) + 1 = n
    BY <2>2
  <2>4. n - 1 \notin Bad
    BY <2>1, <2>3
  <2> QED
    BY <1>1, <2>3, <2>4
<1>4. Cardinality(Orders) \in Nat /\ Few(Cardinality(Orders)) = SUBSET Orders
  <2>1. \A U \in SUBSET Orders : Cardinality(U) <= Cardinality(Orders)
    BY OrderBookAssumption, FS_Subset
  <2> QED
    BY <2>1, RestFacts
<1>5. \E g : Fits(Cardinality(Orders), g)
  BY <1>3, <1>4
<1> QED
  BY <1>4, <1>5 DEF Fits

LEMMA SumsFacts ==
    ASSUME NEW h \in [Orders -> Int], NEW U, U \subseteq Orders
    PROVE  Sums(h)[U] = IF U = {} THEN 0 ELSE h[OneOf(U)] + Sums(h)[Rest(U)]
<1>1. Sums(h) = [V \in SUBSET Orders |-> SumStep(h, Sums(h), V)]
  BY SumsExist DEF Sums
<1> QED
  BY <1>1 DEF SumStep

LEMMA SumsType ==
    ASSUME NEW h \in [Orders -> Int], NEW U, U \subseteq Orders
    PROVE  Sums(h)[U] \in Int
<1> DEFINE Bad == {n \in Nat : \E V \in SUBSET Orders : Cardinality(V) = n /\ Sums(h)[V] \notin Int}
<1>1. Bad = {}
  <2> SUFFICES ASSUME Bad # {} PROVE FALSE
    OBVIOUS
  <2>1. PICK n \in Bad : \A m \in Bad : n <= m
    BY LeastNumber
  <2>2. PICK V \in SUBSET Orders : Cardinality(V) = n /\ Sums(h)[V] \notin Int
    BY <2>1
  <2>3. V # {}
    BY <2>2, SumsFacts
  <2>4. Sums(h)[Rest(V)] \in Int
    BY <2>1, <2>2, <2>3, RestFacts
  <2>5. Sums(h)[V] = h[OneOf(V)] + Sums(h)[Rest(V)] /\ h[OneOf(V)] \in Int
    BY <2>3, SumsFacts, RestFacts
  <2> QED
    BY <2>2, <2>4, <2>5
<1> QED
  BY <1>1, RestFacts

\* A number more for one order is that number more for the sum.
LEMMA TotalChanges ==
    ASSUME NEW h \in [Orders -> Int], NEW k \in [Orders -> Int], NEW o \in Orders, NEW d \in Int,
           k[o] = h[o] + d, \A p \in Orders \ {o} : k[p] = h[p]
    PROVE  Total(h) \in Int /\ Total(k) = Total(h) + d
<1> DEFINE Off(V) == Sums(k)[V] # Sums(h)[V] + (IF o \in V THEN d ELSE 0)
           Bad    == {n \in Nat : \E V \in SUBSET Orders : Cardinality(V) = n /\ Off(V)}
<1>1. Bad = {}
  <2> SUFFICES ASSUME Bad # {} PROVE FALSE
    OBVIOUS
  <2>1. PICK n \in Bad : \A m \in Bad : n <= m
    BY LeastNumber
  <2>2. PICK V \in SUBSET Orders : Cardinality(V) = n /\ Off(V)
    BY <2>1
  <2>3. V # {}
    <3>1. CASE V = {}
      <4>1. Sums(k)[V] = 0 /\ Sums(h)[V] = 0
        BY <3>1, SumsFacts
      <4> QED
        BY <2>2, <3>1, <4>1
    <3> QED
      BY <3>1
  <2> DEFINE p == OneOf(V)
             W == Rest(V)
  <2>4. /\ p \in V /\ p \in Orders /\ W \subseteq Orders /\ W = V \ {p}
        /\ Cardinality(W) = n - 1 /\ Cardinality(W) \in Nat
    BY <2>2, <2>3, RestFacts DEF Rest
  <2>5. ~Off(W)
    BY <2>1, <2>4
  <2>6. Sums(k)[V] = k[p] + Sums(k)[W] /\ Sums(h)[V] = h[p] + Sums(h)[W]
    BY <2>3, SumsFacts
  <2>7. h[p] \in Int /\ k[p] \in Int /\ Sums(h)[W] \in Int /\ Sums(k)[W] \in Int
    BY <2>4, SumsType
  <2> HIDE DEF p, W
  <2>8. Sums(k)[V] = Sums(h)[V] + (IF o \in V THEN d ELSE 0)
    <3>1. CASE p = o
      <4>1. o \notin W /\ o \in V
        BY <2>4, <3>1
      <4>2. Sums(k)[W] = Sums(h)[W]
        BY <2>5, <2>7, <4>1
      <4> QED
        BY <2>6, <2>7, <3>1, <4>1, <4>2
    <3>2. CASE p # o
      <4>1. (o \in W <=> o \in V) /\ k[p] = h[p]
        BY <2>4, <3>2
      <4> QED
        BY <2>5, <2>6, <2>7, <4>1
    <3> QED
      BY <3>1, <3>2
  <2> QED
    BY <2>2, <2>8
<1>2. ~Off(Orders)
  BY <1>1, RestFacts
<1> QED
  BY <1>2, TotalIsSum, SumsType

(***************************************************************************)
(* The stock.  A checkout that goes on with another basket must not change *)
(* what an earlier restitution gave back, and the accounting of an order   *)
(* must not overwrite what an earlier one took: before it is in the book an *)
(* order took nothing and gave nothing back.                               *)
(***************************************************************************)

TakenOf(v)    == [o \in Orders |-> taken[o][v]]
ReturnedOf(v) == [o \in Orders |-> restored[o] * Units(basket[o], v)]

LedgerOf(v) == stock[v] = InitialStock[v] - Total(TakenOf(v)) + Total(ReturnedOf(v))

Untaken ==
    \A o \in Orders :
        /\ ~Placed(o) => restored[o] = 0
        /\ counted[o] = 0 => \A v \in Variants : taken[o][v] = 0

StockInv == StockLedger /\ Untaken

LEMMA StockForm ==
    /\ StockLedger <=> \A v \in Variants : LedgerOf(v)
    /\ StockLedger' <=> \A v \in Variants : LedgerOf(v)'
<1>1. StockLedger <=> \A v \in Variants : LedgerOf(v)
  BY DEF StockLedger, LedgerOf, TakenOf, ReturnedOf
<1>2. StockLedger' <=> \A v \in Variants : LedgerOf(v)'
  BY DEF StockLedger, LedgerOf, TakenOf, ReturnedOf
<1> QED
  BY <1>1, <1>2

LEMMA StockTypes ==
    ASSUME BookTypeOK, NEW v \in Variants
    PROVE  /\ TakenOf(v) \in [Orders -> Int] /\ ReturnedOf(v) \in [Orders -> Int]
           /\ stock[v] \in Int /\ InitialStock[v] \in Int
<1>1. ASSUME NEW o \in Orders
      PROVE  taken[o][v] \in Int /\ restored[o] * Units(basket[o], v) \in Int
  <2>1. Units(basket[o], v) \in Nat /\ restored[o] \in Nat /\ taken[o][v] \in Int
    BY BasketType DEF BookTypeOK
  <2> QED
    BY <2>1
<1>2. stock[v] \in Int /\ InitialStock[v] \in Int
  BY OrderBookAssumption DEF BookTypeOK
<1> QED
  BY <1>1, <1>2 DEF TakenOf, ReturnedOf

\* What one order took, or got back, changes the ledger of a variant by as much.
LEMMA LedgerMoves ==
    ASSUME BookTypeOK, NEW v \in Variants, LedgerOf(v), NEW o \in Orders,
           NEW d \in Int, NEW e \in Int,
           taken'[o][v] = taken[o][v] + d,
           restored'[o] * Units(basket'[o], v) = restored[o] * Units(basket[o], v) + e,
           \A p \in Orders \ {o} :
              /\ taken'[p][v] = taken[p][v]
              /\ restored'[p] * Units(basket'[p], v) = restored[p] * Units(basket[p], v),
           stock'[v] = stock[v] - d + e
    PROVE  LedgerOf(v)'
<1> DEFINE T  == TakenOf(v)
           R  == ReturnedOf(v)
           T1 == [p \in Orders |-> taken'[p][v]]
           R1 == [p \in Orders |-> restored'[p] * Units(basket'[p], v)]
<1>1. /\ T \in [Orders -> Int] /\ R \in [Orders -> Int]
      /\ stock[v] \in Int /\ InitialStock[v] \in Int
  BY StockTypes
<1>2. T1[o] = T[o] + d /\ \A p \in Orders \ {o} : T1[p] = T[p]
  BY DEF TakenOf
<1>3. R1[o] = R[o] + e /\ \A p \in Orders \ {o} : R1[p] = R[p]
  BY DEF ReturnedOf
<1>4. stock[v] = InitialStock[v] - Total(T) + Total(R)
  BY DEF LedgerOf
<1>5. LedgerOf(v)' <=> stock'[v] = InitialStock[v] - Total(T1) + Total(R1)
  BY DEF LedgerOf, TakenOf, ReturnedOf
<1>6. T1 \in [Orders -> Int] /\ R1 \in [Orders -> Int]
  <2>1. \A p \in Orders : T1[p] \in Int
    BY <1>1, <1>2
  <2>2. \A p \in Orders : R1[p] \in Int
    BY <1>1, <1>3
  <2> QED
    BY <2>1, <2>2
<1> HIDE DEF T, T1, R, R1
<1>7. Total(T) \in Int /\ Total(T1) = Total(T) + d
  BY <1>1, <1>2, <1>6, TotalChanges
<1>8. Total(R) \in Int /\ Total(R1) = Total(R) + e
  BY <1>1, <1>3, <1>6, TotalChanges
<1>9. stock'[v] = InitialStock[v] - Total(T1) + Total(R1)
  BY <1>1, <1>4, <1>7, <1>8
<1> QED
  BY <1>5, <1>9

LEMMA StockAccount ==
    ASSUME BookTypeOK, StockInv, NEW o \in Orders, counted[o] = 0, AccountPayment(o),
           UNCHANGED <<checkoutVars, status, deskVars>>
    PROVE  StockInv'
<1>0. counted \in [Orders -> Nat]
  BY DEF BookTypeOK
<1>1. /\ stock' = [v \in Variants |-> Deduct(stock[v], basket[o][v])]
      /\ taken' = [taken EXCEPT ![o] = [v \in Variants |-> stock[v] - Deduct(stock[v], basket[o][v])]]
      /\ counted' = [counted EXCEPT ![o] = @ + 1]
      /\ UNCHANGED <<basket, restored, status>>
  BY DEF AccountPayment, checkoutVars, deskVars
<1>2. ASSUME NEW v \in Variants
      PROVE  LedgerOf(v)'
  <2> DEFINE d == stock[v] - Deduct(stock[v], basket[o][v])
             e == 0
  <2>1. Deduct(stock[v], basket[o][v]) \in Int /\ stock[v] \in Int
    BY <1>0, BasketType, StockTypes
  <2>2. taken[o][v] = 0
    BY <1>0 DEF StockInv, Untaken
  <2>3. taken'[o][v] = d /\ \A p \in Orders \ {o} : taken'[p][v] = taken[p][v]
    BY <1>0, <1>1 DEF BookTypeOK
  <2>4. stock'[v] = Deduct(stock[v], basket[o][v])
    BY <1>1
  <2>5. d \in Int /\ taken'[o][v] = taken[o][v] + d /\ e \in Int /\ stock'[v] = stock[v] - d + e
    BY <2>1, <2>2, <2>3, <2>4
  <2>6. \A p \in Orders :
           /\ restored[p] * Units(basket[p], v) \in Int
           /\ restored'[p] * Units(basket'[p], v) = restored[p] * Units(basket[p], v)
    BY <1>0, <1>1, StockTypes DEF ReturnedOf
  <2>7. restored'[o] * Units(basket'[o], v) = restored[o] * Units(basket[o], v) + e
    BY <2>6
  <2> HIDE DEF d, e
  <2>8. LedgerOf(v)
    BY StockForm DEF StockInv
  <2>9. \A p \in Orders \ {o} :
           /\ taken'[p][v] = taken[p][v]
           /\ restored'[p] * Units(basket'[p], v) = restored[p] * Units(basket[p], v)
    BY <2>3, <2>6
  <2> QED
    BY <1>0, <2>5, <2>7, <2>8, <2>9, LedgerMoves
<1>3. Untaken'
  <2>1. \A p \in Orders : counted'[p] = 0 => p # o /\ counted[p] = 0
    BY <1>0, <1>1
  <2> QED
    BY <1>1, <2>1 DEF StockInv, Untaken, Placed, BookTypeOK
<1> QED
  BY <1>2, <1>3, StockForm DEF StockInv

LEMMA StockRestore ==
    ASSUME BookTypeOK, Rows, StockInv, NEW a \in Admins, CommitCancel(a), Restores(desk[a])
    PROVE  StockInv'
<1> DEFINE o == desk[a].order
<1>1. o \in Orders /\ Placed(o)
  <2>1. desk[a] \in Read /\ desk[a].pc # "idle"
    BY DEF CommitCancel, BookTypeOK, Idle, Checked
  <2> QED
    BY <2>1 DEF Read, Rows
<1>2. /\ stock' = [v \in Variants |-> stock[v] + UnitsBack(basket[o], v)]
      /\ restored' = [restored EXCEPT ![o] = @ + 1]
      /\ status' = [status EXCEPT ![o] = "CANCELLED"]
      /\ UNCHANGED <<basket, counted, taken>>
  BY DEF CommitCancel, checkoutVars
<1> HIDE DEF o
<1>3. ASSUME NEW v \in Variants
      PROVE  LedgerOf(v)'
  <2> DEFINE e == Units(basket[o], v)
  <2>1. e \in Nat /\ restored[o] \in Nat /\ restored'[o] = restored[o] + 1
    BY <1>1, <1>2, BasketType DEF BookTypeOK
  <2>2. restored'[o] * Units(basket'[o], v) = restored[o] * Units(basket[o], v) + e
    <3>1. basket'[o] = basket[o]
      BY <1>2
    <3>2. (restored[o] + 1) * e = restored[o] * e + e
      BY <2>1
    <3> QED
      BY <2>1, <3>1, <3>2
  <2>3. stock[v] \in Int /\ stock'[v] = stock[v] + e /\ taken[o][v] \in Int
    BY <1>1, <1>2, StockTypes DEF UnitsBack, BookTypeOK
  <2>4. \A p \in Orders \ {o} :
           /\ taken'[p][v] = taken[p][v]
           /\ restored'[p] * Units(basket'[p], v) = restored[p] * Units(basket[p], v)
    BY <1>2 DEF BookTypeOK
  <2> HIDE DEF e
  <2>5. taken'[o][v] = taken[o][v] + 0 /\ stock'[v] = stock[v] - 0 + e /\ e \in Int
    BY <1>2, <2>1, <2>3
  <2>6. LedgerOf(v)
    BY StockForm DEF StockInv
  <2> QED
    BY <1>1, <2>2, <2>4, <2>5, <2>6, LedgerMoves
<1>4. Untaken'
  BY <1>1, <1>2 DEF StockInv, Untaken, Placed, BookTypeOK
<1> QED
  BY <1>3, <1>4, StockForm DEF StockInv

\* A basket is only chosen for an order that is not in the book yet.
LEMMA StockPrice ==
    ASSUME BookTypeOK, Rows, StockInv, NEW o \in Orders, Price(o)
    PROVE  StockInv'
<1>1. restored[o] = 0
  BY DEF Price, Rows, StockInv, Untaken
<1>2. UNCHANGED <<status, stock, counted, taken, restored>>
  BY DEF Price, deskVars
<1>3. \A p \in Orders \ {o} : basket'[p] = basket[p]
  BY DEF Price, BookTypeOK
<1>4. ASSUME NEW v \in Variants
      PROVE  LedgerOf(v)'
  <2>1. stock[v] \in Int /\ taken[o][v] \in Int
    BY StockTypes DEF BookTypeOK
  <2>2. Units(basket[o], v) \in Nat /\ Units(basket'[o], v) \in Nat
    <3>1. PICK b \in Baskets : basket'[o] = b
      BY DEF Price, BookTypeOK
    <3>2. b[v] \in Nat \X Nat
      BY OrderBookAssumption
    <3>3. b[v][1] \in Nat /\ b[v][2] \in Nat
      BY <3>2
    <3> QED
      BY <3>1, <3>3, BasketType DEF Units
  <2>3. /\ taken'[o][v] = taken[o][v] + 0
        /\ stock'[v] = stock[v] - 0 + 0
        /\ restored'[o] * Units(basket'[o], v) = restored[o] * Units(basket[o], v) + 0
    BY <1>1, <1>2, <2>1, <2>2
  <2>4. LedgerOf(v)
    BY StockForm DEF StockInv
  <2>5. \A p \in Orders \ {o} :
           /\ taken'[p][v] = taken[p][v]
           /\ restored'[p] * Units(basket'[p], v) = restored[p] * Units(basket[p], v)
    BY <1>2, <1>3
  <2> QED
    BY <2>3, <2>4, <2>5, LedgerMoves
<1>5. Untaken'
  BY <1>2 DEF StockInv, Untaken, Placed
<1> QED
  BY <1>4, <1>5, StockForm DEF StockInv

LEMMA StockStep ==
    ASSUME BookTypeOK, Rows, StockInv, [BookStep]_bookVars
    PROVE  StockInv'
<1>1. ASSUME UNCHANGED <<basket, stock, counted, taken, restored>>,
             \A o \in Orders : Placed(o) => Placed(o)'
      PROVE  StockInv'
  <2>1. StockLedger'
    BY <1>1 DEF StockInv, StockLedger
  <2>2. Untaken'
    BY <1>1 DEF StockInv, Untaken
  <2> QED
    BY <2>1, <2>2 DEF StockInv
<1>2. ASSUME UNCHANGED <<status, basket, stock, counted, taken, restored>>
      PROVE  StockInv'
  BY <1>1, <1>2 DEF Placed
<1>3. ASSUME NEW o \in Orders, CreateOrder(o)
      PROVE  StockInv'
  BY <1>1, <1>3 DEF CreateOrder, deskVars, Placed, BookTypeOK
<1>4. CASE AccountsOnce
  BY <1>4, StockAccount DEF AccountsOnce
<1>5. CASE Marks
  BY <1>2, <1>5 DEF Marks, deskVars
<1>6. CASE BackOffice
  <2>1. ASSUME NEW a \in Admins, CommitCancel(a)
        PROVE  StockInv'
    <3>1. CASE ~Restores(desk[a])
      BY <1>1, <1>6, <2>1, <3>1, BackOfficeRows DEF CommitCancel, checkoutVars, Rows
    <3> QED
      BY <2>1, <3>1, StockRestore
  <2>2. ASSUME NEW a \in Admins, WriteStatus(a)
        PROVE  StockInv'
    BY <1>1, <1>6, <2>2, BackOfficeRows DEF WriteStatus, checkoutVars, Rows
  <2>3. ASSUME NEW a \in Admins,
               ReadForCancel(a) \/ \E o \in Orders, t \in Statuses : CheckStatus(a, o, t)
        PROVE  StockInv'
    BY <1>2, <2>3 DEF ReadForCancel, CheckStatus, checkoutVars
  <2>4. ASSUME NEW o \in Orders, NEW p \in ManualPayments, UpdatePayment(o, p)
        PROVE  StockInv'
    BY <1>2, <2>4 DEF UpdatePayment, checkoutVars
  <2> QED
    BY <1>6, <2>1, <2>2, <2>3, <2>4 DEF BackOffice
<1>7. CASE LoseRequests
  BY <1>2, <1>7 DEF LoseRequests
<1>8. CASE UNCHANGED bookVars
  BY <1>2, <1>8 DEF bookVars
<1> QED
  BY <1>3, <1>4, <1>5, <1>6, <1>7, <1>8, StockPrice DEF BookStep

\* Nothing taken and nothing returned: a sum of zeros.
LEMMA StockInit == BookInit => StockInv
<1> SUFFICES ASSUME BookInit PROVE StockInv
  OBVIOUS
<1>1. Untaken
  BY DEF BookInit, Untaken
<1>2. ASSUME NEW v \in Variants
      PROVE  LedgerOf(v)
  <2> DEFINE Z == [o \in Orders |-> 0]
  <2>1. TakenOf(v) = Z
    BY DEF BookInit, TakenOf
  <2>2. ReturnedOf(v) = Z
    <3>1. \A o \in Orders : restored[o] * Units(basket[o], v) = 0
      BY DEF BookInit, EmptyBasket, Units
    <3> QED
      BY <3>1 DEF ReturnedOf
  <2>3. stock[v] = InitialStock[v] /\ InitialStock[v] \in Int
    BY OrderBookAssumption DEF BookInit
  <2>4. Total(Z) \in Int
    BY TotalIsSum, SumsType
  <2> HIDE DEF Z
  <2> QED
    BY <2>1, <2>2, <2>3, <2>4 DEF LedgerOf
<1> QED
  BY <1>1, <1>2, StockForm DEF StockInv

-----------------------------------------------------------------------------
(***************************************************************************)
(* The invariant of the book.                                              *)
(***************************************************************************)

BookInv == BookTypeOK /\ Rows /\ RedemptionsBacked /\ StockInv

\* The book starts out balanced, and what providers and the back office do to it
\* keeps it so, for any number of orders, admins at once and payments set by hand.
THEOREM BookKept == BookInit /\ [][BookStep]_bookVars => []BookInv
<1>1. BookInit => BookInv
  <2>1. BookInit => Rows
    BY DEF BookInit, Rows, Placed, Idle
  <2> QED
    BY <2>1, BookInitType, BackedInit, StockInit DEF BookInv
<1>2. BookInv /\ [BookStep]_bookVars => BookInv'
  BY BookTypeStep, RowsStep, BackedStep, StockStep DEF BookInv
<1> QED
  BY <1>1, <1>2, PTL
=============================================================================
