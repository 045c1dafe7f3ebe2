--------------------------- MODULE SellerAccounts ---------------------------
(***************************************************************************)
(* The MercadoPago account each store sells with (mercadopago.service.ts): *)
(* the owner is sent to MercadoPago with a signed state, comes back with a  *)
(* code that is exchanged for tokens, and may disconnect.  A payment that    *)
(* finds the token about to expire refreshes it, with an answer of           *)
(* MercadoPago in between.                                                  *)
(*                                                                         *)
(* MercadoPagoCheckout has the payments of one store, and of its token no   *)
(* more than whether there is one.                                          *)
(***************************************************************************)
EXTENDS Clock

CONSTANTS
    Stores,
    Sellers,            \* accounts at MercadoPago
    Nobody,             \* no account
    Tills,              \* requests that may be in flight at once
    StateLife,          \* the 15 minutes of the signed state
    TokenLife,          \* expires_in of a token
    RefreshMargin       \* TOKEN_REFRESH_MARGIN_MS

ASSUME SellersAssumption ==
    /\ Nobody \notin Sellers
    /\ StateLife \in Nat /\ TokenLife \in Nat /\ RefreshMargin \in Nat

VARIABLES
    seller,             \* the credentials of each store
    signed,             \* the states the owners were sent off with
    codes,              \* what MercadoPago sent them back with
    spent,              \* codes it has exchanged, and when they were presented
    till,               \* what each request holds between its steps
    decided,            \* history: whom the store's owner last connected, or Nobody
    storesOvertaken     \* history: stores connected by a refresh of what was no longer there

sellerVars == <<seller, signed, codes, spent, till, decided, storesOvertaken>>

Unconnected == [account |-> Nobody, end |-> 0]
Closed      == [pc |-> "idle"]
SignedState == [store : Stores, end : Nat]

SellersTypeOK ==
    /\ seller \in [Stores -> {Unconnected} \cup [account : Sellers, end : Nat]]
    /\ signed \in SUBSET SignedState
    /\ codes \in SUBSET [account : Sellers, state : signed]
    /\ spent \subseteq [code : codes, at : 0..now]
    /\ till \in [Tills -> {Closed}
          \cup [pc : {"exchange"}, code : codes, store : Stores, at : 0..now]
          \cup [pc : {"storing"}, store : Stores, account : Sellers]
          \cup [pc : {"refresh", "refreshed"}, store : Stores, account : Sellers]]
    /\ decided \in [Stores -> Sellers \cup {Nobody}]
    /\ storesOvertaken \in SUBSET Stores

Serves(h, record) == till' = [till EXCEPT ![h] = record]

-----------------------------------------------------------------------------
\* buildConnectUrl: the state names the store.
BuildConnectUrl(t) ==
    /\ Arrives
    /\ signed' = signed \cup {[store |-> t, end |-> now + StateLife]}
    /\ UNCHANGED <<seller, codes, spent, till, decided, storesOvertaken>>

\* At MercadoPago somebody lets the platform sell with an account.
Consents(a, state) ==
    /\ GoesOn
    /\ codes' = codes \cup {[account |-> a, state |-> state]}
    /\ UNCHANGED <<seller, signed, spent, till, decided, storesOvertaken>>

\* Mutant: the signature is checked and the end is not.
AnyAge(state) == TRUE

\* The signature of the state, and its end.
Verifies(state) == now < state.end

\* The callback, perhaps again with a code that was presented before.
OauthCallback(h, c) ==
    /\ Arrives
    /\ till[h] = Closed
    /\ c \in codes
    /\ Verifies(c.state)
    /\ Serves(h, [pc |-> "exchange", code |-> c, store |-> c.state.store, at |-> now])
    /\ UNCHANGED <<seller, signed, codes, spent, decided, storesOvertaken>>

\* MercadoPago exchanges a code once.
ExchangeCode(h) ==
    LET r == till[h] IN
    /\ GoesOn
    /\ r.pc = "exchange"
    /\ \A p \in spent : p.code # r.code
    /\ spent' = spent \cup {[code |-> r.code, at |-> r.at]}
    /\ Serves(h, [pc |-> "storing", store |-> r.store, account |-> r.code.account])
    /\ UNCHANGED <<seller, signed, codes, decided, storesOvertaken>>

\* persistCreds: the whole of the credentials, over whatever is there.
PersistCreds(t, a) ==
    seller' = [seller EXCEPT ![t] = [account |-> a, end |-> now + TokenLife]]

StoreCreds(h) ==
    LET r == till[h] IN
    /\ GoesOn
    /\ r.pc = "storing"
    /\ PersistCreds(r.store, r.account)
    /\ decided' = [decided EXCEPT ![r.store] = r.account]
    /\ storesOvertaken' = storesOvertaken \ {r.store}
    /\ Serves(h, Closed)
    /\ UNCHANGED <<signed, codes, spent>>

\* getFreshAccessToken, for a payment: with enough left of the token nothing
\* changes, and without a token the payment fails.
ReadCreds(h, t) ==
    /\ Arrives
    /\ till[h] = Closed
    /\ seller[t] # Unconnected
    /\ seller[t].end <= now + RefreshMargin
    /\ Serves(h, [pc |-> "refresh", store |-> t, account |-> seller[t].account])
    /\ UNCHANGED <<seller, signed, codes, spent, decided, storesOvertaken>>

\* MercadoPago answers with new tokens of the account whose token it was.
RefreshAnswered(h) ==
    /\ GoesOn
    /\ till[h].pc = "refresh"
    /\ Serves(h, [till[h] EXCEPT !.pc = "refreshed"])
    /\ UNCHANGED <<seller, signed, codes, spent, decided, storesOvertaken>>

RefreshCreds(h) ==
    LET r == till[h] IN
    /\ GoesOn
    /\ r.pc = "refreshed"
    /\ PersistCreds(r.store, r.account)
    /\ storesOvertaken' = IF seller[r.store].account = r.account THEN storesOvertaken
                          ELSE storesOvertaken \cup {r.store}
    /\ Serves(h, Closed)
    /\ UNCHANGED <<signed, codes, spent, decided>>

\* MercadoPago refuses, or does not answer: the request ends with an error.
MercadoPagoFails(h) ==
    /\ GoesOn
    /\ till[h].pc \in {"exchange", "refresh"}
    /\ Serves(h, Closed)
    /\ UNCHANGED <<seller, signed, codes, spent, decided, storesOvertaken>>

Disconnect(t) ==
    /\ Arrives
    /\ seller' = [seller EXCEPT ![t] = Unconnected]
    /\ decided' = [decided EXCEPT ![t] = Nobody]
    /\ storesOvertaken' = storesOvertaken \ {t}
    /\ UNCHANGED <<signed, codes, spent, till>>

SellersStop ==
    /\ till' = [h \in Tills |-> Closed]
    /\ UNCHANGED <<seller, signed, codes, spent, decided, storesOvertaken>>

\* No store is connected yet.
SellersInit ==
    /\ signed = {} /\ codes = {}
    /\ seller = [t \in Stores |-> Unconnected]
    /\ spent = {}
    /\ till = [h \in Tills |-> Closed]
    /\ decided = [t \in Stores |-> Nobody]
    /\ storesOvertaken = {}

SellersStep ==
    \/ \E t \in Stores : BuildConnectUrl(t) \/ Disconnect(t)
    \/ \E a \in Sellers, state \in signed : Consents(a, state)
    \/ \E h \in Tills :
          \/ \E c \in codes : OauthCallback(h, c)
          \/ \E t \in Stores : ReadCreds(h, t)
          \/ ExchangeCode(h) \/ StoreCreds(h)
          \/ RefreshAnswered(h) \/ RefreshCreds(h) \/ MercadoPagoFails(h)

-----------------------------------------------------------------------------
\* "Genera la URL de autorización con un state firmado (anti-CSRF, atado al
\* tenant)" (mercadopago.service.ts): a store sells with the account its owner
\* last connected, and with none after a disconnection, unless the answer to a
\* refresh was stored over such a decision; and every account it sells with was
\* brought back from MercadoPago with a state of that very store within its life.
SellsForWhomItsOwnerChose ==
    /\ \A t \in Stores \ storesOvertaken : seller[t].account = decided[t]
    /\ \A t \in Stores : seller[t] # Unconnected =>
          \E p \in spent : /\ p.code.account = seller[t].account
                           /\ p.code.state.store = t
                           /\ p.at < p.code.state.end
=============================================================================
