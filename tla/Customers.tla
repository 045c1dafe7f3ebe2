----------------------------- MODULE Customers ------------------------------
(***************************************************************************)
(* Customer accounts of one tenant (customer-auth.service.ts): register,   *)
(* verify the e-mail, sign in with a password and a lock after too many     *)
(* wrong ones, or through the external provider; and the addresses of a     *)
(* customer (addresses.service.ts).                                         *)
(*                                                                         *)
(* Hashing a password takes long, so what login writes about the failed     *)
(* attempts rests on a row it read well before.                             *)
(***************************************************************************)
EXTENDS Clock, FiniteSets

CONSTANTS
    Emails,
    Addresses,       \* addresses, all of one customer
    Counter,         \* requests that may be in flight at once
    VerifyLife,      \* VERIFY_TOKEN_TTL_MS
    LockLife,        \* LOCKOUT_DURATION_MS
    MaxFailed        \* MAX_FAILED_ATTEMPTS

ASSUME CustomersAssumption ==
    /\ IsFiniteSet(Addresses)
    /\ VerifyLife \in Nat \ {0} /\ LockLife \in Nat \ {0} /\ MaxFailed \in Nat \ {0}

VARIABLES
    account,     \* the customer row of each e-mail
    inbox,       \* e-mails whose verification link arrived
    counter,     \* what each request holds between its steps
    signedIn,    \* e-mails with a session
    saved,       \* addresses that exist
    default,     \* those with isDefault
    wrong,       \* history: wrong passwords since the attempts were last reset
    lastWrong,   \* history: the instant of the last of them
    verified,    \* history: verifications that took effect
    mixed,       \* history: e-mails two of whose logins overlapped
    twoAtOnce    \* history: two changes of addresses overlapped

customerVars == <<account, inbox, counter, signedIn, saved, default, wrong, lastWrong,
                  verified, mixed, twoAtOnce>>
loginHistory == <<wrong, lastWrong, verified, mixed>>
addressVars  == <<saved, default, twoAtOnce>>

Account == [exists : BOOLEAN, password : BOOLEAN, confirmed : BOOLEAN, token : BOOLEAN,
            tokenEnd : Nat, failed : Nat, lockedUntil : Nat]
NoAccount == [exists |-> FALSE, password |-> FALSE, confirmed |-> FALSE, token |-> FALSE,
              tokenEnd |-> 0, failed |-> 0, lockedUntil |-> 0]
Waiting == [pc |-> "idle"]

CustomersTypeOK ==
    /\ account \in [Emails -> Account]
    /\ \A e \in Emails :
          /\ account[e].token => account[e].password
          /\ account[e].failed > 0 => account[e].confirmed
    /\ inbox \in SUBSET Emails
    /\ counter \in [Counter -> {Waiting}
          \cup [pc : {"register", "mail", "verify"}, email : Emails]
          \cup [pc : {"login"}, email : Emails, right : BOOLEAN, row : Account]
          \cup [pc : {"change"}, address : Addresses, makes : BOOLEAN, removes : BOOLEAN]
          \cup [pc : {"saving"}, address : Addresses, makes : BOOLEAN, new : BOOLEAN,
                clears : SUBSET Addresses]]
    /\ signedIn \in SUBSET Emails
    /\ saved \in SUBSET Addresses /\ default \in SUBSET saved
    /\ wrong \in [Emails -> Nat]
    /\ lastWrong \in [Emails -> Nat]
    /\ verified \in [Emails -> Nat]
    /\ mixed \in SUBSET Emails
    /\ twoAtOnce \in BOOLEAN

ConfirmedAccount ==
    [NoAccount EXCEPT !.exists = TRUE, !.password = TRUE, !.confirmed = TRUE]

\* No customers yet, or some that registered and confirmed before and may have
\* signed in.
CustomersInit ==
    /\ account \in [Emails -> {NoAccount, ConfirmedAccount}]
    /\ inbox = {}
    /\ counter = [h \in Counter |-> Waiting]
    /\ signedIn \in SUBSET {e \in Emails : account[e] = ConfirmedAccount}
    /\ saved = {} /\ default = {}
    /\ wrong = [e \in Emails |-> 0]
    /\ lastWrong = [e \in Emails |-> 0]
    /\ verified = [e \in Emails |-> 0]
    /\ mixed = {}
    /\ twoAtOnce = FALSE

Serve(h, record) == counter' = [counter EXCEPT ![h] = record]

Begins(h, record) == Arrives /\ counter[h] = Waiting /\ Serve(h, record)

Row(e, row) == account' = [account EXCEPT ![e] = row]

-----------------------------------------------------------------------------
(***************************************************************************)
(* Registration and verification.                                          *)
(***************************************************************************)

Register(h, e) ==
    /\ ~account[e].exists
    /\ Begins(h, [pc |-> "register", email |-> e])
    /\ UNCHANGED <<account, inbox, signedIn, loginHistory, addressVars>>

\* The row is inserted, unless the e-mail was taken meanwhile.
CreateAccount(h) ==
    LET e == counter[h].email IN
    /\ GoesOn
    /\ counter[h].pc = "register"
    /\ IF account[e].exists
       THEN Serve(h, Waiting) /\ UNCHANGED account
       ELSE /\ Serve(h, [pc |-> "mail", email |-> e])
            /\ Row(e, [NoAccount EXCEPT !.exists = TRUE, !.password = TRUE, !.token = TRUE,
                                        !.tokenEnd = now + VerifyLife])
    /\ UNCHANGED <<inbox, signedIn, loginHistory, addressVars>>

\* The e-mail goes out, or fails: the row stays, and no link was sent.
SendVerification(h) ==
    /\ GoesOn
    /\ counter[h].pc = "mail"
    /\ inbox' \in {inbox, inbox \cup {counter[h].email}}
    /\ Serve(h, Waiting)
    /\ UNCHANGED <<account, signedIn, loginHistory, addressVars>>

TokenFound(e) == account[e].token /\ account[e].tokenEnd > now

VerifyEmail(h, e) ==
    /\ e \in inbox
    /\ TokenFound(e)
    /\ Begins(h, [pc |-> "verify", email |-> e])
    /\ UNCHANGED <<account, inbox, signedIn, loginHistory, addressVars>>

Confirm(h) ==
    LET e == counter[h].email IN
    /\ GoesOn
    /\ counter[h].pc = "verify"
    /\ Row(e, [account[e] EXCEPT !.confirmed = TRUE, !.token = FALSE, !.tokenEnd = 0])
    /\ signedIn' = signedIn \cup {e}
    /\ verified' = [verified EXCEPT ![e] = @ + 1]
    /\ Serve(h, Waiting)
    /\ UNCHANGED <<inbox, wrong, lastWrong, mixed, addressVars>>

\* Mutant: a row that exists is left as it is.
UntouchedRow(e) == IF account[e].exists THEN account[e]
                   ELSE [NoAccount EXCEPT !.exists = TRUE, !.confirmed = TRUE]

\* The row after the external provider vouched for the e-mail; the token of a
\* registration stays.
VouchedRow(e) ==
    [account[e] EXCEPT !.exists = TRUE, !.confirmed = TRUE]

\* syncNeonCustomer, an upsert.
SyncNeonCustomer(e) ==
    /\ Arrives
    /\ Row(e, VouchedRow(e))
    /\ signedIn' = signedIn \cup {e}
    /\ UNCHANGED <<inbox, counter, loginHistory, addressVars>>

\* The upsert of a review: a row without password, not verified.
CustomerOfReview(e) ==
    /\ Arrives
    /\ Row(e, [account[e] EXCEPT !.exists = TRUE])
    /\ UNCHANGED <<inbox, counter, signedIn, loginHistory, addressVars>>

-----------------------------------------------------------------------------
(***************************************************************************)
(* Login.                                                                  *)
(***************************************************************************)

Locked(row) == row.lockedUntil > now

\* The checks made of the row that was read.
MayLogin(e) ==
    /\ account[e].password
    /\ ~Locked(account[e])
    /\ account[e].confirmed

\* The row is read and checked, and the password is hashed.
ReadForLogin(h, e, right) ==
    /\ MayLogin(e)
    /\ Begins(h, [pc |-> "login", email |-> e, right |-> right, row |-> account[e]])
    /\ UNCHANGED <<account, inbox, signedIn, loginHistory, addressVars>>

\* Another login of this e-mail is between its read and its write.
Overlaps(h, e) == \E g \in Counter \ {h} : counter[g].pc = "login" /\ counter[g].email = e

\* Mutant: one attempt more than allowed.
TooManyLate(attempts) == attempts > MaxFailed

TooMany(attempts) == attempts >= MaxFailed

\* The attempts are those read plus one, and the lock is written either way.
WrongPassword(h) ==
    LET e == counter[h].email
        attempts == counter[h].row.failed + 1 IN
    /\ GoesOn
    /\ counter[h].pc = "login"
    /\ ~counter[h].right
    /\ Row(e, [account[e] EXCEPT
          !.failed = attempts,
          !.lockedUntil = IF TooMany(attempts) THEN now + LockLife ELSE 0])
    /\ wrong' = [wrong EXCEPT ![e] = @ + 1]
    /\ lastWrong' = [lastWrong EXCEPT ![e] = now]
    /\ mixed' = IF Overlaps(h, e) THEN mixed \cup {e} ELSE mixed
    /\ Serve(h, Waiting)
    /\ UNCHANGED <<inbox, signedIn, verified, addressVars>>

\* The attempts are cleared when the row that was read had any.
RightPassword(h) ==
    LET e == counter[h].email
        clears == counter[h].row.failed > 0 \/ counter[h].row.lockedUntil # 0 IN
    /\ GoesOn
    /\ counter[h].pc = "login"
    /\ counter[h].right
    /\ IF clears
       THEN /\ Row(e, [account[e] EXCEPT !.failed = 0, !.lockedUntil = 0])
            /\ wrong' = [wrong EXCEPT ![e] = 0]
       ELSE UNCHANGED <<account, wrong>>
    /\ mixed' = IF Overlaps(h, e) THEN mixed \cup {e} ELSE mixed
    /\ signedIn' = signedIn \cup {e}
    /\ Serve(h, Waiting)
    /\ UNCHANGED <<inbox, lastWrong, verified, addressVars>>

-----------------------------------------------------------------------------
(***************************************************************************)
(* Addresses.                                                              *)
(***************************************************************************)

\* CustomerAuthGuard: a token that was signed for the customer.
CustomerGuard == signedIn # {}

\* Mutant: no other address is cleared.
ClearsNothing(a, makes) == {}

\* The defaults a transaction clears: those committed when it looks.
Clears(a, makes) == IF makes THEN default \ {a} ELSE {}

\* create: the transaction has cleared the other defaults.
CreateAddress(h, a, makes) ==
    /\ CustomerGuard
    /\ a \notin saved
    /\ Begins(h, [pc |-> "saving", address |-> a, makes |-> makes, new |-> TRUE,
                  clears |-> Clears(a, makes)])
    /\ UNCHANGED <<account, inbox, signedIn, loginHistory, addressVars>>

\* update and remove: ensureOwnership.
FindAddress(h, a, makes, removes) ==
    /\ CustomerGuard
    /\ a \in saved
    /\ removes => ~makes
    /\ Begins(h, [pc |-> "change", address |-> a, makes |-> makes, removes |-> removes])
    /\ UNCHANGED <<account, inbox, signedIn, loginHistory, addressVars>>

\* update: the transaction has cleared the other defaults.
UpdateAddress(h) ==
    LET c == counter[h] IN
    /\ GoesOn
    /\ c.pc = "change"
    /\ ~c.removes
    /\ Serve(h, [pc |-> "saving", address |-> c.address, makes |-> c.makes, new |-> FALSE,
                 clears |-> Clears(c.address, c.makes)])
    /\ UNCHANGED <<account, inbox, signedIn, loginHistory, addressVars>>

\* A transaction that is past its look, other than this request's.
SavingElsewhere(h) == \E g \in Counter \ {h} : counter[g].pc = "saving"

\* The transaction commits; an update of a row that is gone rolls it back.  An
\* address may be created only once.
SaveAddress(h) ==
    LET c == counter[h] IN
    /\ GoesOn
    /\ c.pc = "saving"
    /\ c.new => c.address \notin saved
    /\ Serve(h, Waiting)
    /\ IF c.new \/ c.address \in saved
       THEN /\ saved' = saved \cup {c.address}
            /\ default' = (default \ c.clears) \cup IF c.makes THEN {c.address} ELSE {}
            /\ twoAtOnce' = (twoAtOnce \/ SavingElsewhere(h))
       ELSE UNCHANGED addressVars
    /\ UNCHANGED <<account, inbox, signedIn, loginHistory>>

RemoveAddress(h) ==
    LET c == counter[h] IN
    /\ GoesOn
    /\ c.pc = "change"
    /\ c.removes
    /\ saved' = saved \ {c.address}
    /\ default' = default \ {c.address}
    /\ Serve(h, Waiting)
    /\ UNCHANGED <<account, inbox, signedIn, loginHistory, twoAtOnce>>

\* The process restarts: whatever was in flight is gone.
CounterStops ==
    /\ counter' = [h \in Counter |-> Waiting]
    /\ UNCHANGED <<account, inbox, signedIn, loginHistory, addressVars>>

\* Requests behind FeatureGuard('customerAccounts').
AccountsAsk ==
    \/ \E h \in Counter, e \in Emails :
          Register(h, e) \/ \E right \in BOOLEAN : ReadForLogin(h, e, right)
    \/ \E e \in Emails : SyncNeonCustomer(e)

\* The other requests, and what is in flight.
CustomersGoOn ==
    \/ \E h \in Counter :
          \/ \E e \in Emails : VerifyEmail(h, e)
          \/ \E a \in Addresses, makes \in BOOLEAN :
                \/ CreateAddress(h, a, makes)
                \/ \E removes \in BOOLEAN : FindAddress(h, a, makes, removes)
          \/ CreateAccount(h) \/ SendVerification(h) \/ Confirm(h)
          \/ WrongPassword(h) \/ RightPassword(h)
          \/ UpdateAddress(h) \/ SaveAddress(h) \/ RemoveAddress(h)
    \/ \E e \in Emails : CustomerOfReview(e)

CustomersStep == AccountsAsk \/ CustomersGoOn

\* The other parts of the process answer requests, and time passes, on their own.
CustomersNext ==
    \/ CustomersStep
    \/ Arrives /\ CounterStops
    \/ (Arrives \/ Tick) /\ UNCHANGED customerVars

CustomersSpec ==
    CustomersInit /\ ClockInit /\ [][CustomersNext]_<<customerVars, clockVars>>

-----------------------------------------------------------------------------
\* "Comprobar bloqueo de cuenta temporal por intentos fallidos excesivos"
\* (customer-auth.service.ts): the attempts are the wrong passwords since the
\* last success, and from the MaxFailed-th on each of them locks the account for
\* LockLife, unless two logins of the account overlapped.
LockoutCounts ==
    \A e \in Emails \ mixed :
        /\ account[e].failed = wrong[e]
        /\ wrong[e] >= MaxFailed => account[e].lockedUntil = lastWrong[e] + LockLife

\* A session belongs to an account whose e-mail was confirmed, by its link or by
\* the provider, whatever created the row: a registration, a review or a sync.
SessionsAreConfirmed == \A e \in signedIn : account[e].confirmed

\* At most one address is the default, unless two changes overlapped.
OneDefault == Cardinality(default) <= 1 \/ twoAtOnce
=============================================================================
