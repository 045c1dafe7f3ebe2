--------------------------- MODULE Subscriptions ---------------------------
(***************************************************************************)
(* Subscriptions of one tenant: creation and payment method set-up, the    *)
(* customer's and the admin's requests (both services keep the same rules), *)
(* the setup_intent webhook, and the renewal job that Inngest runs every    *)
(* day or on demand (subscription-renewal.service.ts).                      *)
(*                                                                         *)
(* A request reads the row (ensure, ensureOwnership), checks it, and        *)
(* writes it later without looking again.  The job reads the due            *)
(* subscriptions once and then handles them one by one: an order, a charge  *)
(* at Stripe, and the transaction that moves the date.                      *)
(*                                                                         *)
(* Time is a discrete clock; dates are compared with it as the code does,   *)
(* and it only moves while no request and no run of the job is in flight,   *)
(* for both take far less than the days between two renewals.               *)
(***************************************************************************)
EXTENDS Integers, FiniteSets

CONSTANTS
    Subs,
    Pairs,           \* pairs of customer and variant
    PairOf,          \* the pair each subscription is for
    Frequencies,     \* values of frequencyDays
    Handlers,        \* requests that may be in flight at once
    Runs,            \* runs of the renewal job that may overlap
    NoSub,
    BatchSize,       \* the take: 50 of the job
    DayBound,        \* bound: days in a behaviour
    RequestBound,    \* bound: requests in a behaviour
    FaultBound       \* bound: crashes, lost replies and database errors

ASSUME SubscriptionsAssumption ==
    /\ IsFiniteSet(Subs)
    /\ IsFiniteSet(Runs)
    /\ PairOf \in [Subs -> Pairs]
    /\ Frequencies \subseteq Nat \ {0}
    /\ NoSub \notin Subs
    /\ BatchSize \in Nat \ {0}
    /\ DayBound \in Nat /\ RequestBound \in Nat /\ FaultBound \in Nat

VARIABLES
    now,         \* the day
    status,      \* SubStatus, "NONE" before the row exists
    nextShip,    \* nextShipAt
    freq,        \* frequencyDays, 0 before the row exists
    setup,       \* SetupIntent of each subscription: "none", "open", "succeeded"
    recorded,    \* subscriptions whose set-up event is in StripeEvent
    req,         \* what each request holds between its read and its write
    run,         \* what each run of the job holds
    orders,      \* renewal orders created for each subscription
    charges,     \* charges Stripe made for each subscription
    requests,    \* requests made so far
    faults,      \* faults so far
    born,        \* history: the day the subscription was created
    late         \* history: charges since a subscription was last cancelled

vars == <<now, status, nextShip, freq, setup, recorded, req, run, orders,
          charges, requests, faults, born, late>>

SubStatus == {"ACTIVE", "PAUSED", "SKIPPED_NEXT", "CANCELLED", "PAYMENT_FAILED"}
Requested == {"pause", "resume", "skipNext", "cancel", "update"}
Exists(s) == status[s] # "NONE"

Idle == [pc |-> "idle"]
Ask  == [pc : {"asked"}, op : Requested, sub : Subs, moves : BOOLEAN, next : Nat,
         freq : Frequencies]
Job  == [pc : {"loop", "ordered", "charged", "failed"}, due : SUBSET Subs,
         cur : Subs \cup {NoSub}, freqs : [Subs -> Nat]]

TypeOK ==
    /\ now \in 0..DayBound
    /\ status \in [Subs -> SubStatus \cup {"NONE"}]
    /\ nextShip \in [Subs -> Nat]
    /\ freq \in [Subs -> Frequencies \cup {0}]
    /\ setup \in [Subs -> {"none", "open", "succeeded"}]
    /\ recorded \subseteq {s \in Subs : setup[s] = "succeeded"}
    /\ req \in [Handlers -> {Idle} \cup Ask]
    /\ run \in [Runs -> {Idle} \cup Job]
    /\ orders \in [Subs -> Nat]
    /\ charges \in [Subs -> Nat]
    /\ requests \in 0..RequestBound
    /\ faults \in 0..FaultBound
    /\ born \in [Subs -> 0..DayBound]
    /\ late \in [Subs -> Nat]

Init ==
    /\ now = 0
    /\ status = [s \in Subs |-> "NONE"]
    /\ nextShip = [s \in Subs |-> 0]
    /\ freq = [s \in Subs |-> 0]
    /\ setup = [s \in Subs |-> "none"]
    /\ recorded = {}
    /\ req = [h \in Handlers |-> Idle]
    /\ run = [w \in Runs |-> Idle]
    /\ orders = [s \in Subs |-> 0]
    /\ charges = [s \in Subs |-> 0]
    /\ requests = 0
    /\ faults = 0
    /\ born = [s \in Subs |-> 0]
    /\ late = [s \in Subs |-> 0]

-----------------------------------------------------------------------------
\* Mutant: the partial unique index is gone.
NoIndex(s) == TRUE

\* The partial unique index lets the row of s become ACTIVE.
IndexAllows(s) ==
    \A t \in Subs \ {s} : PairOf[t] = PairOf[s] => status[t] # "ACTIVE"

\* The row of a new subscription: PAUSED until a payment method is there.
Create(s, f) ==
    /\ status[s] = "NONE"
    /\ status' = [status EXCEPT ![s] = "PAUSED"]
    /\ freq' = [freq EXCEPT ![s] = f]
    /\ nextShip' = [nextShip EXCEPT ![s] = now + f]
    /\ born' = [born EXCEPT ![s] = now]
    /\ UNCHANGED <<now, setup, recorded, req, run, orders, charges, requests, faults>>

\* createSetupIntent and the answer with its client secret.  A request that
\* dies before leaves a PAUSED row without an intent.
CreateSetupIntent(s) ==
    /\ Exists(s)
    /\ setup[s] = "none"
    /\ setup' = [setup EXCEPT ![s] = "open"]
    /\ UNCHANGED <<now, status, nextShip, freq, recorded, req, run, orders, charges,
                   requests, faults, born>>

\* External: the customer confirms a card, and Stripe emits the event.
ConfirmSetup(s) ==
    /\ setup[s] = "open"
    /\ setup' = [setup EXCEPT ![s] = "succeeded"]
    /\ UNCHANGED <<now, status, nextShip, freq, recorded, req, run, orders, charges,
                   requests, faults, born>>

\* The webhook holds a setup_intent.succeeded event of this subscription.
SetupSucceeded(s) == setup[s] = "succeeded"

\* onSetupIntentSucceeded: ACTIVE whatever the status was.  A repeated delivery
\* finds the event and changes nothing; one the index refuses rolls the event
\* back with the rest, and is repeated.  An error of the event's insert is taken for
\* a repeated delivery and answered with a 2xx: nothing changes, and as deliveries
\* are not bound to happen, that is an event that is never delivered again.
OnSetupIntentSucceeded(s) ==
    /\ SetupSucceeded(s)
    /\ s \notin recorded
    /\ IndexAllows(s)
    /\ recorded' = recorded \cup {s}
    /\ status' = [status EXCEPT ![s] = "ACTIVE"]
    /\ UNCHANGED <<now, nextShip, freq, setup, req, run, orders, charges, requests, faults, born>>

-----------------------------------------------------------------------------
(***************************************************************************)
(* Requests of customers and admins.                                       *)
(***************************************************************************)

\* The check each request makes of the status it read.
MayAsk(op, st) ==
    CASE op = "pause"    -> st \notin {"CANCELLED", "PAUSED"}
      [] op = "resume"   -> st = "PAUSED"
      [] op = "skipNext" -> st = "ACTIVE"
      [] op = "cancel"   -> st # "CANCELLED"
      [] op = "update"   -> st # "CANCELLED"

\* The date of a resumed subscription whose date has passed: no renewal at once.
ResumedDate(s) == now + freq[s]

\* Does the write set the date?  resume leaves a date that is still to come.
MovesDate(op, s) == op = "skipNext" \/ (op = "resume" /\ nextShip[s] < now)

\* The date the write sets, from the row as it was read.
DateFor(op, s) ==
    CASE op = "skipNext" -> nextShip[s] + freq[s]
      [] MovesDate(op, s) /\ op = "resume" -> ResumedDate(s)
      [] OTHER -> 0

\* The read, the check, and the values computed from what was read.
Request(h, s, op, f) ==
    /\ req[h] = Idle
    /\ requests < RequestBound
    /\ Exists(s)
    /\ MayAsk(op, status[s])
    /\ op # "update" => f = freq[s]
    /\ req' = [req EXCEPT ![h] = [pc |-> "asked", op |-> op, sub |-> s,
                                  moves |-> MovesDate(op, s),
                                  next |-> DateFor(op, s), freq |-> f]]
    /\ requests' = requests + 1
    /\ UNCHANGED <<now, status, nextShip, freq, setup, recorded, run, orders, charges,
                   faults, born>>

\* The status each request writes.
Written(op, st) ==
    CASE op = "pause"    -> "PAUSED"
      [] op = "resume"   -> "ACTIVE"
      [] op = "skipNext" -> "SKIPPED_NEXT"
      [] op = "cancel"   -> "CANCELLED"
      [] op = "update"   -> st

\* The write, by id alone.  A resume the index refuses changes nothing.
Apply(h) ==
    LET r == req[h]
        s == r.sub IN
    /\ r.pc = "asked"
    /\ req' = [req EXCEPT ![h] = Idle]
    /\ IF r.op = "resume" => IndexAllows(s)
       THEN /\ status' = [status EXCEPT ![s] = Written(r.op, status[s])]
            /\ nextShip' = [nextShip EXCEPT ![s] = IF r.moves THEN r.next ELSE @]
            /\ freq' = [freq EXCEPT ![s] = IF r.op = "update" THEN r.freq ELSE @]
       ELSE UNCHANGED <<status, nextShip, freq>>
    /\ UNCHANGED <<now, setup, recorded, run, orders, charges, requests, faults, born>>

-----------------------------------------------------------------------------
(***************************************************************************)
(* The renewal job.                                                        *)
(***************************************************************************)

\* Mutant: the job takes every subscription whose date has come.
DueWhateverStatus(s) == Exists(s) /\ nextShip[s] <= now

Due(s) == status[s] = "ACTIVE" /\ nextShip[s] <= now

\* One batch of due subscriptions is read, with their frequencies.
StartRun(w) ==
    LET dueNow == {s \in Subs : Due(s)}
        size   == Cardinality(dueNow) IN
    /\ run[w] = Idle
    /\ dueNow # {}
    /\ \E batch \in SUBSET dueNow :
          /\ Cardinality(batch) = (IF size < BatchSize THEN size ELSE BatchSize)
          /\ run' = [run EXCEPT ![w] = [pc |-> "loop", due |-> batch,
                                        cur |-> NoSub, freqs |-> freq]]
    /\ UNCHANGED <<now, status, nextShip, freq, setup, recorded, req, orders, charges,
                   requests, faults, born>>

\* The next subscription of the batch gets its order, still unpaid.
CreateOrder(w) ==
    /\ run[w].pc = "loop"
    /\ \E s \in run[w].due :
          /\ orders' = [orders EXCEPT ![s] = @ + 1]
          /\ run' = [run EXCEPT ![w].pc = "ordered", ![w].cur = s,
                                ![w].due = run[w].due \ {s}]
    /\ UNCHANGED <<now, status, nextShip, freq, setup, recorded, req, charges, requests,
                   faults, born>>

\* The order is not created: the error ends the renewal of this subscription.
CreateOrderFails(w) ==
    /\ run[w].pc = "loop"
    /\ faults < FaultBound
    /\ faults' = faults + 1
    /\ \E s \in run[w].due :
          run' = [run EXCEPT ![w].pc = "failed", ![w].cur = s,
                             ![w].due = run[w].due \ {s}]
    /\ UNCHANGED <<now, status, nextShip, freq, setup, recorded, req, orders, charges,
                   requests, born>>

\* chargeOffSession succeeds.
Charge(w) ==
    /\ run[w].pc = "ordered"
    /\ charges' = [charges EXCEPT ![run[w].cur] = @ + 1]
    /\ run' = [run EXCEPT ![w].pc = "charged"]
    /\ UNCHANGED <<now, status, nextShip, freq, setup, recorded, req, orders, requests,
                   faults, born>>

\* chargeOffSession throws: the card is declined, or the reply to a charge that
\* was made is lost.
ChargeThrows(w) ==
    /\ run[w].pc = "ordered"
    /\ \/ UNCHANGED <<charges, faults>>
       \/ /\ faults < FaultBound
          /\ faults' = faults + 1
          /\ charges' = [charges EXCEPT ![run[w].cur] = @ + 1]
    /\ run' = [run EXCEPT ![w].pc = "failed"]
    /\ UNCHANGED <<now, status, nextShip, freq, setup, recorded, req, orders, requests, born>>

\* Mutant: the date moves on from the old date by nothing.
DateKept(w) == nextShip[run[w].cur]

\* The date after a renewal, with the frequency the batch was read with.
RenewedDate(w) == now + run[w].freqs[run[w].cur]

\* The transaction that stores the payment and moves the date.
Advance(w) ==
    /\ run[w].pc = "charged"
    /\ nextShip' = [nextShip EXCEPT ![run[w].cur] = RenewedDate(w)]
    /\ run' = [run EXCEPT ![w].pc = "loop", ![w].cur = NoSub]
    /\ UNCHANGED <<now, status, freq, setup, recorded, req, orders, charges, requests,
                   faults, born>>

AdvanceFails(w) ==
    /\ run[w].pc = "charged"
    /\ faults < FaultBound
    /\ faults' = faults + 1
    /\ run' = [run EXCEPT ![w].pc = "failed"]
    /\ UNCHANGED <<now, status, nextShip, freq, setup, recorded, req, orders, charges,
                   requests, born>>

\* Any error of the renewal marks the row, whatever its status is by then; an
\* error of the marking is swallowed.
MarkFailed(w) ==
    /\ run[w].pc = "failed"
    /\ run' = [run EXCEPT ![w].pc = "loop", ![w].cur = NoSub]
    /\ \/ /\ status' = [status EXCEPT ![run[w].cur] = "PAYMENT_FAILED"]
          /\ UNCHANGED faults
       \/ /\ faults < FaultBound
          /\ faults' = faults + 1
          /\ UNCHANGED status
    /\ UNCHANGED <<now, nextShip, freq, setup, recorded, req, orders, charges, requests, born>>

EndRun(w) ==
    /\ run[w].pc = "loop"
    /\ run[w].due = {}
    /\ run' = [run EXCEPT ![w] = Idle]
    /\ UNCHANGED <<now, status, nextShip, freq, setup, recorded, req, orders, charges,
                   requests, faults, born>>

\* The server stops: runs and requests in flight are gone.  Inngest starts the
\* step again, which reads the due subscriptions anew.
Crash ==
    /\ faults < FaultBound
    /\ faults' = faults + 1
    /\ req' = [h \in Handlers |-> Idle]
    /\ run' = [w \in Runs |-> Idle]
    /\ UNCHANGED <<now, status, nextShip, freq, setup, recorded, orders, charges,
                   requests, born>>

NextDay ==
    /\ now < DayBound
    /\ \A h \in Handlers : req[h] = Idle
    /\ \A w \in Runs : run[w] = Idle
    /\ now' = now + 1
    /\ UNCHANGED <<status, nextShip, freq, setup, recorded, req, run, orders, charges,
                   requests, faults, born>>

-----------------------------------------------------------------------------
RunStep(w) ==
    \/ StartRun(w)
    \/ CreateOrder(w) \/ CreateOrderFails(w)
    \/ Charge(w) \/ ChargeThrows(w)
    \/ Advance(w) \/ AdvanceFails(w)
    \/ MarkFailed(w)
    \/ EndRun(w)

Step ==
    \/ \E s \in Subs :
          \/ \E f \in Frequencies : Create(s, f)
          \/ CreateSetupIntent(s)
          \/ ConfirmSetup(s)
          \/ OnSetupIntentSucceeded(s)
    \/ \E h \in Handlers :
          \/ \E s \in Subs, op \in Requested, f \in Frequencies : Request(h, s, op, f)
          \/ Apply(h)
    \/ \E w \in Runs : RunStep(w)
    \/ Crash
    \/ NextDay

\* late counts the charges made since the subscription was last cancelled.
RecordLate ==
    late' = [s \in Subs |-> IF status'[s] = "CANCELLED"
                            THEN late[s] + (charges'[s] - charges[s])
                            ELSE 0]

Next == Step /\ RecordLate

Spec == Init /\ [][Next]_vars

\* Inngest starts the job again and again, and a run that is not cut short goes
\* on.  Nothing is assumed of customers, Stripe or the passing of days.
FairSpec == Spec /\ \A w \in Runs : WF_vars(RunStep(w) /\ RecordLate)

-----------------------------------------------------------------------------
\* One ACTIVE subscription per customer and variant (the partial unique index),
\* through every path that activates one: webhook, resume, stale requests.
OneActivePerPair ==
    \A s, t \in Subs :
        /\ status[s] = "ACTIVE" /\ status[t] = "ACTIVE"
        /\ PairOf[s] = PairOf[t]
        => s = t

\* While a subscription stays cancelled, no more charges are made for it than
\* there were runs of the job in flight: a run that had read it as due may
\* still charge it, and no later one does.
ChargesStopAfterCancel == \A s \in Subs : late[s] <= Cardinality(Runs)

\* A customer is charged at most once per period since the subscription was
\* created, and once more for each crash, lost reply or database error: pauses,
\* resumes, skips and frequency changes racing the job never bring a charge
\* forward.  One request and one run of the job at a time.
ChargesFollowSchedule ==
    \A s \in Subs : \A f \in Frequencies :
        (\A g \in Frequencies : f <= g) =>
            charges[s] <= (now - born[s]) \div f + faults

\* "Cancela la suscripcion (terminal)" (admin-subscriptions.service.ts).
CancelledIsTerminal ==
    [][\A s \in Subs : status[s] = "CANCELLED" => status'[s] = "CANCELLED"]_vars

\* "Salta el proximo envio: empuja nextShipAt una frecuencia hacia adelante"
\* (admin-subscriptions.service.ts): a skipped subscription waits for its new
\* date, and is then renewed like any other.
SkipEndsAtTheNewDate ==
    \A s \in Subs :
        status[s] = "SKIPPED_NEXT" /\ nextShip[s] <= now
            ~> status[s] # "SKIPPED_NEXT" \/ nextShip[s] > now
=============================================================================
