------------------------ MODULE SubscriptionsProofs ------------------------
(***************************************************************************)
(* Theorems about Subscriptions, and about Gifts next to them, for every   *)
(* value of their constants: types, the partial unique index, the bound on *)
(* charges after a cancellation, the schedule of the charges, and that a   *)
(* gift is a single-use code.                                              *)
(*                                                                         *)
(* The bound after a cancellation is not inductive.  What a run of the job *)
(* may still charge is what it holds: the subscriptions of its batch it    *)
(* has not come to, and the one whose order it has just created.  While a  *)
(* subscription stays cancelled no run takes hold of it, and each charge   *)
(* is made by a run that holds it and lets go of it, so the late charges   *)
(* and the runs that hold it are together no more than the runs there are. *)
(***************************************************************************)
EXTENDS Gifts, FiniteSetTheorems, TLAPS

\* The run may still charge the subscription.
Holds(r, s) == r.pc # "idle" /\ (s \in r.due \/ (r.pc = "ordered" /\ r.cur = s))
Holders(s) == {w \in Runs : Holds(run[w], s)}

\* The subscription at hand is not in the rest of the batch.
OneAtATime == \A w \in Runs : run[w].pc = "ordered" => run[w].cur \in Subs \ run[w].due

LateBound ==
    \A s \in Subs :
        IF status[s] = "CANCELLED"
        THEN late[s] + Cardinality(Holders(s)) <= Cardinality(Runs)
        ELSE late[s] = 0

-----------------------------------------------------------------------------
(***************************************************************************)
(* Types.                                                                  *)
(***************************************************************************)
LEMMA FrequencyType == Frequencies \subseteq Nat /\ Frequencies \cup {0} \subseteq Nat
BY SubscriptionsAssumption

LEMMA IdleShape ==
    /\ Idle.pc = "idle"
    /\ \A r \in {Idle} \cup Ask : r.pc # "idle" => r \in Ask
    /\ \A r \in {Idle} \cup Job : r.pc # "idle" => r \in Job
BY DEF Idle, Ask, Job

LEMMA InitTypes == Init => TypeOK
BY SubscriptionsAssumption DEF Init, TypeOK, SubStatus

\* A run of the job lets go of its subscription or of nothing, charges what it
\* holds only, and marks what is at hand.
RunMoves(w) ==
    /\ \E j \in {Idle} \cup Job :
          /\ run' = [run EXCEPT ![w] = j]
          /\ j.pc = "ordered" => j.cur \in Subs \ j.due
          /\ \A s \in Subs : Holds(j, s) => Holds(run[w], s) \/ Due(s)
    /\ \/ UNCHANGED charges
       \/ /\ run[w].pc = "ordered"
          /\ run'[w].pc # "ordered"
          /\ run'[w].due = run[w].due
          /\ charges' = [charges EXCEPT ![run[w].cur] = @ + 1]

LEMMA RunStepMoves ==
    ASSUME TypeOK, OneAtATime, NEW w \in Runs, RunStep(w)
    PROVE  RunMoves(w)
<1> DEFINE Moves(j) == /\ run' = [run EXCEPT ![w] = j]
                       /\ j.pc = "ordered" => j.cur \in Subs \ j.due
                       /\ \A s \in Subs : Holds(j, s) => Holds(run[w], s) \/ Due(s)
<1>1. run[w].pc # "idle" => run[w] \in Job
  BY IdleShape DEF TypeOK
<1>2. CASE StartRun(w)
  <2>1. PICK batch \in SUBSET {s \in Subs : Due(s)} :
           run' = [run EXCEPT ![w] = [pc |-> "loop", due |-> batch, cur |-> NoSub,
                                      freqs |-> freq]]
    BY <1>2 DEF StartRun
  <2> DEFINE j == [pc |-> "loop", due |-> batch, cur |-> NoSub, freqs |-> freq]
  <2>2. freq \in [Subs -> Nat]
    BY FrequencyType DEF TypeOK
  <2>3. j \in Job
    BY <2>2 DEF Job
  <2>4. Moves(j)
    BY <2>1 DEF Holds
  <2>5. UNCHANGED charges
    BY <1>2 DEF StartRun
  <2> HIDE DEF j
  <2> QED
    BY <2>3, <2>4, <2>5 DEF RunMoves
<1>3. CASE CreateOrder(w) \/ CreateOrderFails(w)
  <2>1. PICK s \in run[w].due, p \in {"ordered", "failed"} :
           run' = [run EXCEPT ![w].pc = p, ![w].cur = s, ![w].due = run[w].due \ {s}]
    BY <1>3 DEF CreateOrder, CreateOrderFails
  <2> DEFINE j == [run[w] EXCEPT !.pc = p, !.cur = s, !.due = run[w].due \ {s}]
  <2>2. run[w] \in Job
    BY <1>1, <1>3 DEF CreateOrder, CreateOrderFails
  <2>3. /\ j \in Job /\ j.pc = p /\ j.cur = s /\ j.due = run[w].due \ {s}
        /\ s \in Subs
    BY <2>2 DEF Job
  <2>4. run' = [run EXCEPT ![w] = j]
    BY <2>1
  <2>5. UNCHANGED charges /\ run[w].pc = "loop"
    BY <1>3 DEF CreateOrder, CreateOrderFails
  <2> HIDE DEF j
  <2>6. Moves(j)
    BY <2>3, <2>4, <2>5 DEF Holds
  <2> QED
    BY <2>3, <2>5, <2>6 DEF RunMoves
<1>4. CASE Charge(w) \/ ChargeThrows(w)
  <2>1. PICK p \in {"charged", "failed"} : run' = [run EXCEPT ![w].pc = p]
    BY <1>4 DEF Charge, ChargeThrows
  <2> DEFINE j == [run[w] EXCEPT !.pc = p]
  <2>2. run[w] \in Job /\ run[w].pc = "ordered"
    BY <1>1, <1>4 DEF Charge, ChargeThrows
  <2>3. j \in Job /\ j.pc = p /\ j.due = run[w].due
    BY <2>2 DEF Job
  <2>4. run' = [run EXCEPT ![w] = j]
    BY <2>1
  <2>5. UNCHANGED charges \/ charges' = [charges EXCEPT ![run[w].cur] = @ + 1]
    BY <1>4 DEF Charge, ChargeThrows
  <2> HIDE DEF j
  <2>6. Moves(j)
    BY <2>2, <2>3, <2>4 DEF Holds
  <2>7. run'[w] = j
    BY <2>4 DEF TypeOK
  <2> QED
    BY <2>2, <2>3, <2>5, <2>6, <2>7 DEF RunMoves
<1>5. CASE AdvanceFails(w) \/ Advance(w) \/ MarkFailed(w)
  <2>1. run[w] \in Job /\ run[w].pc \in {"charged", "failed"} /\ UNCHANGED charges
    BY <1>1, <1>5 DEF AdvanceFails, Advance, MarkFailed
  <2>2. PICK p \in {"loop", "failed"}, c \in Subs \cup {NoSub} :
           run' = [run EXCEPT ![w] = [run[w] EXCEPT !.pc = p, !.cur = c]]
    <3>1. CASE AdvanceFails(w)
      <4>1. run' = [run EXCEPT ![w] = [run[w] EXCEPT !.pc = "failed"]]
        BY <3>1 DEF AdvanceFails
      <4>2. [run[w] EXCEPT !.pc = "failed"] = [run[w] EXCEPT !.pc = "failed", !.cur = run[w].cur]
        BY <2>1 DEF Job
      <4>3. run[w].cur \in Subs \cup {NoSub}
        BY <2>1 DEF Job
      <4> QED
        BY <4>1, <4>2, <4>3
    <3>2. CASE Advance(w) \/ MarkFailed(w)
      BY <3>2 DEF Advance, MarkFailed
    <3> QED
      BY <1>5, <3>1, <3>2
  <2> DEFINE j == [run[w] EXCEPT !.pc = p, !.cur = c]
  <2>3. j \in Job /\ j.pc = p /\ j.due = run[w].due
    BY <2>1 DEF Job
  <2>4. run' = [run EXCEPT ![w] = j]
    BY <2>2
  <2> HIDE DEF j
  <2>5. Moves(j)
    BY <2>1, <2>3, <2>4 DEF Holds
  <2> QED
    BY <2>1, <2>3, <2>5 DEF RunMoves
<1>6. CASE EndRun(w)
  <2>1. run' = [run EXCEPT ![w] = Idle] /\ UNCHANGED charges
    BY <1>6 DEF EndRun
  <2>2. Moves(Idle)
    BY <2>1, IdleShape DEF Holds
  <2> QED
    BY <2>1, <2>2 DEF RunMoves
<1> QED
  BY <1>2, <1>3, <1>4, <1>5, <1>6 DEF RunStep

\* The rest of TypeOK under a step of a run.
LEMMA RunStepTypes ==
    ASSUME TypeOK, OneAtATime, NEW w \in Runs, RunStep(w), late' \in [Subs -> Nat]
    PROVE  TypeOK'
<1>1. run' \in [Runs -> {Idle} \cup Job]
  BY RunStepMoves DEF RunMoves, TypeOK
<1>2. charges' \in [Subs -> Nat]
  BY RunStepMoves DEF RunMoves, TypeOK
<1>3. UNCHANGED <<now, freq, setup, recorded, req, requests, born>>
  BY DEF RunStep, StartRun, CreateOrder, CreateOrderFails, Charge, ChargeThrows, Advance,
         AdvanceFails, MarkFailed, EndRun
<1>4. faults' = faults \/ (faults < FaultBound /\ faults' = faults + 1)
  BY DEF RunStep, StartRun, CreateOrder, CreateOrderFails, Charge, ChargeThrows, Advance,
         AdvanceFails, MarkFailed, EndRun
<1>5. faults' \in 0..FaultBound
  BY <1>4, SubscriptionsAssumption DEF TypeOK
<1>6. status' \in [Subs -> SubStatus \cup {"NONE"}]
  <2>1. status' = status \/ status' = [status EXCEPT ![run[w].cur] = "PAYMENT_FAILED"]
    BY DEF RunStep, StartRun, CreateOrder, CreateOrderFails, Charge, ChargeThrows, Advance,
           AdvanceFails, MarkFailed, EndRun
  <2> QED
    BY <2>1 DEF TypeOK, SubStatus
<1>7. orders' \in [Subs -> Nat]
  <2>1. orders' = orders \/ \E s \in run[w].due : orders' = [orders EXCEPT ![s] = @ + 1]
    BY DEF RunStep, StartRun, CreateOrder, CreateOrderFails, Charge, ChargeThrows, Advance,
           AdvanceFails, MarkFailed, EndRun
  <2> QED
    BY <2>1 DEF TypeOK
<1>8. nextShip' \in [Subs -> Nat]
  <2>1. CASE Advance(w)
    <3>1. run[w] \in Job
      BY <2>1, IdleShape DEF Advance, TypeOK
    <3>2. run[w].cur \in Subs => RenewedDate(w) \in Nat
      BY <3>1, SubscriptionsAssumption DEF RenewedDate, Job, TypeOK
    <3>3. nextShip' = [nextShip EXCEPT ![run[w].cur] = RenewedDate(w)]
      BY <2>1 DEF Advance
    <3> QED
      BY <3>2, <3>3 DEF TypeOK
  <2>2. CASE ~Advance(w)
    BY <2>2 DEF RunStep, StartRun, CreateOrder, CreateOrderFails, Charge, ChargeThrows,
                AdvanceFails, MarkFailed, EndRun, TypeOK
  <2> QED
    BY <2>1, <2>2
<1> QED
  BY <1>1, <1>2, <1>3, <1>5, <1>6, <1>7, <1>8 DEF TypeOK

\* Everything but the renewal job leaves the charges alone, and takes nothing
\* new into a run.
Quiet ==
    /\ UNCHANGED charges
    /\ \/ UNCHANGED run
       \/ run' = [w \in Runs |-> Idle]

LEMMA RowTypes ==
    ASSUME TypeOK, NEW s \in Subs, late' \in [Subs -> Nat],
           \/ \E f \in Frequencies : Create(s, f)
           \/ CreateSetupIntent(s) \/ ConfirmSetup(s) \/ OnSetupIntentSucceeded(s)
    PROVE  TypeOK' /\ Quiet
<1>1. CASE \E f \in Frequencies : Create(s, f)
  BY <1>1, SubscriptionsAssumption DEF Create, TypeOK, SubStatus, Quiet
<1>2. CASE CreateSetupIntent(s) \/ ConfirmSetup(s)
  BY <1>2 DEF CreateSetupIntent, ConfirmSetup, TypeOK, Quiet
<1>3. CASE OnSetupIntentSucceeded(s)
  BY <1>3 DEF OnSetupIntentSucceeded, SetupSucceeded, TypeOK, SubStatus, Quiet
<1> QED
  BY <1>1, <1>2, <1>3

\* What a request computes from the row it read is of its type.
LEMMA RequestTypes ==
    ASSUME TypeOK, NEW h \in Handlers, late' \in [Subs -> Nat],
           \/ \E s \in Subs, op \in Requested, f \in Frequencies : Request(h, s, op, f)
           \/ Apply(h)
    PROVE  TypeOK' /\ Quiet
<1>1. ASSUME NEW s \in Subs, NEW op \in Requested, NEW f \in Frequencies, Request(h, s, op, f)
      PROVE  TypeOK' /\ Quiet
  <2> DEFINE r == [pc |-> "asked", op |-> op, sub |-> s, moves |-> MovesDate(op, s),
                   next |-> DateFor(op, s), freq |-> f]
  <2>1. now \in Nat /\ nextShip[s] \in Nat /\ freq[s] \in Nat
    <3>1. now \in Nat
      BY SubscriptionsAssumption DEF TypeOK
    <3>2. freq[s] \in Frequencies \cup {0}
      BY DEF TypeOK
    <3> QED
      BY <3>1, <3>2, FrequencyType DEF TypeOK
  <2>2. DateFor(op, s) \in Nat
    BY <2>1 DEF DateFor, ResumedDate
  <2>3. MovesDate(op, s) \in BOOLEAN
    BY DEF MovesDate
  <2>4. r \in Ask
    BY <2>2, <2>3 DEF Ask
  <2>5. req' = [req EXCEPT ![h] = r] /\ requests' = requests + 1 /\ requests < RequestBound
    BY <1>1 DEF Request
  <2>6. UNCHANGED <<now, status, nextShip, freq, setup, recorded, run, orders, charges,
                    faults, born>>
    BY <1>1 DEF Request
  <2> HIDE DEF r
  <2>7. requests' \in 0..RequestBound /\ req' \in [Handlers -> {Idle} \cup Ask]
    BY <2>4, <2>5, SubscriptionsAssumption DEF TypeOK
  <2> QED
    BY <2>6, <2>7 DEF TypeOK, Quiet
<1>2. CASE Apply(h)
  <2> DEFINE r == req[h]
  <2>1. r \in Ask
    BY <1>2, IdleShape DEF Apply, TypeOK
  <2>2. r.op \in Requested /\ r.sub \in Subs /\ r.next \in Nat /\ r.freq \in Frequencies
    BY <2>1 DEF Ask
  <2>3. Written(r.op, status[r.sub]) \in SubStatus \cup {"NONE"}
    BY <2>2 DEF Written, Requested, SubStatus, TypeOK
  <2>4. req' = [req EXCEPT ![h] = Idle]
    BY <1>2 DEF Apply
  <2>5. \/ UNCHANGED <<status, nextShip, freq>>
        \/ /\ status' = [status EXCEPT ![r.sub] = Written(r.op, status[r.sub])]
           /\ nextShip' = [nextShip EXCEPT ![r.sub] = IF r.moves THEN r.next ELSE @]
           /\ freq' = [freq EXCEPT ![r.sub] = IF r.op = "update" THEN r.freq ELSE @]
    BY <1>2 DEF Apply
  <2>6. UNCHANGED <<now, setup, recorded, run, orders, charges, requests, faults, born>>
    BY <1>2 DEF Apply
  <2> HIDE DEF r
  <2>7. req' \in [Handlers -> {Idle} \cup Ask]
    BY <2>4 DEF TypeOK
  <2>8. /\ status' \in [Subs -> SubStatus \cup {"NONE"}]
        /\ nextShip' \in [Subs -> Nat]
        /\ freq' \in [Subs -> Frequencies \cup {0}]
    BY <2>2, <2>3, <2>5 DEF TypeOK
  <2> QED
    BY <2>6, <2>7, <2>8 DEF TypeOK, Quiet
<1> QED
  BY <1>1, <1>2

LEMMA EnvironmentTypes ==
    ASSUME TypeOK, late' \in [Subs -> Nat], Crash \/ NextDay \/ UNCHANGED vars
    PROVE  TypeOK' /\ Quiet
<1>1. CASE Crash
  BY <1>1, SubscriptionsAssumption DEF Crash, TypeOK, Quiet
<1>2. CASE NextDay
  <2>1. now' \in 0..DayBound
    BY <1>2, SubscriptionsAssumption DEF NextDay, TypeOK
  <2> QED
    BY <1>2, <2>1 DEF NextDay, TypeOK, Quiet
<1>3. CASE UNCHANGED vars
  BY <1>3 DEF vars, TypeOK, Quiet
<1> QED
  BY <1>1, <1>2, <1>3

-----------------------------------------------------------------------------
(***************************************************************************)
(* Who charges, and the bound.                                             *)
(***************************************************************************)

\* Every step but those of a run is quiet.
LEMMA StepCases ==
    ASSUME TypeOK, OneAtATime, Step, late' \in [Subs -> Nat]
    PROVE  TypeOK' /\ (Quiet \/ \E w \in Runs : RunStep(w))
BY RowTypes, RequestTypes, EnvironmentTypes, RunStepTypes DEF Step

\* late only counts charges, and charges only grow.
LEMMA LateType ==
    ASSUME TypeOK, OneAtATime, Step, RecordLate
    PROVE  late' \in [Subs -> Nat]
<1>1. \/ UNCHANGED charges
      \/ \E w \in Runs : RunStep(w)
  BY DEF Step, Create, CreateSetupIntent, ConfirmSetup, OnSetupIntentSucceeded, Request, Apply,
         Crash, NextDay
<1>2. \A s \in Subs : charges'[s] - charges[s] \in Nat
  <2>1. ASSUME NEW w \in Runs, RunStep(w), NEW s \in Subs
        PROVE  charges'[s] = charges[s] \/ charges'[s] = charges[s] + 1
    BY <2>1, RunStepMoves DEF RunMoves, TypeOK
  <2> QED
    BY <1>1, <2>1 DEF TypeOK
<1> QED
  BY <1>2 DEF RecordLate, TypeOK

\* The bound of one subscription: a charge is paid for with a run that lets go,
\* and a cancelled subscription gets no new run.
LEMMA BoundKept ==
    ASSUME TypeOK, LateBound, RecordLate, NEW s \in Subs,
           \/ /\ charges'[s] = charges[s]
              /\ status[s] = "CANCELLED" => Holders(s)' \subseteq Holders(s)
           \/ /\ charges'[s] = charges[s] + 1
              /\ status'[s] = "CANCELLED" => status[s] = "CANCELLED"
              /\ \E w \in Holders(s) : Holders(s)' \subseteq Holders(s) \ {w}
    PROVE  IF status'[s] = "CANCELLED"
           THEN late'[s] + Cardinality(Holders(s)') <= Cardinality(Runs)
           ELSE late'[s] = 0
<1> DEFINE H == Holders(s)
           K == Holders(s)'
<1>1. IsFiniteSet(Runs) /\ Cardinality(Runs) \in Nat
  BY SubscriptionsAssumption, FS_CardinalityType
<1>2. H \subseteq Runs /\ K \subseteq Runs
  BY DEF Holders
<1>3. /\ IsFiniteSet(H) /\ Cardinality(H) \in Nat
      /\ IsFiniteSet(K) /\ Cardinality(K) \in Nat /\ Cardinality(K) <= Cardinality(Runs)
  BY <1>1, <1>2, FS_Subset, FS_CardinalityType
<1>4. late'[s] = IF status'[s] = "CANCELLED" THEN late[s] + (charges'[s] - charges[s]) ELSE 0
  BY DEF RecordLate
<1>5. /\ late[s] \in Nat /\ charges[s] \in Nat
      /\ IF status[s] = "CANCELLED"
         THEN late[s] + Cardinality(H) <= Cardinality(Runs)
         ELSE late[s] = 0
  BY DEF TypeOK, LateBound
<1>6. CASE charges'[s] = charges[s] /\ (status[s] = "CANCELLED" => K \subseteq H)
  <2>1. status[s] = "CANCELLED" => Cardinality(K) <= Cardinality(H)
    BY <1>3, <1>6, FS_Subset
  <2> HIDE DEF H, K
  <2>2. status'[s] = "CANCELLED" => late'[s] + Cardinality(K) <= Cardinality(Runs)
    BY <1>1, <1>3, <1>4, <1>5, <1>6, <2>1
  <2>3. status'[s] # "CANCELLED" => late'[s] = 0
    BY <1>4
  <2> QED
    BY <2>2, <2>3 DEF K
<1>7. ASSUME charges'[s] = charges[s] + 1,
             status'[s] = "CANCELLED" => status[s] = "CANCELLED",
             NEW w \in H, K \subseteq H \ {w}
      PROVE  IF status'[s] = "CANCELLED"
             THEN late'[s] + Cardinality(K) <= Cardinality(Runs)
             ELSE late'[s] = 0
  <2>1. IsFiniteSet(H \ {w}) /\ Cardinality(H \ {w}) = Cardinality(H) - 1
    BY <1>3, FS_RemoveElement
  <2>2. Cardinality(K) <= Cardinality(H) - 1
    BY <1>7, <2>1, FS_Subset
  <2> HIDE DEF H, K
  <2> QED
    BY <1>1, <1>3, <1>4, <1>5, <1>7, <2>2
<1> QED
  BY <1>6, <1>7

\* A step that is quiet keeps the bound.
LEMMA QuietBound ==
    ASSUME TypeOK, OneAtATime, LateBound, RecordLate, Quiet
    PROVE  OneAtATime' /\ LateBound'
<1>1. OneAtATime'
  BY IdleShape DEF Quiet, OneAtATime
<1>2. \A s \in Subs : Holders(s)' \subseteq Holders(s)
  BY IdleShape DEF Quiet, Holders, Holds
<1>3. UNCHANGED charges
  BY DEF Quiet
<1> QED
  BY <1>1, <1>2, <1>3, BoundKept DEF LateBound

\* So does a step of a run that cancels nothing.
LEMMA RunBound ==
    ASSUME TypeOK, OneAtATime, LateBound, RecordLate, NEW w \in Runs, RunMoves(w),
           \A s \in Subs : status'[s] = "CANCELLED" => status[s] = "CANCELLED"
    PROVE  OneAtATime' /\ LateBound'
<1>1. PICK j \in {Idle} \cup Job :
         /\ run' = [run EXCEPT ![w] = j]
         /\ j.pc = "ordered" => j.cur \in Subs \ j.due
         /\ \A s \in Subs : Holds(j, s) => Holds(run[w], s) \/ Due(s)
  BY DEF RunMoves
<1>2. run'[w] = j /\ \A v \in Runs \ {w} : run'[v] = run[v]
  BY <1>1 DEF TypeOK
<1>3. OneAtATime'
  BY <1>1, <1>2 DEF OneAtATime
<1>4. ASSUME NEW s \in Subs, status[s] = "CANCELLED" PROVE Holders(s)' \subseteq Holders(s)
  <2>1. ~Due(s)
    BY <1>4 DEF Due
  <2> QED
    BY <1>1, <1>2, <2>1 DEF Holders
<1>5. \/ UNCHANGED charges
      \/ /\ run[w].pc = "ordered" /\ j.pc # "ordered" /\ j.due = run[w].due
         /\ charges' = [charges EXCEPT ![run[w].cur] = @ + 1]
  BY <1>2 DEF RunMoves
<1>7. CASE UNCHANGED charges
  BY <1>3, <1>4, <1>7, BoundKept DEF LateBound
<1>8. CASE /\ run[w].pc = "ordered" /\ j.pc # "ordered" /\ j.due = run[w].due
           /\ charges' = [charges EXCEPT ![run[w].cur] = @ + 1]
  <2>1. PICK c \in Subs \ run[w].due : c = run[w].cur
    BY <1>8 DEF OneAtATime
  <2>2. ~Holds(j, c) /\ Holds(run[w], c)
    BY <1>8, <2>1 DEF Holds
  <2>3. Holders(c)' \subseteq Holders(c) \ {w} /\ w \in Holders(c)
    BY <1>2, <2>2 DEF Holders
  <2>4. charges'[c] = charges[c] + 1 /\ \A s \in Subs \ {c} : charges'[s] = charges[s]
    BY <1>8, <2>1 DEF TypeOK
  <2>5. ASSUME NEW s \in Subs
        PROVE  IF status'[s] = "CANCELLED"
               THEN late'[s] + Cardinality(Holders(s)') <= Cardinality(Runs)
               ELSE late'[s] = 0
    <3>1. CASE s = c
      BY <2>3, <2>4, <3>1, BoundKept
    <3>2. CASE s # c
      BY <1>4, <2>4, <3>2, BoundKept
    <3> QED
      BY <3>1, <3>2
  <2> QED
    BY <1>3, <2>5 DEF LateBound
<1> QED
  BY <1>5, <1>7, <1>8

LEMMA BoundStep ==
    ASSUME TypeOK, OneAtATime, LateBound, Step, RecordLate
    PROVE  OneAtATime' /\ LateBound'
<1>1. Quiet \/ \E w \in Runs : RunStep(w)
  BY StepCases, LateType
<1>2. ASSUME NEW w \in Runs, RunStep(w)
      PROVE  \A s \in Subs : status'[s] = "CANCELLED" => status[s] = "CANCELLED"
  BY <1>2 DEF RunStep, StartRun, CreateOrder, CreateOrderFails, Charge, ChargeThrows, Advance,
              AdvanceFails, MarkFailed, EndRun, TypeOK
<1> QED
  BY <1>1, <1>2, QuietBound, RunBound, RunStepMoves

-----------------------------------------------------------------------------
(***************************************************************************)
(* The theorems.                                                           *)
(***************************************************************************)
SubInv == TypeOK /\ OneAtATime /\ LateBound

LEMMA InitSub == Init => SubInv
<1> SUFFICES ASSUME Init PROVE SubInv
  OBVIOUS
<1>1. OneAtATime
  BY IdleShape DEF Init, OneAtATime
<1>2. LateBound
  BY DEF Init, LateBound
<1> QED
  BY <1>1, <1>2, InitTypes DEF SubInv

LEMMA StepSub == SubInv /\ [Next]_vars => SubInv'
<1> SUFFICES ASSUME SubInv, [Next]_vars PROVE SubInv'
  OBVIOUS
<1> USE DEF SubInv
<1>1. CASE Next
  BY <1>1, LateType, StepCases, BoundStep DEF Next
<1>2. CASE UNCHANGED vars
  <2>1. TypeOK'
    BY <1>2 DEF vars, TypeOK
  <2>2. OneAtATime'
    BY <1>2 DEF vars, OneAtATime
  <2>3. LateBound'
    BY <1>2 DEF vars, LateBound, Holders
  <2> QED
    BY <2>1, <2>2, <2>3
<1> QED
  BY <1>1, <1>2

\* Types, and the invariant of the charges after a cancellation.
THEOREM SubscriptionsInvariant == Spec => []SubInv
BY InitSub, StepSub, PTL DEF Spec

\* Every variable of the subscriptions keeps its type, across the renewal job, the
\* webhook and what the customer asks for.
THEOREM TypeCorrect == Spec => []TypeOK
<1>1. SubInv => TypeOK
  BY DEF SubInv
<1> QED
  BY <1>1, SubscriptionsInvariant, PTL

LEMMA BoundOfSub == SubInv => ChargesStopAfterCancel
<1>1. ASSUME SubInv, NEW s \in Subs
      PROVE  late[s] <= Cardinality(Runs)
  <2>1. IsFiniteSet(Runs) /\ Cardinality(Runs) \in Nat
    BY SubscriptionsAssumption, FS_CardinalityType
  <2>2. Holders(s) \subseteq Runs
    BY DEF Holders
  <2>3. Cardinality(Holders(s)) \in Nat
    BY <2>1, <2>2, FS_Subset, FS_CardinalityType
  <2>4. late[s] \in Nat
    BY <1>1 DEF SubInv, TypeOK
  <2> QED
    BY <1>1, <2>1, <2>3, <2>4 DEF SubInv, LateBound
<1> QED
  BY <1>1 DEF ChargesStopAfterCancel

\* While a subscription stays cancelled, it is charged at most once for each run
\* of the renewal job that may overlap, for any number of subscriptions, runs,
\* requests and crashes, and any batch size.
THEOREM LateChargesBounded == Spec => []ChargesStopAfterCancel
BY BoundOfSub, SubscriptionsInvariant, PTL

\* A row becomes ACTIVE only where the partial unique index lets it.
LEMMA StepOneActive ==
    ASSUME TypeOK, OneActivePerPair, [Next]_vars
    PROVE  OneActivePerPair'
<1>1. \/ UNCHANGED status
      \/ \E s \in Subs, v \in SubStatus :
            /\ status' = [status EXCEPT ![s] = v]
            /\ v = "ACTIVE" => IndexAllows(s) \/ status[s] = "ACTIVE"
  <2>1. CASE \E s \in Subs : \/ \E f \in Frequencies : Create(s, f)
                             \/ CreateSetupIntent(s) \/ ConfirmSetup(s)
                             \/ OnSetupIntentSucceeded(s)
    BY <2>1 DEF Create, CreateSetupIntent, ConfirmSetup, OnSetupIntentSucceeded, SubStatus
  <2>2. ASSUME NEW h \in Handlers, Apply(h)
        PROVE  \/ UNCHANGED status
               \/ \E s \in Subs, v \in SubStatus :
                     /\ status' = [status EXCEPT ![s] = v]
                     /\ v = "ACTIVE" => IndexAllows(s) \/ status[s] = "ACTIVE"
    <3>1. req[h] \in Ask
      BY <2>2, IdleShape DEF Apply, TypeOK
    <3>2. req[h].op \in Requested /\ req[h].sub \in Subs
      BY <3>1 DEF Ask
    <3>3. CASE req[h].op = "update"
      <4>1. \/ UNCHANGED status
            \/ status' = [status EXCEPT ![req[h].sub] = status[req[h].sub]]
        BY <2>2, <3>3 DEF Apply, Written
      <4> QED
        BY <4>1 DEF TypeOK
    <3>4. CASE req[h].op = "resume"
      BY <2>2, <3>2, <3>4 DEF Apply, Written, SubStatus
    <3>5. CASE req[h].op \in {"pause", "skipNext", "cancel"}
      BY <2>2, <3>2, <3>5 DEF Apply, Written, SubStatus
    <3> QED
      BY <3>2, <3>3, <3>4, <3>5 DEF Requested
  <2>3. ASSUME NEW w \in Runs, RunStep(w)
        PROVE  UNCHANGED status \/ \E s \in Subs : status' = [status EXCEPT ![s] = "PAYMENT_FAILED"]
    <3>1. UNCHANGED status \/ status' = [status EXCEPT ![run[w].cur] = "PAYMENT_FAILED"]
      BY <2>3 DEF RunStep, StartRun, CreateOrder, CreateOrderFails, Charge, ChargeThrows, Advance,
                  AdvanceFails, MarkFailed, EndRun
    <3> QED
      BY <3>1 DEF TypeOK
  <2>4. CASE \/ \E h \in Handlers, s \in Subs, op \in Requested, f \in Frequencies :
                    Request(h, s, op, f)
             \/ Crash \/ NextDay \/ UNCHANGED vars
    BY <2>4 DEF Request, Crash, NextDay, vars
  <2> QED
    BY <2>1, <2>2, <2>3, <2>4 DEF Next, Step, SubStatus
<1> QED
  BY <1>1 DEF OneActivePerPair, IndexAllows, TypeOK

\* One ACTIVE subscription per customer and variant, whatever requests, webhooks
\* and runs of the job interleave.
THEOREM OneActive == Spec => []OneActivePerPair
<1>1. Init => OneActivePerPair
  BY DEF Init, OneActivePerPair
<1>2. TypeOK /\ OneActivePerPair /\ [Next]_vars => OneActivePerPair'
  BY StepOneActive
<1> QED
  BY <1>1, <1>2, TypeCorrect, PTL DEF Spec

-----------------------------------------------------------------------------
(***************************************************************************)
(* The schedule, with one request and one run of the job at a time.  Read  *)
(* as a bound on the charges alone it is not inductive.  The date of the   *)
(* next shipment stands for a charge that is already earned, so it is never *)
(* before the day that charge is earned on; a run only holds subscriptions  *)
(* that have earned a charge; and a request that will move a date of which  *)
(* a charge is still to be made will move it by that charge's period too.   *)
(***************************************************************************)

\* One request in flight and one run of the job.
OneOfEach ==
    /\ \A h, g \in Handlers : h = g
    /\ \A v, w \in Runs : v = w

Least(f) == f \in Frequencies /\ \A g \in Frequencies : f <= g

\* The day n periods of f after b.
Day(f, b, n) == b + f * n

\* The day on which n charges more than were made are earned; each fault is a
\* charge that is allowed without being earned.
Earned(f, s, n) == Day(f, born[s], charges[s] - faults + n)

\* The run has charged the subscription and not yet moved its date.
Pays(r, s) == r.pc = "charged" /\ r.cur = s

Held(s) == \E w \in Runs : Holds(run[w], s)
Paid(s) == \E w \in Runs : Pays(run[w], s)

RowKept(f, s) ==
    /\ born[s] <= now
    /\ IF Exists(s)
       THEN /\ freq[s] \in Frequencies
            /\ Earned(f, s, 0) <= now
            /\ Earned(f, s, 0) <= nextShip[s]
            /\ ~Paid(s) => Earned(f, s, 1) <= nextShip[s]
       ELSE charges[s] = 0 /\ ~Held(s) /\ ~Paid(s)

RunKept(f, s) ==
    /\ Held(s) => ~Paid(s) /\ Earned(f, s, 1) <= now
    /\ \A w \in Runs :
          /\ Holds(run[w], s) \/ Pays(run[w], s) => run[w].freqs[s] \in Frequencies
          /\ run[w].pc = "failed" /\ run[w].cur = s => Exists(s)

AsksKept(f, s) ==
    \A h \in Handlers :
        req[h].pc # "idle" /\ req[h].sub = s =>
            /\ Exists(s)
            /\ req[h].moves =>
                  /\ Earned(f, s, 1) <= req[h].next
                  /\ Held(s) \/ (nextShip[s] <= now /\ ~Paid(s)) => Earned(f, s, 2) <= req[h].next

Kept(f, s) == RowKept(f, s) /\ RunKept(f, s) /\ AsksKept(f, s)

\* Only a row has a SetupIntent.
SetupsHaveRows == \A s \in Subs : setup[s] # "none" => Exists(s)

ScheduleInv ==
    /\ SetupsHaveRows
    /\ \A f \in Frequencies : Least(f) => \A s \in Subs : Kept(f, s)

\* A day more for each period more.
LEMMA DayFacts ==
    ASSUME NEW f \in Nat, NEW b \in Nat, NEW n \in Int
    PROVE  Day(f, b, n) \in Int /\ Day(f, b, n + 1) = Day(f, b, n) + f
<1>1. f * n \in Int /\ f * (n + 1) = f * n + f
  OBVIOUS
<1> QED
  BY <1>1 DEF Day

LEMMA SchedTypes ==
    ASSUME TypeOK, NEW f \in Frequencies, NEW s \in Subs
    PROVE  /\ f \in Nat /\ f >= 1
           /\ now \in Nat /\ born[s] \in Nat /\ nextShip[s] \in Nat
           /\ charges[s] \in Nat /\ faults \in Nat
<1>1. f \in Nat /\ f # 0 /\ DayBound \in Nat /\ FaultBound \in Nat
  BY SubscriptionsAssumption
<1>2. /\ now \in 0..DayBound /\ born[s] \in 0..DayBound /\ nextShip[s] \in Nat
      /\ charges[s] \in Nat /\ faults \in 0..FaultBound
  BY DEF TypeOK
<1> QED
  BY <1>1, <1>2

LEMMA EarnedFacts ==
    ASSUME TypeOK, NEW f \in Frequencies, NEW s \in Subs
    PROVE  /\ Earned(f, s, 0) \in Int
           /\ Earned(f, s, 1) = Earned(f, s, 0) + f
           /\ Earned(f, s, 2) = Earned(f, s, 1) + f
<1> DEFINE n == charges[s] - faults
<1>1. n \in Int /\ n + 0 = n /\ n + 1 \in Int /\ (n + 1) + 1 = n + 2
  BY SchedTypes
<1>2. f \in Nat /\ born[s] \in Nat
  BY SchedTypes
<1>3. Earned(f, s, 0) = Day(f, born[s], n)
  BY <1>1 DEF Earned
<1>4. Earned(f, s, 1) = Day(f, born[s], n + 1)
  BY DEF Earned
<1>5. Earned(f, s, 2) = Day(f, born[s], (n + 1) + 1)
  BY <1>1 DEF Earned
<1> HIDE DEF n
<1>6. Day(f, born[s], n) \in Int /\ Day(f, born[s], n + 1) = Day(f, born[s], n) + f
  BY <1>1, <1>2, DayFacts
<1>7. Day(f, born[s], (n + 1) + 1) = Day(f, born[s], n + 1) + f
  BY <1>1, <1>2, DayFacts
<1> QED
  BY <1>3, <1>4, <1>5, <1>6, <1>7

\* What a charge and a fault do to the days.
LEMMA EarnedMoves ==
    ASSUME TypeOK, TypeOK', NEW f \in Frequencies, NEW s \in Subs, born'[s] = born[s]
    PROVE  /\ Earned(f, s, 0)' \in Int
           /\ Earned(f, s, 1)' = Earned(f, s, 0)' + f
           /\ Earned(f, s, 2)' = Earned(f, s, 1)' + f
           /\ charges'[s] = charges[s] /\ faults' = faults =>
                 /\ Earned(f, s, 0)' = Earned(f, s, 0)
                 /\ Earned(f, s, 1)' = Earned(f, s, 1)
                 /\ Earned(f, s, 2)' = Earned(f, s, 2)
           /\ charges'[s] = charges[s] /\ faults' = faults + 1 =>
                 /\ Earned(f, s, 0)' <= Earned(f, s, 0)
                 /\ Earned(f, s, 1)' = Earned(f, s, 0)
                 /\ Earned(f, s, 2)' = Earned(f, s, 1)
           /\ charges'[s] = charges[s] + 1 /\ faults' = faults + 1 =>
                 /\ Earned(f, s, 0)' = Earned(f, s, 0)
                 /\ Earned(f, s, 1)' = Earned(f, s, 1)
                 /\ Earned(f, s, 2)' = Earned(f, s, 2)
           /\ charges'[s] = charges[s] + 1 /\ faults' = faults =>
                 /\ Earned(f, s, 0)' = Earned(f, s, 1)
                 /\ Earned(f, s, 1)' = Earned(f, s, 2)
<1>1. charges[s] \in Nat /\ faults \in Nat /\ charges'[s] \in Nat /\ faults' \in Nat
  <2>1. charges' \in [Subs -> Nat] /\ faults' \in 0..FaultBound /\ FaultBound \in Nat
    BY SubscriptionsAssumption DEF TypeOK
  <2> QED
    BY <2>1, SchedTypes
<1>2. ASSUME charges'[s] = charges[s] /\ faults' = faults
      PROVE  \A i \in {0, 1, 2} : Earned(f, s, i)' = Earned(f, s, i)
  BY <1>2 DEF Earned
<1>3. ASSUME charges'[s] = charges[s] /\ faults' = faults + 1
      PROVE  Earned(f, s, 1)' = Earned(f, s, 0) /\ Earned(f, s, 2)' = Earned(f, s, 1)
  <2>1. /\ charges'[s] - faults' + 1 = charges[s] - faults + 0
        /\ charges'[s] - faults' + 2 = charges[s] - faults + 1
    BY <1>1, <1>3
  <2> QED
    BY <2>1 DEF Earned
<1>4. ASSUME charges'[s] = charges[s] + 1 /\ faults' = faults + 1
      PROVE  \A i \in {0, 1, 2} : Earned(f, s, i)' = Earned(f, s, i)
  <2>1. charges'[s] - faults' = charges[s] - faults
    BY <1>1, <1>4
  <2> QED
    BY <2>1 DEF Earned
<1>5. ASSUME charges'[s] = charges[s] + 1 /\ faults' = faults
      PROVE  Earned(f, s, 0)' = Earned(f, s, 1) /\ Earned(f, s, 1)' = Earned(f, s, 2)
  <2>1. /\ charges'[s] - faults' + 0 = charges[s] - faults + 1
        /\ charges'[s] - faults' + 1 = charges[s] - faults + 2
    BY <1>1, <1>5
  <2> QED
    BY <2>1 DEF Earned
<1>6. /\ Earned(f, s, 0)' \in Int
      /\ Earned(f, s, 1)' = Earned(f, s, 0)' + f
      /\ Earned(f, s, 2)' = Earned(f, s, 1)' + f
  <2>1. f \in Nat
    BY SchedTypes
  <2> DEFINE m == charges'[s] - faults'
  <2>2. m \in Int /\ m + 0 = m /\ m + 1 \in Int /\ (m + 1) + 1 = m + 2 /\ born'[s] \in Nat
    BY <1>1, SchedTypes
  <2>3. /\ Earned(f, s, 0)' = Day(f, born'[s], m)
        /\ Earned(f, s, 1)' = Day(f, born'[s], m + 1)
        /\ Earned(f, s, 2)' = Day(f, born'[s], (m + 1) + 1)
    BY <2>2 DEF Earned
  <2> HIDE DEF m
  <2>4. Day(f, born'[s], m) \in Int /\ Day(f, born'[s], m + 1) = Day(f, born'[s], m) + f
    BY <2>1, <2>2, DayFacts
  <2>5. Day(f, born'[s], (m + 1) + 1) = Day(f, born'[s], m + 1) + f
    BY <2>1, <2>2, DayFacts
  <2> QED
    BY <2>3, <2>4, <2>5
<1>7. /\ f \in Nat
      /\ Earned(f, s, 0) \in Int
      /\ Earned(f, s, 1) = Earned(f, s, 0) + f
      /\ Earned(f, s, 2) = Earned(f, s, 1) + f
  BY SchedTypes, EarnedFacts
<1>8. charges'[s] = charges[s] /\ faults' = faults + 1 => Earned(f, s, 0)' <= Earned(f, s, 0)
  BY <1>3, <1>6, <1>7
<1> QED
  BY <1>2, <1>3, <1>4, <1>5, <1>6, <1>8

\* What the job holds of a subscription, and whether it paid for it.
LEMMA HeldMoves ==
    ASSUME TypeOK, NEW w \in Runs, NEW j, run' = [run EXCEPT ![w] = j],
           \A v \in Runs : v = w, NEW s \in Subs
    PROVE  /\ Held(s) <=> Holds(run[w], s)
           /\ Paid(s) <=> Pays(run[w], s)
           /\ Held(s)' <=> Holds(j, s)
           /\ Paid(s)' <=> Pays(j, s)
           /\ \A v \in Runs : run[v] = run[w] /\ run'[v] = j
<1>1. run'[w] = j /\ \A v \in Runs : run[v] = run[w] /\ run'[v] = j
  BY DEF TypeOK
<1> QED
  BY <1>1 DEF Held, Paid

\* A step that charges the subscription nothing, moves nothing of its row but its
\* status, and lets no run take hold of it; a run that forgets what it was paid
\* for does so by a fault.
LEMMA Untouched ==
    ASSUME TypeOK, TypeOK', NEW f \in Frequencies, NEW s \in Subs, Kept(f, s),
           now' = now, born'[s] = born[s], freq'[s] = freq[s], nextShip'[s] = nextShip[s],
           Exists(s)' <=> Exists(s),
           charges'[s] = charges[s],
           faults' \in {faults, faults + 1},
           \A h \in Handlers : req'[h].pc # "idle" => req'[h] = req[h],
           Held(s)' => Held(s),
           Paid(s)' => Paid(s),
           Paid(s) => Paid(s)' \/ faults' = faults + 1,
           \A w \in Runs :
              /\ Holds(run'[w], s) \/ Pays(run'[w], s) => run'[w].freqs[s] \in Frequencies
              /\ run'[w].pc = "failed" /\ run'[w].cur = s => Exists(s)
    PROVE  Kept(f, s)'
<1>0. /\ f \in Nat
      /\ Earned(f, s, 0) \in Int
      /\ Earned(f, s, 1) = Earned(f, s, 0) + f
      /\ Earned(f, s, 2) = Earned(f, s, 1) + f
      /\ Earned(f, s, 0)' \in Int
      /\ Earned(f, s, 1)' = Earned(f, s, 0)' + f
      /\ Earned(f, s, 2)' = Earned(f, s, 1)' + f
  BY SchedTypes, EarnedFacts, EarnedMoves
<1>1. /\ Earned(f, s, 0)' <= Earned(f, s, 0)
      /\ Earned(f, s, 1)' <= Earned(f, s, 1)
      /\ Earned(f, s, 2)' <= Earned(f, s, 2)
      /\ faults' = faults + 1 => /\ Earned(f, s, 1)' <= Earned(f, s, 0)
                                 /\ Earned(f, s, 2)' <= Earned(f, s, 1)
  <2>1. CASE faults' = faults
    BY <1>0, <2>1, EarnedMoves
  <2>2. CASE faults' = faults + 1
    BY <1>0, <2>2, EarnedMoves
  <2> QED
    BY <2>1, <2>2, SchedTypes
<1>2. now \in Nat /\ nextShip[s] \in Nat
  BY SchedTypes
<1>3. RowKept(f, s)'
  BY <1>0, <1>1, <1>2 DEF Kept, RowKept
<1>4. RunKept(f, s)'
  BY <1>0, <1>1, <1>2 DEF Kept, RunKept
<1>5. ASSUME NEW h \in Handlers, req'[h].pc # "idle", req'[h].sub = s
      PROVE  /\ Exists(s)'
             /\ req'[h].moves =>
                   /\ Earned(f, s, 1)' <= req'[h].next
                   /\ Held(s)' \/ (nextShip'[s] <= now' /\ ~Paid(s)') =>
                         Earned(f, s, 2)' <= req'[h].next
  <2>1. req'[h] = req[h]
    BY <1>5
  <2>2. req[h] \in Ask
    BY <1>5, <2>1, IdleShape DEF TypeOK
  <2>3. req[h].next \in Int /\ req[h].sub = s /\ req[h].pc # "idle"
    BY <1>5, <2>1, <2>2 DEF Ask
  <2>4. /\ Exists(s)
        /\ req[h].moves =>
              /\ Earned(f, s, 1) <= req[h].next
              /\ Held(s) \/ (nextShip[s] <= now /\ ~Paid(s)) => Earned(f, s, 2) <= req[h].next
    BY <2>3 DEF Kept, AsksKept
  <2> QED
    BY <1>0, <1>1, <2>1, <2>3, <2>4
<1>6. AsksKept(f, s)'
  BY <1>5 DEF AsksKept
<1> QED
  BY <1>3, <1>4, <1>6 DEF Kept

\* A step of the run that leaves rows and charges alone, or those of others.
LEMMA RunLeaves ==
    ASSUME TypeOK, TypeOK', NEW w \in Runs, \A v \in Runs : v = w,
           NEW f \in Frequencies, NEW s \in Subs, Kept(f, s),
           NEW j, run' = [run EXCEPT ![w] = j],
           UNCHANGED <<now, born, freq, req>>,
           nextShip'[s] = nextShip[s],
           Exists(s)' <=> Exists(s),
           charges'[s] = charges[s],
           faults' \in {faults, faults + 1},
           Holds(j, s) => Holds(run[w], s),
           Pays(j, s) => Pays(run[w], s),
           Pays(run[w], s) => Pays(j, s) \/ faults' = faults + 1,
           j.pc # "idle" => j.freqs = run[w].freqs,
           j.pc = "failed" /\ j.cur = s => Exists(s)
    PROVE  Kept(f, s)'
<1>1. /\ Held(s)' => Held(s)
      /\ Paid(s)' => Paid(s)
      /\ Paid(s) => Paid(s)' \/ faults' = faults + 1
      /\ \A v \in Runs : run[v] = run[w] /\ run'[v] = j
  BY HeldMoves
<1>2. \A v \in Runs :
         /\ Holds(run'[v], s) \/ Pays(run'[v], s) => run'[v].freqs[s] \in Frequencies
         /\ run'[v].pc = "failed" /\ run'[v].cur = s => Exists(s)
  <2>1. ASSUME Holds(j, s) \/ Pays(j, s)
        PROVE  j.freqs[s] \in Frequencies
    <3>1. j.pc # "idle"
      BY <2>1 DEF Holds, Pays
    <3>2. Holds(run[w], s) \/ Pays(run[w], s)
      BY <2>1
    <3>3. run[w].freqs[s] \in Frequencies
      BY <3>2 DEF Kept, RunKept
    <3> QED
      BY <3>1, <3>3
  <2> QED
    BY <1>1, <2>1
<1> QED
  BY <1>1, <1>2, Untouched

LEMMA RunStepKept ==
    ASSUME TypeOK, TypeOK', OneAtATime, NEW w \in Runs, \A v \in Runs : v = w,
           NEW f \in Frequencies, Least(f), NEW s \in Subs, Kept(f, s), RunStep(w)
    PROVE  Kept(f, s)'
<1>0. run[w].pc # "idle" => run[w] \in Job
  BY IdleShape DEF TypeOK
<1>n. /\ f \in Nat
      /\ now \in Nat /\ nextShip[s] \in Nat
      /\ Earned(f, s, 0) \in Int
      /\ Earned(f, s, 1) = Earned(f, s, 0) + f
      /\ Earned(f, s, 2) = Earned(f, s, 1) + f
  BY SchedTypes, EarnedFacts
<1>h. (Held(s) <=> Holds(run[w], s)) /\ (Paid(s) <=> Pays(run[w], s))
  <2>1. \A v \in Runs : run[v] = run[w]
    OBVIOUS
  <2> QED
    BY <2>1 DEF Held, Paid
<1>u. UNCHANGED <<now, born, freq, req>>
  BY DEF RunStep, StartRun, CreateOrder, CreateOrderFails, Charge, ChargeThrows, Advance,
         AdvanceFails, MarkFailed, EndRun
<1>1. CASE StartRun(w)
  <2>1. PICK batch \in SUBSET {t \in Subs : Due(t)} :
           run' = [run EXCEPT ![w] = [pc |-> "loop", due |-> batch, cur |-> NoSub,
                                      freqs |-> freq]]
    BY <1>1 DEF StartRun
  <2> DEFINE j == [pc |-> "loop", due |-> batch, cur |-> NoSub, freqs |-> freq]
  <2>2. j.pc = "loop" /\ j.due = batch /\ j.freqs = freq
    OBVIOUS
  <2>3. run' = [run EXCEPT ![w] = j] /\ run[w] = Idle
    BY <1>1, <2>1 DEF StartRun
  <2> HIDE DEF j
  <2>4. ~Held(s) /\ ~Paid(s) /\ ~Pays(j, s)
    BY <1>h, <2>2, <2>3 DEF Holds, Pays, Idle
  <2>5. UNCHANGED <<status, nextShip, charges, faults>>
    BY <1>1 DEF StartRun
  <2>6. CASE s \notin batch
    <3>1. ~Holds(j, s)
      BY <2>2, <2>6 DEF Holds
    <3>2. /\ (Held(s)' <=> Holds(j, s)) /\ (Paid(s)' <=> Pays(j, s))
          /\ \A v \in Runs : run'[v] = j
      BY <2>3, HeldMoves
    <3>3. /\ Held(s)' => Held(s)
          /\ Paid(s)' => Paid(s)
          /\ \A v \in Runs :
                ~Holds(run'[v], s) /\ ~Pays(run'[v], s) /\ run'[v].pc # "failed"
      BY <2>2, <2>4, <3>1, <3>2
    <3> QED
      BY <1>u, <2>4, <2>5, <3>3, Untouched DEF Exists
  <2>7. CASE s \in batch
    <3>1. Exists(s) /\ nextShip[s] <= now
      BY <2>7 DEF Due, Exists
    <3>2. Earned(f, s, 1) <= nextShip[s] /\ freq[s] \in Frequencies
      BY <2>4, <3>1 DEF Kept, RowKept
    <3>3. Earned(f, s, 1) <= now
      BY <1>n, <3>1, <3>2
    <3>4. ~Paid(s)' /\ \A v \in Runs : run'[v] = j
      BY <2>3, <2>4, HeldMoves
    <3>5. /\ Earned(f, s, 0)' = Earned(f, s, 0)
          /\ Earned(f, s, 1)' = Earned(f, s, 1)
          /\ Earned(f, s, 2)' = Earned(f, s, 2)
      BY <1>u, <2>5, EarnedMoves
    <3>6. RowKept(f, s)'
      BY <1>u, <2>4, <2>5, <3>1, <3>2, <3>5 DEF Kept, RowKept, Exists
    <3>7. RunKept(f, s)'
      BY <1>u, <2>2, <3>2, <3>3, <3>4, <3>5 DEF RunKept
    <3>8. AsksKept(f, s)'
      BY <1>u, <2>4, <2>5, <3>1, <3>5 DEF Kept, AsksKept, Exists
    <3> QED
      BY <3>6, <3>7, <3>8 DEF Kept
  <2> QED
    BY <2>6, <2>7
<1>2. CASE CreateOrder(w) \/ CreateOrderFails(w)
  <2>1. PICK t \in run[w].due, p \in {"ordered", "failed"} :
           run' = [run EXCEPT ![w].pc = p, ![w].cur = t, ![w].due = run[w].due \ {t}]
    BY <1>2 DEF CreateOrder, CreateOrderFails
  <2> DEFINE j == [run[w] EXCEPT !.pc = p, !.cur = t, !.due = run[w].due \ {t}]
  <2>2. run[w] \in Job /\ run[w].pc = "loop"
    BY <1>0, <1>2 DEF CreateOrder, CreateOrderFails
  <2>3. j.pc = p /\ j.cur = t /\ j.due = run[w].due \ {t} /\ j.freqs = run[w].freqs
    BY <2>2 DEF Job
  <2>4. run' = [run EXCEPT ![w] = j]
    BY <2>1
  <2>5. UNCHANGED <<status, nextShip, charges>> /\ faults' \in {faults, faults + 1}
    BY <1>2 DEF CreateOrder, CreateOrderFails
  <2> HIDE DEF j
  <2>6. (Holds(j, s) => Holds(run[w], s)) /\ ~Pays(j, s) /\ ~Pays(run[w], s)
    BY <2>2, <2>3 DEF Holds, Pays
  <2>7. s = t => Exists(s)
    <3>1. s = t => Holds(run[w], s)
      BY <2>2 DEF Holds
    <3> QED
      BY <1>h, <3>1 DEF Kept, RowKept
  <2> QED
    BY <1>u, <2>3, <2>4, <2>5, <2>6, <2>7, RunLeaves DEF Exists
<1>3. CASE MarkFailed(w)
  <2>1. run[w] \in Job /\ run[w].pc = "failed"
    BY <1>0, <1>3 DEF MarkFailed
  <2> DEFINE j == [run[w] EXCEPT !.pc = "loop", !.cur = NoSub]
  <2>2. j.pc = "loop" /\ j.due = run[w].due /\ j.freqs = run[w].freqs
    BY <2>1 DEF Job
  <2>3. run' = [run EXCEPT ![w] = j]
    BY <1>3 DEF MarkFailed
  <2>4. UNCHANGED <<nextShip, charges>> /\ faults' \in {faults, faults + 1}
    BY <1>3 DEF MarkFailed
  <2>5. run[w].cur = s => Exists(s)
    BY <2>1 DEF Kept, RunKept
  <2>6. status' = status \/ status' = [status EXCEPT ![run[w].cur] = "PAYMENT_FAILED"]
    BY <1>3 DEF MarkFailed
  <2>7. Exists(s)' <=> Exists(s)
    BY <2>5, <2>6 DEF Exists, TypeOK
  <2> HIDE DEF j
  <2>8. (Holds(j, s) => Holds(run[w], s)) /\ ~Pays(j, s) /\ ~Pays(run[w], s)
    BY <2>1, <2>2 DEF Holds, Pays
  <2> QED
    BY <1>u, <2>2, <2>3, <2>4, <2>7, <2>8, RunLeaves
<1>4. CASE EndRun(w)
  <2>1. run' = [run EXCEPT ![w] = Idle] /\ run[w].pc = "loop"
    BY <1>4 DEF EndRun
  <2>2. UNCHANGED <<status, nextShip, charges, faults>>
    BY <1>4 DEF EndRun
  <2>3. ~Holds(Idle, s) /\ ~Pays(Idle, s) /\ ~Pays(run[w], s)
    BY <2>1, IdleShape DEF Holds, Pays
  <2> QED
    BY <1>u, <2>1, <2>2, <2>3, RunLeaves, IdleShape DEF Exists
<1>5. CASE AdvanceFails(w)
  <2>1. run[w] \in Job /\ run[w].pc = "charged"
    BY <1>0, <1>5 DEF AdvanceFails
  <2> DEFINE j == [run[w] EXCEPT !.pc = "failed"]
  <2>2. j.pc = "failed" /\ j.due = run[w].due /\ j.cur = run[w].cur /\ j.freqs = run[w].freqs
    BY <2>1 DEF Job
  <2>3. run' = [run EXCEPT ![w] = j]
    BY <1>5 DEF AdvanceFails
  <2>4. UNCHANGED <<status, nextShip, charges>> /\ faults' = faults + 1
    BY <1>5 DEF AdvanceFails
  <2> HIDE DEF j
  <2>5. (Holds(j, s) => Holds(run[w], s)) /\ ~Pays(j, s)
    BY <2>1, <2>2 DEF Holds, Pays
  <2>6. j.cur = s => Exists(s)
    BY <1>h, <2>1, <2>2 DEF Pays, Kept, RowKept
  <2> QED
    BY <1>u, <2>2, <2>3, <2>4, <2>5, <2>6, RunLeaves DEF Exists
<1>6. CASE Charge(w) \/ ChargeThrows(w)
  <2>1. PICK p \in {"charged", "failed"} :
           /\ run' = [run EXCEPT ![w].pc = p]
           /\ p = "charged" => faults' = faults /\ charges' = [charges EXCEPT ![run[w].cur] = @ + 1]
           /\ p = "failed" => \/ UNCHANGED <<charges, faults>>
                              \/ /\ faults' = faults + 1
                                 /\ charges' = [charges EXCEPT ![run[w].cur] = @ + 1]
    BY <1>6 DEF Charge, ChargeThrows
  <2> DEFINE j == [run[w] EXCEPT !.pc = p]
  <2>2. run[w] \in Job /\ run[w].pc = "ordered" /\ run[w].cur \in Subs \ run[w].due
    BY <1>0, <1>6 DEF Charge, ChargeThrows, OneAtATime
  <2>3. j.pc = p /\ j.due = run[w].due /\ j.cur = run[w].cur /\ j.freqs = run[w].freqs
    BY <2>2 DEF Job
  <2>4. run' = [run EXCEPT ![w] = j]
    BY <2>1
  <2>5. UNCHANGED <<status, nextShip>>
    BY <1>6 DEF Charge, ChargeThrows
  <2> HIDE DEF j
  <2>6. (Holds(j, s) => Holds(run[w], s)) /\ ~Pays(run[w], s)
    BY <2>2, <2>3 DEF Holds, Pays
  <2>7. CASE s # run[w].cur
    <3>1. charges'[s] = charges[s] /\ faults' \in {faults, faults + 1}
      BY <2>1, <2>7 DEF TypeOK
    <3>2. ~Pays(j, s) /\ j.cur # s
      BY <2>3, <2>7 DEF Pays
    <3> QED
      BY <1>u, <2>3, <2>4, <2>5, <2>6, <3>1, <3>2, RunLeaves DEF Exists
  <2>8. CASE s = run[w].cur
    <3>1. Holds(run[w], s) /\ ~Holds(j, s)
      BY <2>2, <2>3, <2>8 DEF Holds
    <3>2. Exists(s) /\ Earned(f, s, 1) <= now /\ run[w].freqs[s] \in Frequencies
      BY <1>h, <3>1 DEF Kept, RowKept, RunKept
    <3>3. charges' = [charges EXCEPT ![run[w].cur] = @ + 1] => charges'[s] = charges[s] + 1
      BY <2>8 DEF TypeOK
    <3>4. /\ Held(s) /\ ~Held(s)' /\ ~Paid(s)
          /\ Paid(s)' <=> p = "charged"
          /\ \A v \in Runs : run'[v] = j
      <4>1. /\ (Held(s)' <=> Holds(j, s)) /\ (Paid(s)' <=> Pays(j, s))
            /\ \A v \in Runs : run'[v] = j
        BY <2>4, HeldMoves
      <4>2. Pays(j, s) <=> p = "charged"
        BY <2>3, <2>8 DEF Pays
      <4> QED
        BY <1>h, <2>6, <3>1, <4>1, <4>2
    <3>5. \A v \in Runs :
             /\ run'[v].freqs[s] \in Frequencies
             /\ run'[v].pc = "failed" /\ run'[v].cur = s => Exists(s)
      BY <2>3, <3>2, <3>4
    <3>6. /\ UNCHANGED <<now, born, freq, req, status, nextShip>>
          /\ Exists(s)' <=> Exists(s)
      BY <1>u, <2>5 DEF Exists
    <3>7. CASE p = "charged"
      <4>1. /\ Earned(f, s, 0)' = Earned(f, s, 1)
            /\ Earned(f, s, 1)' = Earned(f, s, 2)
        BY <2>1, <3>3, <3>6, <3>7, EarnedMoves
      <4>2. Paid(s)' /\ Earned(f, s, 1) <= nextShip[s]
        BY <3>2, <3>4, <3>7 DEF Kept, RowKept
      <4>3. RowKept(f, s)'
        BY <3>2, <3>6, <4>1, <4>2 DEF Kept, RowKept
      <4>4. RunKept(f, s)'
        BY <3>4, <3>5, <3>6 DEF RunKept
      <4>5. AsksKept(f, s)'
        BY <3>4, <3>6, <4>1, <4>2 DEF Kept, AsksKept
      <4> QED
        BY <4>3, <4>4, <4>5 DEF Kept
    <3>8. CASE p = "failed"
      <4>1. /\ Earned(f, s, 0)' = Earned(f, s, 0)
            /\ Earned(f, s, 1)' = Earned(f, s, 1)
            /\ Earned(f, s, 2)' = Earned(f, s, 2)
        BY <2>1, <3>3, <3>6, <3>8, EarnedMoves
      <4>2. ~Paid(s)'
        BY <3>4, <3>8
      <4>3. RowKept(f, s)'
        BY <3>2, <3>4, <3>6, <4>1, <4>2 DEF Kept, RowKept
      <4>4. RunKept(f, s)'
        BY <3>4, <3>5, <3>6 DEF RunKept
      <4>5. AsksKept(f, s)'
        BY <3>4, <3>6, <4>1, <4>2 DEF Kept, AsksKept
      <4> QED
        BY <4>3, <4>4, <4>5 DEF Kept
    <3> QED
      BY <3>7, <3>8
  <2> QED
    BY <2>7, <2>8
<1>7. CASE Advance(w)
  <2>1. run[w] \in Job /\ run[w].pc = "charged"
    BY <1>0, <1>7 DEF Advance
  <2> DEFINE j == [run[w] EXCEPT !.pc = "loop", !.cur = NoSub]
  <2>2. j.pc = "loop" /\ j.due = run[w].due /\ j.freqs = run[w].freqs
    BY <2>1 DEF Job
  <2>3. run' = [run EXCEPT ![w] = j]
    BY <1>7 DEF Advance
  <2>4. /\ UNCHANGED <<status, charges, faults>>
        /\ nextShip' = [nextShip EXCEPT ![run[w].cur] = RenewedDate(w)]
    BY <1>7 DEF Advance
  <2> HIDE DEF j
  <2>5. (Holds(j, s) <=> Holds(run[w], s)) /\ ~Pays(j, s)
    BY <2>1, <2>2 DEF Holds, Pays
  <2>6. CASE run[w].cur # s
    <3>1. nextShip'[s] = nextShip[s] /\ ~Pays(run[w], s)
      BY <2>4, <2>6 DEF Pays, TypeOK
    <3> QED
      BY <1>u, <2>2, <2>3, <2>4, <2>5, <3>1, RunLeaves DEF Exists
  <2>7. CASE run[w].cur = s
    <3>1. Pays(run[w], s) /\ Paid(s) /\ ~Held(s) /\ ~Holds(run[w], s)
      BY <1>h, <2>1, <2>7 DEF Pays, Kept, RunKept
    <3>2. ~Held(s)' /\ ~Paid(s)' /\ \A v \in Runs : run'[v] = j
      BY <2>3, <2>5, <3>1, HeldMoves
    <3>3. /\ Exists(s) /\ freq[s] \in Frequencies /\ run[w].freqs[s] \in Frequencies
          /\ Earned(f, s, 0) <= now /\ born[s] <= now
      BY <3>1 DEF Kept, RowKept, RunKept
    <3>4. /\ Earned(f, s, 0)' = Earned(f, s, 0)
          /\ Earned(f, s, 1)' = Earned(f, s, 1)
          /\ Earned(f, s, 2)' = Earned(f, s, 2)
      BY <1>u, <2>4, EarnedMoves
    <3>5. nextShip'[s] = now + run[w].freqs[s]
      BY <2>4, <2>7 DEF RenewedDate, TypeOK
    <3>6. run[w].freqs[s] \in Nat /\ run[w].freqs[s] >= f /\ f >= 1
      BY <3>3, SubscriptionsAssumption DEF Least
    <3>7. Earned(f, s, 1) <= nextShip'[s] /\ Earned(f, s, 0) <= nextShip'[s] /\ now < nextShip'[s]
      BY <1>n, <3>3, <3>5, <3>6
    <3>8. RowKept(f, s)'
      BY <1>u, <2>4, <3>3, <3>4, <3>7 DEF RowKept, Exists
    <3>9. RunKept(f, s)'
      BY <2>2, <2>5, <3>1, <3>2 DEF RunKept
    <3>10. nextShip'[s] \in Nat /\ ~(nextShip'[s] <= now)
      BY <1>n, <3>5, <3>6, <3>7
    <3>11. AsksKept(f, s)'
      BY <1>u, <2>4, <3>2, <3>4, <3>10 DEF Kept, AsksKept, Exists
    <3> QED
      BY <3>8, <3>9, <3>11 DEF Kept
  <2> QED
    BY <2>6, <2>7
<1> QED
  BY <1>1, <1>2, <1>3, <1>4, <1>5, <1>6, <1>7 DEF RunStep

\* A new subscription: its first charge is earned when it first ships.
LEMMA RowStepKept ==
    ASSUME TypeOK, TypeOK', NEW f \in Frequencies, Least(f), NEW s \in Subs, Kept(f, s),
           NEW t \in Subs,
           \/ \E g \in Frequencies : Create(t, g)
           \/ CreateSetupIntent(t) \/ ConfirmSetup(t) \/ OnSetupIntentSucceeded(t),
           setup[t] # "none" => Exists(t)
    PROVE  Kept(f, s)'
<1>u. UNCHANGED <<now, req, run, charges, faults>>
  BY DEF Create, CreateSetupIntent, ConfirmSetup, OnSetupIntentSucceeded
<1>h. (Held(s)' <=> Held(s)) /\ (Paid(s)' <=> Paid(s))
  BY <1>u DEF Held, Paid
<1>1. CASE Exists(s)' <=> Exists(s)
  <2>1. born'[s] = born[s] /\ freq'[s] = freq[s] /\ nextShip'[s] = nextShip[s]
    BY <1>1 DEF Create, CreateSetupIntent, ConfirmSetup, OnSetupIntentSucceeded, Exists, TypeOK
  <2>2. \A w \in Runs :
           /\ Holds(run'[w], s) \/ Pays(run'[w], s) => run'[w].freqs[s] \in Frequencies
           /\ run'[w].pc = "failed" /\ run'[w].cur = s => Exists(s)
    BY <1>u DEF Kept, RunKept
  <2> QED
    BY <1>1, <1>h, <1>u, <2>1, <2>2, Untouched
<1>2. CASE ~(Exists(s)' <=> Exists(s))
  <2>1. PICK g \in Frequencies : Create(t, g)
    BY <1>2 DEF CreateSetupIntent, ConfirmSetup, OnSetupIntentSucceeded, SetupSucceeded, Exists, TypeOK
  <2>2. s = t /\ ~Exists(s) /\ Exists(s)'
    BY <1>2, <2>1 DEF Create, Exists, TypeOK
  <2>3. freq'[s] = g /\ nextShip'[s] = now + g /\ born'[s] = now
    BY <2>1, <2>2 DEF Create, TypeOK
  <2>4. charges[s] = 0 /\ ~Held(s) /\ ~Paid(s)
    BY <2>2 DEF Kept, RowKept
  <2>5. f \in Nat /\ g \in Nat /\ f <= g /\ now \in Nat /\ faults \in Nat
    BY SubscriptionsAssumption, SchedTypes DEF Least
  <2>6. Earned(f, s, 0)' = now - f * faults /\ Earned(f, s, 1)' = Earned(f, s, 0)' + f
    <3>1. Earned(f, s, 0)' = now + f * (0 - faults + 0) /\ Earned(f, s, 1)' = now + f * (0 - faults + 1)
      BY <1>u, <2>3, <2>4 DEF Earned, Day
    <3>2. f * (0 - faults + 0) = 0 - f * faults /\ f * (0 - faults + 1) = 0 - f * faults + f
      BY <2>5
    <3>3. f * faults \in Nat
      BY <2>5
    <3> QED
      BY <2>5, <3>1, <3>2, <3>3
  <2>7. f * faults \in Nat
    BY <2>5
  <2>8. /\ Earned(f, s, 0)' <= now
        /\ Earned(f, s, 0)' <= now + g
        /\ Earned(f, s, 1)' <= now + g
    BY <2>5, <2>6, <2>7
  <2>9. RowKept(f, s)'
    BY <1>u, <2>2, <2>3, <2>5, <2>8 DEF RowKept
  <2>10. RunKept(f, s)'
    BY <1>h, <1>u, <2>2, <2>4 DEF RunKept, Kept, Held, Paid
  <2>11. AsksKept(f, s)'
    BY <1>u, <2>2 DEF AsksKept, Kept
  <2> QED
    BY <2>9, <2>10, <2>11 DEF Kept
<1> QED
  BY <1>1, <1>2

\* What a request will write is after what it read, by a period or from today.
LEMMA RequestKept ==
    ASSUME TypeOK, TypeOK', NEW h \in Handlers, NEW f \in Frequencies, Least(f),
           NEW s \in Subs, Kept(f, s),
           NEW t \in Subs, NEW op \in Requested, NEW g \in Frequencies, Request(h, t, op, g)
    PROVE  Kept(f, s)'
<1> DEFINE r == [pc |-> "asked", op |-> op, sub |-> t, moves |-> MovesDate(op, t),
                 next |-> DateFor(op, t), freq |-> g]
<1>1. /\ r.sub = t /\ (r.moves <=> MovesDate(op, t)) /\ r.next = DateFor(op, t)
      /\ req' = [req EXCEPT ![h] = r]
  BY DEF Request
<1>2. Exists(t) /\ MayAsk(op, status[t])
  BY DEF Request
<1> HIDE DEF r
<1>u. UNCHANGED <<now, status, nextShip, freq, run, charges, faults, born>>
  BY DEF Request
<1>h. (Held(s)' <=> Held(s)) /\ (Paid(s)' <=> Paid(s)) /\ (Exists(s)' <=> Exists(s))
  BY <1>u DEF Held, Paid, Exists
<1>e. /\ Earned(f, s, 0)' = Earned(f, s, 0)
      /\ Earned(f, s, 1)' = Earned(f, s, 1)
      /\ Earned(f, s, 2)' = Earned(f, s, 2)
  BY <1>u, EarnedMoves
<1>3. RowKept(f, s)' /\ RunKept(f, s)'
  BY <1>u, <1>h, <1>e DEF Kept, RowKept, RunKept, Held, Paid, Exists
<1>4. ASSUME s = t, MovesDate(op, t)
      PROVE  /\ Earned(f, s, 1) <= r.next
             /\ Held(s) \/ (nextShip[s] <= now /\ ~Paid(s)) => Earned(f, s, 2) <= r.next
  <2>1. /\ Exists(s) /\ freq[s] \in Frequencies
        /\ Earned(f, s, 0) <= now /\ Earned(f, s, 0) <= nextShip[s]
        /\ ~Paid(s) => Earned(f, s, 1) <= nextShip[s]
        /\ Held(s) => ~Paid(s) /\ Earned(f, s, 1) <= now
    BY <1>2, <1>4 DEF Kept, RowKept, RunKept
  <2>2. /\ f \in Nat /\ freq[s] \in Nat /\ f <= freq[s]
        /\ now \in Nat /\ nextShip[s] \in Nat
        /\ Earned(f, s, 0) \in Int
        /\ Earned(f, s, 1) = Earned(f, s, 0) + f
        /\ Earned(f, s, 2) = Earned(f, s, 1) + f
    BY <2>1, SubscriptionsAssumption, SchedTypes, EarnedFacts DEF Least
  <2>3. r.next = nextShip[s] + freq[s] \/ r.next = now + freq[s]
    BY <1>1, <1>4 DEF DateFor, MovesDate, ResumedDate
  <2>4. CASE r.next = nextShip[s] + freq[s]
    BY <2>1, <2>2, <2>4
  <2>5. CASE r.next = now + freq[s]
    BY <2>1, <2>2, <2>5
  <2> QED
    BY <2>3, <2>4, <2>5
<1>5. AsksKept(f, s)'
  <2>1. ASSUME NEW k \in Handlers, req'[k].pc # "idle", req'[k].sub = s
        PROVE  /\ Exists(s)
               /\ req'[k].moves =>
                     /\ Earned(f, s, 1) <= req'[k].next
                     /\ Held(s) \/ (nextShip[s] <= now /\ ~Paid(s)) => Earned(f, s, 2) <= req'[k].next
    <3>1. CASE k = h
      BY <1>1, <1>2, <1>4, <2>1, <3>1 DEF TypeOK
    <3>2. CASE k # h
      BY <1>1, <2>1, <3>2 DEF TypeOK, Kept, AsksKept
    <3> QED
      BY <3>1, <3>2
  <2> QED
    BY <1>u, <1>h, <1>e, <2>1 DEF AsksKept
<1> QED
  BY <1>3, <1>5 DEF Kept

\* The write: a date that moves takes the charge that was due with it.
LEMMA ApplyKept ==
    ASSUME TypeOK, TypeOK', NEW h \in Handlers, \A k \in Handlers : k = h,
           NEW f \in Frequencies, Least(f), NEW s \in Subs, Kept(f, s), Apply(h)
    PROVE  Kept(f, s)'
<1> DEFINE r == req[h]
<1>1. r \in Ask /\ r.pc # "idle" /\ r.sub \in Subs /\ r.next \in Nat /\ r.freq \in Frequencies
  <2>1. r \in Ask
    BY IdleShape DEF Apply, TypeOK
  <2> QED
    BY <2>1 DEF Ask
<1>2. req' = [req EXCEPT ![h] = Idle] /\ \A k \in Handlers : req'[k].pc = "idle"
  BY IdleShape DEF Apply, TypeOK
<1>3. \/ UNCHANGED <<status, nextShip, freq>>
      \/ /\ status' = [status EXCEPT ![r.sub] = Written(r.op, status[r.sub])]
         /\ nextShip' = [nextShip EXCEPT ![r.sub] = IF r.moves THEN r.next ELSE @]
         /\ freq' = [freq EXCEPT ![r.sub] = IF r.op = "update" THEN r.freq ELSE @]
  BY DEF Apply
<1>u. UNCHANGED <<now, run, charges, faults, born>>
  BY DEF Apply
<1>h. (Held(s)' <=> Held(s)) /\ (Paid(s)' <=> Paid(s))
  BY <1>u DEF Held, Paid
<1>e. /\ Earned(f, s, 0)' = Earned(f, s, 0)
      /\ Earned(f, s, 1)' = Earned(f, s, 1)
      /\ Earned(f, s, 2)' = Earned(f, s, 2)
  BY <1>u, EarnedMoves
<1>a. AsksKept(f, s)'
  BY <1>2 DEF AsksKept
<1>x. r.sub = s =>
         /\ Exists(s)
         /\ r.moves => Earned(f, s, 1) <= r.next
  BY <1>1 DEF Kept, AsksKept
<1>4. Exists(s)' <=> Exists(s)
  <2>1. r.op \in Requested
    BY <1>1 DEF Ask
  <2>2. status[r.sub] # "NONE" => Written(r.op, status[r.sub]) # "NONE"
    BY <2>1 DEF Written, Requested
  <2> QED
    BY <1>1, <1>3, <1>x, <2>2 DEF Exists, TypeOK
<1>5. /\ freq'[s] = freq[s] \/ freq'[s] \in Frequencies
      /\ \/ nextShip'[s] = nextShip[s]
         \/ Exists(s) /\ Earned(f, s, 1) <= nextShip'[s]
  BY <1>1, <1>3, <1>x DEF TypeOK
<1>6. /\ f \in Nat
      /\ nextShip'[s] \in Nat
      /\ Earned(f, s, 0) \in Int
      /\ Earned(f, s, 1) = Earned(f, s, 0) + f
  <2>1. nextShip'[s] \in Nat
    BY DEF TypeOK
  <2> QED
    BY <2>1, SchedTypes, EarnedFacts
<1>7. RowKept(f, s)'
  BY <1>u, <1>h, <1>e, <1>4, <1>5, <1>6 DEF Kept, RowKept
<1>8. RunKept(f, s)'
  BY <1>u, <1>h, <1>e, <1>4 DEF Kept, RunKept
<1> QED
  BY <1>7, <1>8, <1>a DEF Kept

\* A crash forgets a date that was to be moved: that charge is the fault's.
LEMMA EnvironmentKept ==
    ASSUME TypeOK, TypeOK', NEW f \in Frequencies, NEW s \in Subs, Kept(f, s),
           Crash \/ NextDay \/ UNCHANGED vars
    PROVE  Kept(f, s)'
<1>1. CASE Crash
  <2>1. /\ \A w \in Runs : run'[w] = Idle
        /\ \A h \in Handlers : req'[h] = Idle
    BY <1>1 DEF Crash
  <2>2. UNCHANGED <<now, status, nextShip, freq, charges, born>> /\ faults' = faults + 1
    BY <1>1 DEF Crash
  <2>3. ~Held(s)' /\ ~Paid(s)'
    BY <2>1, IdleShape DEF Held, Paid, Holds, Pays
  <2>4. \A w \in Runs :
           /\ Holds(run'[w], s) \/ Pays(run'[w], s) => run'[w].freqs[s] \in Frequencies
           /\ run'[w].pc = "failed" /\ run'[w].cur = s => Exists(s)
    BY <2>1, IdleShape DEF Holds, Pays
  <2>5. Exists(s)' <=> Exists(s)
    BY <2>2 DEF Exists
  <2> QED
    BY <2>1, <2>2, <2>3, <2>4, <2>5, Untouched, IdleShape
<1>2. CASE NextDay
  <2>1. /\ now' = now + 1
        /\ \A h \in Handlers : req[h] = Idle
        /\ \A w \in Runs : run[w] = Idle
        /\ UNCHANGED <<status, nextShip, freq, req, run, charges, faults, born>>
    BY <1>2 DEF NextDay
  <2>2. /\ Earned(f, s, 0)' = Earned(f, s, 0)
        /\ Earned(f, s, 1)' = Earned(f, s, 1)
    BY <2>1, EarnedMoves
  <2>3. ~Held(s) /\ ~Paid(s) /\ ~Held(s)' /\ ~Paid(s)'
    BY <2>1, IdleShape DEF Held, Paid, Holds, Pays
  <2>4. now \in Nat /\ born[s] \in Nat /\ Earned(f, s, 0) \in Int
    BY SchedTypes, EarnedFacts
  <2>5. RowKept(f, s)'
    BY <2>1, <2>2, <2>3, <2>4 DEF Kept, RowKept, Exists
  <2>6. RunKept(f, s)'
    BY <2>1, <2>3, IdleShape DEF RunKept, Holds, Pays
  <2>7. AsksKept(f, s)'
    BY <2>1, IdleShape DEF AsksKept
  <2> QED
    BY <2>5, <2>6, <2>7 DEF Kept
<1>3. CASE UNCHANGED vars
  <2>1. UNCHANGED <<now, status, nextShip, freq, req, run, charges, faults, born>>
    BY <1>3 DEF vars
  <2> QED
    BY <2>1 DEF Kept, RowKept, RunKept, AsksKept, Held, Paid, Exists, Earned
<1> QED
  BY <1>1, <1>2, <1>3

LEMMA SetupsNext ==
    ASSUME TypeOK, SetupsHaveRows, Step
    PROVE  SetupsHaveRows'
<1> USE DEF SetupsHaveRows
<1>1. ASSUME UNCHANGED setup, \A s \in Subs : Exists(s) => Exists(s)'
      PROVE  SetupsHaveRows'
  BY <1>1
<1>2. ASSUME NEW s \in Subs,
             \/ \E f \in Frequencies : Create(s, f)
             \/ CreateSetupIntent(s) \/ ConfirmSetup(s) \/ OnSetupIntentSucceeded(s)
      PROVE  SetupsHaveRows'
  BY <1>2 DEF Create, CreateSetupIntent, ConfirmSetup, OnSetupIntentSucceeded, Exists, TypeOK
<1>3. ASSUME NEW h \in Handlers, Apply(h)
      PROVE  SetupsHaveRows'
  <2>1. req[h] \in Ask
    BY <1>3, IdleShape DEF Apply, TypeOK
  <2>2. req[h].op \in Requested
    BY <2>1 DEF Ask
  <2>3. status[req[h].sub] # "NONE" => Written(req[h].op, status[req[h].sub]) # "NONE"
    BY <2>2 DEF Written, Requested
  <2> QED
    BY <1>1, <1>3, <2>3 DEF Apply, Exists, TypeOK
<1>4. ASSUME NEW w \in Runs, RunStep(w)
      PROVE  SetupsHaveRows'
  <2>1. UNCHANGED setup /\ \/ UNCHANGED status
                           \/ status' = [status EXCEPT ![run[w].cur] = "PAYMENT_FAILED"]
    BY <1>4 DEF RunStep, StartRun, CreateOrder, CreateOrderFails, Charge, ChargeThrows, Advance,
                AdvanceFails, MarkFailed, EndRun
  <2> QED
    BY <1>1, <2>1 DEF Exists, TypeOK
<1>5. ASSUME \/ \E h \in Handlers, s \in Subs, op \in Requested, f \in Frequencies :
                   Request(h, s, op, f)
             \/ Crash \/ NextDay
      PROVE  SetupsHaveRows'
  BY <1>1, <1>5 DEF Request, Crash, NextDay, Exists
<1> QED
  BY <1>2, <1>3, <1>4, <1>5 DEF Step

LEMMA ScheduleNext ==
    ASSUME OneOfEach, SubInv, SubInv', ScheduleInv, [Next]_vars
    PROVE  ScheduleInv'
<1>t. TypeOK /\ TypeOK' /\ OneAtATime
  BY DEF SubInv
<1>1. SetupsHaveRows'
  <2>1. CASE UNCHANGED vars
    BY <2>1 DEF ScheduleInv, SetupsHaveRows, Exists, vars
  <2>2. CASE Next
    BY <1>t, <2>2, SetupsNext DEF Next, ScheduleInv
  <2> QED
    BY <2>1, <2>2
<1>2. ASSUME NEW f \in Frequencies, Least(f), NEW s \in Subs
      PROVE  Kept(f, s)'
  <2>1. Kept(f, s)
    BY <1>2 DEF ScheduleInv
  <2>2. ASSUME NEW t \in Subs,
               \/ \E g \in Frequencies : Create(t, g)
               \/ CreateSetupIntent(t) \/ ConfirmSetup(t) \/ OnSetupIntentSucceeded(t)
        PROVE  Kept(f, s)'
    <3>1. setup[t] # "none" => Exists(t)
      BY DEF ScheduleInv, SetupsHaveRows
    <3> QED
      BY <1>t, <1>2, <2>1, <2>2, <3>1, RowStepKept
  <2>3. ASSUME NEW h \in Handlers, NEW t \in Subs, NEW op \in Requested, NEW g \in Frequencies,
               Request(h, t, op, g)
        PROVE  Kept(f, s)'
    BY <1>t, <1>2, <2>1, <2>3, RequestKept
  <2>4. ASSUME NEW h \in Handlers, Apply(h)
        PROVE  Kept(f, s)'
    <3>1. \A k \in Handlers : k = h
      BY DEF OneOfEach
    <3> QED
      BY <1>t, <1>2, <2>1, <2>4, <3>1, ApplyKept
  <2>5. ASSUME NEW w \in Runs, RunStep(w)
        PROVE  Kept(f, s)'
    <3>1. \A v \in Runs : v = w
      BY DEF OneOfEach
    <3> QED
      BY <1>t, <1>2, <2>1, <2>5, <3>1, RunStepKept
  <2>6. CASE Crash \/ NextDay \/ UNCHANGED vars
    BY <1>t, <2>1, <2>6, EnvironmentKept
  <2> QED
    BY <2>2, <2>3, <2>4, <2>5, <2>6 DEF Next, Step
<1> QED
  BY <1>1, <1>2 DEF ScheduleInv, Least

LEMMA InitSchedule == Init => ScheduleInv
<1> SUFFICES ASSUME Init PROVE ScheduleInv
  OBVIOUS
<1>1. SetupsHaveRows
  BY DEF Init, SetupsHaveRows
<1>2. ASSUME NEW f \in Frequencies, NEW s \in Subs
      PROVE  Kept(f, s)
  <2>1. ~Exists(s) /\ charges[s] = 0 /\ born[s] <= now
    BY <1>2 DEF Init, Exists
  <2>2. ~Held(s) /\ ~Paid(s)
    BY IdleShape DEF Init, Held, Paid, Holds, Pays
  <2>3. RunKept(f, s)
    BY <2>2, IdleShape DEF Init, RunKept, Held, Paid
  <2>4. AsksKept(f, s)
    BY IdleShape DEF Init, AsksKept
  <2> QED
    BY <2>1, <2>2, <2>3, <2>4 DEF Kept, RowKept
<1> QED
  BY <1>1, <1>2 DEF ScheduleInv

\* Fewer periods have been charged than have passed.
LEMMA PeriodsPassed ==
    ASSUME NEW f \in Nat \ {0}, NEW d \in Nat, NEW n \in Int, f * n <= d
    PROVE  n <= d \div f
<1>1. f \in Int /\ f > 0 /\ d \in Int
  OBVIOUS
<1>2. d \div f \in Int
  BY <1>1, SMT
<1>3. d < f * (d \div f) + f
  BY <1>1, SMT
<1>4. ASSUME NEW q \in Int, d < f * q + f
      PROVE  n <= q
  <2>1. f * n < f * q + f
    <3>1. f * n \in Int /\ f * q \in Int
      BY <1>1
    <3> QED
      BY <1>1, <1>4, <3>1
  <2> QED
    BY <1>1, <2>1, SMTT(20)
<1> QED
  BY <1>2, <1>3, <1>4

\* A customer is charged at most once per period since the subscription was
\* created and once more for each fault, for any number of subscriptions,
\* frequencies, requests, webhooks, crashes and days, and any batch size, with one
\* request in flight and one run of the job.
THEOREM ScheduleFollowed == OneOfEach => (Spec => []ChargesFollowSchedule)
<1> SUFFICES ASSUME OneOfEach PROVE Spec => []ChargesFollowSchedule
  OBVIOUS
<1>1. Init => ScheduleInv
  BY InitSchedule
<1>2. SubInv /\ SubInv' /\ ScheduleInv /\ [Next]_vars => ScheduleInv'
  BY ScheduleNext
<1>3. SubInv /\ ScheduleInv => ChargesFollowSchedule
  <2> SUFFICES ASSUME SubInv, ScheduleInv,
                      NEW s \in Subs, NEW f \in Frequencies, \A g \in Frequencies : f <= g
               PROVE  charges[s] <= (now - born[s]) \div f + faults
    BY DEF ChargesFollowSchedule
  <2>1. Kept(f, s) /\ TypeOK
    BY DEF ScheduleInv, Least, SubInv
  <2>2. /\ f \in Nat \ {0} /\ now \in Nat /\ born[s] \in Nat /\ born[s] <= now
        /\ charges[s] \in Nat /\ faults \in Nat
    BY <2>1, SchedTypes DEF Kept, RowKept
  <2> DEFINE n == charges[s] - faults
             d == now - born[s]
  <2>3. n \in Int /\ d \in Nat
    BY <2>2
  <2>4. f * n <= d
    <3>1. CASE Exists(s)
      <4>1. born[s] + f * (n + 0) <= now
        BY <2>1, <3>1 DEF Kept, RowKept, Earned, Day
      <4>2. n + 0 = n /\ f * n \in Int
        BY <2>2, <2>3
      <4> HIDE DEF n
      <4> QED
        BY <2>2, <4>1, <4>2
    <3>2. CASE ~Exists(s)
      <4>1. charges[s] = 0
        BY <2>1, <3>2 DEF Kept, RowKept
      <4>2. f * n = 0 - f * faults /\ f * faults \in Nat
        BY <2>2, <4>1
      <4> QED
        BY <2>3, <4>2
    <3> QED
      BY <3>1, <3>2
  <2> HIDE DEF n, d
  <2>5. n <= d \div f /\ d \div f \in Int
    BY <2>2, <2>3, <2>4, PeriodsPassed
  <2> QED
    BY <2>2, <2>5 DEF n, d
<1> QED
  BY <1>1, <1>2, <1>3, SubscriptionsInvariant, PTL DEF Spec

-----------------------------------------------------------------------------
(***************************************************************************)
(* Gifts.  A gift makes subscriptions by a path of its own, so that what   *)
(* holds of subscriptions is shown once more with it.  That a gift is used *)
(* once is a statement about steps, and rests on redemptions having found  *)
(* their gift, and on a gift being linked to rows that exist: a redemption *)
(* links one more.                                                         *)
(***************************************************************************)

LinkedExist == \A g \in Codes : \A s \in linked[g] : Exists(s)

GiftsInv == SubInv /\ OneActivePerPair /\ GiftsTypeOK /\ LinkedExist

LEMMA RedemptionShape ==
    /\ Idle.pc = "idle"
    /\ \A r \in {Idle} \cup Redemption : r.pc = "read" => r \in Redemption
BY DEF Idle, Redemption

\* What Next does not have: the job passes a subscription on because its customer
\* cannot be charged.
LEMMA StrangerStep ==
    ASSUME SubInv, OneActivePerPair, NEW w \in Runs, NoPaymentMethod(w), RecordLate
    PROVE  SubInv' /\ OneActivePerPair' /\ UNCHANGED status
<1> USE DEF SubInv
<1>1. PICK s \in run[w].due :
         run' = [run EXCEPT ![w].pc = "failed", ![w].cur = s, ![w].due = @ \ {s}]
  BY DEF NoPaymentMethod, Refused
<1>2. UNCHANGED <<now, status, nextShip, freq, setup, recorded, req, orders, charges, requests,
                  faults, born>>
  BY DEF NoPaymentMethod
<1> DEFINE j == [run[w] EXCEPT !.pc = "failed", !.cur = s, !.due = run[w].due \ {s}]
<1>3. run[w] \in Job /\ run[w].pc = "loop"
  BY IdleShape DEF NoPaymentMethod, TypeOK
<1>4. j \in Job /\ j.pc = "failed" /\ j.due \subseteq run[w].due
  BY <1>3 DEF Job
<1>5. run' = [run EXCEPT ![w] = j]
  BY <1>1
<1> HIDE DEF j
<1>6. RunMoves(w)
  BY <1>2, <1>3, <1>4, <1>5 DEF RunMoves, Holds
<1>7. OneAtATime' /\ LateBound'
  BY <1>2, <1>6, RunBound
<1>8. run' \in [Runs -> {Idle} \cup Job] /\ late' \in [Subs -> Nat]
  BY <1>2, <1>4, <1>5 DEF TypeOK, RecordLate
<1> QED
  BY <1>2, <1>7, <1>8 DEF TypeOK, OneActivePerPair

\* A redemption makes a subscription, where the index lets it.
LEMMA RedeemStep ==
    ASSUME SubInv, OneActivePerPair, GiftsTypeOK, NEW h \in Redeemers, NEW s \in Subs, Redeem(h, s)
    PROVE  SubInv' /\ OneActivePerPair'
<1> USE DEF SubInv
<1>1. hold[h] \in Redemption
  BY RedemptionShape DEF Redeem, GiftsTypeOK
<1>2. hold[h].freq \in Frequencies /\ hold[h].next \in Nat
  BY <1>1 DEF Redemption
<1>3. UNCHANGED <<now, setup, recorded, req, run, orders, charges, requests, faults, late>>
  BY DEF Redeem
<1>4. CASE ~IndexAllows(s)
  <2>1. UNCHANGED vars
    BY <1>3, <1>4 DEF Redeem, vars
  <2> QED
    BY <2>1, StepSub DEF vars, OneActivePerPair
<1>5. CASE IndexAllows(s)
  <2>1. /\ status[s] = "NONE"
        /\ status' = [status EXCEPT ![s] = "ACTIVE"]
        /\ freq' = [freq EXCEPT ![s] = hold[h].freq]
        /\ nextShip' = [nextShip EXCEPT ![s] = hold[h].next]
        /\ born' = [born EXCEPT ![s] = now]
    BY <1>5 DEF Redeem
  <2>2. TypeOK'
    BY <1>2, <1>3, <2>1 DEF TypeOK, SubStatus
  <2>3. OneAtATime'
    BY <1>3 DEF OneAtATime
  <2>4. LateBound'
    <3>1. \A t \in Subs : Holders(t)' = Holders(t)
      BY <1>3 DEF Holders
    <3>2. \A t \in Subs : status'[t] = "CANCELLED" <=> status[t] = "CANCELLED"
      BY <2>1 DEF TypeOK
    <3> QED
      BY <1>3, <3>1, <3>2 DEF LateBound
  <2>5. OneActivePerPair'
    BY <1>5, <2>1 DEF OneActivePerPair, IndexAllows, TypeOK
  <2> QED
    BY <2>2, <2>3, <2>4, <2>5
<1> QED
  BY <1>4, <1>5

\* The steps that gifts share with subscriptions are steps of subscriptions.
LEMMA JobStepCases ==
    ASSUME JobStep
    PROVE  Next \/ ((\E w \in Runs : NoPaymentMethod(w)) /\ RecordLate)
<1>1. ASSUME NEW w \in Runs, GiftRunStep(w)
      PROVE  RunStep(w) \/ NoPaymentMethod(w)
  BY <1>1 DEF GiftRunStep, StartRunWithCustomers, OtherRunStep, RunStep
<1> QED
  BY <1>1 DEF JobStep, CreateWithCustomer, SetupOfOwn, CrashWithGifts, NextDayWithGifts, Next, Step

\* No row goes away.
LEMMA RowsStay ==
    ASSUME TypeOK, [Next]_vars, NEW s \in Subs, Exists(s)
    PROVE  Exists(s)'
<1> USE DEF Exists
<1>1. CASE \E t \in Subs : \/ \E f \in Frequencies : Create(t, f)
                           \/ CreateSetupIntent(t) \/ ConfirmSetup(t)
                           \/ OnSetupIntentSucceeded(t)
  BY <1>1 DEF Create, CreateSetupIntent, ConfirmSetup, OnSetupIntentSucceeded, TypeOK
<1>2. ASSUME NEW h \in Handlers, Apply(h)
      PROVE  Exists(s)'
  <2>1. req[h] \in Ask
    BY <1>2, IdleShape DEF Apply, TypeOK
  <2>2. req[h].op \in Requested /\ req[h].sub \in Subs
    BY <2>1 DEF Ask
  <2>3. Written(req[h].op, status[s]) # "NONE"
    BY <2>2 DEF Written, Requested
  <2> QED
    BY <1>2, <2>2, <2>3 DEF Apply, TypeOK
<1>3. ASSUME NEW w \in Runs, RunStep(w)
      PROVE  Exists(s)'
  BY <1>3 DEF RunStep, StartRun, CreateOrder, CreateOrderFails, Charge, ChargeThrows, Advance,
              AdvanceFails, MarkFailed, EndRun, TypeOK
<1>4. CASE \/ \E h \in Handlers, t \in Subs, op \in Requested, f \in Frequencies :
                  Request(h, t, op, f)
           \/ Crash \/ NextDay \/ UNCHANGED vars
  BY <1>4 DEF Request, Crash, NextDay, vars
<1> QED
  BY <1>1, <1>2, <1>3, <1>4 DEF Next, Step

\* The gifts' own variables under a step of the subscriptions.
LEMMA GiftsLeftAlone ==
    ASSUME TypeOK, GiftsTypeOK, JobStep
    PROVE  GiftsTypeOK' /\ UNCHANGED <<gift, linked>>
           /\ (UNCHANGED hold \/ hold' = [h \in Redeemers |-> Idle])
<1>1. UNCHANGED <<gift, linked>> /\ (UNCHANGED hold \/ hold' = [h \in Redeemers |-> Idle])
  BY DEF JobStep, CreateWithCustomer, SetupOfOwn, CrashWithGifts, NextDayWithGifts, GiftRunStep,
         StartRunWithCustomers, NoPaymentMethod, OtherRunStep, giftVars
<1>2. atStripe' \in SUBSET Customers
  <2>1. \A s \in Subs : CustomerOfSub(s) \in Customers
    BY SubscriptionsAssumption, GiftsAssumption DEF CustomerOfSub
  <2> QED
    BY <2>1 DEF JobStep, CreateWithCustomer, SetupOfOwn, CrashWithGifts, NextDayWithGifts,
                GiftRunStep, StartRunWithCustomers, NoPaymentMethod, OtherRunStep, giftVars,
                GiftsTypeOK
<1>3. strangers' \in [Runs -> SUBSET Subs]
  <2>1. ASSUME NEW w \in Runs, StartRunWithCustomers(w)
        PROVE  strangers' \in [Runs -> SUBSET Subs]
    <3>1. PICK batch \in SUBSET {s \in Subs : Due(s)} :
             run' = [run EXCEPT ![w] = [pc |-> "loop", due |-> batch, cur |-> NoSub,
                                        freqs |-> freq]]
      BY <2>1 DEF StartRunWithCustomers, StartRun
    <3> QED
      BY <2>1, <3>1 DEF StartRunWithCustomers, GiftsTypeOK, TypeOK
  <2> QED
    BY <2>1 DEF JobStep, CreateWithCustomer, SetupOfOwn, CrashWithGifts, NextDayWithGifts,
                GiftRunStep, NoPaymentMethod, OtherRunStep, giftVars, GiftsTypeOK
<1>4. hold' \in [Redeemers -> {Idle} \cup Redemption]
  BY <1>1 DEF GiftsTypeOK
<1>5. \A h \in Redeemers : hold'[h].pc = "read" => hold'[h] = hold[h]
  BY <1>1, RedemptionShape
<1> QED
  BY <1>1, <1>2, <1>3, <1>4, <1>5 DEF GiftsTypeOK

\* The steps of gifts themselves.
LEMMA GiftStepKeeps ==
    ASSUME SubInv, OneActivePerPair, GiftsTypeOK, LinkedExist, GiftStep
    PROVE  SubInv' /\ OneActivePerPair' /\ GiftsTypeOK' /\ LinkedExist'
<1>1. ASSUME UNCHANGED vars
      PROVE  SubInv' /\ OneActivePerPair' /\ (UNCHANGED linked => LinkedExist')
  BY <1>1, StepSub DEF vars, OneActivePerPair, LinkedExist, Exists
<1>2. ASSUME NEW g \in Codes, CreateGift(g)
      PROVE  SubInv' /\ OneActivePerPair' /\ GiftsTypeOK' /\ LinkedExist'
  <2>1. GiftsTypeOK'
    BY <1>2 DEF CreateGift, GiftsTypeOK
  <2> QED
    BY <1>1, <1>2, <2>1 DEF CreateGift
<1>3. ASSUME NEW h \in Redeemers, NEW g \in Codes, NEW p \in Pairs, NEW f \in Frequencies,
             ReadGift(h, g, p, f)
      PROVE  SubInv' /\ OneActivePerPair' /\ GiftsTypeOK' /\ LinkedExist'
  <2> DEFINE r == [pc |-> "read", code |-> g, pair |-> p, freq |-> f, next |-> now + f]
  <2>1. now + f \in Nat
    <3>1. now \in Nat /\ f \in Nat
      BY FrequencyType, SubscriptionsAssumption DEF SubInv, TypeOK
    <3> QED
      BY <3>1
  <2>2. r \in Redemption /\ r.code = g
    BY <2>1 DEF Redemption
  <2>3. hold' = [hold EXCEPT ![h] = r] /\ gift[g] # "NONE"
        /\ UNCHANGED <<gift, linked, atStripe, strangers>>
    BY <1>3 DEF ReadGift, Redeemable
  <2> HIDE DEF r
  <2>4. GiftsTypeOK'
    BY <2>2, <2>3 DEF GiftsTypeOK
  <2> QED
    BY <1>1, <1>3, <2>4 DEF ReadGift
<1>4. ASSUME NEW h \in Redeemers, NEW s \in Subs, Redeem(h, s)
      PROVE  SubInv' /\ OneActivePerPair' /\ GiftsTypeOK' /\ LinkedExist'
  <2>1. hold[h] \in Redemption /\ hold[h].code \in Codes
    BY <1>4, RedemptionShape DEF Redeem, GiftsTypeOK, Redemption
  <2>2. /\ hold' = [hold EXCEPT ![h] = Idle]
        /\ \/ UNCHANGED <<status, gift, linked>>
           \/ /\ status' = [status EXCEPT ![s] = "ACTIVE"]
              /\ gift' = [gift EXCEPT ![hold[h].code] = "ACTIVE"]
              /\ linked' = [linked EXCEPT ![hold[h].code] = @ \cup {s}]
        /\ UNCHANGED <<atStripe, strangers>>
    BY <1>4 DEF Redeem
  <2>3. GiftsTypeOK'
    <3> DEFINE c == hold[h].code
    <3>1. c \in Codes /\ gift[c] # "NONE"
      BY <1>4, <2>1 DEF Redeem, GiftsTypeOK
    <3>2. \/ UNCHANGED <<gift, linked>>
          \/ /\ gift' = [gift EXCEPT ![c] = "ACTIVE"]
             /\ linked' = [linked EXCEPT ![c] = @ \cup {s}]
      BY <2>2
    <3> HIDE DEF c
    <3>3. /\ gift' \in [Codes -> {"NONE", "PENDING_ACTIVATION", "ACTIVE"}]
          /\ \A g \in Codes : gift[g] # "NONE" => gift'[g] # "NONE"
      BY <3>1, <3>2 DEF GiftsTypeOK
    <3>4. linked' \in [Codes -> SUBSET Subs]
      BY <3>1, <3>2 DEF GiftsTypeOK
    <3>5. \A g \in Codes : gift'[g] # "ACTIVE" => linked'[g] = {}
      BY <3>1, <3>2 DEF GiftsTypeOK
    <3>6. /\ hold' \in [Redeemers -> {Idle} \cup Redemption]
          /\ \A k \in Redeemers : hold'[k].pc = "read" => hold'[k] = hold[k]
      BY <2>2, RedemptionShape DEF GiftsTypeOK
    <3>7. \A k \in Redeemers : hold'[k].pc = "read" => gift'[hold'[k].code] # "NONE"
      <4> SUFFICES ASSUME NEW k \in Redeemers, hold'[k].pc = "read"
                   PROVE  gift'[hold[k].code] # "NONE"
        BY <3>6
      <4>1. hold[k].pc = "read"
        BY <3>6
      <4>2. hold[k].code \in Codes /\ gift[hold[k].code] # "NONE"
        BY <4>1, RedemptionShape DEF GiftsTypeOK, Redemption
      <4> QED
        BY <3>3, <4>2
    <3> QED
      BY <2>2, <3>3, <3>4, <3>5, <3>6, <3>7 DEF GiftsTypeOK
  <2>4. LinkedExist'
    BY <2>1, <2>2 DEF LinkedExist, Exists, GiftsTypeOK, SubInv, TypeOK
  <2> QED
    BY <1>4, <2>3, <2>4, RedeemStep
<1> QED
  BY <1>2, <1>3, <1>4 DEF GiftStep

LEMMA JobStepKeeps ==
    ASSUME SubInv, OneActivePerPair, GiftsTypeOK, LinkedExist, JobStep
    PROVE  SubInv' /\ OneActivePerPair' /\ GiftsTypeOK' /\ LinkedExist'
<1>1. TypeOK
  BY DEF SubInv
<1>2. GiftsTypeOK' /\ UNCHANGED linked
  BY <1>1, GiftsLeftAlone
<1>3. linked \in [Codes -> SUBSET Subs]
  BY DEF GiftsTypeOK
<1>4. CASE Next
  BY <1>1, <1>2, <1>3, <1>4, StepSub, StepOneActive, RowsStay DEF LinkedExist
<1>5. CASE (\E w \in Runs : NoPaymentMethod(w)) /\ RecordLate
  BY <1>2, <1>5, StrangerStep DEF LinkedExist, Exists
<1> QED
  BY <1>4, <1>5, JobStepCases

LEMMA StepGifts == GiftsInv /\ [GiftsNext]_allVars => GiftsInv'
<1> SUFFICES ASSUME GiftsInv, [GiftsNext]_allVars PROVE GiftsInv'
  OBVIOUS
<1>1. CASE GiftStep \/ JobStep
  BY <1>1, GiftStepKeeps, JobStepKeeps DEF GiftsInv
<1>2. CASE UNCHANGED allVars
  <2>1. UNCHANGED vars /\ UNCHANGED giftVars
    BY <1>2 DEF allVars
  <2>2. SubInv' /\ OneActivePerPair'
    BY <2>1, StepSub DEF GiftsInv, OneActivePerPair, vars
  <2>3. GiftsTypeOK' /\ LinkedExist'
    BY <2>1 DEF GiftsInv, GiftsTypeOK, LinkedExist, Exists, giftVars, vars
  <2> QED
    BY <2>2, <2>3 DEF GiftsInv
<1> QED
  BY <1>1, <1>2 DEF GiftsNext

LEMMA InitGifts == GiftsInit => GiftsInv
<1> SUFFICES ASSUME GiftsInit PROVE GiftsInv
  OBVIOUS
<1>1. SubInv /\ OneActivePerPair
  BY InitSub DEF GiftsInit, Init, OneActivePerPair
<1>2. GiftsTypeOK
  BY RedemptionShape DEF GiftsInit, GiftsTypeOK
<1>3. LinkedExist
  BY DEF GiftsInit, LinkedExist
<1> QED
  BY <1>1, <1>2, <1>3 DEF GiftsInv

\* The types of gifts and redemptions, that every subscription linked to a gift exists, and
\* that a pair has one active subscription at most (redeem of gifts.service.ts).
THEOREM GiftsInvariant == GiftsSpec => []GiftsInv
BY InitGifts, StepGifts, PTL DEF GiftsSpec

\* Gifts, what their redemptions hold, and what runs know of customers have their
\* types; a redemption holds a gift that was issued, and only a gift that was
\* redeemed is linked.
THEOREM GiftsTyped == GiftsSpec => []GiftsTypeOK
<1>1. GiftsInv => GiftsTypeOK
  BY DEF GiftsInv
<1> QED
  BY <1>1, GiftsInvariant, PTL

\* Gifts leave what was shown of subscriptions true: a redemption never gives a
\* customer a second ACTIVE subscription to a variant, and what is gifted stops
\* being charged once it is cancelled like anything else.
THEOREM GiftsKeepSubscriptions == GiftsSpec => [](OneActivePerPair /\ ChargesStopAfterCancel)
<1>1. GiftsInv => OneActivePerPair /\ ChargesStopAfterCancel
  BY BoundOfSub DEF GiftsInv
<1> QED
  BY <1>1, GiftsInvariant, PTL
=============================================================================
