-------------------------- MODULE TenantPlanProofs -------------------------
(***************************************************************************)
(* Theorems about TenantPlan for every value of its constants: types, that *)
(* commission needs a plan that has it, that overrides are the platform's,   *)
(* that a rate changes by consent, and how far the guard's cache is behind.  *)
(*                                                                         *)
(* They rest on one fact: as long as nothing is tangled, what every request  *)
(* in flight has read is what the row still holds, so what it checked then    *)
(* is true of the row it writes.                                            *)
(***************************************************************************)
EXTENDS TenantPlan, TLAPS

allVars == <<planVars, clockVars>>

UpdateAsk   == [pc : {"update"}, dto : UpdateDtos, row : Plan]
SettingsAsk == [pc : {"settings"}, flat : Flats, row : Plan]
DecisionAsk == [pc : {"accept", "reject"}, row : Plan]
Asks        == UpdateAsk \cup SettingsAsk \cup DecisionAsk
Missed      == [pc : {"missed"}, at : Nat]
Answer      == [pc : {"read"}, at : Nat, tier : Tiers, over : Overrides]
Entry       == [pc : {"kept"}, tier : Tiers, over : Overrides, end : Nat]

\* What a request may do was decided on the row it read.
Decided(d) ==
    /\ d.pc = "update" => /\ Chosen(d.dto.type, d.row.type) = "COMMISSION"
                                => d.row.enabled /\ Chosen(d.dto.tier, d.row.tier) # "STARTER"
    /\ d.pc \in {"accept", "reject"} => d.row.pending # NoRate

\* What a request read is what the row holds.
Fresh == \A h \in Office : office[h] # Free => office[h].row = plan

RatesStay == \A h \in Office : office[h] # Free /\ office[h].row.rate # NoRate => plan.rate # NoRate

PlanInv ==
    /\ \A h \in Office : office[h] # Free => Decided(office[h])
    /\ RatesStay
    /\ \/ tangled
       \/ /\ Fresh
          /\ plan.type = "COMMISSION" => plan.enabled /\ plan.tier # "STARTER"
          /\ plan.over = granted

\* What was read of the plan at an instant is the plan, or the plan changed since.
Recent(tier, over, at) == <<tier, over>> = <<plan.tier, plan.over>> \/ at <= changed

CacheInv ==
    /\ \A q \in Lookups :
          /\ lookup[q].pc \in {"missed", "read"} => lookup[q].at <= now
          /\ lookup[q].pc = "read" => Recent(lookup[q].tier, lookup[q].over, lookup[q].at)
    /\ cache.pc = "kept" =>
          /\ cache.end <= now + FeatureLife
          /\ \/ <<cache.tier, cache.over>> = <<plan.tier, plan.over>>
             \/ cache.end <= changed + FeatureLife

-----------------------------------------------------------------------------
LEMMA Shapes ==
    /\ Free.pc = "idle"
    /\ Free \notin Asks
    /\ \A d \in {Free} \cup Asks :
          /\ d.pc = "update" => d \in UpdateAsk
          /\ d.pc = "settings" => d \in SettingsAsk
          /\ d.pc \in {"accept", "reject"} => d \in DecisionAsk
    /\ \A d \in {Free} \cup Missed \cup Answer :
          /\ d.pc = "missed" => d \in Missed
          /\ d.pc = "read" => d \in Answer
    /\ \A d \in {Free} \cup Entry : d.pc = "kept" => d \in Entry
BY DEF Free, Asks, UpdateAsk, SettingsAsk, DecisionAsk, Missed, Answer, Entry

\* The type invariant in the words of this module.
LEMMA Types ==
    PlanTypeOK <=>
        /\ plan \in Plan
        /\ plan.pending # NoRate => plan.rate # NoRate
        /\ office \in [Office -> {Free} \cup Asks]
        /\ cache \in {Free} \cup Entry
        /\ lookup \in [Lookups -> {Free} \cup Missed \cup Answer]
        /\ changed \in 0..now
        /\ granted \in Overrides
        /\ tangled \in BOOLEAN
BY DEF PlanTypeOK, Asks, UpdateAsk, SettingsAsk, DecisionAsk, Missed, Answer, Entry

-----------------------------------------------------------------------------
(***************************************************************************)
(* What each write leaves in the row.                                      *)
(***************************************************************************)

LEMMA UpdateWrites ==
    ASSUME PlanTypeOK, NEW h \in Office, UpdateTenant(h)
    PROVE  /\ office[h] \in UpdateAsk /\ office[h].dto \in UpdateDtos /\ office[h].row \in Plan
           /\ plan' \in Plan
           /\ plan'.tier = Chosen(office[h].dto.tier, plan.tier)
           /\ plan'.type = Chosen(office[h].dto.type, plan.type)
           /\ plan'.enabled = plan.enabled
           /\ plan'.over = plan.over \/ granted' = plan'.over
           /\ plan'.over = plan.over => granted' \in {granted, plan'.over}
           /\ granted' \in Overrides
           /\ plan'.rate = NoRate => plan.rate = NoRate
           /\ plan'.rate # plan.rate => office[h].row.rate = NoRate
           /\ plan'.pending # NoRate => office[h].row.rate # NoRate \/ (plan.pending # NoRate)
<1> DEFINE d == office[h]
<1>1. d \in UpdateAsk
  BY Types, Shapes DEF UpdateTenant
<1>2. /\ d.dto \in UpdateDtos /\ d.row \in Plan /\ plan \in Plan
      /\ plan.tier \in Tiers /\ plan.over \in Overrides /\ plan.flat \in Flats \cup {0}
      /\ plan.type \in {"SUBSCRIPTION", "COMMISSION"} /\ plan.enabled \in BOOLEAN
      /\ plan.rate \in Rates \cup {NoRate} /\ plan.pending \in Rates \cup {NoRate}
  BY <1>1, Types DEF UpdateAsk, Plan
<1>3. /\ d.dto.tier \in Tiers \cup {Keep}
      /\ d.dto.over \in [Keys -> {"on", "off", "unset"}]
      /\ d.dto.type \in {"SUBSCRIPTION", "COMMISSION", Keep}
      /\ d.dto.rate \in Rates \cup {Keep}
      /\ d.row.over \in Overrides /\ d.row.flat \in Flats \cup {0}
  BY <1>2, TenantPlanAssumption DEF Plan
<1>4. Merged(d.dto, d.row.over) \in Overrides
  BY <1>3 DEF Merged, Overrides
<1> DEFINE sent  == \E k \in Keys : d.dto.over[k] # "unset"
           fixes == FixesRate(d.dto, d.row)
           over  == IF sent THEN Merged(d.dto, d.row.over) ELSE plan.over
           flat  == IF sent THEN d.row.flat ELSE plan.flat
           rate  == IF fixes THEN d.dto.rate ELSE plan.rate
           pending == CASE fixes -> NoRate
                        [] Proposes(d.dto, d.row) -> d.dto.rate
                        [] OTHER -> plan.pending
<1>5. /\ plan' = [plan EXCEPT !.tier = Chosen(d.dto.tier, @), !.over = over, !.flat = flat,
                              !.type = Chosen(d.dto.type, @), !.rate = rate, !.pending = pending]
      /\ granted' = IF sent THEN plan'.over ELSE granted
  BY DEF UpdateTenant, Writes
<1>6. /\ Chosen(d.dto.tier, plan.tier) \in Tiers
      /\ Chosen(d.dto.type, plan.type) \in {"SUBSCRIPTION", "COMMISSION"}
  BY <1>2, <1>3 DEF Chosen
<1>7. over \in Overrides /\ flat \in Flats \cup {0}
  BY <1>2, <1>3, <1>4
<1>8. rate \in Rates \cup {NoRate} /\ (rate = NoRate => plan.rate = NoRate)
      /\ (rate # plan.rate => d.row.rate = NoRate)
  BY <1>2, <1>3, TenantPlanAssumption DEF FixesRate
<1>9. pending \in Rates \cup {NoRate}
      /\ (pending # NoRate => d.row.rate # NoRate \/ plan.pending # NoRate)
  BY <1>2, <1>3 DEF Proposes, FixesRate
<1> HIDE DEF over, flat, rate, pending
<1>10. /\ plan' \in Plan
       /\ plan'.tier = Chosen(d.dto.tier, plan.tier) /\ plan'.over = over
       /\ plan'.type = Chosen(d.dto.type, plan.type) /\ plan'.enabled = plan.enabled
       /\ plan'.rate = rate /\ plan'.pending = pending
  BY <1>2, <1>5, <1>6, <1>7, <1>8, <1>9 DEF Plan
<1>11. granted \in Overrides
  BY Types
<1>12. granted' \in Overrides /\ (plan'.over = plan.over \/ granted' = plan'.over)
       /\ granted' \in {granted, plan'.over}
  BY <1>5, <1>7, <1>10, <1>11 DEF over
<1> QED
  BY <1>1, <1>2, <1>8, <1>9, <1>10, <1>12

LEMMA SettingsWrite ==
    ASSUME PlanTypeOK, NEW h \in Office, UpdateSettings(h)
    PROVE  /\ office[h] \in SettingsAsk
           /\ plan' \in Plan
           /\ plan'.tier = plan.tier /\ plan'.type = plan.type /\ plan'.enabled = plan.enabled
           /\ plan'.rate = plan.rate /\ plan'.pending = plan.pending
           /\ plan'.over = office[h].row.over
<1>1. office[h] \in SettingsAsk
  BY Types, Shapes DEF UpdateSettings
<1>2. office[h].row.over \in Overrides /\ office[h].flat \in Flats /\ plan \in Plan
  BY <1>1, Types DEF SettingsAsk, Plan
<1>3. plan' = [plan EXCEPT !.over = office[h].row.over, !.flat = office[h].flat]
  BY DEF UpdateSettings, Writes, KeptOverrides
<1> QED
  BY <1>1, <1>2, <1>3 DEF Plan

LEMMA DecisionWrites ==
    ASSUME PlanTypeOK, NEW h \in Office, AcceptCommission(h) \/ RejectCommission(h)
    PROVE  /\ office[h] \in DecisionAsk
           /\ plan' \in Plan
           /\ plan'.tier = plan.tier /\ plan'.type = plan.type /\ plan'.enabled = plan.enabled
           /\ plan'.over = plan.over /\ plan'.pending = NoRate
           /\ plan'.rate = IF office[h].pc = "accept" THEN office[h].row.pending ELSE plan.rate
<1>1. office[h] \in DecisionAsk
  BY Types, Shapes DEF AcceptCommission, RejectCommission
<1>2. office[h].row.pending \in Rates \cup {NoRate} /\ plan \in Plan
  BY <1>1, Types DEF DecisionAsk, Plan
<1>3. CASE AcceptCommission(h)
  <2>1. plan' = [plan EXCEPT !.rate = office[h].row.pending, !.pending = NoRate]
        /\ office[h].pc = "accept"
    BY <1>3 DEF AcceptCommission, Writes
  <2> QED
    BY <1>1, <1>2, <2>1 DEF Plan
<1>4. CASE RejectCommission(h)
  <2>1. plan' = [plan EXCEPT !.pending = NoRate] /\ office[h].pc # "accept"
    BY <1>4 DEF RejectCommission, Writes
  <2> QED
    BY <1>1, <1>2, <2>1 DEF Plan
<1> QED
  BY <1>3, <1>4

-----------------------------------------------------------------------------
(***************************************************************************)
(* The steps.                                                              *)
(***************************************************************************)

Invs == PlanTypeOK /\ ClockTypeOK /\ PlanInv /\ CacheInv

LEMMA InitInvs == PlanInit /\ ClockInit => Invs
<1> SUFFICES ASSUME PlanInit, ClockInit PROVE Invs
  OBVIOUS
<1>1. PICK dto \in CreateDtos : MayCreate(dto) /\ plan = Created(dto)
  BY DEF PlanInit
<1>2. dto.tier \in Tiers /\ dto.enabled \in BOOLEAN /\ dto.rate \in Rates \cup {NoRate}
  BY TenantPlanAssumption
<1>3. dto.over \in Overrides
  BY TenantPlanAssumption DEF Overrides
<1>4. plan \in Plan /\ plan.pending = NoRate /\ plan.over \in Overrides
      /\ (plan.type = "COMMISSION" => plan.enabled /\ plan.tier # "STARTER")
  BY <1>1, <1>2, <1>3 DEF Created, MayCreate, Plan
<1>5. PlanTypeOK
  <2>1. office \in [Office -> {Free}] /\ lookup \in [Lookups -> {Free}] /\ cache = Free
        /\ changed = 0 /\ now = 0 /\ tangled = FALSE /\ granted \in Overrides
    BY <1>4 DEF PlanInit, ClockInit
  <2>2. changed \in 0..now
    BY <2>1
  <2> QED
    BY <1>4, <2>1, <2>2 DEF PlanTypeOK
<1>6. PlanInv
  BY <1>4, Shapes DEF PlanInit, PlanInv, Fresh, RatesStay
<1>7. CacheInv
  BY Shapes DEF PlanInit, CacheInv
<1>8. ClockTypeOK
  BY ClockAssumption DEF ClockInit, ClockTypeOK
<1> QED
  BY <1>5, <1>6, <1>7, <1>8 DEF Invs

\* A request begins with the row it read.
LEMMA ReadKeeps ==
    ASSUME Invs, NEW h \in Office, NEW d \in Asks, d.row = plan, Decided(d), Reads(h, d)
    PROVE  Invs'
<1>1. /\ UNCHANGED <<plan, cache, lookup, changed, granted, tangled, now>>
      /\ office' = [office EXCEPT ![h] = d]
      /\ ClockTypeOK'
  BY ClockAssumption DEF Invs, Reads, Holds, Arrives, ClockTypeOK
<1>2. PlanTypeOK'
  BY <1>1, Types DEF Invs, PlanTypeOK, Asks, UpdateAsk, SettingsAsk, DecisionAsk
<1>3. \A g \in Office : office'[g] = office[g] \/ (g = h /\ office'[g] = d)
  BY <1>1, Types DEF Invs
<1>4. \A g \in Office : office'[g] # Free => Decided(office'[g])
  BY <1>3 DEF Invs, PlanInv
<1>5. \A g \in Office : office'[g] # Free /\ office'[g].row.rate # NoRate => plan'.rate # NoRate
  BY <1>1, <1>3 DEF Invs, PlanInv, RatesStay
<1>6. Fresh => Fresh'
  BY <1>1, <1>3 DEF Fresh
<1>7. PlanInv'
  BY <1>1, <1>4, <1>5, <1>6 DEF Invs, PlanInv, RatesStay, Decided
<1>8. CacheInv'
  BY <1>1 DEF Invs, CacheInv, Recent
<1> QED
  BY <1>1, <1>2, <1>7, <1>8 DEF Invs

\* A request ends with its write.  The others have read what is no longer there,
\* and then the history says so.
LEMMA WriteKeeps ==
    ASSUME Invs, NEW h \in Office, Writes(h, plan'),
           plan' \in Plan, granted' \in Overrides,
           plan'.rate = NoRate => plan.rate = NoRate,
           plan'.pending # NoRate => plan'.rate # NoRate,
           tangled \/ ( /\ plan'.type = "COMMISSION" => plan'.enabled /\ plan'.tier # "STARTER"
                        /\ plan'.over = granted' )
    PROVE  Invs'
<1>1. /\ UNCHANGED <<cache, lookup, now>> /\ ClockTypeOK'
      /\ office' = [office EXCEPT ![h] = Free]
      /\ changed' = IF plan'.tier # plan.tier \/ plan'.over # plan.over THEN now ELSE changed
      /\ tangled' = (tangled \/ \E g \in Office \ {h} : office[g] # Free)
  BY DEF Invs, Writes, Holds, GoesOn, clockVars, ClockTypeOK
<1>2. /\ office \in [Office -> {Free} \cup Asks] /\ changed \in 0..now /\ now \in Nat
      /\ lookup \in [Lookups -> {Free} \cup Missed \cup Answer] /\ cache \in {Free} \cup Entry
  BY Types, ClockAssumption DEF Invs, ClockTypeOK
<1>3. office' \in [Office -> {Free} \cup Asks]
      /\ \A g \in Office : office'[g] = Free \/ (office'[g] = office[g] /\ g # h)
  BY <1>1, <1>2
<1>4. changed' \in 0..now
  BY <1>1, <1>2
<1>5. PlanTypeOK'
  BY <1>1, <1>2, <1>3, <1>4 DEF PlanTypeOK, Asks, UpdateAsk, SettingsAsk, DecisionAsk,
                                Missed, Answer, Entry
<1>6. \A g \in Office : office'[g] # Free => Decided(office'[g])
  BY <1>3 DEF Invs, PlanInv
<1>7. \A g \in Office : office'[g] # Free /\ office'[g].row.rate # NoRate => plan'.rate # NoRate
  BY <1>3 DEF Invs, PlanInv, RatesStay
<1>8. ~tangled' => \A g \in Office : office'[g] = Free
  BY <1>1, <1>3
<1>9. PlanInv'
  BY <1>1, <1>6, <1>7, <1>8 DEF PlanInv, RatesStay, Fresh, Decided
<1>10. CacheInv'
  <2>1. ASSUME NEW q \in Lookups
        PROVE  /\ lookup[q].pc \in {"missed", "read"} => lookup[q].at <= now /\ lookup[q].at \in Nat
               /\ lookup[q].pc = "read" =>
                     \/ <<lookup[q].tier, lookup[q].over>> = <<plan'.tier, plan'.over>>
                     \/ lookup[q].at <= changed'
    <3>1. lookup[q].pc \in {"missed", "read"} => lookup[q].at <= now /\ lookup[q].at \in Nat
      BY <1>2, Shapes DEF Invs, CacheInv, Missed, Answer
    <3>2. lookup[q].pc = "read" => Recent(lookup[q].tier, lookup[q].over, lookup[q].at)
      BY DEF Invs, CacheInv
    <3> QED
      BY <1>1, <1>2, <3>1, <3>2 DEF Recent
  <2>2. cache.pc = "kept" =>
          /\ cache.end <= now + FeatureLife
          /\ \/ <<cache.tier, cache.over>> = <<plan'.tier, plan'.over>>
             \/ cache.end <= changed' + FeatureLife
    BY <1>1, <1>2 DEF Invs, CacheInv
  <2> QED
    BY <1>1, <2>1, <2>2 DEF CacheInv, Recent
<1> QED
  BY <1>1, <1>5, <1>9, <1>10 DEF Invs

LEMMA UpdateKeeps ==
    ASSUME Invs, NEW h \in Office, UpdateTenant(h)
    PROVE  Invs'
<1> DEFINE d == office[h]
<1>1. PlanTypeOK /\ PlanInv
  BY DEF Invs
<1>2. Writes(h, plan')
  BY DEF UpdateTenant, Writes
<1>3. d # Free /\ d.pc = "update"
  BY Shapes DEF UpdateTenant
<1>4. Decided(d) /\ (d.row.rate # NoRate => plan.rate # NoRate)
  BY <1>1, <1>3 DEF PlanInv, RatesStay
<1>5. plan'.pending # NoRate => plan'.rate # NoRate
  <2>1. plan.pending # NoRate => plan.rate # NoRate
    BY <1>1 DEF PlanTypeOK
  <2> QED
    BY <1>1, <1>4, <2>1, UpdateWrites
<1>6. ASSUME ~tangled
      PROVE  /\ plan'.type = "COMMISSION" => plan'.enabled /\ plan'.tier # "STARTER"
             /\ plan'.over = granted'
  <2>1. d.row = plan /\ plan.over = granted
    BY <1>1, <1>3, <1>6 DEF PlanInv, Fresh
  <2> QED
    BY <1>1, <1>3, <1>4, <2>1, UpdateWrites DEF Decided
<1> QED
  BY <1>1, <1>2, <1>5, <1>6, UpdateWrites, WriteKeeps

LEMMA SettingsKeeps ==
    ASSUME Invs, NEW h \in Office, UpdateSettings(h)
    PROVE  Invs'
<1>1. PlanTypeOK /\ PlanInv /\ granted' = granted /\ granted \in Overrides
  BY Types DEF Invs, UpdateSettings
<1>2. Writes(h, plan')
  BY DEF UpdateSettings, Writes
<1>3. plan'.pending # NoRate => plan'.rate # NoRate
  BY <1>1, SettingsWrite DEF PlanTypeOK
<1>4. ASSUME ~tangled
      PROVE  /\ plan'.type = "COMMISSION" => plan'.enabled /\ plan'.tier # "STARTER"
             /\ plan'.over = granted'
  <2>1. office[h] # Free
    BY Shapes DEF UpdateSettings
  <2>2. office[h].row = plan
    BY <1>1, <1>4, <2>1 DEF PlanInv, Fresh
  <2> QED
    BY <1>1, <1>4, <2>2, SettingsWrite DEF PlanInv
<1> QED
  BY <1>1, <1>2, <1>3, <1>4, SettingsWrite, WriteKeeps

LEMMA DecisionKeeps ==
    ASSUME Invs, NEW h \in Office, AcceptCommission(h) \/ RejectCommission(h)
    PROVE  Invs'
<1>1. PlanTypeOK /\ PlanInv /\ granted' = granted /\ granted \in Overrides
  BY Types DEF Invs, AcceptCommission, RejectCommission
<1>2. Writes(h, plan')
  BY DEF AcceptCommission, RejectCommission, Writes
<1>3. office[h].pc \in {"accept", "reject"} /\ office[h] # Free
  BY Shapes DEF AcceptCommission, RejectCommission
<1>4. office[h].row.pending # NoRate
  BY <1>1, <1>3 DEF PlanInv, Decided
<1>5. plan'.rate = NoRate => plan.rate = NoRate
  BY <1>1, <1>4, DecisionWrites
<1>6. plan'.pending # NoRate => plan'.rate # NoRate
  BY <1>1, DecisionWrites
<1>7. tangled \/ ( /\ plan'.type = "COMMISSION" => plan'.enabled /\ plan'.tier # "STARTER"
                   /\ plan'.over = granted' )
  BY <1>1, DecisionWrites DEF PlanInv
<1> QED
  BY <1>1, <1>2, <1>5, <1>6, <1>7, DecisionWrites, WriteKeeps

\* The guard's steps.
LEMMA GuardKeeps ==
    ASSUME Invs, NEW q \in Lookups, Lookup(q) \/ ReadPlan(q) \/ Remember(q)
    PROVE  Invs'
<1>1. /\ UNCHANGED <<plan, office, changed, granted, tangled, now>> /\ ClockTypeOK'
      /\ now \in Nat /\ changed \in 0..now
      /\ lookup \in [Lookups -> {Free} \cup Missed \cup Answer] /\ cache \in {Free} \cup Entry
      /\ plan.tier \in Tiers /\ plan.over \in Overrides
  <2>1. /\ UNCHANGED <<plan, office, changed, granted, tangled, now>> /\ ClockTypeOK'
    BY ClockAssumption DEF Invs, Lookup, ReadPlan, Remember, Arrives, GoesOn, clockVars, ClockTypeOK
  <2> QED
    BY <2>1, Types, ClockAssumption DEF Invs, ClockTypeOK, Plan
<1>2. PlanInv'
  BY <1>1 DEF Invs, PlanInv, RatesStay, Fresh, Decided
<1>3. ASSUME NEW r \in {Free} \cup Missed \cup Answer, NEW c \in {Free} \cup Entry,
             lookup' = [lookup EXCEPT ![q] = r], cache' = c,
             r.pc \in {"missed", "read"} => r.at <= now,
             r.pc = "read" => Recent(r.tier, r.over, r.at),
             c.pc = "kept" =>
                /\ c.end <= now + FeatureLife
                /\ \/ <<c.tier, c.over>> = <<plan.tier, plan.over>>
                   \/ c.end <= changed + FeatureLife
      PROVE  PlanTypeOK' /\ CacheInv'
  <2>1. PlanTypeOK'
    BY <1>1, <1>3 DEF Invs, PlanTypeOK, Missed, Answer, Entry
  <2>2. \A p \in Lookups : lookup'[p] = lookup[p] \/ lookup'[p] = r
    BY <1>1, <1>3
  <2> QED
    BY <1>1, <1>3, <2>1, <2>2 DEF Invs, CacheInv, Recent
<1>4. CASE Lookup(q)
  <2> DEFINE r == [pc |-> "missed", at |-> now]
  <2>1. r \in Missed /\ r.pc = "missed" /\ r.at <= now
    BY <1>1 DEF Missed
  <2>2. lookup' = [lookup EXCEPT ![q] = r] /\ cache' = cache
    BY <1>4 DEF Lookup
  <2> HIDE DEF r
  <2> QED
    BY <1>1, <1>2, <1>3, <2>1, <2>2 DEF Invs, CacheInv
<1>5. CASE ReadPlan(q)
  <2> DEFINE r == [pc |-> "read", at |-> lookup[q].at, tier |-> plan.tier, over |-> plan.over]
  <2>1. lookup[q].at \in Nat /\ lookup[q].at <= now
    BY <1>1, <1>5, Shapes DEF ReadPlan, Missed, Invs, CacheInv
  <2>2. r \in Answer /\ r.at <= now /\ Recent(r.tier, r.over, r.at)
    BY <1>1, <2>1 DEF Answer, Recent
  <2>3. lookup' = [lookup EXCEPT ![q] = r] /\ cache' = cache
    BY <1>5 DEF ReadPlan
  <2> HIDE DEF r
  <2> QED
    BY <1>1, <1>2, <1>3, <2>2, <2>3 DEF Invs, CacheInv
<1>6. CASE Remember(q)
  <2> DEFINE a == lookup[q]
             c == [pc |-> "kept", tier |-> a.tier, over |-> a.over, end |-> a.at + FeatureLife]
  <2>1. a \in Answer /\ a.at <= now /\ Recent(a.tier, a.over, a.at)
    BY <1>1, <1>6, Shapes DEF Remember, Invs, CacheInv
  <2>2. c \in Entry
    BY <2>1, TenantPlanAssumption DEF Answer, Entry
  <2>3. /\ c.end <= now + FeatureLife
        /\ \/ <<c.tier, c.over>> = <<plan.tier, plan.over>>
           \/ c.end <= changed + FeatureLife
    BY <1>1, <2>1, TenantPlanAssumption DEF Answer, Recent
  <2>4. lookup' = [lookup EXCEPT ![q] = Free] /\ cache' = c
    BY <1>6 DEF Remember, EntryEnd
  <2> HIDE DEF c
  <2> QED
    BY <1>1, <1>2, <1>3, <2>2, <2>3, <2>4, Shapes DEF Invs
<1> QED
  BY <1>4, <1>5, <1>6

LEMMA StopKeeps ==
    ASSUME Invs, Arrives, OfficeStops
    PROVE  Invs'
<1>1. /\ UNCHANGED <<plan, changed, granted, tangled, now>> /\ ClockTypeOK'
      /\ office' \in [Office -> {Free}] /\ lookup' \in [Lookups -> {Free}] /\ cache' = Free
  BY ClockAssumption DEF Invs, OfficeStops, Arrives, ClockTypeOK
<1>2. PlanTypeOK'
  BY <1>1 DEF Invs, PlanTypeOK
<1>3. PlanInv'
  BY <1>1 DEF Invs, PlanInv, RatesStay, Fresh
<1>4. CacheInv'
  BY <1>1, Shapes DEF CacheInv
<1> QED
  BY <1>1, <1>2, <1>3, <1>4 DEF Invs

LEMMA OutsideKeeps ==
    ASSUME Invs, Arrives \/ Tick, UNCHANGED planVars
    PROVE  Invs'
<1>1. /\ UNCHANGED <<plan, office, cache, lookup, changed, granted, tangled>>
      /\ now \in Nat /\ now' \in {now, now + 1} /\ ClockTypeOK' /\ changed \in 0..now
  BY Types, ClockAssumption DEF Invs, Arrives, Tick, planVars, ClockTypeOK
<1>2. /\ lookup \in [Lookups -> {Free} \cup Missed \cup Answer] /\ cache \in {Free} \cup Entry
  BY Types DEF Invs
<1>3. changed' \in 0..now'
  BY <1>1
<1>4. PlanTypeOK'
  BY <1>1, <1>3 DEF Invs, PlanTypeOK
<1>5. PlanInv'
  BY <1>1 DEF Invs, PlanInv, RatesStay, Fresh, Decided
<1>6. \A q \in Lookups : lookup[q].pc \in {"missed", "read"} => lookup[q].at <= now'
  BY <1>1, <1>2, Shapes DEF Invs, CacheInv, Missed, Answer
<1>7. cache.pc = "kept" => cache.end <= now' + FeatureLife
  BY <1>1, <1>2, Shapes, TenantPlanAssumption DEF Invs, CacheInv, Entry
<1>8. CacheInv'
  BY <1>1, <1>6, <1>7 DEF Invs, CacheInv, Recent
<1> QED
  BY <1>1, <1>4, <1>5, <1>8 DEF Invs

LEMMA AsksKeep ==
    ASSUME Invs, PlatformAsks \/ OwnerAsks
    PROVE  Invs'
<1>1. plan \in Plan
  BY Types DEF Invs
<1>2. ASSUME NEW h \in Office, NEW dto \in UpdateDtos, ReadForUpdate(h, dto) PROVE Invs'
  <2> DEFINE d == [pc |-> "update", dto |-> dto, row |-> plan]
  <2>1. d \in Asks /\ d.row = plan /\ Decided(d) /\ Reads(h, d)
    BY <1>1, <1>2 DEF ReadForUpdate, AllowsCommission, Asks, UpdateAsk, Decided
  <2> HIDE DEF d
  <2> QED
    BY <2>1, ReadKeeps
<1>3. ASSUME NEW h \in Office, NEW f \in Flats, ReadForSettings(h, f) PROVE Invs'
  <2> DEFINE d == [pc |-> "settings", flat |-> f, row |-> plan]
  <2>1. d \in Asks /\ d.row = plan /\ Decided(d) /\ Reads(h, d)
    BY <1>1, <1>3 DEF ReadForSettings, Asks, SettingsAsk, Decided
  <2> HIDE DEF d
  <2> QED
    BY <2>1, ReadKeeps
<1>4. ASSUME NEW h \in Office, NEW p \in {"accept", "reject"}, ReadForDecision(h, p) PROVE Invs'
  <2> DEFINE d == [pc |-> p, row |-> plan]
  <2>1. d \in Asks /\ d.row = plan /\ Decided(d) /\ Reads(h, d)
    BY <1>1, <1>4 DEF ReadForDecision, Asks, DecisionAsk, Decided
  <2> HIDE DEF d
  <2> QED
    BY <2>1, ReadKeeps
<1> QED
  BY <1>2, <1>3, <1>4 DEF PlatformAsks, OwnerAsks

LEMMA NextInvs == Invs /\ [PlanNext]_allVars => Invs'
<1> SUFFICES ASSUME Invs, [PlanNext]_allVars PROVE Invs'
  OBVIOUS
<1>1. CASE PlatformAsks \/ OwnerAsks
  BY <1>1, AsksKeep
<1>2. CASE PlanGoesOn
  BY <1>2, UpdateKeeps, SettingsKeeps, DecisionKeeps, GuardKeeps DEF PlanGoesOn
<1>3. CASE Arrives /\ OfficeStops
  BY <1>3, StopKeeps
<1>4. CASE (Arrives \/ Tick) /\ UNCHANGED planVars
  BY <1>4, OutsideKeeps
<1>5. CASE UNCHANGED allVars
  <2>1. UNCHANGED <<plan, office, cache, lookup, changed, granted, tangled, now, requests>>
    BY <1>5 DEF allVars, planVars, clockVars
  <2>2. PlanTypeOK' /\ ClockTypeOK'
    BY <2>1 DEF Invs, PlanTypeOK, ClockTypeOK
  <2>3. PlanInv' /\ CacheInv'
    BY <2>1 DEF Invs, PlanInv, RatesStay, Fresh, Decided, CacheInv, Recent
  <2> QED
    BY <2>2, <2>3 DEF Invs
<1> QED
  BY <1>1, <1>2, <1>3, <1>4, <1>5 DEF PlanNext, PlanStep

-----------------------------------------------------------------------------
\* The invariant holds of every behaviour of the plan's row.
THEOREM PlanInvariant == PlanSpec => []Invs
<1>1. Invs /\ [PlanNext]_<<planVars, clockVars>> => Invs'
  BY NextInvs DEF allVars
<1> QED
  BY InitInvs, <1>1, PTL DEF PlanSpec

\* The row, what the requests hold and the guard's cache keep their types
\* (platform-tenants.service.ts, feature.guard.ts).
THEOREM PlanTypesAlways == PlanSpec => []PlanTypeOK
<1>1. Invs => PlanTypeOK
  BY DEF Invs
<1> QED
  BY <1>1, PlanInvariant, PTL

\* No sequence of edits that do not overlap puts a tenant on commission without the
\* plan for it (platform-tenants.service.ts).
THEOREM CommissionAlwaysNeedsPlan == PlanSpec => []CommissionNeedsPlan
<1>1. Invs => CommissionNeedsPlan
  BY DEF Invs, PlanInv, CommissionNeedsPlan
<1> QED
  BY <1>1, PlanInvariant, PTL

\* The overrides are those the platform wrote, unless edits overlapped
\* (admin-settings.service.ts).
THEOREM PlanAlwaysThePlatforms == PlanSpec => []PlanIsThePlatforms
<1>1. Invs => PlanIsThePlatforms
  BY DEF Invs, PlanInv, PlanIsThePlatforms
<1> QED
  BY <1>1, PlanInvariant, PTL

\* What the guard answers from its cache is at most FeatureLife behind the plan
\* (feature.guard.ts).
THEOREM CacheAlwaysRecent == PlanSpec => []CacheIsRecent
<1>1. Invs => CacheIsRecent
  <2> SUFFICES ASSUME Invs, Kept, <<cache.tier, cache.over>> # <<plan.tier, plan.over>>
               PROVE  now - changed < FeatureLife
    BY DEF CacheIsRecent
  <2>1. cache \in {Free} \cup Entry /\ cache.pc = "kept" /\ changed \in 0..now /\ now \in Nat
    BY Types, ClockAssumption DEF Invs, Kept, ClockTypeOK
  <2>2. cache.end \in Nat /\ cache.end > now
    BY <2>1, Shapes DEF Kept, Entry
  <2>3. cache.end <= changed + FeatureLife
    BY <2>1 DEF Invs, CacheInv
  <2> QED
    BY <2>1, <2>2, <2>3, TenantPlanAssumption
<1> QED
  BY <1>1, PlanInvariant, PTL

\* A rate in force is replaced by an accepted proposal only, unless edits overlapped
\* (platform-tenants.service.ts, admin-billing.service.ts).
THEOREM RatesAlwaysChangeByConsent == PlanSpec => RateChangesByConsent
<1> DEFINE Consent ==
        plan.rate # NoRate /\ plan'.rate # plan.rate
            => \/ \E h \in Office : office[h].pc = "accept" /\ office[h].row.pending = plan'.rate
               \/ tangled'
<1>1. Invs /\ [PlanNext]_<<planVars, clockVars>> => [Consent]_<<planVars, clockVars>>
  <2> SUFFICES ASSUME Invs, PlanNext, plan.rate # NoRate, plan'.rate # plan.rate
               PROVE  \/ \E h \in Office : office[h].pc = "accept" /\ office[h].row.pending = plan'.rate
                      \/ tangled'
    OBVIOUS
  <2>1. PlanTypeOK /\ PlanInv
    BY DEF Invs
  <2>2. ASSUME NEW h \in Office, UpdateTenant(h) PROVE tangled'
    <3>1. office[h].row.rate = NoRate
      BY <2>1, <2>2, UpdateWrites
    <3>2. office[h] # Free /\ (tangled => tangled')
      BY <2>2, Shapes DEF UpdateTenant, Writes
    <3>3. office[h].row # plan
      BY <3>1
    <3> QED
      BY <2>1, <3>2, <3>3 DEF PlanInv, Fresh
  <2>3. ASSUME NEW h \in Office, UpdateSettings(h) PROVE FALSE
    BY <2>1, <2>3, SettingsWrite
  <2>4. ASSUME NEW h \in Office, AcceptCommission(h) \/ RejectCommission(h)
        PROVE  office[h].pc = "accept" /\ office[h].row.pending = plan'.rate
    BY <2>1, <2>4, DecisionWrites
  <2>5. ASSUME UNCHANGED plan PROVE FALSE
    BY <2>5
  <2>6. CASE PlatformAsks \/ OwnerAsks
    BY <2>5, <2>6 DEF PlatformAsks, OwnerAsks, ReadForUpdate, ReadForSettings, ReadForDecision, Reads
  <2>7. CASE PlanGoesOn
    BY <2>2, <2>3, <2>4, <2>5, <2>7 DEF PlanGoesOn, Lookup, ReadPlan, Remember
  <2>8. CASE (Arrives /\ OfficeStops) \/ ((Arrives \/ Tick) /\ UNCHANGED planVars)
    BY <2>5, <2>8 DEF OfficeStops, planVars
  <2> QED
    BY <2>6, <2>7, <2>8 DEF PlanNext, PlanStep
<1> QED
  BY PlanInvariant, <1>1, PTL DEF PlanSpec, RateChangesByConsent
=============================================================================
