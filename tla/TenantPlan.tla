----------------------------- MODULE TenantPlan -----------------------------
(***************************************************************************)
(* The plan of one tenant: its tier, the overrides of its features, how it *)
(* is billed and the commission it agreed to.                               *)
(*                                                                         *)
(* The platform edits the row (platform-tenants.service.ts), the tenant's   *)
(* owner edits the settings kept in the same JSON column and decides on a   *)
(* proposed commission (admin-settings.service.ts, admin-billing.service.ts). *)
(* Each of them reads the row, decides, and writes by id later.  The guard  *)
(* of the storefront's endpoints keeps what it read for FeatureLife         *)
(* (feature.guard.ts).                                                     *)
(***************************************************************************)
EXTENDS Clock, TierFeatures

CONSTANTS
    Rates,           \* commission percentages
    NoRate,
    Keys,            \* feature keys that are overridden
    CreateDtos,      \* what a tenant may be created with
    UpdateDtos,      \* what the platform may send to update it
    Keep,            \* a field an update leaves out
    Flats,           \* shipping rates an owner may set
    Office,          \* requests that may be in flight at once
    Lookups,         \* reads of the guard that may be in flight at once
    FeatureLife      \* TTL_MS of the guard's cache

ASSUME TenantPlanAssumption ==
    /\ NoRate \notin Rates /\ Keep \notin Tiers \cup Rates
    /\ Keys \subseteq FeatureKeys
    /\ FeatureLife \in Nat \ {0}
    /\ CreateDtos \subseteq [tier : Tiers, over : [Keys -> {"on", "off", "unset"}],
                             enabled : BOOLEAN, rate : Rates \cup {NoRate}]
    /\ UpdateDtos \subseteq [tier : Tiers \cup {Keep}, over : [Keys -> {"on", "off", "unset"}],
                             type : {"SUBSCRIPTION", "COMMISSION", Keep}, rate : Rates \cup {Keep}]

VARIABLES
    plan,        \* the tenant's row
    office,      \* what each request holds between its read and its write
    cache,       \* the guard's cache
    lookup,      \* reads of the guard in flight
    changed,     \* history: the instant the tier or the overrides last changed
    granted,     \* history: the overrides as the platform last wrote them
    tangled      \* history: a write fell between another request's read and write

planVars == <<plan, office, cache, lookup, changed, granted, tangled>>

Free       == [pc |-> "idle"]
Overrides  == [Keys -> {"on", "off", "unset"}]
Plan       == [tier : Tiers, over : Overrides, flat : Flats \cup {0},
               type : {"SUBSCRIPTION", "COMMISSION"}, enabled : BOOLEAN,
               rate : Rates \cup {NoRate}, pending : Rates \cup {NoRate}]

\* commissionEnabled at the creation, with PRO or BUSINESS only; with a rate the
\* tenant starts on commission.
MayCreate(dto) == dto.enabled => dto.tier # "STARTER"

Created(dto) ==
    LET starts == dto.enabled /\ dto.rate # NoRate IN
    [tier |-> dto.tier, over |-> dto.over, flat |-> 0,
     type |-> IF starts THEN "COMMISSION" ELSE "SUBSCRIPTION",
     enabled |-> dto.enabled,
     rate |-> IF starts THEN dto.rate ELSE NoRate,
     pending |-> NoRate]

PlanInit ==
    /\ \E dto \in CreateDtos : MayCreate(dto) /\ plan = Created(dto)
    /\ office = [h \in Office |-> Free]
    /\ cache = Free
    /\ lookup = [q \in Lookups |-> Free]
    /\ changed = 0
    /\ granted = plan.over
    /\ tangled = FALSE

PlanTypeOK ==
    /\ plan \in Plan
    /\ plan.pending # NoRate => plan.rate # NoRate
    /\ office \in [Office -> {Free}
          \cup [pc : {"update"}, dto : UpdateDtos, row : Plan]
          \cup [pc : {"settings"}, flat : Flats, row : Plan]
          \cup [pc : {"accept", "reject"}, row : Plan]]
    /\ cache \in {Free} \cup [pc : {"kept"}, tier : Tiers, over : Overrides, end : Nat]
    /\ lookup \in [Lookups -> {Free} \cup [pc : {"missed"}, at : Nat]
          \cup [pc : {"read"}, at : Nat, tier : Tiers, over : Overrides]]
    /\ changed \in 0..now
    /\ granted \in Overrides
    /\ tangled \in BOOLEAN

Holds(h, record) == office' = [office EXCEPT ![h] = record]

\* Every write of the row: it ends its request, and the history takes note.
Writes(h, row) ==
    /\ GoesOn
    /\ plan' = row
    /\ Holds(h, Free)
    /\ changed' = IF row.tier # plan.tier \/ row.over # plan.over THEN now ELSE changed
    /\ tangled' = (tangled \/ \E g \in Office \ {h} : office[g] # Free)
    /\ UNCHANGED <<cache, lookup>>

Reads(h, record) ==
    /\ Arrives
    /\ office[h] = Free
    /\ Holds(h, record)
    /\ UNCHANGED <<plan, cache, lookup, changed, granted, tangled>>

-----------------------------------------------------------------------------
(***************************************************************************)
(* The platform.                                                           *)
(***************************************************************************)

Chosen(field, stored) == IF field = Keep THEN stored ELSE field

\* Mutant: only what the request brings is checked.
AllowsWhatIsSent(dto) ==
    dto.type = "COMMISSION" => plan.enabled /\ dto.tier # "STARTER"

\* Commission must have been enabled at the creation, and the tier that results
\* must not be STARTER.
AllowsCommission(dto) ==
    Chosen(dto.type, plan.type) = "COMMISSION"
        => plan.enabled /\ Chosen(dto.tier, plan.tier) # "STARTER"

ReadForUpdate(h, dto) ==
    /\ AllowsCommission(dto)
    /\ Reads(h, [pc |-> "update", dto |-> dto, row |-> plan])

\* Overrides of the request over those that were read.
Merged(dto, read) == [k \in Keys |-> IF dto.over[k] # "unset" THEN dto.over[k] ELSE read[k]]

\* Mutant: a new rate is active at once.
NoProposal(dto, read) == dto.rate # Keep

\* The first rate is fixed directly; later ones are proposals.
FixesRate(dto, read) == dto.rate # Keep /\ read.rate = NoRate

Proposes(dto, read) == dto.rate # Keep /\ read.rate # NoRate /\ dto.rate # read.rate

\* The features that were read are written back whole, the owner's shipping rate
\* among them, with what the request sends over them.
UpdateTenant(h) ==
    LET dto  == office[h].dto
        read == office[h].row
        sent == \E k \in Keys : dto.over[k] # "unset"
        fixes == FixesRate(dto, read) IN
    /\ office[h].pc = "update"
    /\ Writes(h, [plan EXCEPT
          !.tier = Chosen(dto.tier, @),
          !.over = IF sent THEN Merged(dto, read.over) ELSE @,
          !.flat = IF sent THEN read.flat ELSE @,
          !.type = Chosen(dto.type, @),
          !.rate = IF fixes THEN dto.rate ELSE @,
          !.pending = CASE fixes -> NoRate
                        [] Proposes(dto, read) -> dto.rate
                        [] OTHER -> @])
    /\ granted' = IF sent THEN plan'.over ELSE granted

-----------------------------------------------------------------------------
(***************************************************************************)
(* The owner of the tenant.                                                *)
(***************************************************************************)

ReadForSettings(h, f) == Reads(h, [pc |-> "settings", flat |-> f, row |-> plan])

\* Mutant: the body is merged with whatever keys it brings.
AnyKey(read) == [k \in Keys |-> "on"]

\* The overrides an owner's request writes back: those it read.
KeptOverrides(read) == read.over

\* Shipping lives in the same column: it is merged over what was read.
UpdateSettings(h) ==
    /\ office[h].pc = "settings"
    /\ Writes(h, [plan EXCEPT !.over = KeptOverrides(office[h].row), !.flat = office[h].flat])
    /\ UNCHANGED granted

ReadForDecision(h, decision) ==
    /\ plan.pending # NoRate
    /\ Reads(h, [pc |-> decision, row |-> plan])

\* The proposal that was read becomes the rate, and whatever proposal there is
\* by now is gone.
AcceptCommission(h) ==
    /\ office[h].pc = "accept"
    /\ Writes(h, [plan EXCEPT !.rate = office[h].row.pending, !.pending = NoRate])
    /\ UNCHANGED granted

RejectCommission(h) ==
    /\ office[h].pc = "reject"
    /\ Writes(h, [plan EXCEPT !.pending = NoRate])
    /\ UNCHANGED granted

-----------------------------------------------------------------------------
(***************************************************************************)
(* FeatureGuard.                                                           *)
(***************************************************************************)

Kept == cache.pc = "kept" /\ cache.end > now

\* A request finds nothing in the cache, and takes the time before it reads.
Lookup(q) ==
    /\ Arrives
    /\ lookup[q] = Free
    /\ ~Kept
    /\ lookup' = [lookup EXCEPT ![q] = [pc |-> "missed", at |-> now]]
    /\ UNCHANGED <<plan, office, cache, changed, granted, tangled>>

ReadPlan(q) ==
    /\ GoesOn
    /\ lookup[q].pc = "missed"
    /\ lookup' = [lookup EXCEPT ![q] = [pc |-> "read", at |-> lookup[q].at,
                                        tier |-> plan.tier, over |-> plan.over]]
    /\ UNCHANGED <<plan, office, cache, changed, granted, tangled>>

\* Mutant: the life of the entry starts when it is stored.
EndFromNow(q) == now + FeatureLife

EntryEnd(q) == lookup[q].at + FeatureLife

Remember(q) ==
    /\ GoesOn
    /\ lookup[q].pc = "read"
    /\ cache' = [pc |-> "kept", tier |-> lookup[q].tier, over |-> lookup[q].over,
                 end |-> EntryEnd(q)]
    /\ lookup' = [lookup EXCEPT ![q] = Free]
    /\ UNCHANGED <<plan, office, changed, granted, tangled>>

\* Does the guard let a request for this feature through now?
FeatureAllows(key) ==
    IF Kept THEN HasFeature(cache.tier, cache.over, key)
            ELSE HasFeature(plan.tier, plan.over, key)

\* The process restarts: requests in flight and the cache are gone.
OfficeStops ==
    /\ office' = [h \in Office |-> Free]
    /\ lookup' = [q \in Lookups |-> Free]
    /\ cache' = Free
    /\ UNCHANGED <<plan, changed, granted, tangled>>

PlatformAsks == \E h \in Office, dto \in UpdateDtos : ReadForUpdate(h, dto)

OwnerAsks ==
    \E h \in Office :
        \/ \E f \in Flats : ReadForSettings(h, f)
        \/ \E decision \in {"accept", "reject"} : ReadForDecision(h, decision)

PlanGoesOn ==
    \/ \E h \in Office :
          UpdateTenant(h) \/ UpdateSettings(h) \/ AcceptCommission(h) \/ RejectCommission(h)
    \/ \E q \in Lookups : Lookup(q) \/ ReadPlan(q) \/ Remember(q)

PlanStep ==
    \/ PlatformAsks
    \/ OwnerAsks
    \/ PlanGoesOn

\* The other parts of the process answer requests, and time passes, on their own.
PlanNext ==
    \/ PlanStep
    \/ Arrives /\ OfficeStops
    \/ (Arrives \/ Tick) /\ UNCHANGED planVars

PlanSpec == PlanInit /\ ClockInit /\ [][PlanNext]_<<planVars, clockVars>>

-----------------------------------------------------------------------------
\* "si no se habilita ahí, la modalidad COMMISSION no puede usarse nunca"
\* (schema.prisma), and never on STARTER: no sequence of edits that do not
\* overlap, of tier and modality apart or together, gets there.
CommissionNeedsPlan ==
    \/ plan.type = "COMMISSION" => plan.enabled /\ plan.tier # "STARTER"
    \/ tangled

\* "el operador no puede auto-otorgarse límites ni flags de plan"
\* (admin-settings.service.ts): the overrides are the ones the platform wrote,
\* unless an edit was written between another's read and write.
PlanIsThePlatforms == plan.over = granted \/ tangled

\* "Cambiar el % requiere el consentimiento del dueño" (schema.prisma): a rate in
\* force is only replaced by an acceptance, and by a rate that was proposed,
\* unless edits overlapped.
RateChangesByConsent ==
    [][plan.rate # NoRate /\ plan'.rate # plan.rate
        => \/ \E h \in Office : office[h].pc = "accept" /\ office[h].row.pending = plan'.rate
           \/ tangled']_<<planVars, clockVars>>

\* What the guard answers from its cache is at most FeatureLife behind the plan,
\* however long its reads took.
CacheIsRecent ==
    Kept /\ <<cache.tier, cache.over>> # <<plan.tier, plan.over>>
        => now - changed < FeatureLife
=============================================================================
