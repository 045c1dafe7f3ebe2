--------------------------- MODULE AccountsProofs ----------------------------
(***************************************************************************)
(* Theorems about operators and customers for every value of their         *)
(* constants, and about Accounts, where both and the plan of TenantPlan run *)
(* in one process: there each of them still keeps what it keeps alone.      *)
(*                                                                         *)
(* Few of the invariants are inductive.  An owner remains because a request  *)
(* that was checked, and will take ownership from somebody, has another      *)
(* owner in sight until a change is written, and that change crosses it.     *)
(* The changes after the loss and the requests that user has in flight are   *)
(* together no more than the requests there can be, and only an owner starts *)
(* another.                                                                *)
(*                                                                         *)
(* The lock rests on what a login read still being what the row says: while *)
(* no two logins of an account overlapped, nobody else writes its attempts.  *)
(* A session is confirmed because nothing takes a confirmation back, so a    *)
(* login that read one still finds it.  The default address rests on what a  *)
(* transaction cleared still being all there was to clear.                   *)
(***************************************************************************)
EXTENDS Accounts, TenantPlanProofs, FiniteSetTheorems

(***************************************************************************)
(* Operators.                                                              *)
(***************************************************************************)
deskVars == <<operatorVars, clockVars>>

\* Checked requests leave an owner, while no change was crossed.
CheckedLeaveOne ==
    \A h \in Desk : desk[h].pc = "checked" /\ TakesOwnership(desk[h])
        => OtherOwners(desk[h].user) # {}

OwnerInv == crossed \/ (Owners # {} /\ CheckedLeaveOne)

AfterBound ==
    \A u \in Users :
        IF role[u] = "TENANT_OWNER" THEN after[u] = 0
        ELSE after[u] + Cardinality(By(u)) <= Cardinality(Desk)

-----------------------------------------------------------------------------
LEMMA DeskShape ==
    /\ Idle.pc = "idle"
    /\ \A d \in {Idle} \cup LinkAsk \cup TeamAsk :
          /\ d.pc \in {"asked", "stored", "verifying"} => d \in LinkAsk
          /\ d.pc \in {"admitted", "counting", "checked"} => d \in TeamAsk
BY DEF Idle, LinkAsk, TeamAsk

LEMMA InitTypes == OperatorsInit /\ ClockInit => OperatorsTypeOK
<1> SUFFICES ASSUME OperatorsInit, ClockInit PROVE OperatorsTypeOK
  OBVIOUS
<1>1. session \in [Users -> Nat]
  BY OperatorsAssumption DEF OperatorsInit
<1>2. now = 0 /\ linkEnd \in [Users -> Nat] /\ \A u \in Users : linkEnd[u] <= now + LinkLife
  BY OperatorsAssumption DEF OperatorsInit, ClockInit
<1>3. ClockTypeOK
  BY ClockAssumption DEF ClockInit, ClockTypeOK
<1>4. desk \in [Desk -> {Idle}] /\ \A h \in Desk : desk[h].pc = "idle"
  BY DeskShape DEF OperatorsInit
<1> QED
  BY <1>1, <1>2, <1>3, <1>4 DEF OperatorsInit, OperatorsTypeOK, Roles

\* What a step leaves of the clock.
LEMMA ClockMoves ==
    ASSUME ClockTypeOK, Arrives \/ GoesOn \/ Tick
    PROVE  ClockTypeOK' /\ now' >= now
BY ClockAssumption DEF ClockTypeOK, Arrives, GoesOn, Tick, clockVars

LEMMA NextTypes ==
    ASSUME OperatorsTypeOK, [OperatorsNext]_deskVars
    PROVE  OperatorsTypeOK'
<1>1. ASSUME Arrives \/ GoesOn \/ Tick, UNCHANGED <<linkEnd>>
      PROVE  ClockTypeOK' /\ \A u \in Users : linkEnd'[u] <= now' + LinkLife
  <2>1. ClockTypeOK' /\ now' >= now
    BY <1>1, ClockMoves DEF OperatorsTypeOK
  <2> QED
    BY <1>1, <2>1, OperatorsAssumption, ClockAssumption DEF OperatorsTypeOK, ClockTypeOK
<1>2. CASE UNCHANGED deskVars
  BY <1>2 DEF deskVars, operatorVars, clockVars, OperatorsTypeOK, ClockTypeOK
<1>3. ASSUME NEW h \in Desk, NEW u \in Users, RequestMagicLink(h, u) PROVE OperatorsTypeOK'
  BY <1>1, <1>3 DEF RequestMagicLink, Goes, OperatorsTypeOK, LinkAsk
<1>4. ASSUME NEW h \in Desk, NEW k \in Links, StoreLink(h, k) PROVE OperatorsTypeOK'
  <2>1. desk[h] \in LinkAsk /\ desk[h].user \in Users
    BY <1>4, DeskShape DEF StoreLink, OperatorsTypeOK, LinkAsk
  <2>2. ClockTypeOK' /\ now' = now
    BY <1>4 DEF StoreLink, GoesOn, clockVars, ClockTypeOK, OperatorsTypeOK
  <2>3. LinkEnd \in Nat
    BY OperatorsAssumption, ClockAssumption DEF LinkEnd, OperatorsTypeOK, ClockTypeOK
  <2> QED
    BY <1>4, <2>1, <2>2, <2>3, OperatorsAssumption, ClockAssumption
       DEF StoreLink, Goes, OperatorsTypeOK, ClockTypeOK, LinkAsk, LinkEnd
<1>5. ASSUME NEW h \in Desk, SendLink(h) PROVE OperatorsTypeOK'
  <2>1. desk[h] \in LinkAsk
    BY <1>5, DeskShape DEF SendLink, OperatorsTypeOK
  <2> QED
    BY <1>1, <1>5, <2>1, DeskShape DEF SendLink, Goes, OperatorsTypeOK, LinkAsk
<1>6. ASSUME NEW h \in Desk, NEW u \in Users, NEW k \in Links, PresentLink(h, u, k)
      PROVE OperatorsTypeOK'
  BY <1>1, <1>6 DEF PresentLink, Goes, OperatorsTypeOK, LinkAsk
<1>7. ASSUME NEW h \in Desk, ConsumeLink(h) PROVE OperatorsTypeOK'
  <2>1. desk[h] \in LinkAsk /\ desk[h].user \in Users
    BY <1>7, DeskShape DEF ConsumeLink, OperatorsTypeOK, LinkAsk
  <2>2. now + SessionLife \in Nat
    BY OperatorsAssumption, ClockAssumption DEF OperatorsTypeOK, ClockTypeOK
  <2>3. desk[h].link \in Links
    BY <1>7 DEF ConsumeLink, OperatorsTypeOK
  <2>4. uses' \in [Links -> Nat]
    BY <1>7, <2>3 DEF ConsumeLink, OperatorsTypeOK
  <2> QED
    BY <1>1, <1>7, <2>1, <2>2, <2>4, DeskShape DEF ConsumeLink, Goes, OperatorsTypeOK
<1>8. ASSUME NEW u \in Users, Impersonate(u) PROVE OperatorsTypeOK'
  <2>1. now + GuestLife \in Nat
    BY OperatorsAssumption, ClockAssumption DEF OperatorsTypeOK, ClockTypeOK
  <2> QED
    BY <1>1, <1>8, <2>1 DEF Impersonate, OperatorsTypeOK
<1>9. ASSUME NEW h \in Desk, NEW a \in Users, NEW op \in {"add", "update", "remove"},
             NEW u \in Users, NEW r \in Roles \cup {"none"}, Admit(h, a, op, u, r)
      PROVE OperatorsTypeOK'
  BY <1>1, <1>9 DEF Admit, Goes, OperatorsTypeOK, TeamAsk
<1>10. ASSUME NEW h \in Desk, Ensure(h) \/ CountOwners(h) PROVE OperatorsTypeOK'
  <2>1. desk[h] \in TeamAsk
    BY <1>10, DeskShape DEF Ensure, CountOwners, OperatorsTypeOK
  <2>2. PICK d \in {Idle} \cup TeamAsk :
           desk' = [desk EXCEPT ![h] = d] /\ d.pc \notin {"stored", "verifying"}
    <3>1. \A p \in {"counting", "checked"} : [desk[h] EXCEPT !.pc = p] \in TeamAsk
      BY <2>1 DEF TeamAsk
    <3>2. [desk[h] EXCEPT !.pc = "checked", !.drops = TRUE] \in TeamAsk
      BY <2>1 DEF TeamAsk
    <3> QED
      BY <1>10, <2>1, <3>1, <3>2, DeskShape DEF Ensure, CountOwners, Goes, TeamAsk
  <2> QED
    BY <1>1, <1>10, <2>2 DEF Ensure, CountOwners, OperatorsTypeOK
<1>11. ASSUME NEW h \in Desk, ChangeMember(h) PROVE OperatorsTypeOK'
  <2>1. desk[h] \in TeamAsk /\ desk[h].user \in Users /\ desk[h].role \in Roles \cup {"none"}
    BY <1>11, DeskShape DEF ChangeMember, OperatorsTypeOK, TeamAsk
  <2>2. role' \in [Users -> Roles \cup {"none"}] /\ crossed' \in BOOLEAN
    BY <1>11, <2>1 DEF ChangeMember, OperatorsTypeOK
  <2>3. after' \in [Users -> Nat]
    BY <1>11, <2>2 DEF ChangeMember, OperatorsTypeOK
  <2> QED
    BY <1>1, <1>11, <2>2, <2>3, DeskShape DEF ChangeMember, Goes, OperatorsTypeOK
<1>12. CASE Arrives /\ DeskStops
  BY <1>1, <1>12, DeskShape DEF DeskStops, OperatorsTypeOK
<1>13. CASE (Arrives \/ Tick) /\ UNCHANGED operatorVars
  BY <1>1, <1>13 DEF operatorVars, OperatorsTypeOK
<1> QED
  BY <1>2, <1>3, <1>4, <1>5, <1>6, <1>7, <1>8, <1>9, <1>10, <1>11, <1>12, <1>13
     DEF OperatorsNext, OperatorsStep

\* Types: what the guards and the requests in flight hold is always of its kind,
\* and no link outlives its time (auth.service.ts).
THEOREM OperatorsTypesAlways == OperatorsSpec => []OperatorsTypeOK
<1>1. OperatorsInit /\ ClockInit => OperatorsTypeOK
  BY InitTypes
<1>2. OperatorsTypeOK /\ [OperatorsNext]_deskVars => OperatorsTypeOK'
  BY NextTypes
<1> QED
  BY <1>1, <1>2, PTL DEF OperatorsSpec, deskVars

-----------------------------------------------------------------------------
(***************************************************************************)
(* An owner remains.                                                       *)
(***************************************************************************)

\* Steps that change no role and check no request.
Quiet ==
    /\ UNCHANGED <<role, crossed, after>>
    /\ \A h \in Desk : desk'[h].pc = "checked" => desk'[h] = desk[h]

\* Request h ends or goes on, and no other is touched.
OnlyRequest(h) == \A g \in Desk \ {h} : desk'[g] = desk[g]

LEMMA QuietSteps ==
    ASSUME OperatorsTypeOK, [OperatorsNext]_deskVars
    PROVE  Quiet \/ \E h \in Desk : Ensure(h) \/ CountOwners(h) \/ ChangeMember(h)
<1>1. CASE UNCHANGED deskVars
  BY <1>1 DEF deskVars, operatorVars, Quiet
<1>2. ASSUME NEW h \in Desk, NEW d, Goes(h, d), d.pc # "checked", UNCHANGED <<role, crossed, after>>
      PROVE  Quiet
  BY <1>2 DEF Goes, Quiet, OperatorsTypeOK
<1>3. ASSUME NEW h \in Desk, NEW u \in Users, RequestMagicLink(h, u) PROVE Quiet
  BY <1>2, <1>3 DEF RequestMagicLink
<1>4. ASSUME NEW h \in Desk, NEW k \in Links, StoreLink(h, k) PROVE Quiet
  BY <1>2, <1>4 DEF StoreLink
<1>5. ASSUME NEW h \in Desk, NEW u \in Users, NEW k \in Links, PresentLink(h, u, k) PROVE Quiet
  BY <1>2, <1>5 DEF PresentLink
<1>6. ASSUME NEW h \in Desk, SendLink(h) \/ ConsumeLink(h) PROVE Quiet
  BY <1>2, <1>6, DeskShape DEF SendLink, ConsumeLink
<1>7. ASSUME NEW h \in Desk, NEW a \in Users, NEW op \in {"add", "update", "remove"},
             NEW u \in Users, NEW r \in Roles \cup {"none"}, Admit(h, a, op, u, r)
      PROVE Quiet
  BY <1>2, <1>7 DEF Admit
<1>8. ASSUME NEW u \in Users, Impersonate(u) PROVE Quiet
  BY <1>8 DEF Impersonate, Quiet
<1>9. CASE Arrives /\ DeskStops
  BY <1>9, DeskShape DEF DeskStops, Quiet
<1>10. CASE (Arrives \/ Tick) /\ UNCHANGED operatorVars
  BY <1>10 DEF operatorVars, Quiet
<1> QED
  BY <1>1, <1>3, <1>4, <1>5, <1>6, <1>7, <1>8, <1>9, <1>10 DEF OperatorsNext, OperatorsStep

LEMMA OwnerStep ==
    ASSUME OperatorsTypeOK, OwnerInv, [OperatorsNext]_deskVars
    PROVE  OwnerInv'
<1>1. CASE Quiet
  BY <1>1 DEF Quiet, OwnerInv, CheckedLeaveOne, TakesOwnership, OtherOwners, Owners
<1>2. ASSUME NEW h \in Desk, Ensure(h) PROVE OwnerInv'
  <2>1. desk[h] \in TeamAsk
    BY <1>2, DeskShape DEF Ensure, OperatorsTypeOK
  <2>2. /\ OnlyRequest(h)
        /\ desk'[h].pc = "checked" =>
              ~TakesOwnership(desk[h]) /\ desk'[h].user = desk[h].user /\ desk'[h].role = desk[h].role
    <3> DEFINE pc == IF TakesOwnership(desk[h]) THEN "counting" ELSE "checked"
               d  == [desk[h] EXCEPT !.pc = pc]
    <3>1. d.pc = pc /\ d.user = desk[h].user /\ d.role = desk[h].role
      BY <2>1 DEF TeamAsk
    <3>2. desk' = [desk EXCEPT ![h] = Idle] \/ desk' = [desk EXCEPT ![h] = d]
      BY <1>2 DEF Ensure, Goes
    <3>3. desk'[h] = Idle \/ desk'[h] = d
      BY <3>2 DEF OperatorsTypeOK
    <3>4. OnlyRequest(h)
      BY <3>2 DEF OnlyRequest, OperatorsTypeOK
    <3> HIDE DEF d
    <3> QED
      BY <3>1, <3>3, <3>4, DeskShape
  <2>3. UNCHANGED <<role, crossed>>
    BY <1>2 DEF Ensure
  <2>4. TakesOwnership(desk'[h]) <=> (role[desk'[h].user] = "TENANT_OWNER" /\ desk'[h].role # "TENANT_OWNER")
    BY DEF TakesOwnership
  <2> QED
    BY <2>2, <2>3, <2>4 DEF OwnerInv, CheckedLeaveOne, TakesOwnership, OtherOwners, Owners, OnlyRequest
<1>3. ASSUME NEW h \in Desk, CountOwners(h) PROVE OwnerInv'
  <2>1. desk[h] \in TeamAsk
    BY <1>3, DeskShape DEF CountOwners, OperatorsTypeOK
  <2>2. /\ OnlyRequest(h)
        /\ desk'[h].pc = "checked" => OtherOwners(desk[h].user) # {} /\ desk'[h].user = desk[h].user
    <3> DEFINE d == [desk[h] EXCEPT !.pc = "checked", !.drops = TRUE]
    <3>1. d.user = desk[h].user
      BY <2>1 DEF TeamAsk
    <3>2. \/ desk' = [desk EXCEPT ![h] = Idle]
          \/ desk' = [desk EXCEPT ![h] = d] /\ OtherOwners(desk[h].user) # {}
      BY <1>3 DEF CountOwners, Goes
    <3>3. desk'[h] = Idle \/ (desk'[h] = d /\ OtherOwners(desk[h].user) # {})
      BY <3>2 DEF OperatorsTypeOK
    <3>4. OnlyRequest(h)
      BY <3>2 DEF OnlyRequest, OperatorsTypeOK
    <3> HIDE DEF d
    <3> QED
      BY <3>1, <3>3, <3>4, DeskShape
  <2>3. UNCHANGED <<role, crossed>>
    BY <1>3 DEF CountOwners
  <2> QED
    BY <2>2, <2>3 DEF OwnerInv, CheckedLeaveOne, TakesOwnership, OtherOwners, Owners, OnlyRequest
<1>4. ASSUME NEW h \in Desk, ChangeMember(h) PROVE OwnerInv'
  <2>1. desk[h].pc = "checked" /\ desk' = [desk EXCEPT ![h] = Idle]
    BY <1>4 DEF ChangeMember, Goes
  <2>2. CASE UNCHANGED <<role, crossed, after>>
    <3>1. Quiet
      BY <2>1, <2>2, DeskShape DEF Quiet, OperatorsTypeOK
    <3> QED
      BY <3>1, <1>1
  <2>3. CASE /\ role' = [role EXCEPT ![desk[h].user] = desk[h].role]
             /\ crossed' = (crossed \/ \E g \in Desk \ {h} : desk[g].pc \in {"counting", "checked"})
    <3> SUFFICES ASSUME ~crossed' PROVE Owners' # {} /\ CheckedLeaveOne'
      BY DEF OwnerInv
    <3>1. ~crossed /\ \A g \in Desk \ {h} : desk[g].pc # "checked"
      BY <2>3
    <3>2. CheckedLeaveOne'
      BY <2>1, <3>1, DeskShape DEF CheckedLeaveOne, OperatorsTypeOK
    <3>3. Owners # {} /\ (TakesOwnership(desk[h]) => OtherOwners(desk[h].user) # {})
      BY <2>1, <3>1 DEF OwnerInv, CheckedLeaveOne
    <3>4. desk[h].user \in Users
      BY <2>1, DeskShape DEF OperatorsTypeOK, TeamAsk
    <3>5. \A u \in Users \ {desk[h].user} : role'[u] = role[u]
      BY <2>3, <3>4 DEF OperatorsTypeOK
    <3>6. role'[desk[h].user] = desk[h].role
      BY <2>3, <3>4 DEF OperatorsTypeOK
    <3>7. Owners' # {}
      <4>1. CASE TakesOwnership(desk[h])
        BY <3>3, <3>5, <4>1 DEF OtherOwners, Owners
      <4>2. CASE desk[h].role = "TENANT_OWNER"
        BY <3>4, <3>6, <4>2 DEF Owners
      <4>3. CASE role[desk[h].user] # "TENANT_OWNER"
        BY <3>3, <3>5, <4>3 DEF Owners
      <4> QED
        BY <4>1, <4>2, <4>3 DEF TakesOwnership
    <3> QED
      BY <3>2, <3>7
  <2> QED
    BY <1>4, <2>2, <2>3 DEF ChangeMember
<1> QED
  BY <1>1, <1>2, <1>3, <1>4, QuietSteps

\* "protege que no quede el tenant sin ningún TENANT_OWNER" (members.service.ts):
\* any number of users, of requests at once and of changes keeps an owner, unless
\* a change was written between another's check and its write.
THEOREM OwnerAlwaysRemains == OperatorsSpec => []OwnerRemains
<1>1. OperatorsInit /\ ClockInit => OperatorsTypeOK /\ OwnerInv
  <2>1. OperatorsInit => OwnerInv
    BY DeskShape DEF OperatorsInit, OwnerInv, CheckedLeaveOne, Owners
  <2> QED
    BY <2>1, InitTypes
<1>2. OperatorsTypeOK /\ OwnerInv /\ [OperatorsNext]_deskVars => (OperatorsTypeOK /\ OwnerInv)'
  BY NextTypes, OwnerStep
<1>3. OwnerInv => OwnerRemains
  BY DEF OwnerInv, OwnerRemains
<1> QED
  BY <1>1, <1>2, <1>3, PTL DEF OperatorsSpec, deskVars

-----------------------------------------------------------------------------
(***************************************************************************)
(* Access ends with the role.                                              *)
(***************************************************************************)
LEMMA ByIsFinite ==
    ASSUME NEW u \in Users
    PROVE  /\ IsFiniteSet(By(u)) /\ Cardinality(By(u)) \in Nat
           /\ Cardinality(By(u)) <= Cardinality(Desk) /\ Cardinality(Desk) \in Nat
BY OperatorsAssumption, FS_Subset, FS_CardinalityType DEF By

\* A step that starts no request of u and adds no change of u keeps the bound of u.
LEMMA FewerKeepBound ==
    ASSUME OperatorsTypeOK, NEW u \in Users,
           role[u] # "TENANT_OWNER", after[u] + Cardinality(By(u)) <= Cardinality(Desk),
           By(u)' \subseteq By(u), after'[u] = after[u]
    PROVE  (after[u] + Cardinality(By(u)))' <= Cardinality(Desk)
<1>1. IsFiniteSet(By(u)) /\ Cardinality(By(u)) \in Nat /\ Cardinality(Desk) \in Nat
  BY ByIsFinite
<1>2. Cardinality(By(u)') <= Cardinality(By(u)) /\ Cardinality(By(u)') \in Nat
  BY <1>1, FS_Subset, FS_CardinalityType
<1>3. after[u] \in Nat
  BY DEF OperatorsTypeOK
<1> QED
  BY <1>1, <1>2, <1>3

\* Steps that change no role start requests of owners only.
LEMMA RequestsOfOwners ==
    ASSUME OperatorsTypeOK, [OperatorsNext]_deskVars, UNCHANGED <<role, after>>, NEW u \in Users,
           role[u] # "TENANT_OWNER"
    PROVE  By(u)' \subseteq By(u)
<1>1. ASSUME NEW h \in Desk, NEW d, desk' = [desk EXCEPT ![h] = d], InFlight(d, u) => InFlight(desk[h], u)
      PROVE  By(u)' \subseteq By(u)
  BY <1>1 DEF By, OperatorsTypeOK
<1>2. CASE UNCHANGED desk
  BY <1>2 DEF By
<1>3. CASE desk' = [h \in Desk |-> Idle]
  BY <1>3, DeskShape DEF By, InFlight
<1>4. ASSUME NEW h \in Desk, NEW w \in Users, RequestMagicLink(h, w) PROVE By(u)' \subseteq By(u)
  BY <1>1, <1>4 DEF RequestMagicLink, Goes, InFlight
<1>5. ASSUME NEW h \in Desk, NEW k \in Links, StoreLink(h, k) PROVE By(u)' \subseteq By(u)
  BY <1>1, <1>5 DEF StoreLink, Goes, InFlight
<1>6. ASSUME NEW h \in Desk, NEW w \in Users, NEW k \in Links, PresentLink(h, w, k)
      PROVE By(u)' \subseteq By(u)
  BY <1>1, <1>6 DEF PresentLink, Goes, InFlight
<1>7. ASSUME NEW h \in Desk, SendLink(h) \/ ConsumeLink(h) \/ ChangeMember(h)
      PROVE By(u)' \subseteq By(u)
  BY <1>1, <1>7, DeskShape DEF SendLink, ConsumeLink, ChangeMember, Goes, InFlight
<1>8. ASSUME NEW h \in Desk, NEW a \in Users, NEW op \in {"add", "update", "remove"},
             NEW w \in Users, NEW r \in Roles \cup {"none"}, Admit(h, a, op, w, r)
      PROVE By(u)' \subseteq By(u)
  <2>1. a # u
    <3>1. Rank(role[a]) >= 2
      BY <1>8 DEF Admit, Passes, Rank
    <3>2. role[u] \in {"TENANT_EDITOR", "TENANT_ORDERS", "none"}
      BY DEF OperatorsTypeOK, Roles
    <3>3. Rank(role[u]) \in {0, 1}
      BY <3>2 DEF Rank
    <3> QED
      BY <3>1, <3>3
  <2> QED
    BY <1>1, <1>8, <2>1 DEF Admit, Goes, InFlight
<1>9. ASSUME NEW h \in Desk, Ensure(h) \/ CountOwners(h) PROVE By(u)' \subseteq By(u)
  <2>1. desk[h] \in TeamAsk /\ desk[h].pc \in {"admitted", "counting", "checked"}
    BY <1>9, DeskShape DEF Ensure, CountOwners, OperatorsTypeOK
  <2>2. PICK d : desk' = [desk EXCEPT ![h] = d] /\ (d = Idle \/ d.by = desk[h].by)
    <3>1. \A p \in {"counting", "checked"} : [desk[h] EXCEPT !.pc = p].by = desk[h].by
      BY <2>1 DEF TeamAsk
    <3>2. [desk[h] EXCEPT !.pc = "checked", !.drops = TRUE].by = desk[h].by
      BY <2>1 DEF TeamAsk
    <3> QED
      BY <1>9, <3>1, <3>2 DEF Ensure, CountOwners, Goes
  <2> QED
    BY <1>1, <2>1, <2>2, DeskShape DEF InFlight
<1> QED
  BY <1>2, <1>3, <1>4, <1>5, <1>6, <1>7, <1>8, <1>9
     DEF OperatorsNext, OperatorsStep, Impersonate, DeskStops, deskVars, operatorVars

LEMMA AfterStep ==
    ASSUME OperatorsTypeOK, AfterBound, [OperatorsNext]_deskVars
    PROVE  AfterBound'
<1> SUFFICES ASSUME NEW u \in Users
             PROVE  IF role'[u] = "TENANT_OWNER" THEN after'[u] = 0
                    ELSE (after[u] + Cardinality(By(u)))' <= Cardinality(Desk)
  BY DEF AfterBound
<1>1. CASE UNCHANGED <<role, after>>
  BY <1>1, RequestsOfOwners, FewerKeepBound DEF AfterBound
<1>2. ASSUME NEW h \in Desk, ChangeMember(h), ~UNCHANGED <<role, after>>
      PROVE  IF role'[u] = "TENANT_OWNER" THEN after'[u] = 0
             ELSE (after[u] + Cardinality(By(u)))' <= Cardinality(Desk)
  <2>1. desk[h] \in TeamAsk /\ desk[h].pc = "checked" /\ desk' = [desk EXCEPT ![h] = Idle]
    BY <1>2, DeskShape DEF ChangeMember, Goes, OperatorsTypeOK
  <2>2. /\ role' = [role EXCEPT ![desk[h].user] = desk[h].role]
        /\ after' = [w \in Users |->
              CASE role'[w] = "TENANT_OWNER" -> 0
                [] w = desk[h].by /\ role'[w] # "TENANT_OWNER" -> after[w] + 1
                [] OTHER -> after[w]]
    BY <1>2 DEF ChangeMember
  <2>3. CASE role'[u] = "TENANT_OWNER"
    BY <2>2, <2>3
  <2>4. CASE role'[u] # "TENANT_OWNER"
    <3>1. By(u)' \subseteq By(u) \ {h}
      BY <2>1, DeskShape DEF By, InFlight, OperatorsTypeOK
    <3>2. /\ IsFiniteSet(By(u)) /\ Cardinality(By(u)) \in Nat
          /\ Cardinality(By(u)) <= Cardinality(Desk) /\ Cardinality(Desk) \in Nat
      BY ByIsFinite
    <3>3. Cardinality(By(u)') \in Nat /\ Cardinality(By(u)') <= Cardinality(By(u))
      BY <3>1, <3>2, FS_Subset, FS_CardinalityType
    <3>4. u = desk[h].by => Cardinality(By(u)') <= Cardinality(By(u)) - 1
      <4>1. SUFFICES ASSUME u = desk[h].by PROVE Cardinality(By(u)') <= Cardinality(By(u)) - 1
        OBVIOUS
      <4>2. h \in By(u)
        BY <2>1, <4>1 DEF By, InFlight
      <4>3. IsFiniteSet(By(u) \ {h}) /\ Cardinality(By(u) \ {h}) = Cardinality(By(u)) - 1
        BY <3>2, <4>2, FS_RemoveElement
      <4> QED
        BY <3>1, <4>3, FS_Subset
    <3>5. after[u] \in Nat /\ after[u] + Cardinality(By(u)) <= Cardinality(Desk)
      BY <3>2 DEF AfterBound, OperatorsTypeOK
    <3>6. after'[u] = IF u = desk[h].by THEN after[u] + 1 ELSE after[u]
      BY <2>2, <2>4
    <3> QED
      BY <2>4, <3>2, <3>3, <3>4, <3>5, <3>6
  <2> QED
    BY <2>3, <2>4
<1> QED
  BY <1>1, <1>2, QuietSteps DEF Quiet, Ensure, CountOwners

\* A guard reads the role on every request (roles.guard.ts): the changes of whoever
\* lost ownership and the requests still in flight are together no more than there
\* may be, however long the session lasts.
THEOREM AccessAlwaysEnds == OperatorsSpec => []AccessEndsWithRole
<1>1. OperatorsInit /\ ClockInit => OperatorsTypeOK /\ AfterBound
  <2>1. ASSUME OperatorsInit, ClockInit PROVE AfterBound
    <3>1. \A u \in Users : after[u] = 0
      BY <2>1 DEF OperatorsInit
    <3> QED
      BY <3>1, ByIsFinite DEF AfterBound
  <2> QED
    BY <2>1, InitTypes
<1>2. OperatorsTypeOK /\ AfterBound /\ [OperatorsNext]_deskVars => (OperatorsTypeOK /\ AfterBound)'
  BY NextTypes, AfterStep
<1>3. OperatorsTypeOK /\ AfterBound => AccessEndsWithRole
  BY ByIsFinite DEF AfterBound, AccessEndsWithRole, OperatorsTypeOK
<1> QED
  BY <1>1, <1>2, <1>3, PTL DEF OperatorsSpec, deskVars

-----------------------------------------------------------------------------
(***************************************************************************)
(* Customers.                                                              *)
(***************************************************************************)
counterVars == <<customerVars, clockVars>>

\* A row that does not exist says nothing.
AbsentIsEmpty == \A e \in Emails : ~account[e].exists => account[e] = NoAccount

\* A login goes on with an account that is confirmed, a verification with one that
\* exists.
LoginsConfirmed ==
    \A h \in Counter :
        /\ counter[h].pc = "login" => account[counter[h].email].confirmed
        /\ counter[h].pc = "verify" => account[counter[h].email].exists

BaseInv == CustomersTypeOK /\ ClockTypeOK /\ AbsentIsEmpty /\ LoginsConfirmed

\* What a login read of the attempts is what the row says.
ReadIsCurrent ==
    \A h \in Counter : counter[h].pc = "login" /\ counter[h].email \notin mixed =>
        /\ counter[h].row.failed = account[counter[h].email].failed
        /\ counter[h].row.lockedUntil = account[counter[h].email].lockedUntil

\* What a transaction cleared is all there is to clear.
ClearedAll ==
    \A h \in Counter : counter[h].pc = "saving" /\ counter[h].makes =>
        default \ counter[h].clears \subseteq {counter[h].address}

DefaultInv == twoAtOnce \/ ((\A a, b \in default : a = b) /\ ClearedAll)

-----------------------------------------------------------------------------
Emailed == [pc : {"register", "mail", "verify"}, email : Emails]
Login   == [pc : {"login"}, email : Emails, right : BOOLEAN, row : Account]
Change  == [pc : {"change"}, address : Addresses, makes : BOOLEAN, removes : BOOLEAN]
Saving  == [pc : {"saving"}, address : Addresses, makes : BOOLEAN, new : BOOLEAN,
            clears : SUBSET Addresses]
Records == {Waiting} \cup Emailed \cup Login \cup Change \cup Saving

LEMMA RecordShape ==
    /\ Waiting.pc = "idle"
    /\ \A c \in Records :
          /\ c.pc \in {"register", "mail", "verify"} => c \in Emailed
          /\ c.pc = "login" => c \in Login
          /\ c.pc = "change" => c \in Change
          /\ c.pc = "saving" => c \in Saving
BY DEF Records, Waiting, Emailed, Login, Change, Saving

LEMMA CounterType == CustomersTypeOK => counter \in [Counter -> Records]
BY DEF CustomersTypeOK, Records, Emailed, Login, Change, Saving

LEMMA AccountRows ==
    /\ NoAccount \in Account /\ ConfirmedAccount \in Account
    /\ ~NoAccount.exists /\ ~NoAccount.password /\ ~NoAccount.confirmed /\ ~NoAccount.token
    /\ NoAccount.failed = 0 /\ NoAccount.lockedUntil = 0
    /\ ConfirmedAccount.exists /\ ConfirmedAccount.confirmed /\ ConfirmedAccount.password
    /\ ~ConfirmedAccount.token
    /\ ConfirmedAccount.failed = 0 /\ ConfirmedAccount.lockedUntil = 0
BY DEF NoAccount, ConfirmedAccount, Account

-----------------------------------------------------------------------------
(***************************************************************************)
(* A step changes one row at most, one request at most or stops them all,  *)
(* and addresses on their own.                                              *)
(***************************************************************************)

\* What every change of a row keeps, and what it may say of the attempts.
RowMoves(e, row) ==
    /\ row \in Account
    /\ row.exists
    /\ account[e].confirmed => row.confirmed
    /\ row.token => row.password
    /\ row.failed > 0 => row.confirmed

\* The step leaves the rows of the accounts, or changes that of e in this way.
RowsMove == UNCHANGED account \/ \E e \in Emails, row \in Account : Row(e, row) /\ RowMoves(e, row)

\* The requests go on with records of their kind; a login is one that goes on, or
\* has just read its account.
RequestsMove ==
    /\ counter' \in [Counter -> Records]
    /\ \A h \in Counter : counter'[h].pc = "login" =>
          \/ counter'[h] = counter[h]
          \/ /\ MayLogin(counter'[h].email)
             /\ counter'[h].row = account[counter'[h].email]
             /\ UNCHANGED <<account, mixed>>
    /\ \A h \in Counter : counter'[h].pc = "verify" =>
          counter'[h] = counter[h] \/ (TokenFound(counter'[h].email) /\ UNCHANGED account)

LEMMA ServeMoves ==
    ASSUME CustomersTypeOK, NEW h \in Counter, NEW c \in Records, Serve(h, c), c.pc \notin {"login", "verify"}
    PROVE  RequestsMove
BY CounterType DEF Serve, RequestsMove

LEMMA StopMoves ==
    ASSUME CustomersTypeOK, counter' = [h \in Counter |-> Waiting]
    PROVE  RequestsMove
BY RecordShape DEF RequestsMove, Records

LEMMA SameRequests ==
    ASSUME CustomersTypeOK, UNCHANGED counter
    PROVE  RequestsMove
BY CounterType DEF RequestsMove

LEMMA AccountStepMoves ==
    ASSUME BaseInv, NEW h \in Counter,
           \/ \E e \in Emails : Register(h, e) \/ VerifyEmail(h, e)
           \/ CreateAccount(h) \/ SendVerification(h) \/ Confirm(h)
    PROVE  RowsMove /\ RequestsMove
<1>1. ASSUME NEW e \in Emails, Register(h, e) PROVE RowsMove /\ RequestsMove
  <2>1. PICK c \in Records : c.pc = "register" /\ Serve(h, c)
    BY <1>1 DEF Register, Begins, Records, Emailed
  <2> QED
    BY <1>1, <2>1, ServeMoves DEF Register, RowsMove, BaseInv
<1>2. ASSUME NEW e \in Emails, VerifyEmail(h, e) PROVE RowsMove /\ RequestsMove
  <2>1. PICK c \in Records : c.pc = "verify" /\ c.email = e /\ Serve(h, c)
    BY <1>2 DEF VerifyEmail, Begins, Records, Emailed
  <2> QED
    BY <1>2, <2>1, CounterType DEF VerifyEmail, RowsMove, BaseInv, RequestsMove, Serve
<1>3. CASE CreateAccount(h)
  <2>1. counter[h] \in Emailed /\ counter[h].email \in Emails
    BY <1>3, RecordShape, CounterType DEF CreateAccount, BaseInv, Emailed
  <2> DEFINE e == counter[h].email
             row == [NoAccount EXCEPT !.exists = TRUE, !.password = TRUE, !.token = TRUE,
                                      !.tokenEnd = now + VerifyLife]
  <2>2. PICK c \in Records : c.pc \in {"idle", "mail"} /\ Serve(h, c)
    BY <1>3, <2>1, RecordShape DEF CreateAccount, Records, Emailed
  <2>3. now + VerifyLife \in Nat
    BY CustomersAssumption, ClockAssumption DEF BaseInv, ClockTypeOK
  <2>4. /\ row \in Account /\ row.exists /\ row.password /\ row.failed = 0
    BY <2>3 DEF NoAccount, Account
  <2>5. UNCHANGED account \/ (~account[e].exists /\ Row(e, row))
    BY <1>3 DEF CreateAccount
  <2>6. ~account[e].exists => ~account[e].confirmed
    BY <2>1, AccountRows DEF BaseInv, AbsentIsEmpty
  <2> HIDE DEF row
  <2>7. RowsMove
    BY <2>1, <2>4, <2>5, <2>6 DEF RowsMove, RowMoves
  <2> QED
    BY <2>2, <2>7, ServeMoves DEF BaseInv
<1>4. CASE SendVerification(h)
  BY <1>4, ServeMoves, RecordShape DEF SendVerification, RowsMove, BaseInv, Records
<1>5. CASE Confirm(h)
  <2>1. counter[h] \in Emailed /\ counter[h].email \in Emails
    BY <1>5, RecordShape, CounterType DEF Confirm, BaseInv, Emailed
  <2> DEFINE e == counter[h].email
             row == [account[e] EXCEPT !.confirmed = TRUE, !.token = FALSE, !.tokenEnd = 0]
  <2>2. account[e] \in Account /\ account[e].exists
    BY <1>5, <2>1 DEF BaseInv, CustomersTypeOK, Confirm, LoginsConfirmed
  <2>3. row \in Account /\ row.confirmed /\ ~row.token /\ row.exists
    BY <2>2 DEF Account
  <2>4. Row(e, row) /\ Serve(h, Waiting)
    BY <1>5 DEF Confirm
  <2> HIDE DEF row
  <2>5. RowsMove
    BY <2>1, <2>3, <2>4 DEF RowsMove, RowMoves
  <2> QED
    BY <2>4, <2>5, ServeMoves, RecordShape DEF BaseInv, Records
<1> QED
  BY <1>1, <1>2, <1>3, <1>4, <1>5

LEMMA VouchedMoves ==
    ASSUME BaseInv, NEW e \in Emails, SyncNeonCustomer(e) \/ CustomerOfReview(e)
    PROVE  RowsMove /\ RequestsMove
<1>1. account[e] \in Account /\ (account[e].token => account[e].password)
      /\ (account[e].failed > 0 => account[e].confirmed)
  BY DEF BaseInv, CustomersTypeOK
<1> DEFINE v == [account[e] EXCEPT !.exists = TRUE, !.confirmed = TRUE]
           r == [account[e] EXCEPT !.exists = TRUE]
<1>2. RowMoves(e, v) /\ RowMoves(e, r)
  <2>1. v \in Account /\ v.exists /\ v.confirmed /\ v.token = account[e].token
        /\ v.password = account[e].password
    BY <1>1 DEF Account
  <2>2. r \in Account /\ r.exists /\ r.confirmed = account[e].confirmed
        /\ r.token = account[e].token /\ r.password = account[e].password
        /\ r.failed = account[e].failed
    BY <1>1 DEF Account
  <2> HIDE DEF v, r
  <2> QED
    BY <1>1, <2>1, <2>2 DEF RowMoves
<1>3. Row(e, v) \/ Row(e, r)
  BY DEF SyncNeonCustomer, VouchedRow, CustomerOfReview
<1> HIDE DEF v, r
<1>4. RowsMove
  BY <1>2, <1>3 DEF RowsMove, RowMoves
<1> QED
  BY <1>4, SameRequests DEF SyncNeonCustomer, CustomerOfReview, BaseInv

LEMMA LoginMoves ==
    ASSUME BaseInv, NEW h \in Counter,
           (\E e \in Emails, right \in BOOLEAN : ReadForLogin(h, e, right))
              \/ WrongPassword(h) \/ RightPassword(h)
    PROVE  RowsMove /\ RequestsMove
<1>1. ASSUME NEW e \in Emails, NEW right \in BOOLEAN, ReadForLogin(h, e, right)
      PROVE  RowsMove /\ RequestsMove
  <2>1. account[e] \in Account
    BY DEF BaseInv, CustomersTypeOK
  <2>2. PICK c \in Records : /\ c.pc = "login" /\ c.email = e /\ c.row = account[e]
                             /\ Serve(h, c)
    BY <1>1, <2>1 DEF ReadForLogin, Begins, Records, Login
  <2>3. MayLogin(e) /\ UNCHANGED <<account, mixed>>
    BY <1>1 DEF ReadForLogin, loginHistory
  <2> QED
    BY <2>2, <2>3, CounterType DEF RowsMove, RequestsMove, BaseInv, Serve
<1>2. ASSUME WrongPassword(h) \/ RightPassword(h)
      PROVE  RowsMove /\ RequestsMove
  <2>1. counter[h] \in Login /\ counter[h].email \in Emails /\ counter[h].row \in Account
    BY <1>2, RecordShape, CounterType DEF WrongPassword, RightPassword, BaseInv, Login
  <2> DEFINE e == counter[h].email
             attempts == counter[h].row.failed + 1
             until == IF TooMany(attempts) THEN now + LockLife ELSE 0
             w == [account[e] EXCEPT !.failed = attempts, !.lockedUntil = until]
             r == [account[e] EXCEPT !.failed = 0, !.lockedUntil = 0]
  <2>2. /\ account[e] \in Account /\ account[e].confirmed /\ account[e].exists
        /\ account[e].token => account[e].password
    BY <1>2, <2>1, AccountRows
       DEF BaseInv, CustomersTypeOK, AbsentIsEmpty, LoginsConfirmed, WrongPassword, RightPassword
  <2>3. attempts \in Nat /\ until \in Nat
    BY <2>1, CustomersAssumption, ClockAssumption DEF BaseInv, ClockTypeOK, Account
  <2>4. UNCHANGED account \/ Row(e, w) \/ Row(e, r)
    BY <1>2 DEF WrongPassword, RightPassword
  <2> HIDE DEF attempts, until
  <2>5. RowMoves(e, w) /\ RowMoves(e, r)
    <3>1. w \in Account /\ w.exists /\ w.confirmed /\ w.token = account[e].token
          /\ w.password = account[e].password
      BY <2>2, <2>3 DEF Account
    <3>2. r \in Account /\ r.exists /\ r.confirmed /\ r.token = account[e].token
          /\ r.password = account[e].password
      BY <2>2 DEF Account
    <3> HIDE DEF w, r
    <3> QED
      BY <2>2, <3>1, <3>2 DEF RowMoves
  <2> HIDE DEF w, r
  <2>6. RowsMove
    BY <2>1, <2>4, <2>5 DEF RowsMove, RowMoves
  <2> QED
    BY <1>2, <2>6, ServeMoves, RecordShape DEF WrongPassword, RightPassword, BaseInv, Records
<1> QED
  BY <1>1, <1>2

LEMMA AddressMoves ==
    ASSUME BaseInv, NEW h \in Counter,
           \/ \E a \in Addresses, makes \in BOOLEAN :
                 \/ CreateAddress(h, a, makes)
                 \/ \E removes \in BOOLEAN : FindAddress(h, a, makes, removes)
           \/ UpdateAddress(h) \/ SaveAddress(h) \/ RemoveAddress(h)
    PROVE  RowsMove /\ RequestsMove
<1>1. \A a, makes : Clears(a, makes) \in SUBSET Addresses
  BY DEF Clears, BaseInv, CustomersTypeOK
<1>2. PICK c \in Records : c.pc \notin {"login", "verify"} /\ Serve(h, c)
  <2>1. ASSUME NEW a \in Addresses, NEW makes \in BOOLEAN, CreateAddress(h, a, makes)
        PROVE \E c \in Records : c.pc \notin {"login", "verify"} /\ Serve(h, c)
    BY <1>1, <2>1 DEF CreateAddress, Begins, Records, Saving
  <2>2. ASSUME NEW a \in Addresses, NEW makes \in BOOLEAN, NEW removes \in BOOLEAN,
               FindAddress(h, a, makes, removes)
        PROVE \E c \in Records : c.pc \notin {"login", "verify"} /\ Serve(h, c)
    BY <2>2 DEF FindAddress, Begins, Records, Change
  <2>3. ASSUME UpdateAddress(h)
        PROVE \E c \in Records : c.pc \notin {"login", "verify"} /\ Serve(h, c)
    <3>1. counter[h] \in Change
      BY <2>3, RecordShape, CounterType DEF UpdateAddress, BaseInv
    <3> QED
      BY <1>1, <2>3, <3>1 DEF UpdateAddress, Records, Saving, Change
  <2>4. ASSUME SaveAddress(h) \/ RemoveAddress(h)
        PROVE \E c \in Records : c.pc \notin {"login", "verify"} /\ Serve(h, c)
    BY <2>4, RecordShape DEF SaveAddress, RemoveAddress, Records
  <2> QED
    BY <2>1, <2>2, <2>3, <2>4
<1>3. UNCHANGED account
  BY DEF CreateAddress, FindAddress, UpdateAddress, SaveAddress, RemoveAddress
<1> QED
  BY <1>2, <1>3, ServeMoves DEF RowsMove, BaseInv

LEMMA StepMoves ==
    ASSUME BaseInv, [CustomersNext]_counterVars
    PROVE  RowsMove /\ RequestsMove
<1>1. CASE UNCHANGED customerVars
  BY <1>1, SameRequests DEF customerVars, RowsMove, BaseInv
<1>2. CASE Arrives /\ CounterStops
  BY <1>2, StopMoves DEF CounterStops, RowsMove, BaseInv
<1> QED
  BY <1>1, <1>2, AccountStepMoves, VouchedMoves, LoginMoves, AddressMoves
     DEF CustomersNext, CustomersStep, AccountsAsk, CustomersGoOn, counterVars

-----------------------------------------------------------------------------
(***************************************************************************)
(* Types.                                                                  *)
(***************************************************************************)
LEMMA InitBase == CustomersInit /\ ClockInit => BaseInv
<1> SUFFICES ASSUME CustomersInit, ClockInit PROVE BaseInv
  OBVIOUS
<1>1. \A e \in Emails : account[e] \in {NoAccount, ConfirmedAccount}
  BY DEF CustomersInit
<1>2. \A h \in Counter : counter[h].pc = "idle"
  BY RecordShape DEF CustomersInit
<1>3. account \in [Emails -> Account]
  BY AccountRows DEF CustomersInit
<1>4. \A e \in Emails : ~account[e].token /\ account[e].failed = 0
  BY <1>1, AccountRows
<1>5. counter \in [Counter -> {Waiting}]
  BY DEF CustomersInit
<1>6. counter \in [Counter -> Records]
  BY <1>5 DEF Records
<1>7. /\ wrong \in [Emails -> Nat] /\ lastWrong \in [Emails -> Nat] /\ verified \in [Emails -> Nat]
      /\ inbox = {} /\ signedIn \in SUBSET Emails /\ saved = {} /\ default = {} /\ mixed = {} /\ twoAtOnce = FALSE
  BY DEF CustomersInit
<1>8. \A e \in Emails : /\ account[e].token => account[e].password
                        /\ account[e].failed > 0 => account[e].confirmed
  BY <1>4
<1>9. /\ inbox \in SUBSET Emails /\ signedIn \in SUBSET Emails /\ mixed \in SUBSET Emails
      /\ saved \in SUBSET Addresses /\ default \in SUBSET saved /\ twoAtOnce \in BOOLEAN
  BY <1>7
<1>10. /\ wrong \in [Emails -> Nat] /\ lastWrong \in [Emails -> Nat] /\ verified \in [Emails -> Nat]
  BY <1>7
<1>11. counter \in [Counter -> {Waiting}
          \cup [pc : {"register", "mail", "verify"}, email : Emails]
          \cup [pc : {"login"}, email : Emails, right : BOOLEAN, row : Account]
          \cup [pc : {"change"}, address : Addresses, makes : BOOLEAN, removes : BOOLEAN]
          \cup [pc : {"saving"}, address : Addresses, makes : BOOLEAN, new : BOOLEAN,
                clears : SUBSET Addresses]]
  BY <1>5
<1>12. CustomersTypeOK
  BY <1>3, <1>8, <1>9, <1>10, <1>11 DEF CustomersTypeOK
<1>13. ClockTypeOK
  BY ClockAssumption DEF ClockInit, ClockTypeOK
<1> QED
  BY <1>1, <1>2, <1>12, <1>13, AccountRows DEF BaseInv, AbsentIsEmpty, LoginsConfirmed

LEMMA BaseStep ==
    ASSUME BaseInv, [CustomersNext]_counterVars
    PROVE  BaseInv'
<1>1. RowsMove /\ RequestsMove
  BY StepMoves
<1>2. /\ account' \in [Emails -> Account]
      /\ \A e \in Emails :
            /\ account'[e].token => account'[e].password
            /\ account'[e].failed > 0 => account'[e].confirmed
            /\ account[e].confirmed => account'[e].confirmed
            /\ account[e].exists => account'[e].exists
            /\ ~account'[e].exists => account'[e] = account[e]
  BY <1>1 DEF RowsMove, RowMoves, Row, BaseInv, CustomersTypeOK
<1>3. LoginsConfirmed'
  <2> SUFFICES ASSUME NEW h \in Counter
               PROVE  /\ counter'[h].pc = "login" => account'[counter'[h].email].confirmed
                      /\ counter'[h].pc = "verify" => account'[counter'[h].email].exists
    BY DEF LoginsConfirmed
  <2>1. counter'[h].pc \in {"login", "verify"} => counter'[h].email \in Emails
    BY <1>1, RecordShape DEF RequestsMove, Login, Emailed
  <2>2. \A e \in Emails : TokenFound(e) => account[e].exists
    BY AccountRows DEF BaseInv, AbsentIsEmpty, TokenFound
  <2> QED
    BY <1>1, <1>2, <2>1, <2>2 DEF BaseInv, LoginsConfirmed, RequestsMove, MayLogin
<1>4. AbsentIsEmpty'
  BY <1>2 DEF BaseInv, AbsentIsEmpty
<1>5. ClockTypeOK'
  <2>1. Arrives \/ GoesOn \/ Tick
    BY DEF CustomersNext, CustomersStep, AccountsAsk, CustomersGoOn, counterVars, GoesOn,
           Register, ReadForLogin, SyncNeonCustomer, VerifyEmail, CreateAddress, FindAddress,
           CreateAccount, SendVerification, Confirm, WrongPassword, RightPassword,
           UpdateAddress, SaveAddress, RemoveAddress, CustomerOfReview, Begins
  <2> QED
    BY <2>1, ClockMoves DEF BaseInv
<1>6. inbox' \in SUBSET Emails /\ signedIn' \in SUBSET Emails /\ mixed' \in SUBSET Emails
      /\ verified' \in [Emails -> Nat] /\ wrong' \in [Emails -> Nat] /\ lastWrong' \in [Emails -> Nat]
  <2>1. \A h \in Counter : counter[h].pc \in {"mail", "verify", "login"} => counter[h].email \in Emails
    BY RecordShape, CounterType DEF BaseInv, Emailed, Login
  <2>2. now \in Nat
    BY ClockAssumption DEF BaseInv, ClockTypeOK
  <2> DEFINE Good == /\ inbox' \in SUBSET Emails /\ signedIn' \in SUBSET Emails
                     /\ mixed' \in SUBSET Emails /\ verified' \in [Emails -> Nat]
                     /\ wrong' \in [Emails -> Nat] /\ lastWrong' \in [Emails -> Nat]
  <2>3. CASE UNCHANGED <<inbox, signedIn, loginHistory>>
    BY <2>3 DEF loginHistory, BaseInv, CustomersTypeOK
  <2>4. ASSUME NEW e \in Emails, SyncNeonCustomer(e) PROVE Good
    BY <2>4 DEF SyncNeonCustomer, loginHistory, BaseInv, CustomersTypeOK
  <2>5. ASSUME NEW h \in Counter, SendVerification(h) \/ Confirm(h) PROVE Good
    BY <2>1, <2>5 DEF SendVerification, Confirm, loginHistory, BaseInv, CustomersTypeOK
  <2>6. ASSUME NEW h \in Counter, WrongPassword(h) PROVE Good
    BY <2>1, <2>2, <2>6 DEF WrongPassword, BaseInv, CustomersTypeOK
  <2>7. ASSUME NEW h \in Counter, RightPassword(h) PROVE Good
    BY <2>1, <2>7 DEF RightPassword, BaseInv, CustomersTypeOK
  <2>8. \/ UNCHANGED <<inbox, signedIn, loginHistory>>
        \/ \E e \in Emails : SyncNeonCustomer(e)
        \/ \E h \in Counter : \/ SendVerification(h) \/ Confirm(h)
                             \/ WrongPassword(h) \/ RightPassword(h)
    BY DEF CustomersNext, CustomersStep, AccountsAsk, CustomersGoOn, counterVars,
           customerVars, loginHistory,
           Register, ReadForLogin, VerifyEmail, CreateAddress, FindAddress,
           CreateAccount, UpdateAddress, SaveAddress, RemoveAddress, CustomerOfReview, CounterStops
  <2> QED
    BY <2>3, <2>4, <2>5, <2>6, <2>7, <2>8
<1>7. saved' \in SUBSET Addresses /\ default' \in SUBSET saved' /\ twoAtOnce' \in BOOLEAN
  <2>1. \A h \in Counter : counter[h].pc = "saving" =>
           /\ counter[h].address \in Addresses
           /\ counter[h].makes \in BOOLEAN
    BY RecordShape, CounterType DEF BaseInv, Saving
  <2>2. ASSUME NEW h \in Counter, SaveAddress(h)
        PROVE  saved' \in SUBSET Addresses /\ default' \in SUBSET saved' /\ twoAtOnce' \in BOOLEAN
    BY <2>1, <2>2 DEF SaveAddress, addressVars, BaseInv, CustomersTypeOK
  <2>3. ASSUME NEW h \in Counter, RemoveAddress(h)
        PROVE  saved' \in SUBSET Addresses /\ default' \in SUBSET saved' /\ twoAtOnce' \in BOOLEAN
    BY <2>3 DEF RemoveAddress, BaseInv, CustomersTypeOK
  <2>4. UNCHANGED addressVars \/ \E h \in Counter : SaveAddress(h) \/ RemoveAddress(h)
    BY DEF CustomersNext, CustomersStep, AccountsAsk, CustomersGoOn, counterVars,
           customerVars, addressVars,
           Register, ReadForLogin, SyncNeonCustomer, VerifyEmail, CreateAddress, FindAddress,
           CreateAccount, SendVerification, Confirm, WrongPassword, RightPassword,
           UpdateAddress, CustomerOfReview, CounterStops
  <2> QED
    BY <2>2, <2>3, <2>4 DEF addressVars, BaseInv, CustomersTypeOK
<1>8. counter' \in [Counter -> Records]
  BY <1>1 DEF RequestsMove
<1> QED
  BY <1>2, <1>3, <1>4, <1>5, <1>6, <1>7, <1>8
     DEF BaseInv, CustomersTypeOK, Records, Emailed, Login, Change, Saving

\* Types: a row with a token has a password, and only a confirmed one has attempts
\* (customer-auth.service.ts); every default address is a saved one.
THEOREM CustomersTypesAlways == CustomersSpec => []CustomersTypeOK
<1>1. BaseInv /\ [CustomersNext]_counterVars => BaseInv'
  BY BaseStep
<1>2. BaseInv => CustomersTypeOK
  BY DEF BaseInv
<1> QED
  BY <1>1, <1>2, InitBase, PTL DEF CustomersSpec, counterVars

-----------------------------------------------------------------------------
(***************************************************************************)
(* The lock.                                                               *)
(***************************************************************************)
LockInv == LockoutCounts /\ ReadIsCurrent

\* Steps that write no password's outcome keep the attempts of every row.
KeepsAttempts ==
    /\ UNCHANGED <<wrong, lastWrong, mixed>>
    /\ \A e \in Emails :
          \/ /\ account'[e].failed = account[e].failed
             /\ account'[e].lockedUntil = account[e].lockedUntil
          \/ /\ ~account[e].exists
             /\ account'[e].failed = 0 /\ account'[e].lockedUntil = 0

LEMMA AttemptsKept ==
    ASSUME BaseInv, [CustomersNext]_counterVars
    PROVE  KeepsAttempts \/ \E h \in Counter : WrongPassword(h) \/ RightPassword(h)
<1>1. CASE UNCHANGED <<account, wrong, lastWrong, mixed>>
  BY <1>1 DEF KeepsAttempts
<1>2. \A e \in Emails : account[e] \in Account
  BY DEF BaseInv, CustomersTypeOK
<1>3. ASSUME NEW e \in Emails, NEW row, Row(e, row), UNCHANGED <<wrong, lastWrong, mixed>>,
             \/ row.failed = account[e].failed /\ row.lockedUntil = account[e].lockedUntil
             \/ ~account[e].exists /\ row.failed = 0 /\ row.lockedUntil = 0
      PROVE  KeepsAttempts
  BY <1>3 DEF KeepsAttempts, Row, BaseInv, CustomersTypeOK
<1>4. ASSUME NEW e \in Emails, SyncNeonCustomer(e) \/ CustomerOfReview(e) PROVE KeepsAttempts
  <2>1. PICK row : /\ Row(e, row)
                   /\ row.failed = account[e].failed /\ row.lockedUntil = account[e].lockedUntil
    <3> DEFINE v == [account[e] EXCEPT !.exists = TRUE, !.confirmed = TRUE]
               r == [account[e] EXCEPT !.exists = TRUE]
    <3>1. /\ v.failed = account[e].failed /\ v.lockedUntil = account[e].lockedUntil
          /\ r.failed = account[e].failed /\ r.lockedUntil = account[e].lockedUntil
      BY <1>2 DEF Account
    <3>2. Row(e, v) \/ Row(e, r)
      BY <1>4 DEF SyncNeonCustomer, VouchedRow, CustomerOfReview
    <3> HIDE DEF v, r
    <3> QED
      BY <3>1, <3>2
  <2> QED
    BY <1>3, <1>4, <2>1 DEF SyncNeonCustomer, CustomerOfReview, loginHistory
<1>5. ASSUME NEW h \in Counter, CreateAccount(h) PROVE KeepsAttempts
  <2>1. counter[h].email \in Emails
    BY <1>5, RecordShape, CounterType DEF CreateAccount, BaseInv, Emailed
  <2>4. UNCHANGED <<wrong, lastWrong, mixed>>
    BY <1>5 DEF CreateAccount, loginHistory
  <2>2. CASE UNCHANGED account
    BY <2>2, <2>4 DEF KeepsAttempts
  <2>3. CASE ~UNCHANGED account
    <3>1. PICK row : /\ Row(counter[h].email, row) /\ ~account[counter[h].email].exists
                     /\ row.failed = 0 /\ row.lockedUntil = 0
      <4> DEFINE n == [NoAccount EXCEPT !.exists = TRUE, !.password = TRUE, !.token = TRUE,
                                        !.tokenEnd = now + VerifyLife]
      <4>1. n.failed = 0 /\ n.lockedUntil = 0
        BY DEF NoAccount
      <4>2. Row(counter[h].email, n) /\ ~account[counter[h].email].exists
        BY <1>5, <2>3 DEF CreateAccount
      <4> HIDE DEF n
      <4> QED
        BY <4>1, <4>2
    <3> QED
      BY <1>3, <2>1, <2>4, <3>1
  <2> QED
    BY <2>2, <2>3
<1>6. ASSUME NEW h \in Counter, Confirm(h) PROVE KeepsAttempts
  <2>1. counter[h].email \in Emails
    BY <1>6, RecordShape, CounterType DEF Confirm, BaseInv, Emailed
  <2>2. PICK row : /\ Row(counter[h].email, row)
                   /\ row.failed = account[counter[h].email].failed
                   /\ row.lockedUntil = account[counter[h].email].lockedUntil
    <3> DEFINE e == counter[h].email
               n == [account[e] EXCEPT !.confirmed = TRUE, !.token = FALSE, !.tokenEnd = 0]
    <3>1. n.failed = account[e].failed /\ n.lockedUntil = account[e].lockedUntil
      BY <1>2, <2>1 DEF Account
    <3>2. Row(e, n)
      BY <1>6 DEF Confirm
    <3> HIDE DEF n
    <3> QED
      BY <3>1, <3>2
  <2> QED
    BY <1>3, <1>6, <2>1, <2>2 DEF Confirm
<1>7. \/ UNCHANGED <<account, wrong, lastWrong, mixed>>
      \/ \E e \in Emails : SyncNeonCustomer(e) \/ CustomerOfReview(e)
      \/ \E h \in Counter : CreateAccount(h) \/ Confirm(h) \/ WrongPassword(h) \/ RightPassword(h)
  BY DEF CustomersNext, CustomersStep, AccountsAsk, CustomersGoOn, counterVars, customerVars,
         loginHistory, Register, ReadForLogin, VerifyEmail, CreateAddress, FindAddress,
         SendVerification, UpdateAddress, SaveAddress, RemoveAddress, CounterStops
<1> QED
  BY <1>1, <1>4, <1>5, <1>6, <1>7

LEMMA LockStep ==
    ASSUME BaseInv, LockInv, [CustomersNext]_counterVars
    PROVE  LockInv'
<1>1. RequestsMove /\ counter' \in [Counter -> Records]
  BY StepMoves DEF RequestsMove
<1>2. CASE KeepsAttempts
  <2>1. \A e \in Emails \ mixed :
           /\ account'[e].failed = account[e].failed
           /\ account'[e].lockedUntil = account[e].lockedUntil
    <3> SUFFICES ASSUME NEW e \in Emails \ mixed, ~account[e].exists
                 PROVE  account[e].failed = 0 /\ account[e].lockedUntil = 0
      BY <1>2 DEF KeepsAttempts
    <3> QED
      BY AccountRows DEF BaseInv, AbsentIsEmpty
  <2>2. LockoutCounts'
    BY <1>2, <2>1 DEF KeepsAttempts, LockInv, LockoutCounts
  <2>3. ReadIsCurrent'
    <3> SUFFICES ASSUME NEW h \in Counter, counter'[h].pc = "login", counter'[h].email \notin mixed
                 PROVE  /\ counter'[h].row.failed = account'[counter'[h].email].failed
                        /\ counter'[h].row.lockedUntil = account'[counter'[h].email].lockedUntil
      BY <1>2 DEF ReadIsCurrent, KeepsAttempts
    <3>1. counter'[h].email \in Emails
      BY <1>1, RecordShape DEF Login
    <3> QED
      BY <1>1, <2>1, <3>1 DEF RequestsMove, LockInv, ReadIsCurrent
  <2> QED
    BY <2>2, <2>3 DEF LockInv
<1>3. ASSUME NEW h \in Counter, WrongPassword(h) \/ RightPassword(h)
      PROVE  LockInv'
  <2>1. /\ counter[h] \in Login /\ counter[h].email \in Emails /\ counter[h].pc = "login"
        /\ counter[h].row \in Account
        /\ counter' = [counter EXCEPT ![h] = Waiting]
    BY <1>3, RecordShape, CounterType DEF WrongPassword, RightPassword, BaseInv, Login, Serve
  <2>0. PICK e \in Emails : e = counter[h].email
    BY <2>1
  <2>2. mixed' = IF Overlaps(h, e) THEN mixed \cup {e} ELSE mixed
    BY <1>3, <2>0 DEF WrongPassword, RightPassword
  <2>3. \A f \in Emails \ {e} : /\ account'[f] = account[f]
                                /\ wrong'[f] = wrong[f] /\ lastWrong'[f] = lastWrong[f]
    BY <1>3, <2>0, <2>1 DEF WrongPassword, RightPassword, Row, BaseInv, CustomersTypeOK
  <2>4. /\ account[e] \in Account /\ wrong[e] \in Nat /\ lastWrong[e] \in Nat
        /\ counter[h].row.failed \in Nat /\ counter[h].row.lockedUntil \in Nat
        /\ account[e].failed \in Nat
    BY <2>0, <2>1 DEF BaseInv, CustomersTypeOK, Account
  <2>5. e \notin mixed' => /\ account'[e].failed = wrong'[e]
                           /\ wrong'[e] >= MaxFailed => account'[e].lockedUntil = lastWrong'[e] + LockLife
    <3> SUFFICES ASSUME e \notin mixed'
                 PROVE  /\ account'[e].failed = wrong'[e]
                        /\ wrong'[e] >= MaxFailed => account'[e].lockedUntil = lastWrong'[e] + LockLife
      OBVIOUS
    <3>1. /\ e \notin mixed
          /\ counter[h].row.failed = account[e].failed
          /\ counter[h].row.lockedUntil = account[e].lockedUntil
          /\ account[e].failed = wrong[e]
          /\ wrong[e] >= MaxFailed => account[e].lockedUntil = lastWrong[e] + LockLife
      BY <2>0, <2>1, <2>2 DEF LockInv, ReadIsCurrent, LockoutCounts
    <3>2. CASE WrongPassword(h)
      <4>1. /\ account'[e].failed = counter[h].row.failed + 1
            /\ account'[e].lockedUntil =
                   IF counter[h].row.failed + 1 >= MaxFailed THEN now + LockLife ELSE 0
        BY <2>0, <2>1, <2>4, <3>2 DEF WrongPassword, Row, TooMany, BaseInv, CustomersTypeOK, Account
      <4>2. wrong'[e] = wrong[e] + 1 /\ lastWrong'[e] = now
        BY <2>0, <2>1, <3>2 DEF WrongPassword, BaseInv, CustomersTypeOK
      <4> QED
        BY <2>4, <3>1, <4>1, <4>2
    <3>3. CASE RightPassword(h) /\ (counter[h].row.failed > 0 \/ counter[h].row.lockedUntil # 0)
      <4>1. account'[e].failed = 0 /\ wrong'[e] = 0
        <5>1. Row(e, [account[e] EXCEPT !.failed = 0, !.lockedUntil = 0]) /\ wrong' = [wrong EXCEPT ![e] = 0]
          BY <2>0, <3>3 DEF RightPassword
        <5>2. [account[e] EXCEPT !.failed = 0, !.lockedUntil = 0].failed = 0
          BY <2>4 DEF Account
        <5> QED
          BY <5>1, <5>2 DEF Row, BaseInv, CustomersTypeOK
      <4> QED
        BY <4>1, CustomersAssumption
    <3>4. CASE RightPassword(h) /\ ~(counter[h].row.failed > 0 \/ counter[h].row.lockedUntil # 0)
      BY <2>0, <3>1, <3>4 DEF RightPassword
    <3> QED
      BY <1>3, <3>2, <3>3, <3>4
  <2>6. LockoutCounts'
    <3> SUFFICES ASSUME NEW f \in Emails \ mixed'
                 PROVE  /\ account'[f].failed = wrong'[f]
                        /\ wrong'[f] >= MaxFailed => account'[f].lockedUntil = lastWrong'[f] + LockLife
      BY DEF LockoutCounts
    <3>1. CASE f = e
      <4>1. e \notin mixed'
        BY <3>1
      <4>2. /\ account'[e].failed = wrong'[e]
            /\ wrong'[e] >= MaxFailed => account'[e].lockedUntil = lastWrong'[e] + LockLife
        BY <2>5, <4>1
      <4> QED
        BY <3>1, <4>2
    <3>2. CASE f # e
      BY <2>2, <2>3, <3>2 DEF LockInv, LockoutCounts
    <3> QED
      BY <3>1, <3>2
  <2>7. ReadIsCurrent'
    <3> SUFFICES ASSUME NEW g \in Counter, counter'[g].pc = "login", counter'[g].email \notin mixed'
                 PROVE  /\ counter'[g].row.failed = account'[counter'[g].email].failed
                        /\ counter'[g].row.lockedUntil = account'[counter'[g].email].lockedUntil
      BY DEF ReadIsCurrent
    <3>1. g # h /\ counter'[g] = counter[g]
      BY <2>1, RecordShape, CounterType DEF BaseInv
    <3>2. counter[g].email # e
      BY <2>0, <2>2, <3>1 DEF Overlaps
    <3>3. counter[g].email \in Emails
      BY <3>1, RecordShape, CounterType DEF BaseInv, Login
    <3> QED
      BY <2>2, <2>3, <3>1, <3>2, <3>3 DEF LockInv, ReadIsCurrent
  <2> QED
    BY <2>6, <2>7 DEF LockInv
<1> QED
  BY <1>2, <1>3, AttemptsKept

\* "Comprobar bloqueo de cuenta temporal por intentos fallidos excesivos"
\* (customer-auth.service.ts): whatever the number of attempts allowed, the length of
\* the lock and the requests at once, the attempts are counted and the lock is set,
\* unless two logins of the account overlapped.
THEOREM LockoutAlwaysCounts == CustomersSpec => []LockoutCounts
<1>1. CustomersInit /\ ClockInit => BaseInv /\ LockInv
  <2>1. ASSUME CustomersInit, ClockInit PROVE LockInv
    <3>1. \A e \in Emails : account[e].failed = 0 /\ wrong[e] = 0
      BY <2>1, AccountRows DEF CustomersInit
    <3>2. \A h \in Counter : counter[h].pc = "idle"
      BY <2>1, RecordShape DEF CustomersInit
    <3> QED
      BY <3>1, <3>2, CustomersAssumption DEF LockInv, LockoutCounts, ReadIsCurrent
  <2> QED
    BY <2>1, InitBase
<1>2. BaseInv /\ LockInv /\ [CustomersNext]_counterVars => (BaseInv /\ LockInv)'
  BY BaseStep, LockStep
<1>3. LockInv => LockoutCounts
  BY DEF LockInv
<1> QED
  BY <1>1, <1>2, <1>3, PTL DEF CustomersSpec, counterVars

-----------------------------------------------------------------------------
(***************************************************************************)
(* Sessions and addresses.                                                 *)
(***************************************************************************)
LEMMA SessionStep ==
    ASSUME BaseInv, SessionsAreConfirmed, [CustomersNext]_counterVars
    PROVE  SessionsAreConfirmed'
<1>1. \A e \in Emails : account[e].confirmed => account'[e].confirmed
  BY StepMoves DEF RowsMove, RowMoves, Row, BaseInv, CustomersTypeOK
<1>2. signedIn \subseteq Emails /\ \A e \in Emails : account[e] \in Account
  BY DEF BaseInv, CustomersTypeOK
<1>3. ASSUME NEW e \in Emails, account'[e].confirmed, signedIn' = signedIn \cup {e}
      PROVE  SessionsAreConfirmed'
  BY <1>1, <1>2, <1>3 DEF SessionsAreConfirmed
<1>4. ASSUME NEW e \in Emails, SyncNeonCustomer(e) PROVE SessionsAreConfirmed'
  <2>1. account'[e].confirmed
    BY <1>2, <1>4 DEF SyncNeonCustomer, Row, VouchedRow, BaseInv, CustomersTypeOK, Account
  <2> QED
    BY <1>3, <1>4, <2>1 DEF SyncNeonCustomer
<1>5. ASSUME NEW h \in Counter, Confirm(h) PROVE SessionsAreConfirmed'
  <2>1. counter[h].email \in Emails
    BY <1>5, RecordShape, CounterType DEF Confirm, BaseInv, Emailed
  <2>2. account'[counter[h].email].confirmed
    BY <1>2, <1>5, <2>1 DEF Confirm, Row, BaseInv, CustomersTypeOK, Account
  <2> QED
    BY <1>3, <1>5, <2>1, <2>2 DEF Confirm
<1>6. ASSUME NEW h \in Counter, RightPassword(h) PROVE SessionsAreConfirmed'
  <2>1. counter[h].email \in Emails /\ account[counter[h].email].confirmed
    BY <1>6, RecordShape, CounterType DEF RightPassword, BaseInv, Login, LoginsConfirmed
  <2> QED
    BY <1>1, <1>3, <1>6, <2>1 DEF RightPassword
<1>7. CASE UNCHANGED signedIn
  BY <1>1, <1>2, <1>7 DEF SessionsAreConfirmed
<1>8. \/ UNCHANGED signedIn
      \/ \E e \in Emails : SyncNeonCustomer(e)
      \/ \E h \in Counter : Confirm(h) \/ RightPassword(h)
  BY DEF CustomersNext, CustomersStep, AccountsAsk, CustomersGoOn, counterVars, customerVars,
         Register, ReadForLogin, VerifyEmail, CreateAddress, FindAddress, CustomerOfReview,
         SendVerification, UpdateAddress, SaveAddress, RemoveAddress, CounterStops,
         CreateAccount, WrongPassword
<1> QED
  BY <1>4, <1>5, <1>6, <1>7, <1>8

\* Whoever has a session confirmed the e-mail, by its link or through the provider,
\* however registrations, reviews and syncs of one e-mail interleave
\* (customer-auth.service.ts).
THEOREM SessionsAlwaysConfirmed == CustomersSpec => []SessionsAreConfirmed
<1>1. CustomersInit => SessionsAreConfirmed
  <2> SUFFICES ASSUME CustomersInit, NEW e \in signedIn PROVE account[e].confirmed
    BY DEF SessionsAreConfirmed
  <2>1. account[e] = ConfirmedAccount
    BY DEF CustomersInit
  <2> QED
    BY <2>1, AccountRows
<1>2. BaseInv /\ SessionsAreConfirmed /\ [CustomersNext]_counterVars
          => (BaseInv /\ SessionsAreConfirmed)'
  BY BaseStep, SessionStep
<1> QED
  BY <1>1, <1>2, InitBase, PTL DEF CustomersSpec, counterVars

LEMMA DefaultStep ==
    ASSUME BaseInv, DefaultInv, [CustomersNext]_counterVars
    PROVE  DefaultInv'
<1>1. CASE twoAtOnce /\ twoAtOnce'
  BY <1>1 DEF DefaultInv
<1>2. ASSUME default' \subseteq default, twoAtOnce' = twoAtOnce, NEW h \in Counter,
             \A g \in Counter \ {h} : counter'[g] = counter[g],
             counter'[h].pc = "saving" /\ counter'[h].makes
                => default \ counter'[h].clears \subseteq {counter'[h].address}
      PROVE  DefaultInv'
  BY <1>2 DEF DefaultInv, ClearedAll
<1>3. ASSUME NEW h \in Counter, NEW c \in Records, Serve(h, c), UNCHANGED addressVars,
             c.pc = "saving" /\ c.makes => default \ c.clears \subseteq {c.address}
      PROVE  DefaultInv'
  <2>1. counter'[h] = c /\ \A g \in Counter \ {h} : counter'[g] = counter[g]
    BY <1>3, CounterType DEF Serve, BaseInv
  <2> QED
    BY <1>2, <1>3, <2>1 DEF addressVars
<1>4. CASE UNCHANGED <<counter, addressVars>>
  BY <1>4 DEF DefaultInv, ClearedAll, addressVars
<1>5. CASE Arrives /\ CounterStops
  BY <1>5, RecordShape DEF CounterStops, DefaultInv, ClearedAll, addressVars
<1>6. ASSUME NEW h \in Counter, NEW a \in Addresses, NEW makes \in BOOLEAN, CreateAddress(h, a, makes)
      PROVE  DefaultInv'
  <2> DEFINE c == [pc |-> "saving", address |-> a, makes |-> makes, new |-> TRUE,
                   clears |-> Clears(a, makes)]
  <2>1. c \in Records
    BY DEF Records, Saving, Clears, BaseInv, CustomersTypeOK
  <2>2. c.pc = "saving" /\ c.makes => default \ c.clears \subseteq {c.address}
    BY DEF Clears
  <2>3. Serve(h, c) /\ UNCHANGED addressVars
    BY <1>6 DEF CreateAddress, Begins
  <2> HIDE DEF c
  <2> QED
    BY <1>3, <2>1, <2>2, <2>3
<1>7. ASSUME NEW h \in Counter, UpdateAddress(h) PROVE DefaultInv'
  <2>1. counter[h] \in Change
    BY <1>7, RecordShape, CounterType DEF UpdateAddress, BaseInv
  <2> DEFINE c == [pc |-> "saving", address |-> counter[h].address, makes |-> counter[h].makes,
                   new |-> FALSE, clears |-> Clears(counter[h].address, counter[h].makes)]
  <2>2. c \in Records
    BY <2>1 DEF Records, Saving, Change, Clears, BaseInv, CustomersTypeOK
  <2>3. c.pc = "saving" /\ c.makes => default \ c.clears \subseteq {c.address}
    BY DEF Clears
  <2>4. Serve(h, c) /\ UNCHANGED addressVars
    BY <1>7 DEF UpdateAddress
  <2> HIDE DEF c
  <2> QED
    BY <1>3, <2>2, <2>3, <2>4
<1>8. ASSUME NEW h \in Counter, SaveAddress(h) PROVE DefaultInv'
  <2>1. /\ counter[h] \in Saving /\ counter[h].pc = "saving"
        /\ counter' = [counter EXCEPT ![h] = Waiting]
    BY <1>8, RecordShape, CounterType DEF SaveAddress, BaseInv, Serve
  <2>2. CASE UNCHANGED addressVars
    BY <1>3, <1>8, <2>2, RecordShape DEF SaveAddress, Records
  <2>3. CASE /\ default' = (default \ counter[h].clears)
                              \cup IF counter[h].makes THEN {counter[h].address} ELSE {}
             /\ twoAtOnce' = (twoAtOnce \/ SavingElsewhere(h))
    <3> SUFFICES ASSUME ~twoAtOnce' PROVE (\A a, b \in default' : a = b) /\ ClearedAll'
      BY DEF DefaultInv
    <3>1. ~twoAtOnce /\ \A g \in Counter \ {h} : counter[g].pc # "saving"
      BY <2>3 DEF SavingElsewhere
    <3>2. ClearedAll'
      BY <2>1, <3>1, RecordShape, CounterType DEF ClearedAll, BaseInv
    <3>3. \A a, b \in default' : a = b
      BY <2>1, <2>3, <3>1 DEF DefaultInv, ClearedAll
    <3> QED
      BY <3>2, <3>3
  <2> QED
    BY <1>8, <2>2, <2>3 DEF SaveAddress
<1>9. ASSUME NEW h \in Counter, RemoveAddress(h) PROVE DefaultInv'
  <2>1. /\ default' \subseteq default /\ twoAtOnce' = twoAtOnce /\ counter'[h].pc = "idle"
        /\ \A g \in Counter \ {h} : counter'[g] = counter[g]
    BY <1>9, RecordShape, CounterType DEF RemoveAddress, Serve, BaseInv
  <2> QED
    BY <1>2, <2>1
<1>11. \/ UNCHANGED <<counter, addressVars>>
       \/ Arrives /\ CounterStops
       \/ \E h \in Counter :
             \/ SaveAddress(h) \/ RemoveAddress(h) \/ UpdateAddress(h)
             \/ \E a \in Addresses, makes \in BOOLEAN : CreateAddress(h, a, makes)
             \/ /\ UNCHANGED addressVars
                /\ \A g \in Counter \ {h} : counter'[g] = counter[g]
                /\ counter'[h].pc # "saving"
  <2>1. ASSUME NEW h \in Counter, NEW c, Serve(h, c), c.pc # "saving"
        PROVE  counter'[h].pc # "saving" /\ \A g \in Counter \ {h} : counter'[g] = counter[g]
    BY <2>1, CounterType DEF Serve, BaseInv
  <2>2. ASSUME NEW h \in Counter, NEW e \in Emails, Register(h, e) \/ VerifyEmail(h, e)
        PROVE  /\ UNCHANGED addressVars /\ counter'[h].pc # "saving"
               /\ \A g \in Counter \ {h} : counter'[g] = counter[g]
    BY <2>1, <2>2 DEF Register, VerifyEmail, Begins
  <2>3. ASSUME NEW h \in Counter, NEW e \in Emails, NEW right \in BOOLEAN, ReadForLogin(h, e, right)
        PROVE  /\ UNCHANGED addressVars /\ counter'[h].pc # "saving"
               /\ \A g \in Counter \ {h} : counter'[g] = counter[g]
    BY <2>1, <2>3 DEF ReadForLogin, Begins
  <2>4. ASSUME NEW h \in Counter, NEW a \in Addresses, NEW makes \in BOOLEAN, NEW removes \in BOOLEAN,
               FindAddress(h, a, makes, removes)
        PROVE  /\ UNCHANGED addressVars /\ counter'[h].pc # "saving"
               /\ \A g \in Counter \ {h} : counter'[g] = counter[g]
    BY <2>1, <2>4 DEF FindAddress, Begins
  <2>5. ASSUME NEW h \in Counter,
               SendVerification(h) \/ Confirm(h) \/ WrongPassword(h) \/ RightPassword(h)
        PROVE  /\ UNCHANGED addressVars /\ counter'[h].pc # "saving"
               /\ \A g \in Counter \ {h} : counter'[g] = counter[g]
    BY <2>1, <2>5, RecordShape DEF SendVerification, Confirm, WrongPassword, RightPassword
  <2>6. ASSUME NEW h \in Counter, CreateAccount(h)
        PROVE  /\ UNCHANGED addressVars /\ counter'[h].pc # "saving"
               /\ \A g \in Counter \ {h} : counter'[g] = counter[g]
    BY <2>1, <2>6, RecordShape DEF CreateAccount
  <2> QED
    BY <2>2, <2>3, <2>4, <2>5, <2>6
       DEF CustomersNext, CustomersStep, AccountsAsk, CustomersGoOn, counterVars, customerVars,
           SyncNeonCustomer, CustomerOfReview, addressVars
<1>12. ASSUME NEW h \in Counter, UNCHANGED addressVars, counter'[h].pc # "saving",
              \A g \in Counter \ {h} : counter'[g] = counter[g]
       PROVE  DefaultInv'
  BY <1>2, <1>12 DEF addressVars
<1> QED
  BY <1>4, <1>5, <1>6, <1>7, <1>8, <1>9, <1>11, <1>12

\* A customer has one default address at most, however many there are and however
\* they are created, changed and removed, unless two changes overlapped
\* (addresses.service.ts).
THEOREM OneDefaultAlways == CustomersSpec => []OneDefault
<1>1. CustomersInit => DefaultInv
  BY RecordShape DEF CustomersInit, DefaultInv, ClearedAll
<1>2. BaseInv /\ DefaultInv /\ [CustomersNext]_counterVars => (BaseInv /\ DefaultInv)'
  BY BaseStep, DefaultStep
<1>3. DefaultInv => OneDefault
  <2> SUFFICES ASSUME DefaultInv, ~twoAtOnce PROVE Cardinality(default) <= 1
    BY DEF OneDefault
  <2>1. CASE default = {}
    BY <2>1, FS_EmptySet
  <2>2. CASE default # {}
    <3>1. PICK a \in default : default = {a}
      BY <2>2 DEF DefaultInv
    <3> QED
      <4>1. Cardinality({a}) = 1
        BY FS_Singleton
      <4> QED
        BY <3>1, <4>1
  <2> QED
    BY <2>1, <2>2
<1> QED
  BY <1>1, <1>2, <1>3, InitBase, PTL DEF CustomersSpec, counterVars

-----------------------------------------------------------------------------
(***************************************************************************)
(* The three of them in one process.                                       *)
(***************************************************************************)

\* What a part does is a request that comes in, or one that goes on.
LEMMA PartsUseTheClock ==
    OperatorsStep \/ PlanStep \/ CustomersStep => Arrives \/ GoesOn
<1>1. OperatorsStep => Arrives \/ GoesOn
  BY DEF OperatorsStep, RequestMagicLink, StoreLink, SendLink, PresentLink, ConsumeLink, Impersonate,
         Admit, Ensure, CountOwners, ChangeMember
<1>2. PlanStep => Arrives \/ GoesOn
  BY DEF PlanStep, PlatformAsks, OwnerAsks, PlanGoesOn, ReadForUpdate, ReadForSettings,
         ReadForDecision, Reads, UpdateTenant, UpdateSettings, AcceptCommission, RejectCommission,
         Writes, Lookup, ReadPlan, Remember
<1>3. CustomersStep => Arrives \/ GoesOn
  BY DEF CustomersStep, AccountsAsk, CustomersGoOn, Register, CreateAccount, SendVerification,
         VerifyEmail, Confirm, SyncNeonCustomer, CustomerOfReview, ReadForLogin, WrongPassword,
         RightPassword, CreateAddress, FindAddress, UpdateAddress, SaveAddress, RemoveAddress, Begins
<1> QED
  BY <1>1, <1>2, <1>3

\* A step of the process is, for each part, a step of its own or one in which it
\* rests.
LEMMA EachPartSteps ==
    ASSUME [AccountsNext]_accountsVars
    PROVE  /\ [OperatorsNext]_<<operatorVars, clockVars>>
           /\ [PlanNext]_<<planVars, clockVars>>
           /\ [CustomersNext]_<<customerVars, clockVars>>
<1>1. CASE OperatorsStep /\ UNCHANGED <<planVars, customerVars>>
  BY <1>1, PartsUseTheClock DEF OperatorsNext, PlanNext, CustomersNext, GoesOn
<1>2. CASE /\ PlatformAsks \/ (OwnerPasses /\ OwnerAsks) \/ PlanGoesOn
           /\ UNCHANGED <<operatorVars, customerVars>>
  <2>1. PlanStep
    BY <1>2 DEF PlanStep
  <2> QED
    BY <1>2, <2>1, PartsUseTheClock DEF OperatorsNext, PlanNext, CustomersNext, GoesOn
<1>3. CASE (CustomerAsks \/ CustomersGoOn) /\ UNCHANGED <<operatorVars, planVars>>
  <2>1. CustomersStep
    BY <1>3 DEF CustomersStep, CustomerAsks
  <2> QED
    BY <1>3, <2>1, PartsUseTheClock DEF OperatorsNext, PlanNext, CustomersNext, GoesOn
<1>4. CASE Arrives /\ DeskStops /\ OfficeStops /\ CounterStops
  BY <1>4 DEF OperatorsNext, PlanNext, CustomersNext
<1>5. CASE Tick /\ UNCHANGED <<operatorVars, planVars, customerVars>>
  BY <1>5 DEF OperatorsNext, PlanNext, CustomersNext
<1>6. CASE UNCHANGED accountsVars
  BY <1>6 DEF accountsVars
<1> QED
  BY <1>1, <1>2, <1>3, <1>4, <1>5, <1>6 DEF AccountsNext

\* In one process, behind each other's guards and stopped together, the three parts
\* behave as they do alone, so everything shown of each of them holds there.
THEOREM PartsOfAccounts == AccountsSpec => OperatorsSpec /\ PlanSpec /\ CustomersSpec
<1>1. AccountsInit => /\ OperatorsInit /\ ClockInit
                      /\ PlanInit /\ ClockInit
                      /\ CustomersInit /\ ClockInit
  BY DEF AccountsInit
<1>2. [AccountsNext]_accountsVars => /\ [OperatorsNext]_<<operatorVars, clockVars>>
                                     /\ [PlanNext]_<<planVars, clockVars>>
                                     /\ [CustomersNext]_<<customerVars, clockVars>>
  BY EachPartSteps
<1> QED
  BY <1>1, <1>2, PTL DEF AccountsSpec, OperatorsSpec, PlanSpec, CustomersSpec

\* The types of the whole.
THEOREM AccountsTypesAlways == AccountsSpec => []AccountsTypeOK
<1>1. OperatorsTypeOK /\ PlanTypeOK /\ CustomersTypeOK => AccountsTypeOK
  BY DEF AccountsTypeOK
<1> QED
  BY <1>1, PartsOfAccounts, OperatorsTypesAlways, PlanTypesAlways, CustomersTypesAlways, PTL

\* What each part promises, of the process where all three run.
THEOREM AccountsKeepTheirPromises ==
    AccountsSpec =>
        /\ []OwnerRemains /\ []AccessEndsWithRole
        /\ []CommissionNeedsPlan /\ []PlanIsThePlatforms /\ RateChangesByConsent /\ []CacheIsRecent
        /\ []LockoutCounts /\ []SessionsAreConfirmed /\ []OneDefault
BY PartsOfAccounts, OwnerAlwaysRemains, AccessAlwaysEnds,
   CommissionAlwaysNeedsPlan, PlanAlwaysThePlatforms, RatesAlwaysChangeByConsent, CacheAlwaysRecent,
   LockoutAlwaysCounts, SessionsAlwaysConfirmed, OneDefaultAlways, PTL

-----------------------------------------------------------------------------
\* A step that lets somebody to a registration or a login was let through by the
\* guard of the accounts.
LEMMA LetThrough ==
    ASSUME CustomersTypeOK, [AccountsNext]_accountsVars, NEW h \in Counter,
           counter[h] = Waiting, counter'[h].pc \in {"register", "login"}
    PROVE  FeatureAllows("customerAccounts")
<1>1. counter'[h] # counter[h]
  BY RecordShape
<1>2. ASSUME CustomersGoOn PROVE FALSE
  <2>1. ASSUME NEW k \in Counter, NEW c, Serve(k, c), c.pc \notin {"register", "login"} PROVE FALSE
    BY <2>1, <1>1 DEF Serve, CustomersTypeOK
  <2>2. ASSUME NEW k \in Counter, NEW e \in Emails, VerifyEmail(k, e) PROVE FALSE
    BY <2>1, <2>2 DEF VerifyEmail, Begins
  <2>3. ASSUME NEW k \in Counter, NEW a \in Addresses, NEW makes \in BOOLEAN,
               CreateAddress(k, a, makes) \/ \E removes \in BOOLEAN : FindAddress(k, a, makes, removes)
        PROVE FALSE
    BY <2>1, <2>3 DEF CreateAddress, FindAddress, Begins
  <2>4. ASSUME NEW k \in Counter, CreateAccount(k) \/ UpdateAddress(k) PROVE FALSE
    BY <2>1, <2>4, RecordShape DEF CreateAccount, UpdateAddress
  <2>5. ASSUME NEW k \in Counter,
               SendVerification(k) \/ Confirm(k) \/ WrongPassword(k) \/ RightPassword(k)
                 \/ SaveAddress(k) \/ RemoveAddress(k)
        PROVE FALSE
    BY <2>1, <2>5, RecordShape
       DEF SendVerification, Confirm, WrongPassword, RightPassword, SaveAddress, RemoveAddress
  <2>6. ASSUME NEW e \in Emails, CustomerOfReview(e) PROVE FALSE
    BY <1>1, <2>6 DEF CustomerOfReview
  <2> QED
    BY <1>2, <2>2, <2>3, <2>4, <2>5, <2>6 DEF CustomersGoOn
<1>3. ASSUME CounterStops PROVE FALSE
  BY <1>1, <1>3 DEF CounterStops
<1>4. ASSUME UNCHANGED customerVars PROVE FALSE
  BY <1>1, <1>4 DEF customerVars
<1>5. CustomerAsks
  BY <1>2, <1>3, <1>4 DEF AccountsNext, accountsVars
<1> QED
  BY <1>5 DEF CustomerAsks

\* "Bloquea el endpoint si el tier del tenant no incluye la capacidad"
\* (feature.guard.ts): for every life of the guard's cache, nobody gets to a
\* registration or to a password for longer than that after a change of plan took
\* the accounts away.
THEOREM AccountsAlwaysCloseInTime == AccountsSpec => AccountsCloseInTime
<1> DEFINE Closes ==
        (\E h \in Counter : counter[h] = Waiting /\ counter'[h].pc \in {"register", "login"})
            => HasAccounts \/ now - changed < FeatureLife
<1>1. CacheIsRecent /\ CustomersTypeOK /\ [AccountsNext]_accountsVars => [Closes]_accountsVars
  <2> SUFFICES ASSUME CacheIsRecent, CustomersTypeOK, [AccountsNext]_accountsVars,
                      NEW h \in Counter, counter[h] = Waiting, counter'[h].pc \in {"register", "login"}
               PROVE  HasAccounts \/ now - changed < FeatureLife
    OBVIOUS
  <2>1. FeatureAllows("customerAccounts")
    BY LetThrough
  <2>2. CASE ~Kept
    BY <2>1, <2>2 DEF FeatureAllows, HasAccounts
  <2>3. CASE Kept /\ cache.tier = plan.tier /\ cache.over = plan.over
    BY <2>1, <2>3 DEF FeatureAllows, HasAccounts
  <2>4. CASE Kept /\ <<cache.tier, cache.over>> # <<plan.tier, plan.over>>
    BY <2>4 DEF CacheIsRecent
  <2> QED
    BY <2>2, <2>3, <2>4
<1>2. AccountsSpec => []CacheIsRecent /\ []CustomersTypeOK
  BY PartsOfAccounts, CacheAlwaysRecent, CustomersTypesAlways, PTL
<1> QED
  BY <1>1, <1>2, PTL DEF AccountsSpec, AccountsCloseInTime
=============================================================================
