------------------------------ MODULE Accounts ------------------------------
(***************************************************************************)
(* Operators, plan and customers of one tenant together.  What an owner    *)
(* asks of the plan passes the guards of Operators, and what a customer     *)
(* asks of an account passes the guard of the tier's features, which may    *)
(* answer from its cache.  All run in one process, and stop with it.        *)
(***************************************************************************)
EXTENDS Operators, TenantPlan, Customers

accountsVars == <<operatorVars, planVars, customerVars, clockVars>>

AccountsInit == OperatorsInit /\ PlanInit /\ CustomersInit /\ ClockInit

\* The owner's requests, behind AuthGuard and RolesGuard.
OwnerPasses == \E a \in Users : Passes(a, "TENANT_OWNER")

\* A customer's request, behind FeatureGuard.
CustomerAsks == FeatureAllows("customerAccounts") /\ AccountsAsk

AccountsNext ==
    \/ OperatorsStep /\ UNCHANGED <<planVars, customerVars>>
    \/ /\ PlatformAsks \/ (OwnerPasses /\ OwnerAsks) \/ PlanGoesOn
       /\ UNCHANGED <<operatorVars, customerVars>>
    \/ (CustomerAsks \/ CustomersGoOn) /\ UNCHANGED <<operatorVars, planVars>>
    \/ Arrives /\ DeskStops /\ OfficeStops /\ CounterStops
    \/ Tick /\ UNCHANGED <<operatorVars, planVars, customerVars>>

AccountsSpec == AccountsInit /\ [][AccountsNext]_accountsVars

-----------------------------------------------------------------------------
AccountsTypeOK == OperatorsTypeOK /\ PlanTypeOK /\ CustomersTypeOK

HasAccounts == HasFeature(plan.tier, plan.over, "customerAccounts")

\* "Bloquea el endpoint si el tier del tenant no incluye la capacidad"
\* (feature.guard.ts): once a change of plan takes the accounts away, nobody new
\* is registered or gets to a password for longer than the guard's cache lives.
AccountsCloseInTime ==
    [][(\E h \in Counter : counter[h] = Waiting /\ counter'[h].pc \in {"register", "login"})
        => HasAccounts \/ now - changed < FeatureLife]_accountsVars
=============================================================================
