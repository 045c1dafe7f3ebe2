---------------------------- MODULE TierFeatures ----------------------------
(***************************************************************************)
(* What each tier includes, and the overrides of one tenant                *)
(* (tier-features.ts).                                                     *)
(***************************************************************************)
EXTENDS Integers

Tiers == {"STARTER", "PRO", "BUSINESS"}

Presence      == {"blog", "catalog"}
Transactional == {"checkout", "customerAccounts", "subscriptions", "discountCodes", "reviews"}
Premium       == {"gifts", "customDomain"}
FeatureKeys   == Presence \cup Transactional \cup Premium

\* The capacities of a tier.
Included(tier) ==
    CASE tier = "STARTER"  -> Presence
      [] tier = "PRO"      -> Presence \cup Transactional
      [] tier = "BUSINESS" -> FeatureKeys

\* resolveFeatures: an override of the right type wins over the tier, whatever
\* else is stored under the key is ignored.  over holds the keys that are set.
HasFeature(tier, over, key) ==
    IF key \in DOMAIN over /\ over[key] \in {"on", "off"}
    THEN over[key] = "on"
    ELSE key \in Included(tier)
=============================================================================
