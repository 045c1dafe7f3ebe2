----------------------------- MODULE MCAccounts -----------------------------
(***************************************************************************)
(* Accounts on a small instance: two operators, the edits of the plan that *)
(* touch tier, modality, commission and one feature, one customer.          *)
(***************************************************************************)
EXTENDS Accounts, TLC

CONSTANTS r1, r2

Dto(tier, accounts, type, rate) ==
    [tier |-> tier, over |-> [k \in Keys |-> accounts], type |-> type, rate |-> rate]

\* On commission from the start, and never, with a feature overridden or none.
MCCreateDtos ==
    {[tier |-> "PRO", over |-> [k \in Keys |-> "unset"], enabled |-> TRUE, rate |-> r1],
     [tier |-> "PRO", over |-> [k \in Keys |-> "on"], enabled |-> FALSE, rate |-> NoRate]}

\* A change of tier, of modality, of a feature, and two proposals.
MCUpdateDtos ==
    {Dto("STARTER", "unset", Keep, Keep),
     Dto(Keep, "unset", "COMMISSION", Keep),
     Dto(Keep, "unset", "SUBSCRIPTION", Keep),
     Dto(Keep, "off", Keep, Keep),
     Dto(Keep, "unset", Keep, r2)}

\* The requests of each desk, the operators and the addresses can be exchanged.
MCSymmetry ==
    Permutations(Desk) \cup Permutations(Office) \cup Permutations(Counter)
        \cup Permutations(Users) \cup Permutations(Addresses)
=============================================================================
