---------------------------- MODULE MCStorefront ----------------------------
(***************************************************************************)
(* Storefront on a small instance: three products, one of them with a      *)
(* review, images and a variant; a collection of two; one code; one block   *)
(* of content; a list of up to three rows; two stores and two accounts.     *)
(***************************************************************************)
EXTENDS Storefront, TLC

CONSTANTS p1, p2, r1, v1

MCReviewOf == [r \in Reviews |-> p1]
MCVariantOf == [v \in Variants |-> p1]

\* One variant twice.
MCBaskets == {<<[variant |-> v1, quantity |-> 1], [variant |-> v1, quantity |-> 1]>>}

Dto(type, value, start, end) == [type |-> type, value |-> value, start |-> start, end |-> end]

\* Two codes, and an edit of each field that another edit does not go with.
MCPromotionDtos ==
    {Dto("FIXED", 150, NoDate, 2), Dto("PERCENTAGE", 50, 1, NoDate),
     Dto("PERCENTAGE", Same, Same, Same), Dto(Same, 150, Same, Same),
     Dto(Same, Same, Same, 1), Dto(Same, Same, 2, Same)}

\* Created without dates or with a window, then switched off or moved in time.
MCContentDtos ==
    {[active |-> Unsent, start |-> Unsent, end |-> Unsent],
     [active |-> Unsent, start |-> 1, end |-> 1],
     [active |-> FALSE, start |-> Unsent, end |-> Unsent],
     [active |-> Unsent, start |-> 2, end |-> Unsent],
     [active |-> Unsent, start |-> Unsent, end |-> 1]}

\* The two requests of each desk have the same names.
MCSymmetry ==
    Permutations(Editors) \cup Permutations(Slugs) \cup Permutations(Products \ {p1})
=============================================================================
