------------------------------- MODULE Shelf --------------------------------
(***************************************************************************)
(* Things with a place, as the images of a product and the products of a   *)
(* collection keep them: a row for each, with an integer position.          *)
(***************************************************************************)
EXTENDS Integers, Sequences, FiniteSetsExt

CONSTANT NoPlace     \* the place of what is not there

Placed(place) == {t \in DOMAIN place : place[t] # NoPlace}

\* The largest place plus one, or 0.
NextPlace(place) ==
    IF Placed(place) = {} THEN 0
    ELSE Max({place[t] : t \in Placed(place)}) + 1

\* Each thing of the list is written the index it has there, one after another,
\* so the last one stays.
Reordered(place, list) ==
    LET at(t) == {k \in 1..Len(list) : list[k] = t} IN
    [t \in DOMAIN place |-> IF at(t) = {} THEN place[t] ELSE Max(at(t)) - 1]

\* The lists a request may send of some things: some left out, some named twice.
Lists(things) ==
    UNION {[1..n -> things] : n \in 1..Cardinality(things)}

\* The list is not the things there are, each once: a place it gives may be that of
\* a thing it leaves out.
Mixes(place, list) ==
    \/ Placed(place) # {list[k] : k \in 1..Len(list)}
    \/ Len(list) # Cardinality(Placed(place))

NoneShared(place) ==
    \A t, u \in Placed(place) : place[t] = place[u] => t = u
=============================================================================
