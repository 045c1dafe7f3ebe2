----------------------------- MODULE Collections ----------------------------
(***************************************************************************)
(* One collection and its products (admin-collections.service.ts), and the *)
(* page the storefront keeps of it (collections.service.ts) until the tag of *)
(* its slug is revalidated.  Names and rules are left out; MANUAL or AUTO    *)
(* decides whether products may be linked.  A page lists those on sale, and   *)
(* putting a product on or off sale tells no collection                      *)
(* (admin-products.service.ts).                                             *)
(***************************************************************************)
EXTENDS Clock, Shelf

CONSTANTS
    Members,        \* products that may be linked
    Handles,        \* slugs
    Curators,       \* requests that may be in flight at once
    AnswerBound     \* pages that may be on their way at once

ASSUME CollectionsAssumption == IsFiniteSet(Members) /\ NoPlace \notin Handles

VARIABLES
    kind,           \* "none", "MANUAL" or "AUTO"
    member,         \* the place of each product in the collection
    handle,         \* the slug, or NoPlace
    onSale,         \* the products that may be listed
    collectionPage, \* what the storefront keeps under each slug
    collectionAsked,    \* what was read for a page that is not stored yet
    collectionBehind,   \* history: slugs of those with a change since
    collectionSent,     \* slugs whose tag is on its way
    collectionMissed,   \* history: slugs whose page was to be dropped and was not told, or too early
    curator,        \* what each request holds between its steps
    membersMixed    \* history: products were linked at once, or a list was not the products

collectionPageVars ==
    <<collectionPage, collectionAsked, collectionBehind, collectionSent, collectionMissed>>
collectionVars == <<kind, member, handle, onSale, collectionPageVars, curator, membersMixed>>

\* The pages are kept and told like those of products.
Kept == INSTANCE Pages WITH
            Products <- {}, Reviews <- {}, Slugs <- Handles, NoPage <- NoPlace, AskBound <- AnswerBound,
            page <- collectionPage, asked <- collectionAsked, behind <- collectionBehind,
            sent <- collectionSent, missed <- collectionMissed

\* What is answered of a collection: its type, then the places of its products but
\* for those that are off sale when they are listed.
Answer == [type : {"MANUAL", "AUTO"}, listed : BOOLEAN,
           places : [Members -> {NoPlace} \cup Nat], off : SUBSET Members]

Idle == [pc |-> "idle"]

CollectionsTypeOK ==
    /\ kind \in {"none", "MANUAL", "AUTO"}
    /\ member \in [Members -> {NoPlace} \cup Nat]
    /\ kind = "none" => Placed(member) = {}
    /\ handle \in Handles \cup {NoPlace}
    /\ handle = NoPlace <=> kind = "none"
    /\ onSale \in SUBSET Members
    /\ collectionPage \in [Handles -> {NoPlace} \cup {a \in Answer : a.listed}]
    /\ collectionAsked \in [Handles -> {NoPlace} \cup Answer]
    /\ collectionBehind \in SUBSET Handles
    /\ collectionSent \in SUBSET Handles /\ collectionMissed \in SUBSET Handles
    /\ curator \in [Curators -> {Idle}
          \cup [pc : {"update"}, had : Handles, type : {"unsent", "MANUAL", "AUTO"},
                slug : Handles \cup {NoPlace}]
          \cup [pc : {"remove"}, had : Handles]
          \cup [pc : {"attach"}, had : Handles, list : Lists(Members), place : Nat]
          \cup [pc : {"reorder"}, had : Handles, list : Lists(Members)]
          \cup [pc : {"detach"}, had : Handles, product : Members]]
    /\ membersMixed \in BOOLEAN

Curates(h, record) == curator' = [curator EXCEPT ![h] = record]

\* revalidate.  The slugs come from the row that was read, so those of a collection
\* that another request has renamed since may leave out the one it has now.
Revalidate(had, slugs) == Kept!Dispatch(slugs, {handle} \ (slugs \cup {had}))

\* ensure, at the start of a request.
CuratorBegins(h, record) ==
    /\ Arrives
    /\ curator[h] = Idle
    /\ kind # "none"
    /\ Curates(h, record)
    /\ UNCHANGED <<kind, member, handle, onSale, collectionPageVars, membersMixed>>

\* ensureManual.
ManualBegins(h, record) == kind = "MANUAL" /\ CuratorBegins(h, record)

CreateCollection(type, x) ==
    /\ Arrives
    /\ kind = "none"
    /\ kind' = type /\ handle' = x
    /\ UNCHANGED <<member, onSale, collectionPageVars, curator, membersMixed>>

\* update, of the type or of the slug: what is not sent is not written.
FindForUpdate(h, type, x) ==
    /\ \/ type = "unsent" /\ x # handle
       \/ type # kind /\ x = NoPlace
    /\ CuratorBegins(h, [pc |-> "update", had |-> handle, type |-> type, slug |-> x])

\* Mutant: the slug that a collection gives up is not told.
NewSlug(had, x) == {x}

\* The slugs an update tells.
UpdateTags(had, x) == {had, x}

\* The links stay when a collection turns AUTO.
UpdateCollection(h) ==
    LET c == curator[h] IN
    /\ GoesOn
    /\ c.pc = "update"
    /\ kind' = IF c.type = "unsent" THEN kind ELSE c.type
    /\ handle' = IF c.slug = NoPlace THEN handle ELSE c.slug
    /\ Revalidate(c.had, UpdateTags(c.had, handle'))
    /\ Curates(h, Idle)
    /\ UNCHANGED <<member, onSale, membersMixed>>

FindForRemoval(h) == CuratorBegins(h, [pc |-> "remove", had |-> handle])

\* The links go with the collection, and what is in flight for it will fail.
RemoveCollection(h) ==
    /\ GoesOn
    /\ curator[h].pc = "remove"
    /\ kind' = "none" /\ handle' = NoPlace
    /\ member' = [m \in Members |-> NoPlace]
    /\ Revalidate(curator[h].had, {curator[h].had})
    /\ curator' = [g \in Curators |-> Idle]
    /\ UNCHANGED <<onSale, membersMixed>>

\* attachProducts: the last place is read before the transaction.
ReadLastPlace(h, list) ==
    ManualBegins(h, [pc |-> "attach", had |-> handle, list |-> list, place |-> NextPlace(member)])

\* Every product of the list takes the next place, and is left alone if it is
\* linked already, perhaps by the list itself.
Linked(list, place) ==
    LET first(m) == CHOOSE k \in 1..Len(list) : list[k] = m /\ \A j \in 1..(k-1) : list[j] # m IN
    [m \in Members |->
        IF member[m] = NoPlace /\ \E k \in 1..Len(list) : list[k] = m
        THEN place + first(m) - 1
        ELSE member[m]]

\* Another request is about to link products.
LinkingElsewhere(h) == \E g \in Curators \ {h} : curator[g].pc = "attach"

AttachProducts(h) ==
    LET c == curator[h] IN
    /\ GoesOn
    /\ c.pc = "attach"
    /\ Curates(h, Idle)
    /\ member' = Linked(c.list, c.place)
    /\ membersMixed' = (membersMixed \/ LinkingElsewhere(h))
    /\ Revalidate(c.had, {c.had})
    /\ UNCHANGED <<kind, handle, onSale>>

\* "La lista debe contener exactamente los productos vinculados": as many, and each
\* of them linked, though one may be there twice.
MatchesLinked(list) ==
    /\ Len(list) = Cardinality(Placed(member))
    /\ \A k \in 1..Len(list) : list[k] \in Placed(member)

CheckOrder(h, list) ==
    /\ MatchesLinked(list)
    /\ ManualBegins(h, [pc |-> "reorder", had |-> handle, list |-> list])

\* The transaction, rolled back when a product of the list is not linked any more.
ReorderProducts(h) ==
    LET c == curator[h] IN
    /\ GoesOn
    /\ c.pc = "reorder"
    /\ IF \A k \in 1..Len(c.list) : member[c.list[k]] # NoPlace
       THEN /\ member' = Reordered(member, c.list)
            /\ membersMixed' = (membersMixed \/ Mixes(member, c.list))
            /\ Revalidate(c.had, {c.had})
       ELSE UNCHANGED <<member, membersMixed, collectionPageVars>>
    /\ Curates(h, Idle)
    /\ UNCHANGED <<kind, handle, onSale>>

FindLink(h, m) ==
    /\ member[m] # NoPlace
    /\ ManualBegins(h, [pc |-> "detach", had |-> handle, product |-> m])

\* Nothing is deleted or told, and an error answered, when the link is gone.
DetachProduct(h) ==
    LET c == curator[h] IN
    /\ GoesOn
    /\ c.pc = "detach"
    /\ IF member[c.product] # NoPlace
       THEN member' = [member EXCEPT ![c.product] = NoPlace] /\ Revalidate(c.had, {c.had})
       ELSE UNCHANGED <<member, collectionPageVars>>
    /\ Curates(h, Idle)
    /\ UNCHANGED <<kind, handle, onSale, membersMixed>>

CuratorsStop ==
    /\ curator' = [h \in Curators |-> Idle]
    /\ Kept!AnswersLost
    /\ UNCHANGED <<kind, member, handle, onSale, membersMixed>>

-----------------------------------------------------------------------------
\* A product is put on sale or taken off it.
SaleChanges(m) ==
    /\ Arrives
    /\ onSale' = IF m \in onSale THEN onSale \ {m} ELSE onSale \cup {m}
    /\ UNCHANGED <<kind, member, handle, collectionPageVars, curator, membersMixed>>

\* The places that are answered where those products are off sale.
PlacesBut(off) == [m \in Members |-> IF m \in off THEN NoPlace ELSE member[m]]

\* findBySlug: the row is read.
FindCollectionBySlug ==
    /\ GoesOn
    /\ kind # "none"
    /\ Kept!Asks(handle, [type |-> kind, listed |-> FALSE,
                          places |-> [m \in Members |-> NoPlace], off |-> {}])
    /\ UNCHANGED <<kind, member, handle, onSale, curator, membersMixed>>

\* resolveManual and resolveAuto, by the type of the row that was read.  A row with a
\* change since may be gone, and have no products.  Rules are not told apart.
ResolveProducts(x) ==
    LET off == Placed(member) \ onSale IN
    /\ GoesOn
    /\ collectionAsked[x] # NoPlace /\ ~collectionAsked[x].listed
    /\ \/ /\ collectionAsked[x].type = "MANUAL"
          /\ collectionAsked' = [collectionAsked EXCEPT
                ![x].listed = TRUE, ![x].places = PlacesBut(off), ![x].off = off]
       \/ /\ collectionAsked[x].type = "AUTO" \/ x \in collectionBehind
          /\ collectionAsked' = [collectionAsked EXCEPT ![x].listed = TRUE]
    /\ UNCHANGED <<kind, member, handle, onSale, curator, membersMixed,
                   collectionPage, collectionBehind, collectionSent, collectionMissed>>

\* The answer is stored.
AnswerCollection(x) ==
    /\ GoesOn
    /\ collectionAsked[x] # NoPlace /\ collectionAsked[x].listed
    /\ Kept!Keeps(x)
    /\ UNCHANGED <<kind, member, handle, onSale, curator, membersMixed>>

CollectionRevalidates ==
    /\ GoesOn
    /\ \E x \in Handles : Kept!Revalidates(x) \/ Kept!RevalidationFails(x)
    /\ UNCHANGED <<kind, member, handle, onSale, curator, membersMixed>>

\* No collection, an empty one, or one with every product in some order.
CollectionsInit ==
    /\ kind \in {"none", "MANUAL"}
    /\ member \in [Members -> {NoPlace} \cup 0..(Cardinality(Members) - 1)]
    /\ Placed(member) \in {{}, Members} /\ NoneShared(member)
    /\ kind = "none" => Placed(member) = {}
    /\ handle \in IF kind = "none" THEN {NoPlace} ELSE Handles
    /\ onSale = Members
    /\ collectionPage = [x \in Handles |-> NoPlace] /\ collectionAsked = collectionPage
    /\ collectionBehind = {} /\ collectionSent = {} /\ collectionMissed = {}
    /\ curator = [h \in Curators |-> Idle]
    /\ membersMixed = FALSE

CollectionsStep ==
    \/ \E type \in {"MANUAL", "AUTO"}, x \in Handles : CreateCollection(type, x)
    \/ \E m \in Members : SaleChanges(m)
    \/ FindCollectionBySlug \/ CollectionRevalidates
    \/ \E x \in Handles : ResolveProducts(x) \/ AnswerCollection(x)
    \/ \E h \in Curators :
          \/ \E list \in Lists(Members) : ReadLastPlace(h, list) \/ CheckOrder(h, list)
          \/ \E m \in Members : FindLink(h, m)
          \/ \E x \in Handles : FindForUpdate(h, "unsent", x)
          \/ \E type \in {"MANUAL", "AUTO"} : FindForUpdate(h, type, NoPlace)
          \/ FindForRemoval(h)
          \/ UpdateCollection(h) \/ RemoveCollection(h)
          \/ AttachProducts(h) \/ ReorderProducts(h) \/ DetachProduct(h)

-----------------------------------------------------------------------------
\* Does an answer under a slug say what the collection is by now, but for products
\* that were off sale when they were listed?
SaysNow(x, answer) ==
    /\ x = handle
    /\ answer.type = kind
    /\ kind = "MANUAL" /\ answer.listed => answer.places = PlacesBut(answer.off)

\* "Tras una mutación admin que afecte al storefront" (revalidation.service.ts): the
\* page kept of a collection has its type and every linked product in its place,
\* and none is kept of a slug it no longer has; or word of a change is on its way,
\* was lost, came before the page, which had been read and not stored yet, or went
\* to the slug a request had read before another renamed it.  Products that were
\* off sale when they were listed are not there: archiving and putting on sale
\* tell no collection.
CollectionPagesAreTrue ==
    \A x \in Handles \ (collectionSent \cup collectionMissed) :
        collectionPage[x] # NoPlace => SaysNow(x, collectionPage[x])
=============================================================================
