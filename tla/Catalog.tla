------------------------------ MODULE Catalog -------------------------------
(***************************************************************************)
(* The operator's side of products (admin-products.service.ts): creation   *)
(* within the quota of the tier, edits, archiving, and the images of one    *)
(* product.  Nothing deletes a product.                                     *)
(***************************************************************************)
EXTENDS Pages, Shelf

CONSTANTS
    Editors,        \* requests that may be in flight at once
    MaxProducts,    \* maxProducts of the tier, negative for no limit
    NoSlug,
    Pictured,       \* the product that has images
    Images

ASSUME CatalogAssumption ==
    /\ IsFiniteSet(Products) /\ IsFiniteSet(Editors) /\ IsFiniteSet(Images)
    /\ MaxProducts \in Int
    /\ NoSlug \notin Slugs
    /\ Pictured \in Products

Status == {"DRAFT", "ACTIVE", "ARCHIVED"}

VARIABLES
    product,        \* the row of each product
    image,          \* the place of each image
    editor,         \* what each request holds between its steps
    imagesMixed     \* history: two images were added at once, or a list was not the images

catalogVars == <<product, image, editor, imagesMixed>>

NoProduct == [status |-> "none", slug |-> NoSlug]
Free == [pc |-> "idle"]

CatalogTypeOK ==
    /\ product \in [Products -> {NoProduct} \cup [status : Status, slug : Slugs]]
    /\ \A p, q \in Products : product[p].slug = product[q].slug /\ p # q => product[p] = NoProduct
    /\ image \in [Images -> {NoPlace} \cup Nat]
    /\ editor \in [Editors -> {Free}
          \cup [pc : {"create"}, slug : Slugs, status : Status]
          \cup [pc : {"archive"}, of : Products, slug : Slugs]
          \cup [pc : {"attach"}, slug : Slugs, place : Nat]
          \cup [pc : {"reorder"}, slug : Slugs, list : Lists(Images)]]
    /\ imagesMixed \in BOOLEAN

Existing == {p \in Products : product[p] # NoProduct}
Active   == {p \in Products : product[p].status = "ACTIVE"}
Taken    == {product[p].slug : p \in Existing}

Edits(h, record) == editor' = [editor EXCEPT ![h] = record]
EditBegins(h, record) == Arrives /\ editor[h] = Free /\ Edits(h, record)

\* revalidate: the tag is sent of a product that is on sale.
Announced(status, slug) == IF status = "ACTIVE" THEN {slug} ELSE {}

-----------------------------------------------------------------------------
\* Mutant: the limit itself may be passed.
OneMore == MaxProducts < 0 \/ Cardinality(Existing) <= MaxProducts

\* assertProductQuota.
QuotaAllows == MaxProducts < 0 \/ Cardinality(Existing) < MaxProducts

\* create: the quota is counted and the slug chosen, given or generated.
CountProducts(h, x, status) ==
    /\ QuotaAllows
    /\ EditBegins(h, [pc |-> "create", slug |-> x, status |-> status])
    /\ UNCHANGED <<product, image, imagesMixed, pageVars>>

\* The insert fails when the slug is taken.
InsertProduct(h, p) ==
    LET e == editor[h] IN
    /\ GoesOn
    /\ e.pc = "create"
    /\ product[p] = NoProduct
    /\ Edits(h, Free)
    /\ IF e.slug \in Taken
       THEN UNCHANGED <<product, pageVars>>
       ELSE /\ product' = [product EXCEPT ![p] = [status |-> e.status, slug |-> e.slug]]
            /\ Dispatch(Announced(e.status, e.slug), {})
    /\ UNCHANGED <<image, imagesMixed>>

\* update: a rename leaves the page of the old slug, and a product taken off sale
\* leaves its own, without a word to the storefront.
UpdateProduct(p, x, status) ==
    LET old == product[p].slug IN
    /\ Arrives
    /\ p \in Existing
    /\ x = old \/ x \notin Taken
    /\ product' = [product EXCEPT ![p] = [status |-> status, slug |-> x]]
    /\ Dispatch(Announced(status, x), ShownAt(p) \ Announced(status, x))
    /\ UNCHANGED <<image, editor, imagesMixed>>

FindForArchive(h, p) ==
    /\ p \in Existing
    /\ EditBegins(h, [pc |-> "archive", of |-> p, slug |-> product[p].slug])
    /\ UNCHANGED <<product, image, imagesMixed, pageVars>>

\* Mutant: the tag is sent as after any other change.
ToldIfActive(slug) == Announced("ARCHIVED", slug)

\* "siempre revalidar: el producto sale del storefront"
ArchiveTags(slug) == {slug}

\* The tag is that of the slug that was read.
Archive(h) ==
    LET e == editor[h]
        current == product[e.of].slug IN
    /\ GoesOn
    /\ e.pc = "archive"
    /\ product' = [product EXCEPT ![e.of].status = "ARCHIVED"]
    /\ Dispatch(ArchiveTags(e.slug), ShownAt(e.of) \cap ({current} \ {e.slug}))
    /\ Edits(h, Free)
    /\ UNCHANGED <<image, imagesMixed>>

-----------------------------------------------------------------------------
(***************************************************************************)
(* Images.                                                                 *)
(***************************************************************************)

\* Mutant: the place after as many images as there are.
CountOfImages == Cardinality(Placed(image))

ImagePlace == NextPlace(image)

\* attachImage: the last place is read.
ReadLastImage(h) ==
    /\ Pictured \in Existing
    /\ EditBegins(h, [pc |-> "attach", slug |-> product[Pictured].slug, place |-> ImagePlace])
    /\ UNCHANGED <<product, image, imagesMixed, pageVars>>

InsertImage(h, i) ==
    LET e == editor[h] IN
    /\ GoesOn
    /\ e.pc = "attach"
    /\ image[i] = NoPlace
    /\ image' = [image EXCEPT ![i] = e.place]
    /\ imagesMixed' = (imagesMixed \/ \E g \in Editors \ {h} : editor[g].pc = "attach")
    /\ Dispatch({e.slug}, {})
    /\ Edits(h, Free)
    /\ UNCHANGED product

\* reorderImages: every image of the list is the product's.
CheckImages(h, list) ==
    /\ Pictured \in Existing
    /\ EditBegins(h, [pc |-> "reorder", slug |-> product[Pictured].slug, list |-> list])
    /\ UNCHANGED <<product, image, imagesMixed, pageVars>>

\* The transaction, rolled back when an image of the list is gone.
ReorderImages(h) ==
    LET e == editor[h] IN
    /\ GoesOn
    /\ e.pc = "reorder"
    /\ IF \A k \in 1..Len(e.list) : image[e.list[k]] # NoPlace
       THEN /\ image' = Reordered(image, e.list)
            /\ imagesMixed' = (imagesMixed \/ Mixes(image, e.list))
            /\ Dispatch({e.slug}, {})
       ELSE UNCHANGED <<image, imagesMixed, pageVars>>
    /\ Edits(h, Free)
    /\ UNCHANGED product

RemoveImage(i) ==
    /\ Arrives
    /\ image[i] # NoPlace
    /\ image' = [image EXCEPT ![i] = NoPlace]
    /\ Dispatch({product[Pictured].slug}, {})
    /\ UNCHANGED <<product, editor, imagesMixed>>

-----------------------------------------------------------------------------
\* Some products on sale, one of them perhaps in draft, and its images in order.
CatalogInit ==
    /\ product \in [Products -> {NoProduct} \cup [status : {"DRAFT", "ACTIVE"}, slug : Slugs]]
    /\ \A p, q \in Products : product[p].slug = product[q].slug /\ p # q => product[p] = NoProduct
    /\ QuotaAllows \/ Cardinality(Existing) = MaxProducts
    /\ image = [i \in Images |-> NoPlace]
    /\ editor = [h \in Editors |-> Free]
    /\ imagesMixed = FALSE

\* The process restarts.
EditorsStop ==
    /\ editor' = [h \in Editors |-> Free]
    /\ AnswersLost
    /\ UNCHANGED <<product, image, imagesMixed>>

CatalogStep ==
    \/ \E h \in Editors :
          \/ \E x \in Slugs, status \in Status : CountProducts(h, x, status)
          \/ \E p \in Products : InsertProduct(h, p) \/ FindForArchive(h, p)
          \/ Archive(h)
          \/ ReadLastImage(h) \/ ReorderImages(h)
          \/ \E i \in Images : InsertImage(h, i)
          \/ \E list \in Lists(Placed(image)) : CheckImages(h, list)
    \/ \E p \in Products, x \in Slugs, status \in Status : UpdateProduct(p, x, status)
    \/ \E i \in Images : RemoveImage(i)

-----------------------------------------------------------------------------
\* "Aplica el límite de productos del tier" (admin-products.service.ts): the count
\* and the insert are two statements, and still the limit is passed by no more
\* than the creations in flight beside the last one that was allowed.
QuotaHolds ==
    MaxProducts >= 0 =>
        Cardinality(Existing) < MaxProducts + Cardinality(Editors)
        \/ Cardinality(Existing) <= MaxProducts
=============================================================================
