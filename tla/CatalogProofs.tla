---------------------------- MODULE CatalogProofs ---------------------------
(***************************************************************************)
(* Theorems about the catalog, its moderation and its carts for every      *)
(* value of their constants.  They are about ShopStep, whatever the parts  *)
(* that share products and pages do; StorefrontProofs lifts them to the     *)
(* whole storefront.                                                       *)
(***************************************************************************)
EXTENDS Moderation, Carts, FiniteSetTheorems, SequenceTheorems, WellFoundedInduction, TLAPS

shopVars == <<catalogVars, pageVars, moderationVars, cartVars>>

\* What the parts that share products do, the restart and the others' steps included.
ShopStep(baskets) ==
    \/ CatalogStep /\ UNCHANGED <<moderationVars, cartVars>>
    \/ (ModerationStep \/ PagesStep) /\ UNCHANGED <<catalogVars, cartVars>>
    \/ CartsStep(baskets) /\ UNCHANGED <<catalogVars, moderationVars>>
    \/ EditorsStop /\ ModeratorsStop /\ ShoppersStop
    \/ UNCHANGED shopVars

-----------------------------------------------------------------------------
(***************************************************************************)
(* Places.                                                                 *)
(***************************************************************************)

\* A finite set of numbers has a largest one: a smallest set without would lose one
\* of its elements and still be without.
LEMMA MaxIsGreatest ==
    ASSUME NEW S, S \subseteq Int, S # {}, IsFiniteSet(S)
    PROVE  Max(S) \in S /\ \A n \in S : n <= Max(S)
<1> DEFINE Bad == {A \in FiniteSubsetsOf(S) : A # {} /\ ~ \E m \in A : \A n \in A : n <= m}
<1>1. Bad = {}
  <2> SUFFICES ASSUME Bad # {} PROVE FALSE
    OBVIOUS
  <2>1. PICK A \in Bad : \A B \in Bad : ~ (<<B, A>> \in StrictSubsetOrdering(S))
    <3>1. IsWellFoundedOn(StrictSubsetOrdering(S), FiniteSubsetsOf(S))
      BY FS_StrictSubsetOrderingWellFounded
    <3> QED
      BY <3>1, WFMin
  <2>2. PICK a \in A : TRUE
    OBVIOUS
  <2>3. A \ {a} \in FiniteSubsetsOf(S)
    BY FS_Subset DEF FiniteSubsetsOf
  <2>4. <<A \ {a}, A>> \in StrictSubsetOrdering(S)
    BY <2>3 DEF StrictSubsetOrdering, FiniteSubsetsOf
  <2>5. A \ {a} \notin Bad
    BY <2>1, <2>4
  <2>6. A \subseteq Int
    BY DEF FiniteSubsetsOf
  <2>7. CASE A \ {a} = {}
    <3>1. \A n \in A : n <= a
      BY <2>6, <2>7
    <3> QED
      BY <3>1, <2>2
  <2>8. CASE A \ {a} # {}
    <3>1. PICK m \in A \ {a} : \A n \in A \ {a} : n <= m
      BY <2>3, <2>5, <2>8
    <3>2. \A n \in A : n <= IF a > m THEN a ELSE m
      BY <2>6, <3>1, <2>2
    <3> QED
      BY <3>2, <2>2, <3>1
  <2> QED
    BY <2>7, <2>8
<1>2. S \in FiniteSubsetsOf(S)
  BY DEF FiniteSubsetsOf
<1>3. \E m \in S : \A n \in S : m >= n
  BY <1>1, <1>2
<1> QED
  BY <1>3 DEF Max

\* A list of things is a sequence of them.
LEMMA ListIsSeq ==
    ASSUME NEW T, IsFiniteSet(T), NEW list \in Lists(T)
    PROVE  list \in Seq(T) /\ Len(list) \in Nat \ {0} /\ DOMAIN list = 1..Len(list)
<1>1. Cardinality(T) \in Nat
  BY FS_CardinalityType
<1>2. PICK n \in 1..Cardinality(T) : list \in [1..n -> T]
  BY DEF Lists
<1>3. n \in Nat \ {0}
  BY <1>1, <1>2
<1>4. list \in Seq(T)
  BY <1>2, <1>3, SeqDef
<1> QED
  BY <1>2, <1>3, <1>4, LenProperties

\* Fewer things have no other lists.
LEMMA ListsGrow ==
    ASSUME NEW T, IsFiniteSet(T), NEW S \in SUBSET T
    PROVE  Lists(S) \subseteq Lists(T)
<1>1. Cardinality(T) \in Nat /\ Cardinality(S) \in Nat /\ Cardinality(S) <= Cardinality(T)
  BY FS_CardinalityType, FS_Subset
<1>2. \A n : [1..n -> S] \subseteq [1..n -> T]
  OBVIOUS
<1> QED
  BY <1>1, <1>2 DEF Lists

\* The places that are taken.
LEMMA PlacesFinite ==
    ASSUME NEW T, IsFiniteSet(T), NEW place \in [T -> {NoPlace} \cup Nat]
    PROVE  /\ Placed(place) \subseteq T /\ IsFiniteSet(Placed(place))
           /\ LET P == {place[t] : t \in Placed(place)} IN P \subseteq Nat /\ IsFiniteSet(P)
<1> DEFINE P == {place[t] : t \in Placed(place)}
           f == [t \in Placed(place) |-> place[t]]
<1>1. Placed(place) \subseteq T /\ \A t \in Placed(place) : place[t] \in Nat
  BY DEF Placed
<1>2. IsFiniteSet(Placed(place))
  BY <1>1, FS_Subset
<1>3. f \in Surjection(Placed(place), P)
  BY DEF Surjection
<1>4. IsFiniteSet(P)
  BY <1>2, <1>3, FS_Surjection
<1> QED
  BY <1>1, <1>2, <1>4

\* The next place is after all that are taken.
LEMMA NextIsLast ==
    ASSUME NEW T, IsFiniteSet(T), NEW place \in [T -> {NoPlace} \cup Nat]
    PROVE  NextPlace(place) \in Nat /\ \A t \in Placed(place) : place[t] < NextPlace(place)
<1> DEFINE P == {place[t] : t \in Placed(place)}
<1>1. P \subseteq Nat /\ IsFiniteSet(P)
  BY PlacesFinite
<1>2. CASE Placed(place) = {}
  BY <1>2 DEF NextPlace
<1>3. CASE Placed(place) # {}
  <2>1. P # {}
    BY <1>3
  <2>3. NextPlace(place) = Max(P) + 1
    BY <1>3 DEF NextPlace
  <2>4. \A t \in Placed(place) : place[t] \in P
    OBVIOUS
  <2> HIDE DEF P
  <2>2. Max(P) \in P /\ \A n \in P : n <= Max(P)
    <3>1. P \subseteq Int
      BY <1>1
    <3> QED
      BY <1>1, <2>1, <3>1, MaxIsGreatest
  <2>5. Max(P) \in Nat
    BY <1>1, <2>2
  <2>6. \A t \in Placed(place) : place[t] \in Nat /\ place[t] <= Max(P)
    BY <1>1, <2>2, <2>4
  <2> QED
    BY <2>3, <2>5, <2>6
<1> QED
  BY <1>2, <1>3

\* Putting things in order keeps places places, and gives a thing of the list one
\* of its places there.
LEMMA ReorderedPlaces ==
    ASSUME NEW T, IsFiniteSet(T), NEW place \in [T -> {NoPlace} \cup Nat], NEW list \in Lists(T)
    PROVE  /\ Reordered(place, list) \in [T -> {NoPlace} \cup Nat]
           /\ \A t \in T :
                IF \E k \in 1..Len(list) : list[k] = t
                THEN \E k \in 1..Len(list) : list[k] = t /\ Reordered(place, list)[t] = k - 1
                ELSE Reordered(place, list)[t] = place[t]
<1> DEFINE at(t) == {k \in 1..Len(list) : list[k] = t}
<1>1. Len(list) \in Nat
  BY ListIsSeq
<1>2. ASSUME NEW t \in T, at(t) # {} PROVE Max(at(t)) \in at(t)
  <2>0. IsFiniteSet(1..Len(list)) /\ 1..Len(list) \subseteq Int
    BY <1>1, FS_Interval
  <2>1. at(t) \in SUBSET (1..Len(list))
    OBVIOUS
  <2>2. IsFiniteSet(at(t)) /\ at(t) \subseteq Int
    BY <2>0, <2>1, FS_Subset
  <2> HIDE DEF at
  <2> QED
    BY <1>2, <2>2, MaxIsGreatest
<1>3. Reordered(place, list) = [t \in T |-> IF at(t) = {} THEN place[t] ELSE Max(at(t)) - 1]
  BY DEF Reordered
<1>5. \A t \in T : at(t) # {} => Max(at(t)) \in 1..Len(list) /\ list[Max(at(t))] = t
  BY <1>2
<1>6. \A t \in T : at(t) = {} <=> ~ \E k \in 1..Len(list) : list[k] = t
  OBVIOUS
<1> HIDE DEF at
<1>7. \A t \in T : at(t) # {} => Max(at(t)) - 1 \in Nat
  BY <1>1, <1>5
<1> QED
  BY <1>3, <1>5, <1>6, <1>7

-----------------------------------------------------------------------------
(***************************************************************************)
(* Types.  Those of the tags need that what is named exists: the product    *)
(* of an edit in flight, of an image, a review or a variant.  Products are   *)
(* never deleted, so what existed when it was read still does.              *)
(***************************************************************************)

ProductRow == [status : Status, slug : Slugs]
Creates    == [pc : {"create"}, slug : Slugs, status : Status]
Archives   == [pc : {"archive"}, of : Products, slug : Slugs]
Attaches   == [pc : {"attach"}, slug : Slugs, place : Nat]
Reorders   == [pc : {"reorder"}, slug : Slugs, list : Lists(Images)]
Edit       == {Free} \cup Creates \cup Archives \cup Attaches \cup Reorders

CatalogKnows ==
    /\ \A h \in Editors : editor[h].pc = "archive" => editor[h].of \in Existing
    /\ \A h \in Editors : editor[h].pc = "attach" => Pictured \in Existing
    /\ Placed(image) # {} => Pictured \in Existing

CatalogInv == CatalogTypeOK /\ PagesTypeOK /\ CatalogKnows

LEMMA EditShape ==
    /\ Free \in Edit /\ Free.pc = "idle"
    /\ \A e \in Edit :
          /\ e.pc = "create" => e \in Creates
          /\ e.pc = "archive" => e \in Archives
          /\ e.pc = "attach" => e \in Attaches
          /\ e.pc = "reorder" => e \in Reorders
          /\ e.pc = "idle" <=> e = Free
BY DEF Edit, Free, Creates, Archives, Attaches, Reorders

\* A product exists or has no row, and no two have one slug.
LEMMA RowsOfProducts ==
    ASSUME CatalogTypeOK
    PROVE  /\ editor \in [Editors -> Edit]
           /\ product \in [Products -> {NoProduct} \cup ProductRow]
           /\ NoProduct \notin ProductRow /\ NoProduct.status \notin Status /\ NoProduct.slug = NoSlug
           /\ \A p \in Products : p \in Existing <=> product[p] \in ProductRow
           /\ \A p \in Existing : product[p].slug \in Slugs /\ product[p].status \in Status
           /\ Active \subseteq Existing /\ Existing \subseteq Products
           /\ \A p, q \in Existing : product[p].slug = product[q].slug => p = q
<1>1. editor \in [Editors -> Edit] /\ product \in [Products -> {NoProduct} \cup ProductRow]
  BY DEF CatalogTypeOK, Edit, Creates, Archives, Attaches, Reorders, ProductRow
<1>2. NoProduct \notin ProductRow /\ NoProduct.status \notin Status /\ NoProduct.slug = NoSlug
  BY DEF NoProduct, ProductRow, Status
<1>3. \A p \in Products : p \in Existing <=> product[p] \in ProductRow
  BY <1>1, <1>2 DEF Existing
<1>4. Existing \subseteq Products
  BY DEF Existing
<1>5. \A p \in Existing : product[p].slug \in Slugs /\ product[p].status \in Status
  BY <1>3, <1>4 DEF ProductRow
<1>6. Active \subseteq Existing
  BY <1>2 DEF Active, Existing, Status
<1>7. \A p, q \in Existing : product[p].slug = product[q].slug => p = q
  BY <1>4 DEF CatalogTypeOK, Existing
<1> QED
  BY <1>1, <1>2, <1>3, <1>4, <1>5, <1>6, <1>7

LEMMA DispatchType ==
    ASSUME PagesTypeOK, NEW told \in SUBSET Slugs, NEW left \in SUBSET Slugs, Dispatch(told, left)
    PROVE  PagesTypeOK'
BY DEF PagesTypeOK, Dispatch

\* A request that reads and goes on later.
LEMMA EditBeginsType ==
    ASSUME CatalogInv, NEW h \in Editors, NEW e \in Edit, Edits(h, e),
           e.pc = "archive" => e.of \in Existing,
           e.pc = "attach" => Pictured \in Existing,
           UNCHANGED <<product, image, imagesMixed, pageVars>>
    PROVE  CatalogInv'
<1>1. editor' = [editor EXCEPT ![h] = e]
  BY DEF Edits
<1>2. CatalogTypeOK'
  <2>1. editor' \in [Editors -> Edit]
    BY <1>1, RowsOfProducts DEF CatalogInv
  <2> QED
    BY <2>1 DEF CatalogInv, CatalogTypeOK, Edit, Creates, Archives, Attaches, Reorders
<1>3. CatalogKnows'
  BY <1>1, RowsOfProducts DEF CatalogInv, CatalogKnows, Existing, Placed
<1> QED
  BY <1>2, <1>3 DEF CatalogInv, PagesTypeOK, pageVars

LEMMA FindsType ==
    ASSUME CatalogInv, NEW h \in Editors,
           \/ \E x \in Slugs, status \in Status : CountProducts(h, x, status)
           \/ \E p \in Products : FindForArchive(h, p)
           \/ ReadLastImage(h)
           \/ \E list \in Lists(Placed(image)) : CheckImages(h, list)
    PROVE  CatalogInv'
<1>1. ASSUME NEW x \in Slugs, NEW status \in Status, CountProducts(h, x, status)
      PROVE  CatalogInv'
  <2> DEFINE e == [pc |-> "create", slug |-> x, status |-> status]
  <2>1. e \in Edit /\ e.pc = "create"
    BY DEF Edit, Creates
  <2>2. Edits(h, e) /\ UNCHANGED <<product, image, imagesMixed, pageVars>>
    BY <1>1 DEF CountProducts, EditBegins
  <2> HIDE DEF e
  <2> QED
    BY <2>1, <2>2, EditBeginsType
<1>2. ASSUME NEW p \in Products, FindForArchive(h, p)
      PROVE  CatalogInv'
  <2> DEFINE e == [pc |-> "archive", of |-> p, slug |-> product[p].slug]
  <2>1. p \in Existing /\ Edits(h, e) /\ UNCHANGED <<product, image, imagesMixed, pageVars>>
    BY <1>2 DEF FindForArchive, EditBegins
  <2>2. e \in Edit /\ e.pc = "archive" /\ e.of = p
    BY <2>1, RowsOfProducts DEF CatalogInv, Edit, Archives
  <2> HIDE DEF e
  <2> QED
    BY <2>1, <2>2, EditBeginsType
<1>3. ASSUME ReadLastImage(h) PROVE CatalogInv'
  <2> DEFINE e == [pc |-> "attach", slug |-> product[Pictured].slug, place |-> ImagePlace]
  <2>1. Pictured \in Existing /\ Edits(h, e) /\ UNCHANGED <<product, image, imagesMixed, pageVars>>
    BY <1>3 DEF ReadLastImage, EditBegins
  <2>2. ImagePlace \in Nat
    BY NextIsLast, CatalogAssumption DEF CatalogInv, CatalogTypeOK, ImagePlace
  <2>3. e \in Edit /\ e.pc = "attach"
    BY <2>1, <2>2, RowsOfProducts DEF CatalogInv, Edit, Attaches
  <2> HIDE DEF e
  <2> QED
    BY <2>1, <2>3, EditBeginsType
<1>4. ASSUME NEW list \in Lists(Placed(image)), CheckImages(h, list)
      PROVE  CatalogInv'
  <2> DEFINE e == [pc |-> "reorder", slug |-> product[Pictured].slug, list |-> list]
  <2>1. Pictured \in Existing /\ Edits(h, e) /\ UNCHANGED <<product, image, imagesMixed, pageVars>>
    BY <1>4 DEF CheckImages, EditBegins
  <2>2. list \in Lists(Images)
    BY PlacesFinite, ListsGrow, CatalogAssumption DEF CatalogInv, CatalogTypeOK
  <2>3. e \in Edit /\ e.pc = "reorder"
    BY <2>1, <2>2, RowsOfProducts DEF CatalogInv, Edit, Reorders
  <2> HIDE DEF e
  <2> QED
    BY <2>1, <2>3, EditBeginsType
<1> QED
  BY <1>1, <1>2, <1>3, <1>4

\* A row is written, and the request that wrote it ends.
LEMMA WriteRowType ==
    ASSUME CatalogInv, NEW p \in Products, NEW row \in ProductRow,
           \A q \in Existing : product[q].slug = row.slug => q = p,
           product' = [product EXCEPT ![p] = row],
           editor' = editor \/ \E h \in Editors : Edits(h, Free),
           UNCHANGED <<image, imagesMixed>>
    PROVE  CatalogTypeOK' /\ CatalogKnows' /\ Existing' = Existing \cup {p}
<1>1. \A q \in Products : product'[q] = IF q = p THEN row ELSE product[q]
  BY RowsOfProducts DEF CatalogInv
<1>2. Existing' = Existing \cup {p}
  BY <1>1, RowsOfProducts DEF CatalogInv, Existing
<1>3. product' \in [Products -> {NoProduct} \cup ProductRow]
  BY RowsOfProducts DEF CatalogInv
<1>4. editor' \in [Editors -> Edit] /\ \A h \in Editors : editor'[h] \in {editor[h], Free}
  BY EditShape, RowsOfProducts DEF CatalogInv, Edits
<1>5. ASSUME NEW q \in Products, NEW r \in Products, product'[q].slug = product'[r].slug, q # r
      PROVE  product'[q] = NoProduct
  <2>1. row.slug \in Slugs /\ NoProduct.slug \notin Slugs
    BY RowsOfProducts, CatalogAssumption DEF CatalogInv, ProductRow
  <2>2. \A s \in Products \ Existing : product[s] = NoProduct
    BY DEF Existing
  <2> QED
    BY <1>1, <1>5, <2>1, <2>2, RowsOfProducts DEF CatalogInv
<1>6. CatalogTypeOK'
  BY <1>3, <1>4, <1>5 DEF CatalogInv, CatalogTypeOK, Edit, Creates, Archives, Attaches, Reorders, ProductRow
<1>7. CatalogKnows'
  BY <1>2, <1>4, EditShape DEF CatalogInv, CatalogKnows, Placed
<1> QED
  BY <1>2, <1>6, <1>7

LEMMA InsertProductType ==
    ASSUME CatalogInv, NEW h \in Editors, NEW p \in Products, InsertProduct(h, p)
    PROVE  CatalogInv'
<1> DEFINE e == editor[h]
           row == [status |-> e.status, slug |-> e.slug]
<1>1. e \in Creates /\ row \in ProductRow /\ row.slug = e.slug
  BY EditShape, RowsOfProducts DEF InsertProduct, CatalogInv, Creates, ProductRow
<1>2. Edits(h, Free)
  BY DEF InsertProduct
<1>3. CASE e.slug \in Taken
  BY <1>2, <1>3, EditBeginsType, EditShape DEF InsertProduct
<1>4. CASE e.slug \notin Taken
  <2>1. product' = [product EXCEPT ![p] = row] /\ UNCHANGED <<image, imagesMixed>>
        /\ Dispatch(Announced(e.status, e.slug), {})
    BY <1>4 DEF InsertProduct
  <2>2. \A q \in Existing : product[q].slug # row.slug
    BY <1>1, <1>4 DEF Taken
  <2>3. Announced(e.status, e.slug) \in SUBSET Slugs
    BY <1>1 DEF Announced, Creates
  <2>4. PagesTypeOK'
    BY <2>1, <2>3, DispatchType DEF CatalogInv
  <2> HIDE DEF row
  <2> QED
    BY <1>1, <1>2, <2>1, <2>2, <2>4, WriteRowType DEF CatalogInv
<1> QED
  BY <1>3, <1>4

LEMMA UpdateProductType ==
    ASSUME CatalogInv, NEW p \in Products, NEW x \in Slugs, NEW status \in Status,
           UpdateProduct(p, x, status)
    PROVE  CatalogInv'
<1> DEFINE row == [status |-> status, slug |-> x]
<1>1. row \in ProductRow /\ row.slug = x
  BY DEF ProductRow
<1>2. p \in Existing /\ product' = [product EXCEPT ![p] = row] /\ UNCHANGED <<image, imagesMixed, editor>>
      /\ Dispatch(Announced(status, x), ShownAt(p) \ Announced(status, x))
  BY DEF UpdateProduct
<1>3. \A q \in Existing : product[q].slug = row.slug => q = p
  BY <1>1, <1>2, RowsOfProducts DEF UpdateProduct, Taken, CatalogInv
<1>4. PagesTypeOK'
  BY <1>2, DispatchType DEF CatalogInv, Announced, ShownAt
<1> HIDE DEF row
<1> QED
  BY <1>1, <1>2, <1>3, <1>4, WriteRowType DEF CatalogInv

LEMMA ArchiveType ==
    ASSUME CatalogInv, NEW h \in Editors, Archive(h)
    PROVE  CatalogInv'
<1> DEFINE e == editor[h]
           row == [status |-> "ARCHIVED", slug |-> product[e.of].slug]
<1>1. e \in Archives /\ e.of \in Existing
  BY EditShape, RowsOfProducts DEF Archive, CatalogInv, CatalogKnows
<1>2. row \in ProductRow /\ row.slug = product[e.of].slug
  BY <1>1, RowsOfProducts DEF CatalogInv, ProductRow, Status
<1>3. product' = [product EXCEPT ![e.of] = row]
  <2>1. product[e.of] \in ProductRow
    BY <1>1, RowsOfProducts DEF CatalogInv, Archives
  <2>2. [product[e.of] EXCEPT !.status = "ARCHIVED"] = row
    BY <2>1 DEF ProductRow
  <2>3. product' = [product EXCEPT ![e.of] = [product[e.of] EXCEPT !.status = "ARCHIVED"]]
    BY DEF Archive
  <2> QED
    BY <2>2, <2>3
<1>4. /\ Edits(h, Free) /\ UNCHANGED <<image, imagesMixed>>
      /\ Dispatch({e.slug}, ShownAt(e.of) \cap ({product[e.of].slug} \ {e.slug}))
  BY DEF Archive, ArchiveTags
<1>5. PagesTypeOK'
  BY <1>1, <1>4, DispatchType DEF CatalogInv, ShownAt, Archives
<1>6. \A q \in Existing : product[q].slug = row.slug => q = e.of
  BY <1>1, <1>2, RowsOfProducts DEF CatalogInv
<1> HIDE DEF row
<1> QED
  BY <1>1, <1>2, <1>3, <1>4, <1>5, <1>6, WriteRowType DEF CatalogInv, Archives

\* The images: at every new place there is a number.
LEMMA InsertImageType ==
    ASSUME CatalogInv, NEW h \in Editors, NEW i \in Images, InsertImage(h, i)
    PROVE  CatalogInv'
<1> DEFINE e == editor[h]
<1>1. e \in Attaches /\ Pictured \in Existing
  BY EditShape, RowsOfProducts DEF InsertImage, CatalogInv, CatalogKnows
<1>2. /\ image' = [image EXCEPT ![i] = e.place] /\ editor' = [editor EXCEPT ![h] = Free]
      /\ imagesMixed' \in BOOLEAN /\ Dispatch({e.slug}, {}) /\ UNCHANGED product
  BY DEF InsertImage, Edits, CatalogInv, CatalogTypeOK
<1>3. PagesTypeOK'
  BY <1>1, <1>2, DispatchType DEF CatalogInv, Attaches
<1>4. CatalogTypeOK'
  <2>1. editor' \in [Editors -> Edit]
    BY <1>2, EditShape, RowsOfProducts DEF CatalogInv
  <2>2. image' \in [Images -> {NoPlace} \cup Nat]
    BY <1>1, <1>2 DEF CatalogInv, CatalogTypeOK, Attaches
  <2> QED
    BY <1>2, <2>1, <2>2 DEF CatalogInv, CatalogTypeOK, Edit, Creates, Archives, Attaches, Reorders
<1>5. CatalogKnows'
  BY <1>1, <1>2, EditShape, RowsOfProducts DEF CatalogInv, CatalogKnows, Existing
<1> QED
  BY <1>3, <1>4, <1>5 DEF CatalogInv

LEMMA ReorderImagesType ==
    ASSUME CatalogInv, NEW h \in Editors, ReorderImages(h)
    PROVE  CatalogInv'
<1> DEFINE e == editor[h]
<1>1. e \in Reorders
  BY EditShape, RowsOfProducts DEF ReorderImages, CatalogInv
<1>2. /\ editor' = [editor EXCEPT ![h] = Free] /\ UNCHANGED product
      /\ \/ image' = Reordered(image, e.list) /\ imagesMixed' \in BOOLEAN /\ Dispatch({e.slug}, {})
         \/ UNCHANGED <<image, imagesMixed, pageVars>>
  BY DEF ReorderImages, Edits, CatalogInv, CatalogTypeOK
<1>3. PagesTypeOK'
  <2>1. ASSUME Dispatch({e.slug}, {}) PROVE PagesTypeOK'
    BY <1>1, <2>1, DispatchType DEF CatalogInv, Reorders
  <2>2. ASSUME UNCHANGED pageVars PROVE PagesTypeOK'
    BY <2>2 DEF CatalogInv, PagesTypeOK, pageVars
  <2> QED
    BY <1>2, <2>1, <2>2
<1>4. /\ image' \in [Images -> {NoPlace} \cup Nat]
      /\ Placed(image') # {} => Placed(image) # {}
  <2>1. CASE image' = Reordered(image, e.list)
    <3>1. /\ image' \in [Images -> {NoPlace} \cup Nat]
          /\ \A t \in Images : ~ (\E k \in 1..Len(e.list) : e.list[k] = t) => image'[t] = image[t]
      BY <1>1, <2>1, ReorderedPlaces, CatalogAssumption DEF CatalogInv, CatalogTypeOK, Reorders
    <3>2. CASE \A k \in 1..Len(e.list) : image[e.list[k]] # NoPlace
      <4>1. Len(e.list) \in Nat \ {0} /\ e.list \in Seq(Images)
        BY <1>1, ListIsSeq, CatalogAssumption DEF Reorders
      <4>2. e.list[1] \in Images /\ image[e.list[1]] # NoPlace
        BY <3>2, <4>1
      <4> QED
        BY <3>1, <4>2 DEF Placed, CatalogInv, CatalogTypeOK
    <3>3. CASE ~ \A k \in 1..Len(e.list) : image[e.list[k]] # NoPlace
      BY <3>3 DEF ReorderImages, CatalogInv, CatalogTypeOK
    <3> QED
      BY <3>1, <3>2, <3>3
  <2>2. CASE UNCHANGED image
    BY <2>2 DEF CatalogInv, CatalogTypeOK
  <2> QED
    BY <1>2, <2>1, <2>2
<1>5. CatalogTypeOK'
  <2>1. editor' \in [Editors -> Edit]
    BY <1>2, EditShape, RowsOfProducts DEF CatalogInv
  <2>2. imagesMixed' \in BOOLEAN
    BY <1>2 DEF CatalogInv, CatalogTypeOK
  <2> QED
    BY <1>2, <1>4, <2>1, <2>2 DEF CatalogInv, CatalogTypeOK, Edit, Creates, Archives, Attaches, Reorders
<1>6. CatalogKnows'
  BY <1>2, <1>4, EditShape, RowsOfProducts DEF CatalogInv, CatalogKnows, Existing
<1> QED
  BY <1>3, <1>5, <1>6 DEF CatalogInv

LEMMA RemoveImageType ==
    ASSUME CatalogInv, NEW i \in Images, RemoveImage(i)
    PROVE  CatalogInv'
<1>1. /\ image' = [image EXCEPT ![i] = NoPlace] /\ Dispatch({product[Pictured].slug}, {})
      /\ UNCHANGED <<product, editor, imagesMixed>>
  BY DEF RemoveImage
<1>2. Pictured \in Existing
  BY DEF RemoveImage, CatalogInv, CatalogKnows, CatalogTypeOK, Placed
<1>3. PagesTypeOK'
  BY <1>1, <1>2, DispatchType, RowsOfProducts DEF CatalogInv
<1>4. CatalogTypeOK'
  BY <1>1 DEF CatalogInv, CatalogTypeOK
<1>5. CatalogKnows'
  BY <1>1, <1>2 DEF CatalogInv, CatalogKnows, Existing
<1> QED
  BY <1>3, <1>4, <1>5 DEF CatalogInv

LEMMA EditorsStopType ==
    ASSUME CatalogInv, EditorsStop
    PROVE  CatalogInv'
<1>1. editor' = [h \in Editors |-> Free] /\ UNCHANGED <<product, image, imagesMixed>>
  BY DEF EditorsStop
<1>2. CatalogTypeOK'
  BY <1>1 DEF CatalogInv, CatalogTypeOK
<1>3. CatalogKnows'
  BY <1>1, EditShape DEF CatalogInv, CatalogKnows, Existing
<1>4. PagesTypeOK'
  BY DEF CatalogInv, PagesTypeOK, EditorsStop, AnswersLost
<1> QED
  BY <1>2, <1>3, <1>4 DEF CatalogInv

LEMMA CatalogStepType ==
    ASSUME CatalogInv, CatalogStep
    PROVE  CatalogInv'
BY FindsType, InsertProductType, UpdateProductType, ArchiveType, InsertImageType,
   ReorderImagesType, RemoveImageType DEF CatalogStep

\* Nothing deletes a product.
LEMMA ExistingStays ==
    ASSUME CatalogInv, CatalogStep \/ UNCHANGED product
    PROVE  Existing \subseteq Existing'
<1>1. CASE UNCHANGED product
  BY <1>1 DEF Existing
<1>2. ASSUME NEW h \in Editors, NEW p \in Products, InsertProduct(h, p) PROVE Existing \subseteq Existing'
  BY <1>2, RowsOfProducts DEF InsertProduct, CatalogInv, Existing
<1>3. ASSUME NEW h \in Editors, Archive(h) PROVE Existing \subseteq Existing'
  <2>1. \A p \in Products : product'[p] = product[p] \/ product'[p] = [product[p] EXCEPT !.status = "ARCHIVED"]
    BY <1>3, RowsOfProducts DEF Archive, CatalogInv
  <2>2. \A p \in Existing : product'[p].status \in Status
    BY <2>1, RowsOfProducts DEF CatalogInv, ProductRow, Status
  <2> QED
    BY <2>2, RowsOfProducts DEF CatalogInv, Existing
<1>4. ASSUME NEW p \in Products, NEW x \in Slugs, NEW status \in Status, UpdateProduct(p, x, status)
      PROVE Existing \subseteq Existing'
  <2>1. [status |-> status, slug |-> x] # NoProduct
    BY DEF NoProduct, Status
  <2> QED
    BY <1>4, <2>1, RowsOfProducts DEF UpdateProduct, CatalogInv, Existing
<1> QED
  BY <1>1, <1>2, <1>3, <1>4
     DEF CatalogStep, CountProducts, FindForArchive, ReadLastImage, ReorderImages, InsertImage,
         CheckImages, RemoveImage

-----------------------------------------------------------------------------
\* Moderation.
Moderated ==
    [pc : {"approve", "reject", "reply"}, review : Reviews,
     status : {"PENDING", "APPROVED", "REJECTED"}, slug : Slugs]

ModerationInv ==
    /\ ModerationTypeOK
    /\ \A r \in Reviews : review[r] # "none" => ReviewOf[r] \in Existing
    /\ \A h \in Moderators : moderator[h].pc # "idle" => review[moderator[h].review] # "none"

LEMMA ModeratedShape ==
    ASSUME ModerationTypeOK
    PROVE  /\ moderator \in [Moderators -> {Free} \cup Moderated]
           /\ Free \notin Moderated
           /\ \A h \in Moderators : moderator[h].pc # "idle" => moderator[h] \in Moderated
BY DEF ModerationTypeOK, Moderated, Free

LEMMA FindReviewType ==
    ASSUME CatalogInv, ModerationInv, NEW h \in Moderators, NEW r \in Reviews,
           NEW pc \in {"approve", "reject", "reply"}, FindReview(h, r, pc)
    PROVE  /\ ModerationTypeOK' /\ PagesTypeOK' /\ UNCHANGED review
           /\ \A g \in Moderators : moderator'[g].pc # "idle" => review'[moderator'[g].review] # "none"
<1> DEFINE m == [pc |-> pc, review |-> r, status |-> review[r], slug |-> SlugOf(r)]
<1>1. SlugOf(r) \in Slugs
  BY RowsOfProducts DEF FindReview, CatalogInv, ModerationInv, SlugOf
<1>2. review[r] \in {"PENDING", "APPROVED", "REJECTED"}
  BY DEF FindReview, ModerationInv, ModerationTypeOK
<1>3. m \in Moderated
  BY <1>1, <1>2 DEF Moderated
<1>4. moderator' = [moderator EXCEPT ![h] = m] /\ UNCHANGED <<review, pageVars>>
  BY DEF FindReview
<1>5. m.review = r
  OBVIOUS
<1> HIDE DEF m
<1>6. ModerationTypeOK' /\ PagesTypeOK'
  BY <1>3, <1>4 DEF ModerationInv, ModerationTypeOK, Moderated, CatalogInv, PagesTypeOK, pageVars
<1>7. \A g \in Moderators : moderator'[g].pc # "idle" => review'[moderator'[g].review] # "none"
  BY <1>2, <1>4, <1>5 DEF ModerationInv, ModerationTypeOK
<1> QED
  BY <1>4, <1>6, <1>7

\* The writes of a moderator: one review, and the tags.
LEMMA ModeratesType ==
    ASSUME CatalogInv, ModerationInv, NEW h \in Moderators, Approve(h) \/ Reject(h) \/ Reply(h)
    PROVE  /\ ModerationTypeOK' /\ PagesTypeOK'
           /\ \A r \in Reviews : review'[r] # "none" <=> review[r] # "none"
           /\ \A g \in Moderators : moderator'[g].pc # "idle" => moderator'[g] = moderator[g]
<1> DEFINE m == moderator[h]
<1>1. m \in Moderated /\ m.slug \in Slugs /\ m.review \in Reviews /\ review[m.review] # "none"
  BY ModeratedShape DEF ModerationInv, Approve, Reject, Reply, Moderated
<1>2. moderator' = [moderator EXCEPT ![h] = Free]
  BY DEF Approve, Reject, Reply
<1>3. review' = review \/ \E s \in {"APPROVED", "REJECTED"} : review' = [review EXCEPT ![m.review] = s]
  BY DEF Approve, Reject, Reply
<1>4. /\ ModerationTypeOK' /\ \A r \in Reviews : review'[r] # "none" <=> review[r] # "none"
      /\ \A g \in Moderators : moderator'[g].pc # "idle" => moderator'[g] = moderator[g]
  BY <1>1, <1>2, <1>3, EditShape DEF ModerationInv, ModerationTypeOK, Moderated
<1>5. PagesTypeOK'
  <2>1. RejectTags(m) \in SUBSET Slugs /\ Elsewhere(m) \in SUBSET Slugs
    BY <1>1 DEF RejectTags, Elsewhere
  <2>2. CASE Approve(h)
    BY <1>1, <2>2, DispatchType DEF Approve, CatalogInv
  <2>3. CASE Reply(h)
    BY <2>1, <2>3, DispatchType DEF Reply, CatalogInv
  <2>4. CASE Reject(h)
    <3> DEFINE left == Elsewhere(m) \cup
                 IF m.status # "APPROVED" /\ review[m.review] = "APPROVED" THEN {m.slug} ELSE {}
    <3>1. Dispatch(RejectTags(m), left) /\ left \in SUBSET Slugs
      BY <1>1, <2>1, <2>4 DEF Reject
    <3> HIDE DEF left
    <3> QED
      BY <2>1, <3>1, DispatchType DEF CatalogInv
  <2> QED
    BY <2>2, <2>3, <2>4
<1> QED
  BY <1>4, <1>5

\* What the storefront does to its pages.
StorefrontMoves == PagesStep \/ \E x \in Slugs : FindBySlug(x) \/ AnswerBySlug(x)

LEMMA PagesMoveType ==
    ASSUME CatalogInv, StorefrontMoves
    PROVE  PagesTypeOK'
<1>1. ASSUME NEW x \in Slugs, Revalidates(x) \/ RevalidationFails(x) \/ AnswerBySlug(x)
      PROVE  PagesTypeOK'
  BY <1>1 DEF Revalidates, RevalidationFails, AnswerBySlug, Keeps, PagesTypeOK, CatalogInv
<1>2. ASSUME NEW x \in Slugs, FindBySlug(x) PROVE PagesTypeOK'
  <2>1. PICK p \in Active : Asks(x, [of |-> p, reviews |->
                {r \in Reviews : ReviewOf[r] = p /\ review[r] = "APPROVED"}])
    BY <1>2 DEF FindBySlug
  <2>2. p \in Products
    BY DEF Active
  <2>3. [of |-> p, reviews |-> {r \in Reviews : ReviewOf[r] = p /\ review[r] = "APPROVED"}]
            \in [of : Products, reviews : SUBSET Reviews]
    BY <2>2
  <2> QED
    BY <2>1, <2>3 DEF Asks, PagesTypeOK, CatalogInv
<1> QED
  BY <1>1, <1>2 DEF StorefrontMoves, PagesStep

LEMMA ModerationStepType ==
    ASSUME CatalogInv, ModerationInv, ModerationStep \/ PagesStep, UNCHANGED catalogVars
    PROVE  CatalogInv' /\ ModerationInv'
<1>1. /\ Existing' = Existing /\ CatalogTypeOK' /\ CatalogKnows'
  BY DEF CatalogInv, catalogVars, CatalogTypeOK, CatalogKnows, Existing
<1>2. ASSUME NEW r \in Reviews, CreateReview(r) PROVE ModerationInv' /\ PagesTypeOK'
  <2>1. ReviewOf[r] \in Existing
    BY <1>2, RowsOfProducts DEF CreateReview, CatalogInv
  <2>2. /\ review' = [review EXCEPT ![r] = "PENDING"] /\ UNCHANGED <<moderator, pageVars>>
    BY <1>2 DEF CreateReview
  <2>3. ModerationTypeOK' /\ PagesTypeOK'
    BY <2>2 DEF ModerationInv, ModerationTypeOK, CatalogInv, PagesTypeOK, pageVars
  <2> QED
    BY <1>1, <2>1, <2>2, <2>3 DEF ModerationInv, ModerationTypeOK
<1>3. ASSUME NEW h \in Moderators, NEW r \in Reviews, NEW pc \in {"approve", "reject", "reply"},
             FindReview(h, r, pc)
      PROVE  ModerationInv' /\ PagesTypeOK'
  BY <1>1, <1>3, FindReviewType DEF ModerationInv
<1>4. ASSUME NEW h \in Moderators, Approve(h) \/ Reject(h) \/ Reply(h)
      PROVE  ModerationInv' /\ PagesTypeOK'
  <2>1. \A g \in Moderators : moderator[g].pc # "idle" => moderator[g].review \in Reviews
    BY ModeratedShape DEF ModerationInv, Moderated
  <2> QED
    BY <1>1, <1>4, <2>1, ModeratesType DEF ModerationInv
<1>5. ASSUME StorefrontMoves PROVE ModerationInv' /\ PagesTypeOK'
  <2>1. UNCHANGED moderationVars
    BY <1>5 DEF StorefrontMoves, PagesStep, FindBySlug, AnswerBySlug
  <2> QED
    BY <1>1, <1>5, <2>1, PagesMoveType DEF ModerationInv, ModerationTypeOK, moderationVars
<1> QED
  BY <1>1, <1>2, <1>3, <1>4, <1>5 DEF CatalogInv, ModerationStep, StorefrontMoves

-----------------------------------------------------------------------------
(***************************************************************************)
(* Carts.  That a line holds what was asked for is inductive: a write over  *)
(* a line that is not what was read marks the variant, and the limit of a   *)
(* sum is the limit of the sums before it.                                  *)
(***************************************************************************)
Merging == [pc : {"merge"}, items : Seq(Item), valid : SUBSET Variants]
Writing == [pc : {"write"}, items : Seq(Item), valid : SUBSET Variants,
            units : 0..MostUnits, row : Nat]

CartsInv ==
    /\ CartsTypeOK
    /\ CartCountsClicks
    /\ \A v \in offered : VariantOf[v] \in Existing
    /\ \A h \in Shoppers : shopper[h] # Browsing => shopper[h].items # <<>>

LEMMA ShopperShape ==
    ASSUME CartsTypeOK
    PROVE  /\ shopper \in [Shoppers -> {Browsing} \cup Merging \cup Writing]
           /\ \A h \in Shoppers :
                /\ shopper[h].pc = "merge" => shopper[h] \in Merging /\ shopper[h] # Browsing
                /\ shopper[h].pc = "write" => shopper[h] \in Writing /\ shopper[h] # Browsing
BY DEF CartsTypeOK, Merging, Writing, Browsing

\* A list that is not empty starts with an item, and its rest is a list.
LEMMA FirstItem ==
    ASSUME NEW items \in Seq(Item), items # <<>>
    PROVE  /\ items[1] \in Item /\ items[1].variant \in Variants /\ items[1].quantity \in Nat \ {0}
           /\ Len(items) # 1 => Tail(items) \in Seq(Item) /\ Tail(items) # <<>>
<1>1. items[1] \in Item
  BY EmptySeq, ElementOfSeq
<1>2. items[1].variant \in Variants /\ items[1].quantity \in Nat \ {0}
  BY <1>1, CartsAssumption DEF Item
<1>3. Tail(items) \in Seq(Item) /\ (Len(items) # 1 => Len(Tail(items)) # 0)
  BY HeadTailProperties
<1> QED
  BY <1>1, <1>2, <1>3, EmptySeq

\* The sum of what is at most the limit.
LEMMA LimitOfSums ==
    ASSUME NEW w \in Nat, NEW q \in Nat
    PROVE  AtMost(w) \in 0..MostUnits /\ AtMost(AtMost(w) + q) = AtMost(w + q)
BY CartsAssumption DEF AtMost

LEMMA ReadsType ==
    ASSUME CartsInv, NEW h \in Shoppers, NEW items \in Seq(Item), items # <<>>,
           NEW valid \in SUBSET Variants, Reads(h, items, valid),
           UNCHANGED <<offered, line, rows, wanted, overtaken, product>>
    PROVE  CartsInv'
<1> DEFINE s == [pc |-> "write", items |-> items, valid |-> valid,
                 units |-> line[items[1].variant], row |-> rows[items[1].variant]]
<1>1. s \in Writing /\ s.items = items
  BY FirstItem DEF CartsInv, CartsTypeOK, Writing
<1>2. shopper' = [shopper EXCEPT ![h] = s]
  BY DEF Reads, Shops
<1> HIDE DEF s
<1>3. CartsTypeOK'
  BY <1>1, <1>2 DEF CartsInv, CartsTypeOK, Writing
<1> QED
  BY <1>1, <1>2, <1>3 DEF CartsInv, CartCountsClicks, Existing, CartsTypeOK

LEMMA MergeType ==
    ASSUME CartsInv, NEW h \in Shoppers,
           NEW s \in {Browsing} \cup Merging, s # Browsing => s.items # <<>>, Shops(h, s),
           UNCHANGED <<offered, line, rows, wanted, overtaken, product>>
    PROVE  CartsInv'
<1>1. shopper' = [shopper EXCEPT ![h] = s]
  BY DEF Shops
<1>2. CartsTypeOK'
  BY <1>1 DEF CartsInv, CartsTypeOK, Merging
<1> QED
  BY <1>1, <1>2 DEF CartsInv, CartCountsClicks, Existing, CartsTypeOK

LEMMA AddItemKeeps ==
    ASSUME CartsInv, NEW h \in Shoppers, NEW item \in Item, AddItem(h, item), UNCHANGED product
    PROVE  CartsInv'
<1>1. <<item>> \in Seq(Item) /\ <<item>> # <<>> /\ {item.variant} \in SUBSET Variants
  BY DEF Item
<1> QED
  BY <1>1, ReadsType DEF AddItem

LEMMA MergeCartKeeps ==
    ASSUME CartsInv, NEW h \in Shoppers, NEW items \in Seq(Item) \ {<<>>}, MergeCart(h, items),
           UNCHANGED product
    PROVE  CartsInv'
<1> DEFINE s == [pc |-> "merge", items |-> items,
                 valid |-> Available \cap {items[k].variant : k \in 1..Len(items)}]
<1>1. s \in Merging /\ s.items # <<>>
  BY DEF Merging, Available, CartsInv, CartsTypeOK
<1>2. Shops(h, s) /\ UNCHANGED <<offered, line, rows, wanted, overtaken>>
  BY DEF MergeCart
<1> HIDE DEF s
<1> QED
  BY <1>1, <1>2, MergeType

LEMMA MergeNextKeeps ==
    ASSUME CartsInv, NEW h \in Shoppers, MergeNext(h), UNCHANGED product
    PROVE  CartsInv'
<1> DEFINE s == shopper[h]
<1>1. s \in Merging /\ s.items \in Seq(Item) /\ s.items # <<>> /\ s.valid \in SUBSET Variants
  BY ShopperShape DEF MergeNext, CartsInv, Merging
<1>2. UNCHANGED <<offered, line, rows, wanted, overtaken>>
  BY DEF MergeNext
<1>3. CASE s.items[1].variant \in s.valid
  BY <1>1, <1>2, <1>3, ReadsType DEF MergeNext
<1>4. CASE s.items[1].variant \notin s.valid /\ Len(s.items) = 1
  <2>1. Shops(h, Browsing)
    BY <1>4 DEF MergeNext
  <2> QED
    BY <1>2, <2>1, MergeType
<1>5. CASE s.items[1].variant \notin s.valid /\ Len(s.items) # 1
  <2> DEFINE n == [s EXCEPT !.items = Tail(@)]
  <2>1. n \in Merging /\ n.items # <<>>
    BY <1>1, <1>5, FirstItem DEF Merging
  <2>2. Shops(h, n)
    BY <1>5 DEF MergeNext
  <2> HIDE DEF n
  <2> QED
    BY <1>2, <2>1, <2>2, MergeType
<1> QED
  BY <1>3, <1>4, <1>5

LEMMA WriteLineKeeps ==
    ASSUME CartsInv, NEW h \in Shoppers, WriteLine(h), UNCHANGED product
    PROVE  CartsInv'
<1> DEFINE s == shopper[h]
           v == s.items[1].variant
           q == s.items[1].quantity
           n == IF Len(s.items) = 1 THEN Browsing
                ELSE [pc |-> "merge", items |-> Tail(s.items), valid |-> s.valid]
<1>1. /\ s \in Writing /\ s.items \in Seq(Item) /\ s.items # <<>> /\ s.valid \in SUBSET Variants
      /\ s.units \in 0..MostUnits /\ s.row \in Nat
  BY ShopperShape DEF WriteLine, CartsInv, Writing
<1>2. v \in Variants /\ q \in Nat \ {0}
  BY <1>1, FirstItem
<1>3. n \in {Browsing} \cup Merging /\ (n # Browsing => n.items # <<>>)
  BY <1>1, FirstItem DEF Merging
<1>4. CASE ~Found(s, v)
  <2>1. Shops(h, Browsing) /\ UNCHANGED <<offered, line, rows, wanted, overtaken>>
    BY <1>4 DEF WriteLine
  <2> QED
    BY <2>1, MergeType
<1>5. CASE Found(s, v)
  <2>1. /\ line' = [line EXCEPT ![v] = AtMost(s.units + q)]
        /\ rows' = IF s.units > 0 THEN rows ELSE [rows EXCEPT ![v] = @ + 1]
        /\ wanted' = [wanted EXCEPT ![v] = @ + q]
        /\ overtaken' = IF line[v] = s.units THEN overtaken ELSE overtaken \cup {v}
        /\ shopper' = [shopper EXCEPT ![h] = n] /\ UNCHANGED offered
    BY <1>5 DEF WriteLine, Summed, Shops
  <2>2. line[v] \in 0..MostUnits /\ wanted[v] \in Nat /\ rows[v] \in Nat
    BY <1>2 DEF CartsInv, CartsTypeOK
  <2>3. AtMost(s.units + q) \in 0..MostUnits
    <3>1. s.units + q \in Nat
      BY <1>1, <1>2, CartsAssumption
    <3> QED
      BY <3>1, CartsAssumption DEF AtMost
  <2>4. v \in offered
    BY <1>2, <1>5 DEF Found, CartsInv, CartsTypeOK
  <2>5. s.units > 0 => rows[v] > 0
    BY <1>2, <1>5 DEF Found, CartsInv, CartsTypeOK
  <2> HIDE DEF n
  <2>6. CartsTypeOK'
    <3>1. line' \in [Variants -> 0..MostUnits] /\ wanted' \in [Variants -> Nat]
      BY <1>1, <1>2, <2>1, <2>2, <2>3 DEF CartsInv, CartsTypeOK
    <3>2. rows' \in [Variants -> Nat] /\ \A u \in Variants : line'[u] > 0 => rows'[u] > 0
      BY <1>1, <1>2, <2>1, <2>2, <2>3, <2>5 DEF CartsInv, CartsTypeOK
    <3>3. \A u \in Variants \ offered' : line'[u] = 0
      BY <2>1, <2>4 DEF CartsInv, CartsTypeOK
    <3>4. shopper' \in [Shoppers -> {Browsing} \cup Merging \cup Writing]
      BY <1>3, <2>1, ShopperShape DEF CartsInv
    <3>5. overtaken' \in SUBSET Variants /\ offered' \in SUBSET Variants
      BY <1>2, <2>1 DEF CartsInv, CartsTypeOK
    <3> QED
      BY <3>1, <3>2, <3>3, <3>4, <3>5 DEF CartsTypeOK, Merging, Writing
  <2>7. CartCountsClicks'
    <3>1. ASSUME v \notin overtaken' PROVE line'[v] = AtMost(wanted'[v])
      <4>1. line[v] = AtMost(wanted[v]) /\ s.units = line[v]
        BY <1>2, <2>1, <3>1 DEF CartsInv, CartCountsClicks
      <4>2. line'[v] = AtMost(s.units + q) /\ wanted'[v] = wanted[v] + q
        BY <1>2, <2>1 DEF CartsInv, CartsTypeOK
      <4>3. AtMost(AtMost(wanted[v]) + q) = AtMost(wanted[v] + q)
        BY <1>2, <2>2, LimitOfSums
      <4> QED
        BY <4>1, <4>2, <4>3
    <3>2. ASSUME NEW u \in Variants \ overtaken', u # v PROVE line'[u] = AtMost(wanted'[u])
      BY <2>1, <3>2 DEF CartsInv, CartCountsClicks, CartsTypeOK
    <3> QED
      BY <3>1, <3>2 DEF CartCountsClicks, AtMost
  <2> QED
    BY <1>3, <2>1, <2>6, <2>7 DEF CartsInv, Existing, CartsTypeOK
<1> QED
  BY <1>4, <1>5

\* Lines that are deleted hold nothing and were asked nothing.
LEMMA EmptiesKeeps ==
    ASSUME CartsInv, NEW variants \in SUBSET Variants, Empties(variants),
           offered' \in SUBSET Variants, offered' \subseteq offered, offered \subseteq offered' \cup variants,
           UNCHANGED product
    PROVE  CartsInv'
<1>1. /\ line' = [v \in Variants |-> IF v \in variants THEN 0 ELSE line[v]]
      /\ wanted' = [v \in Variants |-> IF v \in variants THEN 0 ELSE wanted[v]]
      /\ overtaken' = overtaken \ variants /\ UNCHANGED <<rows, shopper>>
  BY DEF Empties
<1>2. CartsTypeOK'
  BY <1>1, CartsAssumption DEF CartsInv, CartsTypeOK
<1>3. CartCountsClicks'
  BY <1>1, CartsAssumption DEF CartsInv, CartCountsClicks, AtMost
<1> QED
  BY <1>1, <1>2, <1>3 DEF CartsInv, Existing

LEMMA UpdateItemKeeps ==
    ASSUME CartsInv, NEW v \in Variants, NEW q \in Quantities \cup {0}, UpdateItem(v, q),
           UNCHANGED product
    PROVE  CartsInv'
<1>1. UNCHANGED offered /\ q \in Nat /\ line[v] > 0 /\ v \in offered
  BY CartsAssumption DEF UpdateItem, CartsInv, CartsTypeOK
<1>2. CASE q = 0
  BY <1>1, <1>2, EmptiesKeeps DEF UpdateItem, CartsInv, CartsTypeOK
<1>3. CASE q # 0
  <2>1. /\ line' = [line EXCEPT ![v] = AtMost(q)] /\ wanted' = [wanted EXCEPT ![v] = q]
        /\ overtaken' = overtaken \ {v} /\ UNCHANGED <<rows, shopper>>
    BY <1>3 DEF UpdateItem
  <2>2. AtMost(q) \in 0..MostUnits
    BY <1>1, CartsAssumption DEF AtMost
  <2>3. CartsTypeOK'
    BY <1>1, <2>1, <2>2 DEF CartsInv, CartsTypeOK
  <2>4. CartCountsClicks'
    BY <2>1 DEF CartsInv, CartsTypeOK, CartCountsClicks, AtMost
  <2> QED
    BY <1>1, <2>1, <2>3, <2>4 DEF CartsInv, Existing
<1> QED
  BY <1>2, <1>3

LEMMA SaveVariantKeeps ==
    ASSUME CatalogInv, CartsInv, NEW v \in Variants, SaveVariant(v), UNCHANGED catalogVars
    PROVE  CartsInv' /\ PagesTypeOK'
<1>1. VariantOf[v] \in Existing /\ offered' = offered \cup {v}
      /\ UNCHANGED <<line, rows, shopper, wanted, overtaken, product>>
  BY DEF SaveVariant, catalogVars
<1>2. PagesTypeOK'
  BY <1>1, DispatchType, RowsOfProducts DEF SaveVariant, CatalogInv
<1>3. CartsTypeOK' /\ CartCountsClicks'
  BY <1>1 DEF CartsInv, CartsTypeOK, CartCountsClicks, AtMost
<1> QED
  BY <1>1, <1>2, <1>3 DEF CartsInv, Existing

LEMMA RemoveVariantKeeps ==
    ASSUME CatalogInv, CartsInv, NEW v \in Variants, RemoveVariant(v), UNCHANGED catalogVars
    PROVE  CartsInv' /\ PagesTypeOK'
<1>1. v \in offered /\ offered' = offered \ {v} /\ Empties({v}) /\ UNCHANGED product
  BY DEF RemoveVariant, catalogVars
<1>2. PagesTypeOK'
  BY <1>1, DispatchType, RowsOfProducts DEF RemoveVariant, CatalogInv, CartsInv
<1> QED
  BY <1>1, <1>2, EmptiesKeeps DEF CartsInv, CartsTypeOK

LEMMA CartsStepKeeps ==
    ASSUME CatalogInv, CartsInv, NEW baskets \in SUBSET (Seq(Item) \ {<<>>}),
           CartsStep(baskets), UNCHANGED catalogVars
    PROVE  CatalogInv' /\ CartsInv'
<1>1. UNCHANGED product /\ CatalogTypeOK' /\ CatalogKnows'
  BY DEF CatalogInv, catalogVars, CatalogTypeOK, CatalogKnows, Existing
<1>2. ASSUME UNCHANGED pageVars PROVE PagesTypeOK'
  BY <1>2 DEF CatalogInv, PagesTypeOK, pageVars
<1>3. ASSUME NEW h \in Shoppers,
             \/ \E item \in Item : AddItem(h, item)
             \/ \E items \in baskets : MergeCart(h, items)
             \/ MergeNext(h) \/ WriteLine(h)
      PROVE  CartsInv' /\ UNCHANGED pageVars
  <2>1. UNCHANGED pageVars
    BY <1>3 DEF AddItem, MergeCart, MergeNext, WriteLine
  <2> QED
    BY <1>1, <1>3, <2>1, AddItemKeeps, MergeCartKeeps, MergeNextKeeps, WriteLineKeeps
<1>4. ASSUME NEW v \in Variants, NEW q \in Quantities \cup {0}, UpdateItem(v, q)
      PROVE  CartsInv' /\ UNCHANGED pageVars
  BY <1>1, <1>4, UpdateItemKeeps DEF UpdateItem
<1>5. ASSUME NEW variants \in SUBSET Variants, Empties(variants), UNCHANGED <<offered, pageVars>>
      PROVE  CartsInv' /\ UNCHANGED pageVars
  BY <1>1, <1>5, EmptiesKeeps DEF CartsInv, CartsTypeOK
<1>6. ASSUME NEW v \in Variants, SaveVariant(v) \/ RemoveVariant(v)
      PROVE  CartsInv' /\ PagesTypeOK'
  BY <1>6, SaveVariantKeeps, RemoveVariantKeeps
<1> QED
  BY <1>1, <1>2, <1>3, <1>4, <1>5, <1>6 DEF CatalogInv, CartsStep, RemoveItem, ClearCart

-----------------------------------------------------------------------------
ShopInv == CatalogInv /\ ModerationInv /\ CartsInv

LEMMA ShopStepTypes ==
    ASSUME ShopInv, NEW baskets \in SUBSET (Seq(Item) \ {<<>>}), ShopStep(baskets)
    PROVE  ShopInv'
<1>1. CASE CatalogStep /\ UNCHANGED <<moderationVars, cartVars>>
  <2>1. CatalogInv' /\ Existing \subseteq Existing'
    BY <1>1, CatalogStepType, ExistingStays DEF ShopInv
  <2>2. ModerationInv'
    BY <1>1, <2>1 DEF ShopInv, ModerationInv, ModerationTypeOK, moderationVars
  <2>3. CartsInv'
    BY <1>1, <2>1 DEF ShopInv, CartsInv, CartsTypeOK, CartCountsClicks, AtMost, cartVars
  <2> QED
    BY <2>1, <2>2, <2>3 DEF ShopInv
<1>2. CASE (ModerationStep \/ PagesStep) /\ UNCHANGED <<catalogVars, cartVars>>
  <2>1. CatalogInv' /\ ModerationInv'
    BY <1>2, ModerationStepType DEF ShopInv
  <2>2. CartsInv'
    BY <1>2 DEF ShopInv, CartsInv, CartsTypeOK, CartCountsClicks, AtMost, Existing, cartVars, catalogVars
  <2> QED
    BY <2>1, <2>2 DEF ShopInv
<1>3. CASE CartsStep(baskets) /\ UNCHANGED <<catalogVars, moderationVars>>
  <2>1. CatalogInv' /\ CartsInv'
    BY <1>3, CartsStepKeeps DEF ShopInv
  <2>2. ModerationInv'
    BY <1>3 DEF ShopInv, ModerationInv, ModerationTypeOK, Existing, moderationVars, catalogVars
  <2> QED
    BY <2>1, <2>2 DEF ShopInv
<1>4. CASE EditorsStop /\ ModeratorsStop /\ ShoppersStop
  <2>1. CatalogInv' /\ Existing' = Existing
    BY <1>4, EditorsStopType DEF ShopInv, EditorsStop, Existing
  <2>2. ModerationInv'
    BY <1>4, <2>1, EditShape DEF ShopInv, ModerationInv, ModerationTypeOK, ModeratorsStop
  <2>3. CartsInv'
    BY <1>4, <2>1 DEF ShopInv, CartsInv, CartsTypeOK, CartCountsClicks, AtMost, ShoppersStop
  <2> QED
    BY <2>1, <2>2, <2>3 DEF ShopInv
<1>5. CASE UNCHANGED shopVars
  <2>1. CatalogInv'
    BY <1>5 DEF ShopInv, CatalogInv, CatalogTypeOK, PagesTypeOK, CatalogKnows, Existing, shopVars,
                catalogVars, pageVars
  <2>2. ModerationInv'
    BY <1>5 DEF ShopInv, ModerationInv, ModerationTypeOK, Existing, shopVars, moderationVars, catalogVars
  <2>3. CartsInv'
    BY <1>5 DEF ShopInv, CartsInv, CartsTypeOK, CartCountsClicks, AtMost, Existing, shopVars, cartVars, catalogVars
  <2> QED
    BY <2>1, <2>2, <2>3 DEF ShopInv
<1> QED
  BY <1>1, <1>2, <1>3, <1>4, <1>5 DEF ShopStep

LEMMA ShopInitTypes ==
    ASSUME CatalogInit, ModerationInit, CartsInit
    PROVE  ShopInv
<1>1. CatalogTypeOK
  BY EditShape DEF CatalogInit, CatalogTypeOK, Status, Edit
<1>2. CatalogInv
  <2>1. PagesTypeOK
    BY DEF ModerationInit, PagesTypeOK
  <2>2. CatalogKnows
    BY EditShape DEF CatalogInit, CatalogKnows, Placed
  <2> QED
    BY <1>1, <2>1, <2>2 DEF CatalogInv
<1>3. ModerationInv
  BY EditShape DEF ModerationInit, ModerationInv, ModerationTypeOK
<1>4. CartsInv
  <2>1. CartsTypeOK
    BY CartsAssumption DEF CartsInit, CartsTypeOK
  <2>2. CartCountsClicks
    BY CartsAssumption DEF CartsInit, CartCountsClicks, AtMost
  <2> QED
    BY <2>1, <2>2 DEF CartsInv, CartsInit
<1> QED
  BY <1>2, <1>3, <1>4 DEF ShopInv
-----------------------------------------------------------------------------
(***************************************************************************)
(* What the pages show.  An answer stands as long as no tag was sent for it *)
(* and none left out since: one that is stored until a tag is on its way or  *)
(* lost, one on its way until it is behind.  Of those that stand every change *)
(* takes away what is not so any more.  That they are of products on sale is  *)
(* inductive only together with the slug they are kept under: the tag of an   *)
(* archiving goes to one slug, so a page kept under another would be left.    *)
(***************************************************************************)
Standing(x) ==
    ((IF x \in sent \cup missed THEN {} ELSE {page[x]})
        \cup (IF x \in behind THEN {} ELSE {asked[x]})) \ {NoPage}

\* An answer that was overtaken will be dropped, or is counted as missed.
OvertakenIsTold == behind \subseteq sent \cup missed

ShownOnSale ==
    \A x \in Slugs : \A a \in Standing(x) : a.of \in Active /\ product[a.of].slug = x

ApprovedStand ==
    \A x \in Slugs : \A a \in Standing(x) : \A r \in a.reviews : review[r] = "APPROVED"

PagesInv == OvertakenIsTold /\ ShownOnSale /\ ApprovedStand

LEMMA PagesSay == PagesInv => PagesAreOnSale /\ ReviewsShownAreApproved
BY DEF PagesInv, ShownOnSale, ApprovedStand, Standing, PagesAreOnSale, ReviewsShownAreApproved

\* Tags on their way take no page out of doubt, and nothing that is told stands.
LEMMA TagsLeavePages ==
    ASSUME OvertakenIsTold, NEW told, NEW left, Dispatch(told, left)
    PROVE  /\ OvertakenIsTold'
           /\ \A x \in Slugs : /\ Standing(x)' \subseteq Standing(x)
                               /\ x \in told \cup left => Standing(x)' = {}
BY DEF Dispatch, Standing, OvertakenIsTold

\* What tells nobody leaves what stands.
LEMMA QuietPages ==
    ASSUME OvertakenIsTold,
           UNCHANGED pageVars \/ AnswersLost \/ \E told, left : Dispatch(told, left)
    PROVE  OvertakenIsTold' /\ \A x \in Slugs : Standing(x)' \subseteq Standing(x)
<1>1. CASE UNCHANGED pageVars
  BY <1>1 DEF pageVars, Standing, OvertakenIsTold
<1>2. CASE AnswersLost
  BY <1>2 DEF AnswersLost, Standing, OvertakenIsTold
<1> QED
  BY <1>1, <1>2, TagsLeavePages

\* What the storefront does: it asks for a page as it is now, keeps what it was
\* answered, drops a page when its tag arrives, and a tag may be lost.
LEMMA PagesMove ==
    ASSUME PagesTypeOK, OvertakenIsTold, StorefrontMoves
    PROVE  /\ OvertakenIsTold'
           /\ \A y \in Slugs : \A a \in Standing(y)' :
                 \/ a \in Standing(y)
                 \/ /\ a.of \in Active /\ product[a.of].slug = y
                    /\ \A r \in a.reviews : review[r] = "APPROVED"
<1>1. ASSUME NEW x \in Slugs, Revalidates(x) \/ RevalidationFails(x)
      PROVE  OvertakenIsTold' /\ \A y \in Slugs : Standing(y)' \subseteq Standing(y)
  BY <1>1 DEF Revalidates, RevalidationFails, PagesTypeOK, Standing, OvertakenIsTold
<1>2. ASSUME NEW x \in Slugs, AnswerBySlug(x)
      PROVE  OvertakenIsTold' /\ \A y \in Slugs : Standing(y)' \subseteq Standing(y)
  BY <1>2 DEF AnswerBySlug, Keeps, PagesTypeOK, Standing, OvertakenIsTold
<1>3. ASSUME NEW x \in Slugs, FindBySlug(x)
      PROVE  /\ OvertakenIsTold'
             /\ \A y \in Slugs : \A a \in Standing(y)' :
                   \/ a \in Standing(y)
                   \/ /\ a.of \in Active /\ product[a.of].slug = y
                      /\ \A r \in a.reviews : review[r] = "APPROVED"
  <2> DEFINE answer(p) ==
                [of |-> p, reviews |-> {r \in Reviews : ReviewOf[r] = p /\ review[r] = "APPROVED"}]
  <2>1. PICK p \in Active : product[p].slug = x /\ Asks(x, answer(p))
    BY <1>3 DEF FindBySlug
  <2>2. answer(p).of = p /\ \A r \in answer(p).reviews : review[r] = "APPROVED"
    OBVIOUS
  <2> HIDE DEF answer
  <2>3. \A y \in Slugs : Standing(y)' \subseteq Standing(y) \cup (IF y = x THEN {answer(p)} ELSE {})
    BY <2>1 DEF Asks, PagesTypeOK, Standing
  <2>4. OvertakenIsTold'
    BY <2>1 DEF Asks, OvertakenIsTold
  <2> QED
    BY <2>1, <2>2, <2>3, <2>4
<1> QED
  BY <1>1, <1>2, <1>3 DEF StorefrontMoves, PagesStep

-----------------------------------------------------------------------------
\* Products on sale.
LEMMA TagsKeepSale ==
    ASSUME ShownOnSale, UNCHANGED product, \A x \in Slugs : Standing(x)' \subseteq Standing(x)
    PROVE  ShownOnSale'
BY DEF ShownOnSale, Active

LEMMA EditsKeepSale ==
    ASSUME CatalogInv, OvertakenIsTold, ShownOnSale, CatalogStep
    PROVE  ShownOnSale'
<1>1. ASSUME UNCHANGED product, UNCHANGED pageVars \/ \E told, left : Dispatch(told, left)
      PROVE  ShownOnSale'
  BY <1>1, QuietPages, TagsKeepSale
<1>2. ASSUME NEW h \in Editors, NEW p \in Products, InsertProduct(h, p)
      PROVE  ShownOnSale'
  <2>1. CASE editor[h].slug \in Taken
    BY <1>1, <1>2, <2>1 DEF InsertProduct
  <2>2. CASE editor[h].slug \notin Taken
    <3>1. \A x \in Slugs : Standing(x)' \subseteq Standing(x)
      BY <1>2, <2>2, TagsLeavePages DEF InsertProduct
    <3>2. \A q \in Active : q \in Products /\ product'[q] = product[q]
      BY <1>2, <2>2, RowsOfProducts DEF InsertProduct, CatalogInv, Existing
    <3> QED
      BY <3>1, <3>2 DEF ShownOnSale, Active
  <2> QED
    BY <2>1, <2>2
<1>3. ASSUME NEW p \in Products, NEW y \in Slugs, NEW status \in Status, UpdateProduct(p, y, status)
      PROVE  ShownOnSale'
  <2>1. \A x \in Slugs : Standing(x)' \subseteq Standing(x) /\ (x \in ShownAt(p) => Standing(x)' = {})
    <3>1. /\ Dispatch(Announced(status, y), ShownAt(p) \ Announced(status, y))
          /\ ShownAt(p) \subseteq Announced(status, y) \cup (ShownAt(p) \ Announced(status, y))
      BY <1>3 DEF UpdateProduct
    <3> QED
      BY <3>1, TagsLeavePages
  <2>2. \A q \in Products \ {p} : product'[q] = product[q]
    BY <1>3, RowsOfProducts DEF UpdateProduct, CatalogInv
  <2>3. \A x \in Slugs : \A a \in Standing(x)' : a \in Standing(x) /\ a.of # p
    BY <2>1 DEF ShownAt, Standing
  <2> QED
    BY <2>2, <2>3 DEF ShownOnSale, Active
<1>4. ASSUME NEW h \in Editors, Archive(h)
      PROVE  ShownOnSale'
  <2> DEFINE e == editor[h]
             current == product[e.of].slug
             left == ShownAt(e.of) \cap ({current} \ {e.slug})
  <2>1. \A x \in Slugs : /\ Standing(x)' \subseteq Standing(x)
                         /\ x \in {e.slug} \cup left => Standing(x)' = {}
    <3>1. Dispatch({e.slug}, left)
      BY <1>4 DEF Archive, ArchiveTags
    <3> QED
      BY <3>1, TagsLeavePages
  <2>2. \A q \in Products \ {e.of} : product'[q] = product[q]
    BY <1>4, RowsOfProducts DEF Archive, CatalogInv
  <2>3. \A x \in Slugs : \A a \in Standing(x)' : a \in Standing(x) /\ a.of # e.of
    <3> SUFFICES ASSUME NEW x \in Slugs, NEW a \in Standing(x)', a.of = e.of PROVE FALSE
      BY <2>1
    <3>1. a \in Standing(x) /\ x \notin {e.slug} \cup left
      BY <2>1
    <3>2. x = current
      BY <3>1 DEF ShownOnSale
    <3>3. x \in ShownAt(e.of)
      BY <3>1 DEF ShownAt, Standing
    <3> QED
      BY <3>1, <3>2, <3>3
  <2> HIDE DEF e, current, left
  <2> QED
    BY <2>2, <2>3 DEF ShownOnSale, Active
<1>5. ASSUME NEW h \in Editors, ReorderImages(h)
      PROVE  ShownOnSale'
  BY <1>1, <1>5 DEF ReorderImages
<1> QED
  BY <1>1, <1>2, <1>3, <1>4, <1>5
     DEF CatalogStep, CountProducts, FindForArchive, ReadLastImage, CheckImages, EditBegins,
         InsertImage, RemoveImage

\* What an edit tells, if anything.
LEMMA EditsTagsOnly ==
    ASSUME CatalogStep
    PROVE  UNCHANGED pageVars \/ \E told, left : Dispatch(told, left)
BY DEF CatalogStep, CountProducts, FindForArchive, ReadLastImage, CheckImages, EditBegins,
       InsertProduct, UpdateProduct, Archive, InsertImage, ReorderImages, RemoveImage

LEMMA CartsTagsOnly ==
    ASSUME NEW baskets, CartsStep(baskets)
    PROVE  UNCHANGED pageVars \/ \E told, left : Dispatch(told, left)
BY DEF CartsStep, AddItem, MergeCart, MergeNext, WriteLine, UpdateItem, RemoveItem, SaveVariant,
       RemoveVariant, ClearCart

\* What moderators do but to the pages.
LEMMA ModeratorsTagsOnly ==
    ASSUME ModerationStep
    PROVE  UNCHANGED pageVars \/ StorefrontMoves \/ \E told, left : Dispatch(told, left)
BY DEF ModerationStep, StorefrontMoves, CreateReview, FindReview, Approve, Reject, Reply

LEMMA OvertakenKept ==
    ASSUME NEW baskets, CatalogInv, OvertakenIsTold, ShopStep(baskets)
    PROVE  OvertakenIsTold'
<1>1. CASE StorefrontMoves
  BY <1>1, PagesMove DEF CatalogInv
<1>2. CASE UNCHANGED pageVars \/ AnswersLost \/ \E told, left : Dispatch(told, left)
  BY <1>2, QuietPages
<1> QED
  BY <1>1, <1>2, EditsTagsOnly, ModeratorsTagsOnly, CartsTagsOnly
     DEF ShopStep, StorefrontMoves, EditorsStop, shopVars

LEMMA SaleKept ==
    ASSUME NEW baskets, CatalogInv, OvertakenIsTold, ShownOnSale, ShopStep(baskets)
    PROVE  ShownOnSale'
<1>1. ASSUME UNCHANGED product,
             UNCHANGED pageVars \/ AnswersLost \/ \E told, left : Dispatch(told, left)
      PROVE  ShownOnSale'
  BY <1>1, QuietPages, TagsKeepSale
<1>2. CASE UNCHANGED product /\ StorefrontMoves
  <2>1. Active' = Active
    BY <1>2 DEF Active
  <2>2. \A y \in Slugs : \A a \in Standing(y)' :
            a \in Standing(y) \/ (a.of \in Active /\ product[a.of].slug = y)
    BY <1>2, PagesMove DEF CatalogInv
  <2> QED
    BY <1>2, <2>1, <2>2 DEF ShownOnSale
<1>3. CASE (ModerationStep \/ PagesStep) /\ UNCHANGED <<catalogVars, cartVars>>
  BY <1>1, <1>2, <1>3, ModeratorsTagsOnly DEF catalogVars, StorefrontMoves
<1>4. CASE CartsStep(baskets) /\ UNCHANGED <<catalogVars, moderationVars>>
  BY <1>1, <1>4, CartsTagsOnly DEF catalogVars
<1>5. CASE EditorsStop \/ UNCHANGED shopVars
  BY <1>1, <1>5 DEF EditorsStop, shopVars, catalogVars
<1> QED
  BY <1>3, <1>4, <1>5, EditsKeepSale DEF ShopStep

\* The reviews of a page: a rejection tells the page, or marks it when what it read
\* is not so any more.
LEMMA ReviewsKept ==
    ASSUME NEW baskets, CatalogInv, ModerationInv, OvertakenIsTold, ApprovedStand, ShopStep(baskets)
    PROVE  ApprovedStand'
<1>1. \A x \in Slugs : \A a \in Standing(x) : a.reviews \in SUBSET Reviews
  BY DEF CatalogInv, PagesTypeOK, Standing
<1>2. ASSUME UNCHANGED pageVars \/ AnswersLost \/ \E told, left : Dispatch(told, left), UNCHANGED review
      PROVE  ApprovedStand'
  <2>1. \A x \in Slugs : Standing(x)' \subseteq Standing(x)
    BY <1>2, QuietPages
  <2> QED
    BY <1>2, <2>1 DEF ApprovedStand
<1>3. CASE CatalogStep /\ UNCHANGED moderationVars
  BY <1>2, <1>3, EditsTagsOnly DEF moderationVars
<1>4. CASE StorefrontMoves
  <2>1. UNCHANGED review
    BY <1>4 DEF StorefrontMoves, PagesStep, FindBySlug, AnswerBySlug, moderationVars
  <2>2. \A y \in Slugs : \A a \in Standing(y)' :
            a \in Standing(y) \/ \A r \in a.reviews : review[r] = "APPROVED"
    BY <1>4, PagesMove DEF CatalogInv
  <2> QED
    BY <2>1, <2>2 DEF ApprovedStand
<1>5. ASSUME NEW r \in Reviews, CreateReview(r)
      PROVE  ApprovedStand'
  <2>1. UNCHANGED pageVars /\ review' = [review EXCEPT ![r] = "PENDING"] /\ review[r] = "none"
    BY <1>5 DEF CreateReview
  <2>2. \A x \in Slugs : Standing(x)' = Standing(x)
    BY <2>1 DEF pageVars, Standing
  <2> QED
    BY <2>1, <2>2, <1>1 DEF ApprovedStand, ModerationInv, ModerationTypeOK
<1>6. ASSUME NEW h \in Moderators, Approve(h)
      PROVE  ApprovedStand'
  <2>1. /\ \A x \in Slugs : Standing(x)' \subseteq Standing(x)
        /\ review' = [review EXCEPT ![moderator[h].review] = "APPROVED"]
    BY <1>6, TagsLeavePages DEF Approve
  <2> QED
    BY <2>1, <1>1 DEF ApprovedStand, ModerationInv, ModerationTypeOK
<1>7. ASSUME NEW h \in Moderators, Reject(h)
      PROVE  ApprovedStand'
  <2> DEFINE m == moderator[h]
             late == IF m.status # "APPROVED" /\ review[m.review] = "APPROVED" THEN {m.slug} ELSE {}
  <2>1. /\ review' = [review EXCEPT ![m.review] = "REJECTED"]
        /\ Dispatch(RejectTags(m), Elsewhere(m) \cup late)
    BY <1>7 DEF Reject
  <2>2. \A x \in Slugs : /\ Standing(x)' \subseteq Standing(x)
                         /\ x \in RejectTags(m) \cup (Elsewhere(m) \cup late) => Standing(x)' = {}
    BY <2>1, TagsLeavePages
  <2>3. \A x \in Slugs : \A a \in Standing(x)' : m.review \notin a.reviews
    <3> SUFFICES ASSUME NEW x \in Slugs, NEW a \in Standing(x)', m.review \in a.reviews
                 PROVE  FALSE
      OBVIOUS
    <3>1. a \in Standing(x) /\ x \notin Elsewhere(m) /\ x \notin RejectTags(m) /\ x \notin late
      BY <2>2
    <3>2. x = m.slug
      BY <3>1 DEF Elsewhere, Standing
    <3>3. review[m.review] = "APPROVED"
      BY <3>1 DEF ApprovedStand
    <3> QED
      BY <3>1, <3>2, <3>3 DEF RejectTags
  <2> HIDE DEF m, late
  <2>4. \A x \in Slugs : \A a \in Standing(x)' :
            \A r \in a.reviews : r \in Reviews /\ r # m.review /\ review[r] = "APPROVED"
    BY <1>1, <2>2, <2>3 DEF ApprovedStand
  <2>5. \A x \in Slugs : \A a \in Standing(x)' : \A r \in a.reviews : review'[r] = "APPROVED"
    BY <2>1, <2>4 DEF ModerationInv, ModerationTypeOK
  <2> QED
    BY <2>5 DEF ApprovedStand
<1>8. ASSUME NEW h \in Moderators,
             Reply(h) \/ \E r \in Reviews, pc \in {"approve", "reject", "reply"} : FindReview(h, r, pc)
      PROVE  ApprovedStand'
  BY <1>2, <1>8 DEF Reply, FindReview
<1>9. CASE CartsStep(baskets) /\ UNCHANGED <<catalogVars, moderationVars>>
  BY <1>2, <1>9, CartsTagsOnly DEF moderationVars
<1>10. CASE (EditorsStop /\ ModeratorsStop) \/ UNCHANGED shopVars
  BY <1>2, <1>10 DEF EditorsStop, ModeratorsStop, shopVars, moderationVars
<1> QED
  BY <1>3, <1>4, <1>5, <1>6, <1>7, <1>8, <1>9, <1>10 DEF ShopStep, ModerationStep, StorefrontMoves

\* All three.
LEMMA PagesKept ==
    ASSUME NEW baskets, CatalogInv, ModerationInv, PagesInv, ShopStep(baskets)
    PROVE  PagesInv'
BY OvertakenKept, SaleKept, ReviewsKept DEF PagesInv

LEMMA PagesAtFirst ==
    ASSUME ModerationInit
    PROVE  PagesInv
<1>1. \A x \in Slugs : Standing(x) = {}
  BY DEF ModerationInit, Standing
<1> QED
  BY <1>1 DEF ModerationInit, PagesInv, OvertakenIsTold, ShownOnSale, ApprovedStand

-----------------------------------------------------------------------------
(***************************************************************************)
(* The quota.  A creation in flight was counted as nothing when it was      *)
(* allowed: the products and the creations together stay below the limit    *)
(* and the requests there can be, until all have landed.                    *)
(***************************************************************************)
Creating == {h \in Editors : editor[h].pc = "create"}

QuotaInv ==
    MaxProducts >= 0 =>
        \/ Cardinality(Existing) + Cardinality(Creating) < MaxProducts + Cardinality(Editors)
        \/ Creating = {} /\ Cardinality(Existing) <= MaxProducts

LEMMA FewExist ==
    /\ IsFiniteSet(Existing) /\ Cardinality(Existing) \in Nat
    /\ IsFiniteSet(Creating) /\ Cardinality(Creating) \in Nat
    /\ Cardinality(Creating) <= Cardinality(Editors) /\ Cardinality(Editors) \in Nat
<1>1. Existing \in SUBSET Products /\ Creating \in SUBSET Editors
  BY DEF Existing, Creating
<1> QED
  BY <1>1, FS_Subset, FS_CardinalityType, CatalogAssumption

LEMMA FewWillExist ==
    /\ IsFiniteSet(Existing') /\ Cardinality(Existing') \in Nat
    /\ IsFiniteSet(Creating') /\ Cardinality(Creating') \in Nat
    /\ Cardinality(Creating') <= Cardinality(Editors)
<1>1. Existing' \in SUBSET Products /\ Creating' \in SUBSET Editors
  BY DEF Existing, Creating
<1> QED
  BY <1>1, FS_Subset, FS_CardinalityType, CatalogAssumption

\* A creation is counted.
LEMMA CountKeepsQuota ==
    ASSUME CatalogInv, NEW h \in Editors, NEW x \in Slugs, NEW status \in Status,
           CountProducts(h, x, status)
    PROVE  QuotaInv'
<1>1. Existing' = Existing
  BY DEF CountProducts, Existing
<1>2. MaxProducts >= 0 => Cardinality(Existing) < MaxProducts
  BY FewExist, CatalogAssumption DEF CountProducts, QuotaAllows
<1> QED
  BY <1>1, <1>2, FewExist, FewWillExist, CatalogAssumption DEF QuotaInv

\* A creation lands, or finds its slug taken.
LEMMA InsertKeepsQuota ==
    ASSUME CatalogInv, QuotaInv, NEW h \in Editors, NEW p \in Products, InsertProduct(h, p)
    PROVE  QuotaInv'
<1>1. h \in Creating /\ Creating' = Creating \ {h}
  BY EditShape, RowsOfProducts DEF InsertProduct, Edits, Creating, CatalogInv
<1>2. Cardinality(Creating') = Cardinality(Creating) - 1
  BY <1>1, FewExist, FS_RemoveElement
<1>3. Existing' = Existing \/ (p \notin Existing /\ Existing' = Existing \cup {p})
  BY RowsOfProducts DEF InsertProduct, CatalogInv, Existing
<1>4. Cardinality(Existing') <= Cardinality(Existing) + 1
  <2>1. p \notin Existing => Cardinality(Existing \cup {p}) = Cardinality(Existing) + 1
    BY FewExist, FS_AddElement
  <2> QED
    BY <1>3, <2>1, FewExist
<1> QED
  BY <1>1, <1>2, <1>4, FewExist, FewWillExist, CatalogAssumption DEF QuotaInv

\* Nothing else makes a product or a creation.
LEMMA RestKeepsQuota ==
    ASSUME QuotaInv, Existing' = Existing, Creating' \subseteq Creating
    PROVE  QuotaInv'
<1>1. Cardinality(Creating') <= Cardinality(Creating)
  BY FewExist, FS_Subset
<1> QED
  BY <1>1, FewExist, FewWillExist, CatalogAssumption DEF QuotaInv

LEMMA QuotaKept ==
    ASSUME NEW baskets, CatalogInv, QuotaInv, ShopStep(baskets)
    PROVE  QuotaInv'
<1>1. ASSUME UNCHANGED product, UNCHANGED editor PROVE QuotaInv'
  BY <1>1, RestKeepsQuota DEF Existing, Creating
<1>2. ASSUME NEW h \in Editors, NEW e, editor[h].pc # "create", e.pc # "create", Edits(h, e),
             UNCHANGED product
      PROVE  QuotaInv'
  <2>1. Creating' \subseteq Creating /\ Existing' = Existing
    BY <1>2, RowsOfProducts DEF Edits, Creating, Existing, CatalogInv
  <2> QED
    BY <2>1, RestKeepsQuota
<1>3. ASSUME NEW h \in Editors, Archive(h) PROVE QuotaInv'
  <2>1. Existing \subseteq Existing'
    BY <1>3, ExistingStays DEF CatalogStep
  <2>2. editor[h].of \in Existing /\ \A q \in Products \ {editor[h].of} : product'[q] = product[q]
    BY <1>3, RowsOfProducts DEF Archive, CatalogInv, CatalogKnows
  <2>3. Creating' \subseteq Creating
    BY <1>3, EditShape, RowsOfProducts DEF Archive, Edits, Creating, CatalogInv
  <2> QED
    BY <2>1, <2>2, <2>3, RestKeepsQuota DEF Existing
<1>4. ASSUME NEW p \in Products, NEW x \in Slugs, NEW status \in Status, UpdateProduct(p, x, status)
      PROVE  QuotaInv'
  <2>1. Existing \subseteq Existing'
    BY <1>4, ExistingStays DEF CatalogStep
  <2>2. p \in Existing /\ editor' = editor /\ \A q \in Products \ {p} : product'[q] = product[q]
    BY <1>4, RowsOfProducts DEF UpdateProduct, CatalogInv
  <2> QED
    BY <2>1, <2>2, RestKeepsQuota DEF Existing, Creating
<1>5. ASSUME NEW h \in Editors, NEW p \in Products, FindForArchive(h, p) PROVE QuotaInv'
  BY <1>2, <1>5, EditShape DEF FindForArchive, EditBegins
<1>6. ASSUME NEW h \in Editors, ReadLastImage(h) PROVE QuotaInv'
  BY <1>2, <1>6, EditShape DEF ReadLastImage, EditBegins
<1>7. ASSUME NEW h \in Editors, NEW list, CheckImages(h, list) PROVE QuotaInv'
  BY <1>2, <1>7, EditShape DEF CheckImages, EditBegins
<1>8. ASSUME NEW h \in Editors, ReorderImages(h) \/ \E i \in Images : InsertImage(h, i) PROVE QuotaInv'
  <2>1. editor[h].pc # "create" /\ Edits(h, Free) /\ UNCHANGED product
    BY <1>8 DEF ReorderImages, InsertImage
  <2> QED
    BY <1>2, <2>1, EditShape
<1>9. CASE CatalogStep
  BY <1>1, <1>3, <1>4, <1>5, <1>6, <1>7, <1>8, <1>9, CountKeepsQuota, InsertKeepsQuota
     DEF CatalogStep, RemoveImage
<1>10. CASE EditorsStop
  <2>1. Creating' = {} /\ Existing' = Existing
    BY <1>10, EditShape DEF EditorsStop, Creating, Existing
  <2> QED
    BY <2>1, RestKeepsQuota
<1>11. CASE UNCHANGED catalogVars
  BY <1>1, <1>11 DEF catalogVars
<1> QED
  BY <1>9, <1>10, <1>11 DEF ShopStep, shopVars

LEMMA QuotaAtFirst ==
    ASSUME CatalogInit
    PROVE  QuotaInv
<1>1. Creating = {}
  BY EditShape DEF CatalogInit, Creating
<1>2. MaxProducts >= 0 => Cardinality(Existing) <= MaxProducts
  BY FewExist, CatalogAssumption DEF CatalogInit, QuotaAllows
<1> QED
  BY <1>1, <1>2 DEF QuotaInv

LEMMA QuotaSays == QuotaInv => QuotaHolds
BY FewExist, CatalogAssumption DEF QuotaInv, QuotaHolds

-----------------------------------------------------------------------------
(***************************************************************************)
(* Places are distinct: an image on its way in holds a place after all that *)
(* are taken, which a reordering does not reach since it gives places below   *)
(* the number of images.                                                   *)
(***************************************************************************)

\* Distinct places below a number are no more than that number.
LEMMA DistinctFit ==
    ASSUME NEW T, IsFiniteSet(T), NEW place \in [T -> {NoPlace} \cup Nat], NoneShared(place),
           NEW n \in Nat, \A t \in Placed(place) : place[t] < n
    PROVE  Cardinality(Placed(place)) <= n
<1> DEFINE f == [t \in Placed(place) |-> place[t]]
<1>1. \A t \in Placed(place) : place[t] \in 0..(n - 1)
  BY DEF Placed
<1>2. f \in Injection(Placed(place), 0..(n - 1))
  BY <1>1 DEF NoneShared, Injection, IsInjective
<1>3. IsFiniteSet(0..(n - 1)) /\ Cardinality(0..(n - 1)) = n
  BY FS_Interval
<1> QED
  BY <1>2, <1>3, FS_Injection

\* A list of everything that has a place, once each, gives every one a place of its
\* own below their number.
LEMMA ReorderedDistinct ==
    ASSUME NEW T, IsFiniteSet(T), NEW place \in [T -> {NoPlace} \cup Nat], NEW list \in Lists(T),
           ~ Mixes(place, list)
    PROVE  /\ NoneShared(Reordered(place, list))
           /\ \A t \in Placed(Reordered(place, list)) :
                 Reordered(place, list)[t] < Cardinality(Placed(place))
<1> DEFINE new == Reordered(place, list)
<1>1. /\ new \in [T -> {NoPlace} \cup Nat]
      /\ \A t \in T : IF \E k \in 1..Len(list) : list[k] = t
                      THEN \E k \in 1..Len(list) : list[k] = t /\ new[t] = k - 1
                      ELSE new[t] = place[t]
  BY ReorderedPlaces
<1>2. Placed(place) = {list[k] : k \in 1..Len(list)}
  BY DEF Mixes
<1> HIDE DEF new
<1>3. \A t \in Placed(new) : \E k \in 1..Len(list) : list[k] = t /\ new[t] = k - 1
  BY <1>1, <1>2 DEF Placed
<1>6. Len(list) \in Nat /\ Len(list) = Cardinality(Placed(place))
  BY ListIsSeq DEF Mixes
<1>4. NoneShared(new)
  <2> SUFFICES ASSUME NEW t \in Placed(new), NEW u \in Placed(new), new[t] = new[u]
               PROVE  t = u
    BY DEF NoneShared
  <2>1. PICK k \in 1..Len(list) : list[k] = t /\ new[t] = k - 1
    BY <1>3
  <2>2. PICK l \in 1..Len(list) : list[l] = u /\ new[u] = l - 1
    BY <1>3
  <2>3. k \in Int /\ l \in Int
    BY <1>6
  <2>4. k - 1 = l - 1
    BY <2>1, <2>2, Zenon
  <2>5. k = l
    BY <2>3, <2>4
  <2> QED
    BY <2>1, <2>2, <2>5
<1>5. ASSUME NEW t \in Placed(new)
      PROVE  new[t] < Cardinality(Placed(place))
  <2>1. PICK k \in 1..Len(list) : list[k] = t /\ new[t] = k - 1
    BY <1>3
  <2>2. k \in Int /\ k <= Len(list)
    BY <1>6
  <2> QED
    BY <1>6, <2>1, <2>2
<1> QED
  BY <1>4, <1>5 DEF new

ImagesInv ==
    ~imagesMixed =>
        /\ NoneShared(image)
        /\ \A h \in Editors : editor[h].pc = "attach" =>
              \A i \in Placed(image) : image[i] < editor[h].place

\* What leaves places as they are, takes one away, or forgets an edit.
LEMMA FewerPlacesKeep ==
    ASSUME ImagesInv, imagesMixed' = imagesMixed,
           \A i \in Placed(image') : i \in Placed(image) /\ image'[i] = image[i],
           \A h \in Editors : editor'[h].pc = "attach" => editor'[h] = editor[h]
    PROVE  ImagesInv'
BY DEF ImagesInv, NoneShared

LEMMA ReadKeepsPlaces ==
    ASSUME CatalogInv, ImagesInv, NEW h \in Editors, ReadLastImage(h)
    PROVE  ImagesInv'
<1>1. /\ UNCHANGED <<image, imagesMixed>> /\ \A g \in Editors \ {h} : editor'[g] = editor[g]
      /\ editor'[h].place = NextPlace(image)
  BY RowsOfProducts DEF ReadLastImage, EditBegins, Edits, ImagePlace, CatalogInv
<1>2. \A i \in Placed(image) : image[i] < NextPlace(image)
  BY NextIsLast, CatalogAssumption DEF CatalogInv, CatalogTypeOK
<1> QED
  BY <1>1, <1>2 DEF ImagesInv, NoneShared, Placed

LEMMA InsertKeepsPlaces ==
    ASSUME CatalogInv, ImagesInv, NEW h \in Editors, NEW i \in Images, InsertImage(h, i)
    PROVE  ImagesInv'
<1> DEFINE e == editor[h]
<1>1. /\ image' = [image EXCEPT ![i] = e.place] /\ editor' = [editor EXCEPT ![h] = Free]
      /\ imagesMixed' = (imagesMixed \/ \E g \in Editors \ {h} : editor[g].pc = "attach")
      /\ e.pc = "attach"
  BY DEF InsertImage, Edits
<1> SUFFICES ASSUME ~imagesMixed'
             PROVE  /\ NoneShared(image')
                    /\ \A g \in Editors : editor'[g].pc = "attach" =>
                          \A j \in Placed(image') : image'[j] < editor'[g].place
  BY DEF ImagesInv
<1>2. NoneShared(image) /\ \A j \in Placed(image) : image[j] < e.place
  BY <1>1 DEF ImagesInv
<1>3. /\ \A j \in Placed(image') : j \in Images /\ (j # i => j \in Placed(image) /\ image'[j] = image[j])
      /\ image'[i] = e.place
  BY <1>1 DEF Placed, CatalogInv, CatalogTypeOK
<1>4. e.place \in Nat /\ \A j \in Placed(image) : image[j] \in Nat
  BY <1>1, EditShape, RowsOfProducts DEF CatalogInv, CatalogTypeOK, Attaches, Placed
<1>5. NoneShared(image')
  BY <1>2, <1>3, <1>4 DEF NoneShared
<1>6. \A g \in Editors : editor'[g].pc # "attach"
  BY <1>1, EditShape, RowsOfProducts DEF CatalogInv
<1> QED
  BY <1>5, <1>6

LEMMA ReorderKeepsPlaces ==
    ASSUME CatalogInv, ImagesInv, NEW h \in Editors, ReorderImages(h)
    PROVE  ImagesInv'
<1> DEFINE e == editor[h]
<1>0. \A g \in Editors : editor'[g].pc = "attach" => editor'[g] = editor[g] /\ editor[g].place \in Nat
  BY EditShape, RowsOfProducts DEF ReorderImages, Edits, CatalogInv, Attaches
<1>1. CASE UNCHANGED <<image, imagesMixed>>
  BY <1>0, <1>1, FewerPlacesKeep
<1>2. CASE image' = Reordered(image, e.list) /\ imagesMixed' = (imagesMixed \/ Mixes(image, e.list))
  <2> SUFFICES ASSUME ~imagesMixed, ~Mixes(image, e.list)
               PROVE  /\ NoneShared(image')
                      /\ \A g \in Editors : editor'[g].pc = "attach" =>
                            \A j \in Placed(image') : image'[j] < editor'[g].place
    BY <1>2 DEF ImagesInv
  <2>1. e.list \in Lists(Images) /\ image \in [Images -> {NoPlace} \cup Nat]
    BY EditShape, RowsOfProducts DEF ReorderImages, CatalogInv, CatalogTypeOK, Reorders
  <2>2. /\ NoneShared(image')
        /\ \A j \in Placed(image') : image'[j] < Cardinality(Placed(image))
    BY <1>2, <2>1, ReorderedDistinct, CatalogAssumption
  <2>3. /\ Reordered(image, e.list) \in [Images -> {NoPlace} \cup Nat]
        /\ Cardinality(Placed(image)) \in Nat
    BY <2>1, ReorderedPlaces, PlacesFinite, FS_CardinalityType, CatalogAssumption
  <2>4. \A j \in Placed(image') : image'[j] \in Nat
    BY <1>2, <2>3 DEF Placed
  <2>5. \A g \in Editors : editor[g].pc = "attach" /\ editor[g].place \in Nat =>
            Cardinality(Placed(image)) <= editor[g].place
    BY <2>1, DistinctFit, CatalogAssumption DEF ImagesInv
  <2> QED
    BY <1>0, <2>2, <2>3, <2>4, <2>5
<1> QED
  BY <1>1, <1>2 DEF ReorderImages

LEMMA PlacesKept ==
    ASSUME NEW baskets, CatalogInv, ImagesInv, ShopStep(baskets)
    PROVE  ImagesInv'
<1>1. ASSUME UNCHANGED <<image, imagesMixed>>,
             \A h \in Editors : editor'[h].pc = "attach" => editor'[h] = editor[h]
      PROVE  ImagesInv'
  BY <1>1, FewerPlacesKeep
<1>2. ASSUME NEW h \in Editors, NEW e, e.pc # "attach", Edits(h, e)
      PROVE  \A g \in Editors : editor'[g].pc = "attach" => editor'[g] = editor[g]
  BY <1>2, RowsOfProducts DEF Edits, CatalogInv
<1>3. ASSUME NEW h \in Editors, NEW x, NEW status, CountProducts(h, x, status) PROVE ImagesInv'
  BY <1>1, <1>2, <1>3 DEF CountProducts, EditBegins
<1>4. ASSUME NEW h \in Editors, NEW p, InsertProduct(h, p) \/ Archive(h) PROVE ImagesInv'
  BY <1>1, <1>2, <1>4, EditShape DEF InsertProduct, Archive
<1>5. ASSUME NEW h \in Editors, NEW p, FindForArchive(h, p) PROVE ImagesInv'
  BY <1>1, <1>2, <1>5 DEF FindForArchive, EditBegins
<1>6. ASSUME NEW h \in Editors, NEW list, CheckImages(h, list) PROVE ImagesInv'
  BY <1>1, <1>2, <1>6 DEF CheckImages, EditBegins
<1>7. ASSUME NEW p, NEW x, NEW status, UpdateProduct(p, x, status) PROVE ImagesInv'
  BY <1>1, <1>7 DEF UpdateProduct
<1>8. ASSUME NEW i \in Images, RemoveImage(i) PROVE ImagesInv'
  <2>1. \A j \in Placed(image') : j \in Placed(image) /\ image'[j] = image[j]
    BY <1>8 DEF RemoveImage, Placed, CatalogInv, CatalogTypeOK
  <2> QED
    BY <1>8, <2>1, FewerPlacesKeep DEF RemoveImage
<1>9. CASE CatalogStep
  BY <1>3, <1>4, <1>5, <1>6, <1>7, <1>8, <1>9, ReadKeepsPlaces, InsertKeepsPlaces, ReorderKeepsPlaces
     DEF CatalogStep
<1>10. CASE EditorsStop
  BY <1>1, <1>10, EditShape DEF EditorsStop
<1>11. CASE UNCHANGED catalogVars
  BY <1>1, <1>11 DEF catalogVars
<1> QED
  BY <1>9, <1>10, <1>11 DEF ShopStep, shopVars
=============================================================================
