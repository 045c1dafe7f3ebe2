------------------------------ MODULE Listings ------------------------------
(***************************************************************************)
(* One list read page by page.  Every list of the API is built the same    *)
(* way: one row more than the page is asked for, from the row that ended    *)
(* the page before and without it; the row too many says that there is a    *)
(* next page.  Nothing holds the list still between two pages, and no list  *)
(* loses rows for good.                                                    *)
(***************************************************************************)
EXTENDS Clock, FiniteSets

CONSTANTS
    Rows,
    NoRow,
    PageSizes       \* bound: the limits asked for

ASSUME ListingsAssumption ==
    /\ IsFiniteSet(Rows) /\ NoRow \notin Rows
    /\ PageSizes \subseteq Nat \ {0}

VARIABLES
    list,           \* which list is walked
    rank,           \* the place of each row in the order of the list, 0 of none
    filtered,       \* rows that the list's filter leaves out
    walk,           \* the reader: page size, cursor, and whether there is more
    seen,           \* rows in the pages answered so far
    stayed,         \* history: listed since the first page and not moved
    repeated,       \* history: rows in two pages
    cursorMoved     \* history: a cursor was moved or filtered out before it was used

listingVars == <<list, rank, filtered, walk, seen, stayed, repeated, cursorMoved>>

-----------------------------------------------------------------------------
(***************************************************************************)
(* The lists: what they are ordered by, and whether they have a filter that *)
(* a change of a row takes it out of or into.                               *)
(***************************************************************************)

By(order, filters) == [order |-> order, filters |-> filters]

CatalogList           == By("newest", TRUE)          \* on sale
AdminProductList      == By("lastEdited", TRUE)      \* of one status
AdminOrderList        == By("newest", TRUE)          \* of one status
CustomerOrderList     == By("newest", TRUE)          \* not PENDING
AdminSubscriptionList == By("nextShipment", TRUE)    \* of one status
MySubscriptionList    == By("nextShipment", FALSE)
GiftList              == By("newest", FALSE)
BlogList              == By("newest", FALSE)
GuideList             == By("newest", FALSE)
AuditList             == By("newest", FALSE)
CustomerList          == By("newest", FALSE)

AllLists ==
    {CatalogList, AdminProductList, AdminOrderList, CustomerOrderList, AdminSubscriptionList,
     MySubscriptionList, GiftList, BlogList, GuideList, AuditList, CustomerList}

Present == {r \in Rows : rank[r] # 0}
Listed  == Present \ filtered
Walking == walk.pc = "walking"

ListingsTypeOK ==
    /\ list \in AllLists
    /\ rank \in [Rows -> Nat]
    /\ \A q, r \in Present : rank[q] = rank[r] => q = r
    /\ filtered \in SUBSET Present
    /\ walk \in [pc : {"none", "walking", "done"}, size : PageSizes \cup {0},
                 cursor : Rows \cup {NoRow}]
    /\ Walking => walk.cursor \in Present /\ walk.size # 0
    /\ seen \in SUBSET Present /\ stayed \in SUBSET Present
    /\ repeated \in SUBSET seen
    /\ cursorMoved \in BOOLEAN

-----------------------------------------------------------------------------
(***************************************************************************)
(* A page.                                                                 *)
(***************************************************************************)

Before(r, S) == {q \in S : rank[q] < rank[r]}

\* The first rows of S, and the last one.
First(size, S) == {r \in S : Cardinality(Before(r, S)) < size}
LastOf(S)      == CHOOSE r \in S : \A q \in S : rank[q] <= rank[r]

\* cursor and skip 1: what is listed from the cursor's place on, without the first
\* row, which is the cursor as long as it is still listed itself.
FromCursor(cursor) ==
    LET from == {r \in Listed : rank[r] >= rank[cursor]} IN {r \in from : Before(r, from) # {}}

RowsFrom(cursor) == IF cursor = NoRow THEN Listed ELSE FromCursor(cursor)

\* Mutant: the next page starts at the row that said there is one.
CursorOfExtra(taken, size) == IF Cardinality(taken) > size THEN LastOf(taken) ELSE NoRow

\* The last row of the page, when there was one row more.
NextCursor(taken, size) == IF Cardinality(taken) > size THEN LastOf(First(size, taken)) ELSE NoRow

\* One findMany, and the reader has the page.
Answers(size, cursor) ==
    LET taken == First(size + 1, RowsFrom(cursor))
        page  == First(size, taken)
        next  == NextCursor(taken, size) IN
    /\ seen' = seen \cup page
    /\ repeated' = repeated \cup (seen \cap page)
    /\ walk' = [pc |-> IF next = NoRow THEN "done" ELSE "walking", size |-> size, cursor |-> next]

FirstPage(size) ==
    /\ Arrives
    /\ walk.pc = "none"
    /\ Answers(size, NoRow)
    /\ stayed' = Listed
    /\ UNCHANGED <<list, rank, filtered, cursorMoved>>

NextPage ==
    /\ GoesOn
    /\ Walking
    /\ Answers(walk.size, walk.cursor)
    /\ UNCHANGED <<list, rank, filtered, stayed, cursorMoved>>

-----------------------------------------------------------------------------
(***************************************************************************)
(* What others do to the rows.                                             *)
(***************************************************************************)

\* A row that others touched no longer stays where the reader may expect it.
Touched(r) ==
    /\ stayed' = stayed \ {r}
    /\ cursorMoved' = (cursorMoved \/ (Walking /\ r = walk.cursor))
    /\ UNCHANGED <<list, walk, seen, repeated>>

\* Row r is put at a place, from a later one if it had one, or taken from its place
\* to a later one; the others keep their order.
PutAt(r, place) ==
    rank' = [q \in Rows |->
        IF q = r THEN place
        ELSE IF rank[q] >= place /\ (r \in Present => rank[q] < rank[r]) THEN rank[q] + 1
        ELSE rank[q]]

PutBackAt(r, place) ==
    rank' = [q \in Rows |->
        IF q = r THEN place
        ELSE IF rank[r] < rank[q] /\ rank[q] <= place THEN rank[q] - 1
        ELSE rank[q]]

\* A new row is the newest, or ships on any day.
RowAppears(r, place) ==
    /\ Arrives
    /\ r \notin Present
    /\ place = 1 \/ list.order = "nextShipment"
    /\ PutAt(r, place)
    /\ UNCHANGED <<list, filtered, walk, seen, stayed, repeated, cursorMoved>>

\* Whether row r passes the filter changes, if it may, or not.
Refiltered(r) ==
    /\ filtered' \in {filtered, filtered \cup {r}, filtered \ {r}}
    /\ filtered' # filtered => list.filters

\* An edit, which takes the row to the head of the list that is ordered by edits.
RowEdited(r) ==
    /\ Arrives
    /\ r \in Present
    /\ IF list.order = "lastEdited" THEN PutAt(r, 1) ELSE UNCHANGED rank
    /\ Refiltered(r)
    /\ filtered' = filtered => list.order = "lastEdited"
    /\ Touched(r)

\* A renewal, a skip or a late resumption: the subscription ships later than others.
RowShipsLater(r, place) ==
    /\ Arrives
    /\ list.order = "nextShipment"
    /\ r \in Present /\ rank[r] < place
    /\ PutBackAt(r, place)
    /\ Refiltered(r)
    /\ Touched(r)

\* The reader's walk lives in the reader: a restart of the process is nothing to it.
ListingsInit ==
    /\ list \in AllLists
    /\ rank \in [Rows -> 0..Cardinality(Rows)]
    /\ {rank[r] : r \in Present} = 1..Cardinality(Present)
    /\ filtered \in SUBSET Present
    /\ ~list.filters => filtered = {}
    /\ walk = [pc |-> "none", size |-> 0, cursor |-> NoRow]
    /\ seen = {} /\ stayed = {} /\ repeated = {}
    /\ cursorMoved = FALSE

ListingsStep ==
    \/ \E size \in PageSizes : FirstPage(size)
    \/ NextPage
    \/ \E r \in Rows, place \in 1..(Cardinality(Present) + 1) : RowAppears(r, place)
    \/ \E r \in Rows : RowEdited(r)
    \/ \E r \in Rows, place \in 1..Cardinality(Present) : RowShipsLater(r, place)

-----------------------------------------------------------------------------
\* "paginación keyset" (products.service.ts, admin-orders.service.ts and the other
\* lists): however rows were added, edited and moved between the pages, whoever
\* reads to the end has seen every row that stayed in its place, and only once,
\* unless the row that ended a page was itself moved or filtered out before the
\* next page was asked for.
WalkIsExact ==
    /\ walk.pc = "done" /\ ~cursorMoved => stayed \subseteq seen
    /\ ~cursorMoved => stayed \cap repeated = {}
=============================================================================
