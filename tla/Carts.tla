------------------------------- MODULE Carts --------------------------------
(***************************************************************************)
(* The stored cart of one customer (cart.service.ts), used from several    *)
(* tabs at once, and the variants it refers to (admin-products.service.ts),  *)
(* whose removal takes the lines with it.  What a variant costs and holds in *)
(* stock is left to OrderBook.                                              *)
(***************************************************************************)
EXTENDS Catalog

CONSTANTS
    Variants,
    VariantOf,      \* the product of each variant
    Shoppers,       \* requests that may be in flight at once
    MostUnits,      \* the 99 units of a line
    Quantities      \* what a request may ask for

ASSUME CartsAssumption ==
    /\ VariantOf \in [Variants -> Products]
    /\ MostUnits \in Nat \ {0}
    /\ Quantities \in SUBSET (Nat \ {0})

VARIABLES
    offered,     \* variants that exist
    line,        \* the units of each variant in the cart, 0 without a line
    rows,        \* lines of each variant created so far, the last is line's
    shopper,     \* what each request holds between its steps
    wanted,      \* history: units the answered requests asked for
    overtaken    \* history: variants whose line was written over a change not seen

cartVars == <<offered, line, rows, shopper, wanted, overtaken>>

Browsing == [pc |-> "idle"]
Item == [variant : Variants, quantity : Quantities]

CartsTypeOK ==
    /\ offered \in SUBSET Variants
    /\ line \in [Variants -> 0..MostUnits]
    /\ \A v \in Variants \ offered : line[v] = 0
    /\ rows \in [Variants -> Nat]
    /\ \A v \in Variants : line[v] > 0 => rows[v] > 0
    /\ shopper \in [Shoppers -> {Browsing}
          \cup [pc : {"merge"}, items : Seq(Item), valid : SUBSET Variants]
          \cup [pc : {"write"}, items : Seq(Item), valid : SUBSET Variants,
                units : 0..MostUnits, row : Nat]]
    /\ wanted \in [Variants -> Nat]
    /\ overtaken \in SUBSET Variants

AtMost(n) == IF n > MostUnits THEN MostUnits ELSE n

\* The variants a cart may take: they exist and their product is on sale.
Available == {v \in offered : VariantOf[v] \in Active}

Shops(h, record) == shopper' = [shopper EXCEPT ![h] = record]

\* The items go on with the first: its line is read.
Reads(h, items, valid) ==
    LET v == items[1].variant IN
    Shops(h, [pc |-> "write", items |-> items, valid |-> valid,
              units |-> line[v], row |-> rows[v]])

\* addItem: an item whose variant is available, and its line.
AddItem(h, item) ==
    /\ Arrives
    /\ shopper[h] = Browsing
    /\ item.variant \in Available
    /\ Reads(h, <<item>>, {item.variant})
    /\ UNCHANGED <<offered, line, rows, wanted, overtaken, pageVars>>

\* mergeCart: what is available of the items of the browser.
MergeCart(h, items) ==
    /\ Arrives
    /\ shopper[h] = Browsing
    /\ Shops(h, [pc |-> "merge", items |-> items,
                 valid |-> Available \cap {items[k].variant : k \in 1..Len(items)}])
    /\ UNCHANGED <<offered, line, rows, wanted, overtaken, pageVars>>

\* The next item: skipped when it was not available, its line read otherwise.
MergeNext(h) ==
    LET s == shopper[h] IN
    /\ GoesOn
    /\ s.pc = "merge"
    /\ IF s.items[1].variant \in s.valid
       THEN Reads(h, s.items, s.valid)
       ELSE Shops(h, IF Len(s.items) = 1 THEN Browsing ELSE [s EXCEPT !.items = Tail(@)])
    /\ UNCHANGED <<offered, line, rows, wanted, overtaken, pageVars>>

\* Mutant: the line takes what was asked last.
LastAsked(units, quantity) == AtMost(quantity)

\* Mutant: no limit to a line.
PlainSum(units, quantity) == units + quantity

Summed(units, quantity) == AtMost(units + quantity)

\* The write finds the line it read, or none as it read.
Found(s, v) == IF s.units > 0 THEN line[v] > 0 /\ rows[v] = s.row
                              ELSE line[v] = 0 /\ v \in offered

\* An update by the row's id, or an insert: it writes what was read plus what was
\* asked, over whatever is there; it fails when the row is gone, when another was
\* inserted or when the variant is gone, and a failed merge stops there.
WriteLine(h) ==
    LET s == shopper[h]
        v == s.items[1].variant
        q == s.items[1].quantity IN
    /\ GoesOn
    /\ s.pc = "write"
    /\ IF Found(s, v)
       THEN /\ line' = [line EXCEPT ![v] = Summed(s.units, q)]
            /\ rows' = IF s.units > 0 THEN rows ELSE [rows EXCEPT ![v] = @ + 1]
            /\ wanted' = [wanted EXCEPT ![v] = @ + q]
            /\ overtaken' = IF line[v] = s.units THEN overtaken ELSE overtaken \cup {v}
            /\ Shops(h, IF Len(s.items) = 1 THEN Browsing
                        ELSE [pc |-> "merge", items |-> Tail(s.items), valid |-> s.valid])
       ELSE /\ Shops(h, Browsing)
            /\ UNCHANGED <<line, rows, wanted, overtaken>>
    /\ UNCHANGED <<offered, pageVars>>

\* The lines of some variants are deleted.
Empties(variants) ==
    /\ line' = [v \in Variants |-> IF v \in variants THEN 0 ELSE line[v]]
    /\ wanted' = [v \in Variants |-> IF v \in variants THEN 0 ELSE wanted[v]]
    /\ overtaken' = overtaken \ variants
    /\ UNCHANGED <<rows, shopper>>

\* updateItem, of a line that exists; with no units left it removes the line.
UpdateItem(v, q) ==
    /\ Arrives
    /\ line[v] > 0
    /\ IF q = 0
       THEN Empties({v})
       ELSE /\ line' = [line EXCEPT ![v] = AtMost(q)]
            /\ wanted' = [wanted EXCEPT ![v] = q]
            /\ overtaken' = overtaken \ {v}
            /\ UNCHANGED <<rows, shopper>>
    /\ UNCHANGED <<offered, pageVars>>

RemoveItem(v) == Arrives /\ line[v] > 0 /\ Empties({v}) /\ UNCHANGED <<offered, pageVars>>

ClearCart == Arrives /\ Empties(Variants) /\ UNCHANGED <<offered, pageVars>>

\* addVariant and updateVariant: the page of the product is revalidated.
SaveVariant(v) ==
    /\ Arrives
    /\ VariantOf[v] \in Existing
    /\ v \in offered \/ rows[v] = 0
    /\ offered' = offered \cup {v}
    /\ Dispatch({product[VariantOf[v]].slug}, {})
    /\ UNCHANGED <<line, rows, shopper, wanted, overtaken>>

\* removeVariant, and the lines of every cart with it.
RemoveVariant(v) ==
    /\ Arrives
    /\ v \in offered
    /\ offered' = offered \ {v}
    /\ Empties({v})
    /\ Dispatch({product[VariantOf[v]].slug}, {})

ShoppersStop ==
    /\ shopper' = [h \in Shoppers |-> Browsing]
    /\ UNCHANGED <<offered, line, rows, wanted, overtaken>>

\* An empty cart, or one filled before.
CartsInit ==
    /\ offered = {v \in Variants : VariantOf[v] \in Existing}
    /\ line \in [Variants -> {0, MostUnits - 1}]
    /\ \A v \in Variants \ offered : line[v] = 0
    /\ rows = [v \in Variants |-> IF line[v] > 0 THEN 1 ELSE 0]
    /\ shopper = [h \in Shoppers |-> Browsing]
    /\ wanted = line
    /\ overtaken = {}

CartsStep(baskets) ==
    \/ \E h \in Shoppers :
          \/ \E item \in Item : AddItem(h, item)
          \/ \E items \in baskets : MergeCart(h, items)
          \/ MergeNext(h) \/ WriteLine(h)
    \/ \E v \in Variants :
          \/ \E q \in Quantities \cup {0} : UpdateItem(v, q)
          \/ RemoveItem(v) \/ SaveVariant(v) \/ RemoveVariant(v)
    \/ ClearCart

-----------------------------------------------------------------------------
\* A line holds what the customer's answered requests asked for, up to 99, whatever
\* was merged, changed or removed between, unless a write went over a change it had
\* not read (addItem and mergeCart of cart.service.ts).
CartCountsClicks ==
    \A v \in Variants \ overtaken : line[v] = AtMost(wanted[v])
=============================================================================
