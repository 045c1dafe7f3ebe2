----------------------------- MODULE Promotions -----------------------------
(***************************************************************************)
(* One discount code in the operator's hands (admin-promotions.service.ts) *)
(* and what it takes off a cart (validateDiscount in cart.service.ts).      *)
(* Its cap, its counter and who used it are in OrderBook.                   *)
(***************************************************************************)
EXTENDS Clock, Integers

CONSTANTS
    Promoters,          \* requests that may be in flight at once
    PromotionDtos,      \* the edits, fields that are not sent hold Same
    Subtotals,          \* subtotals of carts, in cents
    Same

NoDate == 0     \* a code without that limit; dates are positive

VARIABLES
    code,               \* the row, or NoCodeRow
    promoter,           \* what each request holds between its steps
    codeOvertaken       \* history: the row was written over a change not seen

promotionVars == <<code, promoter, codeOvertaken>>

NoCodeRow == [type |-> "none", value |-> 0, start |-> NoDate, end |-> NoDate]
Off == [pc |-> "idle"]
Code == [type : {"PERCENTAGE", "FIXED"}, value : Nat \ {0}, start : Nat, end : Nat]

ASSUME PromotionsAssumption ==
    /\ PromotionDtos \subseteq
          [type : {"PERCENTAGE", "FIXED", Same}, value : (Nat \ {0}) \cup {Same},
           start : Nat \cup {Same}, end : Nat \cup {Same}]
    /\ Subtotals \subseteq Nat

PromotionsTypeOK ==
    /\ code \in {NoCodeRow} \cup Code
    /\ promoter \in [Promoters -> {Off}
          \cup [pc : {"create"}, row : Code]
          \cup [pc : {"update"}, read : Code, dto : PromotionDtos]]
    /\ codeOvertaken \in BOOLEAN

\* The row with the fields that were sent.
With(row, dto) == [f \in DOMAIN row |-> IF dto[f] = Same THEN row[f] ELSE dto[f]]

\* assertValue.
ValueFits(row) == row.type = "PERCENTAGE" => row.value <= 100

\* assertWindow.
WindowFits(row) == row.start # NoDate /\ row.end # NoDate => row.start <= row.end

\* Mutant: the value is looked at when a value was sent.
ValueSent(row, dto) == (dto.value # Same => ValueFits(With(row, dto))) /\ WindowFits(With(row, dto))

\* The checks of update, of what was sent over what was read.
MayUpdate(row, dto) ==
    /\ dto.type # Same \/ dto.value # Same => ValueFits(With(row, dto))
    /\ WindowFits(With(row, dto))

\* create: checked as it was sent, and the code is free.
CheckCode(h, row) ==
    /\ Arrives
    /\ promoter[h] = Off
    /\ code = NoCodeRow
    /\ ValueFits(row) /\ WindowFits(row)
    /\ promoter' = [promoter EXCEPT ![h] = [pc |-> "create", row |-> row]]
    /\ UNCHANGED <<code, codeOvertaken>>

\* The insert fails when the code was taken meanwhile.
InsertCode(h) ==
    /\ GoesOn
    /\ promoter[h].pc = "create"
    /\ code' = IF code = NoCodeRow THEN promoter[h].row ELSE code
    /\ promoter' = [promoter EXCEPT ![h] = Off]
    /\ UNCHANGED codeOvertaken

\* update: read and checked.
ReadCode(h, dto) ==
    /\ Arrives
    /\ promoter[h] = Off
    /\ code # NoCodeRow
    /\ MayUpdate(code, dto)
    /\ promoter' = [promoter EXCEPT ![h] = [pc |-> "update", read |-> code, dto |-> dto]]
    /\ UNCHANGED <<code, codeOvertaken>>

\* The fields that were sent are written on the row as it is now.
WriteCode(h) ==
    LET p == promoter[h] IN
    /\ GoesOn
    /\ p.pc = "update"
    /\ code' = IF code = NoCodeRow THEN code ELSE With(code, p.dto)
    /\ codeOvertaken' = (codeOvertaken \/ code # p.read)
    /\ promoter' = [promoter EXCEPT ![h] = Off]

\* The row goes, and an update that is on its way to it will find nothing.
RemoveCode ==
    /\ Arrives
    /\ code # NoCodeRow
    /\ code' = NoCodeRow
    /\ promoter' = [h \in Promoters |-> IF promoter[h].pc = "update" THEN Off ELSE promoter[h]]
    /\ UNCHANGED codeOvertaken

PromotersStop ==
    /\ promoter' = [h \in Promoters |-> Off]
    /\ UNCHANGED <<code, codeOvertaken>>

\* What a create sends is an edit of nothing.
Complete(dto) == \A f \in DOMAIN dto : dto[f] # Same

PromotionsInit ==
    /\ code \in {NoCodeRow} \cup {dto \in PromotionDtos : Complete(dto) /\ ValueFits(dto) /\ WindowFits(dto)}
    /\ promoter = [h \in Promoters |-> Off]
    /\ codeOvertaken = FALSE

PromotionsStep ==
    \/ \E h \in Promoters :
          \/ \E dto \in PromotionDtos : (Complete(dto) /\ CheckCode(h, dto)) \/ ReadCode(h, dto)
          \/ InsertCode(h) \/ WriteCode(h)
    \/ RemoveCode

-----------------------------------------------------------------------------
\* What a code takes off, Math.round of a percentage or the fixed amount.
AmountCents(row, subtotal) ==
    IF row.type = "PERCENTAGE" THEN (subtotal * row.value + 50) \div 100
    ELSE IF row.value < subtotal THEN row.value ELSE subtotal

\* "Un descuento PERCENTAGE debe estar entre 1 y 100", "startsAt no puede ser
\* posterior a endsAt" (admin-promotions.service.ts): after any edits a code never
\* takes more than the cart is worth, and its window has not closed before it
\* opens, unless two edits of it overlapped.
CodeStaysValid ==
    code # NoCodeRow /\ ~codeOvertaken =>
        /\ \A subtotal \in Subtotals : AmountCents(code, subtotal) <= subtotal
        /\ WindowFits(code)
=============================================================================
