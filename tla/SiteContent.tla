---------------------------- MODULE SiteContent ----------------------------
(***************************************************************************)
(* The blocks of one kind on the storefront's home, edited by the operator *)
(* (admin-content.service.ts) and answered to the storefront               *)
(* (content.service.ts), which keeps the answer, once it has arrived, until *)
(* the tag content is revalidated (revalidation.service.ts).  What a block *)
(* says and where it stands among the others are left out.                 *)
(***************************************************************************)
EXTENDS Clock

CONSTANTS
    Blocks,
    Authors,        \* requests that may be in flight at once
    ContentDtos,    \* the edits, fields that are not sent hold Unsent
    NoBlock,
    NoHome,
    Unsent

Open == 0           \* no startsAt, or no endsAt; dates are positive instants

ASSUME ContentAssumption ==
    ContentDtos \subseteq
        [active : BOOLEAN \cup {Unsent}, start : Nat \cup {Unsent}, end : Nat \cup {Unsent}]

VARIABLES
    block,              \* the row of each block, or NoBlock
    author,             \* what each request holds between its steps
    home,               \* what the storefront keeps
    homeTold,           \* content is on its way to the storefront
    homeAsked,          \* what was read for it and has not arrived yet
    homeBehind,         \* history: a block was written since that was read
    homeMissed,         \* history: content was sent and did not arrive, or too early
    blockOvertaken      \* history: blocks written over a change not seen

homeVars == <<home, homeTold, homeAsked, homeBehind, homeMissed>>
contentVars == <<block, author, homeVars, blockOvertaken>>

Away == [pc |-> "idle"]

Row      == [active : BOOLEAN, start : Nat, end : Nat]
AskedFor == [pc : {"update"}, of : Blocks, read : Row, dto : ContentDtos]

ContentTypeOK ==
    /\ block \in [Blocks -> {NoBlock} \cup Row]
    /\ author \in [Authors -> {Away} \cup AskedFor]
    /\ {home, homeAsked} \subseteq {NoHome} \cup [at : 0..now, shown : SUBSET Blocks]
    /\ {homeTold, homeBehind, homeMissed} \subseteq BOOLEAN
    /\ blockOvertaken \in SUBSET Blocks

Authored(h, record) == author' = [author EXCEPT ![h] = record]

\* The row with the fields that were sent.
Edited(row, dto) == [f \in DOMAIN row |-> IF dto[f] = Unsent THEN row[f] ELSE dto[f]]

\* assertWindow.
OpensBeforeItCloses(row) ==
    row.start # Open /\ row.end # Open => row.start <= row.end

\* getHomeContent: the blocks that are active and in their window at an instant.
InForce(instant) ==
    {b \in Blocks : /\ block[b] # NoBlock
                    /\ block[b].active
                    /\ block[b].start = Open \/ block[b].start <= instant
                    /\ block[b].end = Open \/ instant <= block[b].end}

\* dispatch of the tag content, after every write: what was read before is behind.
TellHome ==
    /\ homeTold' = TRUE
    /\ homeBehind' = (homeAsked # NoHome)
    /\ UNCHANGED <<home, homeAsked, homeMissed>>

\* Mutant: a block that goes is not told.
TellNobody == UNCHANGED homeVars

\* The tag of a removal.
TellRemoval == TellHome

\* create: active and without dates where nothing was sent.
CreateBlock(b, dto) ==
    LET row == Edited([active |-> TRUE, start |-> Open, end |-> Open], dto) IN
    /\ Arrives
    /\ block[b] = NoBlock
    /\ OpensBeforeItCloses(row)
    /\ block' = [block EXCEPT ![b] = row]
    /\ TellHome
    /\ UNCHANGED <<author, blockOvertaken>>

\* update: the window that would result is looked at over the row that was read.
FindBlock(h, b, dto) ==
    /\ Arrives
    /\ author[h] = Away
    /\ block[b] # NoBlock
    /\ OpensBeforeItCloses(Edited(block[b], dto))
    /\ Authored(h, [pc |-> "update", of |-> b, read |-> block[b], dto |-> dto])
    /\ UNCHANGED <<block, homeVars, blockOvertaken>>

\* The fields that were sent are written on the row as it is now.
UpdateBlock(h) ==
    LET a == author[h] IN
    /\ GoesOn
    /\ a.pc = "update"
    /\ block' = [block EXCEPT ![a.of] = Edited(@, a.dto)]
    /\ blockOvertaken' = IF block[a.of] = a.read THEN blockOvertaken ELSE blockOvertaken \cup {a.of}
    /\ Authored(h, Away)
    /\ TellHome

\* remove: two of one block end with one delete; an update on its way to the block
\* finds nothing and tells nobody.
RemoveBlock(b) ==
    /\ Arrives
    /\ block[b] # NoBlock
    /\ block' = [block EXCEPT ![b] = NoBlock]
    /\ author' = [h \in Authors |->
          IF author[h] # Away /\ author[h].of = b THEN Away ELSE author[h]]
    /\ blockOvertaken' = blockOvertaken \ {b}
    /\ TellRemoval

-----------------------------------------------------------------------------
\* The storefront asks for its home, once at a time, and it is read.
GetHomeContent ==
    /\ GoesOn
    /\ home = NoHome /\ homeAsked = NoHome
    /\ homeAsked' = [at |-> now, shown |-> InForce(now)]
    /\ UNCHANGED <<block, author, home, homeTold, homeBehind, homeMissed, blockOvertaken>>

\* The answer arrives and is kept.
KeepHome ==
    /\ GoesOn
    /\ homeAsked # NoHome
    /\ home' = homeAsked
    /\ homeAsked' = NoHome /\ homeBehind' = FALSE
    /\ UNCHANGED <<block, author, homeTold, homeMissed, blockOvertaken>>

\* revalidateTag drops the home, and nothing of an answer on its way.
HomeRevalidates ==
    /\ GoesOn
    /\ homeTold
    /\ home' = NoHome /\ homeTold' = FALSE /\ homeMissed' = homeBehind
    /\ UNCHANGED <<block, author, homeAsked, homeBehind, blockOvertaken>>

HomeTagLost ==
    /\ GoesOn
    /\ homeTold
    /\ homeTold' = FALSE /\ homeMissed' = TRUE
    /\ UNCHANGED <<block, author, home, homeAsked, homeBehind, blockOvertaken>>

\* The process restarts: an answer on its way does not arrive.
AuthorsStop ==
    /\ author' = [h \in Authors |-> Away]
    /\ homeAsked' = NoHome /\ homeBehind' = FALSE
    /\ UNCHANGED <<block, home, homeTold, homeMissed, blockOvertaken>>

ContentInit ==
    /\ block = [b \in Blocks |-> NoBlock]
    /\ author = [h \in Authors |-> Away]
    /\ home = NoHome /\ homeAsked = NoHome
    /\ homeTold = FALSE /\ homeBehind = FALSE /\ homeMissed = FALSE
    /\ blockOvertaken = {}

ContentStep ==
    \/ \E b \in Blocks :
          \/ \E dto \in ContentDtos :
                CreateBlock(b, dto) \/ \E h \in Authors : FindBlock(h, b, dto)
          \/ RemoveBlock(b)
    \/ \E h \in Authors : UpdateBlock(h)
    \/ GetHomeContent \/ KeepHome \/ HomeRevalidates \/ HomeTagLost

-----------------------------------------------------------------------------
\* "Contenido vigente del storefront" (content.service.ts): what the storefront
\* keeps is what it would have been answered then with the blocks as they are by
\* now, or word of a change is on its way, was lost, or came before the answer,
\* which had been read and was not kept yet; and "startsAt no puede ser
\* posterior a endsAt" (admin-content.service.ts) of every block, unless two edits
\* of it overlapped.  That the window of a block has opened or closed since is
\* told to nobody.
HomeIsCurrent ==
    /\ home # NoHome /\ ~homeTold /\ ~homeMissed => home.shown = InForce(home.at)
    /\ \A b \in Blocks \ blockOvertaken : block[b] # NoBlock => OpensBeforeItCloses(block[b])
=============================================================================
