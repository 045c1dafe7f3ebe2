-------------------------- MODULE StorefrontProofs --------------------------
(***************************************************************************)
(* Theorems about Storefront for every value of its constants.  The parts  *)
(* share no variable but those of products and pages, so each has its own   *)
(* inductive invariant, kept by its own steps, by what a restart does to it *)
(* and by whatever the others do; StepOfEveryPart says that a step of the   *)
(* storefront is one of these for every part at once.                      *)
(***************************************************************************)
EXTENDS Storefront, CatalogProofs, NaturalsInduction

\* Time goes on in some way.
Moves == Arrives \/ GoesOn \/ Tick

-----------------------------------------------------------------------------
(***************************************************************************)
(* A step of the storefront, part by part.                                 *)
(***************************************************************************)
LEMMA CatalogMoves ==
    ASSUME CatalogStep \/ ModerationStep \/ PagesStep \/ CartsStep(Baskets)
    PROVE  Moves
<1>1. CASE CatalogStep
  BY <1>1 DEF Moves, CatalogStep, CountProducts, InsertProduct, FindForArchive, Archive, ReadLastImage,
       ReorderImages, InsertImage, CheckImages, UpdateProduct, RemoveImage, EditBegins
<1>2. CASE ModerationStep \/ PagesStep
  BY <1>2 DEF Moves, ModerationStep, PagesStep, CreateReview, FindReview, Approve, Reject, Reply, FindBySlug,
       AnswerBySlug
<1>3. CASE CartsStep(Baskets)
  BY <1>3 DEF Moves, CartsStep, AddItem, MergeCart, MergeNext, WriteLine, UpdateItem, RemoveItem,
       SaveVariant, RemoveVariant, ClearCart
<1> QED
  BY <1>1, <1>2, <1>3

LEMMA CollectionsMoves == ASSUME CollectionsStep PROVE Moves
BY DEF Moves, CollectionsStep, CreateCollection, SaleChanges, FindCollectionBySlug, ResolveProducts,
       AnswerCollection, CollectionRevalidates,
       ReadLastPlace, CheckOrder, FindLink, ManualBegins, FindForUpdate, FindForRemoval, CuratorBegins,
       UpdateCollection, RemoveCollection, AttachProducts, ReorderProducts, DetachProduct

LEMMA PromotionsMoves == ASSUME PromotionsStep PROVE Moves
BY DEF Moves, PromotionsStep, CheckCode, ReadCode, InsertCode, WriteCode, RemoveCode

LEMMA ContentMoves == ASSUME ContentStep PROVE Moves
BY DEF Moves, ContentStep, CreateBlock, FindBlock, RemoveBlock, UpdateBlock, GetHomeContent,
       KeepHome, HomeRevalidates, HomeTagLost

LEMMA ListingsMoves == ASSUME ListingsStep PROVE Moves
BY DEF Moves, ListingsStep, FirstPage, NextPage, RowAppears, RowEdited, RowShipsLater

LEMMA SellersMoves == ASSUME SellersStep PROVE Moves
BY DEF Moves, SellersStep, BuildConnectUrl, Disconnect, Consents, OauthCallback, ReadCreds,
       ExchangeCode, StoreCreds, RefreshAnswered, RefreshCreds, MercadoPagoFails

LEMMA StepOfEveryPart ==
    ASSUME [StorefrontNext]_storefrontVars
    PROVE  /\ Moves
           /\ ShopStep(Baskets)
           /\ CollectionsStep \/ CuratorsStop \/ UNCHANGED collectionVars
           /\ PromotionsStep \/ PromotersStop \/ UNCHANGED promotionVars
           /\ ContentStep \/ AuthorsStop \/ UNCHANGED contentVars
           /\ ListingsStep \/ UNCHANGED listingVars
           /\ SellersStep \/ SellersStop \/ UNCHANGED sellerVars
           /\ UNCHANGED busy
<1>1. CASE UNCHANGED storefrontVars
  BY <1>1 DEF storefrontVars, Moves, GoesOn, ShopStep, shopVars
<1>2. CASE PagesBusy /\ UNCHANGED busy
  BY <1>2, CatalogMoves DEF PagesBusy, ShopStep, lonelyVars
<1>3. CASE CartBusy /\ UNCHANGED busy
  BY <1>3, CatalogMoves DEF CartBusy, ShopStep, lonelyVars
<1>4. CASE /\ CollectionBusy \/ CodeBusy \/ ContentBusy \/ ListingBusy \/ SellerBusy
           /\ UNCHANGED <<catalogVars, moderationVars, pageVars, cartVars>> /\ UNCHANGED busy
  <2>1. ShopStep(Baskets)
    BY <1>4 DEF ShopStep, shopVars
  <2>2. Moves
    BY <1>4, CollectionsMoves, PromotionsMoves, ContentMoves, ListingsMoves, SellersMoves
       DEF CollectionBusy, CodeBusy, ContentBusy, ListingBusy, SellerBusy, Moves
  <2> QED
    BY <1>4, <2>1, <2>2 DEF CollectionBusy, CodeBusy, ContentBusy, ListingBusy, SellerBusy
<1>5. CASE Restart /\ UNCHANGED busy
  BY <1>5 DEF Restart, ShopStep, Moves
<1> QED
  BY <1>1, <1>2, <1>3, <1>4, <1>5 DEF StorefrontNext

LEMMA ClockMoves ==
    ASSUME ClockTypeOK, Moves
    PROVE  ClockTypeOK' /\ now \in Nat /\ now' \in Nat /\ now' >= now /\ 0..now \subseteq 0..now'
BY ClockAssumption DEF ClockTypeOK, Moves, Arrives, GoesOn, Tick, clockVars
-----------------------------------------------------------------------------
(***************************************************************************)
(* Content.  The home is inductive together with the answer on its way:     *)
(* every write leaves the tag on its way and an answer that was read behind,  *)
(* and an answer that is behind will find the tag on its way, lost or early.  *)
(* The windows are not: an edit is written without another      *)
(* look, so the invariant says of every edit in flight that it was right for  *)
(* the row it read, and of its block that it is still there.                 *)
(***************************************************************************)
EditsAreRight ==
    \A h \in Authors : author[h].pc = "update" =>
        /\ block[author[h].of] \in Row
        /\ OpensBeforeItCloses(Edited(author[h].read, author[h].dto))

\* An answer that was read and not kept says what it would by now, or is behind.
AnswerIsCurrent ==
    IF homeBehind
    THEN homeTold \/ homeMissed
    ELSE homeAsked # NoHome => homeAsked.shown = InForce(homeAsked.at)

ContentInv == ContentTypeOK /\ ClockTypeOK /\ EditsAreRight /\ AnswerIsCurrent /\ HomeIsCurrent

LEMMA HomeSays == ContentInv => HomeIsCurrent
BY DEF ContentInv

LEMMA AskShape ==
    /\ Away.pc = "idle"
    /\ \A a \in {Away} \cup AskedFor : a.pc = "update" <=> a # Away
    /\ \A a \in {Away} \cup AskedFor : a.pc = "update" => a \in AskedFor
BY DEF Away, AskedFor

\* An edit of a row is a row.
LEMMA EditedRow ==
    ASSUME NEW row \in Row, NEW dto \in ContentDtos
    PROVE  Edited(row, dto) \in Row
<1>1. /\ dto.active \in BOOLEAN \cup {Unsent} /\ dto.start \in Nat \cup {Unsent}
      /\ dto.end \in Nat \cup {Unsent}
  BY ContentAssumption
<1>2. DOMAIN row = {"active", "start", "end"} /\ row.active \in BOOLEAN
      /\ row.start \in Nat /\ row.end \in Nat
  BY DEF Row
<1>3. Edited(row, dto) = [f \in {"active", "start", "end"} |->
                              IF dto[f] = Unsent THEN row[f] ELSE dto[f]]
  BY <1>2 DEF Edited
<1>4. Edited(row, dto) =
        [active |-> IF dto.active = Unsent THEN row.active ELSE dto.active,
         start |-> IF dto.start = Unsent THEN row.start ELSE dto.start,
         end |-> IF dto.end = Unsent THEN row.end ELSE dto.end]
  BY <1>3
<1> QED
  BY <1>1, <1>2, <1>4 DEF Row

LEMMA ContentInitInv ==
    ASSUME ContentInit, ClockInit
    PROVE  ContentInv
<1>1. ClockTypeOK
  BY ClockAssumption DEF ClockInit, ClockTypeOK
<1>2. ContentTypeOK
  <2>1. block \in [Blocks -> {NoBlock}] /\ author \in [Authors -> {Away}]
    BY DEF ContentInit
  <2> QED
    BY <2>1 DEF ContentInit, ContentTypeOK
<1>3. EditsAreRight
  BY AskShape DEF ContentInit, EditsAreRight
<1>4. HomeIsCurrent /\ AnswerIsCurrent
  BY DEF ContentInit, HomeIsCurrent, AnswerIsCurrent
<1> QED
  BY <1>1, <1>2, <1>3, <1>4 DEF ContentInv

HomeTyped ==
    /\ {home, homeAsked} \subseteq {NoHome} \cup [at : 0..now, shown : SUBSET Blocks]
    /\ {homeTold, homeBehind, homeMissed} \subseteq BOOLEAN

\* What a home that was read is typed by stays true as time passes.
LEMMA HomeTypeStays ==
    ASSUME ContentTypeOK, ClockTypeOK, Moves,
           home' = home, homeAsked' \in {homeAsked, NoHome},
           homeTold' \in BOOLEAN, homeBehind' \in BOOLEAN, homeMissed' \in BOOLEAN
    PROVE  HomeTyped'
<1>1. 0..now \subseteq 0..now'
  BY ClockMoves, ClockAssumption DEF ClockTypeOK
<1> QED
  BY <1>1 DEF ContentTypeOK, HomeTyped

\* A write tells the home, and says whether an answer is behind.
LEMMA ToldHome ==
    ASSUME ContentTypeOK, ClockTypeOK, Moves, TellHome
    PROVE  /\ HomeTyped' /\ AnswerIsCurrent' /\ homeTold' = TRUE
<1>1. /\ homeTold' = TRUE /\ homeBehind' = (homeAsked # NoHome)
      /\ UNCHANGED <<home, homeAsked, homeMissed>> /\ homeMissed \in BOOLEAN
  BY DEF TellHome, ContentTypeOK
<1>2. HomeTyped'
  BY <1>1, HomeTypeStays
<1> QED
  BY <1>1, <1>2 DEF AnswerIsCurrent

LEMMA CreateBlockKeeps ==
    ASSUME ContentInv, NEW b \in Blocks, NEW dto \in ContentDtos, CreateBlock(b, dto)
    PROVE  ContentInv'
<1> DEFINE row == Edited([active |-> TRUE, start |-> Open, end |-> Open], dto)
<1>1. row \in Row /\ OpensBeforeItCloses(row)
  <2>1. [active |-> TRUE, start |-> Open, end |-> Open] \in Row
    BY DEF Row, Open
  <2> QED
    BY <2>1, EditedRow DEF CreateBlock
<1>2. /\ block' = [block EXCEPT ![b] = row] /\ homeTold' = TRUE
      /\ UNCHANGED <<author, blockOvertaken>> /\ ClockTypeOK' /\ HomeTyped' /\ AnswerIsCurrent'
  BY ClockMoves, ToldHome DEF CreateBlock, ContentInv, Moves
<1> HIDE DEF row
<1>3. ContentTypeOK'
  BY <1>1, <1>2 DEF ContentInv, ContentTypeOK, HomeTyped
<1>4. EditsAreRight'
  BY <1>1, <1>2, AskShape DEF ContentInv, EditsAreRight, ContentTypeOK, AskedFor
<1>5. HomeIsCurrent'
  BY <1>1, <1>2 DEF ContentInv, ContentTypeOK, HomeIsCurrent
<1> QED
  BY <1>2, <1>3, <1>4, <1>5 DEF ContentInv

LEMMA FindBlockKeeps ==
    ASSUME ContentInv, NEW h \in Authors, NEW b \in Blocks, NEW dto \in ContentDtos,
           FindBlock(h, b, dto)
    PROVE  ContentInv'
<1> DEFINE a == [pc |-> "update", of |-> b, read |-> block[b], dto |-> dto]
<1>1. block[b] \in Row
  BY DEF FindBlock, ContentInv, ContentTypeOK
<1>2. a \in AskedFor /\ a.of = b /\ OpensBeforeItCloses(Edited(a.read, a.dto))
  BY <1>1 DEF FindBlock, AskedFor
<1>3. /\ author' = [author EXCEPT ![h] = a] /\ ClockTypeOK'
      /\ UNCHANGED <<block, home, homeTold, homeAsked, homeBehind, homeMissed, blockOvertaken>>
  BY ClockMoves DEF FindBlock, Authored, ContentInv, Moves, homeVars
<1> HIDE DEF a
<1>4. ContentTypeOK'
  <2>1. HomeTyped'
    BY <1>3, HomeTypeStays DEF ContentInv, ContentTypeOK, FindBlock, Moves
  <2> QED
    BY <1>2, <1>3, <2>1 DEF ContentInv, ContentTypeOK, HomeTyped
<1>5. EditsAreRight'
  <2> SUFFICES ASSUME NEW g \in Authors, author'[g].pc = "update"
               PROVE  /\ block'[author'[g].of] \in Row
                      /\ OpensBeforeItCloses(Edited(author'[g].read, author'[g].dto))
    BY DEF EditsAreRight, OpensBeforeItCloses, Edited
  <2>1. author'[g] = IF g = h THEN a ELSE author[g]
    BY <1>3 DEF ContentInv, ContentTypeOK
  <2> QED
    BY <1>1, <1>2, <1>3, <2>1 DEF ContentInv, EditsAreRight
<1>6. HomeIsCurrent' /\ AnswerIsCurrent'
  BY <1>3 DEF ContentInv, HomeIsCurrent, AnswerIsCurrent, InForce
<1> QED
  BY <1>3, <1>4, <1>5, <1>6 DEF ContentInv

LEMMA UpdateBlockKeeps ==
    ASSUME ContentInv, NEW h \in Authors, UpdateBlock(h)
    PROVE  ContentInv'
<1> DEFINE a == author[h]
           row == Edited(block[a.of], a.dto)
<1>1. a \in AskedFor /\ a.of \in Blocks /\ a.dto \in ContentDtos /\ block[a.of] \in Row
      /\ OpensBeforeItCloses(Edited(a.read, a.dto))
  BY AskShape DEF UpdateBlock, ContentInv, ContentTypeOK, EditsAreRight, AskedFor
<1>2. row \in Row /\ (block[a.of] = a.read => OpensBeforeItCloses(row))
  BY <1>1, EditedRow
<1>3. /\ block' = [block EXCEPT ![a.of] = row] /\ author' = [author EXCEPT ![h] = Away]
      /\ blockOvertaken' = IF block[a.of] = a.read THEN blockOvertaken ELSE blockOvertaken \cup {a.of}
      /\ homeTold' = TRUE /\ HomeTyped' /\ AnswerIsCurrent' /\ ClockTypeOK'
  BY ClockMoves, ToldHome DEF UpdateBlock, Authored, ContentInv, Moves
<1> HIDE DEF row
<1>4. ContentTypeOK'
  BY <1>1, <1>2, <1>3 DEF ContentInv, ContentTypeOK, HomeTyped
<1>5. EditsAreRight'
  <2> SUFFICES ASSUME NEW g \in Authors, author'[g].pc = "update"
               PROVE  /\ block'[author'[g].of] \in Row
                      /\ OpensBeforeItCloses(Edited(author'[g].read, author'[g].dto))
    BY DEF EditsAreRight, OpensBeforeItCloses, Edited
  <2>1. author'[g] = author[g] /\ author[g].of \in Blocks
    BY <1>3, AskShape DEF ContentInv, ContentTypeOK, AskedFor
  <2> QED
    BY <1>1, <1>2, <1>3, <2>1 DEF ContentInv, ContentTypeOK, EditsAreRight
<1>6. HomeIsCurrent'
  <2>1. \A b \in Blocks : block'[b] = IF b = a.of THEN row ELSE block[b]
    BY <1>1, <1>3 DEF ContentInv, ContentTypeOK
  <2>2. \A b \in Blocks \ blockOvertaken' : block'[b] # NoBlock => OpensBeforeItCloses(block'[b])
    BY <1>2, <1>3, <2>1 DEF ContentInv, HomeIsCurrent
  <2> QED
    BY <1>3, <2>2 DEF HomeIsCurrent, OpensBeforeItCloses
<1> QED
  BY <1>3, <1>4, <1>5, <1>6 DEF ContentInv

LEMMA RemoveBlockKeeps ==
    ASSUME ContentInv, NEW b \in Blocks, RemoveBlock(b)
    PROVE  ContentInv'
<1>1. /\ block' = [block EXCEPT ![b] = NoBlock] /\ blockOvertaken' = blockOvertaken \ {b}
      /\ author' = [h \in Authors |->
            IF author[h] # Away /\ author[h].of = b THEN Away ELSE author[h]]
      /\ homeTold' = TRUE /\ HomeTyped' /\ AnswerIsCurrent' /\ ClockTypeOK'
  BY ClockMoves, ToldHome DEF RemoveBlock, TellRemoval, ContentInv, Moves
<1>2. ContentTypeOK'
  BY <1>1 DEF ContentInv, ContentTypeOK, HomeTyped
<1>3. EditsAreRight'
  <2> SUFFICES ASSUME NEW g \in Authors, author'[g].pc = "update"
               PROVE  /\ block'[author'[g].of] \in Row
                      /\ OpensBeforeItCloses(Edited(author'[g].read, author'[g].dto))
    BY DEF EditsAreRight, OpensBeforeItCloses, Edited
  <2>1. author'[g] = author[g] /\ author[g].of \in Blocks \ {b}
    BY <1>1, AskShape DEF ContentInv, ContentTypeOK, AskedFor
  <2> QED
    BY <1>1, <2>1 DEF ContentInv, ContentTypeOK, EditsAreRight
<1>4. HomeIsCurrent'
  BY <1>1 DEF ContentInv, ContentTypeOK, HomeIsCurrent, OpensBeforeItCloses
<1> QED
  BY <1>1, <1>2, <1>3, <1>4 DEF ContentInv

\* Nothing but the storefront's copy, what was read for it and the tags change.
LEMMA HomeKeeps ==
    ASSUME ContentInv, GetHomeContent \/ KeepHome \/ HomeRevalidates \/ HomeTagLost
    PROVE  ContentInv'
<1>1. UNCHANGED <<block, author, blockOvertaken, now>> /\ ClockTypeOK' /\ now \in Nat
  BY ClockMoves DEF ContentInv, GetHomeContent, KeepHome, HomeRevalidates, HomeTagLost, GoesOn,
                    clockVars, Moves
<1>2. InForce(now) \in SUBSET Blocks
  BY DEF InForce
<1>3. /\ home \in {NoHome} \cup [at : 0..now, shown : SUBSET Blocks]
      /\ homeAsked \in {NoHome} \cup [at : 0..now, shown : SUBSET Blocks]
      /\ homeTold \in BOOLEAN /\ homeBehind \in BOOLEAN /\ homeMissed \in BOOLEAN
  BY DEF ContentInv, ContentTypeOK
<1>4. \A n : InForce(n)' = InForce(n)
  BY <1>1 DEF InForce
<1>5. EditsAreRight' /\ \A b \in Blocks \ blockOvertaken' : block'[b] # NoBlock => OpensBeforeItCloses(block'[b])
  BY <1>1 DEF ContentInv, EditsAreRight, HomeIsCurrent, OpensBeforeItCloses, Edited
<1>6. /\ home' \in {NoHome} \cup [at : 0..now, shown : SUBSET Blocks]
      /\ homeAsked' \in {NoHome} \cup [at : 0..now, shown : SUBSET Blocks]
      /\ homeTold' \in BOOLEAN /\ homeBehind' \in BOOLEAN /\ homeMissed' \in BOOLEAN
  <2>1. [at |-> now, shown |-> InForce(now)] \in [at : 0..now, shown : SUBSET Blocks]
    BY <1>1, <1>2
  <2> QED
    BY <1>3, <2>1 DEF GetHomeContent, KeepHome, HomeRevalidates, HomeTagLost
<1>7. ContentTypeOK'
  BY <1>1, <1>6 DEF ContentInv, ContentTypeOK
<1>8. /\ AnswerIsCurrent'
      /\ home' # NoHome /\ ~homeTold' /\ ~homeMissed' => home'.shown = InForce(home'.at)
  <2>1. /\ home # NoHome /\ ~homeTold /\ ~homeMissed => home.shown = InForce(home.at)
        /\ homeBehind => homeTold \/ homeMissed
        /\ ~homeBehind /\ homeAsked # NoHome => homeAsked.shown = InForce(homeAsked.at)
    BY DEF ContentInv, HomeIsCurrent, AnswerIsCurrent
  <2>2. CASE GetHomeContent
    BY <1>3, <1>4, <2>1, <2>2 DEF GetHomeContent, AnswerIsCurrent
  <2>3. CASE KeepHome
    BY <1>3, <1>4, <2>1, <2>3 DEF KeepHome, AnswerIsCurrent
  <2>4. CASE HomeRevalidates
    BY <1>3, <1>4, <2>1, <2>4 DEF HomeRevalidates, AnswerIsCurrent
  <2>5. CASE HomeTagLost
    BY <1>3, <1>4, <2>1, <2>5 DEF HomeTagLost, AnswerIsCurrent
  <2> QED
    BY <2>2, <2>3, <2>4, <2>5
<1>9. HomeIsCurrent'
  BY <1>4, <1>5, <1>8 DEF HomeIsCurrent, OpensBeforeItCloses
<1> QED
  BY <1>1, <1>5, <1>7, <1>8, <1>9 DEF ContentInv

LEMMA ContentKept ==
    ASSUME ContentInv, Moves, ContentStep \/ AuthorsStop \/ UNCHANGED contentVars
    PROVE  ContentInv'
<1>1. CASE ContentStep
  BY <1>1, CreateBlockKeeps, FindBlockKeeps, UpdateBlockKeeps, RemoveBlockKeeps, HomeKeeps DEF ContentStep
<1>2. CASE AuthorsStop
  <2>1. /\ UNCHANGED <<block, home, homeTold, homeMissed, blockOvertaken>> /\ ClockTypeOK'
        /\ author' = [h \in Authors |-> Away] /\ homeAsked' = NoHome /\ homeBehind' = FALSE
    BY <1>2, ClockMoves DEF AuthorsStop, ContentInv
  <2>2. ContentTypeOK'
    <3>1. HomeTyped'
      BY <2>1, HomeTypeStays DEF ContentInv, ContentTypeOK
    <3> QED
      BY <2>1, <3>1 DEF ContentInv, ContentTypeOK, HomeTyped
  <2>3. EditsAreRight'
    BY <2>1, AskShape DEF EditsAreRight
  <2>4. HomeIsCurrent' /\ AnswerIsCurrent'
    BY <2>1 DEF ContentInv, HomeIsCurrent, AnswerIsCurrent, InForce, OpensBeforeItCloses
  <2> QED
    BY <2>1, <2>2, <2>3, <2>4 DEF ContentInv
<1>3. CASE UNCHANGED contentVars
  <2>0. UNCHANGED <<block, author, home, homeTold, homeAsked, homeBehind, homeMissed, blockOvertaken>>
    BY <1>3 DEF contentVars, homeVars
  <2>1. ClockTypeOK'
    BY ClockMoves DEF ContentInv
  <2>2. ContentTypeOK'
    <3>1. HomeTyped'
      BY <2>0, HomeTypeStays DEF ContentInv, ContentTypeOK
    <3> QED
      BY <2>0, <3>1 DEF ContentInv, ContentTypeOK, HomeTyped
  <2>3. EditsAreRight' /\ HomeIsCurrent' /\ AnswerIsCurrent'
    BY <2>0 DEF ContentInv, EditsAreRight, HomeIsCurrent, AnswerIsCurrent, InForce, OpensBeforeItCloses,
                Edited
  <2> QED
    BY <2>1, <2>2, <2>3 DEF ContentInv
<1> QED
  BY <1>1, <1>2, <1>3
-----------------------------------------------------------------------------
(***************************************************************************)
(* Promotions.  As with the windows of blocks, an edit in flight was right  *)
(* for the row it read; a percentage of at most 100 takes no more than there *)
(* is, rounded as it is.                                                   *)
(***************************************************************************)
PromoterWork == [pc : {"create"}, row : Code] \cup [pc : {"update"}, read : Code, dto : PromotionDtos]

PromotionsInv ==
    /\ PromotionsTypeOK
    /\ code # NoCodeRow /\ ~codeOvertaken => ValueFits(code) /\ WindowFits(code)
    /\ \A h \in Promoters : promoter[h].pc = "create" =>
          ValueFits(promoter[h].row) /\ WindowFits(promoter[h].row)
    /\ \A h \in Promoters : promoter[h].pc = "update" =>
          MayUpdate(promoter[h].read, promoter[h].dto)

LEMMA PromoterShape ==
    /\ Off.pc = "idle"
    /\ \A p \in {Off} \cup PromoterWork :
          /\ p.pc = "create" => p.row \in Code
          /\ p.pc = "update" => p.read \in Code /\ p.dto \in PromotionDtos
    /\ NoCodeRow \notin Code
    /\ PromotionsTypeOK => promoter \in [Promoters -> {Off} \cup PromoterWork]
BY DEF Off, PromoterWork, NoCodeRow, Code, PromotionsTypeOK

\* An edit of a code is a code; what was not sent stays.
LEMMA EditedCode ==
    ASSUME NEW row \in Code, NEW dto \in PromotionDtos
    PROVE  /\ With(row, dto) \in Code
           /\ dto.type = Same /\ dto.value = Same =>
                 With(row, dto).type = row.type /\ With(row, dto).value = row.value
<1>1. /\ dto.type \in {"PERCENTAGE", "FIXED", Same} /\ dto.value \in (Nat \ {0}) \cup {Same}
      /\ dto.start \in Nat \cup {Same} /\ dto.end \in Nat \cup {Same}
  BY PromotionsAssumption
<1>2. /\ DOMAIN row = {"type", "value", "start", "end"} /\ row.type \in {"PERCENTAGE", "FIXED"}
      /\ row.value \in Nat \ {0} /\ row.start \in Nat /\ row.end \in Nat
  BY DEF Code
<1>3. With(row, dto) = [f \in {"type", "value", "start", "end"} |-> IF dto[f] = Same THEN row[f] ELSE dto[f]]
  BY <1>2 DEF With
<1>4. With(row, dto) = [type |-> IF dto.type = Same THEN row.type ELSE dto.type,
                        value |-> IF dto.value = Same THEN row.value ELSE dto.value,
                        start |-> IF dto.start = Same THEN row.start ELSE dto.start,
                        end |-> IF dto.end = Same THEN row.end ELSE dto.end]
  BY <1>3
<1> QED
  BY <1>1, <1>2, <1>4 DEF Code

\* What create sends is a code.
LEMMA CompleteIsCode ==
    ASSUME NEW dto \in PromotionDtos, Complete(dto)
    PROVE  dto \in Code
<1>1. dto \in [type : {"PERCENTAGE", "FIXED", Same}, value : (Nat \ {0}) \cup {Same},
               start : Nat \cup {Same}, end : Nat \cup {Same}]
  BY PromotionsAssumption
<1>2. dto.type # Same /\ dto.value # Same /\ dto.start # Same /\ dto.end # Same
  BY <1>1 DEF Complete
<1> QED
  BY <1>1, <1>2 DEF Code

LEMMA PromotionsInitInv ==
    ASSUME PromotionsInit
    PROVE  PromotionsInv
BY CompleteIsCode, PromoterShape DEF PromotionsInit, PromotionsInv, PromotionsTypeOK

LEMMA WriteCodeKeeps ==
    ASSUME PromotionsInv, NEW h \in Promoters, WriteCode(h)
    PROVE  PromotionsInv'
<1> DEFINE p == promoter[h]
<1>1. p.read \in Code /\ p.dto \in PromotionDtos /\ MayUpdate(p.read, p.dto)
  BY PromoterShape DEF WriteCode, PromotionsInv
<1>2. /\ code' = IF code = NoCodeRow THEN code ELSE With(code, p.dto)
      /\ codeOvertaken' = (codeOvertaken \/ code # p.read) /\ promoter' = [promoter EXCEPT ![h] = Off]
  BY DEF WriteCode
<1>3. code # NoCodeRow => code \in Code /\ With(code, p.dto) \in Code
  BY <1>1, EditedCode DEF PromotionsInv, PromotionsTypeOK
<1>4. PromotionsTypeOK'
  BY <1>2, <1>3 DEF PromotionsInv, PromotionsTypeOK
<1>5. code' # NoCodeRow /\ ~codeOvertaken' => ValueFits(code') /\ WindowFits(code')
  <2> SUFFICES ASSUME code # NoCodeRow, ~codeOvertaken, code = p.read
               PROVE  ValueFits(With(code, p.dto)) /\ WindowFits(With(code, p.dto))
    BY <1>2
  <2>1. CASE p.dto.type = Same /\ p.dto.value = Same
    BY <1>1, <1>3, <2>1, EditedCode DEF MayUpdate, ValueFits, PromotionsInv
  <2>2. CASE p.dto.type # Same \/ p.dto.value # Same
    BY <1>1, <2>2 DEF MayUpdate
  <2> QED
    BY <2>1, <2>2
<1>6. \A g \in Promoters : promoter'[g].pc # "idle" => promoter'[g] = promoter[g]
  BY <1>2, PromoterShape DEF PromotionsInv, PromotionsTypeOK
<1> HIDE DEF p
<1> QED
  BY <1>4, <1>5, <1>6 DEF PromotionsInv, ValueFits, WindowFits, MayUpdate, With

LEMMA PromotionsKept ==
    ASSUME PromotionsInv, PromotionsStep \/ PromotersStop \/ UNCHANGED promotionVars
    PROVE  PromotionsInv'
<1>1. ASSUME NEW h \in Promoters, NEW dto \in PromotionDtos, Complete(dto), CheckCode(h, dto)
      PROVE  PromotionsInv'
  <2> DEFINE p == [pc |-> "create", row |-> dto]
  <2>1. /\ p \in PromoterWork /\ p.pc = "create" /\ p.row = dto /\ ValueFits(dto) /\ WindowFits(dto)
        /\ promoter' = [promoter EXCEPT ![h] = p] /\ UNCHANGED <<code, codeOvertaken>>
    BY <1>1, CompleteIsCode DEF CheckCode, PromoterWork
  <2> HIDE DEF p
  <2>2. PromotionsTypeOK'
    BY <2>1 DEF PromotionsInv, PromotionsTypeOK, PromoterWork
  <2> QED
    BY <2>1, <2>2, PromoterShape DEF PromotionsInv, ValueFits, WindowFits, MayUpdate, With, PromotionsTypeOK
<1>2. ASSUME NEW h \in Promoters, NEW dto \in PromotionDtos, ReadCode(h, dto)
      PROVE  PromotionsInv'
  <2> DEFINE p == [pc |-> "update", read |-> code, dto |-> dto]
  <2>1. /\ p \in PromoterWork /\ p.pc = "update" /\ p.read = code /\ p.dto = dto /\ MayUpdate(code, dto)
        /\ promoter' = [promoter EXCEPT ![h] = p] /\ UNCHANGED <<code, codeOvertaken>>
    BY <1>2 DEF ReadCode, PromoterWork, PromotionsInv, PromotionsTypeOK
  <2> HIDE DEF p
  <2>2. PromotionsTypeOK'
    BY <2>1 DEF PromotionsInv, PromotionsTypeOK, PromoterWork
  <2>3. \A g \in Promoters : promoter'[g] = IF g = h THEN p ELSE promoter[g]
    BY <2>1 DEF PromotionsInv, PromotionsTypeOK
  <2> QED
    BY <2>1, <2>2, <2>3 DEF PromotionsInv, ValueFits, WindowFits, MayUpdate, With
<1>3. ASSUME NEW h \in Promoters, InsertCode(h)
      PROVE  PromotionsInv'
  <2>1. promoter[h].row \in Code /\ ValueFits(promoter[h].row) /\ WindowFits(promoter[h].row)
    BY <1>3, PromoterShape DEF InsertCode, PromotionsInv
  <2>2. /\ code' = IF code = NoCodeRow THEN promoter[h].row ELSE code
        /\ promoter' = [promoter EXCEPT ![h] = Off] /\ codeOvertaken' = codeOvertaken
    BY <1>3 DEF InsertCode
  <2>3. PromotionsTypeOK'
    BY <2>1, <2>2 DEF PromotionsInv, PromotionsTypeOK
  <2>4. \A g \in Promoters : promoter'[g].pc # "idle" => promoter'[g] = promoter[g]
    BY <2>2, PromoterShape DEF PromotionsInv, PromotionsTypeOK
  <2> QED
    BY <2>1, <2>2, <2>3, <2>4 DEF PromotionsInv, ValueFits, WindowFits, MayUpdate, With
<1>4. CASE RemoveCode \/ PromotersStop
  <2>1. /\ code' \in {code, NoCodeRow} /\ codeOvertaken' = codeOvertaken
        /\ promoter' \in [Promoters -> {Off} \cup PromoterWork]
        /\ \A g \in Promoters : promoter'[g].pc # "idle" => promoter'[g] = promoter[g]
    BY <1>4, PromoterShape DEF RemoveCode, PromotersStop, PromotionsInv
  <2>2. PromotionsTypeOK'
    BY <2>1 DEF PromotionsInv, PromotionsTypeOK, PromoterWork
  <2> QED
    BY <2>1, <2>2 DEF PromotionsInv, ValueFits, WindowFits, MayUpdate, With
<1>5. CASE UNCHANGED promotionVars
  BY <1>5 DEF promotionVars, PromotionsInv, PromotionsTypeOK, ValueFits, WindowFits, MayUpdate, With
<1> QED
  BY <1>1, <1>2, <1>3, <1>4, <1>5, WriteCodeKeeps DEF PromotionsStep

\* Math.round of at most all of it is at most all of it.
LEMMA TakesNoMoreThanThereIs ==
    ASSUME NEW row \in Code, ValueFits(row), NEW subtotal \in Nat
    PROVE  AmountCents(row, subtotal) <= subtotal
<1>1. row.value \in Nat
  BY DEF Code
<1>2. CASE row.type = "PERCENTAGE"
  <2>1. row.value <= 100
    BY <1>2 DEF ValueFits
  <2>2. subtotal * row.value \in Nat /\ subtotal * row.value <= subtotal * 100
    BY <1>1, <2>1
  <2>3. ASSUME NEW n \in Nat, n <= subtotal * 100 PROVE (n + 50) \div 100 <= subtotal
    BY <2>3
  <2>4. (subtotal * row.value + 50) \div 100 <= subtotal
    BY <2>2, <2>3
  <2> QED
    BY <1>2, <2>4 DEF AmountCents
<1>3. CASE row.type # "PERCENTAGE"
  BY <1>1, <1>3 DEF AmountCents
<1> QED
  BY <1>2, <1>3

LEMMA PromotionsSay == PromotionsInv => CodeStaysValid
<1> SUFFICES ASSUME PromotionsInv, code # NoCodeRow, ~codeOvertaken
             PROVE  /\ \A subtotal \in Subtotals : AmountCents(code, subtotal) <= subtotal
                    /\ WindowFits(code)
  BY DEF CodeStaysValid
<1>1. code \in Code /\ ValueFits(code) /\ WindowFits(code)
  BY DEF PromotionsInv, PromotionsTypeOK
<1> QED
  BY <1>1, TakesNoMoreThanThereIs, PromotionsAssumption
-----------------------------------------------------------------------------
(***************************************************************************)
(* Seller accounts.  An account was brought back for a store when a code of *)
(* the two was spent that had been presented within the life of its state;   *)
(* every request that holds an account holds one that was, and every code    *)
(* that waits for its exchange was presented in time.                       *)
(***************************************************************************)
Exchanging == [pc : {"exchange"}, code : codes, store : Stores, at : 0..now]
Storing    == [pc : {"storing"}, store : Stores, account : Sellers]
Refreshing == [pc : {"refresh", "refreshed"}, store : Stores, account : Sellers]

Brought(exchanged, a, t) ==
    \E p \in exchanged : p.code.account = a /\ p.code.state.store = t /\ p.at < p.code.state.end

SellersInv ==
    /\ SellersTypeOK
    /\ \A t \in Stores \ storesOvertaken : seller[t].account = decided[t]
    /\ \A t \in Stores : seller[t] # Unconnected => Brought(spent, seller[t].account, t)
    /\ \A h \in Tills : till[h].pc \in {"storing", "refresh", "refreshed"} =>
          Brought(spent, till[h].account, till[h].store)
    /\ \A h \in Tills : till[h].pc = "exchange" =>
          till[h].store = till[h].code.state.store /\ till[h].at < till[h].code.state.end

LEMMA TillShape ==
    ASSUME SellersTypeOK
    PROVE  /\ till \in [Tills -> {Closed} \cup Exchanging \cup Storing \cup Refreshing]
           /\ Closed.pc = "idle"
           /\ \A h \in Tills :
                 /\ till[h].pc = "exchange" => till[h] \in Exchanging
                 /\ till[h].pc = "storing" => till[h] \in Storing
                 /\ till[h].pc \in {"refresh", "refreshed"} => till[h] \in Refreshing
                 /\ till[h].pc \in {"idle", "exchange", "storing", "refresh", "refreshed"}
BY DEF SellersTypeOK, Closed, Exchanging, Storing, Refreshing

\* What a request holds stays what it may hold as states, codes and time are added.
LEMMA TillsStay ==
    ASSUME SellersTypeOK, ClockTypeOK, Moves, codes \subseteq codes'
    PROVE  /\ Exchanging \subseteq Exchanging' /\ Storing' = Storing /\ Refreshing' = Refreshing
           /\ spent \subseteq [code : codes', at : 0..now']
<1>1. 0..now \subseteq 0..now'
  BY ClockMoves
<1> QED
  BY <1>1 DEF SellersTypeOK, Exchanging, Storing, Refreshing

LEMMA SellersInitInv ==
    ASSUME SellersInit
    PROVE  SellersInv
BY DEF SellersInit, SellersInv, SellersTypeOK, Unconnected, Closed

\* A step that leaves the stores alone, and one request perhaps with something new.
LEMMA TillMovesKeep ==
    ASSUME SellersInv, ClockTypeOK, Moves, NEW h \in Tills,
           NEW r \in {Closed} \cup Exchanging' \cup Storing \cup Refreshing,
           Serves(h, r),
           codes' = codes, signed' = signed, spent \subseteq spent',
           spent' \subseteq [code : codes, at : 0..now'],
           UNCHANGED <<seller, decided, storesOvertaken>>,
           r.pc \in {"storing", "refresh", "refreshed"} => Brought(spent', r.account, r.store),
           r.pc = "exchange" => r.store = r.code.state.store /\ r.at < r.code.state.end
    PROVE  SellersInv'
<1>1. till' \in [Tills -> {Closed} \cup Exchanging' \cup Storing \cup Refreshing]
      /\ \A g \in Tills : till'[g] = IF g = h THEN r ELSE till[g]
  BY TillShape, TillsStay DEF SellersInv, Serves
<1>2. SellersTypeOK'
  BY <1>1 DEF SellersInv, SellersTypeOK, Exchanging, Storing, Refreshing
<1>3. \A a, t : Brought(spent, a, t) => Brought(spent', a, t)
  BY DEF Brought
<1>4. \A t \in Stores : seller'[t] # Unconnected => Brought(spent', seller[t].account, t)
  BY <1>3 DEF SellersInv
<1>5. \A g \in Tills : till'[g].pc \in {"storing", "refresh", "refreshed"} =>
          Brought(spent', till'[g].account, till'[g].store)
  BY <1>1, <1>3 DEF SellersInv
<1>6. \A g \in Tills : till'[g].pc = "exchange" =>
          till'[g].store = till'[g].code.state.store /\ till'[g].at < till'[g].code.state.end
  BY <1>1 DEF SellersInv
<1>7. \A t \in Stores \ storesOvertaken' : seller'[t].account = decided'[t]
  BY DEF SellersInv
<1> QED
  BY <1>2, <1>4, <1>5, <1>6, <1>7 DEF SellersInv, Brought

\* A code is presented, exchanged, or a token is read and refreshed.
LEMMA TillStepsKeep ==
    ASSUME SellersInv, ClockTypeOK, NEW h \in Tills,
           \/ \E c \in codes : OauthCallback(h, c)
           \/ \E t \in Stores : ReadCreds(h, t)
           \/ ExchangeCode(h) \/ RefreshAnswered(h) \/ MercadoPagoFails(h)
    PROVE  SellersInv'
<1>1. ASSUME NEW c \in codes, OauthCallback(h, c) PROVE SellersInv'
  <2> DEFINE r == [pc |-> "exchange", code |-> c, store |-> c.state.store, at |-> now]
  <2>1. /\ Moves /\ Serves(h, r) /\ now < c.state.end /\ now' = now
        /\ UNCHANGED <<seller, signed, codes, spent, decided, storesOvertaken>>
    BY <1>1 DEF OauthCallback, Moves, Arrives, Verifies
  <2>2. c.state.store \in Stores /\ now \in 0..now'
    BY <2>1, ClockMoves DEF SellersInv, SellersTypeOK, SignedState
  <2>3. r \in Exchanging' /\ r.pc = "exchange" /\ r.store = r.code.state.store /\ r.at < r.code.state.end
    BY <2>1, <2>2 DEF Exchanging
  <2>4. spent' \subseteq [code : codes, at : 0..now']
    BY <2>1 DEF SellersInv, SellersTypeOK
  <2> HIDE DEF r
  <2> QED
    BY <2>1, <2>3, <2>4, TillMovesKeep
<1>2. ASSUME NEW t \in Stores, ReadCreds(h, t) PROVE SellersInv'
  <2> DEFINE r == [pc |-> "refresh", store |-> t, account |-> seller[t].account]
  <2>1. /\ Moves /\ Serves(h, r) /\ seller[t] # Unconnected /\ now' = now
        /\ UNCHANGED <<seller, signed, codes, spent, decided, storesOvertaken>>
    BY <1>2 DEF ReadCreds, Moves, Arrives
  <2>2. seller[t].account \in Sellers /\ Brought(spent', seller[t].account, t)
    BY <2>1 DEF SellersInv, SellersTypeOK
  <2>3. r \in Refreshing /\ r.pc = "refresh" /\ Brought(spent', r.account, r.store)
    BY <2>2 DEF Refreshing
  <2>4. spent' \subseteq [code : codes, at : 0..now']
    BY <2>1 DEF SellersInv, SellersTypeOK
  <2> HIDE DEF r
  <2> QED
    BY <2>1, <2>3, <2>4, TillMovesKeep
<1>3. ASSUME ExchangeCode(h) PROVE SellersInv'
  <2> DEFINE o == till[h]
             r == [pc |-> "storing", store |-> o.store, account |-> o.code.account]
             p == [code |-> o.code, at |-> o.at]
  <2>1. /\ Moves /\ Serves(h, r) /\ spent' = spent \cup {p} /\ now' = now /\ o.pc = "exchange"
        /\ UNCHANGED <<seller, signed, codes, decided, storesOvertaken>>
    BY <1>3 DEF ExchangeCode, Moves, GoesOn, clockVars
  <2>2. o \in Exchanging /\ o.store = o.code.state.store /\ o.at < o.code.state.end
    BY <2>1, TillShape DEF SellersInv
  <2>3. p \in [code : codes, at : 0..now'] /\ o.code.account \in Sellers
    BY <2>1, <2>2 DEF Exchanging, SellersInv, SellersTypeOK
  <2>4. spent' \subseteq [code : codes, at : 0..now']
    BY <2>1, <2>3 DEF SellersInv, SellersTypeOK
  <2>5. Brought(spent', o.code.account, o.store)
    <3>1. p \in spent' /\ p.code = o.code /\ p.at = o.at
      BY <2>1
    <3> QED
      BY <2>2, <3>1, Zenon DEF Brought
  <2>6. r \in Storing /\ r.pc = "storing" /\ Brought(spent', r.account, r.store)
    BY <2>2, <2>3, <2>5 DEF Exchanging, Storing
  <2>7. spent \subseteq spent'
    BY <2>1
  <2> HIDE DEF r, o, p
  <2> QED
    BY <2>1, <2>4, <2>6, <2>7, TillMovesKeep
<1>4. ASSUME RefreshAnswered(h) PROVE SellersInv'
  <2> DEFINE r == [till[h] EXCEPT !.pc = "refreshed"]
  <2>1. /\ Moves /\ Serves(h, r) /\ now' = now /\ till[h].pc = "refresh"
        /\ UNCHANGED <<seller, signed, codes, spent, decided, storesOvertaken>>
    BY <1>4 DEF RefreshAnswered, Moves, GoesOn, clockVars
  <2>2. till[h] \in Refreshing /\ Brought(spent, till[h].account, till[h].store)
    BY <2>1, TillShape DEF SellersInv
  <2>3. /\ r \in Refreshing /\ r.pc = "refreshed"
        /\ r.account = till[h].account /\ r.store = till[h].store
    BY <2>2 DEF Refreshing
  <2>4. spent' \subseteq [code : codes, at : 0..now']
    BY <2>1 DEF SellersInv, SellersTypeOK
  <2> HIDE DEF r
  <2> QED
    BY <2>1, <2>2, <2>3, <2>4, TillMovesKeep
<1>5. ASSUME MercadoPagoFails(h) PROVE SellersInv'
  <2>1. /\ Moves /\ Serves(h, Closed) /\ now' = now
        /\ UNCHANGED <<seller, signed, codes, spent, decided, storesOvertaken>>
    BY <1>5 DEF MercadoPagoFails, Moves, GoesOn, clockVars
  <2>2. spent' \subseteq [code : codes, at : 0..now']
    BY <2>1 DEF SellersInv, SellersTypeOK
  <2>3. Closed.pc = "idle"
    BY DEF Closed
  <2> QED
    BY <2>1, <2>2, <2>3, TillMovesKeep
<1> QED
  BY <1>1, <1>2, <1>3, <1>4, <1>5

\* States and codes are added, nothing else.
LEMMA StatesAddedKeep ==
    ASSUME SellersInv, ClockTypeOK, Moves, codes \subseteq codes', signed' \in SUBSET SignedState,
           codes' \in SUBSET [account : Sellers, state : signed'],
           UNCHANGED <<seller, spent, till, decided, storesOvertaken>>
    PROVE  SellersInv'
<1>1. till' \in [Tills -> {Closed} \cup Exchanging' \cup Storing' \cup Refreshing']
  BY TillShape, TillsStay DEF SellersInv
<1>2. spent' \subseteq [code : codes', at : 0..now']
  BY TillsStay DEF SellersInv
<1>3. SellersTypeOK'
  BY <1>1, <1>2 DEF SellersInv, SellersTypeOK, Exchanging, Storing, Refreshing
<1> QED
  BY <1>3 DEF SellersInv, Brought

\* The credentials of one store are written, by a request that held the account, or
\* the store is disconnected.
LEMMA StoreChangesKeep ==
    ASSUME SellersInv, ClockTypeOK, Moves, NEW t \in Stores,
           NEW row \in {Unconnected} \cup [account : Sellers, end : Nat],
           seller' = [seller EXCEPT ![t] = row],
           row # Unconnected => Brought(spent, row.account, t),
           till' = till \/ \E h \in Tills : Serves(h, Closed),
           UNCHANGED <<signed, codes, spent>>,
           \/ /\ decided' = [decided EXCEPT ![t] = row.account]
              /\ storesOvertaken' = storesOvertaken \ {t}
           \/ /\ decided' = decided /\ row # Unconnected
              /\ storesOvertaken' = IF seller[t].account = row.account THEN storesOvertaken
                                    ELSE storesOvertaken \cup {t}
    PROVE  SellersInv'
<1>1. /\ till' \in [Tills -> {Closed} \cup Exchanging \cup Storing \cup Refreshing]
      /\ \A h \in Tills : till'[h].pc # "idle" => till'[h] = till[h]
  BY TillShape DEF SellersInv, Serves
<1>2. /\ {Closed} \cup Exchanging \cup Storing \cup Refreshing
             \subseteq {Closed} \cup Exchanging' \cup Storing' \cup Refreshing'
      /\ spent' \subseteq [code : codes', at : 0..now']
  BY TillsStay DEF SellersInv
<1>3. till' \in [Tills -> {Closed} \cup Exchanging' \cup Storing' \cup Refreshing']
  BY <1>1, <1>2
<1>4. \A s \in Stores : seller'[s] = IF s = t THEN row ELSE seller[s]
  BY DEF SellersInv, SellersTypeOK
<1>5. row.account \in Sellers \cup {Nobody}
  BY DEF Unconnected
<1>6. /\ decided' \in [Stores -> Sellers \cup {Nobody}] /\ storesOvertaken' \in SUBSET Stores
      /\ \A s \in Stores \ storesOvertaken' : seller'[s].account = decided'[s]
  BY <1>4, <1>5 DEF SellersInv, SellersTypeOK
<1>7. SellersTypeOK'
  BY <1>2, <1>3, <1>6 DEF SellersInv, SellersTypeOK, Exchanging, Storing, Refreshing
<1>8. \A s \in Stores : seller'[s] # Unconnected => Brought(spent, seller'[s].account, s)
  BY <1>4 DEF SellersInv
<1> QED
  BY <1>1, <1>6, <1>7, <1>8 DEF SellersInv, Brought

LEMMA SellersKept ==
    ASSUME SellersInv, ClockTypeOK, Moves, SellersStep \/ SellersStop \/ UNCHANGED sellerVars
    PROVE  SellersInv'
<1>1. ASSUME NEW t \in Stores, BuildConnectUrl(t) PROVE SellersInv'
  <2>1. now + StateLife \in Nat
    BY ClockMoves, SellersAssumption
  <2>2. /\ signed' = signed \cup {[store |-> t, end |-> now + StateLife]}
        /\ UNCHANGED <<seller, codes, spent, till, decided, storesOvertaken>>
    BY <1>1 DEF BuildConnectUrl
  <2>3. signed' \in SUBSET SignedState /\ codes' \in SUBSET [account : Sellers, state : signed']
    BY <2>1, <2>2 DEF SellersInv, SellersTypeOK, SignedState
  <2> QED
    BY <2>2, <2>3, StatesAddedKeep
<1>2. ASSUME NEW a \in Sellers, NEW state \in signed, Consents(a, state) PROVE SellersInv'
  <2>1. /\ codes' = codes \cup {[account |-> a, state |-> state]}
        /\ UNCHANGED <<seller, signed, spent, till, decided, storesOvertaken>>
    BY <1>2 DEF Consents
  <2>2. signed' \in SUBSET SignedState /\ codes' \in SUBSET [account : Sellers, state : signed']
    BY <2>1 DEF SellersInv, SellersTypeOK
  <2> QED
    BY <2>1, <2>2, StatesAddedKeep
<1>3. ASSUME NEW t \in Stores, Disconnect(t) PROVE SellersInv'
  <2>1. /\ seller' = [seller EXCEPT ![t] = Unconnected] /\ Unconnected.account = Nobody
        /\ decided' = [decided EXCEPT ![t] = Nobody] /\ storesOvertaken' = storesOvertaken \ {t}
        /\ UNCHANGED <<signed, codes, spent, till>>
    BY <1>3 DEF Disconnect, Unconnected
  <2> QED
    BY <2>1, StoreChangesKeep
<1>4. ASSUME NEW h \in Tills, StoreCreds(h) \/ RefreshCreds(h) PROVE SellersInv'
  <2> DEFINE r == till[h]
             row == [account |-> r.account, end |-> now + TokenLife]
  <2>1. r.pc \in {"storing", "refreshed"}
    BY <1>4 DEF StoreCreds, RefreshCreds
  <2>2. r.store \in Stores /\ r.account \in Sellers /\ Brought(spent, r.account, r.store)
    BY <2>1, TillShape DEF SellersInv, Storing, Refreshing
  <2>3. now + TokenLife \in Nat
    BY ClockMoves, SellersAssumption
  <2>4. row \in [account : Sellers, end : Nat] /\ row.account = r.account /\ row # Unconnected
    BY <2>2, <2>3, SellersAssumption DEF Unconnected
  <2>5. /\ seller' = [seller EXCEPT ![r.store] = row] /\ Serves(h, Closed)
        /\ UNCHANGED <<signed, codes, spent>>
        /\ \/ /\ decided' = [decided EXCEPT ![r.store] = r.account]
              /\ storesOvertaken' = storesOvertaken \ {r.store}
           \/ /\ decided' = decided
              /\ storesOvertaken' = IF seller[r.store].account = r.account THEN storesOvertaken
                                    ELSE storesOvertaken \cup {r.store}
    BY <1>4 DEF StoreCreds, RefreshCreds, PersistCreds
  <2> HIDE DEF row, r
  <2> QED
    BY <2>2, <2>4, <2>5, StoreChangesKeep
<1>5. CASE SellersStop
  <2>1. \A h \in Tills : till'[h] = Closed
    BY <1>5 DEF SellersStop
  <2>2. till' \in [Tills -> {Closed}] /\ Closed.pc = "idle"
    BY <1>5 DEF SellersStop, Closed
  <2>3. spent' \subseteq [code : codes', at : 0..now']
    BY <1>5, TillsStay DEF SellersInv, SellersStop
  <2>4. SellersTypeOK'
    BY <1>5, <2>2, <2>3 DEF SellersStop, SellersInv, SellersTypeOK
  <2> QED
    BY <1>5, <2>1, <2>2, <2>4 DEF SellersStop, SellersInv, Brought
<1>6. CASE UNCHANGED sellerVars
  BY <1>6, StatesAddedKeep DEF sellerVars, SellersInv, SellersTypeOK
<1> QED
  BY <1>1, <1>2, <1>3, <1>4, <1>5, <1>6, TillStepsKeep DEF SellersStep

LEMMA SellersSay == SellersInv => SellsForWhomItsOwnerChose
BY DEF SellersInv, SellsForWhomItsOwnerChose, Brought
-----------------------------------------------------------------------------
(***************************************************************************)
(* Collections.  Every write of a request in flight tells the slug it read, *)
(* or marks the slug the collection has by now, so after it no answer stands, *)
(* be it kept or on its way; places are kept distinct as those of images.    *)
(***************************************************************************)
Updates  == [pc : {"update"}, had : Handles, type : {"unsent", "MANUAL", "AUTO"},
             slug : Handles \cup {NoPlace}]
Removes  == [pc : {"remove"}, had : Handles]
Links    == [pc : {"attach"}, had : Handles, list : Lists(Members), place : Nat]
Sorts    == [pc : {"reorder"}, had : Handles, list : Lists(Members)]
Detaches == [pc : {"detach"}, had : Handles, product : Members]
CuratorWork == Updates \cup Removes \cup Links \cup Sorts \cup Detaches

MembersInv ==
    ~membersMixed =>
        /\ NoneShared(member)
        /\ \A h \in Curators : curator[h].pc = "attach" =>
              \A m \in Placed(member) : member[m] < curator[h].place

KeptPages ==
    /\ collectionPage \in [Handles -> {NoPlace} \cup {a \in Answer : a.listed}]
    /\ collectionAsked \in [Handles -> {NoPlace} \cup Answer]
    /\ collectionBehind \in SUBSET Handles
    /\ collectionSent \in SUBSET Handles /\ collectionMissed \in SUBSET Handles

\* Answers under a slug that no tag is on its way for and none was left out for.
Stands(x) ==
    ((IF x \in collectionSent \cup collectionMissed THEN {} ELSE {collectionPage[x]})
        \cup (IF x \in collectionBehind THEN {} ELSE {collectionAsked[x]})) \ {NoPlace}

StandTrue == \A x \in Handles : \A a \in Stands(x) : SaysNow(x, a)

BehindIsTold == collectionBehind \subseteq collectionSent \cup collectionMissed

CollectionsInv ==
    /\ CollectionsTypeOK
    /\ \A h \in Curators : curator[h].pc # "idle" => kind # "none"
    /\ BehindIsTold /\ StandTrue
    /\ MembersInv

LEMMA CuratorShape ==
    /\ CollectionsTypeOK => curator \in [Curators -> {Idle} \cup CuratorWork]
    /\ Idle.pc = "idle"
    /\ \A c \in CuratorWork : c.had \in Handles /\ c.pc # "idle"
    /\ \A c \in {Idle} \cup CuratorWork :
          /\ c.pc = "update" => c \in Updates
          /\ c.pc = "remove" => c \in Removes
          /\ c.pc = "attach" => c \in Links
          /\ c.pc = "reorder" => c \in Sorts
          /\ c.pc = "detach" => c \in Detaches
BY DEF CollectionsTypeOK, Idle, CuratorWork, Updates, Removes, Links, Sorts, Detaches

LEMMA CollectionsSay == CollectionsInv => CollectionPagesAreTrue
BY DEF CollectionsInv, StandTrue, Stands, CollectionPagesAreTrue

\* What stands of a collection that does not change.
LEMMA StillStands ==
    ASSUME StandTrue, UNCHANGED <<kind, member, handle>>, \A x \in Handles : Stands(x)' \subseteq Stands(x)
    PROVE  StandTrue'
BY DEF StandTrue, SaysNow, PlacesBut

\* After a tag no answer stands: the collection's is under its slug, which is told
\* or marked.
LEMMA TaggedPages ==
    ASSUME CollectionsInv, kind # "none", NEW had \in Handles, NEW slugs \in SUBSET Handles,
           had \in slugs, Revalidate(had, slugs)
    PROVE  KeptPages' /\ BehindIsTold' /\ \A x \in Handles : Stands(x)' = {}
<1> DEFINE left == {handle} \ (slugs \cup {had})
<1>1. /\ UNCHANGED <<collectionPage, collectionAsked>>
      /\ collectionSent' = collectionSent \cup slugs
      /\ collectionMissed' = collectionMissed \cup left
      /\ collectionBehind' = collectionBehind
            \cup {x \in slugs \cup left : collectionAsked[x] # NoPlace}
  BY DEF Revalidate, Kept!Dispatch
<1>2. handle \in Handles /\ handle \in slugs \cup left /\ left \subseteq Handles
  BY DEF CollectionsInv, CollectionsTypeOK
<1> HIDE DEF left
<1>3. KeptPages'
  BY <1>1, <1>2 DEF CollectionsInv, CollectionsTypeOK, KeptPages
<1>4. BehindIsTold'
  BY <1>1 DEF CollectionsInv, BehindIsTold
<1>5. \A x \in Handles : Stands(x)' \subseteq Stands(x)
  BY <1>1 DEF Stands
<1>6. \A x \in Handles : x # handle => Stands(x) = {}
  BY DEF CollectionsInv, StandTrue, SaysNow
<1>7. \A x \in Handles : x = handle => Stands(x)' = {}
  BY <1>1, <1>2 DEF Stands
<1> QED
  BY <1>3, <1>4, <1>5, <1>6, <1>7

\* A request begins: nothing but what it holds is new.
LEMMA CuratorBeginsKeeps ==
    ASSUME CollectionsInv, NEW h \in Curators, NEW c \in CuratorWork, CuratorBegins(h, c),
           c.pc = "attach" => c.place = NextPlace(member)
    PROVE  CollectionsInv'
<1>1. /\ kind # "none" /\ curator' = [curator EXCEPT ![h] = c]
      /\ UNCHANGED <<kind, member, handle, onSale, collectionPageVars, membersMixed>>
  BY DEF CuratorBegins, Curates
<1>2. /\ curator' \in [Curators -> {Idle} \cup CuratorWork]
      /\ \A g \in Curators : curator'[g] = IF g = h THEN c ELSE curator[g]
  BY <1>1, CuratorShape DEF CollectionsInv
<1>3. CollectionsTypeOK'
  BY <1>1, <1>2 DEF CollectionsInv, CollectionsTypeOK, collectionPageVars,
                    CuratorWork, Updates, Removes, Links, Sorts, Detaches
<1>4. StandTrue' /\ BehindIsTold'
  BY <1>1, StillStands DEF CollectionsInv, Stands, BehindIsTold, collectionPageVars
<1>5. MembersInv'
  <2>1. \A m \in Placed(member) : member[m] < NextPlace(member)
    BY NextIsLast, CollectionsAssumption DEF CollectionsInv, CollectionsTypeOK
  <2> QED
    BY <1>1, <1>2, <2>1 DEF CollectionsInv, MembersInv, NoneShared, Placed
<1> QED
  BY <1>1, <1>3, <1>4, <1>5 DEF CollectionsInv

LEMMA BeginningsKeep ==
    ASSUME CollectionsInv, NEW h \in Curators,
           \/ \E items \in Lists(Members) : ReadLastPlace(h, items) \/ CheckOrder(h, items)
           \/ \E m \in Members : FindLink(h, m)
           \/ \E x \in Handles : FindForUpdate(h, "unsent", x)
           \/ \E type \in {"MANUAL", "AUTO"} : FindForUpdate(h, type, NoPlace)
           \/ FindForRemoval(h)
    PROVE  CollectionsInv'
<1>1. kind # "none" => handle \in Handles
  BY DEF CollectionsInv, CollectionsTypeOK
<1>2. ASSUME NEW items \in Lists(Members), ReadLastPlace(h, items) PROVE CollectionsInv'
  <2> DEFINE c == [pc |-> "attach", had |-> handle, list |-> items, place |-> NextPlace(member)]
  <2>1. CuratorBegins(h, c) /\ kind # "none"
    BY <1>2 DEF ReadLastPlace, ManualBegins, CuratorBegins
  <2>2. NextPlace(member) \in Nat
    BY NextIsLast, CollectionsAssumption DEF CollectionsInv, CollectionsTypeOK
  <2>3. c \in CuratorWork /\ c.place = NextPlace(member)
    BY <1>1, <2>1, <2>2 DEF CuratorWork, Links
  <2> HIDE DEF c
  <2> QED
    BY <2>1, <2>3, CuratorBeginsKeeps
<1>3. ASSUME NEW items \in Lists(Members), CheckOrder(h, items) PROVE CollectionsInv'
  <2> DEFINE c == [pc |-> "reorder", had |-> handle, list |-> items]
  <2>1. CuratorBegins(h, c) /\ kind # "none"
    BY <1>3 DEF CheckOrder, ManualBegins, CuratorBegins
  <2>2. c \in CuratorWork /\ c.pc # "attach"
    BY <1>1, <2>1 DEF CuratorWork, Sorts
  <2> HIDE DEF c
  <2> QED
    BY <2>1, <2>2, CuratorBeginsKeeps
<1>4. ASSUME NEW m \in Members, FindLink(h, m) PROVE CollectionsInv'
  <2> DEFINE c == [pc |-> "detach", had |-> handle, product |-> m]
  <2>1. CuratorBegins(h, c) /\ kind # "none"
    BY <1>4 DEF FindLink, ManualBegins, CuratorBegins
  <2>2. c \in CuratorWork /\ c.pc # "attach"
    BY <1>1, <2>1 DEF CuratorWork, Detaches
  <2> HIDE DEF c
  <2> QED
    BY <2>1, <2>2, CuratorBeginsKeeps
<1>5. ASSUME NEW type \in {"unsent", "MANUAL", "AUTO"}, NEW x \in Handles \cup {NoPlace},
             FindForUpdate(h, type, x)
      PROVE  CollectionsInv'
  <2> DEFINE c == [pc |-> "update", had |-> handle, type |-> type, slug |-> x]
  <2>1. CuratorBegins(h, c) /\ kind # "none"
    BY <1>5 DEF FindForUpdate, CuratorBegins
  <2>2. c \in CuratorWork /\ c.pc # "attach"
    BY <1>1, <2>1 DEF CuratorWork, Updates
  <2> HIDE DEF c
  <2> QED
    BY <2>1, <2>2, CuratorBeginsKeeps
<1>6. ASSUME FindForRemoval(h) PROVE CollectionsInv'
  <2> DEFINE c == [pc |-> "remove", had |-> handle]
  <2>1. CuratorBegins(h, c) /\ kind # "none"
    BY <1>6 DEF FindForRemoval, CuratorBegins
  <2>2. c \in CuratorWork /\ c.pc # "attach"
    BY <1>1, <2>1 DEF CuratorWork, Removes
  <2> HIDE DEF c
  <2> QED
    BY <2>1, <2>2, CuratorBeginsKeeps
<1> QED
  BY <1>2, <1>3, <1>4, <1>5, <1>6

\* A request that was in flight tells its tags and ends.
LEMMA CuratorWritesKeep ==
    ASSUME CollectionsInv, NEW h \in Curators, curator[h].pc # "idle",
           NEW slugs \in SUBSET Handles, curator[h].had \in slugs, Revalidate(curator[h].had, slugs),
           Curates(h, Idle) \/ (curator' = [g \in Curators |-> Idle]),
           kind' \in {"none", "MANUAL", "AUTO"}, handle' \in Handles \cup {NoPlace},
           handle' = NoPlace <=> kind' = "none",
           kind' = "none" => curator' = [g \in Curators |-> Idle],
           member' \in [Members -> {NoPlace} \cup Nat],
           kind' = "none" => Placed(member') = {}, UNCHANGED onSale,
           membersMixed' \in BOOLEAN, MembersInv'
    PROVE  CollectionsInv'
<1>1. curator[h] \in CuratorWork /\ curator[h].had \in Handles /\ kind # "none"
  BY CuratorShape DEF CollectionsInv
<1>2. KeptPages' /\ BehindIsTold' /\ \A x \in Handles : Stands(x)' = {}
  BY <1>1, TaggedPages
<1>3. /\ curator' \in [Curators -> {Idle} \cup CuratorWork]
      /\ \A g \in Curators : curator'[g].pc # "idle" => curator'[g] = curator[g] /\ kind' # "none"
  BY CuratorShape DEF CollectionsInv, Curates
<1>4. CollectionsTypeOK'
  BY <1>2, <1>3 DEF CollectionsInv, CollectionsTypeOK, KeptPages, CuratorWork, Updates, Removes, Links,
                    Sorts, Detaches
<1>5. StandTrue'
  BY <1>2 DEF StandTrue
<1> QED
  BY <1>2, <1>3, <1>4, <1>5 DEF CollectionsInv

\* A list that names something names it first somewhere.
LEMMA NamedFirst ==
    ASSUME NEW items, Len(items) \in Nat, NEW m, \E k \in 1..Len(items) : items[k] = m
    PROVE  \E k \in 1..Len(items) : items[k] = m /\ \A j \in 1..(k-1) : items[j] # m
<1> DEFINE At == {k \in 1..Len(items) : items[k] = m}
           R == OpToRel(<, Nat)
<1>1. At # {} /\ At \subseteq Nat
  OBVIOUS
<1>2. PICK k \in At : \A j \in At : ~ (<<j, k>> \in R)
  <2>1. IsWellFoundedOn(R, Nat)
    BY NatLessThanWellFounded
  <2> HIDE DEF At, R
  <2> QED
    BY <1>1, <2>1, WFMin
<1>3. \A j \in At : ~ (j < k)
  BY <1>1, <1>2 DEF OpToRel
<1>4. k \in 1..Len(items) /\ items[k] = m
  BY <1>2
<1>5. \A j \in 1..(k-1) : items[j] # m
  BY <1>3, <1>4
<1> QED
  BY <1>4, <1>5

\* A product that is linked by a list takes the place of an index of its own.
LEMMA LinkedPlaces ==
    ASSUME member \in [Members -> {NoPlace} \cup Nat], NEW items \in Lists(Members), NEW place \in Nat
    PROVE  /\ Linked(items, place) \in [Members -> {NoPlace} \cup Nat]
           /\ \A m \in Members :
                \/ \E k \in 1..Len(items) : items[k] = m /\ Linked(items, place)[m] = place + k - 1
                \/ Linked(items, place)[m] = member[m]
<1> DEFINE named(m) == \E k \in 1..Len(items) : items[k] = m
           first(m) == CHOOSE k \in 1..Len(items) : items[k] = m /\ \A j \in 1..(k-1) : items[j] # m
<1>1. Len(items) \in Nat
  BY ListIsSeq, CollectionsAssumption
<1>2. \A m : named(m) => first(m) \in 1..Len(items) /\ items[first(m)] = m
  BY <1>1, NamedFirst
<1>3. Linked(items, place) = [m \in Members |->
          IF member[m] = NoPlace /\ named(m) THEN place + first(m) - 1 ELSE member[m]]
  BY DEF Linked
<1> HIDE DEF named, first
<1>4. \A m : named(m) => place + first(m) - 1 \in Nat
  BY <1>1, <1>2
<1> QED
  BY <1>2, <1>3, <1>4

LEMMA AttachKeepsPlaces ==
    ASSUME CollectionsInv, NEW h \in Curators, AttachProducts(h)
    PROVE  member' \in [Members -> {NoPlace} \cup Nat] /\ MembersInv'
<1> DEFINE c == curator[h]
<1>1. /\ c.list \in Lists(Members) /\ c.place \in Nat /\ c.pc = "attach"
      /\ member' = Linked(c.list, c.place) /\ Curates(h, Idle)
      /\ membersMixed' = (membersMixed \/ LinkingElsewhere(h))
  BY CuratorShape DEF AttachProducts, CollectionsInv, Links
<1>2. /\ member' \in [Members -> {NoPlace} \cup Nat]
      /\ \A m \in Members :
            \/ \E k \in 1..Len(c.list) : c.list[k] = m /\ member'[m] = c.place + k - 1
            \/ member'[m] = member[m]
  <2>1. member \in [Members -> {NoPlace} \cup Nat]
    BY DEF CollectionsInv, CollectionsTypeOK
  <2> HIDE DEF c
  <2> QED
    BY <1>1, <2>1, LinkedPlaces
<1>3. Len(c.list) \in Nat
  BY <1>1, ListIsSeq, CollectionsAssumption
<1>4. \A g \in Curators : curator'[g] = IF g = h THEN Idle ELSE curator[g]
  BY <1>1, CuratorShape DEF CollectionsInv, Curates
<1> SUFFICES ASSUME ~membersMixed, ~LinkingElsewhere(h)
             PROVE  /\ NoneShared(member')
                    /\ \A g \in Curators : curator'[g].pc # "attach"
  BY <1>1, <1>2 DEF MembersInv
<1>5. \A g \in Curators : curator'[g].pc # "attach"
  BY <1>4, CuratorShape DEF LinkingElsewhere
<1>6. NoneShared(member) /\ \A m \in Placed(member) : member[m] < c.place
  BY <1>1 DEF CollectionsInv, MembersInv
<1>7. ASSUME NEW t \in Placed(member'), NEW u \in Placed(member'), member'[t] = member'[u]
      PROVE  t = u
  <2>0. /\ t \in Members /\ u \in Members
        /\ member[t] = NoPlace \/ member[t] \in Nat
        /\ member[u] = NoPlace \/ member[u] \in Nat
    BY <1>2 DEF Placed, CollectionsInv, CollectionsTypeOK
  <2>1. CASE member'[t] = member[t] /\ member'[u] = member[u]
    <3>1. t \in Placed(member) /\ u \in Placed(member)
      BY <1>2, <2>0, <2>1 DEF Placed, CollectionsInv, CollectionsTypeOK
    <3> QED
      BY <1>6, <1>7, <2>1, <3>1 DEF NoneShared
  <2>2. ASSUME NEW a \in Members, a \in Placed(member'), member'[a] = member[a],
               NEW k \in 1..Len(c.list)
        PROVE  member'[a] # c.place + k - 1
    <3>1. a \in Placed(member)
      BY <1>2, <2>2 DEF Placed, CollectionsInv, CollectionsTypeOK
    <3>2. member[a] \in Nat /\ member[a] < c.place
      BY <1>6, <3>1 DEF Placed, CollectionsInv, CollectionsTypeOK
    <3> QED
      BY <1>1, <1>3, <2>2, <3>2
  <2>3. CASE (\E k \in 1..Len(c.list) : c.list[k] = t /\ member'[t] = c.place + k - 1)
             /\ (\E k \in 1..Len(c.list) : c.list[k] = u /\ member'[u] = c.place + k - 1)
    <3>1. PICK k \in 1..Len(c.list) : c.list[k] = t /\ member'[t] = c.place + k - 1
      BY <2>3
    <3>2. PICK l \in 1..Len(c.list) : c.list[l] = u /\ member'[u] = c.place + l - 1
      BY <2>3
    <3>3. k \in Int /\ l \in Int
      BY <1>3
    <3>4. c.place + k - 1 = c.place + l - 1
      BY <1>7, <3>1, <3>2, Zenon
    <3>5. k = l
      BY <1>1, <3>3, <3>4
    <3> QED
      BY <3>1, <3>2, <3>5
  <2> QED
    BY <1>2, <1>7, <2>0, <2>1, <2>2, <2>3
<1> QED
  BY <1>5, <1>7 DEF NoneShared

LEMMA ReorderProductsKeepsPlaces ==
    ASSUME CollectionsInv, NEW h \in Curators, ReorderProducts(h),
           ~ UNCHANGED <<member, membersMixed, collectionPageVars>>
    PROVE  /\ member' \in [Members -> {NoPlace} \cup Nat] /\ MembersInv'
<1> DEFINE c == curator[h]
<1>1. /\ c.list \in Lists(Members) /\ Curates(h, Idle) /\ member' = Reordered(member, c.list)
      /\ membersMixed' = (membersMixed \/ Mixes(member, c.list))
  BY CuratorShape DEF ReorderProducts, CollectionsInv, Sorts
<1>2. \A g \in Curators : curator'[g].pc = "attach" => curator'[g] = curator[g] /\ curator[g].place \in Nat
  BY <1>1, CuratorShape DEF CollectionsInv, Curates, Links
<1>3. member \in [Members -> {NoPlace} \cup Nat]
  BY DEF CollectionsInv, CollectionsTypeOK
<1>4. member' \in [Members -> {NoPlace} \cup Nat]
  BY <1>1, <1>3, ReorderedPlaces, CollectionsAssumption
<1> SUFFICES ASSUME ~membersMixed, ~Mixes(member, c.list)
             PROVE  /\ NoneShared(member')
                    /\ \A g \in Curators : curator'[g].pc = "attach" =>
                          \A m \in Placed(member') : member'[m] < curator'[g].place
  BY <1>1, <1>4 DEF MembersInv
<1>5. /\ NoneShared(member')
      /\ \A m \in Placed(member') : member'[m] < Cardinality(Placed(member))
  BY <1>1, <1>3, ReorderedDistinct, CollectionsAssumption
<1>6. /\ Cardinality(Placed(member)) \in Nat
      /\ \A m \in Placed(member') : member'[m] \in Nat
  <2>1. IsFiniteSet(Placed(member))
    BY <1>3, PlacesFinite, CollectionsAssumption
  <2>2. Cardinality(Placed(member)) \in Nat
    BY <2>1, FS_CardinalityType
  <2>3. \A m \in Placed(member') : member'[m] \in Nat
    BY <1>4 DEF Placed
  <2> QED
    BY <2>2, <2>3
<1>7. \A g \in Curators : curator[g].pc = "attach" /\ curator[g].place \in Nat =>
          Cardinality(Placed(member)) <= curator[g].place
  BY <1>3, DistinctFit, CollectionsAssumption DEF CollectionsInv, MembersInv
<1> QED
  BY <1>2, <1>5, <1>6, <1>7

\* The writes of a request in flight.
LEMMA WritesKeep ==
    ASSUME CollectionsInv, NEW h \in Curators,
           UpdateCollection(h) \/ RemoveCollection(h) \/ AttachProducts(h) \/ ReorderProducts(h)
           \/ DetachProduct(h)
    PROVE  CollectionsInv'
<1> DEFINE c == curator[h]
<1>1. c \in CuratorWork /\ c.had \in Handles /\ c.pc # "idle" /\ kind # "none" /\ handle \in Handles
  BY CuratorShape DEF UpdateCollection, RemoveCollection, AttachProducts, ReorderProducts,
                      DetachProduct, CollectionsInv, CollectionsTypeOK
<1>2. \A g \in Curators : Curates(h, Idle) => (curator'[g].pc # "idle" => curator'[g] = curator[g])
  BY CuratorShape DEF CollectionsInv, Curates
<1>3. /\ kind \in {"MANUAL", "AUTO"} /\ handle # NoPlace /\ membersMixed \in BOOLEAN
      /\ member \in [Members -> {NoPlace} \cup Nat]
  BY <1>1, CollectionsAssumption DEF CollectionsInv, CollectionsTypeOK
<1>4. CASE UpdateCollection(h)
  <2>1. c \in Updates
    BY <1>4, CuratorShape DEF UpdateCollection, CollectionsInv
  <2>2. /\ Curates(h, Idle) /\ UNCHANGED <<member, membersMixed, onSale>>
        /\ kind' = (IF c.type = "unsent" THEN kind ELSE c.type)
        /\ handle' = (IF c.slug = NoPlace THEN handle ELSE c.slug)
        /\ Revalidate(c.had, {c.had, handle'})
    BY <1>4 DEF UpdateCollection, UpdateTags
  <2>3. kind' \in {"MANUAL", "AUTO"} /\ handle' \in Handles
    BY <1>1, <1>3, <2>1, <2>2 DEF Updates
  <2>4. MembersInv'
    BY <1>2, <2>2, CuratorShape DEF CollectionsInv, MembersInv, NoneShared
  <2>5. {c.had, handle'} \in SUBSET Handles /\ c.had \in {c.had, handle'} /\ handle' # NoPlace
    BY <1>1, <2>3, CollectionsAssumption
  <2> HIDE DEF c
  <2>6. curator[h].had \in {c.had, handle'} /\ Revalidate(curator[h].had, {c.had, handle'})
        /\ curator[h].pc # "idle"
    BY <1>1, <2>2 DEF c
  <2> QED
    BY <1>3, <2>2, <2>3, <2>4, <2>5, <2>6, CuratorWritesKeep
<1>5. CASE RemoveCollection(h)
  <2>1. /\ kind' = "none" /\ handle' = NoPlace /\ member' = [m \in Members |-> NoPlace]
        /\ Revalidate(c.had, {c.had}) /\ curator' = [g \in Curators |-> Idle]
        /\ UNCHANGED <<membersMixed, onSale>>
    BY <1>5 DEF RemoveCollection
  <2>2. Placed(member') = {} /\ member' \in [Members -> {NoPlace} \cup Nat]
    BY <2>1 DEF Placed
  <2>3. MembersInv'
    BY <2>1, <2>2, CuratorShape DEF MembersInv, NoneShared
  <2> QED
    BY <1>1, <1>3, <2>1, <2>2, <2>3, CuratorWritesKeep
<1>6. CASE AttachProducts(h)
  <2>1. /\ Curates(h, Idle) /\ Revalidate(c.had, {c.had}) /\ UNCHANGED <<kind, handle, onSale>>
        /\ membersMixed' \in BOOLEAN
    BY <1>3, <1>6 DEF AttachProducts, LinkingElsewhere
  <2>2. member' \in [Members -> {NoPlace} \cup Nat] /\ MembersInv'
    BY <1>6, AttachKeepsPlaces
  <2> QED
    BY <1>1, <1>3, <2>1, <2>2, CuratorWritesKeep
<1>7. ASSUME UNCHANGED <<kind, handle, member, onSale, membersMixed, collectionPageVars>>, Curates(h, Idle)
      PROVE  CollectionsInv'
  <2>1. curator' \in [Curators -> {Idle} \cup CuratorWork]
    BY <1>7, CuratorShape DEF CollectionsInv, Curates
  <2>2. CollectionsTypeOK'
    BY <1>7, <2>1 DEF CollectionsInv, CollectionsTypeOK, collectionPageVars,
                      CuratorWork, Updates, Removes, Links, Sorts, Detaches
  <2>3. StandTrue' /\ BehindIsTold'
    BY <1>7, StillStands DEF CollectionsInv, Stands, BehindIsTold, collectionPageVars
  <2>4. MembersInv'
    BY <1>2, <1>7, CuratorShape DEF CollectionsInv, MembersInv, NoneShared
  <2> QED
    BY <1>2, <1>7, <2>2, <2>3, <2>4 DEF CollectionsInv
<1>8. CASE ReorderProducts(h)
  <2>1. Curates(h, Idle) /\ UNCHANGED <<kind, handle, onSale>>
    BY <1>8 DEF ReorderProducts
  <2>2. CASE UNCHANGED <<member, membersMixed, collectionPageVars>>
    BY <1>7, <2>1, <2>2
  <2>3. CASE ~ UNCHANGED <<member, membersMixed, collectionPageVars>>
    <3>1. Revalidate(c.had, {c.had}) /\ membersMixed' \in BOOLEAN
      BY <1>3, <1>8, <2>3 DEF ReorderProducts, Mixes
    <3>2. member' \in [Members -> {NoPlace} \cup Nat] /\ MembersInv'
      BY <1>8, <2>3, ReorderProductsKeepsPlaces
    <3> QED
      BY <1>1, <1>3, <2>1, <3>1, <3>2, CuratorWritesKeep
  <2> QED
    BY <2>2, <2>3
<1>9. CASE DetachProduct(h)
  <2>1. Curates(h, Idle) /\ UNCHANGED <<kind, handle, onSale, membersMixed>>
    BY <1>9 DEF DetachProduct
  <2>2. CASE member[c.product] = NoPlace
    BY <1>7, <1>9, <2>1, <2>2 DEF DetachProduct
  <2>3. CASE member[c.product] # NoPlace
    <3>1. member' = [member EXCEPT ![c.product] = NoPlace] /\ Revalidate(c.had, {c.had})
      BY <1>9, <2>3 DEF DetachProduct
    <3>2. /\ member' \in [Members -> {NoPlace} \cup Nat]
          /\ \A m \in Placed(member') : m \in Placed(member) /\ member'[m] = member[m]
      BY <1>3, <3>1 DEF Placed
    <3>3. MembersInv'
      BY <1>2, <2>1, <3>2, CuratorShape DEF CollectionsInv, MembersInv, NoneShared
    <3> QED
      BY <1>1, <1>3, <2>1, <3>1, <3>2, <3>3, CuratorWritesKeep
  <2> QED
    BY <2>2, <2>3
<1> QED
  BY <1>4, <1>5, <1>6, <1>8, <1>9

LEMMA CollectionsInitInv ==
    ASSUME CollectionsInit
    PROVE  CollectionsInv
<1>1. \A m \in Members : member[m] \in {NoPlace} \cup Nat
  <2>1. 0..(Cardinality(Members) - 1) \subseteq Nat
    OBVIOUS
  <2> QED
    BY <2>1 DEF CollectionsInit
<1>2. CollectionsTypeOK
  BY <1>1, CollectionsAssumption DEF CollectionsInit, CollectionsTypeOK
<1>3. \A x \in Handles : Stands(x) = {}
  BY DEF CollectionsInit, Stands
<1> QED
  BY <1>2, <1>3, CuratorShape DEF CollectionsInit, CollectionsInv, StandTrue, BehindIsTold, MembersInv

\* What is answered of a collection that is read, then listed, then kept.
LEMMA AnswersKeep ==
    ASSUME CollectionsInv,
           \/ FindCollectionBySlug
           \/ \E x \in Handles : ResolveProducts(x) \/ AnswerCollection(x)
    PROVE  KeptPages' /\ BehindIsTold' /\ StandTrue'
<1>1. KeptPages /\ (handle # NoPlace => handle \in Handles) /\ member \in [Members -> {NoPlace} \cup Nat]
  BY DEF CollectionsInv, CollectionsTypeOK, KeptPages
<1>2. CASE FindCollectionBySlug
  <2> DEFINE a == [type |-> kind, listed |-> FALSE, places |-> [m \in Members |-> NoPlace], off |-> {}]
  <2>1. /\ collectionAsked' = [collectionAsked EXCEPT ![handle] = a]
        /\ UNCHANGED <<collectionPage, collectionBehind, collectionSent, collectionMissed>>
        /\ UNCHANGED <<kind, member, handle>> /\ kind # "none"
    BY <1>2 DEF FindCollectionBySlug, Kept!Asks
  <2>2. a \in Answer /\ SaysNow(handle, a) /\ handle \in Handles
    BY <2>1 DEF Answer, SaysNow, CollectionsInv, CollectionsTypeOK
  <2> HIDE DEF a
  <2>3. \A x \in Handles : Stands(x)' \subseteq Stands(x) \cup (IF x = handle THEN {a} ELSE {})
    BY <1>1, <2>1 DEF Stands, KeptPages
  <2>4. StandTrue'
    BY <2>1, <2>2, <2>3 DEF CollectionsInv, StandTrue, SaysNow, PlacesBut
  <2> QED
    BY <1>1, <2>1, <2>2, <2>4 DEF CollectionsInv, KeptPages, BehindIsTold
<1>3. ASSUME NEW x \in Handles, ResolveProducts(x) PROVE KeptPages' /\ BehindIsTold' /\ StandTrue'
  <2> DEFINE off == Placed(member) \ onSale
             was == collectionAsked[x]
             a == collectionAsked'[x]
  <2>1. /\ was \in Answer /\ ~was.listed
        /\ UNCHANGED <<kind, member, handle, collectionPage, collectionBehind, collectionSent, collectionMissed>>
        /\ \A y \in Handles \ {x} : collectionAsked'[y] = collectionAsked[y]
    BY <1>1, <1>3 DEF ResolveProducts, KeptPages
  <2>2. /\ collectionAsked' = [collectionAsked EXCEPT ![x] = a]
        /\ \/ was.type = "MANUAL"
              /\ a = [was EXCEPT !.listed = TRUE, !.places = PlacesBut(off), !.off = off]
           \/ /\ was.type = "AUTO" \/ x \in collectionBehind
              /\ a = [was EXCEPT !.listed = TRUE]
    BY <1>1, <1>3 DEF ResolveProducts, KeptPages
  <2>3. off \in SUBSET Members /\ PlacesBut(off) \in [Members -> {NoPlace} \cup Nat]
    BY <1>1 DEF Placed, PlacesBut
  <2> HIDE DEF off
  <2>4. a \in Answer
    BY <2>1, <2>2, <2>3 DEF Answer
  <2>5. a.type = was.type /\ (x \notin collectionBehind /\ a.type = "MANUAL" => a.places = PlacesBut(a.off))
    BY <2>1, <2>2 DEF Answer
  <2>6. ASSUME NEW y \in Handles, NEW b \in Stands(y)' PROVE SaysNow(y, b)'
    <3>1. CASE b \in Stands(y)
      BY <2>1, <3>1 DEF CollectionsInv, StandTrue, SaysNow, PlacesBut
    <3>2. CASE b \notin Stands(y)
      <4>1. y = x /\ b = a /\ x \notin collectionBehind
        BY <2>1, <2>6, <3>2 DEF Stands
      <4>2. was \in Stands(x)
        BY <1>3, <4>1 DEF Stands, ResolveProducts
      <4>3. SaysNow(x, was)
        BY <4>2 DEF CollectionsInv, StandTrue
      <4> QED
        BY <2>1, <2>5, <4>1, <4>3 DEF SaysNow, PlacesBut
    <3> QED
      BY <3>1, <3>2
  <2> QED
    BY <1>1, <2>1, <2>2, <2>4, <2>6 DEF CollectionsInv, KeptPages, BehindIsTold, StandTrue
<1>4. ASSUME NEW x \in Handles, AnswerCollection(x) PROVE KeptPages' /\ BehindIsTold' /\ StandTrue'
  <2>1. /\ collectionPage' = [collectionPage EXCEPT ![x] = collectionAsked[x]]
        /\ collectionAsked' = [collectionAsked EXCEPT ![x] = NoPlace]
        /\ collectionBehind' = collectionBehind \ {x}
        /\ UNCHANGED <<kind, member, handle, collectionSent, collectionMissed>>
        /\ collectionAsked[x] # NoPlace /\ collectionAsked[x].listed
    BY <1>4 DEF AnswerCollection, Kept!Keeps
  <2>2. \A y \in Handles : Stands(y)' \subseteq Stands(y)
    BY <1>1, <2>1 DEF CollectionsInv, Stands, BehindIsTold, KeptPages
  <2> QED
    BY <1>1, <2>1, <2>2, StillStands DEF CollectionsInv, KeptPages, BehindIsTold
<1> QED
  BY <1>2, <1>3, <1>4

LEMMA CollectionsKept ==
    ASSUME CollectionsInv, CollectionsStep \/ CuratorsStop \/ UNCHANGED collectionVars
    PROVE  CollectionsInv'
<1>1. ASSUME NEW type \in {"MANUAL", "AUTO"}, NEW x \in Handles, CreateCollection(type, x)
      PROVE  CollectionsInv'
  <2>1. /\ kind = "none" /\ kind' = type /\ handle' = x
        /\ UNCHANGED <<member, onSale, collectionPageVars, curator, membersMixed>>
    BY <1>1 DEF CreateCollection
  <2>2. CollectionsTypeOK'
    BY <2>1, CollectionsAssumption DEF CollectionsInv, CollectionsTypeOK, collectionPageVars
  <2>3. \A y \in Handles : Stands(y) = {}
    BY <2>1, CollectionsAssumption DEF CollectionsInv, StandTrue, SaysNow, CollectionsTypeOK
  <2>4. StandTrue' /\ BehindIsTold' /\ MembersInv'
    BY <2>1, <2>3 DEF StandTrue, Stands, BehindIsTold, CollectionsInv, MembersInv, NoneShared,
                      collectionPageVars
  <2> QED
    BY <2>1, <2>2, <2>4 DEF CollectionsInv
<1>2. ASSUME UNCHANGED <<kind, member, handle, curator, membersMixed>>, onSale' \in SUBSET Members,
             KeptPages', StandTrue', BehindIsTold'
      PROVE  CollectionsInv'
  BY <1>2 DEF CollectionsInv, CollectionsTypeOK, KeptPages, MembersInv, NoneShared
<1>3. CASE FindCollectionBySlug \/ \E x \in Handles : ResolveProducts(x) \/ AnswerCollection(x)
  <2>1. UNCHANGED <<kind, member, handle, onSale, curator, membersMixed>>
    BY <1>3 DEF FindCollectionBySlug, ResolveProducts, AnswerCollection
  <2> QED
    BY <1>2, <1>3, <2>1, AnswersKeep DEF CollectionsInv, CollectionsTypeOK
<1>4. CASE CollectionRevalidates
  <2>1. PICK x \in Handles : Kept!Revalidates(x) \/ Kept!RevalidationFails(x)
    BY <1>4 DEF CollectionRevalidates
  <2>2. UNCHANGED <<kind, member, handle, onSale, curator, membersMixed>>
    BY <1>4 DEF CollectionRevalidates
  <2>3. KeptPages' /\ BehindIsTold'
    BY <2>1 DEF CollectionsInv, CollectionsTypeOK, KeptPages, BehindIsTold, Kept!Revalidates,
                Kept!RevalidationFails
  <2>4. \A y \in Handles : Stands(y)' \subseteq Stands(y)
    BY <2>1 DEF CollectionsInv, CollectionsTypeOK, Stands, BehindIsTold, Kept!Revalidates,
                Kept!RevalidationFails
  <2> QED
    BY <1>2, <2>2, <2>3, <2>4, StillStands DEF CollectionsInv, CollectionsTypeOK
<1>5. CASE CuratorsStop
  <2>1. /\ curator' = [h \in Curators |-> Idle]
        /\ UNCHANGED <<kind, member, handle, onSale, collectionPage, collectionSent, collectionMissed,
                      membersMixed>>
        /\ collectionAsked' = [x \in Handles |-> NoPlace] /\ collectionBehind' = {}
    BY <1>5 DEF CuratorsStop, Kept!AnswersLost
  <2>2. CollectionsTypeOK'
    BY <2>1 DEF CollectionsInv, CollectionsTypeOK
  <2>3. StandTrue' /\ BehindIsTold'
    BY <2>1, StillStands DEF CollectionsInv, Stands, BehindIsTold
  <2>4. MembersInv'
    BY <2>1, CuratorShape DEF CollectionsInv, MembersInv, NoneShared
  <2> QED
    BY <2>1, <2>2, <2>3, <2>4, CuratorShape DEF CollectionsInv
<1>6. ASSUME UNCHANGED <<kind, member, handle, collectionPageVars, curator, membersMixed>>,
             onSale' \in SUBSET Members
      PROVE  CollectionsInv'
  <2>1. KeptPages' /\ StandTrue' /\ BehindIsTold'
    BY <1>6, StillStands DEF CollectionsInv, CollectionsTypeOK, KeptPages, Stands, BehindIsTold,
                             collectionPageVars
  <2> QED
    BY <1>2, <1>6, <2>1
<1>7. CASE (\E m \in Members : SaleChanges(m)) \/ UNCHANGED collectionVars
  BY <1>6, <1>7 DEF SaleChanges, collectionVars, CollectionsInv, CollectionsTypeOK
<1> QED
  BY <1>1, <1>3, <1>4, <1>5, <1>7, BeginningsKeep, WritesKeep DEF CollectionsStep
-----------------------------------------------------------------------------
(***************************************************************************)
(* Lists.  As long as the cursor stays where it was read, the rows that did *)
(* not move have been seen exactly up to it.                               *)
(***************************************************************************)
ListingsInv ==
    /\ ListingsTypeOK
    /\ walk.pc = "none" => seen = {} /\ repeated = {}
    /\ stayed \subseteq Listed
    /\ ~cursorMoved =>
          /\ stayed \cap repeated = {}
          /\ Walking => /\ walk.cursor \in Listed
                        /\ \A r \in stayed : r \in seen <=> rank[r] <= rank[walk.cursor]
          /\ walk.pc = "done" => stayed \subseteq seen

\* A set of rows has a first row and a last one.
LEMMA HasFirst ==
    ASSUME rank \in [Rows -> Nat], NEW S \in SUBSET Rows, S # {}
    PROVE  \E r \in S : \A q \in S : rank[r] <= rank[q]
<1> DEFINE At == {rank[r] : r \in S}
           R == OpToRel(<, Nat)
<1>1. At \subseteq Nat /\ At # {}
  OBVIOUS
<1>2. PICK k \in At : \A j \in At : ~ (<<j, k>> \in R)
  <2>1. IsWellFoundedOn(R, Nat)
    BY NatLessThanWellFounded
  <2> HIDE DEF At, R
  <2> QED
    BY <1>1, <2>1, WFMin
<1>3. \A j \in At : ~ (j < k)
  BY <1>1, <1>2 DEF OpToRel
<1>4. \A q \in S : rank[q] \in At /\ rank[q] \in Nat
  OBVIOUS
<1>5. PICK r \in S : rank[r] = k
  BY <1>2
<1> HIDE DEF At
<1>6. \A q \in S : rank[r] <= rank[q]
  BY <1>1, <1>3, <1>4, <1>5
<1> QED
  BY <1>6

LEMMA HasLast ==
    ASSUME rank \in [Rows -> Nat], NEW S \in SUBSET Rows, S # {}
    PROVE  LastOf(S) \in S /\ \A q \in S : rank[q] <= rank[LastOf(S)]
<1> DEFINE At == {rank[r] : r \in S}
           f == [r \in S |-> rank[r]]
<1>1. At \subseteq Int /\ At # {}
  OBVIOUS
<1>2. IsFiniteSet(At)
  <2>1. f \in Surjection(S, At)
    BY DEF Surjection
  <2>2. IsFiniteSet(S)
    BY ListingsAssumption, FS_Subset
  <2> HIDE DEF At, f
  <2> QED
    BY <2>1, <2>2, FS_Surjection
<1>3. \A q \in S : rank[q] \in At
  OBVIOUS
<1>4. Max(At) \in At /\ \A n \in At : n <= Max(At)
  <2> HIDE DEF At
  <2> QED
    BY <1>1, <1>2, MaxIsGreatest
<1>5. PICK r \in S : rank[r] = Max(At)
  BY <1>4
<1> HIDE DEF At
<1>6. \A q \in S : rank[q] <= rank[r]
  BY <1>3, <1>4, <1>5
<1> QED
  BY <1>6 DEF LastOf

\* The first rows of S are before all others.
LEMMA FirstComeFirst ==
    ASSUME rank \in [Rows -> Nat], NEW S \in SUBSET Rows, NEW n \in Nat
    PROVE  /\ First(n, S) \subseteq S
           /\ \A r \in First(n, S), q \in S : rank[q] <= rank[r] => q \in First(n, S)
<1> SUFFICES ASSUME NEW r \in First(n, S), NEW q \in S, rank[q] <= rank[r]
             PROVE  q \in First(n, S)
  BY DEF First
<1>1. r \in S /\ Cardinality(Before(r, S)) < n
  BY DEF First
<1>2. Before(q, S) \subseteq Before(r, S)
  BY <1>1 DEF Before
<1>3. IsFiniteSet(Before(r, S))
  BY ListingsAssumption, FS_Subset DEF Before
<1>4. Cardinality(Before(q, S)) <= Cardinality(Before(r, S))
  BY <1>2, <1>3, FS_Subset
<1>5. Cardinality(Before(q, S)) \in Nat /\ Cardinality(Before(r, S)) \in Nat
  BY <1>2, <1>3, FS_Subset, FS_CardinalityType
<1> QED
  BY <1>1, <1>4, <1>5 DEF First

\* A page is all of S, or what is not after the cursor it ends with.
LEMMA PageOf ==
    ASSUME rank \in [Rows -> Nat], NEW S \in SUBSET Rows, NEW size \in Nat \ {0}
    PROVE  LET taken == First(size + 1, S)
               served  == First(size, taken)
               next  == NextCursor(taken, size) IN
           /\ served \subseteq S
           /\ next = NoRow => served = S
           /\ next # NoRow => next \in served /\ \A r \in S : r \in served <=> rank[r] <= rank[next]
<1> DEFINE taken == First(size + 1, S)
           served == First(size, taken)
           next == NextCursor(taken, size)
<1>1. /\ taken \subseteq S
      /\ \A r \in taken, q \in S : rank[q] <= rank[r] => q \in taken
  <2>1. size + 1 \in Nat
    OBVIOUS
  <2> QED
    BY <2>1, FirstComeFirst
<1> HIDE DEF taken
<1>2. /\ served \subseteq taken
      /\ \A r \in served, q \in taken : rank[q] <= rank[r] => q \in served
  BY <1>1, FirstComeFirst
<1> HIDE DEF served
<1>3. IsFiniteSet(taken) /\ Cardinality(taken) \in Nat
  BY <1>1, ListingsAssumption, FS_Subset, FS_CardinalityType
<1>4. CASE Cardinality(taken) <= size
  <2>1. next = NoRow
    BY <1>3, <1>4 DEF NextCursor
  <2>2. served = taken
    <3> SUFFICES ASSUME NEW r \in taken PROVE r \in served
      BY <1>2
    <3>1. Before(r, taken) \subseteq taken /\ Before(r, taken) # taken
      BY <1>1 DEF Before
    <3>2. Cardinality(Before(r, taken)) < Cardinality(taken)
          /\ Cardinality(Before(r, taken)) \in Nat
      BY <1>3, <3>1, FS_Subset, FS_CardinalityType
    <3> QED
      BY <1>3, <1>4, <3>2 DEF served, First
  <2>3. taken = S
    <3> SUFFICES ASSUME S \ taken # {} PROVE FALSE
      BY <1>1
    <3>1. PICK r \in S \ taken : \A q \in S \ taken : rank[r] <= rank[q]
      BY HasFirst
    <3>2. Before(r, S) \subseteq taken
      BY <3>1 DEF Before
    <3>3. Cardinality(Before(r, S)) <= Cardinality(taken) /\ Cardinality(Before(r, S)) \in Nat
      BY <1>3, <3>2, FS_Subset, FS_CardinalityType
    <3>4. Cardinality(Before(r, S)) < size + 1
      BY <1>3, <1>4, <3>3
    <3> QED
      BY <3>1, <3>4 DEF taken, First
  <2> QED
    BY <2>1, <2>2, <2>3 DEF served, taken
<1>5. CASE Cardinality(taken) > size
  <2>1. next = LastOf(served)
    BY <1>5 DEF NextCursor, served
  <2>2. taken # {}
    BY <1>3, <1>5, FS_EmptySet
  <2>3. PICK r \in taken : \A q \in taken : rank[r] <= rank[q]
    BY <1>1, <2>2, HasFirst
  <2>4. Before(r, taken) = {}
    BY <1>1, <2>3 DEF Before
  <2>5. r \in served
    BY <2>4, FS_EmptySet DEF served, First
  <2>6. next \in served /\ \A q \in served : rank[q] <= rank[next]
    BY <1>1, <1>2, <2>1, <2>5, HasLast
  <2>7. \A q \in S : q \in served <=> rank[q] <= rank[next]
    BY <1>1, <1>2, <2>6
  <2>8. next # NoRow
    BY <1>1, <1>2, <2>6, ListingsAssumption
  <2> QED
    BY <1>1, <1>2, <2>6, <2>7, <2>8 DEF served, taken
<1> QED
  BY <1>3, <1>4, <1>5

LEMMA ReadsPage ==
    ASSUME ListingsTypeOK, NEW size \in PageSizes, NEW cursor \in Present \cup {NoRow},
           Answers(size, cursor), UNCHANGED <<list, rank, filtered, cursorMoved>>,
           stayed' \in SUBSET Present
    PROVE  /\ ListingsTypeOK'
           /\ RowsFrom(cursor) \subseteq Listed
           /\ walk'.pc \in {"walking", "done"}
           /\ \E served \in SUBSET RowsFrom(cursor) :
                 /\ seen' = seen \cup served /\ repeated' = repeated \cup (seen \cap served)
                 /\ walk'.pc = "done" => served = RowsFrom(cursor)
                 /\ walk'.pc = "walking" =>
                       /\ walk'.cursor \in served
                       /\ \A r \in RowsFrom(cursor) : r \in served <=> rank[r] <= rank[walk'.cursor]
<1> DEFINE S == RowsFrom(cursor)
           taken == First(size + 1, S)
           served == First(size, taken)
           next == NextCursor(taken, size)
<1>1. S \subseteq Listed /\ Listed \subseteq Present /\ Present \subseteq Rows
  BY DEF RowsFrom, FromCursor, Listed, Present
<1>2. rank \in [Rows -> Nat] /\ size \in Nat \ {0}
  BY ListingsAssumption DEF ListingsTypeOK
<1>3. /\ seen' = seen \cup served /\ repeated' = repeated \cup (seen \cap served)
      /\ walk' = [pc |-> IF next = NoRow THEN "done" ELSE "walking", size |-> size, cursor |-> next]
  BY DEF Answers
<1>4. /\ served \subseteq S
      /\ next = NoRow => served = S
      /\ next # NoRow => next \in served /\ \A r \in S : r \in served <=> rank[r] <= rank[next]
  <2>1. S \in SUBSET Rows
    BY <1>1
  <2> HIDE DEF S
  <2> QED
    BY <1>2, <2>1, PageOf
<1> HIDE DEF S, taken, served, next
<1>5. /\ walk'.pc = IF next = NoRow THEN "done" ELSE "walking"
      /\ walk'.cursor = next /\ walk'.size = size
  BY <1>3
<1>6. ListingsTypeOK'
  <2>1. next \in Rows \cup {NoRow} /\ (next # NoRow => next \in Present)
    BY <1>1, <1>4
  <2>2. walk' \in [pc : {"none", "walking", "done"}, size : PageSizes \cup {0}, cursor : Rows \cup {NoRow}]
    BY <1>3, <2>1
  <2>3. Present' = Present
    BY DEF Present
  <2>4. seen' \in SUBSET Present' /\ repeated' \in SUBSET seen'
    BY <1>1, <1>3, <1>4, <2>3 DEF ListingsTypeOK
  <2>5. Walking' => walk'.cursor \in Present' /\ walk'.size # 0
    BY <1>2, <1>5, <2>1, <2>3 DEF Walking
  <2> QED
    BY <2>2, <2>3, <2>4, <2>5 DEF ListingsTypeOK
<1>7. /\ walk'.pc = "done" => served = S
      /\ walk'.pc = "walking" => walk'.cursor \in served
                                 /\ \A r \in S : r \in served <=> rank[r] <= rank[walk'.cursor]
  BY <1>4, <1>5
<1> QED
  BY <1>1, <1>3, <1>4, <1>5, <1>6, <1>7 DEF S

LEMMA FirstPageKeeps ==
    ASSUME ListingsInv, NEW size \in PageSizes, FirstPage(size)
    PROVE  ListingsInv'
<1>1. /\ walk.pc = "none" /\ Answers(size, NoRow) /\ stayed' = Listed
      /\ UNCHANGED <<list, rank, filtered, cursorMoved>>
  BY DEF FirstPage
<1>2. Listed' = Listed /\ Listed \subseteq Present /\ RowsFrom(NoRow) = Listed
  BY <1>1 DEF Listed, Present, RowsFrom
<1>3. seen = {} /\ repeated = {}
  BY <1>1 DEF ListingsInv
<1>4. /\ ListingsTypeOK' /\ walk'.pc \in {"walking", "done"}
      /\ \E served \in SUBSET Listed :
            /\ seen' = seen \cup served /\ repeated' = repeated \cup (seen \cap served)
            /\ walk'.pc = "done" => served = Listed
            /\ walk'.pc = "walking" =>
                  walk'.cursor \in served /\ \A r \in Listed : r \in served <=> rank[r] <= rank[walk'.cursor]
  BY <1>1, <1>2, ReadsPage DEF ListingsInv
<1> QED
  BY <1>1, <1>2, <1>3, <1>4 DEF ListingsInv, Walking

LEMMA NextPageKeeps ==
    ASSUME ListingsInv, NextPage
    PROVE  ListingsInv'
<1> DEFINE c == walk.cursor
           S == RowsFrom(c)
<1>1. /\ walk.pc = "walking" /\ Answers(walk.size, c)
      /\ UNCHANGED <<list, rank, filtered, stayed, cursorMoved>>
  BY DEF NextPage, Walking
<1>2. Listed' = Listed /\ Listed \subseteq Present /\ stayed \subseteq Listed
  BY <1>1 DEF Listed, Present, ListingsInv
<1>3. walk.size \in PageSizes /\ c \in Present
  BY <1>1 DEF ListingsInv, ListingsTypeOK, Walking
<1>4. /\ ListingsTypeOK' /\ S \subseteq Listed /\ walk'.pc \in {"walking", "done"}
      /\ \E served \in SUBSET S :
            /\ seen' = seen \cup served /\ repeated' = repeated \cup (seen \cap served)
            /\ walk'.pc = "done" => served = S
            /\ walk'.pc = "walking" =>
                  walk'.cursor \in served /\ \A r \in S : r \in served <=> rank[r] <= rank[walk'.cursor]
  <2>1. stayed' \in SUBSET Present
    BY <1>1, <1>2
  <2> QED
    BY <1>1, <1>3, <2>1, ReadsPage DEF ListingsInv
<1>5. PICK served \in SUBSET S :
            /\ seen' = seen \cup served /\ repeated' = repeated \cup (seen \cap served)
            /\ walk'.pc = "done" => served = S
            /\ walk'.pc = "walking" =>
                  walk'.cursor \in served /\ \A r \in S : r \in served <=> rank[r] <= rank[walk'.cursor]
  BY <1>4
<1>6. ASSUME ~ cursorMoved
      PROVE  /\ stayed \cap repeated' = {}
             /\ Walking' => walk'.cursor \in Listed
                            /\ \A r \in stayed : r \in seen' <=> rank[r] <= rank[walk'.cursor]
             /\ walk'.pc = "done" => stayed \subseteq seen'
  <2>1. /\ c \in Listed /\ \A r \in stayed : r \in seen <=> rank[r] <= rank[c]
        /\ stayed \cap repeated = {}
    BY <1>1, <1>6 DEF ListingsInv, Walking
  <2>2. \A r \in Listed : rank[r] \in Nat
    BY <1>2 DEF ListingsInv, ListingsTypeOK, Present
  <2>3. S = {r \in Listed : rank[r] > rank[c]}
    <3>1. c # NoRow
      BY <1>3, ListingsAssumption DEF Present
    <3>2. S = {r \in {q \in Listed : rank[q] >= rank[c]} :
                  Before(r, {q \in Listed : rank[q] >= rank[c]}) # {}}
      BY <3>1 DEF RowsFrom, FromCursor
    <3>3. ASSUME NEW r \in Listed, rank[r] >= rank[c]
          PROVE  Before(r, {q \in Listed : rank[q] >= rank[c]}) # {} <=> rank[r] > rank[c]
      BY <2>1, <2>2, <3>3 DEF Before
    <3> QED
      BY <2>1, <2>2, <3>2, <3>3
  <2>4. \A r \in stayed : r \in served => r \notin seen
    BY <1>2, <2>1, <2>2, <2>3
  <2>5. stayed \cap repeated' = {}
    BY <1>5, <2>1, <2>4
  <2>6. \A r \in stayed : r \in seen \/ r \in S
    BY <1>2, <2>1, <2>2, <2>3
  <2>7. walk'.pc = "done" => stayed \subseteq seen'
    BY <1>5, <2>6
  <2>8. ASSUME walk'.pc = "walking"
        PROVE  walk'.cursor \in Listed
               /\ \A r \in stayed : r \in seen' <=> rank[r] <= rank[walk'.cursor]
    <3>1. walk'.cursor \in served /\ walk'.cursor \in S
      BY <1>5, <2>8
    <3>2. rank[walk'.cursor] > rank[c] /\ walk'.cursor \in Listed
      BY <2>3, <3>1
    <3>3. \A r \in stayed : r \in seen => rank[r] <= rank[walk'.cursor]
      BY <1>2, <2>1, <2>2, <3>2
    <3> HIDE DEF S
    <3>4. \A r \in stayed : r \in served => rank[r] <= rank[walk'.cursor]
      BY <1>5, <2>8
    <3>5. \A r \in stayed : rank[r] <= rank[walk'.cursor] => r \in seen'
      BY <1>5, <2>6, <2>8
    <3> QED
      BY <1>5, <3>2, <3>3, <3>4, <3>5
  <2> QED
    BY <2>5, <2>7, <2>8 DEF Walking
<1>7. walk'.pc # "none"
  BY <1>4
<1> QED
  BY <1>1, <1>2, <1>4, <1>6, <1>7 DEF ListingsInv

\* The rows that are not moved keep their order.
KeepsOrder(r) ==
    /\ rank' \in [Rows -> Nat]
    /\ Present' = Present \cup {r}
    /\ \A p, q \in Present' : rank'[p] = rank'[q] => p = q
    /\ \A p, q \in Present \ {r} : rank'[p] <= rank'[q] <=> rank[p] <= rank[q]

LEMMA PutKeepsOrder ==
    ASSUME ListingsTypeOK, NEW r \in Rows, NEW place \in Nat \ {0},
           r \in Present => place <= rank[r], PutAt(r, place)
    PROVE  KeepsOrder(r)
<1>1. \A q \in Rows : rank'[q] =
        IF q = r THEN place
        ELSE IF rank[q] >= place /\ (r \in Present => rank[q] < rank[r]) THEN rank[q] + 1 ELSE rank[q]
  BY DEF PutAt
<1>2. \A q \in Rows : rank[q] \in Nat
  BY DEF ListingsTypeOK
<1>3. rank' \in [Rows -> Nat]
  BY <1>2 DEF PutAt
<1>4. \A q \in Rows : rank'[q] # 0 <=> rank[q] # 0 \/ q = r
  BY <1>1, <1>2
<1>5. Present' = Present \cup {r}
  BY <1>4 DEF Present
<1>6. \A p \in Present \ {r} : p \in Rows /\ (r \in Present => rank[p] # rank[r])
  BY DEF ListingsTypeOK, Present
<1>7. \A p, q \in Present \ {r} : rank'[p] <= rank'[q] <=> rank[p] <= rank[q]
  BY <1>1, <1>2, <1>6
<1>8. \A p \in Present \ {r} : rank'[p] # rank'[r]
  BY <1>1, <1>2, <1>6
<1>9. \A p, q \in Present \ {r} : rank'[p] = rank'[q] => p = q
  <2> SUFFICES ASSUME NEW p \in Present \ {r}, NEW q \in Present \ {r}, rank'[p] = rank'[q]
               PROVE  p = q
    OBVIOUS
  <2>1. rank'[p] \in Nat /\ rank[p] \in Nat /\ rank[q] \in Nat
    BY <1>2, <1>3, <1>6
  <2>2. rank[p] = rank[q]
    BY <1>7, <2>1
  <2> QED
    BY <2>2 DEF ListingsTypeOK
<1> QED
  BY <1>3, <1>5, <1>7, <1>8, <1>9 DEF KeepsOrder

LEMMA PutBackKeepsOrder ==
    ASSUME ListingsTypeOK, NEW r \in Present, NEW place \in Nat, rank[r] < place, PutBackAt(r, place)
    PROVE  KeepsOrder(r)
<1>1. \A q \in Rows : rank'[q] =
        IF q = r THEN place
        ELSE IF rank[r] < rank[q] /\ rank[q] <= place THEN rank[q] - 1 ELSE rank[q]
  BY DEF PutBackAt
<1>2. r \in Rows /\ \A q \in Rows : rank[q] \in Nat
  BY DEF ListingsTypeOK, Present
<1>3. rank' \in [Rows -> Nat]
  <2>1. \A q \in Rows : rank'[q] \in Nat
    BY <1>1, <1>2
  <2> QED
    BY <2>1 DEF PutBackAt
<1>4. \A q \in Rows : rank'[q] # 0 <=> rank[q] # 0
  BY <1>1, <1>2 DEF Present
<1>5. Present' = Present \cup {r}
  BY <1>4 DEF Present
<1>6. \A p \in Present \ {r} : p \in Rows /\ rank[p] # rank[r]
  BY DEF ListingsTypeOK, Present
<1>7. \A p, q \in Present \ {r} : rank'[p] <= rank'[q] <=> rank[p] <= rank[q]
  <2> SUFFICES ASSUME NEW p \in Present \ {r}, NEW q \in Present \ {r}
               PROVE  rank'[p] <= rank'[q] <=> rank[p] <= rank[q]
    OBVIOUS
  <2>1. rank[p] = rank[q] => p = q
    BY DEF ListingsTypeOK
  <2> QED
    BY <1>1, <1>2, <1>6, <2>1
<1>8. \A p \in Present \ {r} : rank'[p] # rank'[r]
  BY <1>1, <1>2, <1>6
<1>9. \A p, q \in Present \ {r} : rank'[p] = rank'[q] => p = q
  <2> SUFFICES ASSUME NEW p \in Present \ {r}, NEW q \in Present \ {r}, rank'[p] = rank'[q]
               PROVE  p = q
    OBVIOUS
  <2>1. rank'[p] \in Nat /\ rank[p] \in Nat /\ rank[q] \in Nat
    BY <1>2, <1>3, <1>6
  <2>2. rank[p] = rank[q]
    BY <1>7, <2>1
  <2> QED
    BY <2>2 DEF ListingsTypeOK
<1> QED
  BY <1>3, <1>5, <1>7, <1>8, <1>9 DEF KeepsOrder

LEMMA OrderMovesType ==
    ASSUME ListingsTypeOK, NEW r \in Rows, KeepsOrder(r), filtered' \in SUBSET Present',
           UNCHANGED <<list, walk, seen, repeated>>, stayed' \subseteq stayed, cursorMoved' \in BOOLEAN
    PROVE  ListingsTypeOK'
BY DEF ListingsTypeOK, KeepsOrder, Walking

\* A row that others touch no longer stays; if it is the cursor, that was moved.
LEMMA TouchedKeeps ==
    ASSUME ListingsInv, NEW r \in Present, KeepsOrder(r), Refiltered(r), Touched(r)
    PROVE  ListingsInv'
<1>1. /\ Present' = Present /\ Present \subseteq Rows
      /\ \A p, q \in Present \ {r} : rank'[p] <= rank'[q] <=> rank[p] <= rank[q]
  BY DEF KeepsOrder, Present
<1>2. /\ stayed' = stayed \ {r} /\ UNCHANGED <<list, walk, seen, repeated>>
      /\ cursorMoved' = (cursorMoved \/ (Walking /\ r = walk.cursor))
      /\ filtered' \in {filtered, filtered \cup {r}, filtered \ {r}}
  BY DEF Touched, Refiltered
<1>3. ListingsTypeOK'
  <2>1. filtered' \in SUBSET Present'
    BY <1>1, <1>2 DEF ListingsInv, ListingsTypeOK
  <2>2. cursorMoved' \in BOOLEAN
    BY <1>2 DEF ListingsInv, ListingsTypeOK, Walking
  <2> QED
    BY <1>1, <1>2, <2>1, <2>2, OrderMovesType DEF ListingsInv
<1>4. \A q \in Present \ {r} : q \in Listed' <=> q \in Listed
  BY <1>1, <1>2 DEF Listed
<1>5. stayed' \subseteq Listed' /\ stayed \subseteq Present /\ stayed \subseteq Listed
  BY <1>2, <1>4 DEF ListingsInv, Listed
<1>6. ASSUME ~ cursorMoved', walk.pc = "walking"
      PROVE  walk.cursor \in Listed' /\ \A q \in stayed' : q \in seen <=> rank'[q] <= rank'[walk.cursor]
  <2>1. ~ cursorMoved /\ r # walk.cursor
    BY <1>2, <1>6 DEF Walking
  <2>2. /\ walk.cursor \in Listed
        /\ \A q \in stayed : q \in seen <=> rank[q] <= rank[walk.cursor]
    BY <1>6, <2>1 DEF ListingsInv, Walking
  <2>3. walk.cursor \in Present \ {r}
    BY <2>1, <2>2 DEF Listed
  <2>4. \A q \in stayed' : q \in Present \ {r} /\ q \in stayed
    BY <1>2, <1>5
  <2> QED
    BY <1>1, <1>4, <2>2, <2>3, <2>4
<1>7. ~ cursorMoved' => ~ cursorMoved
  BY <1>2
<1> QED
  BY <1>2, <1>3, <1>5, <1>6, <1>7 DEF ListingsInv, Walking

LEMMA RowAppearsKeeps ==
    ASSUME ListingsInv, NEW r \in Rows, NEW place \in Nat \ {0}, RowAppears(r, place)
    PROVE  ListingsInv'
<1>1. /\ r \notin Present /\ PutAt(r, place)
      /\ UNCHANGED <<list, filtered, walk, seen, stayed, repeated, cursorMoved>>
  BY DEF RowAppears
<1>2. KeepsOrder(r)
  BY <1>1, PutKeepsOrder DEF ListingsInv
<1>3. /\ Present' = Present \cup {r}
      /\ \A p, q \in Present : rank'[p] <= rank'[q] <=> rank[p] <= rank[q]
  BY <1>1, <1>2 DEF KeepsOrder
<1>4. ListingsTypeOK'
  <2>1. filtered' \in SUBSET Present'
    BY <1>1, <1>3 DEF ListingsInv, ListingsTypeOK
  <2> QED
    BY <1>1, <1>2, <2>1, OrderMovesType DEF ListingsInv, ListingsTypeOK
<1>5. Listed \subseteq Listed' /\ Listed \subseteq Present
  BY <1>1, <1>3 DEF Listed
<1>6. ASSUME ~ cursorMoved, walk.pc = "walking"
      PROVE  walk.cursor \in Listed' /\ \A q \in stayed : q \in seen <=> rank'[q] <= rank'[walk.cursor]
  <2>1. /\ walk.cursor \in Listed /\ stayed \subseteq Listed
        /\ \A q \in stayed : q \in seen <=> rank[q] <= rank[walk.cursor]
    BY <1>6 DEF ListingsInv, Walking
  <2> QED
    BY <1>3, <1>5, <2>1
<1> QED
  BY <1>1, <1>4, <1>5, <1>6 DEF ListingsInv, Walking

LEMMA ListingsInitInv ==
    ASSUME ListingsInit
    PROVE  ListingsInv
<1>1. rank \in [Rows -> Nat]
  <2>1. Cardinality(Rows) \in Nat
    BY ListingsAssumption, FS_CardinalityType
  <2>2. 0..Cardinality(Rows) \subseteq Nat
    BY <2>1
  <2> QED
    BY <2>2 DEF ListingsInit
<1>2. IsFiniteSet(Present) /\ Cardinality(Present) \in Nat
  BY ListingsAssumption, FS_Subset, FS_CardinalityType DEF Present
<1>3. \A p, q \in Present : rank[p] = rank[q] => p = q
  <2> DEFINE f == [r \in Present |-> rank[r]]
             Places == {rank[r] : r \in Present}
  <2>1. Places = 1..Cardinality(Present)
    BY DEF ListingsInit
  <2>2. f \in Surjection(Present, Places)
    BY DEF Surjection
  <2>3. Cardinality(Places) = Cardinality(Present)
    <3>1. Cardinality(1..Cardinality(Present)) = Cardinality(Present)
      <4>1. 1 \in Int /\ Cardinality(Present) \in Int
        BY <1>2
      <4> QED
        BY <1>2, <4>1, FS_Interval
    <3> QED
      BY <2>1, <3>1
  <2>4. f \in Injection(Present, Places)
    <3> HIDE DEF f, Places
    <3> QED
      BY <1>2, <2>2, <2>3, FS_SurjSameCardinalityImpliesInj
  <2> QED
    BY <2>4 DEF Injection, IsInjective
<1> QED
  BY <1>1, <1>3, ListingsAssumption DEF ListingsInit, ListingsInv, ListingsTypeOK, Walking

LEMMA ListingsKept ==
    ASSUME ListingsInv, ListingsStep \/ UNCHANGED listingVars
    PROVE  ListingsInv'
<1>1. \A r \in Present : r \in Rows /\ rank[r] \in Nat /\ rank[r] # 0
  BY DEF ListingsInv, ListingsTypeOK, Present
<1>2. Cardinality(Present) \in Nat
  BY ListingsAssumption, FS_Subset, FS_CardinalityType DEF Present
<1>3. ASSUME NEW r \in Rows, NEW place \in 1..(Cardinality(Present) + 1), RowAppears(r, place)
      PROVE  ListingsInv'
  <2>1. place \in Nat \ {0}
    BY <1>2
  <2> QED
    BY <1>3, <2>1, RowAppearsKeeps
<1>4. ASSUME NEW r \in Rows, RowEdited(r) PROVE ListingsInv'
  <2>1. r \in Present /\ Refiltered(r) /\ Touched(r)
    BY <1>4 DEF RowEdited
  <2>2. KeepsOrder(r)
    <3>1. CASE UNCHANGED rank
      BY <2>1, <3>1 DEF KeepsOrder, Present, ListingsInv, ListingsTypeOK
    <3>2. CASE PutAt(r, 1)
      BY <1>1, <2>1, <3>2, PutKeepsOrder DEF ListingsInv
    <3> QED
      BY <1>4, <3>1, <3>2 DEF RowEdited
  <2> QED
    BY <2>1, <2>2, TouchedKeeps
<1>5. ASSUME NEW r \in Rows, NEW place \in 1..Cardinality(Present), RowShipsLater(r, place)
      PROVE  ListingsInv'
  <2>1. r \in Present /\ rank[r] < place /\ PutBackAt(r, place) /\ Refiltered(r) /\ Touched(r)
    BY <1>5 DEF RowShipsLater
  <2>2. KeepsOrder(r)
    BY <1>2, <2>1, PutBackKeepsOrder DEF ListingsInv
  <2> QED
    BY <2>1, <2>2, TouchedKeeps
<1>6. CASE UNCHANGED listingVars
  BY <1>6 DEF listingVars, ListingsInv, ListingsTypeOK, Listed, Present, Walking
<1> QED
  BY <1>3, <1>4, <1>5, <1>6, FirstPageKeeps, NextPageKeeps DEF ListingsStep

LEMMA ListingsSay == ListingsInv => WalkIsExact
BY DEF ListingsInv, WalkIsExact, ListingsTypeOK, Walking
-----------------------------------------------------------------------------
(***************************************************************************)
(* All of them.                                                            *)
(***************************************************************************)

StorefrontInv ==
    /\ ShopInv /\ PagesInv /\ QuotaInv /\ ImagesInv
    /\ CollectionsInv /\ PromotionsInv /\ ContentInv /\ ListingsInv /\ SellersInv
    /\ busy \in Parts

LEMMA StorefrontInitInv == StorefrontInit => StorefrontInv
<1> SUFFICES ASSUME StorefrontInit PROVE StorefrontInv
  OBVIOUS
<1>1. /\ CatalogInit /\ ModerationInit /\ CartsInit /\ CollectionsInit /\ PromotionsInit
      /\ ContentInit /\ ClockInit /\ ListingsInit /\ SellersInit /\ busy \in Parts
  BY DEF StorefrontInit
<1>2. PagesInv
  BY <1>1, PagesAtFirst
<1>3. ImagesInv
  <2>1. Placed(image) = {} /\ \A h \in Editors : editor[h] = Free
    BY <1>1 DEF CatalogInit, Placed
  <2> QED
    BY <2>1, EditShape DEF ImagesInv, NoneShared
<1>4. ShopInv /\ QuotaInv
  BY <1>1, ShopInitTypes, QuotaAtFirst
<1>5. CollectionsInv /\ PromotionsInv /\ ContentInv /\ ListingsInv /\ SellersInv
  BY <1>1, CollectionsInitInv, PromotionsInitInv, ContentInitInv, ListingsInitInv, SellersInitInv
<1> QED
  BY <1>1, <1>2, <1>3, <1>4, <1>5 DEF StorefrontInv

LEMMA StorefrontNextInv == StorefrontInv /\ [StorefrontNext]_storefrontVars => StorefrontInv'
<1> SUFFICES ASSUME StorefrontInv, [StorefrontNext]_storefrontVars PROVE StorefrontInv'
  OBVIOUS
<1>1. /\ Moves /\ ShopStep(Baskets) /\ UNCHANGED busy
      /\ CollectionsStep \/ CuratorsStop \/ UNCHANGED collectionVars
      /\ PromotionsStep \/ PromotersStop \/ UNCHANGED promotionVars
      /\ ContentStep \/ AuthorsStop \/ UNCHANGED contentVars
      /\ ListingsStep \/ UNCHANGED listingVars
      /\ SellersStep \/ SellersStop \/ UNCHANGED sellerVars
  BY StepOfEveryPart
<1>2. CatalogInv /\ ModerationInv /\ ClockTypeOK
  BY DEF StorefrontInv, ShopInv, ContentInv
<1>3. ShopInv'
  <2>1. Baskets \in SUBSET (Seq(Item) \ {<<>>})
    BY StorefrontAssumption
  <2> QED
    BY <1>1, <2>1, ShopStepTypes DEF StorefrontInv
<1>4. PagesInv' /\ QuotaInv' /\ ImagesInv'
  BY <1>1, <1>2, PagesKept, QuotaKept, PlacesKept DEF StorefrontInv
<1>5. CollectionsInv' /\ PromotionsInv'
  BY <1>1, CollectionsKept, PromotionsKept DEF StorefrontInv
<1>6. ContentInv'
  BY <1>1, ContentKept DEF StorefrontInv
<1>7. ListingsInv'
  BY <1>1, ListingsKept DEF StorefrontInv
<1>8. SellersInv'
  BY <1>1, <1>2, SellersKept DEF StorefrontInv
<1>9. busy' \in Parts
  BY <1>1 DEF StorefrontInv, Parts
<1> QED
  BY <1>3, <1>4, <1>5, <1>6, <1>7, <1>8, <1>9 DEF StorefrontInv

LEMMA StorefrontAlways == StorefrontSpec => []StorefrontInv
BY StorefrontInitInv, StorefrontNextInv, PTL DEF StorefrontSpec

LEMMA StorefrontSays ==
    ASSUME StorefrontInv
    PROVE  /\ QuotaHolds /\ PagesAreOnSale /\ ReviewsShownAreApproved /\ CartCountsClicks
           /\ CollectionPagesAreTrue /\ CodeStaysValid /\ HomeIsCurrent
           /\ SellsForWhomItsOwnerChose /\ PlacesAreDistinct
           /\ WalkIsExact /\ StorefrontTypeOK
<1>1. QuotaHolds /\ CodeStaysValid /\ SellsForWhomItsOwnerChose
  BY QuotaSays, PromotionsSay, SellersSay DEF StorefrontInv
<1>2. PagesAreOnSale /\ ReviewsShownAreApproved
  BY PagesSay DEF StorefrontInv
<1>3. CartCountsClicks /\ CollectionPagesAreTrue /\ HomeIsCurrent
  BY CollectionsSay, HomeSays DEF StorefrontInv, ShopInv, CartsInv
<1>4. PlacesAreDistinct
  BY DEF StorefrontInv, ImagesInv, CollectionsInv, MembersInv, PlacesAreDistinct
<1>5. WalkIsExact /\ ListingsTypeOK
  BY ListingsSay DEF StorefrontInv, ListingsInv
<1>6. StorefrontTypeOK
  BY <1>5 DEF StorefrontInv, ShopInv, CatalogInv, ModerationInv, CartsInv, CollectionsInv, PromotionsInv,
         ContentInv, SellersInv, StorefrontTypeOK
<1> QED
  BY <1>1, <1>2, <1>3, <1>4, <1>5, <1>6

-----------------------------------------------------------------------------
(***************************************************************************)
(* What the runs check, for every value of the constants.                  *)
(***************************************************************************)

\* Every variable keeps its type, whatever the requests do between each other's steps.
THEOREM StorefrontTyped == StorefrontSpec => []StorefrontTypeOK
<1>1. StorefrontInv => StorefrontTypeOK
  BY StorefrontSays
<1> QED
  BY <1>1, StorefrontAlways, PTL

\* Whoever reads a list to its end has seen every row that stayed, and only once,
\* unless the row that ended a page was moved or filtered out before the next page
\* was asked for (list of products.service.ts, admin-orders.service.ts and others).
THEOREM WalkAlwaysExact == StorefrontSpec => []WalkIsExact
<1>1. StorefrontInv => WalkIsExact
  BY StorefrontSays
<1> QED
  BY <1>1, StorefrontAlways, PTL

\* The count of products and the insert of one are two statements, and still the
\* limit of the tier is passed by no more than the creations in flight
\* (create of admin-products.service.ts).
THEOREM QuotaAlwaysHolds == StorefrontSpec => []QuotaHolds
<1>1. StorefrontInv => QuotaHolds
  BY StorefrontSays
<1> QED
  BY <1>1, StorefrontAlways, PTL

\* A page the storefront keeps shows a product on sale, unless its tag is on its
\* way, was lost, came before the page, which had been read and not stored yet, or
\* the change sends none (admin-products.service.ts, products.service.ts).
THEOREM PagesAlwaysOnSale == StorefrontSpec => []PagesAreOnSale
<1>1. StorefrontInv => PagesAreOnSale
  BY StorefrontSays
<1> QED
  BY <1>1, StorefrontAlways, PTL

\* The reviews on a page that is kept are approved, under the same conditions
\* (admin-reviews.service.ts).
THEOREM ReviewsAlwaysApproved == StorefrontSpec => []ReviewsShownAreApproved
<1>1. StorefrontInv => ReviewsShownAreApproved
  BY StorefrontSays
<1> QED
  BY <1>1, StorefrontAlways, PTL

\* A line of a cart holds what the answered requests asked for, up to the limit,
\* unless a write went over a change it had not read (cart.service.ts).
THEOREM CartAlwaysCounts == StorefrontSpec => []CartCountsClicks
<1>1. StorefrontInv => CartCountsClicks
  BY StorefrontSays
<1> QED
  BY <1>1, StorefrontAlways, PTL

\* A page kept of a collection is the one it would be answered by now, but for the
\* products that were off sale when they were listed, unless word of a change is on
\* its way, was lost, came before the page or went to an older slug
\* (admin-collections.service.ts, collections.service.ts).
THEOREM CollectionPagesAlwaysTrue == StorefrontSpec => []CollectionPagesAreTrue
<1>1. StorefrontInv => CollectionPagesAreTrue
  BY StorefrontSays
<1> QED
  BY <1>1, StorefrontAlways, PTL

\* The images of a product and the products of a collection never share a place,
\* unless two were added at once or a list left some out or named one twice
\* (admin-products.service.ts, admin-collections.service.ts).
THEOREM PlacesAlwaysDistinct == StorefrontSpec => []PlacesAreDistinct
<1>1. StorefrontInv => PlacesAreDistinct
  BY StorefrontSays
<1> QED
  BY <1>1, StorefrontAlways, PTL

\* A code never takes more than the cart is worth and its window opens before it
\* closes, unless two edits overlapped (admin-promotions.service.ts).
THEOREM CodeAlwaysValid == StorefrontSpec => []CodeStaysValid
<1>1. StorefrontInv => CodeStaysValid
  BY StorefrontSays
<1> QED
  BY <1>1, StorefrontAlways, PTL

\* What the storefront keeps of the home is what it would be answered, or a tag is
\* on its way, was lost or came before the answer, and every window opens before it closes unless edits
\* overlapped (content.service.ts, admin-content.service.ts).
THEOREM HomeAlwaysCurrent == StorefrontSpec => []HomeIsCurrent
<1>1. StorefrontInv => HomeIsCurrent
  BY StorefrontSays
<1> QED
  BY <1>1, StorefrontAlways, PTL

\* A store sells with the account its owner last connected, unless a refresh was
\* stored over that decision, and only with one brought back by a state of that
\* store within its life (mercadopago.service.ts).
THEOREM SellsAlwaysAsChosen == StorefrontSpec => []SellsForWhomItsOwnerChose
<1>1. StorefrontInv => SellsForWhomItsOwnerChose
  BY StorefrontSays
<1> QED
  BY <1>1, StorefrontAlways, PTL
=============================================================================
