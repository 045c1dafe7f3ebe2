----------------------------- MODULE Storefront -----------------------------
(***************************************************************************)
(* Catalog, moderation, carts, collections, promotions, content, lists and  *)
(* the MercadoPago account of a tenant together, with the storefront that    *)
(* caches the pages and the home.                                           *)
(*                                                                         *)
(* Catalog shares products and pages with moderation, and products with     *)
(* carts.  The others share no variable with the rest: what they do between  *)
(* the others' steps makes no difference to either.  So a behaviour has      *)
(* requests of one busy part, whose components interleave freely.            *)
(***************************************************************************)
EXTENDS Moderation, Collections, Carts, Promotions, SiteContent, Listings, SellerAccounts

CONSTANTS
    Baskets,            \* what a browser may hold when its customer signs in
    CollectionBound     \* requests when the collection is busy

ASSUME StorefrontAssumption == Baskets \subseteq Seq(Item) \ {<<>>}

VARIABLE busy        \* the part that requests come for

storefrontVars == <<catalogVars, moderationVars, pageVars, collectionVars, cartVars,
                    promotionVars, contentVars, listingVars, sellerVars, clockVars, busy>>

Parts == {"pages", "cart", "collection", "code", "content", "listing", "seller"}

\* The parts that share nothing.
lonelyVars == <<collectionVars, promotionVars, contentVars, listingVars, sellerVars>>

\* A part that is not busy is empty.
StorefrontInit ==
    /\ busy \in Parts
    /\ ClockInit
    /\ CatalogInit /\ (busy \in {"pages", "cart"} \/ Existing = {})
    /\ ModerationInit /\ (busy = "pages" \/ \A r \in Reviews : review[r] = "none")
    /\ CartsInit /\ (busy = "cart" \/ \A v \in Variants : line[v] = 0)
    /\ CollectionsInit /\ (busy = "collection" \/ kind = "none")
    /\ PromotionsInit /\ (busy = "code" \/ code = NoCodeRow)
    /\ ContentInit
    /\ ListingsInit /\ (busy = "listing" \/ (Present = {} /\ list = AuditList))
    /\ SellersInit

\* Products, their reviews and the pages that show both.
PagesBusy ==
    /\ busy = "pages"
    /\ \/ CatalogStep /\ UNCHANGED moderationVars
       \/ (ModerationStep \/ PagesStep) /\ UNCHANGED catalogVars
    /\ UNCHANGED <<cartVars, lonelyVars>>

\* Products and the carts that refer to them.
CartBusy ==
    /\ busy = "cart"
    /\ \/ CatalogStep /\ UNCHANGED cartVars
       \/ CartsStep(Baskets) /\ UNCHANGED catalogVars
    /\ UNCHANGED <<moderationVars, lonelyVars>>

CollectionBusy ==
    /\ busy = "collection"
    /\ CollectionsStep
    /\ requests' <= CollectionBound
    /\ UNCHANGED <<promotionVars, contentVars, listingVars, sellerVars>>

CodeBusy ==
    /\ busy = "code"
    /\ PromotionsStep
    /\ UNCHANGED <<collectionVars, contentVars, listingVars, sellerVars>>

\* The windows of blocks open and close as time passes.
ContentBusy ==
    /\ busy = "content"
    /\ ContentStep \/ (Tick /\ UNCHANGED contentVars)
    /\ UNCHANGED <<collectionVars, promotionVars, listingVars, sellerVars>>

ListingBusy ==
    /\ busy = "listing"
    /\ ListingsStep
    /\ UNCHANGED <<collectionVars, promotionVars, contentVars, sellerVars>>

\* States and tokens end as time passes.
SellerBusy ==
    /\ busy = "seller"
    /\ SellersStep \/ (Tick /\ UNCHANGED sellerVars)
    /\ UNCHANGED <<collectionVars, promotionVars, contentVars, listingVars>>

\* The process, which is one for all of them, restarts.
Restart ==
    /\ Arrives
    /\ EditorsStop /\ ModeratorsStop /\ CuratorsStop /\ ShoppersStop /\ PromotersStop
    /\ AuthorsStop /\ SellersStop
    /\ UNCHANGED listingVars

StorefrontNext ==
    /\ \/ PagesBusy
       \/ CartBusy
       \/ /\ CollectionBusy \/ CodeBusy \/ ContentBusy \/ ListingBusy \/ SellerBusy
          /\ UNCHANGED <<catalogVars, moderationVars, pageVars, cartVars>>
       \/ Restart
    /\ UNCHANGED busy

StorefrontSpec == StorefrontInit /\ [][StorefrontNext]_storefrontVars

-----------------------------------------------------------------------------
StorefrontTypeOK ==
    PagesTypeOK /\ CatalogTypeOK /\ ModerationTypeOK
        /\ CollectionsTypeOK /\ CartsTypeOK /\ PromotionsTypeOK
        /\ ContentTypeOK /\ ListingsTypeOK /\ SellersTypeOK
        /\ busy \in Parts

\* The images of a product and the products of a collection have a place each
\* (admin-products.service.ts, admin-collections.service.ts), however they were
\* added, removed and put in order, unless two were added at once or a list left
\* some out or named one twice.
PlacesAreDistinct ==
    /\ imagesMixed \/ NoneShared(image)
    /\ membersMixed \/ NoneShared(member)
=============================================================================
