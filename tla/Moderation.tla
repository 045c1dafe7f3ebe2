----------------------------- MODULE Moderation -----------------------------
(***************************************************************************)
(* Reviews: written on the storefront (reviews.service.ts), moderated by   *)
(* the operator (admin-reviews.service.ts), shown on the product's page     *)
(* (products.service.ts).  The customer row a review upserts is in           *)
(* Customers.                                                               *)
(***************************************************************************)
EXTENDS Catalog

CONSTANTS
    Moderators,     \* requests that may be in flight at once
    ReviewOf        \* the product of each review

ASSUME ModerationAssumption == ReviewOf \in [Reviews -> Products]

VARIABLES
    review,         \* the status of each review
    moderator       \* what each request holds between its steps

moderationVars == <<review, moderator>>

ModerationTypeOK ==
    /\ review \in [Reviews -> {"none", "PENDING", "APPROVED", "REJECTED"}]
    /\ moderator \in [Moderators -> {Free}
          \cup [pc : {"approve", "reject", "reply"}, review : Reviews,
                status : {"PENDING", "APPROVED", "REJECTED"}, slug : Slugs]]

\* The slug of the review's product.
SlugOf(r) == product[ReviewOf[r]].slug

\* create, on a product on sale; it waits for moderation.
CreateReview(r) ==
    /\ Arrives
    /\ review[r] = "none"
    /\ ReviewOf[r] \in Active
    /\ review' = [review EXCEPT ![r] = "PENDING"]
    /\ UNCHANGED <<moderator, pageVars>>

\* ensure: the review, its status and the slug are read.
FindReview(h, r, pc) ==
    /\ Arrives
    /\ moderator[h] = Free
    /\ review[r] # "none"
    /\ moderator' = [moderator EXCEPT ![h] =
          [pc |-> pc, review |-> r, status |-> review[r], slug |-> SlugOf(r)]]
    /\ UNCHANGED <<review, pageVars>>

\* Pages with the review, stored or on their way, that the tag of the slug that was
\* read does not reach.
Elsewhere(m) ==
    {x \in Slugs \ {m.slug} :
        \E answer \in {page[x], asked[x]} : answer # NoPage /\ m.review \in answer.reviews}

Approve(h) ==
    LET m == moderator[h] IN
    /\ GoesOn
    /\ m.pc = "approve"
    /\ review' = [review EXCEPT ![m.review] = "APPROVED"]
    /\ Dispatch({m.slug}, {})
    /\ moderator' = [moderator EXCEPT ![h] = Free]

\* Mutant: nobody is told of a rejection.
NobodyTold(m) == {}

\* "si estaba aprobada y se rechaza, refrescar la PDP": approved when it was read.
RejectTags(m) == IF m.status = "APPROVED" THEN {m.slug} ELSE {}

\* A page that took the review in after that read is not told.
Reject(h) ==
    LET m == moderator[h]
        approvedSince == m.status # "APPROVED" /\ review[m.review] = "APPROVED" IN
    /\ GoesOn
    /\ m.pc = "reject"
    /\ review' = [review EXCEPT ![m.review] = "REJECTED"]
    /\ Dispatch(RejectTags(m),
                Elsewhere(m) \cup IF approvedSince THEN {m.slug} ELSE {})
    /\ moderator' = [moderator EXCEPT ![h] = Free]

\* The reply is text of the page, which is not told apart here.
Reply(h) ==
    LET m == moderator[h] IN
    /\ GoesOn
    /\ m.pc = "reply"
    /\ Dispatch(RejectTags(m), {})
    /\ moderator' = [moderator EXCEPT ![h] = Free]
    /\ UNCHANGED review

\* findBySlug: a product on sale with its approved reviews is read.
FindBySlug(x) ==
    /\ GoesOn
    /\ \E p \in Active :
          /\ product[p].slug = x
          /\ Asks(x, [of |-> p, reviews |->
                {r \in Reviews : ReviewOf[r] = p /\ review[r] = "APPROVED"}])
    /\ UNCHANGED moderationVars

\* It is answered when the related products have been read as well.
AnswerBySlug(x) ==
    /\ GoesOn
    /\ Keeps(x)
    /\ UNCHANGED moderationVars

ModeratorsStop ==
    /\ moderator' = [h \in Moderators |-> Free]
    /\ UNCHANGED review

ModerationInit ==
    /\ review \in [Reviews -> {"none", "PENDING", "APPROVED"}]
    /\ \A r \in Reviews : review[r] # "none" => ReviewOf[r] \in Existing
    /\ moderator = [h \in Moderators |-> Free]
    /\ page = [x \in Slugs |-> NoPage] /\ asked = page
    /\ behind = {} /\ sent = {} /\ missed = {}

ModerationStep ==
    \/ \E r \in Reviews : CreateReview(r)
    \/ \E h \in Moderators :
          \/ \E r \in Reviews, pc \in {"approve", "reject", "reply"} : FindReview(h, r, pc)
          \/ Approve(h) \/ Reject(h) \/ Reply(h)
    \/ \E x \in Slugs : FindBySlug(x) \/ AnswerBySlug(x)

\* What the storefront and the network do.
PagesStep ==
    /\ GoesOn
    /\ \E x \in Slugs : Revalidates(x) \/ RevalidationFails(x)
    /\ UNCHANGED moderationVars

-----------------------------------------------------------------------------
\* "siempre revalidar: el producto sale del storefront" (admin-products.service.ts):
\* a cached page shows a product on sale, or its revalidation is on its way, or
\* was lost, or came before the page, which had been read and not stored yet; or
\* the change sends none: an update that takes the product off sale or renames
\* it, before or during the archiving.
PagesAreOnSale ==
    \A x \in Slugs \ (sent \cup missed) : page[x] # NoPage => page[x].of \in Active

\* "si estaba aprobada y se rechaza, refrescar la PDP" (admin-reviews.service.ts):
\* the same of the reviews of a page, which are approved, unless the rejection
\* had read the review before an approval or a rename, or its tag came before a
\* page that had been read already.
ReviewsShownAreApproved ==
    \A x \in Slugs \ (sent \cup missed) :
        page[x] # NoPage => \A r \in page[x].reviews : review[r] = "APPROVED"
=============================================================================
