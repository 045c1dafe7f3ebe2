------------------------------- MODULE Pages --------------------------------
(***************************************************************************)
(* The storefront's cached product pages, one per slug, and the requests   *)
(* that tell it to drop one (revalidation.service.ts).  The storefront is   *)
(* another program: it keeps what it was answered until product:<slug> is    *)
(* revalidated.  dispatch waits for no answer, so a request may be lost, and *)
(* requests may arrive in any order.  What the API reads for a page is        *)
(* stored by the storefront later: a change and its tag may overtake it.      *)
(***************************************************************************)
EXTENDS Clock, FiniteSets

CONSTANTS
    Products,
    Slugs,
    Reviews,
    NoPage,
    AskBound    \* pages that may be on their way at once

VARIABLES
    page,       \* what the storefront shows under each slug
    asked,      \* what was read for a page that was asked for and is not stored yet
    behind,     \* history: slugs of those with a change since
    sent,       \* slugs whose product:<slug> is on its way
    missed      \* history: slugs whose page was to be dropped and was not told, or
                \*   whose tag came before the page that was to be dropped

pageVars == <<page, asked, behind, sent, missed>>

\* Everything there may be to show under a slug.
PagesTypeOK ==
    LET Shown == {NoPage} \cup [of : Products, reviews : SUBSET Reviews] IN
    /\ page \in [Slugs -> Shown]
    /\ asked \in [Slugs -> Shown]
    /\ behind \in SUBSET Slugs
    /\ sent \in SUBSET Slugs
    /\ missed \in SUBSET Slugs

\* The tag goes out, together with what the change leaves in the cache unannounced.
\* Answers that were read before it are behind.
Dispatch(slugs, left) ==
    /\ sent' = sent \cup slugs
    /\ missed' = missed \cup left
    /\ behind' = behind \cup {x \in slugs \cup left : asked[x] # NoPage}
    /\ UNCHANGED <<page, asked>>

\* Slugs that show product p, or are about to.
ShownAt(p) ==
    {x \in Slugs : \E answer \in {page[x], asked[x]} : answer # NoPage /\ answer.of = p}

\* A page that is not cached is asked for, and read.
Asks(x, answer) ==
    /\ page[x] = NoPage /\ asked[x] = NoPage
    /\ Cardinality({y \in Slugs : asked[y] # NoPage}) < AskBound
    /\ asked' = [asked EXCEPT ![x] = answer]
    /\ UNCHANGED <<page, behind, sent, missed>>

\* The answer arrives and is stored.
Keeps(x) ==
    /\ asked[x] # NoPage
    /\ page' = [page EXCEPT ![x] = asked[x]]
    /\ asked' = [asked EXCEPT ![x] = NoPage]
    /\ behind' = behind \ {x}
    /\ UNCHANGED <<sent, missed>>

\* revalidateTag in the storefront, which drops nothing of an answer on its way.
Revalidates(x) ==
    /\ x \in sent
    /\ sent' = sent \ {x}
    /\ missed' = (missed \ {x}) \cup ({x} \cap behind)
    /\ page' = [page EXCEPT ![x] = NoPage]
    /\ UNCHANGED <<asked, behind>>

\* No URL, a network error or a status other than 200: logged, nothing more.
RevalidationFails(x) ==
    /\ x \in sent
    /\ sent' = sent \ {x}
    /\ missed' = missed \cup {x}
    /\ UNCHANGED <<page, asked, behind>>

\* The process restarts: answers on their way do not arrive.
AnswersLost ==
    /\ asked' = [x \in Slugs |-> NoPage]
    /\ behind' = {}
    /\ UNCHANGED <<page, sent, missed>>
=============================================================================
