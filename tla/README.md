# BestCoffee API: a TLA+ model

BestCoffee API is the backend of a multi-tenant coffee shop platform: NestJS
services over PostgreSQL (Prisma), Stripe and MercadoPago for payments, Inngest
for jobs. Almost every handler has the shape *read, check, await, write*; the
only locks are those of PostgreSQL at READ COMMITTED, unique keys and one partial
unique index. What can go wrong is therefore what happens between a read and a
write, between a commit and the call that follows it, and in the order in which
the outside world reports. That is what the modules here describe.

Paths below are relative to the repository; `modules/` is `src/modules/` of it.

## 1. Inventory

| Component | State | Operations | Talks to |
|---|---|---|---|
| checkout (`modules/orders/checkout.service.ts`) | Order, OrderItem, CartItem | price, create order, open a payment | cart, Stripe, MercadoPago |
| back office orders (`admin-orders.service.ts`) | Order.status, paymentStatus, stock, timesRedeemed | updateStatus, update, list | webhooks, through the rows |
| Stripe (`modules/stripe`) | StripeEvent, paymentStatus, stock, timesRedeemed, Subscription.status | createPaymentIntent, createSetupIntent, createOrGetStripeCustomer, chargeOffSession, three webhook handlers | Inngest |
| MercadoPago (`modules/mercadopago`) | MercadoPagoEvent, mpPaymentId, the tenant's tokens | connect, callback, disconnect, refresh, createPayment, webhook | Inngest |
| subscriptions (`modules/subscriptions`) | Subscription | create, pause, resume, skipNext, cancel, update; renewal job | Stripe, Inngest |
| jobs (`modules/inngest`) | none | order/created e-mail, renewal cron | subscriptions, mail |
| gifts (`modules/gifts`) | GiftSubscription, Subscription | create, redeem, list | subscriptions |
| cart (`modules/cart`) | CartItem | price, get, add, update, remove, clear, merge | products, promotions |
| promotions (`modules/promotions`) | DiscountCode | create, update, remove | cart, webhooks |
| catalog (`modules/products`) | Product, Variant, ProductImage | create under a quota, update, archive, images, variants, pages | carts, reviews, revalidation |
| collections (`modules/collections`) | Collection, CollectionProduct | create, update, remove, attach, reorder, detach, page | revalidation |
| reviews (`modules/reviews`) | Review, Customer | create, approve, reject, reply | catalog, revalidation |
| content (`modules/content`) | SiteContent | create, update, remove, home | revalidation |
| revalidation (`modules/revalidation`) | the storefront's cache, outside | dispatch | the storefront |
| customers (`modules/customers`) | Customer, Address | register, verify, login with lockout, provider sync, addresses | mail |
| operator auth (`modules/auth`) | User.loginToken | request and verify a magic link | mail |
| tenants, platform (`modules/tenants`, `platform`) | TenantMembership, Tenant | members, commission proposals, settings, creation, plan, impersonation | auth, guards |
| guards (`src/common`) | two 30 s caches | sessions, roles, features, tenant slug, throttling | every request |
| lists and dashboard (`*.list`, `modules/admin`) | none | pages by cursor; figures | every row above |
| quiz, mail, health | none | scoring, e-mail, ping | none |

What is hard, and what has to hold for it to be right:

* **Checkout and payment.** A payment is reported at least once, in any order,
  possibly while the server restarts. It must be accounted for (PAID, stock,
  coupon) exactly once and confirmed afterwards.
* **Back office.** An admin's check and write are separate. Statuses must follow
  the table; a cancelled order gives back what it took, once.
* **MercadoPago.** The answer to the checkout and the notifications report the
  same payment; the notification is only useful once the order is linked. A
  store sells with the account its owner last chose, whatever refresh is in flight.
* **Subscriptions and gifts.** Requests, set-up events, redemptions and the
  renewal job write one row. One ACTIVE subscription per customer and variant; no
  charge ahead of schedule, none after a cancellation; what a gift includes is paid.
* **Accounts.** A last owner, a single-use link, a lockout counter, a default
  address, a commission proposal: each checked in one step and acted on in
  another, behind guards that may answer from a cache.
* **Storefront.** Quotas, places, carts and codes are read, changed and written
  back. A page is read in several queries and stored by the storefront later; the
  storefront keeps it until it is told otherwise by a request that may be lost, or may
  come before what it is about. Lists are read a page at a time while rows change.

`PROJECT.json` lists every hazard with its line, under "hazards".

## 2. Modules

```
OrderBook            rows of a tenant: checkout, accounting, back office
 ├─ OrderBookProofs       what both providers keep of it
 ├─ StripeCheckout        + PaymentIntent, events, onPaymentSucceeded/Failed
 │    ├─ MCStripe
 │    └─ StripeCheckoutProofs  (extends OrderBookProofs)
 └─ MercadoPagoCheckout   + tokens, notifications, applyPaymentStatus
      ├─ MCMercadoPago
      └─ MercadoPagoProofs     (extends OrderBookProofs)
PaymentPromise       what both promise (refined by each)

Subscriptions        requests, set-up events, renewal job ── MCSubscriptions
 └─ Gifts                 + codes, redemptions, customers at Stripe
      ├─ MCGifts
      └─ SubscriptionsProofs   (of both)

Clock                time and number of requests, for all that follow
 ├─ Operators             links, sessions, roles
 ├─ TenantPlan            plan, settings, rate, cache   ── TenantPlanProofs
 │    └ TierFeatures
 ├─ Customers             accounts, lockout, addresses
 │        Accounts = Operators + TenantPlan + Customers
 │             ├─ MCAccounts
 │             └─ AccountsProofs    (extends TenantPlanProofs)
 ├─ Pages, Shelf          cached pages; things with a place
 ├─ Catalog ── Moderation, Carts                        ── CatalogProofs
 └─ Collections, Promotions, SiteContent, Listings, SellerAccounts
          Storefront = Catalog to SellerAccounts, eight modules
               ├─ MCStorefront
               └─ StorefrontProofs  (extends CatalogProofs)
```

Common conventions. A Prisma transaction is one step, taken where it commits:
those of the webhooks insert the event row first and so run one after another
for one event. A read that is not protected by a lock is a step of its own when
something else happens between it and the write that uses it, or the storing of the
page that was read. A conflict on the event's primary key makes PostgreSQL abort
the transaction; the handler's `return` inside it leaves nothing behind and the
code after the transaction runs, which is what the `IF Recorded` branches say.

The `catch` around that insert names no error, in both providers. Its comment is
about a repeated event ("Idempotencia: si el evento ya fue procesado, salir sin hacer
nada", `modules/stripe/stripe.service.ts:183`), but a statement time-out or a deadlock
ends there as well: the transaction leaves without a change, `order/created` is sent
and the event is answered, so the order is confirmed and its payment may never be
accounted for. That is `PaymentDropped` in both modules and `FailureDropped` for a
failed attempt at Stripe; the orders it happens to are `dropped`, and every
property of the payments says what it says of them. An error anywhere else in the
transaction, or of its commit, is no step: it changes nothing and the event comes back.

A request that takes more than one step is a record in a variable of its part
(`desk`, `office`, `counter`, `editor`, `curator`, ...): what it read and what it
was asked. A restart loses them all. Where the code keeps a promise only as long
as no two requests overlap, a history variable says that they did, set by the very
write that went over something its request had not read (`crossed`, `tangled`,
`mixed`, `twoAtOnce`, `imagesMixed`, `overtaken`, ...); the property then is about
everything else, for any number of requests that do not meet and any order of the
steps of those that touch different rows. Those variables are read by no guard.

### OrderBook

`phase[o]` is how far the checkout request of an order has come. `Price` is
`CheckoutService.create` up to the pricing (with `CartService.price` and
`validateDiscount`, whose several reads are taken as one; a stale price or
stock afterwards is still possible, for `CreateOrder` is a later step).
`AccountPayment` is the body both providers' transactions share. `desk[a]` holds
what an admin request knows between two awaits: `CheckStatus` is `ensure` and the
check of `ALLOWED_TRANSITIONS`; `ReadForCancel` and `CommitCancel` are the
unlocked read and the commit of the cancelling transaction; `WriteStatus` every
other transition. An order has up to two lines per variant, since the code
compares and deducts line by line. `counted`, `taken` and `restored` are history.

### StripeCheckout

Adds the PaymentIntent, what Stripe has emitted and what was answered, the
StripeEvent table, and deliveries between their transaction and `inngest.send`.
`PaymentDropped` is the insert that fails and is taken for a repetition.
`Restart` forgets requests and deliveries in flight.

### MercadoPagoCheckout

`call[c]` is what a checkout request (named by its order) or a notification handler
holds: nothing, a stale token to refresh, a valid token, the state of the payment, or an
accounted payment to announce. Both end in `ApplyOther`, `MarkOrderPaid` or, if the
insert of the event fails, `PaymentDropped`. `tok` is the tenant's credentials. A
notification carries only the payment's id; `GetPayment` asks for the state it has at
that moment.

### PaymentPromise

Four actions: a customer is charged, a charged order is accounted for once or
dropped, and one that was accounted for or dropped is announced; with weak fairness
of the accounting of orders that are not dropped.
`StripeCheckout` implements all of it, `MercadoPagoCheckout` the safety half: a
payment whose notification came before the link is never accounted for.

### Subscriptions

Both request services keep the same rules, so one set of actions stands for
both. `Request` is the read, the check and the values computed from what was
read; `Apply` is the write by id. The job reads one batch (`StartRun`) and for each
subscription creates an order, charges, and moves the date; any error leads to
`MarkFailed`. `Crash` loses requests and runs, and `StartRun` is what Inngest
starts again. Dates are numbers; `resume` leaves a date alone that is not in the
past, as the code does. `born` and `late` are history.

### Gifts

`ReadGift` is the look-up and the check of a code, `Redeem` the transaction, which
asks nothing again: two customers who read an open code both get a subscription,
unless the partial index refuses the second. `Gifts` also adds what
`Subscriptions` leaves out of a renewal, the customer's id at Stripe and the card:
a run that finds neither marks the subscription. That a code serves once is not
claimed: the service answers 'no válido o ya utilizado' to who looks the code up later,
and to nobody who has looked it up already.

### Operators, TenantPlan, Customers, Accounts

`Operators`: a link is stored, sent, found and consumed in separate steps, and what a
link opened is counted; a session is a time until which a token is valid, and `Passes`
reads the role anew on each request. `Ensure`, `CountOwners` and `ChangeMember` are the
three awaits of a change of the team. `TenantPlan`: the platform's update, the owner's
settings and the owner's decision each hold the row they read, and write back what they
read of the overrides with what they change; `Lookup`, `ReadPlan` and `Remember` are the
guard's cache, whose entry ends a life after the look-up began. `Customers`: a login
holds its row while the password is hashed; an address is cleared of the default and
then written. `Accounts` puts a customer's request behind the guard of features and an
owner's behind the guard of roles.

### Catalog, Moderation, Carts, Collections, Promotions

`Pages` is the storefront's cache. A page is read (`Asks`) and stored (`Keeps`) in two
steps: `asked` is what was read and has not been stored, `behind` the slugs of those
with a change since, which the tag of that change may precede. `sent` are the tags on
their way and `missed` those that were lost, never sent, or came too early for an answer
that was behind. A restart loses the answers on their way. `Collections` takes an
instance of it for its own pages, of which the collection is read in one step and its
products, those on sale, in the next (`ResolveProducts`) before the answer is stored.
Putting a product on or off sale is told to no collection: the property compares what
else a page shows and says of a product that is missing that it was off sale when the
page was listed. `Catalog` counts products and inserts one in two steps, and tells the
slug that the code tells: the new one of an update if the product is ACTIVE, the one
read before of an archive. `Moderation` adds reviews and what a page is answered.
`Shelf` is the arithmetic of positions that images and collections share. `Collections`
has requests that hold the slug they read, and what they tell is of that slug. `Carts`
writes the sum it computed from the row it read, with the identity of the row, since a
removed and added line is another one. `Promotions` checks what was sent together with
what was read, and writes only what was sent.

### SiteContent, Listings, SellerAccounts

`SiteContent` is the home: blocks with a window of time, read with the instant at which
they were, and kept by the storefront once the answer has arrived. `Listings` is the
cursor all lists share: what a list is ordered by, whether its filter may lose a row,
and what the rows do between two pages; the order is the rank of each row, which an edit
or a later delivery moves. `SellerAccounts` is the OAuth state, its exchange, and
refreshes that hold a token while the owner disconnects; of a token,
`MercadoPagoCheckout` only knows whether there is one.

## 3. Runs

Deadlock is not checked: customers, requests, faults and days are bounded, so
every instance comes to rest when they are used up, as the real system does
when nobody calls it.

| Run | Instance | What it shows |
|---|---|---|
| `stripe_serial` | 2 orders, 1 variant (stock 3), 1 coupon with one use, two-line baskets, 1 admin, 2 requests, 1 refused attempt, 1 restart, no failing insert | restitution once and only after payment; coupon and stock ledgers; the transition table |
| `stripe_desk` | 1 order, 2 admins, manual payments, 1 failing insert | the payment promise with its liveness; no lost confirmation; none without a payment but for the insert that failed; coupon counter backed by paid orders |
| `mercadopago` | 1 order, 2 handlers, 1 admin request, 1 fault | accounted once; safety of the promise; a linked payment is reconciled |
| `renewal` | 2 subscriptions of one pair, frequencies 1 and 2, one of which may come from a gift, 1 redemption and 1 request in flight, 3 days, 2 requests, 1 fault, batch of 1 | one ACTIVE per pair; charges follow the schedule; they stop after a cancellation |
| `accounts` | 2 operators with 2 links, 1 customer, 2 addresses, 2 requests at each of three desks, 3 requests, 1 tick | the nine properties of operators, plan and customers |
| `storefront` | 3 products, 1 review, 2 images, 1 variant, a collection of 2 with 3 slugs, 1 code, 1 block, a list of 3, 2 stores; 4 requests, two in flight at a desk, one page on its way | the pages, places, quantities, codes, lists and accounts |
| `stock_floor`, `notified_before_link`, `cancel_terminal`, `skipped_for_good`, `gift_charged`, `link_used_twice` | 1–2 orders, handlers, subscriptions or requests | what the code does not keep of its comments (section 6) |

Why the bounds are enough. Two orders are the least that share a stock and a coupon, and
the ledgers are sums over orders. Two lines of a variant tell "per line" from "per
variant". One refused attempt gives a failed event that can come before or after the
success. One restart can be placed at every point, and two handlers give every order of
two reads and two writes. One failing insert may be the last anyone hears of a payment,
or be followed by a delivery that is accounted for, when a restart cuts its answer
short; it is left out where two orders are. In `renewal` a batch of one is smaller than
the two subscriptions, three days leave room for two renewals with frequency 1, and a
request may be read before and written after any step of the job. In `accounts` three
requests are two that overlap and one that made the difference before, or two that
follow one that overlapped; every life is one tick, so that each may end between any two
steps; two wrong passwords lock. In `storefront` four requests add, change, remove and
put back a thing, and the quota is one product below what there may be. Bounds are
constants: `RequestBound`, `CollectionBound`, `FailureBound`, `RestartBound`,
`DropBound`, `FaultBound`, `DayBound`, `TimeBound`, `AskBound`, `AnswerBound`.

One busy part at a time. `Storefront` has seven parts that share no variable but the
clock and the count of requests: products with their reviews and pages, products with
carts, a collection, a code, the home, a list, the seller's accounts. Each property
reads the variables of one part, and a step of another changes none of these. So `busy`
chooses the part that requests come for; within it all the components interleave. What
this leaves out is only that a restart stops two parts together, which it does one by
one in two behaviours. A collection keeps its own slugs and its own record of which
products are on sale. One page at a time is on its way (`AskBound`, `AnswerBound`): a
page under one slug neither reads nor writes what there is under another, and each
slug's is on its way in some behaviour. `CollectionBound` is three requests, the least
that rename, change and race: pages are filled and tags arrive or are lost as often as
they like. Symmetry is over the two requests of each desk, the slugs and two of the
products, which no initial state and no definition tells apart; no liveness is checked
with symmetry.

Properties that only hold for a serial back office (one admin request in flight,
no payment set by hand) are checked in `stripe_serial` and say so where they are
stated.

## 4. Fairness

* Stripe and MercadoPago repeat an event until it is answered with a 2xx: weak
  fairness of the delivery of an unanswered event. Both document it, and the code
  relies on it (`modules/stripe/stripe.service.ts` and its event table).
* A running handler goes on: weak fairness of its next step.
* Inngest starts the renewal every day and after a failed step: weak fairness of
  a run's steps. Only `skipped_for_good` uses it, so that what it finds is not a job
  that never came. What fails is bounded, so a failing step is not repeated for ever.

Nothing is assumed of customers, admins, restarts, payments, revalidations or the clock.

## 5. Theorems

Every safety property of a passing run, invariant, action property or refinement, is
a theorem, for any values of the constants that satisfy the modules' ASSUMEs. These
say little: bounds and lives are numbers (of lives that must not be over at once, not
zero), the sets that are counted are finite (`Images`, `Members`, `Orders`, `Desk`,
`Runs`, ...), a value that stands for "none" is none of the values, subtotals are
not negative. What is assumed beyond these is in the statement of the theorem.

* `OrderBookProofs`: `BookKept`. `BookStep` is what a provider and the back office
  may do to the book, and `BookInv` is kept by it: types; `Rows`, that nothing is
  accounted for or on a desk before the row exists; `RedemptionsBacked`; and
  `StockLedger` with `Untaken`, that an order which is not accounted for took nothing.
  A sum over the orders is a fold, which no prover unfolds; the lemmas say of it all
  that is used, that it changes by what one term changes, and are shown by taking the
  smallest set of orders for which they fail.
* `StripeCheckoutProofs`: types; `AccountingInvariant`, an order is counted once
  exactly when its success event is in StripeEvent, StripeEvent holds only emitted
  events, and what is sent or announced is counted or dropped; `ConfirmationsHavePayment`,
  which alone is not inductive, since a send says nothing of the transaction before
  it unless `sending` is known to be within the orders accounted for or dropped;
  `ImplementsPromiseSafety`, every step is a step of `PaymentPromise` or a stutter;
  and, every step being a `BookStep`, `CouponAlwaysBacked` and `StockAlwaysBalanced`.
  Under `SerialBackOffice` (at most one admin, no manual payments), which is an
  assumption of each of these theorems: `SerialInvariant`, what the desk holds agrees
  with the book; `RestoresOnce`, `TransitionsFollowed` and `CouponLedger` follow from
  it, the last by following the two cardinalities through each step.
* `MercadoPagoProofs`: `MpInvariant`, an order is counted once exactly when its
  payment is in MercadoPagoEvent, only approvals are in it, a state a call holds as
  approved is approved or has been refunded since, and a checkout request that has
  yet to create its payment belongs to an order without one. From it follow
  `ConfirmationsHavePayment`, `PaidOnce` (no payment set to PAID by hand, which is the
  theorem's assumption) and `MercadoPagoKeepsPromise`. What a call holds has to be
  part of the invariant because the payment may move on between `GetPayment` and
  `MarkOrderPaid`. `TypeCorrect` adds that a call which holds a state belongs to a
  payment that exists and a notification that was made. `BookAlwaysKept`: every
  step is a `BookStep`, so the ledger and the coupons hold here as well.
* `SubscriptionsProofs`: types; `OneActive`, one ACTIVE row per customer and
  variant; `LateChargesBounded`, at most one charge per overlapping run of the job
  while a subscription stays cancelled. It needs `SubscriptionsInvariant`: the late
  charges and the runs that still hold the subscription are together no more than the
  runs there are, since no run takes hold of a cancelled subscription and each charge
  lets one go. `ScheduleFollowed`, with one request and one run at a time (with two
  handlers TLC finds it violated): the next delivery is never before the creation
  plus a period for each charge that no fault excuses, of the row, of what the run has
  read of it and of what a request will write.
* Gifts, in the same module: `GiftsTyped`, with the fact that only a redeemed gift is
  linked; `GiftsKeepSubscriptions`, the index and the bound on late charges with
  redemptions among the steps.
* `TenantPlanProofs`: `PlanInvariant`, that a request's row is the tenant's unless
  writes overlapped, that what it decided fits what it read, and that what a look-up
  or the cache holds is the plan or was read before the plan last changed. From it
  follow `CommissionAlwaysNeedsPlan`, `PlanAlwaysThePlatforms`, `CacheAlwaysRecent` and
  `RatesAlwaysChangeByConsent`. The last is a property of steps: it needs of the
  invariant that a rate, once there, is never lost.
* `AccountsProofs`, operators: types; `OwnerAlwaysRemains`, whose invariant adds to
  "there is an owner, or changes were crossed" that every request which passed the
  count, and takes an ownership, leaves another owner. `AccessAlwaysEnds`: for who is
  no owner, the changes made since and the requests in flight are together no more
  than the desks.
* `AccountsProofs`, customers: types; `LockoutAlwaysCounts` needs that what a login
  read of the attempts is what the row says while no two logins of the account
  overlapped, and that a row which does not exist has none; `SessionsAlwaysConfirmed`
  that a login or a verification in flight is of a row that stays confirmed or
  existing; `OneDefaultAlways` that what a request cleared is all there was to clear.
* `AccountsProofs`, the three together: `PartsOfAccounts`, `AccountsSpec` implements
  `OperatorsSpec`, `PlanSpec` and `CustomersSpec`, so `AccountsKeepTheirPromises`. (The
  three let requests of others come in, since all count towards one bound.)
  `AccountsAlwaysCloseInTime`: a request that was let through found the accounts in
  the plan or in a cache that `CacheIsRecent` speaks of.
* `CatalogProofs` and `StorefrontProofs`: the parts share only products and pages, so
  each has an invariant of its own, kept by its steps and by what the others and a
  restart do (`StepOfEveryPart`). What has to be added to the properties:
  - quota: products and the creations in flight stay below the limit and the desks
    together, until all have landed;
  - places: the place a request will write is above all that are taken;
  - pages on sale: a page is kept under the slug its product has by now, for the tag of
    an archiving goes to that one; and what holds of a page that is kept holds of an
    answer on its way, unless it is behind, which storing it does not change and its
    tag turns into `missed`;
  - reviews: a request in flight is of a review that exists, of a product that does;
  - carts: nothing but types, since a write over what was not read marks the variant;
  - collections: a request in flight finds a collection that was created; a page that was
    read and not listed yet has the collection's type, one that was listed has its
    places but for what was off sale, unless it is behind;
  - home: what was read for it is what would be read, unless it is behind;
  - codes and windows: an edit in flight was right for the row it read, and a
    percentage of at most 100 takes, rounded, no more than there is;
  - accounts of sellers: whatever a request holds was brought back in time by a state
    of the store it is for;
  - lists: the rows that did not move have been seen exactly up to the cursor. A row's
    place is its rank; that a page ends where it does is shown by the first row
    left out (`HasFirst`).

Only model-checked: liveness (`ChargedIsConfirmed`, the fairness half of the promise in
`ImplementsPromise`, `LinkedPaymentIsReconciled`) and the ENABLED it
stands on, which the prover does not reach; and the runs that expect a violation,
each of which is a behaviour. No module here has a RECURSIVE operator.

## 6. Where code and comments disagree

Each has a run whose only property quotes the comment (PROJECT.json, "findings").

1. Stock goes below zero: the guard is `stock > 0`, the decrement the quantity.
2. A MercadoPago notification that precedes the link is answered and lost.
3. A set-up event revives a cancelled subscription.
4. A subscription whose next delivery is skipped is never renewed again.
5. The deliveries of a gift are charged to the customer who redeemed it: the number
   of deliveries the buyer paid is stored and never read.
6. A login link opens two sessions when two requests present it at once: each has
   found it before either clears it, and it is cleared by the user's id.

## 7. Not modelled

* Amounts, taxes and rounding, but for what a code takes off: no property tells them
  apart.
* Several tenants: every query filters by tenant, and the rows of two never meet.
  `SellerAccounts` has two stores because a signed state may be brought to the other.
* The absolute stock the back office writes over the order book's decrements; prices
  and SKUs of variants.
* The rules of an AUTO collection, and slugs that another collection has taken.
* The figures of the dashboard and of the sales report: they are counts of rows whose
  `createdAt` nobody rewrites, in half-open periods, so no interleaving moves an order
  from one to another.
* That every due subscription gets its turn: the job takes 50 rows in an order that
  is the database's, so rows that become due day after day may keep one out. It is
  listed as a hazard, and no such property holds of this code.
* Two runs of the renewal job at once: `Runs` is a parameter and the theorem on late
  charges covers any number, but the schedule is only claimed for one.
* A repeated checkout after a lost answer: a request is named by its order, so it
  is another order.
* Suspension and lists of the platform, profile edits, the tenant guard's cache (the
  slug of a tenant never changes), throttling, the quiz (a pure score over constant
  weights), mail and health (pure I/O), editing of blog posts and guides (single
  writes), seeds and build files.
