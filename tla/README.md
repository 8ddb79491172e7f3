# Formal verification of E-Commerce_App

TLA+ modules, TLC configurations and TLAPS proofs for the store's services and
the parts of its web client that keep state. Every safety property that a run
checks of a component is also proved, for all values of the constants that the
theorem's hypotheses allow; liveness is model-checked only.

    tlc -workers 2 -config MCInventory.cfg MCInventory     # a run
    tlapm InventoryProofs.tla                              # the proofs; so the other *Proofs modules

Contents: 1 the system, 2 the modules, 3 runs, with their bounds and the
fairness, 4 proofs, 5 what is not modelled and the plan, 6 where the code and
what is said of it disagree.

## 1. The system

Independent Express services, two replicas of each, share one PostgreSQL
database, a Redis and an Elasticsearch. The browser talks to the gateway, the
gateway to the services, the services to each other by HTTP with a signed
internal token. A call has a timeout of 5 s (15 s to payment); calls that
change nothing, or may be repeated, are retried, POST and PATCH are not.

| component | state | operations | what makes it correct | modules |
| --- | --- | --- | --- | --- |
| inventory | `inventory` (available, reserved), `inventory_reservations` and their items, `inventory_ledger`, rows in `catalog_outbox` | reserve, commit, release, adjust, restock; a sweeper on a timer in every replica | units are neither lost nor invented; a reservation has one outcome; the ledger explains the stock; the search facet is told of every crossing of zero; holds do not last for ever | `Inventory`, `InventoryTx` |
| place-order | `orders`, `order_items`, `order_events`; idempotency entries in Redis | POST /orders: the saga gather, reserve, insert order, charge, commit, confirm, ship and clear, with compensations; preview | one order per key; stock consumed only for captured money; success only when paid; nothing released of an order that is fulfilled; every attempt ends | `Checkout`, `Totals` |
| idempotency store (`packages/shared`) | one Redis entry per (user, key): in flight or done | begin, complete, abort | a replay gives the original answer; the work of a key is done once; a claim blocks nobody for ever | `Idempotency`, `Checkout` |
| service client, proxy | none | the call with its retries; guards of the routes | a write is not replayed; the caller is told the truth, and is told something | `Relay` |
| payment | `payments`; updates `orders` | charge, refund, list | one payment per key; what the provider took the table knows of; a payment is given back once | `Payment`, `KeyedCharge`, `Checkout` |
| order-status | `orders`, `order_events`; updates `shipments` | cancel, admin status change, reads | legal transitions only; a cancelled order has no label that is good; its stock returns exactly once | `Fulfilment`, `Checkout` |
| shipping | `shipments`, `shipment_events`; updates `orders` | create, status update, tracking, quote | one live shipment per order; no status regression; order and parcel agree | `Fulfilment`, `Totals` |
| cart | one JSON value per user in Redis | get, add, set quantity, remove, clear, merge | no lost update; limits kept; what is shown is what is stored | `Cart`, `Totals` |
| account | `users`, `addresses` | profile, password, deletion; address create, update, set default, delete | one owner of an email; exactly one default address; limits kept | `Accounts`, `Addresses`, `Sessions` |
| gateway sessions | `refresh_tokens`, `users` | sign-up, sign-in, refresh with rotation, sign-out(-all) | a token is used once; reuse revokes the family; revocation is complete | `Sessions`, `Accounts` |
| search | Elasticsearch indexes and alias; `catalog_outbox`; `products` | product CRUD, outbox drain, reindex and alias swap, queries with a fallback | the index converges to the database; the pages of a search show every match once | `SearchIndex`, `SearchQuery` |
| product-review | `reviews`, rating rollup on `products` | create, update, delete, moderate, mark helpful | the rollup equals the visible reviews, and search gets it | `ReviewRollup` |
| recommendation-generation | `recommendation_runs`, affinity and result tables, an in-process flag | generate, scheduler | runs do not overlap or wedge; the tables are replaced as a whole | `RecommendationRun` |
| recommendation | none | shelves with a cascade of fallbacks | a shelf is empty only when there is nothing to show | `RecommendationRun` |
| shared | none of its own | transactions with retry, service client, auth, errors, server, money | totals are consistent; a process ends without dropping work | `Totals`, `Relay`, `Shutdown`, `RowLocks` |
| database jobs | the schema, `schema_migrations`, the demo catalogue | migrate up and down, seed | each file once and in order; the seed can be repeated | `Migrations`, `Seeding` |
| web | session, query cache, checkout page, cart page | single-flight token refresh; cached queries and mutations; one key per checkout, kept over retries | a reload does not end the session; nobody sees another's data; one cart is one order | `BrowserSession`, `QueryCache`, `WebCheckout`, `Cart` |

How they interact:

    web -> gateway -> place-order -> cart, account          (GET, read-only)
                        |-> Redis          SET NX / GET / SET / DEL
                        |-> inventory      reserve, commit, release
                        |-> payment        charge --> provider, orders, payments
                        |-> orders table   insert, fail, confirm
                        |-> shipping, cart create shipment, clear (in parallel)
           gateway -> order-status          cancel --> orders, shipments
                        |-> inventory      restock
           gateway -> account, cart, product-review, shipping, payment, search
           gateway -> refresh_tokens        sessions
    timer in every inventory replica        sweep expired reservations
    timer in every search replica           drain catalog_outbox --> Elasticsearch
    timer in recommendation-generation      rebuild affinities and recommendations
    boot of every search replica            rebuild an outdated index, swap the alias

Hard behaviours: a call that times out may still be executed, before or after
the compensation that follows the timeout; any process may die between two
steps and nothing resumes a saga; Redis entries get lost; a COMMIT may succeed
and its answer be lost; the database runs at READ COMMITTED, so a statement
sees a snapshot, waits for row locks and goes on with rows that have changed;
services lock the same rows in different orders; the outbox is drained by two
replicas while an index is rebuilt; the browser's tabs share a cookie and
nothing else, and answers arrive out of order. `PROJECT.json` lists the hazards
with the line where each bites and the properties that watch it.

## 2. Modules

There is one module per component, with its constants as parameters, and the
properties of the component at its end.

| module | models | extended or instantiated by |
| --- | --- | --- |
| `Inventory` | `services/inventory`: stock, reservations, ledger, outbox rows, sweeper | `InventoryProofs`, `Checkout` and `InventoryTx` (INSTANCE) |
| `InventoryProofs` | theorems about `Inventory` | instantiated by `CheckoutProofs`, `OrdersProofs` |
| `InventoryTx` | the same operations as transactions over row locks | implements `Inventory` |
| `Checkout` | controller, idempotency store and saga of `services/place-order`; `charge` of `services/payment`; `cancelOrder` of `services/order-status`; `createShipment`, `clearCart`; composed with `Inventory` | `CheckoutProofs` |
| `CheckoutProofs` | theorems about `Checkout` | |
| `KeyedCharge` | what `services/payment` promises about an idempotency key | `Payment` (INSTANCE) |
| `Payment` | `services/payment`: charge and refund beside the provider's books | `MCOrders`; implements `KeyedCharge` |
| `RowLocks` | PostgreSQL's row locks and their modes (the lemmas on who excludes whom are in `StorePartsProofs`) | instantiated by `InventoryTx`, `Fulfilment`, `Sessions`, `Addresses`, `Accounts` |
| `Fulfilment` | order and shipments after the checkout: `services/order-status`, `services/shipping`, the refund | `MCShop` |
| `Sessions` | refresh tokens: the gateway's `authController.js`, password change and deletion of `services/account` | `MCWeb` |
| `Accounts` | sign-up, profile change, deletion: who has which email and username | `MCUsers` |
| `Addresses` | the address book of `services/account` | |
| `Cart` | `services/cart` and the cart page | |
| `Totals` | `shared/money.js` and its callers | |
| `Idempotency` | `shared/idempotency.js` and a handler around it | |
| `Relay` | the gateway's guards and proxy, `shared/serviceClient.js` | |
| `Shutdown` | the end of a process in `shared/server.js` | |
| `SearchIndex` | outbox, workers, index rebuild of `services/search` | |
| `SearchQuery` | filters, sorting and pages of a search, and the SQL fallback | |
| `ReviewRollup` | `services/product-review` and the trigger of the schema | |
| `RecommendationRun` | `services/recommendation-generation`, the shelves of `services/recommendation` | |
| `Migrations`, `Seeding` | `packages/database/migrate.js`, `seed.js` | |
| `BrowserSession` | `store/auth.tsx` and `lib/api.ts` in several tabs | |
| `QueryCache` | `hooks/queries.ts` with `store/auth.tsx` | |
| `WebCheckout` | `pages/Checkout.tsx` over the service's store and checks | |
| `MCInventory`, `MCCheckout` | instances of `Inventory` and of `Checkout` | |
| `MCOrders` | instances of `Payment` (two), `InventoryTx`, `Idempotency`, `Totals` | |
| `MCUsers` | of `Accounts`, `Addresses` (one instance, three parts), `Cart` (two) | |
| `MCShop` | of `Fulfilment`, and two each of `SearchIndex`, `SearchQuery`, `ReviewRollup`, `RecommendationRun` | |
| `MCWeb` | of `Sessions`, `Relay` (two), `BrowserSession`, `QueryCache` (two), `WebCheckout`, `Migrations` (two), `Seeding`, `Shutdown` | |
| `StorePartsProofs` | lemmas about `RowLocks`; theorems about `Addresses`, `Totals`, `ReviewRollup`, `RecommendationRun`, `SearchQuery`, `SearchIndex`, `Payment`, `Cart`, each instantiated once with constants of its own | instantiated by the last four |
| `WebPartsProofs` | theorems about `Relay`, `Shutdown`, `Migrations`, `QueryCache`, `BrowserSession`, `Seeding`, `WebCheckout`, in the same way | instantiated by `WebProofs` |
| `OrdersProofs` | extends `MCOrders`: theorems about `Payment`, `InventoryTx`, `Idempotency`, and the properties of the run | |
| `AccountsProofs` | extends `MCUsers`: theorems about `Accounts`, and the properties of the run | |
| `FulfilmentProofs` | extends `MCShop`: theorems about `Fulfilment`, and the properties of the run | |
| `WebProofs` | extends `MCWeb`: theorems about `Sessions`, and the properties of the run | |
| `MCLive` | a very small instance of each component but `Checkout`, with the fairness of those that must come to an end | |

Five of the MC modules hold several components side by side. The first is
extended, so that its constants get their values in the cfg and its properties
are checked as they are stated and proved; the others are instantiated with the
values written down, and share the variables `x1`, `x2`, ... with each other.
`part` is chosen in the initial state and says whose behaviour it is; the
variables that part has no use for stay at "idle". So the parts do not
interact, and the states of the run are those of its parts added up, as if each
had a run of its own; a property begins with the part it is about.
Where components do interact, one module has both: `Checkout` composes
the saga, payment, inventory, shipping, the cancellation and Redis; `Fulfilment`
three services; `Sessions` the gateway and the account service; `Cart` and
`WebCheckout` a page and its service; `Seeding` the job, the shop and the index.

### Inventory

`available`, `reserved`, `status`, `items`, `ledger` are the columns of the
tables; `ledger` is the sum of `delta` per operation and product. `enqueued` is
what the last transaction put into `catalog_outbox`. `overdue` stands for
`expires_at < NOW()`. `sweep[w]` is the list of ids that one execution of
`sweepExpiredReservations` has selected and not come to.

Each operation of `inventoryService.js` is one transaction that locks the rows
it reads and is retried on a deadlock, so it is one action: `Reserve`, `Commit`,
`Free` (`release`, with the reason "released" or "expired"), `AdjustStock`,
`Restock`. Their rollbacks and "already done" answers change nothing and are
stuttering steps. The sweeper is not a transaction: `SweepSelect` reads the
list, `SweepRelease` and `SweepSkip` go through it, and other actions come in
between. `Sweeps` are executions that may overlap: one per replica, a slow one
when the timer fires again, `POST /sweep`. `SweepCrash` loses the list.

Requests are functions from products to quantities: a request that names a
product twice, which fails on the primary key of the items table when it
reserves, is left out.

### Checkout

An attempt is one POST /orders. Orders, reservations and payments bear the name
of the attempt that creates them. The saga is a program counter `pc[a]` with
one action per Redis command, query or call; the service it calls is another
action that takes the request from `calls` at any later time, or never, and
puts its answer in `reply[a]` if the attempt still waits for it. `Succeeds` and
`Fails` are what the saga sees: it may give up at any moment, also with the
answer on the wire. The saga's steps, in order:

`Begin`, `Peek` (SET NX, GET) - `Gather` - `Reserved` - `InsertOrder` -
`Charged` - `Committed` - `Confirm` - `Settle` - `Complete`, and on failures
`MarkOrderFailed`, `Released`, `Abort`.

The charge handler runs beside it, one action per query or provider call:
`ChargeReceive`, `ChargeLookup`, `ChargeCheck`, `ChargeInsert`, `Authorize`,
`RecordCapture` or `RecordDecline`. `CancelOrder` is the transaction of
`cancelOrder` together with sending the restock call; `ServeRestock` is its
execution. The inventory's operations are those of module `Inventory`, on its
variables. A write whose COMMIT may succeed while its answer is lost
(`InsertOrder`, `Confirm`, `StoreResult`, SET NX) has a branch for it.

Abstractions: the cart is filled or empty and a key's cart does not change
otherwise; prices and totals are left out, a price conflict is one of the
reasons for which `Gather` ends an attempt; all requests under one key have the
same body; `order_events` rows are left out, no code reads them; the
cancellation window and the two roles are one nondeterministic cancellation;
the admin's status changes are in `Fulfilment`. There is no clock: the TTL of a
hold (900 s, at least 60 s) may pass at any moment, which the code does not
exclude, since nothing bounds how long a saga or a sweep is held up and a hold
whose commit failed waits as long as it takes.
The branches of `ChargeLookup` and `ChargeInsert` for a key that was used
before are part of the handler but are not reached by the saga alone: the
unique index on orders lets one attempt per key come to the charge.

### InventoryTx

`Inventory` takes each operation for one action. `InventoryTx` has the
statements: a transaction locks the reservation (`SelectReservation`), then the
rows of `inventory` one by one in the order of their ids (`Access`), keeps what
it has read in `view[t]`, and writes from that at COMMIT (`Reserve`, `Commit`,
`Release`, `Adjust`, `Restock`); it may fail and roll back before. `locks` is
the state of `RowLocks`. The committed columns are shown to go through a
behaviour of `Inventory` (`Serializable`), which is what the composition in
`Checkout` relies on. The restock updates row after row without reading first,
in the order of its sorted items (inventoryService.js:335). Products are the
numbers `Ids`, so that they have an order.

### Payment and KeyedCharge

`pc[r]` is where the handler of charge request `r` is: `Arrive`, `Lookup` (of
the key), `Check` (owner, status and amount), `Insert` (a pending row),
`Authorize` (the provider's call), `Settle` (the transaction that records the
outcome). A row of `payments` is named by the request that inserts it; `taken`
and `returned` are the provider's own books, so that "the row says" and "money
moved" can differ. `RefundBegin` locks the row, `ProviderRefund` calls the
provider with the lock held, `RefundCommit` records. Clients are arbitrary.
What the other services write to an order is `OtherService`: an administrator
moves it along `ALLOWED_TRANSITIONS`, to paid and refunded too, a cancellation
as well, the saga fails it or sets it to processing, carriers set it to shipped
and delivered. Faults: a process dies (`ChargeCrash`, `RefundCrash`), a
statement or a COMMIT fails, or succeeds unheard. `KeyedCharge` is the promise:
a key is attempted by one request, decided once, returned at most once;
`ImplementsKeyedCharge` is the refinement.

### Fulfilment

One order and the shipments of it. Every transaction is a program counter and
the set of its locks; a statement that needs a lock another transaction holds
waits, and a wait may end in an abort (`WaitFails`: deadlock detection or
`statement_timeout`). `CancelLabel` is the UPDATE of the shipments: the rows
that matched when it started, each locked and looked at again. The share lock
that a foreign key takes on the order (`CreateInsert`) is modelled, since it is
what makes a shipment's insert wait for a cancellation.

### Sessions, Accounts, Addresses

Transactions in the same style. `Sessions`: tokens are named by the request
that issues them; `root` is the session a token descends from, `successor` its
`replaced_by`; `SignInCheck` compares the password before the transaction;
`RevokeSelect` and `RevokeMark` are the UPDATE that revokes, with the snapshot
and the rows it still has to come to. Reuse that `RefreshSelect` notices is
acted on in a second transaction, between which the gateway may die.
`Accounts`: the look for a clash and the write are apart, and an entry of a
unique index that an open transaction has written is waited for (`Insert`).
`Addresses`: `draft` is what a transaction has written, `found` the rows its
UPDATE has matched; `IndexWaits` and `IndexRefuses` are the partial unique
index on the default. Expiry of tokens is left to the clock and may be taken as
a refused refresh; hashes and JWTs are not computed.

### Cart

`cart` is the value in Redis, and every request reads it, looks products up in
the catalogue and writes it back, in steps of their own. `shown` is the page's
copy: the answers put there in the order they arrive. The requests the page
sends are those its controls allow (`NotPending`). `Sell` changes the
catalogue. Prices are in `Totals`; the TTL of the value is left out.

### Totals

Pure operators on whole cents, `CalculateTax`, `CalculateShipping`,
`CalculateTotals`, and a small machine around them. `money.js` rounds the
product of two floats, which may be just below a half where the exact product
is one (50 * 0.29): `TiesDown` are the amounts and rates where it is. The
machine: a cart, a preview, changes of price and stock, and the order that is
placed if the expected total still holds. `OrderIsAsSeen` compares the totals
with the exact ones, with each other and with what the customer saw.

### Idempotency, Relay, Shutdown

`Idempotency`: `SetNX` and `Get` are two Redis commands, `Work` is the
handler's effect, `Complete` and `Abort` end the claim; `Expire` is the TTL of
300 s. Each of them may fail (`Fails`), a process may die, and `lost` remembers
that a claim was given up or lapsed. The work does nothing by itself to prevent
a second execution; `Checkout` has the unique index that does. `Relay`: the
guard of a route, an attempt, its timeout, the backoff and the retry;
`copies[r][n]` is what the service has of attempt `n`, which it may still carry
out when the client has given up. PUT is among the methods that are repeated,
as it is in `IDEMPOTENT_METHODS`. The rate limiter and the copying of headers
are left out. `Shutdown`: the signal, requests in flight, the hooks in order
(worker, then pool), the deadline.

### SearchIndex, SearchQuery

A document is the version of the row it was made from. `SelectPending` (FOR
UPDATE SKIP LOCKED), `LoadDocuments`, `Bulk` and `MarkProcessed` are the
worker; `Boot`, `Create`, `ReadPage`, `WritePage`, `SwapAlias`,
`DeletePrevious` the rebuild, with each of its failures; `AdminReindex` is the
rebuild through the alias. `SearchQuery` has the conditions that `query.js`
builds and those of `searchViaPostgres`, sorts, and takes pages one by one
while Elasticsearch goes down and comes back. Texts are abstracted to whether a
product is relevant; scores to an order; a legacy concrete index, facet counts
and suggestions are left out.

### ReviewRollup, RecommendationRun

`ReviewRollup`: a request locks its review, the trigger computes the aggregate
with the statement's snapshot (`Trigger`), waits for the product's row
(`LockProduct`) and commits; the outbox row is in the same transaction, or, in
moderation, in a statement afterwards (`Notify`). A product may be taken off
sale, and is not reviewed then. The trigger rounds a numeric average, the page
a float one (`Average`), which may miss a tie (`TiesDown`).
`RecommendationRun`: the flag, the row of the run and the two transactions,
each with a temporary table and DELETE/INSERT; `Throws` is a statement that
fails, inside of the try or before it; `Scores`, `AffinityNext` and `RecsNext`
are what the SQL computes; `ForMe` and `Related` are the cascades of the
shelves. The order of scores that are sums of roots is left open.

### Migrations, Seeding

`Migrations`: a runner reads the table once (`Start`), then goes through its
files: `Skip`, `Refuse` (a checksum that differs) or `Begin` and `Commit`.
Releases are the files of an image. `Seeding`: one transaction whose writes
others see at COMMIT, over a shop that reserves, sells, renames and drains.

### BrowserSession, QueryCache, WebCheckout

`BrowserSession`: a tab's `page`, access token and `refreshPromise`, the shared
cookie, and the gateway as `Sessions` shows it. A request carries the cookie of
the moment it is sent; its answer sets the cookie when it arrives.
`QueryCache`: the cache of one tab, whose data is in it (`owner`) and how old
it is (`version`), while queries and mutations are in flight over a sign-out.
`WebCheckout`: the page's state and key, requests whose answers get lost, the
claims and the checks of place-order reduced to one action each.


## 3. Runs

| run | module, cfg | properties | what it shows |
| --- | --- | --- | --- |
| inventory | `MCInventory`, `MCInventory.cfg` | `TypeOK`, `ReservedMatchesHeld`, `StockConserved`, `LedgerExplainsAvailable`, `ResolvedOnce`, `FacetChangeIsQueued` | No interleaving of reservations, commits, releases, corrections and two overlapping sweeps miscounts stock, resolves a reservation twice or leaves the search facet stale. |
| checkout_retry | `MCCheckout`, `MCCheckoutRetry.cfg` | `SameKeySameOrder`, `ConsumedIsPaid`, `SuccessIsPaid` | A double submit under one key, with stock for both, crashes, lost Redis entries, lost calls and timeouts. |
| checkout_cancel | `MCCheckout`, `MCCheckoutCancel.cfg` | `FulfilledIsNotReleased`, `FailedStaysFailed` | A checkout submitted twice, with two cancellations of every order at any moment, crashes, lost Redis entries, lost calls and timeouts. |
| checkout_contend | `MCCheckout`, `MCCheckoutContend.cfg` | `SoldWithinStock` | Two customers after the last unit, with a sweep that may expire either hold at any moment. |
| checkout_live | `MCCheckout`, `MCCheckoutLive.cfg` | `AttemptsEnd` | An attempt ends although no called service ever has to answer. |
| orders | `MCOrders`, `MCOrders.cfg` | `BooksAgree`, `TakenAndReturnedAsOwed`, `OneForAKey`, `OrderIsAsSeen`, `ImplementsKeyedCharge`, `Serializable` | Charges under one key and under several, refunds by two administrators, whatever else is written to the orders; stock operations under row locks; the idempotency store with work that fails, claims that lapse and processes that die; and the totals. |
| users | `MCUsers`, `MCUsers.cfg` | `IdentitiesAreOwned`, `BookIsLegal`, `CartKeepsItsLines` | A sign-up, two profile changes and a deletion race for the same names, and any of them may die; the address book with its one default, changed by several requests at once; the cart, whose requests read, change and write the whole of it. |
| shop | `MCShop`, `MCShop.cfg` | `IndexIsSound`, `SearchAnswers`, `RatingIsReflected`, `RunIsSettled`, `StaysAsItWas`, `CancelIsFinal` | A cancellation races two shipments, a carrier, an administrator and a refund for one order; the outbox and its worker with failing bulk requests, the rebuild of the index by two replicas, filters and pages with both search paths, reviews and their rating, the run of the recommendation generator. |
| web | `MCWeb`, `MCWeb.cfg` | `OneLivePerSession`, `RetriesAreSafe`, `NotThrownOut`, `ShowsOwnData`, `DatabaseIsWhole`, `DrainsFirst`, `RepeatedAsAsked`, `RevokedForGood` | Sign-in, two refreshes, both kinds of sign-out, password change and deletion race each other, and the gateway may die between noticing a reuse and acting on it; the gateway in front of a slow or failing service, the browser with its session, its query cache and its checkout page, concurrent and repeated migrations, repeated seeds, the shutdown of a process. |
| everything_ends | `MCLive`, `MCLive.cfg` | `WellTyped`, `HoldsEnd`, `ShopSettles` | Under fairness every component comes to rest, time and again: holds expire and are swept, transactions that wait for each other end, claims lapse, the index, the ratings and the recommendations catch up, jobs and shutdowns end. |
| late_capture (refuted) | `MCCheckout`, `MCCheckoutLateCapture.cfg` | `CaptureFindsStockHeld` | A charge that outlives the saga's 15 s captures money after the stock was released. |
| sign_out_all (refuted) | `Sessions`, `MCSignOutAll.cfg` | `SignOutAllIsComplete` | A refresh that commits while the sign-out everywhere waits for its token leaves a live successor. |

A property of the side-by-side runs puts together what the parts promise in the
module of their component; below each with its parts.

**inventory, checkout_...** Whatever the interleaving of checkouts,
compensations, sweeps from stale lists and manual corrections, the reserved
column is exactly the held units, and available + held + committed units are
exactly what was brought in; the ledger alone reproduces the available column;
a reservation has one final outcome; no transaction moves a product to or from
zero without queueing it for the search index. All successful answers to one
key name one order, also when Redis forgets the key between SET NX and GET or
while the saga runs; stock is consumed, success reported and a parcel labelled
only for captured payments; an order the saga gave up stays failed when the
charge it gave up on is captured later; the stock of a fulfilled order is never
released by the saga; simultaneous checkouts alone do not sell more than there
is, which needs a hold that expires before it is committed; an attempt ends
although no called service ever needs to answer (`AttemptsEnd`).

**orders**

* `BooksAgree` (`Payment`): what the provider took has a row, whatever dies in
  between; a row says captured or refunded only of money that moved, and failed
  only of money that did not; an order that waits for its payment has no
  captured one, so a charge that is checked after a capture is refused under
  any key; clients of one key hear of one outcome. That a paid order has a
  payment, or a refunded one a refund, is not claimed: an administrator sets
  either by hand (section 6). `ImplementsKeyedCharge`: under one key there is
  one payment, decided once, and its row refunded once.
* `TakenAndReturnedAsOwed`: requests with an outdated amount, or by another
  user, take nothing; two refunds at once give the money back once, since the
  row lock is held over the provider's call, unless the transaction of one that
  has called the provider fails: then the next one returns the money again
  (section 6). Transactions do fail in this part.
* `Serializable`: the statement-level transactions of `InventoryTx` change the
  committed columns as the operations of `Inventory` do, each at once.
* `OneForAKey` (`Idempotency`): of the requests of one key one works, and once,
  until a claim is given up or lapses; a process that dies lets no second one
  in before. Whoever is told of a result gets one of work that was done, for
  the request it made, at any time. Work and stores fail, claims lapse under
  their owners and processes die in this part. After a claim is lost the work
  may be done twice (section 6).
* `OrderIsAsSeen` (`Totals`): an order costs what was shown when it was sent,
  and cart, checkout and quote agree; the tax is the exact one to half a cent,
  wherever the float product puts a tie.

**users**

* `IdentitiesAreOwned` (`Accounts`): an email and a name have one owner in
  every race of sign-up, profile change and deletion; the deleted stay
  anonymous.
* `BookIsLegal` (`Addresses`): with addresses added and made the default by
  three requests at once there is one default; with deletions too, one request
  at a time, there is one, within the limit, and no request runs into the index
  (concurrent deletions leave a book without a default, section 6). The third
  part has every operation, two at a time.
* `CartKeepsItsLines` (`Cart`): a merge that is sent twice is merged once, over
  every cart and every guest's cart; changes that the page sends touch one
  line, for as long as one of them is under way at a time, which `NotPending`
  sees to.

**shop**

* `CancelIsFinal` (`Fulfilment`): a cancelled or refunded order is not revived
  by carriers or administrators; no label stays good although shipments are
  inserted at the same time (the foreign key's lock makes them wait); a parcel
  the carrier has is not taken for cancelled. Carriers report what happens to a
  parcel, "cancelled", and a label: one that a carrier has reported may stay.
* `IndexIsSound` (`SearchIndex`): with one worker a quiet index is the
  catalogue, through partial failures, failed bulk requests and restarts; while
  two replicas boot on an outdated index and an administrator rebuilds, the
  alias names a filled index.
* `SearchAnswers` (`SearchQuery`): the fallback finds what Elasticsearch finds;
  a facet without values is no facet; the pages show every match once while the
  search goes from one path to the other, for products that the sort order
  tells apart (the others: section 6).
* `RatingIsReflected`, `StaysAsItWas` (`ReviewRollup`): the rating is that of
  the published reviews, the page's average differs by a hundredth at a tie if
  at all, and search comes to have it, for one request after the other (two at
  once make it drift, section 6); two at once, and with processes that die, do
  not bring back a review that was taken down.
* `RunIsSettled`, `StaysAsItWas` (`RecommendationRun`): any two statements
  fail, or the process dies. The flag is given back unless the INSERT of the
  run's row was what failed, and the row of a run that is over is settled
  unless the process died or the UPDATE of the catch failed as well (section
  6); a shelf is filled whenever there is something to show; nobody sees a
  table emptied.

**web**

* `OneLivePerSession`, `RevokedForGood` (`Sessions`): one session has one live
  token under any number of simultaneous refreshes; a password change ends
  every session including those being refreshed, since the foreign key of the
  new token and the lock on the user exclude each other; what is revoked stays
  so, and a refresh issues nothing to an account that was deleted.
* `RetriesAreSafe` (`Relay`): a write that is not idempotent is carried out
  once, the caller is told what happened, and each route lets in whom it
  should.
* `NotThrownOut` (`BrowserSession`): requests that are refused together share
  one refresh, and none ends the session.
* `ShowsOwnData` (`QueryCache`): views are the user's own and, once they are
  not being fetched, show what was written meanwhile; with a second tab,
  nothing stays behind after a sign-out. This is of every view but the cart,
  which is written from the answers of its mutations (section 6).
* `RepeatedAsAsked`: a mounted checkout places one order, the one the page
  shows (`WebCheckout`); a second seed changes nothing in a shop that is quiet
  (`Seeding`). `DatabaseIsWhole`: three migration runners, releases in which a
  file is edited or added, failures, and a reset in between (`Migrations`,
  `emptied`); a seed is there as a whole or not at all.
* `DrainsFirst` (`Shutdown`): the pool goes last, and an orderly exit leaves no
  request without its answer.

**everything_ends** `ShopSettles` is of the form []<>Rest and <>[]Settled: time
and again no request, transaction, claim or process is under way, although they
lock the same rows in opposite orders; and for good, index, ratings,
recommendations, checkout page, schema and catalogue are as they should be.
`HoldsEnd`: an abandoned hold is given back although sweeps fail, and take one
id at a time. `WellTyped` is the type invariant of all components.

**late_capture, sign_out_all** end in a trace that contradicts what a comment
says; the findings of `PROJECT.json` quote it, and section 6 has it with the
other disagreements.

### Bounds

`inventory`: two reservations that compete for a product of one unit and one of
two, with a third product that has no row, give partial shortfalls, zero
crossings in both directions and skipped restocks; two sweeps with LIMIT 1 give
stale lists and a remainder. `checkout_...`: two attempts are enough for every
conflict, which are between two requests or between a request and a
cancellation or sweep. `Faults` chooses the faults; a process that dies is, for
safety, one that takes no more steps, so the runs without "crash" lose no
safety behaviour.

`orders`: a charge, its retry and a charge of the same order under a second
key; then a wrong amount and a wrong user under two keys; two refunds, in both;
every status an order has, set by any of the services that may. Five inventory
transactions over two products, since a circle of row locks needs two. Three
callers with two bodies, every fault of the store at any time. Two products, at
prices that put the tax on half a cent and the subtotal on the threshold; at
the rate of 19 % the float product has every such tie right, which it has not
at all rates (50 * 0.29); those are left to the theorem `OrderedAsSeen`.

`users`: a member, a sign-up, two changes and a deletion over two emails and
two names. Four requests to an address book, of which `MaxOpen` are open at a
time, and at most `MaxRows` rows. A cart of two products, with one change of
the catalogue; a page with two requests.

`shop`: a cancellation, an administrator's transition, two creations, a
carrier's report and a refund of one order, which starts as processing:
transactions of different orders share no row; the reports are "label_created",
"cancelled" and those that say where the parcel is. Two products, three
changes, two faults, fewer than `MAX_ATTEMPTS`, so that no row is given up; two
replicas and an administrator for the rebuild of one. Every catalogue of two
products against every combination of filters; up to four products in every
order for the pages, with two outages. Three users and three requests for the
reviews. Three products and three orders for the recommendations, with any two
failures of statements or of the process.

`web`: two refreshes, a sign-in, both kinds of sign-out, a password change and
a deletion, while the gateway may die. Three attempts of two requests, as in
the code, and two faults; every route, method and kind of caller with one. One
tab, two callers, no sign-in: the bound of 50 tokens is not reached, since the
page stays signed in with what it has. Two users, one view, two mutations at
once. Two mounts of the checkout page and two orders sent. Three runners of
migrations. Three runs of the seed over two products. Three requests to a
process that ends.

`everything_ends` has the smallest instances in which there is something to
wait for: a cycle of locks, a claim whose owner died, an outbox row that
failed, two jobs at once.

Deadlock is not checked where the finitely many requests, attempts or changes
of an instance run out; the cfg says so. Names that are treated alike are
symmetric; the liveness runs use no symmetry.

### Fairness

Stated in `Inventory`, `Checkout` (`FairSpec`) and `MCLive` (`MCFairSpec`) and
used by the liveness runs only. A step that `Fair` does not name, a customer's,
a carrier's, an outage's, need never come; in `Next` it is never excluded.

* `Inventory`: time passes (`Expire`), the timers of `startSweeper` keep firing
  and the loop goes on (`SweepSelect`, `SweepLoop`), and a release that is
  attempted again and again succeeds in the end (`SF` of `SweepRelease`): its
  failures are transient database errors that `sweepExpiredReservations`
  catches, and the id is selected again.
* `Checkout`: `WF` of the saga of an attempt that has begun, since a live
  process goes on and every wait of it is bounded by the client's timeout
  (serviceClient.js:73-80); nothing is assumed of the called services, the
  sweeper or the charge handler, and `Crash` is not excluded.
* `InventoryTx`, `Fulfilment`, `Sessions`, `Accounts`, `ReviewRollup`: a
  statement that can run is run, since the database serves its sessions. Where
  it cannot get its locks, `statement_timeout` and deadlock detection end the
  wait (`WaitFails`); `InventoryTx` assumes no such thing, and has no need of
  it, as it locks in the order of the ids, nor has `ReviewRollup`.
* `Payment`: a handler that has started is run to its end; no process dies.
* `Idempotency`: handlers go on, processes may die, and Redis expires the
  claim.
* `Relay`: the gateway's timers fire, the service need not answer. `Shutdown`:
  the process' own callbacks run, handlers and workers may hang.
* `SearchIndex`: a process that died is started again and its timer ticks.
  `RecommendationRun`: the interval fires again and again. `Migrations`,
  `Seeding`: a runner goes on, and the job controller restarts a job that
  failed.
* `BrowserSession`: a request is answered or fails, and the event loop handles
  it. `WebCheckout`: the page fetches and is answered.

## 4. Proofs

`InventoryProofs` proves, for all sets of products, reservations and sweeps,
all initial stocks and bounds, under the assumptions stated in `Inventory`
(`StockedAssumption`, `InitialStockAssumption`, `ReservationsAssumption`: the
reservations are finitely many, so that held units can be counted, and
`BoundsAssumption`):

| theorem | statement |
| --- | --- |
| `TypeCorrect` | `Spec => []TypeOK`, which includes that no column goes negative |
| `StockCorrect` | `Spec => [](ReservedMatchesHeld /\ StockConserved)` |
| `ReservedCorrect` | `Spec => []ReservedMatchesHeld` |
| `LedgerCorrect` | `Spec => []LedgerExplainsAvailable` |
| `OutcomeFinal` | `Spec => ResolvedOnce` |
| `FacetCorrect` | `Spec => FacetChangeIsQueued` |

`TypeOK` alone is inductive: the guards of `Reserve`, `AdjustStock` and the
CHECK in `Commit` keep the columns non-negative. `ReservedMatchesHeld` needs
nothing but the types; `StockConserved` is inductive together with it
(`StockInv == TypeOK /\ ReservedMatchesHeld /\ StockConserved`). The argument
counts: `Units(S, p)`, the pairs of a reservation in a status of `S` and a
number up to its quantity, is the disjoint union over the reservations of lines
of known cardinality, so a change of one reservation's status adds or removes
exactly its quantity (lemmas on `Line`, from the cardinality facts of
`FiniteSetTheorems`). `ReservedMatchesHeld` also shows that neither the CHECK
(reserved >= 0) nor the GREATEST of `release` ever takes effect.

`CheckoutProofs` proves, for all attempts, keys, carts, stocks, sweeps and
bounds and for any of the faults, under `StockAssumption`, `BoundsAssumption`,
`AttemptsAssumption` (finitely many attempts), `KeyAssumption`,
`CancelsAssumption` and `CartAssumption` of `Checkout`:

| theorem | statement |
| --- | --- |
| `CheckoutKeepsStock` | `Spec => [](Inventory!ReservedMatchesHeld /\ Inventory!StockConserved)` |
| `CheckoutTypeCorrect` | `Spec => []TypeOK` |
| `CheckoutSameOrder` | `Spec => []SameKeySameOrder` |
| `CheckoutFailedFinal` | `Spec => FailedStaysFailed` |
| `CheckoutKeepsFulfilledStock` | `Spec => []FulfilledIsNotReleased` |
| `CheckoutPaid` | `Spec => [](ConsumedIsPaid /\ SuccessIsPaid)` |
| `CheckoutSuccessPaid` | `Spec => []SuccessIsPaid` |
| `CheckoutSellsWithinStock` | `Spec => []SoldWithinStock` |

Along these arguments:

* the stock tables move only by operations of `Inventory`, by construction: a
  served call is one of them, and the saga and the charge leave them alone.
  `CheckoutUsesInventory` says so as a lemma, through which the theorems of
  `InventoryProofs`, with attempts as reservations, hold of the composed
  system;
* `OneOrder`: orders of one key are one order, by the unique index; the order
  an attempt answers with or stores in Redis exists and has its key. The claim
  in Redis does not occur in it, which is why losing it is harmless;
* `FailedInv`: an order is failed only while its saga is past the point where
  it could confirm it;
* `ReleasedInv`: until a saga has committed, its order is unconfirmed and
  unshipped and nothing was released; from then on a release, requested or
  done, means that the saga is on its way out. The invariant covers requests in
  flight, since a release may be executed long after it was sent;
* `ChargeInv`, `PaidInv`: the charge of an attempt runs once; the payment row
  follows its handler; whatever sends the saga past the charge, and every
  request it sends after it, comes with a captured payment;
* `HoldInv`: an order has a reservation, with the items of the cart. With
  `ReleasedInv` a confirmed order whose hold did not expire is held or
  committed, so its units are among those that `StockConserved` counts.

A saga step touches only its own attempt (`SagaIsOwn`), and the other steps
only remove requests, move hold statuses on request (`StatusSteps`) and leave
`pc` alone (`OthersOnOrders`), so each invariant is checked once per saga step,
for one attempt, and once for all the rest.

`OrdersProofs` proves of `Payment`, from the theorems of `StorePartsProofs`
about one instance of it, for all charges, refunds, keys, orders, users and
amounts, under the assumptions of `Payment` (a request has a key, an order, a
user and an amount, an order an owner and a total, and no request is called
"none"):

| theorem | statement |
| --- | --- |
| `PaymentTypeCorrect` | `Spec => []TypeOK` |
| `PaymentBooksAgree` | `Spec => []BooksAgree`, for any faults |
| `PaymentChargesAsOrdered` | `Spec => []ChargedAsOrdered`, for any faults |
| `PaymentRefundsOnce` | `Spec => []RefundedOnce`, for any faults |
| `PaymentImplementsKeyedCharge` | `Spec => ImplementsKeyedCharge`, that is `KeyedCharge!Spec`, for any faults |

* `BooksInv`, the inductive invariant, ties the place of each handler to its
  row and to what the provider did (`ChargeProgress`), has one row per key
  (`OneRowPerKey`, the unique index), lets a refund that has been to the
  provider hold its row (`RefundProgress`), keeps an order whose payment is
  captured out of "pending_payment" (`WaitingOrderIsUnpaid`: nobody writes that
  status, and a capture is recorded with it gone), and gives every answer a row
  (`AnswersHaveRows`). A decided row is never decided otherwise
  (`DecidedRowsStay`), so an answer given stays true.
* `OrderedRows`: the check of owner and amount is passed before a row exists;
  the order's owner and total do not change, so it does not matter that the
  order is read without a lock.
* `RefundAccount`: as long as no refund of a payment has failed, its money was
  given back at most once, and then the row says so or is held by the refund
  that will write it. After a failure the money may go back again (section 6),
  and `RefundedOnce` says no more.
* refinement: `MadeBy` and `OutcomeOfKey` read a key's payment off the table; a
  step changes those of one key (`OneKeyChanges`) and is then a step of
  `KeyedCharge`, or leaves what the rows show (`RowsShow`) and is a stutter.

The modules with row locks rest on five lemmas of `StorePartsProofs` about
`LocksExclude` of `RowLocks` (no two transactions hold locks on one row that
conflict): taking a lock that can be taken and releasing all keep it
(`LockKeepsExclusion`, `ReleaseKeepsExclusion`), two holders of one row are one
transaction (`HoldersExclude`), and what is held cannot be taken
(`HeldIsNotLockable`). Where they are used, `SameLocks` says that the
component's locks are these. Each component's invariant then says which lock a
transaction holds from which statement on, and what it has found under it; a
step of another transaction that could undo the finding would need a lock that
excludes.

`WebProofs`, about `Sessions`, for all requests of the six kinds and any
faults, under `NamesAssumption` (a request is of one kind; "user" and "none"
name none):

| theorem | statement |
| --- | --- |
| `SessionsCorrect` | `Spec => []SessionsInv`, the inductive invariant |
| `SessionsTypeCorrect` | `Spec => []TypeOK` |
| `SessionsOneLive` | `Spec => []OneLivePerSession` |
| `SessionsRevoked` | `Spec => RevokedForGood`, deletions included |

`RefreshHolds`: between finding its token good and COMMIT a refresh holds that
token, which stays live and without a successor, and the user is there.
`InsertHolds`: who inserts a token holds the user through the foreign key.
`RevokeHolds`: a password change or a deletion holds the user from its SELECT
on, so no token is inserted, and every live token is locked by its UPDATE or
still on its list; at COMMIT the list is empty. `OneLivePerSession` is
inductive with these: the new token of a session comes with the end of the old
one.

`FulfilmentProofs`, for all cancellations, transitions, creations, reports and
refunds of an order, under `NamesAssumption` (a request is of one kind) and
`StatusAssumption`:

| theorem | statement |
| --- | --- |
| `FulfilmentCorrect` | `Spec => []FulfilmentInv`, the inductive invariant |
| `FulfilmentTypeCorrect` | `Spec => []TypeOK` |
| `CancelledStaysCancelled` | `Spec => [][ClosedStaysClosed /\ CancelSparesParcels]_vars` |
| `FulfilmentCancelIsFinal` | `Spec => CancelIsFinal`, whatever carriers report |

`FulfilmentInv` says for each kind what it has read and still holds. That a
cancellation leaves no good label needs `LabelsReached` besides: every labelled
shipment is locked by its UPDATE, on the UPDATE's list, or was reported as it
is by its carrier. Creations cannot add one, since the foreign key waits for
the order; a carrier's report can: shipping/src/schemas.js:24-27 lets it carry
any status, "label_created" too, and a parcel that was on its way when the
UPDATE began, and is reported so before the cancellation commits, is left as it
is. Hence the exception in `NoLabelWhenCancelled`.

`AccountsProofs`, for all sign-ups, changes and deletions, crashes included,
under `AccountsAssumption` (a request is of one kind, values and accounts are
apart, and the first members do not share an email or a name, which the unique
indexes of the schema see to):

| theorem | statement |
| --- | --- |
| `AccountsTypeCorrect` | `Spec => []TypeOK` |
| `AccountsOwned` | `Spec => []IdentitiesAreOwned` |

`OneOwner` is not inductive: a COMMIT writes what was found free several steps
before. `AccountsInv` adds that a change or deletion holds a user who is there
(`UserHeld`), that no two open transactions are about one account (`Apart`),
and that an entry in a unique index is locked and nobody else's until COMMIT
(`EntriesHeld`, `EntriesApart`). The look for a clash (`Check`) does not occur
in the argument, as the comment in the code says: the indexes are what counts.
What a transaction overwrites need not be locked for safety either; the lock
makes others wait for a value that may become free.

`OrdersProofs`, about `Idempotency`, for all callers and bodies:

| theorem | statement |
| --- | --- |
| `IdempotencyOnce` | `Store!Spec => []Store!OneForAKey`, for any faults |

`EntryTells`: until a claim is lost, the entry says how far the one attempt is,
and everyone else stands aside, also when its process has died. `Worked`, which
holds after that too: a result is stored by who has worked, for the body of its
request, so that an answer is true even when it comes of an entry that was
written late. A lost claim lets a second attempt in, by design (section 6).

`OrdersProofs`, about `InventoryTx`, for all transactions and products, under
`InventoryTxAssumption`:

| theorem | statement |
| --- | --- |
| `InventoryTxTypeCorrect` | `Tx!Spec => []Tx!TypeOK` |
| `NoLostUpdate` | `Tx!Spec => [](RowsAreAsRead /\ ReservationHeld)` |
| `InventoryTxSerial` | `Tx!Spec => [][Tx!SerialStep]_(Tx!vars)` |
| `InventoryTxImplementsInventory` | `Tx!Spec` implies the specification of `Inventory` |
| `InventoryTxKeepsStock` | with it, the theorems of `InventoryProofs` hold of the statements |

* `TxInv` says that locks exclude, that a row read under its lock is still what
  was read (`RowsAreAsRead`), that the reservation about to be resolved is held
  (`ReservationHeld`), and that requests are such as `Inventory` takes. The
  stock invariant of `Inventory` is part of it: without it the CHECK at COMMIT
  could refuse what `Inventory` lets pass.
* refinement: all but a COMMIT are stutters, and a COMMIT is one operation of
  `Inventory` on the rows as they were read. `CorrectionsBounded` counts what
  manual corrections and restocks may have moved, since `Inventory` bounds
  them.

`WebPartsProofs` (the first seven components of the table) and
`StorePartsProofs` (the others) prove, of one instance of each with constants
of its own:

| theorem | of | statement, and under what |
| --- | --- | --- |
| `RelayTypeCorrect`, `RelayIsSafe` | `Relay` | types; `WriteOnce`, `AnswerIsTrue`, `WritesAreGuarded` |
| `ShutdownDrainsFirst` | `Shutdown` | types, `DrainedFirst`, `CleanExit` |
| `MigratedOnce` | `Migrations` | types, `RecordedOnce` |
| `MigratedInOrder` | `Migrations` | `InOrder`, `NoDivergence`, if the database is not reset |
| `NothingIsLeft` | `QueryCache` | types, `NothingLeft`, of the views that no answer of a mutation is written to: all but the cart |
| `ShowsOwn` | `QueryCache` | `NotAnothers`, `ReadsItsWrites`, of the same views, with one tab |
| `PagesTypeCorrect` | `BrowserSession` | types |
| `NotThrownOutOfOneTab` | `BrowserSession` | `NotThrownOut`, for one tab that neither signs in nor reloads |
| `SeededWhole`, `RerunIsSafe` | `Seeding` | types, `WholeCatalogue`, `NothingMissed`; `RerunChangesNothing` |
| `OneOrderEachMount`, `PlacedIsWhatWasChosen` | `WebCheckout` | types, `OneOrderPerMount`; `PlacedAsChosen` |
| `OneDefaultOnly` | `Addresses` | types, with one default at most |
| `AlwaysADefault` | `Addresses` | `HasDefault`, of behaviours in which addresses are only added or chosen |
| `OrderedAsSeen` | `Totals` | types, `ChargedAsSeen`, `ExactToTheCent`, wherever a tie falls; `OneTruth` if nothing is free |
| `HiddenStaysSo` | `ReviewRollup` | `HiddenStays` |
| `RunIsOver` | `RecommendationRun` | `SkipIsTrue`, `RowIsSettled`, whatever fails |
| `ShelvesPopulated` | `RecommendationRun` | `ShelfPopulated` |
| `RelatedNeverEmptied` | `RecommendationRun` | `NeverEmptied`, if no order is cancelled |
| `PagesShowAll` | `SearchQuery` | `EachOnOnePage`, where the sort order tells what is found apart |
| `FallbackFindsTheSame` | `SearchQuery` | `DegradesTheSame`, `NothingChosen`, if categories are stored folded |
| `ChargingTypeCorrect` to `ChargingImplementsKeyedCharge` | `Payment` | the theorems of the table above |
| `AlwaysServes` | `SearchIndex` | `ServesCatalogue`, for any replicas and administrators |
| `CartStaysLegal` | `Cart` | types, `MergeIsIdempotent` |
| `LinesStay` | `Cart` | `OneLineChanges`, for a page with one kind of change |

Three more carry over to every constant what the runs check of one request or
one worker at a time; the code serialises neither, so they say little of its
concurrency, which section 6 shows to break all three: `BookIsLegalAlone`
(`Addresses`, for behaviours with one request at a time, none of which unsets
the default), `RatingIsTheirs` (`ReviewRollup`, for `MaxOpen = 1` and no crash)
and `AlwaysCatchesUp` (`SearchIndex`, for one worker, with fewer faults than
attempts; two replicas are deployed). `OneDefaultOnly`, `HiddenStaysSo` and
`AlwaysServes` are what holds of the same components under any concurrency.

The hypotheses are the assumptions of the modules, finite sets where something
is counted, and the ones named in the table. For most of the latter section 6
names a behaviour of the code that breaks the property without it. The others
are: a reset takes away what a runner has recorded; a reload drops the answer
that carries the new token; the quote of a free order is the flat rate while
its total ships free; cancelled orders may rightly leave nothing related. The
arguments:

* `Relay` (`InOrder`, for each request): attempts are made in order, a copy on
  its way was admitted, an effect that took place is known to be possible from
  the copies sent, and the answer is one a copy was given. A write that is not
  idempotent has one copy, since only what was surely not sent is repeated.
* `Migrations`: nothing makes the runners take turns; a COMMIT that finds the
  version in `schema_migrations` fails, by its primary key, so each takes
  effect once. What a runner has gone past is recorded with its checksum
  (`PassedIsRecorded`), which a reset by somebody else takes away, hence
  `MigratedInOrder` without one.
* `QueryCache`: `NothingKept` says that whoever is signed out has an empty
  cache and no request whose answer could fill it; `OwnData` that what is
  shown, or served since the last write was answered, is the user's and no
  older.
* `BrowserSession`: `OneRefresh` says that the tab refreshes along one path
  only, that the token it has sent is the cookie and live, and that between
  refreshes the cookie is live, so the gateway never meets a token that was
  rotated.
* `Seeding`: units reserved and sold are bounded by the number of runs
  (`UnitsBounded`); in a quiet shop the rows are those of the seed.
* `WebCheckout` (`CheckoutInv`): a claim in the store belongs to a request
  under way or answered, an order to a captured payment, and an answer that
  tells of an order has one, with the body that was sent; what the page waits
  for is what it shows, since its fields are disabled.
* `Addresses`: `BookInv` has the row locks, the writes of a transaction under
  them (`WritesAreOwn`) and the new default that keeps others out
  (`NewDefault`, the partial unique index). `Adding` and `OneByOne` are what
  holds besides when addresses are only added, or when requests take turns. The
  two restrictions are action-free formulas about the behaviour (`[]OnlyAdds`,
  `[]OneAtATime`, `[]NoneUnset`), so they speak of the one specification.
* `Totals`: sums over a finite set are functions by well-founded recursion;
  that the sum of a function that agrees is the same, and that one line more
  adds its value, is shown by cardinality. Rounding is the half-cent interval,
  its ends included, which is all that either rounding of a tie needs.
* `ReviewRollup`: a transaction at work holds the row of its user
  (`RowIsHeld`), so a review that a moderator took down is not overwritten by
  an edit that read it before. For the rating, the aggregate that a trigger has
  read is the table as it is, because nobody else writes meanwhile; the page's
  average is the product's, or a hundredth below it at a tie.
* `RecommendationRun`: `FlagTells` and `RowTells` put flag and row beside the
  place of the run and what has failed: a flag without a run is left by a
  failed INSERT, after which nothing starts and no statement fails until the
  process is started again, and a running row without a run by a crash or a
  failed UPDATE of the catch. `AffinityIsKept`: what replaces a table is not
  empty if the table was not, since orders only add pairs.
* `SearchQuery`: `SeenInOrder`, what was shown is the first places of the
  sorted listing, whichever path answered; a count of the places gives each
  product one page.
* `SearchIndex`: `ServesInv`: one replica at most creates and fills the index,
  and what is not yet in it is on the builder's list, so the swap names a
  filled one. `CaughtInv`: for every document that is not as its product there
  is a row that will bring it (`Owed`), also when the batch at hand has read it
  too early (`Overtaken`), and a row has not been tried more often than there
  were faults (`AttemptsSpent`). With several workers an older document may be
  written last (section 6); no property covers it, since the code allows it.
* `Payment`: as above; `StorePartsProofs` has the proof, so that `OrdersProofs`
  can apply it to both instances of the run.
* `Cart`: `CartsTyped` bounds the lines; merging lets guest's lines in by their
  rank up to the limit, and a second merge finds all it let in before, and, by
  the count of lines, no room for others. `OneChange`: of the requests that
  change a line one is under way, and what it has read is what is stored. A
  page may have a change of each kind pending (section 6), hence one kind.

What the runs check of these components is then proved of `MCSpec` itself, the
specification of the run with its constants:

| module | theorems | properties of the run |
| --- | --- | --- |
| `OrdersProofs` | `StraysAreHarmless`, `TxIsSerializable`, `StoreIsOneForAKey`, `OrderStaysAsSeen` | `TakenAndReturnedAsOwed`, `Serializable`, `OneForAKey`, `OrderIsAsSeen` |
| `AccountsProofs` | `BookStaysLegal`, `CartKeepsLines` | `BookIsLegal`, `CartKeepsItsLines` |
| `FulfilmentProofs` | `IndexStaysSound`, `SearchAlwaysAnswers`, `RatingStaysReflected`, `RunStaysSettled`, `NothingComesBack` | `IndexIsSound`, `SearchAnswers`, `RatingIsReflected`, `RunIsSettled`, `StaysAsItWas` |
| `WebProofs` | `RelayedSafely`, `PageIsNotThrownOut`, `PageShowsOwnData`, `ServiceDrainsFirst`, `DatabaseStaysWhole`, `AllRepeatedAsAsked` | `RetriesAreSafe`, `NotThrownOut`, `ShowsOwnData`, `DrainsFirst`, `DatabaseIsWhole`, `RepeatedAsAsked` |

Each of these modules instantiates `StorePartsProofs`, and `WebProofs` also
`WebPartsProofs`, with the constants and variables of the parts (`Own`,
`Strays`, `Parts`, `First`, `Second`, ...), shows that a part of the run is an
instance of it and that its hypotheses hold of the constants of the part, and
splits `MCSpec` by `part`.

So every safety property of a passing run is proved but one. Left to TLC:

* `HoldsEnd`, `AttemptsEnd` and `ShopSettles`: liveness under fairness, out of
  the prover's reach;
* `WellTyped`, the type invariants of the components of `MCLive` together.
  Those of `Payment`, `InventoryTx`, `Idempotency`, `Totals`, `Sessions`,
  `Relay`, `Shutdown`, `Migrations`, `QueryCache`, `BrowserSession`,
  `WebCheckout`, `Seeding`, `Accounts`, `Addresses`, `Cart` and `Fulfilment`
  are theorems above; those of `SearchIndex`, `SearchQuery`, `ReviewRollup` and
  `RecommendationRun` are parts of the inductive invariants as far as these
  need them;
* the two refutations, which are counterexamples.

For each property of a run `PROJECT.json` has a mutant of the model, a bug such
as the code might have, that makes the run fail, which shows that the instances
reach the cases the properties are about.

## 5. Not modelled, and the plan

Next:

1. The replacement of a legacy concrete index by an alias in `SearchIndex`.
2. A property of several search workers: which documents may end up older than
   their product, and for how long.
3. Theorems that remain for `WellTyped` as a whole, and for `ReviewRollup` with
   several requests at a time: by how much a rating may drift.

Out of the provers' reach and left to TLC: liveness.

Not modelled, and why:

* rate limiting, logging, metrics, tracing and configuration: no other
  component's state depends on what they do;
* validation of request bodies: the actions take only requests that pass it;
* the signatures of JWTs and internal tokens, password hashes;
* listings, tracking, suggestions, facet counts, trending and recently viewed:
  single reads;
* the layout of the pages, their forms, toasts and formatting, and the state
  the search page keeps in its URL;
* manifests, images, nginx, monitoring and Terraform: configuration. What they
  say of replicas, restarts and jobs is in the modules that depend on it;
* the end-to-end, oversell, smoke and verification scripts: they drive the
  store from outside.

## 6. Where the code and what is said of it disagree

Met while modelling, each with the line of the code and the words of a comment,
a document or a message of the repository. The first two are runs with a
counterexample; the others follow from the lines named. The properties of the
passing runs are stated so that they do not promise what these take away.

* checkoutSaga.js:163: When the charge call times out the saga releases the
  hold, but the charge handler goes on and captures: a capture with the
  reservation released and the order failed. place-order/checkoutSaga.js:27-29
  says "money is only taken once stock is definitely held". (Run late_capture.)
* authController.js:318: The UPDATE sees the tokens that are committed when it
  starts. A refresh that has inserted the successor and not committed it makes
  the UPDATE wait for the old token, find it revoked and pass over it; the new
  token is not among those it looks at and stays live.
  api-gateway/src/controllers/authController.js:316 says "Revokes every session
  for the current user". (Run sign_out_all.)
* checkoutSaga.js:192: UPDATE orders SET status = 'processing' has no condition
  on the status: an order cancelled while its charge was in flight goes from
  cancelled to processing. order-status/src/controllers/orderController.js:7-10
  says encoding the transitions as data "means an illegal transition is
  impossible to express, not merely unlikely", and allows none from cancelled.
* orderController.js:222: For an order that is cancelled already the
  transaction returns early, "return existing; // idempotent"
  (order-status/src/controllers/orderController.js:175), but the restock call
  after the transaction is made all the same: every repetition of the request
  adds the order's units to available again.
* orderController.js:337: An order in pending_payment or paid can be cancelled
  before the saga has committed its reservation; its units are restocked, and
  come back a second time when the hold is released or expires.
  order-status/src/controllers/orderController.js:332 says "The reservation was
  committed at checkout, so releasing it is a no-op."
* checkoutSaga.js:92: After a decline the failed order keeps its
  idempotency_key, and the unique index
  database/migrations/001_init.sql:236-237 refuses the insert of the retry.
  place-order/src/controllers/checkoutController.js:49-50 says "Release the
  claim so the customer can genuinely retry after fixing whatever failed
  (declined card, changed address)", and the web page keeps the key across
  retries (web/src/pages/Checkout.tsx:49-54).
* checkoutSaga.js:176: A commit that fails leaves the reservation held while
  the order is confirmed; nothing reads the reconciliation_required event, the
  sweeper expires the hold and the unit is sold to the next customer.
  src/README.md:28 speaks of "a concurrency test proving the store never
  oversells stock under simultaneous checkouts".
* paymentController.js:54: A request whose key has a row is answered 200 with
  the payment, whatever its status is: the retry of a declined charge (402 the
  first time) gets a success status, and a caller such as the saga that goes by
  it takes it for paid. payment/src/controllers/paymentController.js:42 says
  "Replay: return the original outcome verbatim."
* paymentController.js:75: The status of the order is read without a lock and
  payments has no unique index on the order: two charges under different keys,
  both checked before either is recorded, both take the money.
  payment/src/controllers/paymentController.js:77 answers "This order is
  ${order.status} and cannot be paid again."
* paymentController.js:218: The provider refunds before the row says so and is
  given no idempotency key: when the process dies before COMMIT, or a statement
  after the call or the COMMIT fails, the row is still captured, and the retry
  refunds the money again. payment/src/controllers/paymentController.js:209
  says of a repeated refund "idempotent".
* orderController.js:245 of order-status: an administrator may set an order
  that waits for its payment to paid, and a paid, processing, shipped or
  delivered one to refunded (:12-22), and nothing but the order's row is looked
  at or written: an order is paid without a payment, or refunded while the
  money stays taken. payment/src/controllers/paymentController.js:77 goes by
  that status, so the first cannot be charged any more.
* shipmentController.js:52: The SELECT for a live shipment locks nothing and
  shipments has no unique index on the order: two createShipment calls both
  find none and both insert. shipping/src/controllers/shipmentController.js:47
  says "Idempotent: checkout retries must not create a second shipment."
* shipmentController.js:167: The shipment is updated whatever the order's
  status is, the order only if it is not cancelled or refunded, and a second
  report can take it back: it can end with a delivered parcel of an order that
  is not delivered. shipping/src/controllers/shipmentController.js:132-134 says
  "Advancing a shipment to `delivered` also moves the order, so the two views
  never contradict each other."
* shipmentController.js:167: updateShipmentStatus does not consult the
  transition table: it moves an order that is processing to delivered, or a
  delivered one back to shipped.
  order-status/src/controllers/orderController.js:7-10 says "an illegal
  transition is impossible to express, not merely unlikely".
* authController.js:230: `stored.replaced_by || stored.revoked_at` also holds
  for a token that was signed out or revoked everywhere: a device that still
  has it ends all sessions, new ones too, when its timer fires.
  api-gateway/src/controllers/authController.js:194-196 says "If a token that
  has *already* been rotated is presented, it was replayed" and only then is
  the family revoked.
* authController.js:177: The password is compared before the transaction that
  issues the session and not looked at again: a sign-in with the old password
  that was checked before the change commits after it, and its session
  survives. account/src/controllers/userController.js:101-102 says "Changing a
  password proves knowledge of the old one and revokes every other session."
* auth.tsx:100: refreshPromise is per page, and the refresh on mount goes past
  it: two tabs that load together present one cookie, the second answer finds
  the token rotated, and the gateway ends all sessions.
  web/src/store/auth.tsx:90-92 says of the mount refresh "This is what makes a
  page reload keep the user signed in".
* api.ts:114: signOut clears the token but not refreshPromise: a refresh the
  gateway served first is answered after it and sets accessToken again, with no
  user shown. web/src/store/auth.tsx:144 says "Even if the server call fails,
  the local session must end."
* indexer.js:66: SKIP LOCKED gives two replicas two rows of the same product,
  and the bulk operations carry no version: a replica that loaded the older row
  can write it last, both rows are marked processed and the index stays wrong.
  search/indexer.js:16-17 says "the write is durable first and the index
  catches up, so the worst case is staleness measured in seconds rather than
  silent divergence".
* elastic.js:149: While a replica fills the new index another one drains
  changes into the old one and marks them processed; a product whose page was
  read before is stale in the new index for good.
  search/src/lib/elastic.js:84-86 says "a mapping change costs staleness, not
  downtime".
* indexer.js:153: reindexAll through the alias overwrites what the worker
  drained after the page was read, and brings back what it deleted.
  search/indexer.js:16-17 says "the worst case is staleness measured in seconds
  rather than silent divergence".
* elastic.js:144: The deletion of the half-filled index swallows its own
  failure, and a process that dies deletes nothing: the index is there at the
  next boot, which leaves the rebuild to whoever created it.
  search/src/lib/elastic.js:142 says "reindex failed; discarding the partial
  index so the next boot retries".
* indexer.js:29: A row that was refused five times, in less than half a minute
  at the default interval, is never selected again, and nothing reports or
  repairs it. search/indexer.js:16-17 says "the worst case is staleness
  measured in seconds rather than silent divergence".
* cartService.js:260: A guest's item for which the cart has no line left is
  skipped without a word. cart/cartService.js:245-246 says "Called immediately
  after sign-in so nothing is lost at the auth boundary."
* queries.ts:182: updateItem.isPending disables the selects and
  removeItem.isPending the buttons: one of each can be pending, and the answer
  that arrives last is shown, not the one made last.
  web/src/hooks/queries.ts:170-171 says "The server returns the authoritative
  cart, so write it straight into the cache".
* cartService.js:202: The line is removed and the answer is an error, for which
  the page has only a message: its cart keeps the line until it is fetched
  again. web/src/hooks/queries.ts:170-171 says "The server returns the
  authoritative cart, so write it straight into the cache".
* Cart.tsx:37: The test for an empty cart looks at the items alone and comes
  before the warning: when all lines are unavailable nothing is reported.
  web/src/pages/Cart.tsx:58-59 says "Items dropped or clamped server-side are
  reported, never silently removed".
* addressController.js:117: updateAddress writes is_default false like any
  other field, also for the default, and promotes no other address.
  account/src/controllers/addressController.js:168-169 says "so the user always
  has a default to check out with".
* addressController.js:173: The address to promote is chosen by the statement's
  snapshot; an address that is being created is not in it, and one that is
  being deleted meanwhile is gone when the UPDATE has waited for it. Nothing is
  promoted, and other addresses are left.
  account/src/controllers/addressController.js:168-169 says "so the user always
  has a default to check out with".
* addressController.js:53: The addresses are counted without a lock: requests
  that count before the others' COMMIT all pass.
  account/src/controllers/addressController.js:61 says "You can save at most
  ${config.MAX_ADDRESSES_PER_USER} addresses."
* addressController.js:203: clearDefault clears the default that is committed
  when it starts. One that another request makes while it waits is not cleared,
  and the index refuses the swap.
  account/src/controllers/addressController.js:199-200 says "Clearing first
  keeps the swap legal."
* 001_init.sql:376: Under READ COMMITTED the trigger's aggregate is read with
  the statement's snapshot and written when the product's row is free, so of
  two reviews at the same time the later rating misses one.
  database/migrations/001_init.sql:369-370 says "so the rollup can never drift
  from the source rows".
* reviewController.js:279: moderateReview writes the status and the outbox row
  in two statements without a transaction; when the process dies in between,
  search keeps the old rating.
  product-review/src/controllers/reviewController.js:148-149 says "re-index so
  search reflects the new score".
* reviewController.js:257: Every call adds one to helpful_count and nothing
  records who voted. product-review/src/controllers/reviewController.js:254
  says "one vote per user, tracked in Postgres via upsert".
* generator.js:26: The flag is set before the INSERT of the run's row, which is
  outside of the try whose finally clears it; when it fails, every later run of
  the process is skipped. recommendation-generation/generator.js:24 answers "A
  generation run is already in progress."
* generator.js:50: When the database is why the run failed, the UPDATE of the
  catch fails as well, and the row stays "running", as it does when the process
  dies; nothing looks for such rows later.
* schemas.js:24 of shipping: a carrier's report may have any status, so that it
  takes a parcel that is on its way back to "label_created". One that does so
  while the order is cancelled leaves a cancelled order with a good label.
  order-status/src/controllers/orderController.js:211-215 cancels the labels
  with the order.
* cartService.js:115: getCart and the cart's totals use the default rate and
  thresholds, place-order its configuration (TAX_RATE and two more), so the
  cart may show another total than is charged. shared/src/money.js:40 says
  "Single source of truth for order totals; used by cart, checkout and orders."
* checkoutSaga.js:61: placeOrder computes shipping from the subtotal alone and
  passes shippingMethod on to the shipment.
  shipping/src/controllers/shipmentController.js:193 says "Free standard
  shipping above the threshold; premium tiers always cost."
* query.js:142: Sorting has no tie-breaker: products created by one transaction
  (seed.js inserts all of them in one, with created_at DEFAULT NOW()) come in
  any order on each page. search/src/lib/query.js:144-145 says "fall back to
  something stable rather than returning results in Lucene doc order".
* schemas.js:17: Only pageSize is capped. A page with from + size beyond the
  window makes Elasticsearch throw, and the search silently takes the SQL path.
  search/src/schemas.js:18-19 says "Capped so a client cannot request a
  10,000-document page and exhaust the Elasticsearch result window."
* searchController.js:173: searchViaPostgres compares p.category = ANY(...) as
  it is spelled. search/src/lib/query.js:90-93 says "a hand-edited
  ?category=apparel now matches too".
* idempotency.js:51: When SET NX fails and the claim is gone by the GET
  (released by abort, or expired), begin returns "new" without a claim: a third
  request claims the key and both work. shared/src/idempotency.js:33-35 says it
  "throws 409 when the same key is already being processed".
* checkoutController.js:39: The work and the stored result are two steps: when
  the process dies in between, the claim lapses after 300 seconds and a retry
  does the work again (for orders the unique index of the database refuses it
  then). shared/src/idempotency.js:7 says "A client retrying a checkout after a
  timeout must not be charged twice."
* idempotency.js:75: complete writes the key without looking whether the claim
  is still its own: after 300 seconds another request may have claimed it and
  completed with another body. shared/src/idempotency.js:9-10 says "a 409
  rather than a silent overwrite".
* queries.ts:173: onSuccess of a cart mutation writes keys.cart, which names no
  user, whenever the answer arrives. After a sign-out meanwhile it puts the
  cart of the last user back into the cleared cache, and the next one is shown
  it until the cart is fetched. web/src/store/auth.tsx:62 says "the next user
  must not see the last one's data."
* auth.tsx:76: The timer's refresh takes the access token of whoever the shared
  cookie is and drops the user of the answer: after a sign-in as somebody else
  in another tab, the page goes on under the old name with the new user's data.
  web/src/store/auth.tsx:62 says "the next user must not see the last one's
  data."
* Checkout.tsx:54: The key is state of the mounted page only, and the cart is
  emptied when the order has been placed: a customer who reloads while the
  request is on its way has a new key and the same cart, and both are charged.
  shared/src/idempotency.js:7 says "A client retrying a checkout after a
  timeout must not be charged twice."
* seed.js:302: `ON CONFLICT (product_id) DO UPDATE SET available =
  EXCLUDED.available` sets the shelf to the initial stock while units are
  reserved or sold, so a second run creates them anew. database/seed.js:3-5
  says "Safe to run repeatedly — everything upserts on a natural key."
* seed.js:249: The users upsert has ON CONFLICT (email) only. Once the demo
  customer has changed its email, the insert violates the unique username and
  every later run fails. database/seed.js:3-5 says "Safe to run repeatedly —
  everything upserts on a natural key."
