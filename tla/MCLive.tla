------------------------------- MODULE MCLive -------------------------------
(* What must happen in the end: every component on a very small instance,   *)
(* side by side, each with the fairness of its process, timer or database.  *)
(* Here they share no state, so of each behaviour one component is all.     *)
EXTENDS Inventory, TLC

CONSTANTS t1, t2, t3, t4, t5

VARIABLES
    part,   \* the component that runs
    \* the variables of the component, one after the other
    x1, x2, x3, x4, x5, x6, x7, x8, x9, x10, x11, x12, x13, x14

\* Requests, processes and timers go by these names.
Tasks == {t1, t2, t3, t4, t5}
MCInitialStock == [p \in Products |-> 2]

Releases == {<<"a">>, <<"a", "a">>, <<"b", "a">>}
Article == [id |-> 1, category |-> "Mugs", price |-> 10, rating |-> 1,
            ratingCount |-> 1, createdAt |-> 1, inStock |-> TRUE,
            isActive |-> TRUE, relevant |-> TRUE, ilike |-> TRUE]
Everything == [q |-> FALSE, category |-> [sent |-> FALSE, values |-> {}],
               min |-> 0, max |-> 0, inStock |-> FALSE, minRating |-> 0,
               sort |-> "newest", pageSize |-> 1]

Payment == INSTANCE Payment WITH
    Charges <- {t1, t2}, Refunds <- {t3}, Keys <- {"k1", "k2"},
    Orders <- {"o1"}, Users <- {"ann"},
    KeyOf <- [t \in {t1, t2} |-> IF t = t1 THEN "k1" ELSE "k2"],
    OrderOf <- [t \in {t1, t2} |-> "o1"], UserOf <- [t \in {t1, t2} |-> "ann"],
    AmountOf <- [t \in {t1, t2} |-> 1], OwnerOf <- [o \in {"o1"} |-> "ann"],
    TotalOf <- [o \in {"o1"} |-> 1], Faults <- {},
    pc <- x1, answer <- x2, payment <- x3, order <- x4, taken <- x5,
    returned <- x6, refund <- x7, target <- x8, holder <- x9

Fulfilment == INSTANCE Fulfilment WITH
    Cancels <- {t1}, Transitions <- {}, Creates <- {t2}, Updates <- {t3, t4},
    Refunds <- {}, Reported <- {"in_transit", "delivered", "returned"},
    Initially <- {"processing"},
    order <- x1, shipment <- x2, pc <- x3, locks <- x4, asked <- x5, todo <- x6

InventoryTx == INSTANCE InventoryTx WITH
    N <- 2, Reserves <- {t1}, Commits <- {t2}, Releases <- {t3}, Adjusts <- {},
    Restocks <- {t4}, InitialStock <- <<2, 1>>, MaxQty <- 1,
    MaxCorrection <- 1,
    available <- x1, reserved <- x2, status <- x3, items <- x4, ledger <- x5,
    enqueued <- x6, pc <- x7, target <- x8, qty <- x9, todo <- x10,
    view <- x11, locks <- x12

Idempotency == INSTANCE Idempotency WITH
    Callers <- {t1, t2, t3}, Bodies <- {"b1", "b2"}, Fails <- TRUE,
    Expires <- FALSE, Crashes <- TRUE,
    entry <- x1, at <- x2, body <- x3, answer <- x4, done <- x5, lost <- x6

Totals == INSTANCE Totals WITH
    Products <- {"hat"}, Prices <- {50, 2500}, MaxStock <- 2,
    ServiceLevels <- {"standard", "express"}, TAX_RATE <- 19,
    FREE_SHIPPING_THRESHOLD_CENTS <- 5000, FLAT_SHIPPING_CENTS <- 499,
    TiesDown <- {<<50, 29>>},
    lines <- x1, price <- x2, stock <- x3, seen <- x4, level <- x5, order <- x6

Sessions == INSTANCE Sessions WITH
    First <- t5, SignIns <- {}, Refreshes <- {t1, t2}, SignOuts <- {t3},
    SignOutAlls <- {}, Passwords <- {t4}, Deletes <- {}, Faults <- {},
    token <- x1, successor <- x2, root <- x3, password <- x4, active <- x5,
    pc <- x6, card <- x7, proof <- x8, locks <- x9, todo <- x10

Accounts == INSTANCE Accounts WITH
    Members <- {"ann"}, SignUps <- {t1}, Updates <- {t2}, Deletes <- {},
    Emails <- {"e1", "e2"}, Names <- {"n1", "n2"},
    First <- [a \in {"ann"} |-> [email |-> "e1", name |-> "n1"]],
    Faults <- TRUE,
    owns <- x1, pc <- x2, who <- x3, wants <- x4, locks <- x5

Book == INSTANCE Addresses WITH
    Txs <- {t1, t2, t3}, Operations <- {"create", "setDefault", "delete"},
    MAX_ADDRESSES_PER_USER <- 2, MaxOpen <- 2, MaxRows <- 2,
    row <- x1, draft <- x2, at <- x3, op <- x4, count <- x5, found <- x6,
    locks <- x7

Cart == INSTANCE Cart WITH
    Products <- {"hat"}, Requests <- {t1}, Kinds <- {"add", "set", "fetch"},
    MAX_QUANTITY_PER_ITEM <- 2, MAX_LINE_ITEMS <- 1, Stock <- 2, MaxSales <- 1,
    cart <- x1, available <- x2, active <- x3, sales <- x4, request <- x5,
    shown <- x6

SearchIndex == INSTANCE SearchIndex WITH
    Products <- {"hat", "mug"}, Replicas <- {t1}, Admins <- {}, Live <- "new",
    BatchSize <- 2, MAX_ATTEMPTS <- 3, MaxChanges <- 2, MaxFaults <- 1,
    row <- x1, outbox <- x2, indices <- x3, docs <- x4, alias <- x5,
    drain <- x6, build <- x7, faults <- x8

SearchQuery == INSTANCE SearchQuery WITH
    Catalogues <- {{Article}}, Requests <- {Everything}, Toggles <- 1,
    WINDOW <- 100,
    products <- x1, req <- x2, up <- x3, page <- x4, seen <- x5, answer <- x6,
    toggles <- x7

ReviewRollup == INSTANCE ReviewRollup WITH
    Users <- {"ann", "bob"}, Ratings <- {5}, Requests <- {t1, t2, t3},
    Operations <- {"create", "update", "delete", "moderate"},
    Buyers <- {"ann", "bob"}, REQUIRE_VERIFIED_PURCHASE <- TRUE,
    Crashes <- TRUE, MaxOpen <- 2, MaxVotes <- 0, TiesDown <- {},
    review <- x1, rating <- x2, rowOf <- x3, productOf <- x4, req <- x5,
    outbox <- x6, indexed <- x7

Recommendation == INSTANCE RecommendationRun WITH
    Users <- {"ann"}, Products <- {"hat", "mug"},
    Baskets <- {{"hat"}, {"hat", "mug"}}, MIN_CO_OCCURRENCES <- 1,
    AFFINITY_PER_PRODUCT <- 2, RECOMMENDATIONS_PER_USER <- 2, Limits <- {1},
    Fragile <- {"insertA", "insertR", "fail"}, Cancels <- FALSE,
    Stocks <- FALSE, Crashes <- TRUE, MaxOrders <- 2, MaxFails <- 1,
    orders <- x1, inStock <- x2, viewed <- x3, running <- x4, at <- x5,
    row <- x6, next <- x7, draft <- x8, affinity <- x9, recs <- x10,
    fails <- x11

Relay == INSTANCE Relay WITH
    Requests <- {t1}, Routes <- {"account", "catalog"},
    Callers <- {"customer", "admin"}, Attempts <- 3, MaxFaults <- 2,
    ask <- x1, at <- x2, attempt <- x3, copies <- x4, answer <- x5,
    effects <- x6, exists <- x7, faults <- x8

BrowserSession == INSTANCE BrowserSession WITH
    Tabs <- {t1}, Callers <- {"c1", "c2"}, MaxTokens <- 2,
    Signs <- {"signin", "signout"}, Faults <- {"lost", "reload"},
    cookie <- x1, live <- x2, issued <- x3, page <- x4, access <- x5,
    promise <- x6, flight <- x7

QueryCache == INSTANCE QueryCache WITH
    Users <- {"ann", "bob"}, Keys <- {"cart"}, WriteThrough <- {"cart"},
    Hooks <- {"h1"}, OtherTab <- FALSE, MaxVersion <- 1,
    user <- x1, token <- x2, cookie <- x3, server <- x4, cache <- x5,
    query <- x6, write <- x7, own <- x8

WebCheckout == INSTANCE WebCheckout WITH
    Addresses <- {"home"}, Prices <- {1, 2}, MaxMounts <- 1, MaxRequests <- 1,
    Losses <- TRUE,
    step <- x1, address <- x2, payment <- x3, mount <- x4, seen <- x5,
    preview <- x6, waiting <- x7, told <- x8, requests <- x9, store <- x10,
    used <- x11, orders <- x12, cart <- x13, price <- x14

Migrations == INSTANCE Migrations WITH
    Runners <- {t1, t2}, Checksums <- {"a", "b"}, MaxFailures <- 2,
    Resets <- FALSE,
    schema <- x1, recorded <- x2, run <- x3, failures <- x4

Seeding == INSTANCE Seeding WITH
    Products <- {t2, t3}, Stock <- 1, MaxRuns <- 2, MaxFailures <- 1,
    Renames <- FALSE,
    account <- x1, addresses <- x2, hasDefault <- x3, listed <- x4,
    available <- x5, reserved <- x6, sold <- x7, reviews <- x8, outbox <- x9,
    indexed <- x10, job <- x11, runs <- x12, failures <- x13, quiet <- x14

Shutdown == INSTANCE Shutdown WITH
    Requests <- {t1, t2},
    server <- x1, request <- x2, timer <- x3, worker <- x4, pool <- x5,
    hook <- x6, deadline <- x7, exit <- x8

ASSUME Fulfilment!StatusAssumption
ASSUME Fulfilment!NamesAssumption
ASSUME InventoryTx!InventoryTxAssumption
ASSUME Idempotency!IdempotencyAssumption
ASSUME Totals!TotalsAssumption
ASSUME Accounts!AccountsAssumption
ASSUME Book!BookAssumption
ASSUME Cart!CartAssumption
ASSUME SearchIndex!IndexAssumption
ASSUME SearchQuery!SearchAssumption
ASSUME ReviewRollup!ReviewAssumption
ASSUME Recommendation!RunAssumption
ASSUME Relay!RelayAssumption
ASSUME BrowserSession!BoundAssumption
ASSUME QueryCache!QueryCacheAssumption
ASSUME WebCheckout!WebCheckoutAssumption
ASSUME Migrations!MigrationsAssumption
ASSUME Seeding!SeedingAssumption

\* What a component has no use for.
Idle14 == x14 = "idle"
Idle13 == x13 = "idle" /\ Idle14
Idle12 == x12 = "idle" /\ Idle13
Idle11 == x11 = "idle" /\ Idle12
Idle10 == x10 = "idle" /\ Idle11
Idle9 == x9 = "idle" /\ Idle10
Idle8 == x8 = "idle" /\ Idle9
Idle7 == x7 = "idle" /\ Idle8
Idle6 == x6 = "idle" /\ Idle7
Idle5 == x5 = "idle" /\ Idle6
Idle4 == x4 = "idle" /\ Idle5
Idle3 == x3 = "idle" /\ Idle4
Idle2 == x2 = "idle" /\ Idle3
Idle1 == x1 = "idle" /\ Idle2
Still14 == UNCHANGED x14
Still13 == UNCHANGED x13 /\ Still14
Still12 == UNCHANGED x12 /\ Still13
Still11 == UNCHANGED x11 /\ Still12
Still10 == UNCHANGED x10 /\ Still11
Still9 == UNCHANGED x9 /\ Still10
Still8 == UNCHANGED x8 /\ Still9
Still7 == UNCHANGED x7 /\ Still8
Still6 == UNCHANGED x6 /\ Still7
Still5 == UNCHANGED x5 /\ Still6
Still4 == UNCHANGED x4 /\ Still5
Still3 == UNCHANGED x3 /\ Still4
Still2 == UNCHANGED x2 /\ Still3
Still1 == UNCHANGED x1 /\ Still2

\* Those of Inventory are its own.
MCInit ==
    \/ part = "inventory" /\ Init /\ Idle1
    \/ part = "payment" /\ Payment!Init /\ Idle10 /\ Init
    \/ part = "fulfilment" /\ Fulfilment!Init /\ Idle7 /\ Init
    \/ part = "inventoryTx" /\ InventoryTx!Init /\ Idle13 /\ Init
    \/ part = "idempotency" /\ Idempotency!Init /\ Idle7 /\ Init
    \/ part = "totals" /\ Totals!Init /\ Idle7 /\ Init
    \/ part = "sessions" /\ Sessions!Init /\ Idle11 /\ Init
    \/ part = "accounts" /\ Accounts!Init /\ Idle6 /\ Init
    \/ part = "book" /\ Book!Init /\ Idle8 /\ Init
    \/ part = "cart" /\ Cart!Init /\ Idle7 /\ Init
    \/ part = "searchIndex" /\ SearchIndex!Init /\ Idle9 /\ Init
    \/ part = "searchQuery" /\ SearchQuery!Init /\ Idle8 /\ Init
    \/ part = "reviewRollup" /\ ReviewRollup!Init /\ Idle8 /\ Init
    \/ part = "recommendation" /\ Recommendation!Init /\ Idle12 /\ Init
    \/ part = "relay" /\ Relay!Init /\ Idle9 /\ Init
    \/ part = "browserSession" /\ BrowserSession!Init /\ Idle8 /\ Init
    \/ part = "queryCache" /\ QueryCache!Init /\ Idle9 /\ Init
    \/ part = "webCheckout" /\ WebCheckout!Init /\ Init
    \/ part = "migrations" /\ Migrations!Init /\ Idle5 /\ Init
    \/ part = "seeding" /\ Seeding!Init /\ Init
    \/ part = "shutdown" /\ Shutdown!Init /\ Idle9 /\ Init

Unused ==
    /\ UNCHANGED part
    /\ IF part = "inventory" THEN Still1 ELSE UNCHANGED vars
    /\ part = "migrations" => Still5
    /\ part = "accounts" => Still6
    /\ part \in {"idempotency", "fulfilment", "totals", "cart"} => Still7
    /\ part \in {"book", "searchQuery", "reviewRollup", "browserSession"}
           => Still8
    /\ part \in {"searchIndex", "relay", "queryCache", "shutdown"} => Still9
    /\ part = "payment" => Still10
    /\ part = "sessions" => Still11
    /\ part = "recommendation" => Still12
    /\ part = "inventoryTx" => Still13

MCNext ==
    /\ Unused
    /\ \/ part = "inventory" /\ Next
       \/ part = "payment" /\ Payment!Next
       \/ part = "fulfilment" /\ Fulfilment!Next
       \/ part = "inventoryTx" /\ InventoryTx!Next
       \/ part = "idempotency" /\ Idempotency!Next
       \/ part = "totals" /\ Totals!Next
       \/ part = "sessions" /\ Sessions!Next
       \/ part = "accounts" /\ Accounts!Next
       \/ part = "book" /\ Book!Next
       \/ part = "cart" /\ Cart!Next
       \/ part = "searchIndex" /\ SearchIndex!Next
       \/ part = "searchQuery" /\ SearchQuery!Next
       \/ part = "reviewRollup" /\ ReviewRollup!Next
       \/ part = "recommendation" /\ Recommendation!Next
       \/ part = "relay" /\ Relay!Next
       \/ part = "browserSession" /\ BrowserSession!Next
       \/ part = "queryCache" /\ QueryCache!Next
       \/ part = "webCheckout" /\ WebCheckout!Next
       \/ part = "migrations" /\ Migrations!Next
       \/ part = "seeding" /\ Seeding!Next
       \/ part = "shutdown" /\ Shutdown!Next

state == <<part, vars,
          x1, x2, x3, x4, x5, x6, x7, x8, x9, x10, x11, x12, x13, x14>>
MCSpec == MCInit /\ [][MCNext]_state

\* Timers fire and the sweep of Inventory goes on; handlers and transactions
\* that have begun are carried on with, statements that cannot get a lock time
\* out; workers and jobs are started again; calls are answered or fail.
Fair(t) ==
    \/ /\ part = "inventory"
       /\ \/ t \in Reservations /\ Expire(t)
          \/ t \in Sweeps /\ SweepSelect(t)
          \/ t = t4 /\ \E w \in Sweeps : SweepLoop(w)
    \/ part = "payment" /\ Payment!Task(t)
    \/ /\ part = "fulfilment" /\ t \in Fulfilment!Txs
       /\ Fulfilment!Step(t) \/ Fulfilment!WaitFails(t)
    \/ part = "inventoryTx" /\ t \in InventoryTx!Txs /\ InventoryTx!Step(t)
    \/ /\ part = "idempotency"
       /\ \/ t \in {t1, t2, t3} /\ Idempotency!Step(t)
          \/ t = t4 /\ Idempotency!Expire
    \/ /\ part = "sessions" /\ t \in Sessions!Txs
       /\ Sessions!Step(t) \/ Sessions!WaitFails(t)
    \/ part = "accounts" /\ t \in Accounts!Txs /\ Accounts!Step(t)
    \/ /\ part = "searchIndex"
       /\ \/ t = t1 /\ SearchIndex!Drain(t1)
          \/ t = t2 /\ SearchIndex!Ensure(t1)
    \/ /\ part = "reviewRollup"
       /\ \/ t \in {t1, t2, t3} /\ ReviewRollup!Step(t)
          \/ t = t4 /\ ReviewRollup!Drain
    \/ /\ part = "recommendation"
       /\ \/ t = t1 /\ Recommendation!Start
          \/ t = t2 /\ Recommendation!Run
    \/ part = "relay" /\ t = t1 /\ Relay!Gateway(t)
    \/ /\ part = "browserSession"
       /\ \/ t = t1 /\ BrowserSession!Answer(t1)
          \/ t = t2 /\ BrowserSession!Gateway(t1)
          \/ t = t3 /\ \E k \in BrowserSession!Kinds :
                           BrowserSession!Lose(t1, k)
    \/ /\ part = "webCheckout"
       /\ \/ t = t1 /\ WebCheckout!Load
          \/ t = t2 /\ WebCheckout!Serve
          \/ t = t3 /\ WebCheckout!Receive
    \/ part = "migrations" /\ t \in {t1, t2} /\ Migrations!Step(t)
    \/ /\ part = "seeding"
       /\ \/ t = t1 /\ Seeding!Job
          \/ t \in {t2, t3} /\ Seeding!Drain(t)
    \/ part = "shutdown" /\ t = t1 /\ Shutdown!Process

\* The transaction of a sweep may fail, but not for ever.
MCFairSpec ==
    /\ MCSpec
    /\ \A t \in Tasks : WF_state(Fair(t) /\ Unused)
    /\ \A w \in Sweeps, r \in Reservations :
           SF_state(part = "inventory" /\ SweepRelease(w, r) /\ Unused)
-----------------------------------------------------------------------------
(* Properties *)

\* Every variable keeps its type, and the processes the rows they have locked.
WellTyped ==
    /\ part = "inventory" => TypeOK
    /\ part = "payment" => Payment!TypeOK
    /\ part = "fulfilment" => Fulfilment!TypeOK
    /\ part = "inventoryTx" => InventoryTx!TypeOK
    /\ part = "idempotency" => Idempotency!TypeOK
    /\ part = "totals" => Totals!TypeOK
    /\ part = "sessions" => Sessions!TypeOK
    /\ part = "accounts" => Accounts!TypeOK
    /\ part = "book" => Book!TypeOK
    /\ part = "cart" => Cart!TypeOK
    /\ part = "searchIndex" => SearchIndex!TypeOK
    /\ part = "searchQuery" => SearchQuery!TypeOK
    /\ part = "reviewRollup" => ReviewRollup!TypeOK
    /\ part = "recommendation" => Recommendation!TypeOK
    /\ part = "relay" => Relay!TypeOK
    /\ part = "browserSession" => BrowserSession!TypeOK
    /\ part = "queryCache" => QueryCache!TypeOK
    /\ part = "webCheckout" => WebCheckout!TypeOK
    /\ part = "migrations" => Migrations!TypeOK
    /\ part = "seeding" => Seeding!TypeOK
    /\ part = "shutdown" => Shutdown!TypeOK

\* Nobody waits for ever: time and again every request, transaction, claim and
\* process that has been started is through.
Rest ==
    /\ part = "payment" => Payment!Decided
    /\ part = "fulfilment" => Fulfilment!AtRest
    /\ part = "inventoryTx" => InventoryTx!AtRest
    /\ part = "idempotency" => Idempotency!Unclaimed
    /\ part = "sessions" => Sessions!AtRest
    /\ part = "accounts" => Accounts!AtRest
    /\ part = "relay" => Relay!AtRest
    /\ part = "browserSession" => BrowserSession!AtRest
    /\ part = "shutdown" => Shutdown!AtRest

\* What was changed is seen everywhere in the end: in the index, the ratings,
\* the recommendations, on the page and in the database of a new release.
Settled ==
    /\ part = "searchIndex" => SearchIndex!Matches
    /\ part = "reviewRollup" => ReviewRollup!Settled
    /\ part = "recommendation" => Recommendation!Settled
    /\ part = "webCheckout" => WebCheckout!Settled
    /\ part = "migrations" => Migrations!Settled
    /\ part = "seeding" => Seeding!Settled

ShopSettles == []<>Rest /\ <>[]Settled
=============================================================================
