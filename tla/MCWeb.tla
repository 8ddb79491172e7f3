------------------------------- MODULE MCWeb --------------------------------
(* The browser, the gateway with its sessions in front of the services, and *)
(* the jobs and the shutdown of a release: Sessions, Relay, BrowserSession, *)
(* QueryCache, WebCheckout, Migrations, Seeding and Shutdown on small       *)
(* instances, side by side.  Here they share no state, so of each behaviour *)
(* one component is all.                                                    *)
EXTENDS Sessions, TLC

CONSTANTS v1, v2, q1, q2, q3

VARIABLES
    part,   \* the component that runs
    \* the variables of the component, one after the other
    x1, x2, x3, x4, x5, x6, x7, x8, x9, x10, x11, x12, x13, x14, x15

\* Two of a kind, which no component tells apart: requests, addresses,
\* products, hooks, refreshes.
Pair == {v1, v2}
Symmetry == Permutations(Pair)

Relay == INSTANCE Relay WITH
    Requests <- Pair, Routes <- {"account"}, Callers <- {"customer"},
    Attempts <- 3, MaxFaults <- 2,
    ask <- x1, at <- x2, attempt <- x3, copies <- x4, answer <- x5,
    effects <- x6, exists <- x7, faults <- x8

Routing == INSTANCE Relay WITH
    Requests <- {q1}, Routes <- Relay!AllRoutes,
    Callers <- {"anonymous", "customer", "admin"}, Attempts <- 3,
    MaxFaults <- 1,
    ask <- x1, at <- x2, attempt <- x3, copies <- x4, answer <- x5,
    effects <- x6, exists <- x7, faults <- x8

BrowserSession == INSTANCE BrowserSession WITH
    Tabs <- {"t1"}, Callers <- Pair, MaxTokens <- 50, Signs <- {},
    Faults <- {},
    cookie <- x1, live <- x2, issued <- x3, page <- x4, access <- x5,
    promise <- x6, flight <- x7

QueryCache == INSTANCE QueryCache WITH
    Users <- {"ann", "bob"}, Keys <- {"orders"}, WriteThrough <- {},
    Hooks <- Pair, OtherTab <- FALSE, MaxVersion <- 2,
    user <- x1, token <- x2, cookie <- x3, server <- x4, cache <- x5,
    query <- x6, write <- x7, own <- x8

OtherTab == INSTANCE QueryCache WITH
    Users <- {"ann", "bob"}, Keys <- {"orders"}, WriteThrough <- {},
    Hooks <- {q1}, OtherTab <- TRUE, MaxVersion <- 2,
    user <- x1, token <- x2, cookie <- x3, server <- x4, cache <- x5,
    query <- x6, write <- x7, own <- x8

WebCheckout == INSTANCE WebCheckout WITH
    Addresses <- Pair, Prices <- {1, 2}, MaxMounts <- 2, MaxRequests <- 2,
    Losses <- TRUE,
    step <- x1, address <- x2, payment <- x3, mount <- x4, seen <- x5,
    preview <- x6, waiting <- x7, told <- x8, requests <- x9, store <- x10,
    used <- x11, orders <- x12, cart <- x13, price <- x14

Migrations == INSTANCE Migrations WITH
    Runners <- {q1, q2, q3}, Checksums <- {"a", "b"},
    Releases <- {<<"a">>, <<"a", "a">>, <<"b", "a">>}, MaxFailures <- 1,
    Resets <- FALSE,
    schema <- x1, recorded <- x2, run <- x3, failures <- x4

Emptied == INSTANCE Migrations WITH
    Runners <- {q1, q2}, Checksums <- {"a", "b"},
    Releases <- {<<"a">>, <<"a", "a">>, <<"b", "a">>}, MaxFailures <- 1,
    Resets <- TRUE,
    schema <- x1, recorded <- x2, run <- x3, failures <- x4

Seeding == INSTANCE Seeding WITH
    Products <- Pair, Stock <- 2, MaxRuns <- 3, MaxFailures <- 1,
    Renames <- TRUE,
    account <- x1, addresses <- x2, hasDefault <- x3, listed <- x4,
    available <- x5, reserved <- x6, sold <- x7, reviews <- x8, outbox <- x9,
    indexed <- x10, job <- x11, runs <- x12, failures <- x13, quiet <- x14

Shutdown == INSTANCE Shutdown WITH
    Requests <- {q1, q2, q3},
    server <- x1, request <- x2, timer <- x3, worker <- x4, pool <- x5,
    hook <- x6, deadline <- x7, exit <- x8

ASSUME NamesAssumption
ASSUME RelayHolds == Relay!RelayAssumption
ASSUME RoutingHolds == Routing!RelayAssumption
ASSUME BrowserSessionHolds == BrowserSession!BoundAssumption
ASSUME QueryCacheHolds == QueryCache!QueryCacheAssumption
ASSUME OtherTabHolds == OtherTab!QueryCacheAssumption
ASSUME WebCheckoutHolds == WebCheckout!WebCheckoutAssumption
ASSUME MigrationsHold == Migrations!MigrationsAssumption
ASSUME EmptiedHolds == Emptied!MigrationsAssumption
ASSUME SeedingHolds == Seeding!SeedingAssumption

\* What a component has no use for.
Idle15 == x15 = "idle"
Idle14 == x14 = "idle" /\ Idle15
Idle13 == x13 = "idle" /\ Idle14
Idle12 == x12 = "idle" /\ Idle13
Idle11 == x11 = "idle" /\ Idle12
Idle10 == x10 = "idle" /\ Idle11
Idle9 == x9 = "idle" /\ Idle10
Idle8 == x8 = "idle" /\ Idle9
Idle7 == x7 = "idle" /\ Idle8
Idle6 == x6 = "idle" /\ Idle7
Idle5 == x5 = "idle" /\ Idle6
Idle4 == x4 = "idle" /\ Idle5
Idle3 == x3 = "idle" /\ Idle4
Idle2 == x2 = "idle" /\ Idle3
Idle1 == x1 = "idle" /\ Idle2
Still15 == UNCHANGED x15
Still14 == UNCHANGED x14 /\ Still15
Still13 == UNCHANGED x13 /\ Still14
Still12 == UNCHANGED x12 /\ Still13
Still11 == UNCHANGED x11 /\ Still12
Still10 == UNCHANGED x10 /\ Still11
Still9 == UNCHANGED x9 /\ Still10
Still8 == UNCHANGED x8 /\ Still9
Still7 == UNCHANGED x7 /\ Still8
Still6 == UNCHANGED x6 /\ Still7
Still5 == UNCHANGED x5 /\ Still6
Still4 == UNCHANGED x4 /\ Still5
Still3 == UNCHANGED x3 /\ Still4
Still2 == UNCHANGED x2 /\ Still3
Still1 == UNCHANGED x1 /\ Still2

\* Those of Sessions are its own.
MCInit ==
    \/ part = "sessions" /\ Init /\ Idle1
    \/ part = "relay" /\ Relay!Init /\ Idle9 /\ Init
    \/ part = "routing" /\ Routing!Init /\ Idle9 /\ Init
    \/ part = "browserSession" /\ BrowserSession!Init /\ Idle8 /\ Init
    \/ part = "queryCache" /\ QueryCache!Init /\ Idle9 /\ Init
    \/ part = "otherTab" /\ OtherTab!Init /\ Idle9 /\ Init
    \/ part = "webCheckout" /\ WebCheckout!Init /\ Idle15 /\ Init
    \/ part = "migrations" /\ Migrations!Init /\ Idle5 /\ Init
    \/ part = "emptied" /\ Emptied!Init /\ Idle5 /\ Init
    \/ part = "seeding" /\ Seeding!Init /\ Idle15 /\ Init
    \/ part = "shutdown" /\ Shutdown!Init /\ Idle9 /\ Init

Unused ==
    /\ UNCHANGED part
    /\ IF part = "sessions" THEN Still1 ELSE UNCHANGED vars
    /\ part \in {"migrations", "emptied"} => Still5
    /\ part = "browserSession" => Still8
    /\ part \in {"relay", "routing", "queryCache", "otherTab", "shutdown"} =>
           Still9
    /\ part \in {"webCheckout", "seeding"} => Still15

MCNext ==
    /\ Unused
    /\ \/ part = "sessions" /\ Next
       \/ part = "relay" /\ Relay!Next
       \/ part = "routing" /\ Routing!Next
       \/ part = "browserSession" /\ BrowserSession!Next
       \/ part = "queryCache" /\ QueryCache!Next
       \/ part = "otherTab" /\ OtherTab!Next
       \/ part = "webCheckout" /\ WebCheckout!Next
       \/ part = "migrations" /\ Migrations!Next
       \/ part = "emptied" /\ Emptied!Next
       \/ part = "seeding" /\ Seeding!Next
       \/ part = "shutdown" /\ Shutdown!Next

state == <<part, vars,
          x1, x2, x3, x4, x5, x6, x7, x8, x9, x10, x11, x12, x13, x14, x15>>
MCSpec == MCInit /\ [][MCNext]_state
-----------------------------------------------------------------------------
(* Properties *)

\* An attempt that was given up may still be carried out, and is repeated only
\* where that does no harm; what comes of a request is what its caller is told,
\* and only those write who may.
RetriesAreSafe ==
    /\ part = "relay" => Relay!WriteOnce /\ Relay!AnswerIsTrue
    /\ part = "routing" => Routing!WritesAreGuarded

\* "Concurrent 401s must share one refresh": the requests of a page do not use
\* up each other's token.
NotThrownOut == part = "browserSession" => BrowserSession!NotThrownOut

\* A user sees the user's own data, with all that the user has changed, and
\* leaves nothing to the next one.
ShowsOwnData ==
    /\ part = "queryCache" =>
           QueryCache!NotAnothers /\ QueryCache!ReadsItsWrites
    /\ part = "otherTab" => OtherTab!NothingLeft

\* A page that is submitted again, with another address or after an answer that
\* was lost, places one order and the one it shows; a seed that is run again
\* leaves the shop as it is.
RepeatedAsAsked ==
    [][/\ part = "webCheckout" =>
              WebCheckout!OneOrderPerMount' /\ WebCheckout!PlacedAsChosen
       /\ part = "seeding" => Seeding!RerunChangesNothing]_state

\* Jobs that run side by side, fail or are run again leave whole migrations,
\* each once and in order, and the whole catalogue; after a reset amid them the
\* rows still tell which migrations there are.
DatabaseIsWhole ==
    /\ part = "migrations" =>
           /\ Migrations!RecordedOnce /\ Migrations!InOrder
           /\ Migrations!NoDivergence
    /\ part = "emptied" => Emptied!RecordedOnce
    /\ part = "seeding" => Seeding!WholeCatalogue /\ Seeding!NothingMissed

\* "Let in-flight requests drain, then close pools."
DrainsFirst ==
    part = "shutdown" => Shutdown!DrainedFirst /\ Shutdown!CleanExit
=============================================================================
