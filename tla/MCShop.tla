------------------------------- MODULE MCShop -------------------------------
(* Products on their way to a customer, and how the next customer finds     *)
(* them: Fulfilment, SearchIndex, SearchQuery, ReviewRollup and             *)
(* RecommendationRun on small instances, side by side.  Here they share no  *)
(* state, so of each behaviour one component is all.                        *)
EXTENDS Fulfilment, Integers, TLC

CONSTANTS p1, p2, p3, r1, r2, a1, u1, u2, u3, q1, q2, q3

VARIABLES
    part,   \* the component that runs
    \* the variables of the component, one after the other
    x1, x2, x3, x4, x5, x6, x7, x8, x9, x10, x11

\* Products that filters tell apart, in every combination.
Item(i, c, cents, stock, active) ==
    [id |-> i, category |-> c, price |-> cents, rating |-> i,
     ratingCount |-> i, createdAt |-> i, inStock |-> stock,
     isActive |-> active, relevant |-> i # 2, ilike |-> i # 3]
Catalogues ==
    {{Item(i, f[i][1], f[i][2], f[i][3], f[i][4]) : i \in 1..2} :
        f \in [1..2 -> {"Apparel", "Mugs"} \X {10, 20} \X BOOLEAN
                           \X BOOLEAN]}
\* In stock, active and at prices of their own.
Shelf ==
    {{Item(i, "Apparel", 10 * i, TRUE, TRUE) : i \in 1..n} : n \in 0..4}

\* A bound of 0 is one that is not sent.
Query(text, facet, min, max, stock, sort, size) ==
    [q |-> text, category |-> facet, min |-> min, max |-> max,
     inStock |-> stock, minRating |-> 0, sort |-> sort, pageSize |-> size]
NoFacet == [sent |-> FALSE, values |-> {}]
Facet(S) == [sent |-> TRUE, values |-> S]
Filterings ==
    {Query(t, f, lo, hi, s, "newest", 1) :
        t \in BOOLEAN, lo \in {0, 20}, hi \in {0, 10}, s \in BOOLEAN,
        f \in {NoFacet, Facet({}), Facet({"Apparel"}),
               Facet({"Mugs", "apparel"})}}
Listings ==
    {Query(FALSE, NoFacet, lo, 0, FALSE, o, n) :
        lo \in {0, 20}, n \in 1..3,
        o \in {"newest", "price_asc", "price_desc", "rating", "relevance"}}

ReviewCalls == {q1, q2, q3}
Symmetry == Permutations(ReviewCalls)

SearchIndex == INSTANCE SearchIndex WITH
    Products <- {p1, p2}, Replicas <- {r1}, Admins <- {}, Live <- "new",
    BatchSize <- 2, MAX_ATTEMPTS <- 3, MaxChanges <- 3, MaxFaults <- 2,
    row <- x1, outbox <- x2, indices <- x3, docs <- x4, alias <- x5,
    drain <- x6, build <- x7, faults <- x8

Rebuild == INSTANCE SearchIndex WITH
    Products <- {p1}, Replicas <- {r1, r2}, Admins <- {a1}, Live <- "old",
    BatchSize <- 2, MAX_ATTEMPTS <- 2, MaxChanges <- 1, MaxFaults <- 2,
    row <- x1, outbox <- x2, indices <- x3, docs <- x4, alias <- x5,
    drain <- x6, build <- x7, faults <- x8

Filters == INSTANCE SearchQuery WITH
    Requests <- Filterings, Toggles <- 0, WINDOW <- 100,
    products <- x1, req <- x2, up <- x3, page <- x4, seen <- x5, answer <- x6,
    toggles <- x7

Pages == INSTANCE SearchQuery WITH
    Catalogues <- Shelf, Requests <- Listings, Toggles <- 2, WINDOW <- 100,
    products <- x1, req <- x2, up <- x3, page <- x4, seen <- x5, answer <- x6,
    toggles <- x7

Reviews == INSTANCE ReviewRollup WITH
    Users <- {u1, u2, u3}, Requests <- ReviewCalls, Ratings <- {2, 5},
    Operations <- {"create", "update", "delete", "helpful", "moderate"},
    Buyers <- {u1, u2}, REQUIRE_VERIFIED_PURCHASE <- TRUE, Crashes <- FALSE,
    MaxOpen <- 1, MaxVotes <- 1, TiesDown <- {},
    review <- x1, rating <- x2, rowOf <- x3, productOf <- x4, req <- x5,
    outbox <- x6, indexed <- x7

Votes == INSTANCE ReviewRollup WITH
    Users <- {u1, u2}, Requests <- ReviewCalls, Ratings <- {5},
    Operations <- {"create", "update", "delete", "helpful", "moderate"},
    Buyers <- {u1}, REQUIRE_VERIFIED_PURCHASE <- FALSE, Crashes <- TRUE,
    MaxOpen <- 2, MaxVotes <- 1, TiesDown <- {},
    review <- x1, rating <- x2, rowOf <- x3, productOf <- x4, req <- x5,
    outbox <- x6, indexed <- x7

Shelves == INSTANCE RecommendationRun WITH
    Products <- {p1, p2, p3}, Baskets <- {{p1, p2}, {p2, p3}}, Users <- {u1},
    MIN_CO_OCCURRENCES <- 1, AFFINITY_PER_PRODUCT <- 2,
    RECOMMENDATIONS_PER_USER <- 2, Limits <- {1, 2, 5}, Fragile <- {},
    Cancels <- TRUE, Stocks <- TRUE, Crashes <- FALSE, MaxOrders <- 2,
    MaxFails <- 0,
    orders <- x1, inStock <- x2, viewed <- x3, running <- x4, at <- x5,
    row <- x6, next <- x7, draft <- x8, affinity <- x9, recs <- x10,
    fails <- x11

Run == INSTANCE RecommendationRun WITH
    Products <- {p1, p2, p3}, Baskets <- {{p1, p2}, {p2, p3}}, Users <- {u1},
    MIN_CO_OCCURRENCES <- 2, AFFINITY_PER_PRODUCT <- 1,
    RECOMMENDATIONS_PER_USER <- 1, Limits <- {1}, Fragile <- Shelves!Statements,
    Cancels <- FALSE, Stocks <- FALSE, Crashes <- TRUE, MaxOrders <- 3,
    MaxFails <- 2,
    orders <- x1, inStock <- x2, viewed <- x3, running <- x4, at <- x5,
    row <- x6, next <- x7, draft <- x8, affinity <- x9, recs <- x10,
    fails <- x11

ASSUME NamesAssumption
ASSUME StatusAssumption
ASSUME IndexHolds == SearchIndex!IndexAssumption
ASSUME RebuildHolds == Rebuild!IndexAssumption
ASSUME FiltersHolds == Filters!SearchAssumption
ASSUME PagesHolds == Pages!SearchAssumption
ASSUME ReviewsHolds == Reviews!ReviewAssumption
ASSUME VotesHolds == Votes!ReviewAssumption
ASSUME RunHolds == Run!RunAssumption
ASSUME ShelvesHolds == Shelves!RunAssumption

\* What a component has no use for.
Idle11 == x11 = "idle"
Idle10 == x10 = "idle" /\ Idle11
Idle9 == x9 = "idle" /\ Idle10
Idle8 == x8 = "idle" /\ Idle9
Idle7 == x7 = "idle" /\ Idle8
Idle6 == x6 = "idle" /\ Idle7
Idle5 == x5 = "idle" /\ Idle6
Idle4 == x4 = "idle" /\ Idle5
Idle3 == x3 = "idle" /\ Idle4
Idle2 == x2 = "idle" /\ Idle3
Idle1 == x1 = "idle" /\ Idle2
Still11 == UNCHANGED x11
Still10 == UNCHANGED x10 /\ Still11
Still9 == UNCHANGED x9 /\ Still10
Still8 == UNCHANGED x8 /\ Still9
Still7 == UNCHANGED x7 /\ Still8
Still6 == UNCHANGED x6 /\ Still7
Still5 == UNCHANGED x5 /\ Still6
Still4 == UNCHANGED x4 /\ Still5
Still3 == UNCHANGED x3 /\ Still4
Still2 == UNCHANGED x2 /\ Still3
Still1 == UNCHANGED x1 /\ Still2

\* Those of Fulfilment are its own.
MCInit ==
    \/ part = "fulfilment" /\ Init /\ Idle1
    \/ part = "searchIndex" /\ SearchIndex!Init /\ Idle9 /\ Init
    \/ part = "rebuild" /\ Rebuild!Init /\ Idle9 /\ Init
    \/ part = "filters" /\ Filters!Init /\ Idle8 /\ Init
    \/ part = "pages" /\ Pages!Init /\ Idle8 /\ Init
    \/ part = "reviews" /\ Reviews!Init /\ Idle8 /\ Init
    \/ part = "votes" /\ Votes!Init /\ Idle8 /\ Init
    \/ part = "run" /\ Run!Init /\ Init
    \/ part = "shelves" /\ Shelves!Init /\ Init

Unused ==
    /\ UNCHANGED part
    /\ IF part = "fulfilment" THEN Still1 ELSE UNCHANGED vars
    /\ part \in {"filters", "pages", "reviews", "votes"} => Still8
    /\ part \in {"searchIndex", "rebuild"} => Still9

MCNext ==
    /\ Unused
    /\ \/ part = "fulfilment" /\ Next
       \/ part = "searchIndex" /\ SearchIndex!Next
       \/ part = "rebuild" /\ Rebuild!Next
       \/ part = "filters" /\ Filters!Next
       \/ part = "pages" /\ Pages!Next
       \/ part = "reviews" /\ Reviews!Next
       \/ part = "votes" /\ Votes!Next
       \/ part = "run" /\ Run!Next
       \/ part = "shelves" /\ Shelves!Next

state == <<part, vars,
          x1, x2, x3, x4, x5, x6, x7, x8, x9, x10, x11>>
MCSpec == MCInit /\ [][MCNext]_state
-----------------------------------------------------------------------------
(* Properties *)

\* One worker, and then two replicas that boot on an outdated index with an
\* administrator's rebuild: a quiet index holds what the catalogue holds, and
\* customers are never shown a half-filled one.
IndexIsSound ==
    /\ part = "searchIndex" => SearchIndex!CaughtUp
    /\ part = "rebuild" => Rebuild!ServesCatalogue

\* Whichever of the two answers, the search finds what was asked for, and the
\* pages show all of it once.
SearchAnswers ==
    /\ part = "filters" => Filters!DegradesTheSame /\ Filters!NothingChosen
    /\ part = "pages" => Pages!EachOnOnePage

\* "The rollup can never drift from the source rows", while one request after
\* the other changes reviews, and search comes to hold the same rating.
RatingIsReflected ==
    part = "reviews" => Reviews!NeverDrifts /\ Reviews!SearchReflects

\* A run of the generator that is over has given back the flag, unless its
\* INSERT failed, and has settled its row, unless the process died or the
\* UPDATE of the catch failed; what runs leave fills the shelves.
RunIsSettled ==
    /\ part = "run" => Run!SkipIsTrue /\ Run!RowIsSettled
    /\ part = "shelves" => Shelves!ShelfPopulated

\* Concurrent requests do not put back a review that was taken down, and a run
\* does not take away for a moment what it is about to replace.
StaysAsItWas ==
    [][/\ part = "votes" => Votes!HiddenStays
       /\ part = "run" => Run!NeverEmptied]_state
=============================================================================
