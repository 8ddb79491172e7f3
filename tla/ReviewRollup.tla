---------------------------- MODULE ReviewRollup ----------------------------
(***************************************************************************)
(* The reviews of one product: reviewController.js, the trigger of the     *)
(* schema that keeps the product's rating, and the outbox row that asks    *)
(* search to index it again.  A user's review is a row of its own, by the  *)
(* unique key.                                                             *)
(***************************************************************************)
EXTENDS Naturals, FiniteSets, Functions

CONSTANTS
    Users,
    Ratings,    \* the stars that are given
    Requests,
    Operations, \* what they do
    Buyers,     \* users with an order for the product
    REQUIRE_VERIFIED_PURCHASE,
    Crashes,    \* whether the process may die
    MaxOpen,    \* bound: requests at the same time
    MaxVotes,   \* bound: votes for a review
    TiesDown    \* pairs of a sum and a count, <<169, 40>> for one, whose
                \* average is a tie that the page's float arithmetic misses

ReviewAssumption ==
    /\ Ratings \subseteq 1..5
    /\ Operations \subseteq {"create", "update", "delete", "helpful",
                             "moderate"}
    /\ Buyers \subseteq Users /\ Users # {}
    /\ "none" \notin Requests
    /\ {MaxOpen, MaxVotes} \subseteq Nat
    /\ {REQUIRE_VERIFIED_PURCHASE, Crashes} \subseteq BOOLEAN

VARIABLES
    review,     \* the committed row of each user
    rating,     \* the product's rating: the reviews that were averaged
    rowOf,      \* the request that has locked each user's row, or key
    productOf,  \* the request that has locked the product
    req,        \* the requests
    outbox,     \* rows of catalog_outbox
    indexed     \* the rating that search holds

vars == <<review, rating, rowOf, productOf, req, outbox, indexed>>

None == "none"
\* A review that is pending is off the page like a rejected one.
NoReview == [stars |-> 0, status |-> "absent", helpful |-> 0]
Rows == [stars : Ratings, status : {"published", "rejected"},
         helpful : 0..MaxVotes] \cup {NoReview}

Published(table) ==
    {<<u, table[u].stars>> : u \in {v \in Users :
                                        table[v].status = "published"}}

Ended == {"idle", "done", "refused", "dead"}
Idle == [at |-> "idle", does |-> None, user |-> CHOOSE u \in Users : TRUE,
         row |-> NoReview, agg |-> {}]

TypeOK ==
    /\ review \in [Users -> Rows]
    /\ rating \in SUBSET (Users \X Ratings)
    /\ rowOf \in [Users -> Requests \cup {None}]
    /\ productOf \in Requests \cup {None}
    /\ req \in [Requests ->
           [at : {"idle", "row", "trigger", "product", "commit", "notify",
                  "done", "refused", "dead"},
            does : Operations \cup {None}, user : Users, row : Rows,
            agg : SUBSET (Users \X Ratings)]]
    /\ \A u \in Users : rowOf[u] # None =>
           req[rowOf[u]].user = u /\ req[rowOf[u]].at \notin Ended
    /\ outbox \in Nat
    /\ indexed \in SUBSET (Users \X Ratings)

Init ==
    /\ review = [u \in Users |-> NoReview]
    /\ rating = {}
    /\ rowOf = [u \in Users |-> None]
    /\ productOf = None
    /\ req = [r \in Requests |-> Idle]
    /\ outbox = 0
    /\ indexed = {}
-----------------------------------------------------------------------------
Put(r, f, v) == req' = [req EXCEPT ![r].at = v, ![r].row = f]
Goto(r, l) == req' = [req EXCEPT ![r].at = l]
Open == {r \in Requests : req[r].at \notin Ended}

\* createReview without REQUIRE_VERIFIED_PURCHASE, or by a buyer.  (It looks
\* for an active product first, which catalog may take away at any time.)
MayReview(u) == REQUIRE_VERIFIED_PURCHASE => u \in Buyers

Begin(r) ==
    /\ req[r].at = "idle" /\ Cardinality(Open) < MaxOpen
    /\ \E o \in Operations, u \in Users, active \in BOOLEAN :
           /\ o # "create" => \/ review[u] # NoReview
                              \/ \E q \in Open : req[q].user = u
           /\ req' = [req EXCEPT ![r].does = o, ![r].user = u,
                  ![r].at = IF o = "create" /\ ~(active /\ MayReview(u))
                            THEN "refused" ELSE "row"]
    /\ UNCHANGED <<review, rating, rowOf, productOf, outbox, indexed>>

NewRows(o, old) ==
    CASE o = "create"   -> {[stars |-> s, status |-> "published",
                             helpful |-> 0] : s \in Ratings}
      [] o = "update"   -> {[old EXCEPT !.stars = s] : s \in Ratings}
      [] o = "delete"   -> {NoReview}
      [] o = "helpful"  -> {[old EXCEPT !.helpful = @ + 1]}
      [] o = "moderate" -> {[old EXCEPT !.status = s] :
                                s \in {"published", "rejected"}}

\* The row, or for an INSERT the unique key, is locked.  An INSERT runs into
\* the committed review, every other operation needs it.
LockRow(r) ==
    LET u == req[r].user  o == req[r].does IN
    /\ req[r].at = "row" /\ rowOf[u] = None
    /\ o = "helpful" => review[u].helpful < MaxVotes
    /\ IF (o = "create") = (review[u] # NoReview)
       THEN Goto(r, "refused") /\ UNCHANGED rowOf
       ELSE /\ \E new \in NewRows(o, review[u]) : Put(r, new, "trigger")
            /\ rowOf' = [rowOf EXCEPT ![u] = r]
    /\ UNCHANGED <<review, rating, productOf, outbox, indexed>>

\* refresh_product_rating: the aggregate of the trigger's UPDATE is read with
\* the statement's snapshot ...
WithoutOwn(r) == Published(review)
Aggregate(r) == Published([review EXCEPT ![req[r].user] = req[r].row])

Trigger(r) ==
    /\ req[r].at = "trigger"
    /\ req' = [req EXCEPT ![r].agg = Aggregate(r), ![r].at = "product"]
    /\ UNCHANGED <<review, rating, rowOf, productOf, outbox, indexed>>

\* ... and written when the product's row is free.
LockProduct(r) ==
    /\ req[r].at = "product" /\ productOf = None
    /\ productOf' = r
    /\ Goto(r, "commit")
    /\ UNCHANGED <<review, rating, rowOf, outbox, indexed>>

Freed(r) == [u \in Users |-> IF rowOf[u] = r THEN None ELSE rowOf[u]]

\* The outbox row is in the transaction of all but these: a vote does not
\* write one, moderation writes it afterwards.
WritesOutbox(o) == o \in {"create", "update", "delete"}

Commit(r) ==
    LET o == req[r].does IN
    /\ req[r].at = "commit"
    /\ review' = [review EXCEPT ![req[r].user] = req[r].row]
    /\ rating' = req[r].agg
    /\ rowOf' = Freed(r)
    /\ productOf' = None
    /\ outbox' = IF WritesOutbox(o) THEN outbox + 1 ELSE outbox
    /\ Goto(r, IF o = "moderate" THEN "notify" ELSE "done")
    /\ UNCHANGED indexed

\* moderateReview: a statement of its own.
Notify(r) ==
    /\ req[r].at = "notify"
    /\ outbox' = outbox + 1
    /\ Goto(r, "done")
    /\ UNCHANGED <<review, rating, rowOf, productOf, indexed>>

\* What was not committed is rolled back.
Crash(r) ==
    /\ Crashes /\ r \in Open
    /\ req' = [req EXCEPT ![r] = [Idle EXCEPT !.at = "dead"]]
    /\ rowOf' = Freed(r)
    /\ productOf' = IF productOf = r THEN None ELSE productOf
    /\ UNCHANGED <<review, rating, outbox, indexed>>

\* search indexes the product with the rating it finds.
Drain ==
    /\ outbox > 0
    /\ outbox' = outbox - 1
    /\ indexed' = rating
    /\ UNCHANGED <<review, rating, rowOf, productOf, req>>

Step(r) == LockRow(r) \/ Trigger(r) \/ LockProduct(r) \/ Commit(r) \/ Notify(r)

Next == Drain \/ \E r \in Requests : Begin(r) \/ Step(r) \/ Crash(r)
Spec == Init /\ [][Next]_vars
-----------------------------------------------------------------------------
(* The list of the product's page *)

\* listForProduct counts the published reviews by their stars, and averages
\* them (in hundredths, as Math.round of a float).
Histogram(s) == Cardinality({u \in Users : /\ review[u].status = "published"
                                           /\ review[u].stars = s})
Total == SumFunction([s \in 1..5 |-> Histogram(s)])
Stars == SumFunction([s \in 1..5 |-> s * Histogram(s)])
Rounded(sum, n) == IF n = 0 THEN 0 ELSE (200 * sum + n) \div (2 * n)
IsTie(sum, n) == n # 0 /\ (200 * sum + n) % (2 * n) = 0
Average(sum, n) == IF IsTie(sum, n) /\ <<sum, n>> \in TiesDown
                   THEN Rounded(sum, n) - 1 ELSE Rounded(sum, n)

\* rating_avg and rating_count, as the trigger's aggregate defines them (ROUND
\* of a NUMERIC, exact).
RatingCount == Cardinality(rating)
RatingAvg == Rounded(SumFunction([p \in rating |-> p[2]]), RatingCount)
-----------------------------------------------------------------------------
(* Properties *)

\* "The rollup can never drift from the source rows": what the product says is
\* what its page counts, but for a hundredth where the page misses a tie.
NeverDrifts ==
    /\ RatingCount = Total
    /\ RatingAvg = Rounded(Stars, Total)
    /\ Average(Stars, Total) # RatingAvg =>
           IsTie(Stars, Total) /\ Average(Stars, Total) = RatingAvg - 1

\* "Re-index so search reflects the new score": with nothing under way and
\* nothing in the outbox, search has the product's rating.
SearchReflects == (Open = {} /\ outbox = 0) => indexed = rating

\* A review that a moderator has taken off the page comes back only by
\* moderation, or as a new one after it was deleted.
HiddenStays ==
    \A u \in Users :
        review[u].status = "rejected" /\ review'[u].status = "published" =>
            \E r \in Requests : /\ req[r].at = "commit"
                                /\ req[r].does = "moderate"

\* Every request is answered and search has heard of it: no two wait for each
\* other's rows.  (To be reached, and for good.)
Settled ==
    /\ \A r \in Requests : req[r].at \in {"idle"} \cup Ended
    /\ outbox = 0
=============================================================================
