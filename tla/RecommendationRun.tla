-------------------------- MODULE RecommendationRun --------------------------
(***************************************************************************)
(* The batch of services/recommendation-generation, generator.js, with the *)
(* flag that keeps two runs of the process apart, and the shelves that     *)
(* services/recommendation serves from the tables it leaves.  The scheduler*)
(* and POST /runs start it in the same way.  A call that finds the flag    *)
(* set returns at once and changes nothing.                                *)
(***************************************************************************)
EXTENDS Naturals, Sequences, FiniteSets, FiniteSetsExt

CONSTANTS
    Users,
    Products,           \* the active ones
    Baskets,            \* the sets of products that are ordered together
    MIN_CO_OCCURRENCES, AFFINITY_PER_PRODUCT, RECOMMENDATIONS_PER_USER,
    Limits,             \* the lengths of a shelf that are asked for
    Fragile,            \* the statements that may fail
    Cancels, Stocks, Crashes, \* what else may happen
    MaxOrders, MaxFails \* bounds

Statements ==
    {"insert", "affinity", "deleteA", "insertA", "commitA", "recs", "deleteR",
     "insertR", "commitR", "complete", "fail"}

RunAssumption ==
    /\ Fragile \subseteq Statements
    /\ Baskets \subseteq SUBSET Products
    /\ {MIN_CO_OCCURRENCES, AFFINITY_PER_PRODUCT, RECOMMENDATIONS_PER_USER}
           \cup Limits \subseteq Nat \ {0}
    /\ {Cancels, Stocks, Crashes} \subseteq BOOLEAN

VARIABLES
    orders,     \* orders with an order line per product
    inStock,    \* products with stock
    viewed,     \* who viewed what in the last 90 days
    running,    \* the flag of the process
    at,         \* the statement the run is at
    row,        \* status of the latest row of recommendation_runs
    next,       \* the temporary table
    draft,      \* what its transaction has made of the table
    affinity,   \* product_affinity
    recs,       \* user_recommendations
    fails       \* the statements that have failed, "crash" for the process

vars == <<orders, inStock, viewed, running, at, row, next, draft, affinity,
          recs, fails>>

Pairs == {p \in Products \X Products : p[1] # p[2]}

TypeOK ==
    /\ orders \in Seq([user : Users, items : Baskets, paid : BOOLEAN])
    /\ inStock \subseteq Products
    /\ viewed \subseteq Users \X Products
    /\ running \in BOOLEAN
    /\ at \in {"idle"} \cup Statements
    /\ row \in {"none", "running", "completed", "failed"}
    /\ fails \in Seq(Fragile \cup {"crash"})
    /\ affinity \subseteq Pairs
    /\ recs \subseteq Users \X Products
    /\ \A p \in Products :
           Cardinality({e \in affinity : e[1] = p}) <= AFFINITY_PER_PRODUCT
    /\ \A u \in Users :
           Cardinality({e \in recs : e[1] = u}) <= RECOMMENDATIONS_PER_USER

Init ==
    /\ orders = <<>> /\ viewed = {}
    /\ inStock \in IF Stocks THEN SUBSET Products ELSE {Products}
    /\ running = FALSE /\ at = "idle" /\ row = "none"
    /\ next = {} /\ draft = {} /\ affinity = {} /\ recs = {}
    /\ fails = <<>>
-----------------------------------------------------------------------------
(* What the SQL computes *)

Paid == {i \in DOMAIN orders : orders[i].paid}
Purchased(u) == UNION {orders[i].items : i \in {j \in Paid :
                                                  orders[j].user = u}}
Together(p, q) == Cardinality({i \in Paid : {p, q} \subseteq orders[i].items})
OrderCount(p) == Together(p, p)

\* p goes better with q than with r, by co_occurrences / sqrt(the counts).
Scores(p, q, r) ==
    Together(p, q) ^ 2 * OrderCount(r) > Together(p, r) ^ 2 * OrderCount(q)

\* A query with a limit returns that many rows, any of those it may.
Take(S, n) == kSubset(IF n < Cardinality(S) THEN n ELSE Cardinality(S), S)

Related(p) == {q \in Products \ {p} : Together(p, q) >= MIN_CO_OCCURRENCES}
Ranked(p) ==
    {S \in Take(Related(p), AFFINITY_PER_PRODUCT) :
        \A q \in S, r \in Related(p) \ S : ~Scores(p, r, q)}
AffinityNext ==
    {UNION {{<<p, q>> : q \in f[p]} : p \in Products} :
        f \in {g \in [Products -> SUBSET Products] :
                  \A p \in Products : g[p] \in Ranked(p)}}

\* The order of the scores, sums of roots, is left open.
EverythingRelated(u) ==
    {e[2] : e \in {a \in affinity : \/ a[1] \in Purchased(u)
                                    \/ <<u, a[1]>> \in viewed}} \cap inStock
Recommendable(u) == EverythingRelated(u) \ Purchased(u)
RecsNext ==
    {UNION {{<<u, q>> : q \in f[u]} : u \in Users} :
        f \in {g \in [Users -> SUBSET Products] : \A u \in Users :
                  g[u] \in Take(Recommendable(u), RECOMMENDATIONS_PER_USER)}}
-----------------------------------------------------------------------------
(* The run *)

Goto(l) == at' = l

\* generate: the flag is set before the run has its row ...
Start ==
    /\ ~running
    /\ running' = TRUE
    /\ Goto("insert")
    /\ UNCHANGED <<orders, inStock, viewed, row, next, draft, affinity, recs,
                   fails>>

InsertRun ==
    /\ at = "insert"
    /\ row' = "running"
    /\ Goto("affinity")
    /\ UNCHANGED <<orders, inStock, viewed, running, next, draft, affinity,
                   recs, fails>>

\* The three statements of buildAffinity and of buildUserRecommendations.
Compute ==
    /\ \/ at = "affinity" /\ Goto("deleteA") /\ next' \in AffinityNext
       \/ at = "recs" /\ Goto("deleteR") /\ next' \in RecsNext
    /\ UNCHANGED <<orders, inStock, viewed, running, row, draft, affinity,
                   recs, fails>>

\* The serving layer reads what was committed last.
InPlace(table) == {}
Isolated(table) == table

Delete ==
    /\ \/ at = "deleteA" /\ Goto("insertA")
       \/ at = "deleteR" /\ Goto("insertR")
    /\ draft' = {}
    /\ affinity' = IF at = "deleteA" THEN Isolated(affinity) ELSE affinity
    /\ recs' = IF at = "deleteR" THEN Isolated(recs) ELSE recs
    /\ UNCHANGED <<orders, inStock, viewed, running, row, next, fails>>

Insert ==
    /\ \/ at = "insertA" /\ Goto("commitA")
       \/ at = "insertR" /\ Goto("commitR")
    /\ draft' = draft \cup next
    /\ UNCHANGED <<orders, inStock, viewed, running, row, next, affinity,
                   recs, fails>>

\* ON COMMIT DROP
Commit ==
    /\ \/ /\ at = "commitA" /\ Goto("recs")
          /\ affinity' = draft /\ UNCHANGED recs
       \/ /\ at = "commitR" /\ Goto("complete")
          /\ recs' = draft /\ UNCHANGED affinity
    /\ next' = {} /\ draft' = {}
    /\ UNCHANGED <<orders, inStock, viewed, running, row, fails>>

\* ... and cleared when it has ended, either way.
KeepsFlag(f) == f
ClearsFlag(f) == FALSE

Complete ==
    /\ at = "complete"
    /\ row' = "completed"
    /\ running' = ClearsFlag(running)
    /\ Goto("idle")
    /\ UNCHANGED <<orders, inStock, viewed, next, draft, affinity, recs,
                   fails>>

Catches(l) == l \notin {"insert", "fail"}

\* A statement fails, and its transaction is rolled back.  The INSERT of the
\* row is before the try: nothing clears the flag.  The UPDATE of the catch is
\* followed by the finally.
Throws ==
    /\ at \in Fragile /\ Len(fails) < MaxFails
    /\ fails' = Append(fails, at)
    /\ next' = {} /\ draft' = {}
    /\ Goto(IF Catches(at) THEN "fail" ELSE "idle")
    /\ running' = IF at = "fail" THEN ClearsFlag(running) ELSE running
    /\ UNCHANGED <<orders, inStock, viewed, row, affinity, recs>>

Fail ==
    /\ at = "fail"
    /\ row' = "failed"
    /\ running' = ClearsFlag(running)
    /\ Goto("idle")
    /\ UNCHANGED <<orders, inStock, viewed, next, draft, affinity, recs,
                   fails>>

\* The process dies and is started again.
Crash ==
    /\ Crashes /\ running /\ Len(fails) < MaxFails
    /\ fails' = Append(fails, "crash")
    /\ running' = FALSE /\ Goto("idle") /\ next' = {} /\ draft' = {}
    /\ UNCHANGED <<orders, inStock, viewed, row, affinity, recs>>

Run == InsertRun \/ Compute \/ Delete \/ Insert \/ Commit \/ Complete \/ Fail
-----------------------------------------------------------------------------
(* Customers, outside of this service *)

Batch == <<running, at, row, next, draft, affinity, recs, fails>>

Order ==
    /\ Len(orders) < MaxOrders
    /\ \E u \in Users, b \in Baskets :
           orders' = Append(orders, [user |-> u, items |-> b, paid |-> TRUE])
    /\ UNCHANGED <<inStock, viewed, Batch>>

View ==
    /\ \E u \in Users, p \in Products : viewed' = {<<u, p>>}
    /\ UNCHANGED <<orders, inStock, Batch>>

CancelOrder ==
    /\ Cancels
    /\ \E i \in Paid : orders' = [orders EXCEPT ![i].paid = FALSE]
    /\ UNCHANGED <<inStock, viewed, Batch>>

SellOut ==
    /\ Stocks
    /\ \E p \in inStock : inStock' = inStock \ {p}
    /\ UNCHANGED <<orders, viewed, Batch>>

Next == \/ Start \/ Run \/ Throws \/ Crash
        \/ Order \/ View \/ CancelOrder \/ SellOut
Spec == Init /\ [][Next]_vars

-----------------------------------------------------------------------------
(* The shelves: each the set of the answers there may be *)

AFew(limit) == IF limit < 4 THEN limit ELSE 4

Popular(limit) == Take(inStock, limit)

ForMe(u, limit) ==
    UNION {IF Cardinality(S) >= AFew(limit) THEN {S} ELSE Popular(limit) :
               S \in Take({e[2] : e \in {r \in recs : r[1] = u}}, limit)}

LastResort(p, picks, limit) ==
    IF picks # {} THEN {picks} ELSE Take(Products \ {p}, limit)

\* Category groups the products that have one in common.
RelatedShelf(p, Category, limit) ==
    UNION {IF Cardinality(S) >= AFew(limit) THEN {S}
           ELSE UNION {LastResort(p, S \cup T, limit) :
                    T \in Take(Category \ ({p} \cup S),
                               limit - Cardinality(S))} :
               S \in Take({e[2] : e \in {a \in affinity : a[1] = p}}, limit)}
-----------------------------------------------------------------------------
(* Properties *)

\* "A generation run is already in progress": a call that is turned away is
\* turned away by one, or by one that could not insert its row: until the
\* process is started again, no other is let in.
SkipIsTrue ==
    running /\ at = "idle" => fails # <<>> /\ fails[Len(fails)] = "insert"

\* A run that is over has not left its row as running, unless the process died
\* or the statement failed that would have said so.
RowIsSettled ==
    at = "idle" /\ row = "running" =>
        \E i \in DOMAIN fails : fails[i] \in {"fail", "crash"}

\* A shelf is never empty if there is anything to put on it, has as many as
\* were asked for at most, and does not show a product beside itself.
ShelfPopulated ==
    \A n \in Limits :
        /\ \A u \in Users : inStock # {} => {} \notin ForMe(u, n)
        /\ \A p \in Products, C \in SUBSET Products :
               \A S \in RelatedShelf(p, C, n) :
                   /\ p \notin S /\ Cardinality(S) <= n
                   /\ Products # {p} => S # {}

\* "A DELETE-then-INSERT would leave the serving layer reading an empty table
\* mid-run": as long as no order is cancelled, related products that are there
\* stay there.
NeverEmptied == affinity # {} => affinity' # {}

\* "Never recommend something the customer already bought": what a customer
\* buys stops being recommended.  (To be reached, and for good.)
Settled ==
    \A u \in Users : \A p \in Purchased(u) : <<u, p>> \notin recs
=============================================================================
