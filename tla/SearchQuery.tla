----------------------------- MODULE SearchQuery -----------------------------
(***************************************************************************)
(* A product search of services/search: the filters and the sorting that   *)
(* lib/query.js builds for Elasticsearch, the fallback that searches       *)
(* PostgreSQL when that fails, and a client that asks for one page after   *)
(* the other.  Both hold the same products (SearchIndex is about that).    *)
(***************************************************************************)
EXTENDS Naturals, Sequences, FiniteSets, SequencesExt

CONSTANTS
    Catalogues, \* the products there may be
    Requests,   \* the bodies of POST /search there may be
    Toggles,    \* bound: how often Elasticsearch goes down or comes back
    WINDOW      \* from + size that Elasticsearch answers (10,000)

\* What validation lets through.
Bodies ==
    [q : BOOLEAN, category : [sent : BOOLEAN, values : SUBSET STRING],
     min : Nat, max : Nat, inStock : BOOLEAN, minRating : Nat,
     sort : {"relevance", "newest", "price_asc", "price_desc", "rating"},
     pageSize : 1..60]

SearchAssumption ==
    /\ \A c \in Catalogues : IsFiniteSet(c)
    /\ Requests \subseteq Bodies
    /\ {Toggles, WINDOW} \subseteq Nat

VARIABLES
    products,   \* the catalogue
    req,        \* the request, its page apart
    up,         \* whether Elasticsearch answers
    page,       \* the page that is asked for next
    seen,       \* the products on the pages there were
    answer,     \* the last answer
    toggles

vars == <<products, req, up, page, seen, answer, toggles>>

NoAnswer == [total |-> 0, items |-> <<>>, hasNext |-> TRUE,
             degraded |-> FALSE]

TypeOK ==
    /\ req \in Requests /\ up \in BOOLEAN /\ page \in Nat \ {0}
    /\ answer.total <= Cardinality(products)
    /\ Len(answer.items) <= req.pageSize
    /\ answer.items # <<>> => answer.total >= Len(answer.items)

Init ==
    /\ products \in Catalogues
    /\ req \in Requests
    /\ up \in BOOLEAN
    /\ page = 1 /\ seen = <<>> /\ answer = NoAnswer
    /\ toggles = 0
-----------------------------------------------------------------------------
(* The filters *)

\* A facet is left out, or a list of values, the empty list included.
Sent(f) == f.sent
HasValue(f) == f.sent /\ f.values # {}

Folded(c) == IF c = "apparel" THEN "Apparel" ELSE c

AtLeast(bound, n) == bound = 0 \/ n >= bound
AtMost(bound, n) == bound = 0 \/ n <= bound

\* A bound of 0 stands for one that is not sent.
InRange(r, p) == AtLeast(r.min, p.price) /\ AtMost(r.max, p.price)
StockAsked(r, p) == r.inStock => p.inStock

\* buildQuery: filters with folded facets, and the text's three strategies.
BuildQuery(r) ==
    {p \in products :
        /\ p.isActive
        /\ HasValue(r.category) =>
               Folded(p.category) \in {Folded(c) : c \in r.category.values}
        /\ StockAsked(r, p)
        /\ AtLeast(r.minRating, p.rating)
        /\ AtLeast(r.min, p.price) /\ AtMost(r.max, p.price)
        /\ r.q => p.relevant}

\* The WHERE clause of searchViaPostgres.
Conditions(r) ==
    {p \in products :
        /\ p.isActive
        /\ r.q => p.ilike
        /\ HasValue(r.category) => p.category \in r.category.values
        /\ InRange(r, p)
        /\ AtLeast(r.minRating, p.rating)
        /\ StockAsked(r, p)}

Matches == IF up THEN BuildQuery(req) ELSE Conditions(req)
-----------------------------------------------------------------------------
(* Sorting and pages *)

\* buildSort and the ORDER BY: p comes before q whenever both are listed.
\* Relevance without a text is newest; with one it is left open.
Before(p, q) ==
    CASE req.sort = "price_asc"  -> p.price < q.price
      [] req.sort = "price_desc" -> p.price > q.price
      [] req.sort = "rating" ->
             \/ p.rating > q.rating
             \/ p.rating = q.rating /\ p.ratingCount > q.ratingCount
      [] req.sort = "newest" -> p.createdAt > q.createdAt
      [] req.sort = "relevance" -> ~req.q /\ p.createdAt > q.createdAt

\* What comes in neither order may come in any.
Sorted(S) ==
    {s \in SetToAllKPermutations(S) :
        /\ Len(s) = Cardinality(S)
        /\ \A i, j \in DOMAIN s : i < j => ~Before(s[j], s[i])}

From(n) == (n - 1) * req.pageSize + 1
PageOf(s, n) ==
    LET last == From(n) + req.pageSize - 1 IN
    SubSeq(s, From(n), IF last < Len(s) THEN last ELSE Len(s))

HasNext(n, total) == n * req.pageSize < total

Search ==
    /\ answer.hasNext
    /\ LET inWindow == page * req.pageSize <= WINDOW
           found == IF inWindow THEN Matches ELSE Conditions(req)
       IN \E s \in Sorted(found) :
          LET items == PageOf(s, page) IN
          /\ answer' = [total |-> Cardinality(found), items |-> items,
                        hasNext |-> HasNext(page, Cardinality(found)),
                        degraded |-> ~up \/ ~inWindow]
          /\ seen' = seen \o items
    /\ page' = page + 1
    /\ UNCHANGED <<products, req, up, toggles>>

Toggle ==
    /\ toggles < Toggles
    /\ toggles' = toggles + 1
    /\ up' = ~up
    /\ UNCHANGED <<products, req, page, seen, answer>>

Next == Search \/ Toggle
Spec == Init /\ [][Next]_vars
-----------------------------------------------------------------------------
(* Properties *)

\* "Search degrades": without a text, and with the facets spelled as they are
\* stored, the fallback finds the very products that Elasticsearch finds.
Stored == {p.category : p \in products}
DegradesTheSame ==
    (~req.q /\ req.category.values \subseteq Stored) =>
        BuildQuery(req) = Conditions(req)

\* "The user chose nothing": an empty facet, in either search, is one that was
\* not sent.
NothingChosen ==
    LET without == [req EXCEPT !.category = [sent |-> FALSE, values |-> {}]] IN
    req.category.values = {} =>
        /\ BuildQuery(req) = BuildQuery(without)
        /\ Conditions(req) = Conditions(without)

\* "Something stable rather than Lucene doc order": a client that follows
\* hasNext to the end has seen every product that matches, each on one page.
EachOnOnePage ==
    /\ IsInjective(seen)
    /\ ~answer.hasNext => ToSet(seen) = Matches

=============================================================================
