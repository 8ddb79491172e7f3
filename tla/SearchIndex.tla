----------------------------- MODULE SearchIndex -----------------------------
(***************************************************************************)
(* The catalogue in Postgres and its copy in Elasticsearch: the outbox,    *)
(* the workers that drain it (services/search, indexer.js), the rebuild on *)
(* boot with its alias (elastic.js) and the rebuild by an admin.           *)
(*                                                                         *)
(* A document is the version of the row it was made from; NoDoc is the     *)
(* absence of a row or a document.                                         *)
(***************************************************************************)
EXTENDS Naturals, Sequences, FiniteSets, FiniteSetsExt

CONSTANTS
    Products,
    Replicas,     \* processes of the search service
    Admins,       \* requests to /admin/reindex
    Live,         \* the index the alias is on at first
    BatchSize,    \* INDEXER_BATCH_SIZE
    MAX_ATTEMPTS,
    MaxChanges,   \* bound: changes of the catalogue
    MaxFaults     \* bound: failures of Elasticsearch, and crashes

IndexAssumption ==
    /\ Replicas \cap Admins = {}
    /\ Live \in {"old", "new"}
    /\ {BatchSize, MAX_ATTEMPTS} \subseteq Nat \ {0}
    /\ {MaxChanges, MaxFaults} \subseteq Nat

VARIABLES
    row,     \* products: the version of each row
    outbox,  \* catalog_outbox
    indices, \* the indexes that exist
    docs,    \* what each index holds
    alias,   \* the index the alias is on
    drain,   \* the transaction of each replica's worker
    build,   \* the rebuild of each replica at boot, and of each admin
    faults   \* failures so far

vars == <<row, outbox, indices, docs, alias, drain, build, faults>>

NoDoc == 0
Versions == NoDoc .. MaxChanges + 1
Documents == [Products -> Versions]
Empty == [p \in Products |-> NoDoc]
Builders == Replicas \cup Admins

\* Who does nothing holds no rows, documents or pages.
NoDrain == [at |-> "idle", rows |-> {}, doc |-> Empty, failed |-> {}]
Rest(at) == [at |-> at, live |-> "new", todo |-> {}, page |-> {},
             doc |-> Empty]

TypeOK ==
    /\ row \in Documents
    /\ \A i \in DOMAIN outbox :
           /\ outbox[i].attempts <= MAX_ATTEMPTS
           /\ outbox[i].operation = "delete" => row[outbox[i].product] = NoDoc
    /\ indices \subseteq {"old", "new"}
    /\ docs \in [{"old", "new"} -> Documents]
    /\ alias \in {"old", "new"}
    /\ \A r, s \in Replicas :
           r # s => drain[r].rows \cap drain[s].rows = {}
    /\ \A b \in Builders : build[b].at = "write" => build[b].page # {}

Init ==
    /\ row \in [Products -> {NoDoc, 1}]
    /\ outbox = <<>>
    /\ alias = Live
    /\ indices = {Live}
    /\ docs = [n \in {"old", "new"} |-> IF n = Live THEN row ELSE Empty]
    /\ drain = [r \in Replicas |-> NoDrain]
    /\ build = [b \in Builders |-> Rest("down")]
    /\ faults = 0
-----------------------------------------------------------------------------
(* The catalogue: each change and its outbox row commit together. *)

Enqueue(p, operation) ==
    outbox' = Append(outbox, [product |-> p, operation |-> operation,
                              processed |-> FALSE, attempts |-> 0])
elastic == <<indices, docs, alias, drain, build, faults>>

NeverWas(p) ==
    row[p] = NoDoc /\ \A i \in DOMAIN outbox : outbox[i].product # p

\* createProduct, updateProduct, a soft delete, and what reviews and the
\* inventory change of a product.
Upsert(p) ==
    /\ Len(outbox) < MaxChanges
    /\ row[p] # NoDoc \/ NeverWas(p)
    /\ row' = [row EXCEPT ![p] = Len(outbox) + 2]
    /\ Enqueue(p, "upsert")
    /\ UNCHANGED elastic

HardDelete(p) ==
    /\ Len(outbox) < MaxChanges
    /\ row[p] # NoDoc
    /\ row' = [row EXCEPT ![p] = NoDoc]
    /\ Enqueue(p, "delete")
    /\ UNCHANGED elastic
-----------------------------------------------------------------------------
(* drainOutbox: one transaction of a replica whose boot is over. *)

catalogue == <<row, outbox>>
Up(r) == build[r].at = "up"
Pending(i) == ~outbox[i].processed /\ outbox[i].attempts < MAX_ATTEMPTS
ProductsOf(rows) == {outbox[i].product : i \in rows}

\* FOR UPDATE SKIP LOCKED
Free ==
    {i \in DOMAIN outbox :
        Pending(i) /\ \A s \in Replicas : i \notin drain[s].rows}
\* ORDER BY outbox_id LIMIT
Batch == {i \in Free : Cardinality({j \in Free : j < i}) < BatchSize}

SelectPending(r) ==
    /\ Up(r) /\ drain[r].at = "idle" /\ Free # {}
    /\ drain' = [drain EXCEPT ![r].at = "selected", ![r].rows = Batch]
    /\ UNCHANGED <<catalogue, indices, docs, alias, build, faults>>

LoadDocuments(r) ==
    /\ drain[r].at = "selected"
    /\ drain' = [drain EXCEPT ![r].at = "loaded", ![r].doc =
           [p \in Products |->
               IF p \in ProductsOf(drain[r].rows) THEN row[p] ELSE NoDoc]]
    /\ UNCHANGED <<catalogue, indices, docs, alias, build, faults>>

\* The operations of the bulk request: a product with a row is indexed, one
\* without is deleted, whatever it was enqueued for.
InBulk(r, p) == p \in ProductsOf(drain[r].rows)

\* Elasticsearch may refuse some of the documents.
Bulk(r) ==
    /\ drain[r].at = "loaded"
    /\ \E failed \in SUBSET ProductsOf(drain[r].rows) :
           /\ faults + Cardinality(failed) <= MaxFaults
           /\ faults' = faults + Cardinality(failed)
           /\ docs' = [docs EXCEPT ![alias] = [p \in Products |->
                  IF InBulk(r, p) /\ p \notin failed THEN drain[r].doc[p]
                                                     ELSE @[p]]]
           /\ drain' = [drain EXCEPT ![r].at = "sent", ![r].failed = failed]
    /\ UNCHANGED <<catalogue, indices, alias, build>>

\* What succeeded is retired; the rest has used up an attempt.
Succeeded(r, i) == outbox[i].product \notin drain[r].failed

MarkProcessed(r) ==
    /\ drain[r].at = "sent"
    /\ outbox' = [i \in DOMAIN outbox |->
           IF i \notin drain[r].rows THEN outbox[i]
           ELSE IF Succeeded(r, i) THEN [outbox[i] EXCEPT !.processed = TRUE]
           ELSE [outbox[i] EXCEPT !.attempts = @ + 1]]
    /\ drain' = [drain EXCEPT ![r] = NoDrain]
    /\ UNCHANGED <<row, indices, docs, alias, build, faults>>

\* The bulk request fails as a whole, before it was applied or after: the
\* transaction is rolled back, the rows stay pending.
DrainFails(r) ==
    /\ drain[r].at # "idle" /\ faults < MaxFaults
    /\ faults' = faults + 1
    /\ drain' = [drain EXCEPT ![r] = NoDrain]
    /\ UNCHANGED <<catalogue, indices, docs, alias, build>>
-----------------------------------------------------------------------------
(* reindexAll into an index, page by page *)

Scan(b, live) ==
    build' = [build EXCEPT ![b] = [Rest("read") EXCEPT
                  !.live = live, !.todo = Products]]
\* An admin's rebuild writes through the alias.
Target(b) == IF b \in Admins THEN alias ELSE "new"

\* The cursor passes a product whether or not it has a row.
ReadPage(b) ==
    /\ build[b].at = "read"
    /\ \E page \in SUBSET build[b].todo \ {{}} :
           build' = [build EXCEPT ![b].at = "write", ![b].page = page,
                        ![b].todo = @ \ page, ![b].doc = row]
    /\ UNCHANGED <<catalogue, indices, docs, alias, drain, faults>>

WritePage(b) ==
    LET w == build[b] IN
    /\ w.at = "write"
    /\ docs' = [docs EXCEPT ![Target(b)] = [p \in Products |->
           IF p \in w.page /\ w.doc[p] # NoDoc THEN w.doc[p] ELSE @[p]]]
    /\ build' = [build EXCEPT ![b] = [w EXCEPT !.page = {}, !.doc = Empty,
           !.at = IF w.todo = {} THEN "written" ELSE "read"]]
    /\ UNCHANGED <<catalogue, indices, alias, drain, faults>>

\* POST /admin/reindex
AdminReindex(b) ==
    /\ b \in Admins /\ build[b].at = "down"
    /\ Scan(b, alias)
    /\ UNCHANGED <<catalogue, indices, docs, alias, drain, faults>>

AdminDone(b) ==
    /\ b \in Admins /\ build[b].at = "written"
    /\ build' = [build EXCEPT ![b] = Rest("up")]
    /\ UNCHANGED <<catalogue, indices, docs, alias, drain, faults>>
-----------------------------------------------------------------------------
(* ensureIndex, at the boot of a replica *)

Boot(r) ==
    /\ build[r].at = "down"
    /\ build' = [build EXCEPT ![r] = IF alias = "new" THEN Rest("up")
                                     ELSE [Rest("resolved") EXCEPT
                                              !.live = alias]]
    /\ UNCHANGED <<catalogue, indices, docs, alias, drain, faults>>

FallThrough(r) == TRUE
\* "Another replica got there first": this one leaves the alias alone.
CreatesIndex(r) == "new" \notin indices

Create(r) ==
    /\ build[r].at = "resolved"
    /\ IF CreatesIndex(r)
       THEN /\ indices' = indices \cup {"new"}
            /\ docs' = [docs EXCEPT !["new"] = Empty]
            /\ Scan(r, build[r].live)
       ELSE /\ build' = [build EXCEPT ![r] = Rest("up")]
            /\ UNCHANGED <<indices, docs>>
    /\ UNCHANGED <<catalogue, alias, drain, faults>>

Delete(n) ==
    indices' = indices \ {n} /\ docs' = [docs EXCEPT ![n] = Empty]

\* The rebuild fails: the half-filled index is deleted, unless that fails
\* too, and the service goes on without.
BuildFails(b) ==
    /\ build[b].at \in {"read", "write"} /\ faults < MaxFaults
    /\ faults' = faults + 1
    /\ build' = [build EXCEPT ![b] = Rest("up")]
    /\ \/ b \in Replicas /\ Delete("new")
       \/ UNCHANGED <<indices, docs>>
    /\ UNCHANGED <<catalogue, alias, drain>>

SwapAlias(r) ==
    /\ build[r].at = "written"
    /\ alias' = "new"
    /\ build' = [build EXCEPT ![r].at = "swapped"]
    /\ UNCHANGED <<catalogue, indices, docs, drain, faults>>

DeletePrevious(r) ==
    /\ build[r].at = "swapped"
    /\ Delete(build[r].live)
    /\ build' = [build EXCEPT ![r] = Rest("up")]
    /\ UNCHANGED <<catalogue, alias, drain, faults>>

\* The process dies, and boots again.
Crash(r) ==
    /\ build[r].at # "down" /\ faults < MaxFaults
    /\ faults' = faults + 1
    /\ build' = [build EXCEPT ![r] = Rest("down")]
    /\ drain' = [drain EXCEPT ![r] = NoDrain]
    /\ UNCHANGED <<catalogue, indices, docs, alias>>

Drain(r) ==
    \/ SelectPending(r) \/ LoadDocuments(r) \/ Bulk(r) \/ MarkProcessed(r)
Ensure(r) == Boot(r) \/ Create(r) \/ SwapAlias(r) \/ DeletePrevious(r)
Reindex(b) ==
    \/ ReadPage(b) \/ WritePage(b) \/ AdminReindex(b) \/ AdminDone(b)

Next ==
    \/ \E p \in Products : Upsert(p) \/ HardDelete(p)
    \/ \E b \in Builders : Reindex(b) \/ BuildFails(b)
    \/ \E r \in Replicas :
           \/ Drain(r) \/ Ensure(r)
           \/ DrainFails(r) \/ Crash(r)

Spec == Init /\ [][Next]_vars
-----------------------------------------------------------------------------
(* Properties *)

Matches == docs[alias] = row
Quiet ==
    /\ \A r \in Replicas : drain[r].at = "idle" /\ Up(r)
    /\ \A b \in Admins : build[b].at \in {"down", "up"}
    /\ \A i \in DOMAIN outbox : ~Pending(i)

\* "The index catches up, so the worst case is staleness": with nothing left
\* to drain and nobody at work, the index holds every product as its row is
\* now, and none that was deleted.
CaughtUp == Quiet => Matches

\* "The alias never points at an empty index", nor at a half-filled or deleted
\* one: a product that nobody changes can be found throughout a rebuild.
ServesCatalogue ==
    /\ alias \in indices
    /\ \A p \in Products : row[p] = 1 => docs[alias][p] = 1

=============================================================================
