----------------------------- MODULE Inventory -----------------------------
(***************************************************************************)
(* services/inventory: stock levels, reservations with a time to live, the *)
(* audit ledger, and the sweeper that takes expired reservations back.     *)
(*                                                                         *)
(* Every operation of inventoryService.js runs in one transaction that     *)
(* locks the rows it reads (FOR UPDATE) before it writes them, so it is    *)
(* one action here.  The sweeper is not: it selects ids outside any        *)
(* transaction and releases them one by one, from a list that may be stale *)
(* by then.  An outcome that rolls back, or that answers "already done",   *)
(* changes nothing and is a stuttering step.                               *)
(***************************************************************************)
EXTENDS Integers, FiniteSets

CONSTANTS
    Products,       \* product ids a request may name
    Stocked,        \* the products that have an inventory row
    Reservations,   \* reservation ids the database can generate
    Sweeps,         \* executions of the sweep that may overlap: one per
                    \* replica's timer, a slow one still running, POST /sweep
    InitialStock,   \* available units when the system starts
    MaxQty,         \* bound: largest quantity of one line item
    MaxCorrection,  \* bound: largest sum of manual corrections or restocks
    SweepLimit      \* the LIMIT of the sweeper's SELECT

ASSUME StockedAssumption == Stocked \subseteq Products
ASSUME InitialStockAssumption == InitialStock \in [Products -> Nat]
ASSUME ReservationsAssumption == IsFiniteSet(Reservations)
ASSUME BoundsAssumption == /\ MaxQty \in Nat
                           /\ MaxCorrection \in Nat
                           /\ SweepLimit \in Nat \ {0}

VARIABLES
    available,  \* inventory.available of each product
    reserved,   \* inventory.reserved of each product
    status,     \* inventory_reservations.status, "none" before the insert
    items,      \* inventory_reservation_items: units of each product
    overdue,    \* reservations whose expires_at lies in the past
    ledger,     \* inventory_ledger: sum of delta by reason and product
    enqueued,   \* products the last transaction put into catalog_outbox
    sweep       \* ids each sweep selected and has not come to yet

stockVars == <<available, reserved, status, items, ledger, enqueued>>
vars == <<available, reserved, status, items, overdue, ledger, enqueued,
          sweep>>

Quantities == [Products -> 0..MaxQty]
NoItems == [p \in Products |-> 0]
\* The body of a request: at least one item, each quantity at least 1.
Requests == Quantities \ {NoItems}

Statuses == {"none", "held", "committed", "released", "expired"}
\* Operators write free text as the reason of an adjustment; the ledger is
\* grouped by the operation that writes the row.
Reasons == {"reserve", "commit", "released", "expired", "adjust", "restock"}

TypeOK ==
    /\ available \in [Products -> Nat]
    /\ reserved \in [Products -> Nat]
    /\ status \in [Reservations -> Statuses]
    /\ items \in [Reservations -> Quantities]
    /\ overdue \subseteq Reservations
    /\ ledger \in [Reasons -> [Products -> Int]]
    /\ enqueued \subseteq Products
    /\ sweep \in [Sweeps -> SUBSET Reservations]

Init ==
    /\ available = InitialStock
    /\ reserved = NoItems
    /\ status = [r \in Reservations |-> "none"]
    /\ items = [r \in Reservations |-> NoItems]
    /\ overdue = {}
    /\ ledger = [k \in Reasons |-> NoItems]
    /\ enqueued = {}
    /\ sweep = [w \in Sweeps |-> {}]
-----------------------------------------------------------------------------
Plus(f, g) == [p \in Products |-> f[p] + g[p]]
Minus(f, g) == [p \in Products |-> f[p] - g[p]]
ItemsOf(req) == {p \in Products : req[p] > 0}

\* INSERT INTO inventory_ledger, one row for each product with its delta.
Post(reason, delta) == [ledger EXCEPT ![reason] = Plus(@, delta)]
-----------------------------------------------------------------------------
(* reserve *)

CanReserveUnchecked(req) == ItemsOf(req) \subseteq Stocked
\* No shortfall: a row for every item, with enough available.
CanReserve(req) ==
    \A p \in ItemsOf(req) : p \in Stocked /\ available[p] >= req[p]

NothingQueued(req) == {}
\* enqueueReindex for each item.
ReserveReindex(req) == ItemsOf(req)

Reserve(r, req) ==
    /\ status[r] = "none"
    /\ CanReserve(req)
    /\ available' = Minus(available, req)
    /\ reserved' = Plus(reserved, req)
    /\ status' = [status EXCEPT ![r] = "held"]
    /\ items' = [items EXCEPT ![r] = req]
    /\ ledger' = Post("reserve", Minus(NoItems, req))
    /\ enqueued' = ReserveReindex(req)
    /\ UNCHANGED <<overdue, sweep>>
-----------------------------------------------------------------------------
(* commit *)

CommitAlways(r) == status[r] # "none"
\* Only a held reservation is committed; its expires_at is not looked at.
CanCommit(r) == status[r] = "held"

CommitConsumesAgain(r) == Minus(NoItems, items[r])
\* The units left `available` when they were reserved: the row says 0.
CommitDelta(r) == NoItems

Commit(r) ==
    /\ CanCommit(r)
    /\ \A p \in Products : reserved[p] >= items[r][p]  \* CHECK (reserved >= 0)
    /\ reserved' = Minus(reserved, items[r])
    /\ status' = [status EXCEPT ![r] = "committed"]
    /\ ledger' = Post("commit", CommitDelta(r))
    /\ enqueued' = {}
    /\ UNCHANGED <<available, items, overdue, sweep>>
-----------------------------------------------------------------------------
(* release, called by the checkout ("released") and by the sweeper          *)
(* ("expired").                                                             *)

ReleaseAlways(r) == status[r] # "none"
CanRelease(r) == status[r] = "held"

KeepsReserved(r) == reserved
\* GREATEST(reserved - quantity, 0)
ReservedAfterRelease(r) ==
    [p \in Products |-> IF reserved[p] >= items[r][p]
                        THEN reserved[p] - items[r][p] ELSE 0]

Free(r, reason) ==
    /\ CanRelease(r)
    /\ available' = Plus(available, items[r])
    /\ reserved' = ReservedAfterRelease(r)
    /\ status' = [status EXCEPT ![r] = reason]
    /\ ledger' = Post(reason, items[r])
    /\ enqueued' = ItemsOf(items[r])
    /\ UNCHANGED <<items, overdue>>

Release(r) == Free(r, "released") /\ UNCHANGED sweep
-----------------------------------------------------------------------------
(* adjustStock and restock *)

One(p, n) == [NoItems EXCEPT ![p] = n]

\* (rows[0].available === 0) !== (next === 0)
AdjustReindex(p, next) == IF (available[p] = 0) # (next = 0) THEN {p} ELSE {}

AdjustStock(p, delta) ==
    LET next == available[p] + delta IN
    /\ p \in Stocked
    /\ next >= 0
    /\ ledger["adjust"][p] + delta \in -MaxCorrection..MaxCorrection
    /\ available' = [available EXCEPT ![p] = next]
    /\ ledger' = Post("adjust", One(p, delta))
    /\ enqueued' = AdjustReindex(p, next)
    /\ UNCHANGED <<reserved, status, items, overdue, sweep>>

\* A product without an inventory row is skipped, and writes no ledger row.
Restocked(req) == [p \in Products |-> IF p \in Stocked THEN req[p] ELSE 0]

Restock(req) ==
    /\ \A p \in Products : ledger["restock"][p] + req[p] <= MaxCorrection
    /\ available' =
           [p \in Products |-> IF p \in Stocked THEN available[p] + req[p]
                                                ELSE available[p]]
    /\ ledger' = Post("restock", Restocked(req))
    \* rows[0].available === item.quantity, on the updated row
    /\ enqueued' = {p \in ItemsOf(req) \cap Stocked : available'[p] = req[p]}
    /\ UNCHANGED <<reserved, status, items, overdue, sweep>>
-----------------------------------------------------------------------------
(* The clock and the sweeper *)

\* NOW() passes the reservation's expires_at, whatever became of it.
Expire(r) ==
    /\ status[r] # "none"
    /\ r \notin overdue
    /\ overdue' = overdue \cup {r}
    /\ UNCHANGED <<stockVars, sweep>>

SweepableNotYetDue ==
    {r \in Reservations : status[r] = "held" /\ r \notin overdue}
Sweepable == {r \in overdue : status[r] = "held"}

\* SELECT ... WHERE status = 'held' AND expires_at < NOW() LIMIT 100, in no
\* order.  Finding nothing changes nothing.
SweepSelect(w) ==
    /\ sweep[w] = {}
    /\ \E S \in SUBSET Sweepable :
          /\ S # {}
          /\ \/ S = Sweepable /\ Cardinality(S) <= SweepLimit
             \/ Cardinality(S) = SweepLimit
          /\ sweep' = [sweep EXCEPT ![w] = S]
    /\ UNCHANGED <<stockVars, overdue>>

Passed(w, r) == [sweep EXCEPT ![w] = @ \ {r}]

\* release(reason: "expired") of a listed id, unless it has been resolved
\* since it was listed.
SweepRelease(w, r) ==
    /\ r \in sweep[w]
    /\ Free(r, "expired")
    /\ sweep' = Passed(w, r)

\* The id was resolved in the meantime, or its release failed with an error
\* that is logged: the loop goes on.
SweepSkip(w, r) ==
    /\ r \in sweep[w]
    /\ sweep' = Passed(w, r)
    /\ UNCHANGED <<stockVars, overdue>>

\* The process stops in the middle of a sweep: its list is gone.
SweepCrash(w) ==
    /\ sweep[w] # {}
    /\ sweep' = [sweep EXCEPT ![w] = {}]
    /\ UNCHANGED <<stockVars, overdue>>

SweepLoop(w) == \E r \in sweep[w] : SweepRelease(w, r) \/ SweepSkip(w, r)

Sweeper(w) == SweepSelect(w) \/ SweepLoop(w) \/ SweepCrash(w)
-----------------------------------------------------------------------------
Next ==
    \/ \E r \in Reservations :
          \/ \E req \in Requests : Reserve(r, req)
          \/ Commit(r)
          \/ Release(r)
          \/ Expire(r)
    \/ \E p \in Products :
          \E delta \in -MaxCorrection..MaxCorrection :
             delta # 0 /\ AdjustStock(p, delta)
    \/ \E req \in Requests : Restock(req)
    \/ \E w \in Sweeps : Sweeper(w)

Spec == Init /\ [][Next]_vars

\* Time passes; the timer of every replica keeps firing (setInterval) and the
\* loop over the selected ids goes on; and a release that is attempted again
\* and again succeeds in the end, since what makes it fail is a transient
\* database error.
Fairness ==
    /\ \A r \in Reservations : WF_vars(Expire(r))
    /\ \A w \in Sweeps : WF_vars(SweepSelect(w)) /\ WF_vars(SweepLoop(w))
    /\ \A w \in Sweeps, r \in Reservations : SF_vars(SweepRelease(w, r))

FairSpec == Spec /\ Fairness
-----------------------------------------------------------------------------
(* Properties *)

\* The single units of p in reservations whose status is in S.
Units(S, p) ==
    {x \in Reservations \X (1..MaxQty) :
        status[x[1]] \in S /\ x[2] <= items[x[1]][p]}

\* The reserved counter is, at any time, exactly the units of the held
\* reservations.  So the commit never runs into CHECK (reserved >= 0) and the
\* GREATEST of release never hides a miscount, whatever the order in which
\* checkouts, sweeps and retries resolve the reservations.
ReservedMatchesHeld ==
    \A p \in Products : reserved[p] = Cardinality(Units({"held"}, p))

\* What was brought in is either available, held, or consumed by a committed
\* reservation: no interleaving sells a unit twice, returns it twice, or
\* loses it.
StockConserved ==
    \A p \in Products :
        available[p] + Cardinality(Units({"held", "committed"}, p))
            = InitialStock[p] + ledger["adjust"][p] + ledger["restock"][p]

LedgerSum(p) == ledger["reserve"][p] + ledger["commit"][p]
                + ledger["released"][p] + ledger["expired"][p]
                + ledger["adjust"][p] + ledger["restock"][p]

\* "Append-only audit of every stock movement": the initial stock and the
\* ledger rows alone explain the available column.
LedgerExplainsAvailable ==
    \A p \in Products : available[p] = InitialStock[p] + LedgerSum(p)

\* A reservation is resolved once: a late commit, a compensating release and
\* a sweep from a stale list cannot overwrite each other's outcome.
ResolvedOnce ==
    [][\A r \in Reservations :
          status[r] \in {"committed", "released", "expired"}
              => status'[r] = status[r]]_vars

\* The inStock facet of the search document never goes stale silently: the
\* transaction that moves a product to or from zero available units also
\* queues it for indexing.
FacetChangeIsQueued ==
    [][\A p \in Products :
          (available[p] > 0) # (available'[p] > 0) => p \in enqueued']_vars

\* An abandoned reservation does not keep its stock: whoever holds it, however
\* often a sweep fails or dies, it is committed, released or expired.
HoldsEnd ==
    \A r \in Reservations : status[r] = "held" ~> status[r] # "held"
=============================================================================
