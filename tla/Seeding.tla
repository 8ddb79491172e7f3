------------------------------ MODULE Seeding ------------------------------
(***************************************************************************)
(* packages/database/seed.js run by the seed job, several times, over a    *)
(* shop that is open: customers reserve and buy what it lists, the demo    *)
(* customer changes the account it creates, and the indexer drains the     *)
(* outbox.  What the transaction has written others see at its COMMIT, and *)
(* the rows it has written are locked until then.                          *)
(***************************************************************************)
EXTENDS Naturals, FiniteSets

CONSTANTS
    Products,   \* PRODUCTS, each with a review in REVIEWS
    Stock,      \* units of each
    MaxRuns,    \* bound: times the job is applied
    MaxFailures,    \* bound: statements that fail, processes that die
    Renames     \* whether the demo customer changes its email

SeedingAssumption ==
    /\ Stock \in Nat \ {0} /\ MaxRuns \in Nat \ {0} /\ MaxFailures \in Nat
    /\ Renames \in BOOLEAN

VARIABLES
    account,    \* the user named "demo"
    addresses,  \* how many addresses it has
    hasDefault, \* whether one of them is the default
    listed,     \* products that exist
    available, reserved,    \* inventory
    sold,       \* units that have left
    reviews,    \* products with the seeded review
    outbox,     \* products with a row in catalog_outbox
    indexed,    \* products whose document in the index is up to date
    job,        \* the job: where it is and what its transaction has written
    runs, failures,
    quiet       \* nothing was changed since the job last committed, and the
                \* default that it found then was not unset while it ran

inventory == <<available, reserved, sold>>
customer == <<account, addresses, hasDefault>>
catalog == <<listed, reviews, outbox, indexed>>
counts == <<runs, failures>>
vars == <<customer, catalog, inventory, job, counts, quiet>>

At(l) == [at |-> l, home |-> FALSE, rows |-> {}]

TypeOK ==
    /\ account \in {"none", "seeded", "renamed"}
    /\ addresses \in 0..MaxRuns /\ hasDefault \in BOOLEAN
    /\ listed \in SUBSET Products /\ reviews \in SUBSET listed
    /\ outbox \in SUBSET listed /\ indexed \in SUBSET listed
    /\ available \in [Products -> 0..(MaxRuns * Stock)]
    /\ reserved \in [Products -> 0..(MaxRuns * Stock)]
    /\ sold \in [Products -> 0..(MaxRuns * Stock)]
    /\ job \in [at : {"absent", "users", "address", "products", "commit",
                      "failed"},
                home : BOOLEAN, rows : SUBSET Products]
    /\ runs \in 0..MaxRuns /\ failures \in 0..MaxFailures
    /\ quiet \in BOOLEAN

Init ==
    /\ account = "none" /\ addresses = 0 /\ hasDefault = FALSE
    /\ listed = {} /\ reviews = {} /\ outbox = {} /\ indexed = {}
    /\ available = [p \in Products |-> 0] /\ reserved = available
    /\ sold = available
    /\ job = At("absent") /\ runs = 0 /\ failures = 0 /\ quiet = FALSE
-----------------------------------------------------------------------------
(* The job *)

Apply ==
    /\ job.at = "absent" /\ runs < MaxRuns
    /\ runs' = runs + 1 /\ job' = At("users")
    /\ UNCHANGED <<customer, catalog, inventory, failures, quiet>>

\* restartPolicy: OnFailure.
Restart ==
    /\ job.at = "failed" /\ job' = At("users")
    /\ UNCHANGED <<customer, catalog, inventory, counts, quiet>>

\* ON CONFLICT (email): under another email, the unique username is violated.
UpsertUsers ==
    /\ job.at = "users"
    /\ job' = IF account = "renamed" THEN At("failed") ELSE At("address")
    /\ UNCHANGED <<customer, catalog, inventory, counts, quiet>>

\* ON CONFLICT DO NOTHING: the index allows a user one default address.
AddressIsNew == ~hasDefault

InsertAddress ==
    /\ job.at = "address"
    /\ job' = [At("products") EXCEPT !.home = AddressIsNew]
    /\ UNCHANGED <<customer, catalog, inventory, counts, quiet>>

UpsertProduct(p) ==
    /\ job.at = "products" /\ p \notin job.rows
    /\ job' = [job EXCEPT !.rows = @ \cup {p}]
    /\ UNCHANGED <<customer, catalog, inventory, counts, quiet>>

InsertReviews ==
    /\ job.at = "products" /\ job.rows = Products
    /\ job' = [job EXCEPT !.at = "commit"]
    /\ UNCHANGED <<customer, catalog, inventory, counts, quiet>>

\* What the rows of inventory are set to.
SetTo(p) == Stock

Queue == outbox \cup job.rows

Commit ==
    /\ job.at = "commit" /\ job' = At("absent")
    /\ account' = "seeded"
    /\ addresses' = addresses + IF job.home THEN 1 ELSE 0
    /\ hasDefault' = (hasDefault \/ job.home)
    /\ listed' = listed \cup job.rows /\ reviews' = reviews \cup job.rows
    /\ outbox' = Queue
    \* What was written is not in the index until its row is drained.
    /\ indexed' = indexed \ job.rows
    /\ available' = [p \in Products |->
                        IF p \in job.rows THEN SetTo(p) ELSE available[p]]
    /\ quiet' = hasDefault'
    /\ UNCHANGED <<reserved, sold, counts>>

\* An error rolls all of it back.
CommitWhatWasDone ==
    /\ listed' = listed \cup job.rows /\ outbox' = outbox \cup job.rows
    /\ indexed' = indexed \ job.rows
    /\ UNCHANGED reviews
Rollback == UNCHANGED catalog

Fail ==
    /\ job.at \in {"users", "address", "products", "commit"}
    /\ failures < MaxFailures /\ failures' = failures + 1
    /\ job' = At("failed")
    /\ Rollback
    /\ UNCHANGED <<customer, inventory, runs, quiet>>
-----------------------------------------------------------------------------
(* The shop *)

Free(p) == p \in listed \ job.rows

Reserve(p) ==
    /\ Free(p) /\ available[p] > 0
    /\ available' = [available EXCEPT ![p] = @ - 1]
    /\ reserved' = [reserved EXCEPT ![p] = @ + 1]
    /\ quiet' = FALSE
    /\ UNCHANGED <<customer, catalog, sold, job, counts>>

Held(p) == reserved[p] > 0

Sell(p) ==
    /\ Free(p) /\ Held(p)
    /\ reserved' = [reserved EXCEPT ![p] = @ - 1]
    /\ sold' = [sold EXCEPT ![p] = @ + 1]
    /\ quiet' = FALSE
    /\ UNCHANGED <<customer, catalog, available, job, counts>>

Release(p) ==
    /\ Free(p) /\ Held(p)
    /\ reserved' = [reserved EXCEPT ![p] = @ - 1]
    /\ available' = [available EXCEPT ![p] = @ + 1]
    /\ quiet' = FALSE
    /\ UNCHANGED <<customer, catalog, sold, job, counts>>

\* The row of the demo customer is locked once the job has updated it.
UserFree == job.at \in {"absent", "users", "failed"}

Rename ==
    /\ Renames /\ account = "seeded" /\ UserFree
    /\ account' = "renamed" /\ quiet' = FALSE
    /\ UNCHANGED <<addresses, hasDefault, catalog, inventory, job, counts>>

\* The demo customer has no default any more.
UnsetDefault ==
    /\ hasDefault /\ hasDefault' = FALSE /\ quiet' = FALSE
    /\ UNCHANGED <<account, addresses, catalog, inventory, job, counts>>

\* The indexer reads the rows as they are committed.
Drain(p) ==
    /\ p \in outbox
    /\ outbox' = outbox \ {p} /\ indexed' = indexed \cup {p}
    /\ UNCHANGED <<customer, listed, reviews, inventory, job, counts, quiet>>

Job == Restart \/ UpsertUsers \/ InsertAddress
       \/ (\E p \in Products : UpsertProduct(p)) \/ InsertReviews \/ Commit
Shop == Rename \/ UnsetDefault
        \/ \E p \in Products : Reserve(p) \/ Sell(p) \/ Release(p)
Next == Apply \/ Job \/ Fail \/ Shop \/ \E p \in Products : Drain(p)
Spec == Init /\ [][Next]_vars
-----------------------------------------------------------------------------
(* Properties *)

\* The seed is one transaction: whatever fails, the shop never opens with a
\* part of the catalogue, or with products that have lost their reviews.
WholeCatalogue == listed \in {{}, Products} /\ reviews = listed

\* What the seed has written of a product is in the index or will be.
NothingMissed == listed = indexed \cup outbox

\* "Safe to run repeatedly": a run over a shop nobody has touched since the
\* last one changes nothing but the outbox.
RerunChangesNothing ==
    quiet /\ job.at = "commit" /\ job'.at = "absent" =>
        UNCHANGED <<customer, listed, reviews, inventory>>

\* "Safe to run repeatedly": a job that is applied is carried out, and
\* everything it lists can be found.  (To be reached, and for good.)
Settled == job.at = "absent" /\ listed = indexed
=============================================================================
