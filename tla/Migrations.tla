----------------------------- MODULE Migrations -----------------------------
(***************************************************************************)
(* packages/database/migrate.js: runners of "up", of several releases and  *)
(* at the same time, over one database.  Nothing but the transactions and  *)
(* the primary key of schema_migrations keeps them apart.  A migration is  *)
(* its version; the checksum stands for the text of the file.              *)
(***************************************************************************)
EXTENDS Naturals, Sequences, SequencesExt

CONSTANTS
    Runners,    \* jobs that run "up"
    Checksums,
    Releases,   \* the files that images have: for each version a checksum
    MaxFailures,    \* bound: statements that fail, processes that die
    Resets      \* whether "down" is run

MigrationsAssumption ==
    /\ Releases \subseteq Seq(Checksums)
    /\ MaxFailures \in Nat /\ Resets \in BOOLEAN

VARIABLES
    schema,     \* the migrations whose statements have taken effect, in order
    recorded,   \* the rows of schema_migrations
    run,        \* the runners
    failures    \* how many there have been

vars == <<schema, recorded, run, failures>>

Versions == UNION {DOMAIN f : f \in Releases}
Rows == [version : Versions, checksum : Checksums]
Row(v, c) == [version |-> v, checksum |-> c]
NoRun == [at |-> "idle", files |-> <<>>, applied |-> {}, next |-> 1]

TypeOK ==
    /\ \A i \in DOMAIN schema : schema[i] \in Rows
    /\ recorded \subseteq Rows
    /\ failures \in 0..MaxFailures
    /\ \A r \in Runners :
           /\ run[r].at \in {"idle", "loop", "transaction", "done", "failed",
                             "refused"}
           /\ run[r].files \in Releases \cup {<<>>}
           /\ run[r].applied \subseteq Rows
           /\ run[r].next \in 1..(Len(run[r].files) + 1)
           /\ run[r].at = "done" => run[r].next = Len(run[r].files) + 1

Init ==
    /\ schema = <<>> /\ recorded = {} /\ failures = 0
    /\ run = [r \in Runners |-> NoRun]
-----------------------------------------------------------------------------
\* The file a runner is at.
Version(r) == run[r].next
File(r) == Row(run[r].next, run[r].files[run[r].next])

\* What it read when it started.
Seen(r) == run[r].applied
Known(r) == {m \in Seen(r) : m.version = Version(r)}

\* A job is started with the files of its image; one that failed is restarted.
Start(r) ==
    /\ \/ run[r].at = "idle" /\ \E f \in Releases :
              run' = [run EXCEPT ![r] =
                  [at |-> "loop", files |-> f, applied |-> recorded,
                   next |-> 1]]
       \/ run[r].at = "failed" /\ run' = [run EXCEPT ![r] =
              [@ EXCEPT !.at = "loop", !.applied = recorded, !.next = 1]]
    /\ UNCHANGED <<schema, recorded, failures>>

Looping(r) == run[r].at = "loop" /\ run[r].next <= Len(run[r].files)

SameSum(r) == File(r) \in Known(r)

Skip(r) ==
    /\ Looping(r) /\ SameSum(r)
    /\ run' = [run EXCEPT ![r].next = @ + 1]
    /\ UNCHANGED <<schema, recorded, failures>>

Refuse(r) ==
    /\ Looping(r) /\ Known(r) # {} /\ ~SameSum(r)
    /\ run' = [run EXCEPT ![r].at = "refused"]
    /\ UNCHANGED <<schema, recorded, failures>>

Begin(r) ==
    /\ Looping(r) /\ Known(r) = {}
    /\ run' = [run EXCEPT ![r].at = "transaction"]
    /\ UNCHANGED <<schema, recorded, failures>>

\* The statements and the row become visible together.  A row that is there by
\* then, and what the statements would create again, fail the transaction.
Exists(v) == \E m \in recorded : m.version = v

NextFile(w) == [w EXCEPT !.at = "loop", !.next = @ + 1]
Throw(w) == [w EXCEPT !.at = "failed"]

Commit(r) ==
    /\ run[r].at = "transaction"
    /\ IF Exists(Version(r))
       THEN /\ run' = [run EXCEPT ![r] = Throw(@)]
            /\ UNCHANGED <<schema, recorded>>
       ELSE /\ schema' = Append(schema, File(r))
            /\ recorded' = recorded \cup {File(r)}
            /\ run' = [run EXCEPT ![r] = NextFile(@)]
    /\ UNCHANGED failures

Fail(r) ==
    /\ failures < MaxFailures /\ failures' = failures + 1
    /\ \/ /\ run[r].at = "transaction"
          /\ run' = [run EXCEPT ![r] = Throw(@)]
       \/ run[r].at = "loop" /\ run' = [run EXCEPT ![r].at = "failed"]
    /\ UNCHANGED <<schema, recorded>>

Finish(r) ==
    /\ run[r].at = "loop" /\ run[r].next > Len(run[r].files)
    /\ run' = [run EXCEPT ![r].at = "done"]
    /\ UNCHANGED <<schema, recorded, failures>>

\* DROP SCHEMA waits for the transactions that are open.
Down ==
    /\ Resets /\ \A r \in Runners : run[r].at # "transaction"
    /\ schema' = <<>> /\ recorded' = {}
    /\ UNCHANGED <<run, failures>>

Step(r) == Start(r) \/ Skip(r) \/ Refuse(r) \/ Begin(r) \/ Commit(r)
           \/ Finish(r)
Next == Down \/ \E r \in Runners : Step(r) \/ Fail(r)
Spec == Init /\ [][Next]_vars
-----------------------------------------------------------------------------
(* Properties *)

\* "Each .sql file in ./migrations runs once, inside a transaction, and is
\* recorded": the rows are what has taken effect, and nothing did twice.
RecordedOnce ==
    /\ ToSet(schema) = recorded
    /\ \A i, j \in DOMAIN schema :
           schema[i].version = schema[j].version => i = j

\* A migration is never applied before an earlier one of the same files.
InOrder ==
    \A i \in DOMAIN schema : \A v \in 1..(schema[i].version - 1) :
        \E j \in 1..i : schema[j].version = v

\* "If a file that has already been applied is edited, the runner refuses to
\* continue rather than silently diverging environments": one that succeeds
\* leaves a database with exactly its files, and maybe later ones.
NoDivergence ==
    \A r \in Runners : run[r].at = "done" =>
        \A v \in DOMAIN run[r].files : Row(v, run[r].files[v]) \in recorded

\* Runners that find themselves in each other's way get through in the end, or
\* are refused.  (To be reached, and for good.)
Settled == \A r \in Runners : run[r].at \in {"done", "refused"}
=============================================================================
