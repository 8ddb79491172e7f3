----------------------------- MODULE Idempotency -----------------------------
(***************************************************************************)
(* The store of shared/idempotency.js for one user and one key, and the    *)
(* handler around it: claim, work, complete or abort.  Redis commands are  *)
(* atomic; a handler runs several of them, and its process may die in      *)
(* between.  What the work does to prevent a second order by itself is     *)
(* left out here (Checkout has it).                                        *)
(***************************************************************************)
EXTENDS Naturals, FiniteSets

CONSTANTS
    Callers,    \* requests with this key, the client's retries included
    Bodies,
    Fails,      \* whether the work, or what it tells Redis, may fail
    Expires,    \* whether 300 seconds may pass during a request
    Crashes     \* whether a process may die

IdempotencyAssumption == {Fails, Expires, Crashes} \subseteq BOOLEAN

VARIABLES
    entry,      \* what Redis holds for the key
    at,         \* where each caller is
    body,       \* its request
    answer,     \* what it was answered
    done,       \* the callers whose work has taken effect
    lost        \* whether a claim has been given up, or has lapsed

vars == <<entry, at, body, answer, done, lost>>

Nobody == "nobody"
Absent == [state |-> "absent", body |-> Nobody, result |-> Nobody]
InFlight(b) == [state |-> "in flight", body |-> b, result |-> Nobody]
Done(b, c) == [state |-> "done", body |-> b, result |-> c]

\* A result is named by the caller whose work it is.
Entries == {Absent} \cup {InFlight(b) : b \in Bodies}
               \cup {Done(b, c) : b \in Bodies, c \in Callers}

TypeOK ==
    /\ entry \in Entries
    /\ at \in [Callers -> {"idle", "claim", "get", "work", "complete",
                           "abort", "answered", "dead"}]
    /\ body \in [Callers -> Bodies \cup {Nobody}]
    /\ answer \in [Callers -> {"none", "created", "replayed", "conflict",
                               "other body", "failed"}]
    /\ lost \in BOOLEAN
    /\ entry.state = "done" => entry.result \in done

Init ==
    /\ entry = Absent
    /\ at = [c \in Callers |-> "idle"]
    /\ body = [c \in Callers |-> Nobody]
    /\ answer = [c \in Callers |-> "none"]
    /\ done = {}
    /\ lost = FALSE
-----------------------------------------------------------------------------
Goto(c, l) == at' = [at EXCEPT ![c] = l]
Answer(c, a) == answer' = [answer EXCEPT ![c] = a]

Request(c) ==
    /\ at[c] = "idle"
    /\ \E b \in Bodies : body' = [body EXCEPT ![c] = b]
    /\ Goto(c, "claim")
    /\ UNCHANGED <<entry, answer, done, lost>>

\* SET NX with the claim.
Overwrites(e) == e.state # "done"
Claims(e) == e.state = "absent"

SetNX(c) ==
    /\ at[c] = "claim"
    /\ IF Claims(entry)
       THEN entry' = InFlight(body[c]) /\ Goto(c, "work")
       ELSE Goto(c, "get") /\ UNCHANGED entry
    /\ UNCHANGED <<body, answer, done, lost>>

\* GET, by then of whatever there is: nothing counts as new.
SameBody(c) == entry.body = body[c]

Get(c) ==
    /\ at[c] = "get"
    /\ \/ /\ entry = Absent
          /\ Goto(c, "work") /\ UNCHANGED answer
       \/ /\ entry # Absent
          /\ Goto(c, "answered")
          /\ Answer(c, CASE ~SameBody(c) -> "other body"
                         [] SameBody(c) /\ entry.state = "in flight" ->
                                "conflict"
                         [] SameBody(c) /\ entry.state = "done" -> "replayed")
    /\ UNCHANGED <<entry, body, done, lost>>

Work(c) ==
    /\ at[c] = "work"
    /\ \/ Goto(c, "complete") /\ done' = done \cup {c}
       \/ Fails /\ Goto(c, "abort") /\ UNCHANGED done
    /\ UNCHANGED <<entry, body, answer, lost>>

\* A result that cannot be stored counts as a failure of the work.
Complete(c) ==
    /\ at[c] = "complete"
    /\ \/ /\ entry' = Done(body[c], c)
          /\ Answer(c, "created") /\ Goto(c, "answered")
       \/ /\ Fails
          /\ entry' \in {entry, Done(body[c], c)}
          /\ Goto(c, "abort") /\ UNCHANGED answer
    /\ UNCHANGED <<body, done, lost>>

\* The key is deleted, whoever has claimed it by now.
Abort(c) ==
    /\ at[c] = "abort"
    /\ \/ entry' = Absent /\ lost' = TRUE
       \/ Fails /\ UNCHANGED <<entry, lost>>
    /\ Answer(c, "failed") /\ Goto(c, "answered")
    /\ UNCHANGED <<body, done>>

\* The claim is given 300 seconds; a result outlives every retry.
Lapses(e) == e.state = "in flight"

Expire ==
    /\ Lapses(entry)
    /\ Expires \/ \A c \in Callers : at[c] \notin {"work", "complete", "abort"}
    /\ entry' = Absent
    /\ lost' = TRUE
    /\ UNCHANGED <<at, body, answer, done>>

Crash(c) ==
    /\ Crashes
    /\ at[c] \in {"claim", "get", "work", "complete", "abort"}
    /\ Goto(c, "dead")
    /\ UNCHANGED <<entry, body, answer, done, lost>>

Step(c) == SetNX(c) \/ Get(c) \/ Work(c) \/ Complete(c) \/ Abort(c)

Next == Expire \/ \E c \in Callers : Request(c) \/ Step(c) \/ Crash(c)
Spec == Init /\ [][Next]_vars
-----------------------------------------------------------------------------
(* Properties *)

Working == {c \in Callers : at[c] \in {"work", "complete"}}

\* "Or throws 409 when the same key is already being processed": no two
\* requests are worked on at a time.
OneAtATime == Cardinality(Working) <= 1

\* "A client retrying a checkout after a timeout must not be charged twice":
\* the work of a key takes effect once.
OnlyOnce == Cardinality(done) <= 1

\* Who is told of a result gets one of work that was done, and for the request
\* it has made: also of a result that was stored late, over a newer claim.
AnswersAreTrue ==
    \A c \in Callers :
        /\ answer[c] = "created" => c \in done
        /\ answer[c] = "replayed" => \E d \in done : body[d] = body[c]

\* Of the requests with one key one is worked on, and once, until a claim is
\* given up or lapses; a process that dies does not let a second one in before.
OneForAKey ==
    /\ TypeOK
    /\ AnswersAreTrue
    /\ ~lost => OneAtATime /\ OnlyOnce

\* "Release a claim so a genuine retry after a crash is not blocked": a claim
\* does not stay when nobody is working, so that this holds time and again.
Unclaimed == entry.state # "in flight"
=============================================================================
