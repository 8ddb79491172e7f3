------------------------------ MODULE Shutdown ------------------------------
(***************************************************************************)
(* The end of a service process in packages/shared/src/server.js: a signal *)
(* or an exception nobody caught, requests in flight, the hooks of a       *)
(* service with a worker on a timer, and the deadline.  Connections that   *)
(* are idle are closed with the server and not modelled.                   *)
(***************************************************************************)
EXTENDS Naturals

CONSTANT Requests

VARIABLES
    server,     \* the HTTP server: "listening", "closing" or "closed"
    request,    \* each request
    timer,      \* whether the worker's interval is set
    worker,     \* whether the worker has a client of the pool
    pool,
    hook,       \* how many shutdown hooks have run
    deadline,   \* whether the timer of the forced exit is armed
    exit        \* "none" until the process exits, then how

vars == <<server, request, timer, worker, pool, hook, deadline, exit>>

Running == exit = "none"
InFlight == {r \in Requests : request[r] = "running"}

TypeOK ==
    /\ server \in {"listening", "closing", "closed"}
    /\ request \in [Requests -> {"unsent", "running", "answered", "dropped"}]
    /\ timer \in BOOLEAN /\ worker \in BOOLEAN
    /\ pool \in {"open", "ending", "ended"}
    /\ hook \in 0..2 /\ deadline \in BOOLEAN
    /\ exit \in {"none", "clean", "forced"}
    /\ exit = "clean" => hook = 2

Init ==
    /\ server = "listening"
    /\ request = [r \in Requests |-> "unsent"]
    /\ timer = TRUE /\ worker = FALSE /\ pool = "open"
    /\ hook = 0 /\ deadline = FALSE /\ exit = "none"
-----------------------------------------------------------------------------
Accept(r) ==
    /\ Running /\ server = "listening" /\ request[r] = "unsent"
    /\ request' = [request EXCEPT ![r] = "running"]
    /\ UNCHANGED <<server, timer, worker, pool, hook, deadline, exit>>

\* A handler may need the pool until it answers.
Respond(r) ==
    /\ Running /\ request[r] = "running"
    /\ request' = [request EXCEPT ![r] = "answered"]
    /\ UNCHANGED <<server, timer, worker, pool, hook, deadline, exit>>

\* A tick of the worker takes a client, and gives it back at its COMMIT.
Tick ==
    /\ Running /\ timer /\ ~worker /\ pool = "open" /\ worker' = TRUE
    /\ UNCHANGED <<server, request, timer, pool, hook, deadline, exit>>

TickEnds ==
    /\ Running /\ worker /\ worker' = FALSE
    /\ UNCHANGED <<server, request, timer, pool, hook, deadline, exit>>

Armed == TRUE

\* SIGTERM, SIGINT or uncaughtException; another one is ignored.
Shutdown ==
    /\ Running /\ server = "listening"
    /\ server' = "closing" /\ deadline' = Armed
    /\ UNCHANGED <<request, timer, worker, pool, hook, exit>>

AtOnce == TRUE
\* The callback of server.close.
Drained == InFlight = {}

Closed ==
    /\ Running /\ server = "closing" /\ Drained /\ server' = "closed"
    /\ UNCHANGED <<request, timer, worker, pool, hook, deadline, exit>>

\* A hook that throws is logged, and the next one runs.
StopWorker ==
    /\ Running /\ server = "closed" /\ hook = 0 /\ hook' = 1
    /\ timer' = FALSE
    /\ UNCHANGED <<server, request, worker, pool, deadline, exit>>

EndPool ==
    /\ Running /\ hook = 1 /\ pool = "open" /\ pool' = "ending"
    /\ UNCHANGED <<server, request, timer, worker, hook, deadline, exit>>

\* pool.end() resolves when its clients have come back.
ClientsBack == ~worker

PoolEnded ==
    /\ Running /\ pool = "ending" /\ ClientsBack
    /\ pool' = "ended" /\ hook' = 2
    /\ UNCHANGED <<server, request, timer, worker, deadline, exit>>

Exit ==
    /\ Running /\ hook = 2 /\ exit' = "clean" /\ deadline' = FALSE
    /\ UNCHANGED <<server, request, timer, worker, pool, hook>>

\* drainTimeoutMs have passed.
ForceExit ==
    /\ Running /\ deadline /\ exit' = "forced"
    /\ request' = [r \in Requests |->
           IF request[r] = "running" THEN "dropped" ELSE request[r]]
    /\ worker' = FALSE  \* rolled back
    /\ UNCHANGED <<server, timer, pool, hook, deadline>>

Process == Closed \/ StopWorker \/ EndPool \/ PoolEnded \/ Exit \/ ForceExit
Next == Shutdown \/ Tick \/ TickEnds \/ Process
        \/ \E r \in Requests : Accept(r) \/ Respond(r)
Spec == Init /\ [][Next]_vars
-----------------------------------------------------------------------------
(* Properties *)

\* "Let in-flight requests drain, then close pools": no handler meets a pool
\* that is going away.
DrainedFirst == pool # "open" => InFlight = {}

\* A process that exits by itself has dropped no request and cut off no
\* transaction of its worker; only the deadline may.
CleanExit ==
    exit = "clean" =>
        /\ \A r \in Requests : request[r] \in {"unsent", "answered"}
        /\ ~worker /\ pool = "ended"

\* However long handlers, workers and hooks take, the process ends.  (To be
\* reached again and again.)
AtRest == server # "closing" \/ exit # "none"
=============================================================================
