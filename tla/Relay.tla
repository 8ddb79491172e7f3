------------------------------- MODULE Relay -------------------------------
(***************************************************************************)
(* The gateway's way to a service: the guard of the route, the proxy, and  *)
(* the service client with its retries.  An attempt that the client has    *)
(* given up is still under way, and the service may carry it out later.    *)
(* The resource is one that a DELETE removes; what a POST or PATCH does is *)
(* counted.                                                                *)
(***************************************************************************)
EXTENDS Naturals

CONSTANTS
    Requests,
    Routes,     \* routes that are asked for
    Callers,    \* who asks
    Attempts,   \* retries + 1
    MaxFaults   \* bound: handlers that fail, connections that break

Methods == {"get", "post", "put", "delete"}
AllRoutes == {"account", "catalog", "search", "reviews", "jobs"}

RelayAssumption ==
    /\ Routes \subseteq AllRoutes
    /\ Callers \subseteq {"anonymous", "customer", "admin"}
    /\ Attempts \in Nat \ {0} /\ MaxFaults \in Nat

VARIABLES
    ask,        \* method, route and caller of each request
    at,         \* where the gateway is with it
    attempt,    \* the attempt it is at
    copies,     \* what the service has of each attempt: its status at last
    answer,     \* the status the caller gets
    effects,    \* how often the handler of a write has taken effect
    exists,     \* the resource
    faults

vars == <<ask, at, attempt, copies, answer, effects, exists, faults>>

NoAsk == [method |-> "get", route |-> "account", caller |-> "anonymous"]
\* What is not a status yet: no answer, and what became of an attempt.
Unanswered == 0
Unsent == 0
Sent == 1
Refused == 2
Statuses == {200, 201, 400, 401, 403, 404, 500, 503, 504}

TypeOK ==
    /\ ask \in [Requests -> [method : Methods, route : AllRoutes,
                             caller : {"anonymous", "customer", "admin"}]]
    /\ at \in [Requests -> {"idle", "guard", "send", "wait", "backoff",
                            "answered"}]
    /\ attempt \in [Requests -> 1..Attempts]
    /\ copies \in [Requests -> [1..Attempts ->
                       Statuses \cup {Unsent, Sent, Refused}]]
    /\ answer \in [Requests -> Statuses \cup {Unanswered}]
    /\ effects \in [Requests -> 0..Attempts]
    /\ exists \in BOOLEAN /\ faults \in 0..MaxFaults

Init ==
    /\ ask = [r \in Requests |-> NoAsk]
    /\ at = [r \in Requests |-> "idle"]
    /\ attempt = [r \in Requests |-> 1]
    /\ copies = [r \in Requests |-> [n \in 1..Attempts |-> Unsent]]
    /\ answer = [r \in Requests |-> Unanswered]
    /\ effects = [r \in Requests |-> 0]
    /\ exists = TRUE /\ faults = 0
-----------------------------------------------------------------------------
(* The gateway *)

Goto(r, l) == at' = [at EXCEPT ![r] = l]
Answer(r, status) ==
    /\ Goto(r, "answered") /\ answer' = [answer EXCEPT ![r] = status]

Ask(r) ==
    /\ at[r] = "idle" /\ Goto(r, "guard")
    /\ \E a \in [method : Methods, route : Routes, caller : Callers] :
           ask' = [ask EXCEPT ![r] = a]
    /\ UNCHANGED <<attempt, copies, answer, effects, exists, faults>>

\* route.methodAuth?.[method] ?? route.auth
RouteAuth(a) ==
    CASE a.route = "account" -> "required"
      [] a.route = "jobs" -> "admin"
      [] OTHER -> "optional"
MethodAuth(a) ==
    CASE a.method # "get" /\ a.route = "catalog" -> "admin"
      [] a.method # "get" /\ a.route = "reviews" -> "required"
      [] a.method \in {"put", "delete"} /\ a.route = "search" -> "admin"
      [] OTHER -> RouteAuth(a)
\* POST /search is a read: a pattern takes it out of the rule for writes.
Policy(a) == MethodAuth(a)

Admitted(a) == \/ Policy(a) = "optional"
               \/ a.caller = "admin"
               \/ Policy(a) = "required" /\ a.caller = "customer"

Guard(r) ==
    /\ at[r] = "guard"
    /\ \/ Admitted(ask[r]) /\ Goto(r, "send") /\ UNCHANGED answer
       \/ /\ ~Admitted(ask[r])
          /\ Answer(r, IF ask[r].caller = "anonymous" THEN 401 ELSE 403)
    /\ UNCHANGED <<ask, attempt, copies, effects, exists, faults>>

AnyMethod(method) == TRUE
\* IDEMPOTENT_METHODS
Retryable(method) == method \in {"get", "put", "delete"}
RetryAgain(r) == Retryable(ask[r].method)
CanRetry(r) == Retryable(ask[r].method) /\ attempt[r] < Attempts

Send(r) ==
    /\ at[r] = "send" /\ Goto(r, "wait")
    /\ copies' = [copies EXCEPT ![r][attempt[r]] = Sent]
    /\ UNCHANGED <<ask, attempt, answer, effects, exists, faults>>

Status(r) == copies[r][attempt[r]]

\* "Relay the upstream status verbatim."
Relayed(status) == status

Receive(r) ==
    /\ at[r] = "wait" /\ Status(r) \in Statuses
    /\ IF Status(r) >= 500 /\ CanRetry(r)
       THEN Goto(r, "backoff") /\ UNCHANGED answer
       ELSE Answer(r, Relayed(Status(r)))
    /\ UNCHANGED <<ask, attempt, copies, effects, exists, faults>>

\* The timeout of an attempt, and what breaks a connection.  Errors that are
\* not known to be transient are not retried.
TimesOut(r) == at[r] = "wait"

GiveUp(r, status) ==
    IF CanRetry(r) THEN Goto(r, "backoff") /\ UNCHANGED answer
                   ELSE Answer(r, status)

Timeout(r) ==
    /\ TimesOut(r) /\ GiveUp(r, 504)
    /\ UNCHANGED <<ask, attempt, copies, effects, exists, faults>>

Reset(r) ==
    /\ at[r] = "wait" /\ faults < MaxFaults /\ faults' = faults + 1
    /\ GiveUp(r, 503) \/ Answer(r, 503)
    /\ UNCHANGED <<ask, attempt, copies, effects, exists>>

Refuse(r) ==
    /\ at[r] = "wait" /\ Status(r) = Sent
    /\ faults < MaxFaults /\ faults' = faults + 1
    /\ copies' = [copies EXCEPT ![r][attempt[r]] = Refused]
    /\ GiveUp(r, 503)
    /\ UNCHANGED <<ask, attempt, effects, exists>>

Backoff(r) ==
    /\ at[r] = "backoff" /\ Goto(r, "send")
    /\ attempt' = [attempt EXCEPT ![r] = @ + 1]
    /\ UNCHANGED <<ask, copies, answer, effects, exists, faults>>
-----------------------------------------------------------------------------
(* The service *)

Done(r, n, status) == copies' = [copies EXCEPT ![r][n] = status]

Handle(r, n) ==
    /\ copies[r][n] = Sent
    /\ \/ /\ ask[r].method = "get" /\ Done(r, n, 200)
          /\ UNCHANGED <<effects, exists>>
       \/ /\ ask[r].method = "post" /\ Done(r, n, 201)
          /\ effects' = [effects EXCEPT ![r] = @ + 1] /\ UNCHANGED exists
       \/ /\ ask[r].method = "post" /\ Done(r, n, 400)
          /\ UNCHANGED <<effects, exists>>
       \/ /\ ask[r].method = "put" /\ Done(r, n, 404)  \* no service has one
          /\ UNCHANGED <<effects, exists>>
       \/ /\ ask[r].method = "delete" /\ exists /\ Done(r, n, 200)
          /\ effects' = [effects EXCEPT ![r] = @ + 1] /\ exists' = FALSE
       \/ /\ ask[r].method = "delete" /\ ~exists /\ Done(r, n, 404)
          /\ UNCHANGED <<effects, exists>>
    /\ UNCHANGED <<ask, at, attempt, answer, faults>>

\* The transaction is rolled back.
HandlerFails(r, n) ==
    /\ copies[r][n] = Sent /\ Done(r, n, 500)
    /\ faults < MaxFaults /\ faults' = faults + 1
    /\ UNCHANGED <<ask, at, attempt, answer, effects, exists>>

Gateway(r) == Guard(r) \/ Send(r) \/ Receive(r) \/ Timeout(r) \/ Backoff(r)
Next == \E r \in Requests :
    \/ Ask(r) \/ Gateway(r) \/ Reset(r) \/ Refuse(r)
    \/ \E n \in 1..Attempts : Handle(r, n) \/ HandlerFails(r, n)
Spec == Init /\ [][Next]_vars
-----------------------------------------------------------------------------
(* Properties *)

\* "Other POSTs stay single-attempt so a genuine write is never replayed":
\* whatever is lost or late, one request does not write twice.
WriteOnce == \A r \in Requests : effects[r] <= 1

\* What the caller is told happened has happened, and what it is told was
\* refused has not and will not: only 500, 503 and 504 leave it open.
AnswerIsTrue ==
    \A r \in Requests :
        /\ answer[r] = 201 => effects[r] = 1
        /\ answer[r] = 400 => effects[r] = 0
        /\ answer[r] \in {401, 403} =>
               \A n \in 1..Attempts : copies[r][n] = Unsent
        /\ ask[r].method = "delete" /\ answer[r] \in {200, 404} => ~exists

\* A write to the catalogue is carried out for admins alone, one to reviews
\* for customers; searching stays open to everybody.
WritesAreGuarded ==
    \A r \in Requests :
        /\ effects[r] > 0 /\ ask[r].route \in {"catalog", "jobs"} =>
               ask[r].caller = "admin"
        /\ effects[r] > 0 /\ ask[r].route \in {"reviews", "account"} =>
               ask[r].caller # "anonymous"
        /\ ask[r].route = "search" /\ ask[r].method \in {"get", "post"} =>
               answer[r] \notin {401, 403}

\* However the service behaves, callers that ask are answered.  (To be reached
\* again and again.)
AtRest == \A r \in Requests : at[r] \in {"idle", "answered"}
=============================================================================
