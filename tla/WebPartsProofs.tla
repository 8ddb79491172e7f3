---------------------------- MODULE WebPartsProofs ----------------------------
(***************************************************************************)
(* Proofs about the parts that MCWeb puts beside Sessions: the way to a    *)
(* service, the shutdown of one, the migrations of a release, the query    *)
(* cache of a page, the refreshes of a browser's tabs, the seed of the     *)
(* shop and the checkout page. Each is on its own, with constants and      *)
(* variables of its own; WebProofs says what they show of the run.         *)
(***************************************************************************)
EXTENDS Integers, Sequences, Functions, FiniteSetTheorems, SequenceTheorems,
        WellFoundedInduction, TLAPS

CONSTANTS
    Requests, Routes, Callers, Attempts, MaxFaults,   \* Relay
    Connections,   \* Shutdown
    Runners, Checksums, Releases, MaxFailures, Resets,   \* Migrations
    Users, Keys, WriteThrough, Hooks, MoreTabs, MaxVersion,   \* QueryCache
    Tabs, Refreshers, MaxTokens, Signs, Faults,   \* BrowserSession
    Products, Stock, MaxRuns, MaxErrors, Renames,   \* Seeding
    Addresses, Prices, MaxMounts, MaxRequests, Losses   \* WebCheckout

VARIABLES
    ask, at, attempt, copies, answer, effects, exists, faults,   \* Relay
    listener, request, timer, worker, pool, hook, deadline, exit,   \* Shutdown
    schema, recorded, run, failures,   \* Migrations
    user, bearer, holder, data, cache, query, write, own,   \* QueryCache
    cookie, live, issued, page, access, promise, flight,   \* BrowserSession
    account, addresses, hasDefault, listed, available, reserved, sold, reviews,
    outbox, indexed, job, runs, crashes, quiet,   \* Seeding
    step, address, payment, mount, seen, preview, waiting, told, requests,
    store, used, orders, cart, price   \* WebCheckout

Relay == INSTANCE Relay

Shutdown == INSTANCE Shutdown WITH
    Requests <- Connections, server <- listener

Migrations == INSTANCE Migrations

Cache == INSTANCE QueryCache WITH
    OtherTab <- MoreTabs, token <- bearer, cookie <- holder, server <- data

Page == INSTANCE BrowserSession WITH Callers <- Refreshers

Seeding == INSTANCE Seeding WITH
    MaxFailures <- MaxErrors, failures <- crashes

WebCheckout == INSTANCE WebCheckout

-----------------------------------------------------------------------------
(* The way to a service (Relay) *)

\* What the service can have answered to each method.
ReplyTo(method) ==
    CASE method = "get" -> {200, 500}
      [] method = "post" -> {201, 400, 500}
      [] method = "put" -> {404, 500}
      [] method = "delete" -> {200, 404, 500}

\* The gateway is at one attempt, later ones have not been sent; only what may
\* be repeated gets past the first.
AttemptsInOrder(r) ==
    /\ \A n \in 1..Attempts : n > attempt[r] => copies[r][n] = Relay!Unsent
    /\ at[r] \in {"idle", "guard", "send"} =>
           copies[r][attempt[r]] = Relay!Unsent
    /\ at[r] \in {"idle", "guard"} => attempt[r] = 1
    /\ at[r] = "idle" => ask[r].method = "get"
    /\ at[r] = "backoff" =>
           Relay!Retryable(ask[r].method) /\ attempt[r] < Attempts
    /\ ask[r].method = "post" => attempt[r] = 1

\* The copies tell what has taken effect: a POST has one copy, a DELETE finds
\* the resource once.
EffectsAreTold(r) ==
    /\ \A n \in 1..Attempts :
           copies[r][n] \in ReplyTo(ask[r].method)
               \cup {Relay!Unsent, Relay!Sent, Relay!Refused}
    /\ ask[r].method \in {"get", "put"} => effects[r] = 0
    /\ ask[r].method = "post" =>
           effects[r] = IF copies[r][1] = 201 THEN 1 ELSE 0
    /\ ask[r].method = "delete" =>
           /\ effects[r] \in {0, 1} /\ (exists => effects[r] = 0)
           /\ \A n \in 1..Attempts : copies[r][n] \in {200, 404} => ~exists

\* An answer is that of a copy, or of the gateway.
AnswerIsACopy(r) ==
    /\ at[r] # "answered" => answer[r] = Relay!Unanswered
    /\ \/ answer[r] \in {Relay!Unanswered, 401, 403, 500, 503, 504}
       \/ \E n \in 1..Attempts : answer[r] = copies[r][n]
    /\ answer[r] \in {401, 403} =>
           ~Relay!Admitted(ask[r]) /\ attempt[r] = 1 /\
               copies[r][1] = Relay!Unsent

\* Only what was admitted is sent.
SentIsAdmitted(r) ==
    /\ at[r] \in {"send", "wait", "backoff"} => Relay!Admitted(ask[r])
    /\ \A n \in 1..Attempts : copies[r][n] # Relay!Unsent =>
           Relay!Admitted(ask[r])
    /\ effects[r] > 0 => Relay!Admitted(ask[r])

InOrder(r) == /\ AttemptsInOrder(r) /\ EffectsAreTold(r)
              /\ AnswerIsACopy(r) /\ SentIsAdmitted(r)
RelayInv == Relay!TypeOK /\ \A r \in Requests : InOrder(r)

\* What is not a status lies below those that are.
LEMMA RelayNumbers ==
    /\ Relay!Unsent = 0 /\ Relay!Sent = 1 /\ Relay!Refused = 2
    /\ Relay!Unanswered = 0
    /\ \A m \in Relay!Methods : ReplyTo(m) \subseteq {200, 201, 400, 404, 500}
    /\ ReplyTo("get") = {200, 500} /\ ReplyTo("post") = {201, 400, 500}
    /\ ReplyTo("put") = {404, 500} /\ ReplyTo("delete") = {200, 404, 500}
    /\ Relay!Statuses = {200, 201, 400, 401, 403, 404, 500, 503, 504}
BY 
DEF Relay!Unsent, Relay!Sent, Relay!Refused, Relay!Unanswered, Relay!Methods,
    ReplyTo, Relay!Statuses

\* Setting one entry of a table.
LEMMA SetEntry ==
    ASSUME NEW S, NEW N, NEW T, NEW f \in [S -> [N -> T]],
           NEW s \in S, NEW n \in N, NEW v \in T, NEW g,
           g = [f EXCEPT ![s][n] = v]
    PROVE  /\ g \in [S -> [N -> T]] /\ g[s][n] = v
           /\ \A m \in N : m # n => g[s][m] = f[s][m]
           /\ \A q \in S : q # s => g[q] = f[q]
<1> DEFINE h == [f[s] EXCEPT ![n] = v]
<1>1. h \in [N -> T] /\ h[n] = v /\ \A m \in N : m # n => h[m] = f[s][m]
  OBVIOUS
<1>2. g = [f EXCEPT ![s] = h]
  OBVIOUS
<1> HIDE DEF h
<1>3. g \in [S -> [N -> T]] /\ g[s] = h /\ \A q \in S : q # s => g[q] = f[q]
  BY <1>1, <1>2
<1> QED
  BY <1>1, <1>3

\* Nothing has been asked for at first.
LEMMA InitRelayInv == Relay!RelayAssumption /\ Relay!Init => RelayInv
<1> SUFFICES ASSUME Relay!RelayAssumption, Relay!Init PROVE RelayInv
  OBVIOUS
<1>1. Relay!NoAsk \in [method : Relay!Methods, route : Relay!AllRoutes,
                       caller : {"anonymous", "customer", "admin"}]
      /\ Relay!NoAsk.method = "get"
  BY DEF Relay!NoAsk, Relay!Methods, Relay!AllRoutes
<1>2. Relay!TypeOK
  BY <1>1, RelayNumbers DEF Relay!Init, Relay!TypeOK, Relay!RelayAssumption
<1>3. ASSUME NEW r \in Requests PROVE InOrder(r)
  <2>1. /\ ask[r] = Relay!NoAsk /\ at[r] = "idle" /\ attempt[r] = 1
        /\ 1 \in 1..Attempts
        /\ \A n \in 1..Attempts : copies[r][n] = 0
        /\ answer[r] = 0 /\ effects[r] = 0 /\ exists = TRUE
    BY RelayNumbers DEF Relay!Init, Relay!RelayAssumption
  <2>2. AttemptsInOrder(r)
    BY <1>1, <2>1, RelayNumbers DEF AttemptsInOrder
  <2>3. EffectsAreTold(r)
    BY <1>1, <2>1, RelayNumbers DEF EffectsAreTold
  <2>4. AnswerIsACopy(r) /\ SentIsAdmitted(r)
    BY <1>1, <2>1, RelayNumbers DEF AnswerIsACopy, SentIsAdmitted
  <2> QED
    BY <2>2, <2>3, <2>4 DEF InOrder
<1> QED
  BY <1>2, <1>3 DEF RelayInv

\* A step of one request leaves the others in order.
LEMMA OthersInOrder ==
    ASSUME NEW q \in Requests, InOrder(q),
           ask'[q] = ask[q], at'[q] = at[q], attempt'[q] = attempt[q],
           copies'[q] = copies[q], answer'[q] = answer[q],
           effects'[q] = effects[q], exists' => exists
    PROVE  InOrder(q)'
BY DEF InOrder, AttemptsInOrder, EffectsAreTold, AnswerIsACopy, SentIsAdmitted

\* The tables of the requests, one by one.
LEMMA RelayTyped ==
    ASSUME Relay!RelayAssumption, Relay!TypeOK, NEW r \in Requests
    PROVE  /\ ask[r].method \in Relay!Methods /\ attempt[r] \in 1..Attempts
           /\ attempt[r] \in Nat /\ Attempts \in Nat \ {0} /\ 1 \in 1..Attempts
           /\ \A n \in 1..Attempts :
                  copies[r][n] \in Relay!Statuses \cup {0, 1, 2}
           /\ answer[r] \in Relay!Statuses \cup {0} /\ effects[r] \in Nat
BY RelayNumbers DEF Relay!RelayAssumption, Relay!TypeOK

\* The gateway's steps that send nothing and take back nothing.
LEMMA AskInOrder ==
    ASSUME Relay!RelayAssumption, RelayInv, NEW r \in Requests, Relay!Ask(r)
    PROVE  RelayInv'
<1> USE DEF RelayInv
<1>1. PICK a \in [method : Relay!Methods, route : Routes, caller : Callers] :
          ask' = [ask EXCEPT ![r] = a]
  BY DEF Relay!Ask
<1>2. Relay!TypeOK'
  <2>1. a \in [method : Relay!Methods, route : Relay!AllRoutes,
               caller : {"anonymous", "customer", "admin"}]
    BY DEF Relay!RelayAssumption
  <2> QED
    BY <1>1, <2>1 DEF Relay!Ask, Relay!Goto, Relay!TypeOK
<1>3. /\ at[r] = "idle" /\ at'[r] = "guard" /\ attempt[r] = 1 /\ answer[r] = 0
      /\ \A n \in 1..Attempts : copies[r][n] = 0
      /\ effects[r] = 0
  <2>1. at[r] = "idle" /\ at'[r] = "guard"
    BY DEF Relay!Ask, Relay!Goto, Relay!TypeOK
  <2>2. /\ attempt[r] = 1 /\ copies[r][1] = 0 /\ ask[r].method = "get"
        /\ \A n \in 1..Attempts : n > 1 => copies[r][n] = 0
    BY <2>1, RelayNumbers DEF InOrder, AttemptsInOrder
  <2>3. answer[r] = 0
    BY <2>1, RelayNumbers DEF InOrder, AnswerIsACopy
  <2>4. effects[r] = 0
    BY <2>2 DEF InOrder, EffectsAreTold
  <2>5. \A n \in 1..Attempts : n = 1 \/ n > 1
    BY DEF Relay!RelayAssumption
  <2> QED
    BY <2>1, <2>2, <2>3, <2>4, <2>5
<1>4. UNCHANGED <<attempt, copies, answer, effects, exists>>
  BY DEF Relay!Ask
<1>5. InOrder(r)'
  <2>1. AttemptsInOrder(r)'
    BY <1>3, <1>4, RelayTyped, RelayNumbers DEF AttemptsInOrder
  <2>2. EffectsAreTold(r)'
    BY <1>3, <1>4, RelayTyped, RelayNumbers DEF EffectsAreTold
  <2>3. AnswerIsACopy(r)' /\ SentIsAdmitted(r)'
    BY <1>3, <1>4, RelayNumbers DEF AnswerIsACopy, SentIsAdmitted
  <2> QED
    BY <2>1, <2>2, <2>3 DEF InOrder
<1>6. ASSUME NEW q \in Requests, q # r PROVE InOrder(q)'
  BY <1>1, <1>4, <1>6, OthersInOrder DEF Relay!Ask, Relay!Goto, Relay!TypeOK
<1> QED
  BY <1>2, <1>5, <1>6

\* An attempt is sent: the service has one copy more.
LEMMA SendInOrder ==
    ASSUME Relay!RelayAssumption, RelayInv, NEW r \in Requests, Relay!Send(r)
    PROVE  RelayInv'
<1> USE DEF RelayInv
<1> DEFINE a == attempt[r]
<1>1. /\ at[r] = "send" /\ at'[r] = "wait" /\ a \in 1..Attempts
      /\ UNCHANGED <<ask, attempt, answer, effects, exists, faults>>
      /\ copies'[r][a] = 1
      /\ \A n \in 1..Attempts : n # a => copies'[r][n] = copies[r][n]
      /\ \A q \in Requests : q # r => at'[q] = at[q] /\ copies'[q] = copies[q]
  <2>1. /\ at[r] = "send" /\ at'[r] = "wait" /\ a \in 1..Attempts
        /\ \A q \in Requests : q # r => at'[q] = at[q]
        /\ UNCHANGED <<ask, attempt, answer, effects, exists, faults>>
    BY DEF Relay!Send, Relay!Goto, Relay!TypeOK
  <2>2. /\ copies \in [Requests -> [1..Attempts ->
                     Relay!Statuses \cup {0, 1, 2}]]
        /\ copies' = [copies EXCEPT ![r][a] = 1]
    BY RelayNumbers DEF Relay!Send, Relay!TypeOK
  <2> QED
    BY <2>1, <2>2, SetEntry
<1>2. Relay!TypeOK'
  BY <1>1, RelayNumbers DEF Relay!Send, Relay!Goto, Relay!TypeOK
<1>3. copies[r][a] = 0 /\ answer[r] = 0
  BY <1>1, RelayNumbers DEF InOrder, AttemptsInOrder, AnswerIsACopy
<1>4. InOrder(r)'
  <2>1. AttemptsInOrder(r)'
    BY <1>1, RelayTyped, RelayNumbers DEF InOrder, AttemptsInOrder
  <2>2. EffectsAreTold(r)'
    BY <1>1, <1>3, RelayTyped, RelayNumbers DEF InOrder, EffectsAreTold
  <2>3. AnswerIsACopy(r)' /\ SentIsAdmitted(r)'
    BY <1>1, <1>3, RelayNumbers DEF InOrder, AnswerIsACopy, SentIsAdmitted
  <2> QED
    BY <2>1, <2>2, <2>3 DEF InOrder
<1>5. ASSUME NEW q \in Requests, q # r PROVE InOrder(q)'
  BY <1>1, <1>5, OthersInOrder
<1> QED
  BY <1>2, <1>4, <1>5

\* The gateway goes on to its next step, or answers.
LEMMA GatewayInOrder ==
    ASSUME Relay!RelayAssumption, RelayInv, NEW r \in Requests,
           UNCHANGED <<ask, attempt, copies, effects, exists>>,
           faults' \in 0..MaxFaults,
           \/ /\ at' = [at EXCEPT ![r] = "send"] /\ UNCHANGED answer
              /\ at[r] = "guard" /\ Relay!Admitted(ask[r])
           \/ /\ at' = [at EXCEPT ![r] = "backoff"] /\ UNCHANGED answer
              /\ at[r] = "wait" /\ Relay!CanRetry(r)
           \/ \E status \in Relay!Statuses :
                 /\ Relay!Answer(r, status)
                 /\ \/ /\ status \in {401, 403} /\ at[r] = "guard"
                       /\ ~Relay!Admitted(ask[r])
                    \/ at[r] = "wait" /\ status \in {500, 503, 504}
                    \/ at[r] = "wait" /\ status = copies[r][attempt[r]]
    PROVE  RelayInv'
<1> USE DEF RelayInv
<1>1. \A q \in Requests : q # r => at'[q] = at[q] /\ answer'[q] = answer[q]
  BY DEF Relay!Answer, Relay!Goto, Relay!TypeOK
<1>2. Relay!TypeOK'
  <2>1. at' \in [Requests -> {"idle", "guard", "send", "wait", "backoff",
                             "answered"}]
    BY DEF Relay!Answer, Relay!Goto, Relay!TypeOK
  <2>2. answer' \in [Requests -> Relay!Statuses \cup {Relay!Unanswered}]
    BY DEF Relay!Answer, Relay!TypeOK
  <2> QED
    BY <2>1, <2>2 DEF Relay!TypeOK
<1>3. ASSUME NEW q \in Requests, q # r PROVE InOrder(q)'
  BY <1>1, <1>3, OthersInOrder
<1>4. EffectsAreTold(r)'
  BY DEF InOrder, EffectsAreTold
<1>5. CASE /\ at' = [at EXCEPT ![r] = "send"] /\ UNCHANGED answer
           /\ at[r] = "guard" /\ Relay!Admitted(ask[r])
  <2>1. at'[r] = "send"
    BY <1>5 DEF Relay!TypeOK
  <2>2. AttemptsInOrder(r)' /\ AnswerIsACopy(r)' /\ SentIsAdmitted(r)'
    BY <1>5, <2>1, RelayNumbers
       DEF InOrder, AttemptsInOrder, AnswerIsACopy, SentIsAdmitted
  <2> QED
    BY <1>2, <1>3, <1>4, <2>2 DEF InOrder
<1>6. CASE /\ at' = [at EXCEPT ![r] = "backoff"] /\ UNCHANGED answer
           /\ at[r] = "wait" /\ Relay!CanRetry(r)
  <2>1. at'[r] = "backoff"
    BY <1>6 DEF Relay!TypeOK
  <2>2. AttemptsInOrder(r)' /\ AnswerIsACopy(r)' /\ SentIsAdmitted(r)'
    BY <1>6, <2>1, RelayNumbers
       DEF InOrder, AttemptsInOrder, AnswerIsACopy, SentIsAdmitted,
           Relay!CanRetry
  <2> QED
    BY <1>2, <1>3, <1>4, <2>2 DEF InOrder
<1>7. ASSUME NEW status \in Relay!Statuses, Relay!Answer(r, status),
             \/ /\ status \in {401, 403} /\ at[r] = "guard"
                /\ ~Relay!Admitted(ask[r])
             \/ at[r] = "wait" /\ status \in {500, 503, 504}
             \/ at[r] = "wait" /\ status = copies[r][attempt[r]]
      PROVE  RelayInv'
  <2>1. at'[r] = "answered" /\ answer'[r] = status
    BY <1>7 DEF Relay!Answer, Relay!Goto, Relay!TypeOK
  <2>2. AttemptsInOrder(r)' /\ SentIsAdmitted(r)'
    BY <1>7, <2>1 DEF InOrder, AttemptsInOrder, SentIsAdmitted
  <2>3. AnswerIsACopy(r)'
    <3>1. CASE status \in {401, 403} /\ at[r] = "guard" /\
                   ~Relay!Admitted(ask[r])
      BY <2>1, <3>1, RelayNumbers DEF InOrder, AttemptsInOrder, AnswerIsACopy
    <3>2. CASE status \in {500, 503, 504}
      BY <2>1, <3>2, RelayNumbers DEF AnswerIsACopy
    <3>3. CASE status = copies[r][attempt[r]]
      <4>1. attempt[r] \in 1..Attempts
        BY DEF Relay!TypeOK
      <4>2. copies[r][attempt[r]] \notin {401, 403}
        BY <4>1, RelayTyped, RelayNumbers DEF InOrder, EffectsAreTold
      <4> QED
        BY <2>1, <3>3, <4>1, <4>2 DEF AnswerIsACopy
    <3> QED
      BY <1>7, <3>1, <3>2, <3>3
  <2> QED
    BY <1>2, <1>3, <1>4, <2>2, <2>3 DEF InOrder
<1> QED
  BY <1>5, <1>6, <1>7

\* The wait before a retry is over.
LEMMA BackoffInOrder ==
    ASSUME Relay!RelayAssumption, RelayInv, NEW r \in Requests,
           Relay!Backoff(r)
    PROVE  RelayInv'
<1> USE DEF RelayInv
<1>1. /\ at[r] = "backoff" /\ at'[r] = "send"
      /\ attempt'[r] = attempt[r] + 1
      /\ UNCHANGED <<ask, copies, answer, effects, exists, faults>>
      /\ \A q \in Requests : q # r =>
             at'[q] = at[q] /\ attempt'[q] = attempt[q]
  BY DEF Relay!Backoff, Relay!Goto, Relay!TypeOK
<1>2. /\ Relay!Retryable(ask[r].method) /\ attempt[r] < Attempts
      /\ ask[r].method # "post"
  BY <1>1 DEF InOrder, AttemptsInOrder, Relay!Retryable
<1>3. attempt[r] + 1 \in 1..Attempts
  BY <1>2, RelayTyped
<1>4. Relay!TypeOK'
  BY <1>3 DEF Relay!Backoff, Relay!Goto, Relay!TypeOK
<1>5. InOrder(r)'
  <2>1. AttemptsInOrder(r)'
    BY <1>1, <1>2, <1>3, RelayTyped DEF InOrder, AttemptsInOrder
  <2>2. EffectsAreTold(r)' /\ SentIsAdmitted(r)'
    BY <1>1 DEF InOrder, EffectsAreTold, SentIsAdmitted
  <2>3. AnswerIsACopy(r)'
    BY <1>1, RelayNumbers DEF InOrder, AnswerIsACopy
  <2> QED
    BY <2>1, <2>2, <2>3 DEF InOrder
<1>6. ASSUME NEW q \in Requests, q # r PROVE InOrder(q)'
  BY <1>1, <1>6, OthersInOrder
<1> QED
  BY <1>4, <1>5, <1>6

\* The service answers a copy, the handler of a write takes effect at most
\* once.
LEMMA CopyInOrder ==
    ASSUME Relay!RelayAssumption, RelayInv, NEW r \in Requests,
           NEW n \in 1..Attempts,
           copies[r][n] = Relay!Sent,
           NEW status \in Relay!Statuses \cup {Relay!Refused},
           Relay!Done(r, n, status),
           UNCHANGED <<ask, at, attempt, answer>>, faults' \in 0..MaxFaults,
           \/ /\ status \in {500, Relay!Refused} /\
                     UNCHANGED <<effects, exists>>
           \/ /\ ask[r].method = "get" /\ status = 200
              /\ UNCHANGED <<effects, exists>>
           \/ /\ ask[r].method = "post" /\ status = 201
              /\ effects' = [effects EXCEPT ![r] = @ + 1] /\ UNCHANGED exists
           \/ /\ ask[r].method = "post" /\ status = 400
              /\ UNCHANGED <<effects, exists>>
           \/ /\ ask[r].method = "put" /\ status = 404
              /\ UNCHANGED <<effects, exists>>
           \/ /\ ask[r].method = "delete" /\ exists /\ status = 200
              /\ effects' = [effects EXCEPT ![r] = @ + 1] /\ exists' = FALSE
           \/ /\ ask[r].method = "delete" /\ ~exists /\ status = 404
              /\ UNCHANGED <<effects, exists>>
    PROVE  RelayInv'
<1> USE DEF RelayInv
<1>1. /\ copies'[r][n] = status
      /\ \A m \in 1..Attempts : m # n => copies'[r][m] = copies[r][m]
      /\ \A q \in Requests : q # r => /\ copies'[q] = copies[q]
                                      /\ effects'[q] = effects[q]
      /\ exists' => exists
      /\ status \in Relay!Statuses \cup {2} /\ status # 0 /\ status # 1
  <2>1. /\ copies \in [Requests -> [1..Attempts ->
                     Relay!Statuses \cup {0, 1, 2}]]
        /\ copies' = [copies EXCEPT ![r][n] = status]
        /\ status \in Relay!Statuses \cup {0, 1, 2}
    BY RelayNumbers DEF Relay!Done, Relay!TypeOK
  <2>2. \A q \in Requests : q # r => effects'[q] = effects[q]
    BY DEF Relay!TypeOK
  <2>3. exists' => exists
    OBVIOUS
  <2>4. status \in Relay!Statuses \cup {2} /\ status # 0 /\ status # 1
    BY RelayNumbers
  <2> QED
    <3>1. /\ copies'[r][n] = status
          /\ \A m \in 1..Attempts : m # n => copies'[r][m] = copies[r][m]
          /\ \A q \in Requests : q # r => copies'[q] = copies[q]
      <4> DEFINE T == Relay!Statuses \cup {0, 1, 2}
                 N == 1..Attempts
      <4>1. /\ copies \in [Requests -> [N -> T]] /\ status \in T
            /\ r \in Requests /\ n \in N
            /\ copies' = [copies EXCEPT ![r][n] = status]
        BY <2>1
      <4> HIDE DEF T, N
      <4>2. /\ copies'[r][n] = status
            /\ \A m \in N : m # n => copies'[r][m] = copies[r][m]
            /\ \A q \in Requests : q # r => copies'[q] = copies[q]
        BY ONLY <4>1, SetEntry
      <4> QED
        BY <4>2 DEF N
    <3> QED
      BY <2>2, <2>3, <2>4, <3>1
<1>2. /\ n <= attempt[r] /\ at[r] \notin {"idle", "guard"}
      /\ Relay!Admitted(ask[r])
      /\ ask[r].method = "post" => n = 1 /\ effects[r] = 0
      /\ ask[r].method = "delete" => effects[r] \in {0, 1}
      /\ answer[r] # copies[r][n]
  <2>1. n <= attempt[r]
    BY RelayTyped, RelayNumbers DEF InOrder, AttemptsInOrder
  <2>2. at[r] \notin {"idle", "guard"}
    <3>1. at[r] \in {"idle", "guard"} => attempt[r] = 1 /\ copies[r][1] = 0
      BY RelayNumbers DEF InOrder, AttemptsInOrder
    <3>2. attempt[r] = 1 => n = 1
      BY <2>1
    <3> QED
      BY <3>1, <3>2, RelayNumbers
  <2>3. Relay!Admitted(ask[r])
    BY RelayNumbers DEF InOrder, SentIsAdmitted
  <2>4. ask[r].method = "post" => n = 1
    BY <2>1 DEF InOrder, AttemptsInOrder
  <2>5. ask[r].method = "post" => effects[r] = 0
    BY <2>4, RelayNumbers DEF InOrder, EffectsAreTold
  <2>6. ask[r].method = "delete" => effects[r] \in {0, 1}
    BY DEF InOrder, EffectsAreTold
  <2>7. answer[r] # copies[r][n]
    BY RelayTyped, RelayNumbers
  <2> QED
    BY <2>1, <2>2, <2>3, <2>4, <2>5, <2>6, <2>7
<1>3. /\ effects'[r] \in {effects[r], effects[r] + 1}
      /\ effects'[r] \in 0..Attempts
      /\ ask[r].method \in {"get", "put"} => effects'[r] = effects[r]
      /\ ask[r].method = "post" => effects'[r] = IF status = 201 THEN 1 ELSE 0
      /\ ask[r].method = "delete" =>
             effects'[r] \in {0, 1} /\ (exists' => effects'[r] = 0)
  <2>1. effects \in [Requests -> 0..Attempts] /\ Attempts \in Nat \ {0}
    BY DEF Relay!TypeOK, Relay!RelayAssumption
  <2>2. ask[r].method = "delete" /\ exists => effects[r] = 0
    BY DEF InOrder, EffectsAreTold
  <2>3. CASE UNCHANGED <<effects, exists>>
    <3>1. effects'[r] = effects[r] /\ effects[r] \in 0..Attempts
      BY <2>1, <2>3
    <3>2. ask[r].method = "post" => status # 201
      BY <2>3, <2>1, <1>2, RelayNumbers
    <3> QED
      BY <1>2, <2>2, <2>3, <3>1, <3>2
  <2>4. CASE /\ effects' = [effects EXCEPT ![r] = @ + 1]
             /\ \/ ask[r].method = "post" /\ status = 201
                \/ ask[r].method = "delete" /\ exists /\ exists' = FALSE
    <3>1. effects[r] = 0 /\ effects'[r] = 1
      BY <1>2, <2>1, <2>2, <2>4
    <3> QED
      BY <2>1, <2>4, <3>1
  <2> QED
    BY <2>3, <2>4
<1>4. Relay!TypeOK'
  <2>1. effects' \in [Requests -> 0..Attempts]
    <3>1. effects \in [Requests -> 0..Attempts]
      BY DEF Relay!TypeOK
    <3>2. \/ effects' = effects
          \/ effects' = [effects EXCEPT ![r] = effects[r] + 1]
      OBVIOUS
    <3>3. effects' = [effects EXCEPT ![r] = effects[r] + 1] =>
              effects[r] + 1 \in 0..Attempts
      BY <1>3, <3>1
    <3> QED
      BY <3>1, <3>2, <3>3
  <2>2. copies' \in [Requests -> [1..Attempts ->
                        Relay!Statuses
                            \cup {Relay!Unsent, Relay!Sent, Relay!Refused}]]
    BY DEF Relay!Done, Relay!TypeOK
  <2>3. exists' \in BOOLEAN
    BY DEF Relay!TypeOK
  <2> QED
    BY <2>1, <2>2, <2>3 DEF Relay!TypeOK
<1>5. AttemptsInOrder(r)'
  <2>1. \A m \in 1..Attempts : m > attempt[r] => m # n
    BY <1>2, RelayTyped
  <2>2. at[r] = "send" => attempt[r] # n
    BY RelayNumbers DEF InOrder, AttemptsInOrder
  <2> QED
    BY <1>1, <1>2, <2>1, <2>2, RelayTyped DEF InOrder, AttemptsInOrder
<1>6. EffectsAreTold(r)'
  <2>1. status \in ReplyTo(ask[r].method)
            \cup {Relay!Unsent, Relay!Sent, Relay!Refused}
    BY RelayTyped, RelayNumbers DEF Relay!Methods
  <2>2. \A m \in 1..Attempts :
            copies'[r][m] \in ReplyTo(ask[r].method)
                \cup {Relay!Unsent, Relay!Sent, Relay!Refused}
    BY <1>1, <2>1 DEF InOrder, EffectsAreTold
  <2>3. ask[r].method \in {"get", "put"} => effects'[r] = 0
    BY <1>3 DEF InOrder, EffectsAreTold
  <2>4. ask[r].method = "post" =>
            effects'[r] = IF copies'[r][1] = 201 THEN 1 ELSE 0
    BY <1>1, <1>2, <1>3
  <2>5. ask[r].method = "delete" /\ status \in {200, 404} => ~exists'
    BY RelayNumbers
  <2>6. ask[r].method = "delete" =>
            \A m \in 1..Attempts : copies'[r][m] \in {200, 404} => ~exists'
    BY <1>1, <2>5 DEF InOrder, EffectsAreTold
  <2> QED
    BY <1>3, <2>2, <2>3, <2>4, <2>6 DEF EffectsAreTold
<1>7. AnswerIsACopy(r)'
  <2>1. answer[r] \in {401, 403} => n # 1
    BY RelayNumbers DEF InOrder, AnswerIsACopy
  <2>2. answer[r] \in {401, 403} => attempt[r] = 1 /\ n <= 1
    BY <1>2 DEF InOrder, AnswerIsACopy
  <2>3. answer[r] \notin {401, 403}
    BY <2>1, <2>2
  <2>4. \A m \in 1..Attempts :
            answer[r] = copies[r][m] => answer[r] = copies'[r][m]
    BY <1>1, <1>2
  <2> QED
    BY <2>3, <2>4 DEF InOrder, AnswerIsACopy
<1>8. SentIsAdmitted(r)'
  BY <1>2 DEF SentIsAdmitted
<1>9. ASSUME NEW q \in Requests, q # r PROVE InOrder(q)'
  BY <1>1, <1>9, OthersInOrder
<1> QED
  BY <1>4, <1>5, <1>6, <1>7, <1>8, <1>9 DEF InOrder

\* A refused connection: the service never has the copy.
LEMMA RefuseInOrder ==
    ASSUME Relay!RelayAssumption, RelayInv, NEW r \in Requests, Relay!Refuse(r)
    PROVE  RelayInv'
<1> USE DEF RelayInv
<1> DEFINE a == attempt[r]
<1>1. /\ at[r] = "wait" /\ a \in 1..Attempts /\ copies[r][a] = 1
      /\ UNCHANGED <<ask, attempt, effects, exists>>
      /\ copies' = [copies EXCEPT ![r][a] = 2]
      /\ faults' \in 0..MaxFaults
  BY RelayTyped, RelayNumbers
  DEF Relay!Refuse, Relay!Status, Relay!TypeOK, Relay!RelayAssumption
<1>2. /\ copies'[r][a] = 2
      /\ \A n \in 1..Attempts : n # a => copies'[r][n] = copies[r][n]
      /\ \A q \in Requests : q # r => copies'[q] = copies[q]
  BY <1>1 DEF Relay!TypeOK
<1>3. \/ /\ Relay!CanRetry(r) /\ at' = [at EXCEPT ![r] = "backoff"]
         /\ UNCHANGED answer
      \/ /\ at' = [at EXCEPT ![r] = "answered"]
         /\ answer' = [answer EXCEPT ![r] = 503]
  BY DEF Relay!Refuse, Relay!GiveUp, Relay!Answer, Relay!Goto
<1>4. \A q \in Requests : q # r => at'[q] = at[q] /\ answer'[q] = answer[q]
  BY <1>3 DEF Relay!TypeOK
<1>5. /\ answer[r] = 0 /\ Relay!Admitted(ask[r])
      /\ \/ Relay!CanRetry(r) /\ at'[r] = "backoff" /\ answer'[r] = 0
         \/ at'[r] = "answered" /\ answer'[r] = 503
  <2>1. answer[r] = 0 /\ Relay!Admitted(ask[r])
    BY <1>1, RelayNumbers DEF InOrder, AnswerIsACopy, SentIsAdmitted
  <2> QED
    BY <1>3, <2>1 DEF Relay!TypeOK
<1>6. Relay!TypeOK'
  <2>1. copies' \in [Requests -> [1..Attempts ->
                        Relay!Statuses
                            \cup {Relay!Unsent, Relay!Sent, Relay!Refused}]]
    BY <1>1, RelayNumbers DEF Relay!TypeOK
  <2>2. at' \in [Requests -> {"idle", "guard", "send", "wait", "backoff",
                             "answered"}]
        /\ answer' \in [Requests -> Relay!Statuses \cup {Relay!Unanswered}]
    <3>1. /\ "backoff" \in {"idle", "guard", "send", "wait", "backoff",
                             "answered"}
          /\ "answered" \in {"idle", "guard", "send", "wait", "backoff",
                             "answered"}
          /\ 503 \in Relay!Statuses \cup {Relay!Unanswered}
      BY RelayNumbers
    <3> QED
      <4>1. at' \in [Requests -> {"idle", "guard", "send", "wait", "backoff",
                                 "answered"}]
        BY <1>3, <3>1 DEF Relay!TypeOK
      <4>2. answer' \in [Requests -> Relay!Statuses \cup {Relay!Unanswered}]
        BY <1>3, <3>1 DEF Relay!TypeOK
      <4> QED
        BY <4>1, <4>2
  <2> QED
    BY <1>1, <2>1, <2>2 DEF Relay!TypeOK
<1>7. AttemptsInOrder(r)'
  BY <1>1, <1>2, <1>5, RelayTyped, RelayNumbers
     DEF InOrder, AttemptsInOrder, Relay!CanRetry
<1>8. EffectsAreTold(r)'
  <2>1. \A n \in 1..Attempts : copies'[r][n] = copies[r][n] \/
            copies'[r][n] = 2
    BY <1>2
  <2>2. ask[r].method = "post" => a = 1
    BY DEF InOrder, AttemptsInOrder
  <2> QED
    BY <1>1, <1>2, <2>1, <2>2, RelayTyped, RelayNumbers
    DEF InOrder, EffectsAreTold
<1>9. AnswerIsACopy(r)' /\ SentIsAdmitted(r)'
  BY <1>1, <1>5, RelayNumbers DEF AnswerIsACopy, SentIsAdmitted
<1>10. ASSUME NEW q \in Requests, q # r PROVE InOrder(q)'
  BY <1>1, <1>2, <1>4, <1>10, OthersInOrder
<1> QED
  BY <1>6, <1>7, <1>8, <1>9, <1>10 DEF InOrder

\* Every step of the gateway and of the service keeps the order.
LEMMA NextRelayInv ==
    ASSUME Relay!RelayAssumption, RelayInv, [Relay!Next]_(Relay!vars)
    PROVE  RelayInv'
<1>1. ASSUME NEW r \in Requests,
             Relay!Ask(r) \/ Relay!Send(r) \/ Relay!Backoff(r)
      PROVE  RelayInv'
  BY <1>1, AskInOrder, SendInOrder, BackoffInOrder
<1>2. ASSUME NEW r \in Requests, Relay!Guard(r)
      PROVE  RelayInv'
  <2>1. faults' \in 0..MaxFaults
    BY <1>2 DEF Relay!Guard, RelayInv, Relay!TypeOK
  <2> QED
    BY <1>2, <2>1, GatewayInOrder, RelayNumbers DEF Relay!Guard, Relay!Goto
<1>3. ASSUME NEW r \in Requests,
             Relay!Receive(r) \/ Relay!Timeout(r) \/ Relay!Reset(r)
      PROVE  RelayInv'
  <2>1. faults' \in 0..MaxFaults
    BY <1>3
    DEF Relay!Receive, Relay!Timeout, Relay!Reset, RelayInv, Relay!TypeOK,
        Relay!RelayAssumption
  <2>2. at[r] = "wait" /\ UNCHANGED <<ask, attempt, copies, effects, exists>>
    BY <1>3 DEF Relay!Receive, Relay!Timeout, Relay!Reset, Relay!TimesOut
  <2>3. CASE Relay!Goto(r, "backoff") /\ UNCHANGED answer /\ Relay!CanRetry(r)
    BY <2>1, <2>2, <2>3, GatewayInOrder DEF Relay!Goto
  <2>4. CASE \E status \in {503, 504} : Relay!Answer(r, status)
    BY <2>1, <2>2, <2>4, GatewayInOrder, RelayNumbers
  <2>5. CASE Relay!Answer(r, copies[r][attempt[r]]) /\
                 copies[r][attempt[r]] \in Relay!Statuses
    BY <2>1, <2>2, <2>5, GatewayInOrder
  <2> QED
    BY <1>3, <2>3, <2>4, <2>5
       DEF Relay!Receive, Relay!Timeout, Relay!Reset, Relay!GiveUp,
           Relay!Status, Relay!Relayed
<1>4. ASSUME NEW r \in Requests, Relay!Refuse(r)
      PROVE  RelayInv'
  BY <1>4, RefuseInOrder
<1>5. ASSUME NEW r \in Requests, NEW n \in 1..Attempts,
             Relay!Handle(r, n) \/ Relay!HandlerFails(r, n)
      PROVE  RelayInv'
  <2>1. faults' \in 0..MaxFaults
    BY <1>5
    DEF Relay!Handle, Relay!HandlerFails, RelayInv, Relay!TypeOK,
        Relay!RelayAssumption
  <2>2. copies[r][n] = Relay!Sent /\ UNCHANGED <<ask, at, attempt, answer>>
    BY <1>5 DEF Relay!Handle, Relay!HandlerFails
  <2> QED
    <3>1. CASE Relay!HandlerFails(r, n)
      <4>1. Relay!Done(r, n, 500) /\ UNCHANGED <<effects, exists>>
        BY <3>1 DEF Relay!HandlerFails
      <4>2. 500 \in Relay!Statuses \cup {Relay!Refused} /\
                500 \in {500, Relay!Refused}
        BY RelayNumbers
      <4> QED
        BY <2>1, <2>2, <4>1, <4>2, CopyInOrder
    <3>2. PICK status \in {200, 201, 400, 404} :
              /\ Relay!Done(r, n, status)
              /\ \/ /\ ask[r].method = "get" /\ status = 200
                    /\ UNCHANGED <<effects, exists>>
                 \/ /\ ask[r].method = "post" /\ status = 201
                    /\ effects' = [effects EXCEPT ![r] = @ + 1]
                    /\ UNCHANGED exists
                 \/ /\ ask[r].method = "post" /\ status = 400
                    /\ UNCHANGED <<effects, exists>>
                 \/ /\ ask[r].method = "put" /\ status = 404
                    /\ UNCHANGED <<effects, exists>>
                 \/ /\ ask[r].method = "delete" /\ exists /\ status = 200
                    /\ effects' = [effects EXCEPT ![r] = @ + 1]
                    /\ exists' = FALSE
                 \/ /\ ask[r].method = "delete" /\ ~exists /\ status = 404
                    /\ UNCHANGED <<effects, exists>>
          \/ Relay!HandlerFails(r, n)
      BY <1>5, Zenon DEF Relay!Handle
    <3>3. status \in Relay!Statuses \cup {Relay!Refused}
      BY RelayNumbers
    <3> QED
      BY <2>1, <2>2, <3>1, <3>2, <3>3, CopyInOrder
<1>6. CASE UNCHANGED Relay!vars
  <2>1. Relay!TypeOK'
    BY <1>6 DEF RelayInv, Relay!TypeOK, Relay!vars
  <2>2. ASSUME NEW q \in Requests PROVE InOrder(q)'
    BY <1>6, OthersInOrder DEF RelayInv, Relay!vars
  <2> QED
    BY <2>1, <2>2 DEF RelayInv
<1> QED
  BY <1>1, <1>2, <1>3, <1>4, <1>5, <1>6 DEF Relay!Next, Relay!Gateway

\* The invariant gives the three properties.
LEMMA RelayInvGives ==
    ASSUME Relay!RelayAssumption, RelayInv
    PROVE  Relay!WriteOnce /\ Relay!AnswerIsTrue /\ Relay!WritesAreGuarded
<1> USE DEF RelayInv
<1>1. ASSUME NEW r \in Requests PROVE effects[r] <= 1
  <2>1. ask[r].method \in {"get", "put"} => effects[r] = 0
    BY DEF InOrder, EffectsAreTold
  <2>2. ask[r].method = "post" => effects[r] \in {0, 1}
    BY DEF InOrder, EffectsAreTold
  <2>3. ask[r].method = "delete" => effects[r] \in {0, 1}
    BY DEF InOrder, EffectsAreTold
  <2> QED
    BY <2>1, <2>2, <2>3, RelayTyped DEF Relay!Methods
<1>2. ASSUME NEW r \in Requests
      PROVE  /\ answer[r] = 201 => effects[r] = 1
             /\ answer[r] = 400 => effects[r] = 0
             /\ answer[r] \in {401, 403} =>
                    \A n \in 1..Attempts : copies[r][n] = Relay!Unsent
             /\ ask[r].method = "delete" /\ answer[r] \in {200, 404} => ~exists
  <2>1. answer[r] \in {200, 201, 400, 404} =>
            \E n \in 1..Attempts : answer[r] = copies[r][n]
    BY RelayNumbers DEF InOrder, AnswerIsACopy
  <2>2. \A n \in 1..Attempts :
            /\ copies[r][n] \in {201, 400} => ask[r].method = "post"
            /\ ask[r].method = "post" /\ copies[r][n] # 0 => n = 1
    <3>1. ASSUME NEW n \in 1..Attempts, copies[r][n] \in {201, 400}
          PROVE  ask[r].method = "post"
      BY <3>1, RelayTyped, RelayNumbers
      DEF InOrder, EffectsAreTold, Relay!Methods
    <3>2. ASSUME NEW n \in 1..Attempts, ask[r].method = "post",
                 copies[r][n] # 0
          PROVE  n = 1
      BY <3>2, RelayTyped, RelayNumbers DEF InOrder, AttemptsInOrder
    <3> QED
      BY <3>1, <3>2
  <2>3. answer[r] \in {201, 400} =>
            ask[r].method = "post" /\ copies[r][1] = answer[r]
    BY <2>1, <2>2
  <2>4. answer[r] \in {201, 400} =>
            effects[r] = IF copies[r][1] = 201 THEN 1 ELSE 0
    BY <2>3 DEF InOrder, EffectsAreTold
  <2>5. answer[r] \in {401, 403} =>
            \A n \in 1..Attempts : copies[r][n] = Relay!Unsent
    <3>1. \A n \in 1..Attempts : n = 1 \/ n > 1
      BY DEF Relay!RelayAssumption
    <3> QED
      BY <3>1 DEF InOrder, AnswerIsACopy, AttemptsInOrder
  <2>6. ask[r].method = "delete" /\ answer[r] \in {200, 404} => ~exists
    BY <2>1 DEF InOrder, EffectsAreTold
  <2> QED
    BY <2>3, <2>4, <2>5, <2>6
<1>3. ASSUME NEW r \in Requests
      PROVE  /\ effects[r] > 0 /\ ask[r].route \in {"catalog", "jobs"} =>
                    ask[r].caller = "admin"
             /\ effects[r] > 0 /\ ask[r].route \in {"reviews", "account"} =>
                    ask[r].caller # "anonymous"
             /\ ask[r].route = "search" /\ ask[r].method \in {"get", "post"} =>
                    answer[r] \notin {401, 403}
  <2>1. effects[r] > 0 => Relay!Admitted(ask[r]) /\ ask[r].method # "get"
    BY RelayTyped DEF InOrder, SentIsAdmitted, EffectsAreTold
  <2>2. answer[r] \in {401, 403} => ~Relay!Admitted(ask[r])
    BY DEF InOrder, AnswerIsACopy
  <2>3. ASSUME Relay!Admitted(ask[r]), ask[r].method # "get"
        PROVE  /\ ask[r].route \in {"catalog", "jobs"} =>
                      ask[r].caller = "admin"
               /\ ask[r].route \in {"reviews", "account"} =>
                      ask[r].caller # "anonymous"
    BY <2>3 DEF Relay!Admitted, Relay!Policy, Relay!MethodAuth, Relay!RouteAuth
  <2>4. ask[r].route = "search" /\ ask[r].method \in {"get", "post"} =>
            Relay!Admitted(ask[r])
    BY DEF Relay!Admitted, Relay!Policy, Relay!MethodAuth, Relay!RouteAuth
  <2> QED
    BY <2>1, <2>2, <2>3, <2>4
<1> QED
  BY <1>1, <1>2, <1>3
  DEF Relay!WriteOnce, Relay!AnswerIsTrue, Relay!WritesAreGuarded

\* The order holds throughout.
LEMMA RelayInvHolds ==
    ASSUME Relay!RelayAssumption PROVE Relay!Spec => []RelayInv
<1>1. Relay!Init => RelayInv
  BY InitRelayInv
<1>2. RelayInv /\ [Relay!Next]_(Relay!vars) => RelayInv'
  BY NextRelayInv
<1> QED
  BY <1>1, <1>2, PTL DEF Relay!Spec

\* Type correctness of the relay, with any number of retries: no attempt past
\* the last, and no copy that was not sent.
THEOREM RelayTypeCorrect ==
    ASSUME Relay!RelayAssumption PROVE Relay!Spec => []Relay!TypeOK
<1>1. RelayInv => Relay!TypeOK
  BY DEF RelayInv
<1> QED
  BY <1>1, RelayInvHolds, PTL

\* Retries are safe, whatever times out, is reset, refused or carried out late:
\* a write takes effect once at most, the caller is told what became of it, and
\* nothing is written for who may not.
THEOREM RelayIsSafe ==
    ASSUME Relay!RelayAssumption
    PROVE  Relay!Spec =>
               [](Relay!WriteOnce /\ Relay!AnswerIsTrue
                      /\ Relay!WritesAreGuarded)
<1>1. RelayInv =>
          Relay!WriteOnce /\ Relay!AnswerIsTrue /\ Relay!WritesAreGuarded
  BY RelayInvGives
<1> QED
  BY <1>1, RelayInvHolds, PTL

-----------------------------------------------------------------------------
(* The end of a service (Shutdown) *)

\* The order of an exit: no request is left when the server has closed, the
\* hooks run after that, and the pool has ended when the second is through.
StagesInOrder ==
    /\ listener = "closed" => \A r \in Connections : request[r] # "running"
    /\ hook > 0 => listener = "closed"
    /\ pool # "open" => hook > 0
    /\ hook = 2 => pool = "ended" /\ ~worker
    /\ pool = "ended" => hook = 2

\* Requests are dropped by the deadline alone.
DroppedByForce ==
    \A r \in Connections : request[r] = "dropped" => exit = "forced"

ShutdownInv == Shutdown!TypeOK /\ StagesInOrder /\ DroppedByForce

\* The server listens at first.
LEMMA InitShutdown == Shutdown!Init => ShutdownInv
<1> SUFFICES ASSUME Shutdown!Init
             PROVE  ShutdownInv
  OBVIOUS
<1>1. Shutdown!TypeOK
  <2>1. timer \in BOOLEAN /\ worker \in BOOLEAN /\ deadline \in BOOLEAN
    BY Zenon DEF Shutdown!Init
  <2>2. /\ listener \in {"listening", "closing", "closed"}
        /\ request \in [Connections ->
                            {"unsent", "running", "answered", "dropped"}]
        /\ pool \in {"open", "ending", "ended"} /\ hook \in 0..2
        /\ exit \in {"none", "clean", "forced"}
        /\ exit = "clean" => hook = 2
    BY DEF Shutdown!Init
  <2> QED
    BY <2>1, <2>2 DEF Shutdown!TypeOK
<1>2. StagesInOrder
  BY DEF Shutdown!Init, StagesInOrder
<1>3. DroppedByForce
  BY DEF Shutdown!Init, DroppedByForce
<1> QED
  BY <1>1, <1>2, <1>3 DEF ShutdownInv

\* Every step keeps the order of the exit.
LEMMA ShutdownStep ==
    ShutdownInv /\ [Shutdown!Next]_(Shutdown!vars) => ShutdownInv'
<1> SUFFICES ASSUME ShutdownInv, [Shutdown!Next]_(Shutdown!vars)
             PROVE  ShutdownInv'
  OBVIOUS
<1> USE DEF ShutdownInv, Shutdown!TypeOK, StagesInOrder, DroppedByForce,
        Shutdown!Running
<1>1. ASSUME NEW r \in Connections, Shutdown!Accept(r)
      PROVE  ShutdownInv'
  BY <1>1 DEF Shutdown!Accept
<1>2. ASSUME NEW r \in Connections, Shutdown!Respond(r)
      PROVE  ShutdownInv'
  BY <1>2 DEF Shutdown!Respond
<1>3. CASE Shutdown!Shutdown \/ Shutdown!Tick \/ Shutdown!TickEnds
  BY <1>3
  DEF Shutdown!Shutdown, Shutdown!Tick, Shutdown!TickEnds, Shutdown!Armed
<1>4. CASE Shutdown!StopWorker \/ Shutdown!EndPool
  <2>1. timer' \in BOOLEAN /\ deadline' \in BOOLEAN /\ worker' = worker
    BY <1>4, Zenon DEF Shutdown!StopWorker, Shutdown!EndPool
  <2>2. \/ /\ listener = "closed" /\ hook = 0 /\ hook' = 1 /\ pool' = pool
        \/ /\ hook = 1 /\ hook' = 1 /\ pool = "open" /\ pool' = "ending"
    BY <1>4 DEF Shutdown!StopWorker, Shutdown!EndPool
  <2>3. UNCHANGED <<listener, request, exit>>
    BY <1>4 DEF Shutdown!StopWorker, Shutdown!EndPool
  <2> QED
    BY <2>1, <2>2, <2>3
<1>9. CASE Shutdown!Closed
  <2>1. \A r \in Connections : request[r] # "running"
    BY <1>9 DEF Shutdown!Closed, Shutdown!Drained, Shutdown!InFlight
  <2> QED
    BY <1>9, <2>1 DEF Shutdown!Closed
<1>5. CASE Shutdown!PoolEnded
  BY <1>5 DEF Shutdown!PoolEnded, Shutdown!ClientsBack
<1>8. CASE Shutdown!Exit
  BY <1>8 DEF Shutdown!Exit
<1>6. CASE Shutdown!ForceExit
  BY <1>6 DEF Shutdown!ForceExit
<1>7. CASE UNCHANGED Shutdown!vars
  BY <1>7 DEF Shutdown!vars
<1> QED
  BY <1>1, <1>2, <1>3, <1>4, <1>5, <1>6, <1>7, <1>8, <1>9
  DEF Shutdown!Next, Shutdown!Process

\* Whatever else happens when a process is told to end, no handler meets a pool
\* that is going away, and an exit that is not forced has dropped no request
\* and cut off no transaction.
THEOREM ShutdownDrainsFirst ==
    Shutdown!Spec =>
        [](Shutdown!TypeOK /\ Shutdown!DrainedFirst /\ Shutdown!CleanExit)
<1>1. ShutdownInv =>
          Shutdown!TypeOK /\ Shutdown!DrainedFirst /\ Shutdown!CleanExit
  <2> SUFFICES ASSUME ShutdownInv
               PROVE  Shutdown!TypeOK /\ Shutdown!DrainedFirst /\
                          Shutdown!CleanExit
    OBVIOUS
  <2>1. Shutdown!DrainedFirst
    BY DEF ShutdownInv, StagesInOrder, Shutdown!DrainedFirst, Shutdown!InFlight
  <2>2. ASSUME exit = "clean"
        PROVE  /\ \A r \in Connections : request[r] \in {"unsent", "answered"}
               /\ ~worker /\ pool = "ended"
    <3>1. /\ hook = 2 /\ ~worker /\ pool = "ended"
          /\ \A r \in Connections : request[r] # "running"
      BY <2>2 DEF ShutdownInv, StagesInOrder, Shutdown!TypeOK
    <3> QED
      BY <2>2, <3>1
         DEF ShutdownInv, Shutdown!TypeOK, DroppedByForce
  <2> QED
    BY <2>1, <2>2 DEF ShutdownInv, Shutdown!CleanExit
<1> QED
  BY <1>1, InitShutdown, ShutdownStep, PTL DEF Shutdown!Spec

-----------------------------------------------------------------------------
(* The migrations of a release (Migrations) *)

Runs == [at : {"idle", "loop", "transaction", "done", "failed", "refused"},
         files : Seq(Checksums), applied : SUBSET Migrations!Rows,
         next : Nat \ {0}]

\* The types, with the sequences and records that TypeOK looks into.
RunsTyped ==
    /\ schema \in Seq(Migrations!Rows) /\ recorded \subseteq Migrations!Rows
    /\ failures \in 0..MaxFailures
    /\ run \in [Runners -> Runs]

\* Where a runner is in its files.
PlaceInFiles ==
    \A r \in Runners :
        /\ run[r].files \in Releases \cup {<<>>}
        /\ run[r].next <= Len(run[r].files) + 1
        /\ run[r].at = "transaction" => run[r].next <= Len(run[r].files)
        /\ run[r].at = "done" => run[r].next = Len(run[r].files) + 1

\* What a runner has gone past is recorded, with its checksum.
PassedIsRecorded ==
    \A r \in Runners :
        /\ run[r].applied \subseteq recorded
        /\ \A v \in 1..(run[r].next - 1) :
               Migrations!Row(v, run[r].files[v]) \in recorded

RunsInv == RunsTyped /\ PlaceInFiles /\ Migrations!RecordedOnce
OrderInv == PassedIsRecorded /\ Migrations!InOrder

\* A runner that has not started has no files.
LEMMA NoFiles == <<>> \in Seq(Checksums) /\ Len(<<>>) = 0
OBVIOUS

\* The file a runner is at is a row to be.
LEMMA FileIsRow ==
    ASSUME Migrations!MigrationsAssumption, RunsInv, NEW r \in Runners,
           run[r].next <= Len(run[r].files)
    PROVE  /\ Migrations!File(r) \in Migrations!Rows
           /\ Migrations!File(r).version = run[r].next
           /\ Migrations!File(r)
                  = Migrations!Row(run[r].next, run[r].files[run[r].next])
<1>1. /\ run[r].files \in Seq(Checksums) /\ run[r].next \in Nat \ {0}
      /\ run[r].files \in Releases \cup {<<>>}
  BY DEF RunsInv, RunsTyped, PlaceInFiles, Runs
<1>2. run[r].next \in DOMAIN run[r].files /\ run[r].files # <<>>
  BY <1>1
<1>3. run[r].files[run[r].next] \in Checksums /\
          run[r].next \in Migrations!Versions
  BY <1>1, <1>2 DEF Migrations!Versions
<1> QED
  BY <1>3 DEF Migrations!File, Migrations!Row, Migrations!Rows

\* What NextFile and the restart of a job make of a runner.
LEMMA RunGoesOn ==
    ASSUME NEW q \in Runs
    PROVE  /\ Migrations!NextFile(q) \in Runs
           /\ Migrations!NextFile(q).at = "loop"
           /\ Migrations!NextFile(q).files = q.files
           /\ Migrations!NextFile(q).applied = q.applied
           /\ Migrations!NextFile(q).next = q.next + 1
<1> DEFINE A == {"idle", "loop", "transaction", "done", "failed", "refused"}
           F == Seq(Checksums)
           P == SUBSET Migrations!Rows
           N == Nat \ {0}
<1>1. /\ q \in [at : A, files : F, applied : P, next : N]
      /\ "loop" \in A /\ q.next + 1 \in N
      /\ Runs = [at : A, files : F, applied : P, next : N]
  BY DEF Runs
<1> HIDE DEF A, F, P, N
<1> QED
  BY ONLY <1>1 DEF Migrations!NextFile

\* The database is empty at first.
LEMMA InitRuns ==
    Migrations!MigrationsAssumption /\ Migrations!Init => RunsInv /\ OrderInv
<1> SUFFICES ASSUME Migrations!MigrationsAssumption, Migrations!Init
             PROVE  RunsInv /\ OrderInv
  OBVIOUS
<1>1. /\ Migrations!NoRun \in Runs /\ Migrations!NoRun.files = <<>>
      /\ Migrations!NoRun.next = 1
      /\ Migrations!NoRun.at = "idle" /\ Migrations!NoRun.applied = {}
  BY NoFiles DEF Migrations!NoRun, Runs
<1>2. /\ schema = <<>> /\ recorded = {} /\ failures = 0
      /\ \A r \in Runners : run[r] = Migrations!NoRun
      /\ run \in [Runners -> Runs] /\ MaxFailures \in Nat
  BY <1>1 DEF Migrations!Init, Migrations!MigrationsAssumption
<1>3. RunsTyped /\ PlaceInFiles
  BY <1>1, <1>2, NoFiles DEF RunsTyped, PlaceInFiles
<1>4. Migrations!RecordedOnce /\ Migrations!InOrder
  BY <1>2 DEF Migrations!RecordedOnce, Migrations!InOrder, Migrations!ToSet
<1>5. PassedIsRecorded
  BY <1>1, <1>2 DEF PassedIsRecorded
<1> QED
  BY <1>3, <1>4, <1>5 DEF RunsInv, OrderInv

\* The steps of one runner that leave the database alone.
LEMMA RunnerAlone ==
    ASSUME Migrations!MigrationsAssumption, RunsInv, NEW r \in Runners,
           NEW w \in Runs,
           run' = [run EXCEPT ![r] = w], UNCHANGED <<schema, recorded>>,
           failures' \in 0..MaxFailures,
           w.files \in Releases \cup {<<>>}, w.next <= Len(w.files) + 1,
           w.at = "transaction" => w.next <= Len(w.files),
           w.at = "done" => w.next = Len(w.files) + 1
    PROVE  /\ RunsInv'
           /\ OrderInv /\ w.applied \subseteq recorded
              /\ (\A v \in 1..(w.next - 1) :
                      Migrations!Row(v, w.files[v]) \in recorded)
              => OrderInv'
<1>1. /\ run' \in [Runners -> Runs] /\ run'[r] = w
      /\ \A q \in Runners : q # r => run'[q] = run[q]
  BY DEF RunsInv, RunsTyped
<1>2. RunsTyped'
  BY <1>1 DEF RunsInv, RunsTyped, Migrations!Rows, Migrations!Versions, Runs
<1>3. PlaceInFiles'
  BY <1>1 DEF RunsInv, PlaceInFiles
<1>4. Migrations!RecordedOnce' /\ (Migrations!InOrder => Migrations!InOrder')
  BY DEF RunsInv, Migrations!RecordedOnce, Migrations!InOrder
<1>5. ASSUME PassedIsRecorded, w.applied \subseteq recorded,
             \A v \in 1..(w.next - 1) :
                 Migrations!Row(v, w.files[v]) \in recorded
      PROVE  PassedIsRecorded'
  BY <1>1, <1>5 DEF PassedIsRecorded, Migrations!Row
<1> QED
  BY <1>2, <1>3, <1>4, <1>5 DEF RunsInv, OrderInv

\* Committing a file: one row more, of a version that was not there.
LEMMA FileCommitted ==
    ASSUME Migrations!MigrationsAssumption, RunsInv, NEW r \in Runners,
           Migrations!Commit(r),
           ~Migrations!Exists(Migrations!Version(r))
    PROVE  RunsInv' /\ (OrderInv => OrderInv')
<1> DEFINE m == Migrations!File(r)
           n == Len(schema)
<1>1. /\ run[r] \in Runs /\ run[r].at = "transaction"
      /\ run[r].next <= Len(run[r].files)
      /\ run[r].files \in Releases \cup {<<>>}
      /\ schema \in Seq(Migrations!Rows) /\ recorded \subseteq Migrations!Rows
      /\ n \in Nat
  BY DEF Migrations!Commit, RunsInv, RunsTyped, PlaceInFiles
<1>2. /\ m \in Migrations!Rows /\ m.version = run[r].next
      /\ m.version \in Nat \ {0}
      /\ m = Migrations!Row(run[r].next, run[r].files[run[r].next])
  BY <1>1, FileIsRow DEF Runs
<1>3. /\ schema' = Append(schema, m) /\ recorded' = recorded \cup {m}
      /\ run' = [run EXCEPT ![r] = Migrations!NextFile(run[r])]
      /\ failures' = failures
  BY DEF Migrations!Commit
<1>4. \A k \in recorded : k.version # m.version
  BY <1>2 DEF Migrations!Exists, Migrations!Version
<1> HIDE DEF m
<1>5. /\ schema' \in Seq(Migrations!Rows) /\ DOMAIN schema' = 1..(n + 1)
      /\ DOMAIN schema = 1..n
      /\ \A i \in 1..n : schema'[i] = schema[i]
      /\ schema'[n + 1] = m
  BY <1>1, <1>2, <1>3
<1>6. Migrations!RecordedOnce'
  <2>1. Migrations!ToSet(schema) = recorded
    BY DEF RunsInv, Migrations!RecordedOnce
  <2>2. \A i \in 1..n : schema[i] \in recorded
    BY <1>5, <2>1 DEF Migrations!ToSet
  <2>3. Migrations!ToSet(schema') = recorded'
    BY <1>3, <1>5, <2>1, <1>1 DEF Migrations!ToSet
  <2>4. \A i \in 1..n : schema[i].version # m.version
    BY <1>4, <2>2
  <2>5. ASSUME NEW i \in DOMAIN schema', NEW j \in DOMAIN schema',
               schema'[i].version = schema'[j].version
        PROVE  i = j
    <3>1. /\ i \in 1..n \/ i = n + 1
          /\ j \in 1..n \/ j = n + 1
      BY <1>1, <1>5
    <3> QED
      BY <1>5, <2>4, <2>5, <3>1 DEF RunsInv, Migrations!RecordedOnce
  <2> QED
    BY <2>3, <2>5 DEF Migrations!RecordedOnce
<1> DEFINE w == Migrations!NextFile(run[r])
<1>7. /\ w \in Runs /\ w.files = run[r].files /\ w.at = "loop"
      /\ w.next = run[r].next + 1 /\ w.applied = run[r].applied
  BY <1>1, RunGoesOn
<1> HIDE DEF w
<1>8. /\ run' \in [Runners -> Runs] /\ run'[r] = w
      /\ \A q \in Runners : q # r => run'[q] = run[q]
  BY <1>3, <1>7 DEF RunsInv, RunsTyped, w
<1>9. RunsTyped'
  BY <1>1, <1>2, <1>3, <1>5, <1>8
     DEF RunsInv, RunsTyped, Migrations!Rows, Migrations!Versions, Runs
<1>10. PlaceInFiles'
  <2>1. w.next <= Len(w.files) + 1
    BY <1>1, <1>7 DEF Runs
  <2> QED
    BY <1>1, <1>7, <1>8, <2>1 DEF RunsInv, PlaceInFiles
<1>11. ASSUME PassedIsRecorded
       PROVE  PassedIsRecorded'
  <2>1. ASSUME NEW q \in Runners
        PROVE  /\ run'[q].applied \subseteq recorded'
               /\ \A v \in 1..(run'[q].next - 1) :
                      Migrations!Row(v, run'[q].files[v]) \in recorded'
    <3>1. CASE q # r
      BY <1>3, <1>8, <1>11, <3>1 DEF PassedIsRecorded
    <3>2. CASE q = r
      <4>1. \A v \in 1..(w.next - 1) :
                v \in 1..(run[r].next - 1) \/ v = run[r].next
        BY <1>1, <1>7 DEF Runs
      <4> QED
        BY <1>2, <1>3, <1>7, <1>8, <1>11, <3>2, <4>1 DEF PassedIsRecorded
    <3> QED
      BY <3>1, <3>2
  <2> QED
    BY <2>1 DEF PassedIsRecorded, Migrations!Row
<1>12. ASSUME PassedIsRecorded, Migrations!InOrder
       PROVE  Migrations!InOrder'
  <2>1. ASSUME NEW v \in 1..(m.version - 1)
        PROVE  \E j \in 1..n : schema[j].version = v
    <3>1. Migrations!Row(v, run[r].files[v]) \in recorded
      BY <1>2, <1>12, <2>1 DEF PassedIsRecorded
    <3>2. PICK j \in 1..n : schema[j] = Migrations!Row(v, run[r].files[v])
      BY <1>5, <3>1 DEF RunsInv, Migrations!RecordedOnce, Migrations!ToSet
    <3> QED
      BY <3>2 DEF Migrations!Row
  <2>2. ASSUME NEW i \in DOMAIN schema', NEW v \in 1..(schema'[i].version - 1)
        PROVE  \E j \in 1..i : schema'[j].version = v
    <3>1. CASE i \in 1..n
      <4>1. PICK j \in 1..i : schema[j].version = v
        BY <1>5, <1>12, <2>2, <3>1 DEF Migrations!InOrder
      <4>2. j \in 1..n
        BY <1>1, <3>1, <4>1
      <4> QED
        BY <1>5, <4>1, <4>2
    <3>2. CASE i = n + 1
      <4>1. PICK j \in 1..n : schema[j].version = v
        BY <1>5, <2>1, <2>2, <3>2
      <4>2. j \in 1..i
        BY <1>1, <3>2, <4>1
      <4> QED
        BY <1>5, <4>1, <4>2
    <3> QED
      BY <1>1, <1>5, <2>2, <3>1, <3>2
  <2> QED
    BY <2>2 DEF Migrations!InOrder
<1> QED
  BY <1>6, <1>9, <1>10, <1>11, <1>12 DEF RunsInv, OrderInv

\* Every step of a runner, and a reset, keeps both.
LEMMA RunsStep ==
    ASSUME Migrations!MigrationsAssumption, RunsInv,
           [Migrations!Next]_(Migrations!vars)
    PROVE  RunsInv' /\ (~Resets /\ OrderInv => OrderInv')
<1>1. MaxFailures \in Nat /\ failures \in 0..MaxFailures
  BY DEF Migrations!MigrationsAssumption, RunsInv, RunsTyped
<1>2. ASSUME NEW r \in Runners
      PROVE  /\ run[r] \in Runs /\ run[r].files \in Seq(Checksums)
             /\ run[r].next \in Nat \ {0}
             /\ run[r].files \in Releases \cup {<<>>}
             /\ run[r].next <= Len(run[r].files) + 1
             /\ OrderInv => /\ run[r].applied \subseteq recorded
                            /\ \A v \in 1..(run[r].next - 1) :
                                   Migrations!Row(v, run[r].files[v])
                                       \in recorded
  BY DEF RunsInv, RunsTyped, PlaceInFiles, Runs, OrderInv, PassedIsRecorded
<1>3. ASSUME NEW r \in Runners, Migrations!Start(r)
      PROVE  RunsInv' /\ (OrderInv => OrderInv')
  <2>1. UNCHANGED <<schema, recorded, failures>> /\
            recorded \subseteq Migrations!Rows
    BY <1>3 DEF Migrations!Start, RunsInv, RunsTyped
  <2>2. PICK w \in Runs :
            /\ run' = [run EXCEPT ![r] = w]
            /\ w.files \in Releases \cup {<<>>} /\ w.files \in Seq(Checksums)
            /\ w.next = 1 /\ w.at = "loop" /\ w.applied = recorded
    <3>1. CASE run[r].at = "failed"
      <4> DEFINE w == [run[r] EXCEPT !.at = "loop", !.applied = recorded,
                                     !.next = 1]
      <4>1. run' = [run EXCEPT ![r] = w]
        BY <1>3, <3>1 DEF Migrations!Start
      <4>2. /\ w \in Runs /\ w.at = "loop" /\ w.files = run[r].files
            /\ w.applied = recorded /\ w.next = 1
        <5> DEFINE A == {"idle", "loop", "transaction", "done", "failed",
                         "refused"}
                   F == Seq(Checksums)
                   P == SUBSET Migrations!Rows
                   N == Nat \ {0}
        <5>1. /\ run[r] \in [at : A, files : F, applied : P, next : N]
              /\ "loop" \in A /\ 1 \in N /\ recorded \in P
              /\ Runs = [at : A, files : F, applied : P, next : N]
          BY <1>2, <2>1 DEF Runs
        <5> HIDE DEF A, F, P, N
        <5> QED
          BY ONLY <5>1
      <4> HIDE DEF w
      <4> QED
        BY <1>2, <4>1, <4>2
    <3>2. CASE run[r].at = "idle"
      <4>1. PICK f \in Releases :
                run' = [run EXCEPT ![r] = [at |-> "loop", files |-> f,
                                           applied |-> recorded, next |-> 1]]
        BY <1>3, <3>2 DEF Migrations!Start
      <4>2. f \in Seq(Checksums)
        BY DEF Migrations!MigrationsAssumption
      <4> QED
        <5> DEFINE w == [at |-> "loop", files |-> f, applied |-> recorded,
                         next |-> 1]
        <5>1. /\ w \in Runs /\ w.at = "loop" /\ w.files = f
              /\ w.applied = recorded /\ w.next = 1
          BY <2>1, <4>2 DEF Runs
        <5>2. run' = [run EXCEPT ![r] = w]
          BY <4>1
        <5> HIDE DEF w
        <5> QED
          BY <4>2, <5>1, <5>2
    <3> QED
      BY <1>3, <3>1, <3>2 DEF Migrations!Start
  <2>3. w.next <= Len(w.files) + 1 /\ failures' \in 0..MaxFailures
    BY <1>1, <2>1, <2>2
  <2>4. \A v \in 1..(w.next - 1) : Migrations!Row(v, w.files[v]) \in recorded
    BY <2>2
  <2> QED
    BY <2>1, <2>2, <2>3, <2>4, RunnerAlone
<1>4. ASSUME NEW r \in Runners, Migrations!Skip(r)
      PROVE  RunsInv' /\ (OrderInv => OrderInv')
  <2> DEFINE w == [run[r] EXCEPT !.next = run[r].next + 1]
  <2>1. /\ UNCHANGED <<schema, recorded, failures>>
        /\ run' = [run EXCEPT ![r] = w]
        /\ run[r].at = "loop" /\ run[r].next <= Len(run[r].files)
        /\ Migrations!File(r) \in run[r].applied
    BY <1>4
    DEF Migrations!Skip, Migrations!Looping, Migrations!SameSum,
        Migrations!Known, Migrations!Seen
  <2>2. /\ w \in Runs /\ w.at = "loop" /\ w.files = run[r].files
        /\ w.next = run[r].next + 1 /\ w.applied = run[r].applied
        /\ w.next <= Len(w.files) + 1
    BY <1>2, <2>1 DEF Runs
  <2> HIDE DEF w
  <2>3. ASSUME OrderInv
        PROVE  \A v \in 1..(w.next - 1) :
                   Migrations!Row(v, w.files[v]) \in recorded
    <3>1. \A v \in 1..(w.next - 1) :
              v \in 1..(run[r].next - 1) \/ v = run[r].next
      BY <1>2, <2>2
    <3>2. Migrations!Row(run[r].next, run[r].files[run[r].next]) \in recorded
      BY <1>2, <2>1, <2>3 DEF Migrations!File
    <3> QED
      BY <1>2, <2>2, <2>3, <3>1, <3>2
  <2> QED
    BY <1>1, <1>2, <2>1, <2>2, <2>3, RunnerAlone
<1>5. ASSUME NEW r \in Runners,
             NEW l \in {"refused", "transaction", "failed", "done"},
             run' = [run EXCEPT ![r] = [run[r] EXCEPT !.at = l]],
             UNCHANGED <<schema, recorded>>, failures' \in 0..MaxFailures,
             l = "transaction" => run[r].next <= Len(run[r].files),
             l = "done" => run[r].next > Len(run[r].files)
      PROVE  RunsInv' /\ (OrderInv => OrderInv')
  <2> DEFINE w == [run[r] EXCEPT !.at = l]
  <2>1. /\ w \in Runs /\ w.at = l /\ w.files = run[r].files
        /\ w.next = run[r].next /\ w.applied = run[r].applied
        /\ run' = [run EXCEPT ![r] = w]
    BY <1>2, <1>5 DEF Runs
  <2> HIDE DEF w
  <2>2. /\ w.at = "transaction" => w.next <= Len(w.files)
        /\ w.at = "done" => w.next = Len(w.files) + 1
    BY <1>2, <1>5, <2>1
  <2> QED
    BY <1>2, <1>5, <2>1, <2>2, RunnerAlone
<1>6. ASSUME NEW r \in Runners,
             Migrations!Refuse(r) \/ Migrations!Begin(r) \/
                 Migrations!Finish(r)
      PROVE  RunsInv' /\ (OrderInv => OrderInv')
  BY <1>1, <1>5, <1>6
  DEF Migrations!Refuse, Migrations!Begin, Migrations!Finish,
      Migrations!Looping
<1>7. ASSUME NEW r \in Runners, Migrations!Fail(r)
      PROVE  RunsInv' /\ (OrderInv => OrderInv')
  <2>1. failures' \in 0..MaxFailures
    BY <1>1, <1>7 DEF Migrations!Fail
  <2> QED
    BY <1>5, <1>7, <2>1 DEF Migrations!Fail, Migrations!Throw
<1>8. ASSUME NEW r \in Runners, Migrations!Commit(r)
      PROVE  RunsInv' /\ (OrderInv => OrderInv')
  <2>1. CASE Migrations!Exists(Migrations!Version(r))
    BY <1>1, <1>5, <1>8, <2>1 DEF Migrations!Commit, Migrations!Throw
  <2>2. CASE ~Migrations!Exists(Migrations!Version(r))
    BY <1>8, <2>2, FileCommitted
  <2> QED
    BY <2>1, <2>2
<1>9. CASE Migrations!Down
  <2>1. Resets /\ schema' = <<>> /\ recorded' = {} /\
            UNCHANGED <<run, failures>>
    BY <1>9 DEF Migrations!Down
  <2>2. RunsTyped' /\ PlaceInFiles'
    BY <2>1
    DEF RunsInv, RunsTyped, PlaceInFiles, Runs, Migrations!Rows,
        Migrations!Versions
  <2>3. Migrations!RecordedOnce'
    BY <2>1 DEF Migrations!RecordedOnce, Migrations!ToSet
  <2> QED
    BY <2>1, <2>2, <2>3 DEF RunsInv
<1>10. CASE UNCHANGED Migrations!vars
  BY <1>10
  DEF Migrations!vars, RunsInv, RunsTyped, PlaceInFiles,
      Migrations!RecordedOnce, OrderInv,
               PassedIsRecorded, Migrations!InOrder, Runs, Migrations!Rows,
               Migrations!Versions
<1> QED
  BY <1>3, <1>4, <1>6, <1>7, <1>8, <1>9, <1>10
  DEF Migrations!Next, Migrations!Step

\* The typing the proofs use is that of the module.
LEMMA RunsMeanTypeOK == RunsInv => Migrations!TypeOK
<1> SUFFICES ASSUME RunsInv
             PROVE  Migrations!TypeOK
  OBVIOUS
<1>1. ASSUME NEW r \in Runners
      PROVE  /\ run[r].at \in {"idle", "loop", "transaction", "done",
                               "failed", "refused"}
             /\ run[r].files \in Releases \cup {<<>>}
             /\ run[r].applied \subseteq Migrations!Rows
             /\ run[r].next \in 1..(Len(run[r].files) + 1)
             /\ run[r].at = "done" => run[r].next = Len(run[r].files) + 1
  BY DEF RunsInv, RunsTyped, PlaceInFiles, Runs
<1>2. \A i \in DOMAIN schema : schema[i] \in Migrations!Rows
  BY DEF RunsInv, RunsTyped
<1> QED
  BY <1>1, <1>2 DEF Migrations!TypeOK, RunsInv, RunsTyped

\* Runners of any releases, at the same time, failing and run again: a
\* migration takes effect once, and the rows of schema_migrations are what has,
\* also when the schema is dropped amid them.
THEOREM MigratedOnce ==
    ASSUME Migrations!MigrationsAssumption
    PROVE  Migrations!Spec => [](Migrations!TypeOK /\ Migrations!RecordedOnce)
<1>1. Migrations!Init => RunsInv
  BY InitRuns
<1>2. RunsInv /\ [Migrations!Next]_(Migrations!vars) => RunsInv'
  BY RunsStep
<1>3. RunsInv => Migrations!TypeOK /\ Migrations!RecordedOnce
  BY RunsMeanTypeOK DEF RunsInv
<1> QED
  BY <1>1, <1>2, <1>3, PTL DEF Migrations!Spec

\* Without a reset no migration comes before an earlier one of its files, and
\* a job that succeeds leaves the database with exactly its files.
THEOREM MigratedInOrder ==
    ASSUME Migrations!MigrationsAssumption, ~Resets
    PROVE  Migrations!Spec => [](Migrations!InOrder /\ Migrations!NoDivergence)
<1>1. Migrations!Init => RunsInv /\ OrderInv
  BY InitRuns
<1>2. RunsInv /\ OrderInv /\ [Migrations!Next]_(Migrations!vars) =>
          RunsInv' /\ OrderInv'
  BY RunsStep
<1>3. RunsInv /\ OrderInv => Migrations!InOrder /\ Migrations!NoDivergence
  <2> SUFFICES ASSUME RunsInv, OrderInv
               PROVE  Migrations!InOrder /\ Migrations!NoDivergence
    OBVIOUS
  <2>1. ASSUME NEW r \in Runners, run[r].at = "done",
               NEW v \in DOMAIN run[r].files
        PROVE  Migrations!Row(v, run[r].files[v]) \in recorded
    <3>1. v \in 1..(run[r].next - 1)
      BY <2>1 DEF RunsInv, RunsTyped, PlaceInFiles, Runs
    <3> QED
      BY <3>1 DEF OrderInv, PassedIsRecorded
  <2> QED
    BY <2>1 DEF OrderInv, Migrations!NoDivergence
<1> QED
  BY <1>1, <1>2, <1>3, PTL DEF Migrations!Spec

-----------------------------------------------------------------------------
(* The query cache of a page (QueryCache) *)

\* A request is idle, or that of a user.
IsRequest(r) ==
    /\ r \in Cache!Request
    /\ \/ r = Cache!Idle
       \/ r.at \in {"sent", "served"} /\ r.owner \in Users

CacheTyped ==
    /\ Cache!TypeOK
    /\ \A k \in Keys : IsRequest(query[k])
    /\ \A k \in Keys, h \in Hooks : IsRequest(write[k][h])

\* Who has signed out is shown nothing, and asks for nothing.
NothingKept ==
    user = Cache!None =>
        \A k \in Keys : /\ query[k] = Cache!Idle
                        /\ k \notin WriteThrough => cache[k] = Cache!Empty

CacheInv == CacheTyped /\ NothingKept

\* The values a request and a view can have.
LEMMA RequestFacts ==
    ASSUME Cache!QueryCacheAssumption
    PROVE  /\ Cache!None = "none" /\ Cache!None \notin Users
           /\ Cache!Idle.at = "idle" /\ Cache!Idle.old = FALSE
           /\ IsRequest(Cache!Idle)
           /\ Cache!Empty \in Cache!Data /\ Cache!Empty.owner = Cache!None
           /\ Cache!Empty.version = 0
           /\ \A u \in Users :
                  /\ IsRequest(Cache!Sent(u)) /\ Cache!Sent(u).at = "sent"
                  /\ Cache!Sent(u).owner = u /\ Cache!Sent(u).old = FALSE
                  /\ Cache!Sent(u) # Cache!Idle
<1>1. 0 \in 0..MaxVersion /\ Cache!None = "none" /\ Cache!None \notin Users
  BY DEF Cache!QueryCacheAssumption, Cache!None
<1>2. Cache!Idle \in Cache!Request /\ Cache!Idle.at = "idle" /\
          Cache!Idle.old = FALSE
  BY <1>1 DEF Cache!Idle, Cache!Request
<1>3. Cache!Empty \in Cache!Data /\ Cache!Empty.owner = Cache!None /\
          Cache!Empty.version = 0
  BY <1>1 DEF Cache!Empty, Cache!Data
<1>4. ASSUME NEW u \in Users
      PROVE  /\ Cache!Sent(u) \in Cache!Request /\ Cache!Sent(u).at = "sent"
             /\ Cache!Sent(u).owner = u /\ Cache!Sent(u).old = FALSE
  BY <1>1 DEF Cache!Sent, Cache!Request
<1>5. ASSUME NEW u \in Users
      PROVE  IsRequest(Cache!Sent(u)) /\ Cache!Sent(u) # Cache!Idle
  <2>1. Cache!Sent(u) # Cache!Idle
    BY <1>2, <1>4
  <2> QED
    BY <1>4, <2>1 DEF IsRequest
<1>6. IsRequest(Cache!Idle)
  BY <1>2 DEF IsRequest
<1> QED
  BY <1>1, <1>2, <1>3, <1>4, <1>5, <1>6

\* What the server answers, and what becomes of a mutation at a sign-out.
LEMMA ServedFacts ==
    ASSUME Cache!QueryCacheAssumption, NEW r, IsRequest(r), r.at = "sent",
           NEW k \in Keys, data' \in [Users -> [Keys -> 0..MaxVersion]]
    PROVE  /\ IsRequest(Cache!Served(r, k)) /\ Cache!Served(r, k).at = "served"
           /\ Cache!Served(r, k).owner = r.owner
           /\ Cache!Served(r, k).old = r.old
           /\ Cache!Served(r, k).version = data'[r.owner][k]
           /\ Cache!Served(r, k) # Cache!Idle
<1> DEFINE A == {"idle", "sent", "served"}
           U == Users \cup {Cache!None}
           V == 0..MaxVersion
           w == Cache!Served(r, k)
           v == data'[r.owner][k]
<1>1. r # Cache!Idle /\ r \in Cache!Request /\ r.owner \in Users
  BY RequestFacts DEF IsRequest
<1>2. /\ Cache!Request = [at : A, old : BOOLEAN, owner : U, version : V]
      /\ r \in [at : A, old : BOOLEAN, owner : U, version : V]
      /\ "served" \in A /\ v \in V
  BY <1>1 DEF Cache!Request
<1>3. w = [r EXCEPT !.at = "served", !.version = v]
  BY DEF Cache!Served
<1> HIDE DEF A, U, V, w, v
<1>4. /\ w \in [at : A, old : BOOLEAN, owner : U, version : V]
      /\ w.at = "served" /\ w.owner = r.owner /\ w.old = r.old
      /\ w.version = v
  BY ONLY <1>2, <1>3
<1>5. w # Cache!Idle
  BY <1>4, RequestFacts
<1>6. IsRequest(w)
  BY <1>1, <1>2, <1>4 DEF IsRequest
<1> QED
  BY <1>4, <1>5, <1>6 DEF w, v

\* What a sign-out makes of a request under way.
LEMMA LeftFacts ==
    ASSUME Cache!QueryCacheAssumption, NEW r, IsRequest(r)
    PROVE  /\ IsRequest(Cache!Left(r))
           /\ Cache!Left(r) = Cache!Idle \/ Cache!Left(r).old = TRUE
<1>1. CASE r = Cache!Idle
  BY <1>1, RequestFacts DEF Cache!Left
<1>2. CASE r # Cache!Idle
  <2>1. r \in Cache!Request /\ r.at \in {"sent", "served"} /\ r.owner \in Users
    BY <1>2 DEF IsRequest
  <2>2. Cache!Left(r) = [r EXCEPT !.old = TRUE]
    BY <1>2 DEF Cache!Left
  <2>3. /\ Cache!Left(r) \in Cache!Request /\ Cache!Left(r).old = TRUE
        /\ Cache!Left(r).at = r.at /\ Cache!Left(r).owner = r.owner
    BY <2>1, <2>2 DEF Cache!Request
  <2> QED
    BY <2>1, <2>3, <1>2 DEF IsRequest
<1> QED
  BY <1>1, <1>2

\* The cache is empty and nobody is signed in at first.
LEMMA InitCache == Cache!QueryCacheAssumption /\ Cache!Init => CacheInv
<1> SUFFICES ASSUME Cache!QueryCacheAssumption, Cache!Init
             PROVE  CacheInv
  OBVIOUS
<1>1. 0 \in 0..MaxVersion
  BY DEF Cache!QueryCacheAssumption
<1>2. Cache!TypeOK
  BY <1>1, RequestFacts DEF Cache!Init, Cache!TypeOK, IsRequest
<1>3. CacheTyped
  BY <1>2, RequestFacts DEF Cache!Init, CacheTyped
<1> QED
  BY <1>3 DEF Cache!Init, CacheInv, NothingKept

\* One request is put in the place of another.
LEMMA QueryPut ==
    ASSUME CacheTyped, NEW k \in Keys, NEW r, IsRequest(r),
           query' = [query EXCEPT ![k] = r]
    PROVE  /\ query' \in [Keys -> Cache!Request] /\ query'[k] = r
           /\ \A j \in Keys : IsRequest(query'[j])
           /\ \A j \in Keys : j # k => query'[j] = query[j]
<1>1. query \in [Keys -> Cache!Request] /\ r \in Cache!Request
  BY DEF CacheTyped, Cache!TypeOK, IsRequest
<1>2. /\ query' \in [Keys -> Cache!Request] /\ query'[k] = r
      /\ \A j \in Keys : j # k => query'[j] = query[j]
  BY <1>1
<1> QED
  BY <1>2 DEF CacheTyped

\* One mutation of one key changes.
LEMMA WritePut ==
    ASSUME CacheTyped, NEW k \in Keys, NEW h \in Hooks, NEW r, IsRequest(r),
           write' = [write EXCEPT ![k][h] = r]
    PROVE  /\ write' \in [Keys -> [Hooks -> Cache!Request]] /\ write'[k][h] = r
           /\ \A j \in Keys, g \in Hooks : IsRequest(write'[j][g])
           /\ \A j \in Keys, g \in Hooks :
                  j # k \/ g # h => write'[j][g] = write[j][g]
<1> DEFINE R == Cache!Request
           f == [write[k] EXCEPT ![h] = r]
<1>1. write \in [Keys -> [Hooks -> R]] /\ r \in R
  BY DEF CacheTyped, Cache!TypeOK, IsRequest
<1> HIDE DEF R
<1>2. /\ f \in [Hooks -> R] /\ f[h] = r
      /\ \A g \in Hooks : g # h => f[g] = write[k][g]
  BY <1>1
<1>3. write' = [write EXCEPT ![k] = f]
  OBVIOUS
<1> HIDE DEF f
<1>4. /\ write' \in [Keys -> [Hooks -> R]] /\ write'[k] = f
      /\ \A j \in Keys : j # k => write'[j] = write[j]
  BY <1>1, <1>2, <1>3
<1> QED
  BY <1>2, <1>4 DEF CacheTyped, R

\* Every step keeps what was left behind out of the cache.
LEMMA CacheStep ==
    ASSUME Cache!QueryCacheAssumption, CacheInv, [Cache!Next]_(Cache!vars)
    PROVE  CacheInv'
<1> DEFINE Good == CacheTyped' /\ NothingKept'
<1> SUFFICES Good
  BY DEF CacheInv
<1>1. /\ {user, bearer, holder} \subseteq Users \cup {Cache!None}
      /\ bearer # Cache!None <=> user # Cache!None
      /\ data \in [Users -> [Keys -> 0..MaxVersion]]
      /\ cache \in [Keys -> Cache!Data]
      /\ query \in [Keys -> Cache!Request]
      /\ write \in [Keys -> [Hooks -> Cache!Request]]
      /\ own \in [Keys -> 0..MaxVersion]
      /\ 0 \in 0..MaxVersion /\ MaxVersion \in Nat
      /\ \A k \in Keys : IsRequest(query[k])
      /\ \A k \in Keys, h \in Hooks : IsRequest(write[k][h])
  BY DEF CacheInv, CacheTyped, Cache!TypeOK, Cache!QueryCacheAssumption
<1>2. user = Cache!None =>
          \A k \in Keys : /\ k \notin WriteThrough => cache[k] = Cache!Empty
                          /\ query[k] = Cache!Idle /\ query[k].at = "idle"
  BY RequestFacts DEF CacheInv, NothingKept
<1>3. ASSUME NEW u \in Users, Cache!SignIn(u)
      PROVE  Good
  <2>1. /\ user' = u /\ bearer' = u /\ holder' = u /\ u # Cache!None
        /\ query' = [k \in Keys |-> Cache!Sent(u)]
        /\ UNCHANGED <<data, cache, write, own>>
    BY <1>3, RequestFacts DEF Cache!SignIn
  <2>2. /\ query' \in [Keys -> Cache!Request]
        /\ \A k \in Keys : IsRequest(query'[k])
    BY <2>1, RequestFacts DEF IsRequest
  <2> QED
    BY <1>1, <2>1, <2>2 DEF CacheTyped, Cache!TypeOK, NothingKept
<1>4. CASE Cache!SignOut
  <2>1. /\ user' = Cache!None /\ bearer' = Cache!None /\ holder' = Cache!None
        /\ cache' = [k \in Keys |-> Cache!Empty]
        /\ query' = [k \in Keys |-> Cache!Idle]
        /\ write' = [k \in Keys |-> [h \in Hooks |-> Cache!Left(write[k][h])]]
        /\ own' = [k \in Keys |-> 0] /\ data' = data
    BY <1>4 DEF Cache!SignOut, Cache!Cleared
  <2>2. /\ \A k \in Keys, h \in Hooks :
               IsRequest(Cache!Left(write[k][h])) /\
                   Cache!Left(write[k][h]) \in Cache!Request
        /\ IsRequest(Cache!Idle) /\ Cache!Idle \in Cache!Request
        /\ Cache!Empty \in Cache!Data
    <3>1. \A r : IsRequest(r) => r \in Cache!Request
      BY DEF IsRequest
    <3>2. \A k \in Keys, h \in Hooks : IsRequest(Cache!Left(write[k][h]))
      BY <1>1, LeftFacts
    <3> QED
      BY <3>1, <3>2, RequestFacts
  <2>3. /\ write' \in [Keys -> [Hooks -> Cache!Request]]
        /\ \A k \in Keys, h \in Hooks : IsRequest(write'[k][h])
    BY <2>1, <2>2
  <2>4. /\ query' \in [Keys -> Cache!Request]
        /\ cache' \in [Keys -> Cache!Data]
        /\ \A k \in Keys : IsRequest(query'[k])
        /\ \A k \in Keys : cache'[k] = Cache!Empty /\ query'[k] = Cache!Idle
        /\ own' \in [Keys -> 0..MaxVersion]
    BY <1>1, <2>1, <2>2
  <2> QED
    BY <1>1, <2>1, <2>3, <2>4 DEF CacheTyped, Cache!TypeOK, NothingKept
<1>5. CASE Cache!Refresh \/ \E u \in Users : Cache!OtherSignIn(u)
  <2>1. /\ {user', bearer', holder'} \subseteq Users \cup {Cache!None}
        /\ bearer' # Cache!None <=> user' # Cache!None
        /\ UNCHANGED <<user, data, cache, query, write, own>>
    BY <1>1, <1>5 DEF Cache!Refresh, Cache!OtherSignIn
  <2> QED
    BY <1>1, <1>2, <2>1 DEF CacheTyped, Cache!TypeOK, NothingKept
<1>6. ASSUME NEW k \in Keys, Cache!Refetch(k) \/ Cache!ServeQuery(k)
      PROVE  Good
  <2>1. UNCHANGED <<user, bearer, holder, data, cache, write, own>>
    BY <1>6 DEF Cache!Refetch, Cache!ServeQuery
  <2>2. user # Cache!None
    BY <1>2, <1>6 DEF Cache!Refetch, Cache!ServeQuery
  <2>3. \E r : IsRequest(r) /\ query' = [query EXCEPT ![k] = r]
    <3>1. CASE Cache!Refetch(k)
      <4>1. bearer \in Users
        BY <1>1, <2>2
      <4> QED
        BY <3>1, <4>1, RequestFacts DEF Cache!Refetch
    <3>2. CASE Cache!ServeQuery(k)
      BY <1>1, <2>1, <3>2, ServedFacts DEF Cache!ServeQuery
    <3> QED
      BY <1>6, <3>1, <3>2
  <2>4. /\ query' \in [Keys -> Cache!Request]
        /\ \A j \in Keys : IsRequest(query'[j])
    BY <2>3, QueryPut DEF CacheInv
  <2> QED
    BY <1>1, <2>1, <2>2, <2>4 DEF CacheTyped, Cache!TypeOK, NothingKept
<1>7. ASSUME NEW k \in Keys, Cache!QueryAnswered(k)
      PROVE  Good
  <2>1. /\ UNCHANGED <<user, bearer, holder, data, write, own>>
        /\ cache' = [cache EXCEPT ![k] = Cache!Shown(query[k])]
        /\ query' = [query EXCEPT ![k] = Cache!Idle] /\ query[k].at = "served"
    BY <1>7 DEF Cache!QueryAnswered
  <2>2. user # Cache!None
    BY <1>2, <2>1
  <2>3. Cache!Shown(query[k]) \in Cache!Data
    BY <1>1 DEF Cache!Shown, Cache!Request, Cache!Data
  <2>4. /\ query' \in [Keys -> Cache!Request]
        /\ \A j \in Keys : IsRequest(query'[j])
    BY <2>1, QueryPut, RequestFacts DEF CacheInv
  <2>5. cache' \in [Keys -> Cache!Data]
    BY <1>1, <2>1, <2>3
  <2> QED
    BY <1>1, <2>1, <2>2, <2>4, <2>5 DEF CacheTyped, Cache!TypeOK, NothingKept
<1>8. ASSUME NEW k \in Keys, NEW h \in Hooks, Cache!Mutate(k, h)
      PROVE  Good
  <2>1. /\ UNCHANGED <<user, bearer, holder, data, cache, query, own>>
        /\ write' = [write EXCEPT ![k][h] = Cache!Sent(bearer)]
        /\ bearer \in Users
    BY <1>1, <1>8 DEF Cache!Mutate
  <2>2. /\ write' \in [Keys -> [Hooks -> Cache!Request]]
        /\ \A j \in Keys, g \in Hooks : IsRequest(write'[j][g])
    BY <2>1, WritePut, RequestFacts DEF CacheInv
  <2> QED
    BY <1>1, <1>2, <2>1, <2>2 DEF CacheTyped, Cache!TypeOK, NothingKept
<1>9. ASSUME NEW k \in Keys, NEW h \in Hooks, Cache!ServeWrite(k, h)
      PROVE  Good
  <2> DEFINE u == write[k][h].owner
  <2>1. /\ UNCHANGED <<user, bearer, holder, cache, query, own>>
        /\ write' = [write EXCEPT ![k][h] = Cache!Served(write[k][h], k)]
        /\ write[k][h].at = "sent" /\ data[u][k] < MaxVersion
        /\ data' = [data EXCEPT ![u][k] = data[u][k] + 1]
    BY <1>9 DEF Cache!ServeWrite
  <2>2. u \in Users
    BY <1>1, <2>1, RequestFacts DEF IsRequest
  <2>3. data' \in [Users -> [Keys -> 0..MaxVersion]]
    BY <1>1, <2>1, <2>2
  <2>4. /\ write' \in [Keys -> [Hooks -> Cache!Request]]
        /\ \A j \in Keys, g \in Hooks : IsRequest(write'[j][g])
    BY <1>1, <2>1, <2>3, ServedFacts, WritePut DEF CacheInv
  <2> QED
    BY <1>1, <1>2, <2>1, <2>3, <2>4 DEF CacheTyped, Cache!TypeOK, NothingKept
<1>10. ASSUME NEW k \in Keys, NEW h \in Hooks, Cache!WriteAnswered(k, h)
       PROVE  Good
  <2>1. /\ UNCHANGED <<user, bearer, holder, data>>
        /\ write' = [write EXCEPT ![k][h] = Cache!Idle]
    BY <1>10 DEF Cache!WriteAnswered
  <2>2. /\ write' \in [Keys -> [Hooks -> Cache!Request]]
        /\ \A j \in Keys, g \in Hooks : IsRequest(write'[j][g])
    BY <2>1, WritePut, RequestFacts DEF CacheInv
  <2>3. cache' \in [Keys -> Cache!Data]
    <3>1. Cache!Shown(write[k][h]) \in Cache!Data
      BY <1>1 DEF Cache!Shown, Cache!Request, Cache!Data
    <3> QED
      BY <1>1, <1>10, <3>1 DEF Cache!WriteAnswered
  <2>4. own' \in [Keys -> 0..MaxVersion]
    <3>1. write[k][h].version \in 0..MaxVersion /\ own[k] \in 0..MaxVersion
      BY <1>1 DEF Cache!Request
    <3>2. \/ own' = own
          \/ own' = [own EXCEPT ![k] = own[k]]
          \/ own' = [own EXCEPT ![k] = write[k][h].version]
      BY <1>10 DEF Cache!WriteAnswered
    <3> QED
      BY <1>1, <3>1, <3>2
  <2>5. \/ query' = query
        \/ user # Cache!None /\
               query' = [query EXCEPT ![k] = Cache!Invalidated(k)]
    BY <1>10 DEF Cache!WriteAnswered
  <2>6. user # Cache!None => IsRequest(Cache!Invalidated(k))
    BY <1>1, RequestFacts DEF Cache!Invalidated, Cache!Joined
  <2>7. /\ query' \in [Keys -> Cache!Request]
        /\ \A j \in Keys : IsRequest(query'[j])
    BY <1>1, <2>5, <2>6, QueryPut DEF CacheInv
  <2>8. \A j \in Keys : j \notin WriteThrough => cache'[j] = cache[j]
    BY <1>1, <1>10 DEF Cache!WriteAnswered
  <2> QED
    BY <1>1, <1>2, <2>1, <2>2, <2>3, <2>4, <2>5, <2>7, <2>8
       DEF CacheTyped, Cache!TypeOK, NothingKept
<1>11. CASE UNCHANGED Cache!vars
  BY <1>1, <1>2, <1>11 DEF Cache!vars, CacheTyped, Cache!TypeOK, NothingKept
<1> QED
  BY <1>3, <1>4, <1>5, <1>6, <1>7, <1>8, <1>9, <1>10, <1>11 DEF Cache!Next

\* Of a signed-out user nothing is left in the views that no mutation writes
\* (in all but the cart), whichever tab signs whom in: no fetch puts it back.
THEOREM NothingIsLeft ==
    ASSUME Cache!QueryCacheAssumption
    PROVE  Cache!Spec => [](Cache!TypeOK /\ Cache!NothingLeft)
<1>1. Cache!Init => CacheInv
  BY InitCache
<1>2. CacheInv /\ [Cache!Next]_(Cache!vars) => CacheInv'
  BY CacheStep
<1>3. CacheInv => Cache!TypeOK /\ Cache!NothingLeft
  BY DEF CacheInv, CacheTyped, NothingKept, Cache!NothingLeft, Cache!Fetched
<1> QED
  BY <1>1, <1>2, <1>3, PTL DEF Cache!Spec

\* One tab: what it shows and fetches is the user's, a mutation of this session
\* has a view to refresh, and what is shown, or was served since, is as new as
\* the last write that was answered.
OwnData ==
    /\ bearer = user /\ holder = user
    /\ \A k \in Keys :
           /\ query[k] # Cache!Idle => query[k].owner = user
           /\ user = Cache!None => own[k] = 0
           /\ user # Cache!None => own[k] <= data[user][k]
           /\ k \notin WriteThrough =>
                  /\ cache[k].owner \in {Cache!None, user}
                  /\ query[k].at = "served" => query[k].version >= own[k]
                  /\ query[k] = Cache!Idle => cache[k].version >= own[k]
    /\ \A k \in Keys, h \in Hooks :
           write[k][h] # Cache!Idle /\ ~write[k][h].old =>
               /\ write[k][h].owner = user
               /\ k \notin WriteThrough => cache[k].owner # Cache!None
               /\ write[k][h].at = "served" =>
                      write[k][h].version <= data[user][k]

\* Nothing is shown at first.
LEMMA InitOwnData == Cache!QueryCacheAssumption /\ Cache!Init => OwnData
<1> SUFFICES ASSUME Cache!QueryCacheAssumption, Cache!Init
             PROVE  OwnData
  OBVIOUS
<1> QED
  BY RequestFacts DEF Cache!Init, OwnData

\* Without another tab, every step keeps the data the user's own.
LEMMA OwnDataStep ==
    ASSUME Cache!QueryCacheAssumption, CacheInv, OwnData,
           [Cache!Next]_(Cache!vars),
           ~MoreTabs
    PROVE  OwnData'
<1>1. /\ user \in Users \cup {Cache!None}
      /\ data \in [Users -> [Keys -> 0..MaxVersion]]
      /\ cache \in [Keys -> Cache!Data]
      /\ query \in [Keys -> Cache!Request]
      /\ write \in [Keys -> [Hooks -> Cache!Request]]
      /\ own \in [Keys -> 0..MaxVersion]
      /\ MaxVersion \in Nat
      /\ \A k \in Keys : IsRequest(query[k])
      /\ \A k \in Keys, h \in Hooks : IsRequest(write[k][h])
  BY DEF CacheInv, CacheTyped, Cache!TypeOK, Cache!QueryCacheAssumption
<1>2. user = Cache!None =>
          \A k \in Keys : /\ query[k] = Cache!Idle
                          /\ k \notin WriteThrough => cache[k] = Cache!Empty
  BY DEF CacheInv, NothingKept
<1>3. \A r : IsRequest(r) /\ r # Cache!Idle => r.owner \in Users
  BY DEF IsRequest
<1>4. data' \in [Users -> [Keys -> 0..MaxVersion]]
  BY CacheStep DEF CacheInv, CacheTyped, Cache!TypeOK
<1>5. ASSUME NEW u \in Users, Cache!SignIn(u)
      PROVE  OwnData'
  <2>1. /\ user = Cache!None /\ user' = u /\ bearer' = u /\ holder' = u
        /\ u # Cache!None
        /\ \A k \in Keys : query'[k] = Cache!Sent(u)
        /\ UNCHANGED <<data, cache, write, own>>
    BY <1>5, RequestFacts DEF Cache!SignIn
  <2>2. \A k \in Keys, h \in Hooks : write[k][h] = Cache!Idle \/
            write[k][h].old
    BY <1>1, <1>3, <2>1, RequestFacts DEF OwnData
  <2>3. \A k \in Keys : /\ own[k] = 0 /\ 0 <= data[u][k]
                        /\ k \notin WriteThrough => cache[k] = Cache!Empty
    BY <1>1, <1>2, <2>1 DEF OwnData
  <2> QED
    BY <2>1, <2>2, <2>3, RequestFacts DEF OwnData
<1>6. CASE Cache!SignOut
  <2>1. /\ user' = Cache!None /\ bearer' = Cache!None /\ holder' = Cache!None
        /\ \A k \in Keys : /\ cache'[k] = Cache!Empty
                           /\ query'[k] = Cache!Idle /\ own'[k] = 0
        /\ \A k \in Keys, h \in Hooks : write'[k][h] = Cache!Left(write[k][h])
    BY <1>6 DEF Cache!SignOut, Cache!Cleared
  <2>2. \A k \in Keys, h \in Hooks : write'[k][h] = Cache!Idle \/
            write'[k][h].old
    BY <1>1, <2>1, LeftFacts
  <2> QED
    BY <2>1, <2>2, RequestFacts DEF OwnData
<1>7. CASE Cache!Refresh
  <2>1. /\ bearer' = holder
        /\ UNCHANGED <<user, holder, data, cache, query, write, own>>
    BY <1>7 DEF Cache!Refresh
  <2> QED
    BY <2>1 DEF OwnData
<1>8. ASSUME NEW k \in Keys, Cache!Refetch(k)
      PROVE  OwnData'
  <2>1. /\ UNCHANGED <<user, bearer, holder, data, cache, write, own>>
        /\ query' = [query EXCEPT ![k] = Cache!Sent(bearer)]
        /\ user # Cache!None
    BY <1>8 DEF Cache!Refetch
  <2>2. bearer = user /\ user \in Users
    BY <1>1, <2>1 DEF OwnData
  <2>3. /\ query'[k] = Cache!Sent(user)
        /\ \A j \in Keys : j # k => query'[j] = query[j]
    BY <2>1, <2>2, QueryPut, RequestFacts DEF CacheInv
  <2>4. /\ query'[k] # Cache!Idle /\ query'[k].owner = user
        /\ query'[k].at = "sent"
    BY <2>2, <2>3, RequestFacts
  <2> QED
    BY <2>1, <2>3, <2>4 DEF OwnData
<1>9. ASSUME NEW k \in Keys, Cache!ServeQuery(k)
      PROVE  OwnData'
  <2>1. /\ UNCHANGED <<user, bearer, holder, data, cache, write, own>>
        /\ query' = [query EXCEPT ![k] = Cache!Served(query[k], k)]
        /\ query[k].at = "sent"
    BY <1>9 DEF Cache!ServeQuery
  <2>2. query[k].owner = user /\ user \in Users /\ user # Cache!None
    BY <1>1, <1>3, <2>1, RequestFacts DEF OwnData
  <2>3. /\ IsRequest(Cache!Served(query[k], k))
        /\ Cache!Served(query[k], k) # Cache!Idle
        /\ Cache!Served(query[k], k).owner = user
        /\ Cache!Served(query[k], k).version = data[user][k]
    BY <1>1, <1>4, <2>1, <2>2, ServedFacts
  <2>4. /\ query'[k] = Cache!Served(query[k], k)
        /\ \A j \in Keys : j # k => query'[j] = query[j]
    BY <2>1, <2>3, QueryPut DEF CacheInv
  <2>5. own[k] <= data[user][k] /\ own[k] \in Nat /\ data[user][k] \in Nat
    BY <1>1, <2>2 DEF OwnData
  <2> QED
    BY <2>1, <2>2, <2>3, <2>4, <2>5 DEF OwnData
<1>10. ASSUME NEW k \in Keys, Cache!QueryAnswered(k)
       PROVE  OwnData'
  <2>1. /\ UNCHANGED <<user, bearer, holder, data, write, own>>
        /\ cache' = [cache EXCEPT ![k] = Cache!Shown(query[k])]
        /\ query' = [query EXCEPT ![k] = Cache!Idle] /\ query[k].at = "served"
    BY <1>10 DEF Cache!QueryAnswered
  <2>2. /\ query'[k] = Cache!Idle
        /\ \A j \in Keys : j # k => query'[j] = query[j]
    BY <2>1, QueryPut, RequestFacts DEF CacheInv
  <2>3. /\ cache'[k] = Cache!Shown(query[k])
        /\ \A j \in Keys : j # k => cache'[j] = cache[j]
    BY <1>1, <2>1
  <2>4. /\ query[k].owner = user /\ user # Cache!None
        /\ k \notin WriteThrough => query[k].version >= own[k]
    BY <1>1, <1>3, <2>1, RequestFacts DEF OwnData
  <2>5. cache'[k].owner = user /\ cache'[k].version = query[k].version
    BY <2>3, <2>4 DEF Cache!Shown
  <2> QED
    BY <2>1, <2>2, <2>3, <2>4, <2>5, RequestFacts DEF OwnData
<1>11. ASSUME NEW k \in Keys, NEW h \in Hooks, Cache!Mutate(k, h)
       PROVE  OwnData'
  <2>1. /\ UNCHANGED <<user, bearer, holder, data, cache, query, own>>
        /\ write' = [write EXCEPT ![k][h] = Cache!Sent(bearer)]
        /\ user # Cache!None
        /\ k \notin WriteThrough => cache[k].owner # Cache!None
    BY <1>11 DEF Cache!Mutate, Cache!Loaded
  <2>2. bearer = user /\ user \in Users
    BY <1>1, <2>1 DEF OwnData
  <2>3. /\ write'[k][h] = Cache!Sent(user)
        /\ \A j \in Keys, g \in Hooks :
               j # k \/ g # h => write'[j][g] = write[j][g]
    <3>1. CacheTyped /\ IsRequest(Cache!Sent(user)) /\ k \in Keys /\
              h \in Hooks
      BY <2>2, RequestFacts DEF CacheInv
    <3>2. write' = [write EXCEPT ![k][h] = Cache!Sent(user)]
      BY <2>1, <2>2
    <3> QED
      BY ONLY <3>1, <3>2, WritePut
  <2>4. write'[k][h].owner = user /\ write'[k][h].at = "sent"
    BY <2>2, <2>3, RequestFacts
  <2>5. ASSUME NEW j \in Keys, NEW g \in Hooks,
               write'[j][g] # Cache!Idle, ~write'[j][g].old
        PROVE  /\ write'[j][g].owner = user
               /\ j \notin WriteThrough => cache[j].owner # Cache!None
               /\ write'[j][g].at = "served" =>
                      write'[j][g].version <= data[user][j]
    BY <2>1, <2>3, <2>4, <2>5 DEF OwnData
  <2> QED
    BY <2>1, <2>5 DEF OwnData
<1>12. ASSUME NEW k \in Keys, NEW h \in Hooks, Cache!ServeWrite(k, h)
       PROVE  OwnData'
  <2> DEFINE u == write[k][h].owner
             w == Cache!Served(write[k][h], k)
  <2>1. /\ UNCHANGED <<user, bearer, holder, cache, query, own>>
        /\ write' = [write EXCEPT ![k][h] = w]
        /\ write[k][h].at = "sent"
        /\ data' = [data EXCEPT ![u][k] = data[u][k] + 1]
    BY <1>12 DEF Cache!ServeWrite
  <2>2. u \in Users /\ write[k][h] # Cache!Idle
    BY <1>1, <1>3, <2>1, RequestFacts
  <2>3. /\ IsRequest(w) /\ w.owner = u /\ w.old = write[k][h].old
        /\ w.version = data'[u][k]
    BY <1>1, <1>4, <2>1, ServedFacts
  <2>4. /\ write'[k][h] = w
        /\ \A j \in Keys, g \in Hooks :
               j # k \/ g # h => write'[j][g] = write[j][g]
    BY <2>1, <2>3, WritePut DEF CacheInv
  <2> HIDE DEF w
  <2>5. \A v \in Users, j \in Keys :
            /\ data[v][j] \in Nat /\ data'[v][j] \in Nat
            /\ data[v][j] <= data'[v][j]
    BY <1>1, <2>1, <2>2
  <2>6. \A j \in Keys : own[j] \in Nat
    BY <1>1
  <2>7. ASSUME NEW j \in Keys, NEW g \in Hooks,
               write'[j][g] # Cache!Idle, ~write'[j][g].old
        PROVE  /\ write'[j][g].owner = user
               /\ j \notin WriteThrough => cache[j].owner # Cache!None
               /\ write'[j][g].at = "served" =>
                      write'[j][g].version <= data'[user][j]
    <3>1. CASE j = k /\ g = h
      <4>1. u = user /\ (k \notin WriteThrough => cache[k].owner # Cache!None)
        BY <2>2, <2>3, <2>4, <2>7, <3>1 DEF OwnData
      <4> QED
        BY <2>2, <2>3, <2>4, <2>5, <3>1, <4>1
    <3>2. CASE j # k \/ g # h
      <4>1. /\ write'[j][g] = write[j][g]
            /\ write[j][g].owner = user
            /\ j \notin WriteThrough => cache[j].owner # Cache!None
            /\ write[j][g].at = "served" =>
                   write[j][g].version <= data[user][j]
        BY <2>4, <2>7, <3>2 DEF OwnData
      <4>2. user \in Users /\ write[j][g].version \in Nat
        BY <1>1, <1>3, <2>7, <4>1 DEF Cache!Request
      <4> QED
        BY <2>5, <4>1, <4>2
    <3> QED
      BY <3>1, <3>2
  <2>8. \A j \in Keys : user # Cache!None => own[j] <= data'[user][j]
    BY <1>1, <2>5, <2>6 DEF OwnData
  <2> QED
    BY <2>1, <2>7, <2>8 DEF OwnData
<1>13. ASSUME NEW k \in Keys, NEW h \in Hooks, Cache!WriteAnswered(k, h)
       PROVE  OwnData'
  <2> DEFINE r == write[k][h]
  <2>1. /\ UNCHANGED <<user, bearer, holder, data>>
        /\ write' = [write EXCEPT ![k][h] = Cache!Idle] /\ r.at = "served"
        /\ IF k \in WriteThrough
           THEN /\ cache' = [cache EXCEPT ![k] = Cache!Shown(r)]
                /\ query' = query
           ELSE /\ cache' = cache
                /\ query' = IF user # Cache!None
                            THEN [query EXCEPT ![k] = Cache!Invalidated(k)]
                            ELSE query
        /\ IF r.old THEN own' = own
           ELSE own' = [own EXCEPT ![k] = IF own[k] > r.version THEN own[k]
                                          ELSE r.version]
    BY <1>13 DEF Cache!WriteAnswered
  <2>2. /\ write'[k][h] = Cache!Idle
        /\ \A j \in Keys, g \in Hooks :
               j # k \/ g # h => write'[j][g] = write[j][g]
    <3>1. CacheTyped /\ IsRequest(Cache!Idle) /\ k \in Keys /\ h \in Hooks
      BY RequestFacts DEF CacheInv
    <3>2. write' = [write EXCEPT ![k][h] = Cache!Idle]
      BY <2>1
    <3> QED
      BY ONLY <3>1, <3>2, WritePut
  <2>3. r # Cache!Idle /\ r.owner \in Users /\ r.version \in 0..MaxVersion
    BY <1>1, <1>3, <2>1, RequestFacts DEF Cache!Request
  <2>4. ~r.old => /\ r.owner = user /\ user # Cache!None
                  /\ k \notin WriteThrough => cache[k].owner # Cache!None
                  /\ r.version <= data[user][k]
    BY <2>1, <2>3, RequestFacts DEF OwnData
  <2>5. \A j \in Keys : j # k => /\ query'[j] = query[j] /\ own'[j] = own[j]
                                /\ cache'[j] = cache[j]
    BY <1>1, <2>1
  <2>6. ASSUME NEW j \in Keys, NEW g \in Hooks,
               write'[j][g] # Cache!Idle, ~write'[j][g].old
        PROVE  /\ write'[j][g].owner = user
               /\ j \notin WriteThrough => cache'[j].owner # Cache!None
               /\ write'[j][g].at = "served" =>
                      write'[j][g].version <= data[user][j]
    <3>1. write'[j][g] = write[j][g]
      BY <2>2, <2>6
    <3>2. j \notin WriteThrough => cache'[j] = cache[j]
      BY <2>1, <2>5
    <3> QED
      BY <2>6, <3>1, <3>2 DEF OwnData
  <2>7. /\ user = Cache!None => own'[k] = 0
        /\ user # Cache!None => own'[k] <= data[user][k]
    <3>1. CASE r.old
      BY <2>1, <3>1 DEF OwnData
    <3>2. CASE ~r.old
      <4>1. own'[k] = own[k] \/ own'[k] = r.version
        BY <1>1, <2>1, <3>2
      <4> QED
        BY <2>4, <3>2, <4>1 DEF OwnData
    <3> QED
      BY <3>1, <3>2
  <2>8. CASE k \in WriteThrough
    <3>1. query' = query
      BY <2>1, <2>8
    <3> QED
      BY <2>1, <2>5, <2>6, <2>7, <2>8, <3>1 DEF OwnData
  <2>9. CASE k \notin WriteThrough
    <3>1. cache' = cache /\ (user = Cache!None => query' = query)
      BY <2>1, <2>9
    <3>2. user # Cache!None => /\ bearer = user /\ user \in Users
                               /\ query'[k] = Cache!Invalidated(k)
      BY <1>1, <2>1, <2>9 DEF OwnData
    <3>3. user # Cache!None => \/ query'[k] = Cache!Sent(user)
                               \/ /\ query'[k] = query[k]
                                  /\ query[k] # Cache!Idle
                                  /\ cache[k].owner = Cache!None
      BY <3>2 DEF Cache!Invalidated, Cache!Joined
    <3>4. user \in Users => /\ Cache!Sent(user).owner = user
                            /\ Cache!Sent(user).at = "sent"
                            /\ Cache!Sent(user) # Cache!Idle
      BY RequestFacts
    <3>5. /\ query'[k] # Cache!Idle => query'[k].owner = user
          /\ query'[k].at = "served" => query'[k].version >= own'[k]
          /\ query'[k] = Cache!Idle => cache'[k].version >= own'[k]
      <4>1. CASE user = Cache!None
        <5>1. own' = own /\ query' = query
          BY <2>1, <2>4, <3>1, <4>1
        <5> QED
          BY <2>9, <3>1, <5>1 DEF OwnData
      <4>2. CASE user # Cache!None /\ query'[k] = Cache!Sent(user)
        BY <3>2, <3>4, <4>2
      <4>3. CASE /\ user # Cache!None /\ query'[k] = query[k]
                 /\ query[k] # Cache!Idle /\ cache[k].owner = Cache!None
        <5>1. own' = own
          BY <2>1, <2>4, <2>9, <4>3
        <5> QED
          BY <2>9, <4>3, <5>1 DEF OwnData
      <4> QED
        BY <3>3, <4>1, <4>2, <4>3
    <3> QED
      BY <2>1, <2>5, <2>6, <2>7, <2>9, <3>1, <3>5 DEF OwnData
  <2> QED
    BY <2>8, <2>9
<1>14. CASE UNCHANGED Cache!vars
  BY <1>14 DEF Cache!vars, OwnData
<1> QED
  BY <1>5, <1>6, <1>7, <1>8, <1>9, <1>10, <1>11, <1>12, <1>13, <1>14
     DEF Cache!Next, Cache!OtherSignIn

\* "The next user must not see the last one's data", and once a view is not
\* being fetched it shows all this session has written, whatever order fetches,
\* mutations and sign-outs are answered in: in one tab, and in the views that
\* no mutation writes (in all but the cart).
THEOREM ShowsOwn ==
    ASSUME Cache!QueryCacheAssumption, ~MoreTabs
    PROVE  Cache!Spec => [](Cache!NotAnothers /\ Cache!ReadsItsWrites)
<1>1. Cache!Init => CacheInv /\ OwnData
  BY InitCache, InitOwnData
<1>2. CacheInv /\ OwnData /\ [Cache!Next]_(Cache!vars) => CacheInv' /\ OwnData'
  BY CacheStep, OwnDataStep
<1>3. OwnData => Cache!NotAnothers /\ Cache!ReadsItsWrites
  BY DEF OwnData, Cache!NotAnothers, Cache!ReadsItsWrites, Cache!Fetched
<1> QED
  BY <1>1, <1>2, <1>3, PTL DEF Cache!Spec

-----------------------------------------------------------------------------
(* The refreshes of the tabs (BrowserSession) *)

Flights ==
    [at : {Page!None, "sent", "ok", "failed", "lost"}, token : 0..MaxTokens]

\* The sources of requests are told apart.
LEMMA NamesApart ==
    ASSUME Page!BoundAssumption
    PROVE  /\ Page!None = "none" /\ Page!None \notin Refreshers
           /\ "mount" \notin Refreshers
           /\ "signin" \notin Refreshers /\ "signout" \notin Refreshers
           /\ "mount" \in Page!Kinds /\ "signin" \in Page!Kinds
           /\ "signout" \in Page!Kinds
           /\ Refreshers \subseteq Page!Kinds /\ Page!None \notin Page!Kinds
           /\ MaxTokens \in Nat \ {0} /\ 0 \in 0..MaxTokens
           /\ 1 \in 0..MaxTokens
           /\ Page!Idle \in Flights /\ Page!Idle.at = Page!None
           /\ Page!Idle.token = 0
BY DEF Page!BoundAssumption, Page!None, Page!Kinds, Page!Idle, Flights

\* A request of one kind in one tab changes.
LEMMA FlightPut ==
    ASSUME Page!TypeOK, NEW t \in Tabs, NEW k \in Page!Kinds,
           NEW f \in Flights,
           flight' = [flight EXCEPT ![t][k] = f]
    PROVE  /\ flight' \in [Tabs -> [Page!Kinds -> Flights]]
           /\ flight'[t][k] = f
           /\ \A u \in Tabs, j \in Page!Kinds :
                  u # t \/ j # k => flight'[u][j] = flight[u][j]
<1> DEFINE F == Flights
           g == [flight[t] EXCEPT ![k] = f]
<1>1. flight \in [Tabs -> [Page!Kinds -> F]] /\ f \in F
  BY DEF Page!TypeOK, Flights
<1> HIDE DEF F
<1>2. /\ g \in [Page!Kinds -> F] /\ g[k] = f
      /\ \A j \in Page!Kinds : j # k => g[j] = flight[t][j]
  BY <1>1
<1>3. flight' = [flight EXCEPT ![t] = g]
  OBVIOUS
<1> HIDE DEF g
<1>4. /\ flight' \in [Tabs -> [Page!Kinds -> F]] /\ flight'[t] = g
      /\ \A u \in Tabs : u # t => flight'[u] = flight[u]
  BY <1>1, <1>2, <1>3
<1> QED
  BY <1>2, <1>4 DEF F

\* The browser is opened with the cookie of an earlier visit.
LEMMA InitPages == Page!BoundAssumption /\ Page!Init => Page!TypeOK
<1> SUFFICES ASSUME Page!BoundAssumption, Page!Init
             PROVE  Page!TypeOK
  OBVIOUS
<1>1. /\ cookie \in 0..MaxTokens /\ issued \in 1..MaxTokens
      /\ live \subseteq 1..issued
  BY NamesApart DEF Page!Init
<1>2. /\ page \in [Tabs -> {"closed", "loading", "in", "out"}]
      /\ access \in [Tabs -> BOOLEAN]
      /\ promise \in [Tabs -> Refreshers \cup {Page!None}]
  BY DEF Page!Init
<1>3. /\ flight \in [Tabs -> [Page!Kinds -> Flights]]
      /\ \A t \in Tabs, c \in Refreshers : flight[t][c] = Page!Idle
  BY NamesApart DEF Page!Init
<1> QED
  BY <1>1, <1>2, <1>3 DEF Page!TypeOK, Flights

\* One tab shows something else.
LEMMA PageType ==
    ASSUME Page!TypeOK, NEW t \in Tabs
    PROVE  /\ \A p \in {"closed", "loading", "in", "out"} :
                  page' = [page EXCEPT ![t] = p] =>
                      page' \in [Tabs -> {"closed", "loading", "in", "out"}]
           /\ \A b \in BOOLEAN :
                  access' = [access EXCEPT ![t] = b] =>
                      access' \in [Tabs -> BOOLEAN]
           /\ \A c \in Refreshers \cup {Page!None} :
                  promise' = [promise EXCEPT ![t] = c] =>
                      /\ promise' \in [Tabs -> Refreshers \cup {Page!None}]
                      /\ promise'[t] = c
                      /\ \A u \in Tabs : u # t => promise'[u] = promise[u]
<1>1. \A p \in {"closed", "loading", "in", "out"} :
          page' = [page EXCEPT ![t] = p] =>
              page' \in [Tabs -> {"closed", "loading", "in", "out"}]
  BY DEF Page!TypeOK
<1>2. \A b \in BOOLEAN :
          access' = [access EXCEPT ![t] = b] => access' \in [Tabs -> BOOLEAN]
  BY DEF Page!TypeOK
<1>3. \A c \in Refreshers \cup {Page!None} :
          promise' = [promise EXCEPT ![t] = c] =>
              /\ promise' \in [Tabs -> Refreshers \cup {Page!None}]
              /\ promise'[t] = c
              /\ \A u \in Tabs : u # t => promise'[u] = promise[u]
  BY DEF Page!TypeOK
<1> QED
  BY <1>1, <1>2, <1>3

\* What a step does to a request: those that ask for a refresh change with the
\* promise.
LEMMA FlightStep ==
    ASSUME Page!BoundAssumption, Page!TypeOK, NEW t \in Tabs,
           NEW k \in Page!Kinds,
           NEW f \in Flights, flight' = [flight EXCEPT ![t][k] = f],
           promise' \in [Tabs -> Refreshers \cup {Page!None}],
           cookie' \in 0..MaxTokens, issued' \in 1..MaxTokens,
           live' \subseteq 1..issued',
           page' \in [Tabs -> {"closed", "loading", "in", "out"}],
           access' \in [Tabs -> BOOLEAN],
           \A u \in Tabs : u # t => promise'[u] = promise[u],
           \/ /\ promise'[t] = promise[t]
              /\ k \in Refreshers /\ f # Page!Idle => promise[t] = k
           \/ k \in Refreshers /\ promise[t] = Page!None /\ promise'[t] = k
           \/ k \in Refreshers /\ flight[t][k] # Page!Idle /\ f = Page!Idle
    PROVE  Page!TypeOK'
<1>0. /\ Page!TypeOK /\ t \in Tabs /\ k \in Page!Kinds /\ f \in Flights
      /\ flight' = [flight EXCEPT ![t][k] = f]
  OBVIOUS
<1>1. /\ flight' \in [Tabs -> [Page!Kinds -> Flights]] /\ flight'[t][k] = f
      /\ \A u \in Tabs, j \in Page!Kinds :
             u # t \/ j # k => flight'[u][j] = flight[u][j]
  BY ONLY <1>0, FlightPut
<1>2. ASSUME NEW u \in Tabs, NEW c \in Refreshers, flight'[u][c] # Page!Idle
      PROVE  promise'[u] = c
  <2>1. c \in Page!Kinds
    BY NamesApart
  <2>2. CASE u # t
    BY <1>1, <1>2, <2>1, <2>2 DEF Page!TypeOK
  <2>3. CASE u = t /\ c = k
    BY <1>1, <1>2, <2>1, <2>3
  <2>4. CASE u = t /\ c # k
    <3>1. promise[t] = c
      BY <1>1, <1>2, <2>1, <2>4 DEF Page!TypeOK
    <3>2. c # Page!None
      BY NamesApart
    <3>3. k \in Refreshers /\ flight[t][k] # Page!Idle => promise[t] = k
      BY DEF Page!TypeOK
    <3> QED
      BY <2>4, <3>1, <3>2, <3>3
  <2> QED
    BY <2>2, <2>3, <2>4
<1> QED
  BY <1>1, <1>2 DEF Page!TypeOK, Flights

\* The answer of the gateway, a request that is lost or sent, and one that has
\* been dealt with.
LEMMA PutStep ==
    ASSUME Page!BoundAssumption, Page!TypeOK, NEW t \in Tabs,
           NEW k \in Page!Kinds,
           NEW stage \in {"sent", "ok", "failed", "lost"},
           NEW tok \in 0..MaxTokens, Page!Put(t, k, stage, tok),
           UNCHANGED <<page, access, promise>>, cookie' \in 0..MaxTokens,
           issued' \in 1..MaxTokens, live' \subseteq 1..issued',
           k \in Refreshers => flight[t][k] # Page!Idle
    PROVE  Page!TypeOK'
<1> DEFINE f == [at |-> stage, token |-> tok]
<1>1. f \in Flights /\ flight' = [flight EXCEPT ![t][k] = f]
  BY DEF Flights, Page!Put
<1>2. /\ promise' \in [Tabs -> Refreshers \cup {Page!None}]
      /\ page' \in [Tabs -> {"closed", "loading", "in", "out"}]
      /\ access' \in [Tabs -> BOOLEAN]
      /\ \A u \in Tabs : promise'[u] = promise[u]
      /\ k \in Refreshers => promise[t] = k
  BY DEF Page!TypeOK
<1> HIDE DEF f
<1> QED
  BY <1>1, <1>2, FlightStep

\* The gateway's answers.
LEMMA ServeTyped ==
    ASSUME Page!BoundAssumption, Page!TypeOK, NEW t \in Tabs, Page!Gateway(t)
    PROVE  Page!TypeOK'
<1>1. /\ issued \in 1..MaxTokens /\ live \subseteq 1..issued
      /\ cookie \in 0..MaxTokens /\ MaxTokens \in Nat \ {0}
      /\ \A k \in Page!Kinds : flight[t][k].token \in 0..MaxTokens
      /\ \A k \in Page!Kinds : Page!At(t, k, "sent") =>
             flight[t][k] # Page!Idle
  BY NamesApart DEF Page!TypeOK, Page!At
<1>2. /\ UNCHANGED <<cookie, page, access, promise>>
      /\ cookie' \in 0..MaxTokens
  BY <1>1 DEF Page!Gateway, Page!ServeSign, Page!ServeRefresh
<1>3. ASSUME NEW k \in Page!Kinds, Page!ServeRefresh(t, k)
      PROVE  Page!TypeOK'
  <2> DEFINE c == flight[t][k].token
  <2>1. Page!At(t, k, "sent")
    BY <1>3 DEF Page!ServeRefresh
  <2>2. CASE /\ issued < MaxTokens /\ issued' = issued + 1
             /\ live' = (live \ {c}) \cup {issued'}
             /\ Page!Put(t, k, "ok", issued')
    <3>1. /\ issued' \in 1..MaxTokens /\ issued' \in 0..MaxTokens
          /\ issued' \in 1..issued'
      BY <1>1, <2>2
    <3>2. \A n \in 1..issued : n \in 1..issued'
      BY <1>1, <2>2
    <3>3. live' \subseteq 1..issued'
      BY <1>1, <2>2, <3>1, <3>2
    <3> QED
      BY <1>1, <1>2, <2>1, <2>2, <3>1, <3>3, PutStep
  <2>3. CASE /\ live' = (IF c = 0 THEN live ELSE {})
             /\ Page!Put(t, k, "failed", c) /\ issued' = issued
    <3>1. live' \subseteq 1..issued' /\ issued' \in 1..MaxTokens
      BY <1>1, <2>3
    <3> QED
      BY <1>1, <1>2, <2>1, <2>3, <3>1, PutStep
  <2> QED
    BY <1>3, <2>2, <2>3 DEF Page!ServeRefresh
<1>4. ASSUME Page!ServeSign(t)
      PROVE  Page!TypeOK'
  <2>1. /\ "signin" \in Page!Kinds /\ "signin" \notin Refreshers
        /\ "signout" \in Page!Kinds /\ "signout" \notin Refreshers
        /\ 0 \in 0..MaxTokens
    BY NamesApart
  <2>2. CASE /\ issued < MaxTokens /\ issued' = issued + 1
             /\ live' = live \cup {issued'}
             /\ Page!Put(t, "signin", "ok", issued')
    <3>1. /\ issued' \in 1..MaxTokens /\ issued' \in 0..MaxTokens
          /\ issued' \in 1..issued'
      BY <1>1, <2>2
    <3>2. \A n \in 1..issued : n \in 1..issued'
      BY <1>1, <2>2
    <3>3. live' \subseteq 1..issued'
      BY <1>1, <2>2, <3>1, <3>2
    <3> QED
      BY <1>2, <2>1, <2>2, <3>1, <3>3, PutStep
  <2>3. CASE Page!Put(t, "signin", "failed", 0) /\ UNCHANGED Page!server
    BY <1>1, <1>2, <2>1, <2>3, PutStep DEF Page!server
  <2>4. CASE /\ live' = live \ {flight[t]["signout"].token}
             /\ Page!Put(t, "signout", "ok", 0) /\ issued' = issued
    <3>1. live' \subseteq 1..issued' /\ issued' \in 1..MaxTokens
      BY <1>1, <2>4
    <3> QED
      BY <1>2, <2>1, <2>4, <3>1, PutStep
  <2> QED
    BY <1>4, <2>2, <2>3, <2>4 DEF Page!ServeSign
<1> QED
  BY <1>3, <1>4 DEF Page!Gateway

\* The answers as the page takes them.
LEMMA AnswerTyped ==
    ASSUME Page!BoundAssumption, Page!TypeOK, NEW t \in Tabs, Page!Answer(t)
    PROVE  Page!TypeOK'
<1>1. /\ issued \in 1..MaxTokens /\ live \subseteq 1..issued
      /\ cookie \in 0..MaxTokens
      /\ page \in [Tabs -> {"closed", "loading", "in", "out"}]
      /\ access \in [Tabs -> BOOLEAN]
      /\ promise \in [Tabs -> Refreshers \cup {Page!None}]
      /\ \A k \in Page!Kinds : flight[t][k].token \in 0..MaxTokens
  BY DEF Page!TypeOK
<1>2. \A k \in Page!Kinds : Page!SetCookie(t, k) => cookie' \in 0..MaxTokens
  BY <1>1, NamesApart DEF Page!SetCookie
<1>3. UNCHANGED Page!server /\ issued' \in 1..MaxTokens /\
          live' \subseteq 1..issued'
  BY <1>1
  DEF Page!Answer, Page!Hydrated, Page!SignedIn, Page!SignedOut,
      Page!Refreshed, Page!server
<1>4. ASSUME NEW k \in {"mount", "signin", "signout"}, Page!SetCookie(t, k),
             Page!Close(t, k), promise' = promise,
             page' \in [Tabs -> {"closed", "loading", "in", "out"}],
             access' \in [Tabs -> BOOLEAN]
      PROVE  Page!TypeOK'
  <2>1. k \in Page!Kinds /\ k \notin Refreshers /\ Page!Idle \in Flights
    BY NamesApart
  <2>2. flight' = [flight EXCEPT ![t][k] = Page!Idle] /\
            cookie' \in 0..MaxTokens
    BY <1>2, <1>4, <2>1 DEF Page!Close
  <2> QED
    BY <1>1, <1>3, <1>4, <2>1, <2>2, FlightStep
<1>5. CASE Page!Hydrated(t)
  <2>1. /\ page' \in [Tabs -> {"closed", "loading", "in", "out"}]
        /\ access' \in [Tabs -> BOOLEAN]
    BY <1>1, <1>5 DEF Page!Hydrated, Page!Show, Page!Token, Page!At
  <2> QED
    BY <1>4, <1>5, <2>1 DEF Page!Hydrated
<1>6. CASE Page!SignedIn(t)
  <2>1. /\ page' \in [Tabs -> {"closed", "loading", "in", "out"}]
        /\ access' \in [Tabs -> BOOLEAN]
    BY <1>1, <1>6 DEF Page!SignedIn, Page!Show, Page!Token
  <2> QED
    BY <1>4, <1>6, <2>1 DEF Page!SignedIn
<1>7. CASE Page!SignedOut(t)
  <2>1. /\ page' \in [Tabs -> {"closed", "loading", "in", "out"}]
        /\ access' \in [Tabs -> BOOLEAN]
    BY <1>1, <1>7 DEF Page!SignedOut, Page!Show, Page!Token
  <2> QED
    BY <1>4, <1>7, <2>1 DEF Page!SignedOut
<1>8. ASSUME NEW c \in Refreshers, Page!Refreshed(t, c)
      PROVE  Page!TypeOK'
  <2>1. /\ page' \in [Tabs -> {"closed", "loading", "in", "out"}]
        /\ access' \in [Tabs -> BOOLEAN]
    BY <1>1, <1>8 DEF Page!Refreshed, Page!Show, Page!Token, Page!At
  <2>2. /\ promise' \in [Tabs -> Refreshers \cup {Page!None}]
        /\ \A u \in Tabs : u # t => promise'[u] = promise[u]
    BY <1>1, <1>8 DEF Page!Refreshed
  <2>3. /\ c \in Page!Kinds /\ Page!Idle \in Flights
        /\ flight' = [flight EXCEPT ![t][c] = Page!Idle]
        /\ cookie' \in 0..MaxTokens
    BY <1>2, <1>8, NamesApart DEF Page!Refreshed, Page!Close
  <2>4. flight[t][c] # Page!Idle
    BY <1>8, NamesApart DEF Page!Refreshed, Page!Settled, Page!Refused, Page!At
  <2> QED
    BY <1>3, <2>1, <2>2, <2>3, <2>4, FlightStep
<1> QED
  BY <1>5, <1>6, <1>7, <1>8 DEF Page!Answer

\* What the user and the timers of the page do.
LEMMA UserTyped ==
    ASSUME Page!BoundAssumption, Page!TypeOK, NEW t \in Tabs, Page!User(t)
    PROVE  Page!TypeOK'
<1>1. /\ issued \in 1..MaxTokens /\ live \subseteq 1..issued
      /\ cookie \in 0..MaxTokens
      /\ page \in [Tabs -> {"closed", "loading", "in", "out"}]
      /\ access \in [Tabs -> BOOLEAN]
      /\ promise \in [Tabs -> Refreshers \cup {Page!None}]
      /\ flight \in [Tabs -> [Page!Kinds -> Flights]]
  BY DEF Page!TypeOK, Flights
<1>2. /\ UNCHANGED <<cookie, Page!server>> /\ cookie' \in 0..MaxTokens
      /\ issued' \in 1..MaxTokens /\ live' \subseteq 1..issued'
  BY <1>1
  DEF Page!User, Page!Mount, Page!SignIn, Page!SignOut, Page!Reload,
      Page!StartRefresh, Page!server
<1>3. ASSUME NEW k \in {"mount", "signin", "signout"}, Page!Send(t, k),
             promise' = promise, access' = access,
             page' \in [Tabs -> {"closed", "loading", "in", "out"}]
      PROVE  Page!TypeOK'
  <2> DEFINE f == [at |-> "sent", token |-> cookie]
  <2>1. /\ k \in Page!Kinds /\ k \notin Refreshers /\ f \in Flights
        /\ flight' = [flight EXCEPT ![t][k] = f]
    BY <1>1, <1>3, NamesApart DEF Page!Send, Page!Put, Flights
  <2> HIDE DEF f
  <2> QED
    BY <1>1, <1>2, <1>3, <2>1, FlightStep
<1>4. CASE Page!Mount(t) \/ Page!SignIn(t) \/ Page!SignOut(t)
  <2>1. page' \in [Tabs -> {"closed", "loading", "in", "out"}]
    BY <1>1, <1>4 DEF Page!Mount, Page!SignIn, Page!SignOut, Page!Show
  <2> QED
    BY <1>3, <1>4, <2>1 DEF Page!Mount, Page!SignIn, Page!SignOut
<1>5. ASSUME NEW c \in Refreshers, Page!StartRefresh(t, c)
      PROVE  Page!TypeOK'
  <2> DEFINE f == [at |-> "sent", token |-> cookie]
  <2>1. /\ c \in Page!Kinds /\ f \in Flights
        /\ flight' = [flight EXCEPT ![t][c] = f]
    BY <1>1, <1>5, NamesApart
    DEF Page!StartRefresh, Page!Send, Page!Put, Flights
  <2>2. /\ promise[t] = Page!None /\ promise' = [promise EXCEPT ![t] = c]
        /\ page' = page /\ access' = access
    BY <1>5 DEF Page!StartRefresh, Page!NoRefreshYet
  <2>3. /\ promise' \in [Tabs -> Refreshers \cup {Page!None}]
        /\ promise'[t] = c
        /\ \A u \in Tabs : u # t => promise'[u] = promise[u]
    BY <1>1, <2>2
  <2> HIDE DEF f
  <2> QED
    BY <1>1, <1>2, <2>1, <2>2, <2>3, FlightStep
<1>6. CASE Page!Reload(t)
  <2>1. /\ page' \in [Tabs -> {"closed", "loading", "in", "out"}]
        /\ access' \in [Tabs -> BOOLEAN]
        /\ promise' \in [Tabs -> Refreshers \cup {Page!None}]
        /\ \A u \in Tabs : u # t => promise'[u] = promise[u]
    BY <1>1, <1>6 DEF Page!Reload, Page!Show, Page!Token
  <2>2. flight' = [flight EXCEPT ![t] = [k \in Page!Kinds |-> Page!Idle]]
    BY <1>6 DEF Page!Reload
  <2>3. /\ flight' \in [Tabs -> [Page!Kinds -> Flights]]
        /\ \A u \in Tabs : u # t => flight'[u] = flight[u]
        /\ \A c \in Refreshers : flight'[t][c] = Page!Idle
    BY <1>1, <2>2, NamesApart
  <2>4. ASSUME NEW u \in Tabs, NEW c \in Refreshers, flight'[u][c] # Page!Idle
        PROVE  promise'[u] = c
    <3>1. u # t
      BY <2>3, <2>4
    <3> QED
      BY <2>1, <2>3, <2>4, <3>1 DEF Page!TypeOK
  <2> QED
    BY <1>2, <2>1, <2>3, <2>4 DEF Page!TypeOK, Flights
<1> QED
  BY <1>4, <1>5, <1>6 DEF Page!User

\* Every step keeps the types.
LEMMA PagesTyped ==
    Page!BoundAssumption /\ Page!TypeOK /\ [Page!Next]_(Page!vars) =>
        Page!TypeOK'
<1> SUFFICES ASSUME Page!BoundAssumption, Page!TypeOK, [Page!Next]_(Page!vars)
             PROVE  Page!TypeOK'
  OBVIOUS
<1>1. ASSUME NEW t \in Tabs, NEW k \in Page!Kinds, Page!Lose(t, k)
      PROVE  Page!TypeOK'
  <2>2. flight[t][k] # Page!Idle
    BY <1>1, NamesApart DEF Page!Lose, Page!At
  <2>3. /\ cookie' \in 0..MaxTokens /\ issued' \in 1..MaxTokens
        /\ live' \subseteq 1..issued' /\ 0 \in 0..MaxTokens
    BY <1>1, NamesApart DEF Page!Lose, Page!TypeOK, Page!server
  <2> QED
    BY <1>1, <2>2, <2>3, PutStep DEF Page!Lose
<1>2. CASE UNCHANGED Page!vars
  BY <1>2 DEF Page!vars, Page!TypeOK
<1> QED
  BY <1>1, <1>2, ServeTyped, AnswerTyped, UserTyped DEF Page!Next

\* Type correctness of the pages: whatever the user does in however many tabs,
\* and whatever is lost, a request for a refresh that is under way is the one
\* that its tab's refreshPromise stands for.
THEOREM PagesTypeCorrect ==
    ASSUME Page!BoundAssumption PROVE Page!Spec => []Page!TypeOK
<1>1. Page!Init => Page!TypeOK
  BY InitPages
<1>2. Page!TypeOK /\ [Page!Next]_(Page!vars) => Page!TypeOK'
  BY PagesTyped
<1> QED
  BY <1>1, <1>2, PTL DEF Page!Spec
-----------------------------------------------------------------------------
(* One tab *)

\* What the page of a tab waits for: the refresh it is opened with, or the one
\* of its refreshPromise.
Mine(t) == IF page[t] = "loading" THEN "mount" ELSE promise[t]

\* Nothing else is under way; and until the page is signed out the cookie, or
\* what it is to be replaced with, is a token that the gateway takes.
OneRefresh(t) ==
    /\ \A k \in Page!Kinds : k # Mine(t) => flight[t][k] = Page!Idle
    /\ page[t] # "in" => promise[t] = Page!None
    /\ page[t] # "out" =>
          /\ live # {}
          /\ Mine(t) = Page!None => cookie \in live
          /\ \A k \in Page!Kinds :
                /\ ~Page!At(t, k, "failed")
                /\ Page!At(t, k, "sent") =>
                           flight[t][k].token = cookie /\ cookie \in live
                /\ Page!At(t, k, "ok") => flight[t][k].token \in live

PageInv(t) == Page!TypeOK /\ OneRefresh(t)

\* The cookie of the earlier visit is one that the gateway takes.
LEMMA InitPageInv ==
    ASSUME Page!BoundAssumption, NEW t \in Tabs, Page!Init
    PROVE  PageInv(t)
<1>1. Page!TypeOK
  BY InitPages
<1> QED
  BY <1>1, NamesApart DEF PageInv, OneRefresh, Mine, Page!Init, Page!At

\* The one request under way changes.
LEMMA MineStep ==
    ASSUME Page!BoundAssumption, NEW t \in Tabs, PageInv(t),
           NEW k \in Page!Kinds,
           NEW f \in Flights, flight' = [flight EXCEPT ![t][k] = f],
           k = Mine(t)' \/ f = Page!Idle,
           Mine(t) \in {Page!None, k},
           page'[t] # "in" => promise'[t] = Page!None,
           page'[t] # "out" =>
              /\ live' # {}
              /\ Mine(t)' = Page!None => cookie' \in live'
              /\ f.at # "failed"
              /\ f.at = "sent" => f.token = cookie' /\ cookie' \in live'
              /\ f.at = "ok" => f.token \in live'
    PROVE  OneRefresh(t)'
<1>1. /\ flight'[t][k] = f
      /\ \A j \in Page!Kinds : j # k => flight'[t][j] = flight[t][j]
  BY FlightPut DEF PageInv
<1>2. \A j \in Page!Kinds : j # k => flight'[t][j] = Page!Idle
  BY <1>1, NamesApart DEF PageInv, OneRefresh
<1>3. \A j \in Page!Kinds : j # Mine(t)' => flight'[t][j] = Page!Idle
  BY <1>1, <1>2
<1>4. Page!Idle.at \notin {"failed", "sent", "ok"}
  BY NamesApart
<1> QED
  BY <1>1, <1>2, <1>3, <1>4 DEF OneRefresh, Page!At

\* With one tab, every step keeps its one refresh.
LEMMA OneTabStep ==
    ASSUME Page!BoundAssumption, NEW t \in Tabs, Tabs = {t}, Signs = {},
           "reload" \notin Faults, PageInv(t), [Page!Next]_(Page!vars)
    PROVE  PageInv(t)'
<1>1. Page!TypeOK /\ OneRefresh(t) /\ Page!TypeOK'
  BY PagesTyped DEF PageInv
<1>2. /\ live \subseteq 1..issued
      /\ page[t] \in {"closed", "loading", "in", "out"}
      /\ 0 \notin live /\ cookie \in 0..MaxTokens
      /\ page \in [Tabs -> {"closed", "loading", "in", "out"}]
      /\ promise \in [Tabs -> Refreshers \cup {Page!None}]
      /\ \A k \in Page!Kinds : flight[t][k].token \in 0..MaxTokens
  BY <1>1 DEF Page!TypeOK
<1>3. \A k \in Page!Kinds : flight[t][k] # Page!Idle => Mine(t) = k
  BY <1>1 DEF OneRefresh
<1>4. \A k \in {"signin", "signout"} : flight[t][k] = Page!Idle
  BY <1>2, <1>3, NamesApart DEF Mine
<1>5. ASSUME Page!Mount(t)
      PROVE  OneRefresh(t)'
  <2> DEFINE f == [at |-> "sent", token |-> cookie]
  <2>1. /\ f \in Flights /\ f.at = "sent" /\ f.token = cookie
        /\ "mount" \in Page!Kinds
        /\ flight' = [flight EXCEPT ![t]["mount"] = f]
    BY <1>2, <1>5, NamesApart DEF Page!Mount, Page!Send, Page!Put, Flights
  <2>2. /\ Mine(t) = Page!None /\ cookie \in live /\ promise[t] = Page!None
        /\ page'[t] = "loading" /\ Mine(t)' = "mount"
        /\ UNCHANGED <<cookie, live, promise>>
    BY <1>1, <1>2, <1>5
    DEF Page!Mount, Page!Show, Mine, OneRefresh, Page!server
  <2> HIDE DEF f
  <2> QED
    BY <1>1, <2>1, <2>2, MineStep DEF PageInv
<1>6. ASSUME NEW c \in Refreshers, Page!StartRefresh(t, c)
      PROVE  OneRefresh(t)'
  <2> DEFINE f == [at |-> "sent", token |-> cookie]
  <2>1. /\ f \in Flights /\ f.at = "sent" /\ f.token = cookie
        /\ c \in Page!Kinds /\ flight' = [flight EXCEPT ![t][c] = f]
    BY <1>2, <1>6, NamesApart
    DEF Page!StartRefresh, Page!Send, Page!Put, Flights
  <2>2. /\ Mine(t) = Page!None /\ cookie \in live /\ page'[t] = "in"
        /\ Mine(t)' = c /\ UNCHANGED <<cookie, live>>
    BY <1>1, <1>2, <1>6
    DEF Page!StartRefresh, Page!NoRefreshYet, Mine, OneRefresh, Page!server
  <2> HIDE DEF f
  <2> QED
    BY <1>1, <2>1, <2>2, NamesApart, MineStep DEF PageInv
<1>7. ASSUME NEW k \in Page!Kinds, Page!ServeRefresh(t, k)
      PROVE  OneRefresh(t)'
  <2> DEFINE f == [at |-> "ok", token |-> issued']
  <2>1. Page!At(t, k, "sent") /\ flight[t][k] # Page!Idle /\ Mine(t) = k
    BY <1>3, <1>7, NamesApart DEF Page!ServeRefresh, Page!At
  <2>2. page[t] # "out"
    BY <1>1, <2>1, NamesApart DEF OneRefresh, Mine
  <2>3. flight[t][k].token \in live
    BY <1>1, <2>1, <2>2 DEF OneRefresh
  <2>4. /\ issued' \in live' /\ flight' = [flight EXCEPT ![t][k] = f]
        /\ UNCHANGED <<cookie, page, promise>>
    BY <1>7, <2>3 DEF Page!ServeRefresh, Page!Put
  <2>5. f \in Flights /\ f.at = "ok" /\ f.token = issued'
    BY <1>1 DEF Page!TypeOK, Flights
  <2>6. Mine(t)' = k /\ k # Page!None
    BY <2>1, <2>4, NamesApart DEF Mine, Page!Kinds
  <2> HIDE DEF f
  <2> QED
    BY <1>1, <2>1, <2>4, <2>5, <2>6, MineStep DEF PageInv, OneRefresh
<1>8. ASSUME NEW k \in Page!Kinds, Page!Lose(t, k)
      PROVE  OneRefresh(t)'
  <2> DEFINE f == [at |-> "lost", token |-> 0]
  <2>1. /\ flight[t][k] # Page!Idle /\ Mine(t) = k
        /\ UNCHANGED <<cookie, live, page, promise>>
    BY <1>3, <1>8, NamesApart DEF Page!Lose, Page!At, Page!server
  <2>2. /\ f \in Flights /\ f.at = "lost"
        /\ flight' = [flight EXCEPT ![t][k] = f]
    BY <1>8, NamesApart DEF Page!Lose, Page!Put, Flights
  <2>3. Mine(t)' = k /\ k # Page!None
    BY <2>1, NamesApart DEF Mine, Page!Kinds
  <2> HIDE DEF f
  <2> QED
    BY <1>1, <2>1, <2>2, <2>3, MineStep DEF PageInv, OneRefresh
<1>9. ASSUME NEW k \in {"mount"} \cup Refreshers, Page!Settled(t, k),
             Page!SetCookie(t, k), Page!Close(t, k), live' = live,
             page'[t] \in {"in", "out"}, promise'[t] = Page!None,
             page'[t] = "in" => Page!At(t, k, "ok")
      PROVE  OneRefresh(t)'
  <2>1. /\ k \in Page!Kinds /\ flight[t][k] # Page!Idle /\ Mine(t) = k
        /\ Page!Idle \in Flights /\ Page!Idle.at = Page!None
    BY <1>3, <1>9, NamesApart DEF Page!Settled, Page!Refused, Page!At
  <2>2. flight' = [flight EXCEPT ![t][k] = Page!Idle]
    BY <1>9 DEF Page!Close
  <2>3. ASSUME Page!At(t, k, "ok"), page[t] # "out"
        PROVE  cookie' \in live'
    BY <1>1, <1>9, <2>1, <2>3 DEF Page!SetCookie, OneRefresh
  <2>4. page[t] # "out"
    BY <1>1, <2>1, NamesApart DEF OneRefresh, Mine, Page!Kinds
  <2>5. live' # {}
    BY <1>1, <1>9, <2>4 DEF OneRefresh
  <2> QED
    BY <1>1, <1>9, <2>1, <2>2, <2>3, <2>4, <2>5, NamesApart, MineStep
    DEF PageInv
<1>10. ASSUME Page!Hydrated(t)
       PROVE  OneRefresh(t)'
  <2>1. "mount" \in {"mount"} \cup Refreshers /\ flight[t]["mount"] # Page!Idle
    BY <1>10, NamesApart
    DEF Page!Hydrated, Page!HydrateSettles, Page!Settled, Page!Refused, Page!At
  <2>2. Mine(t) = "mount"
    BY <1>3, <2>1, NamesApart
  <2>3. page[t] = "loading"
    BY <1>2, <2>2, NamesApart DEF Mine
  <2>4. promise'[t] = Page!None /\ page'[t] \in {"in", "out"} /\ live' = live
    BY <1>1, <1>2, <1>10, <2>3
    DEF Page!Hydrated, Page!Show, OneRefresh, Page!server
  <2>5. page'[t] = "in" => Page!At(t, "mount", "ok")
    BY <1>2, <1>10 DEF Page!Hydrated, Page!Show
  <2> QED
    BY <1>9, <1>10, <2>1, <2>4, <2>5 DEF Page!Hydrated, Page!HydrateSettles
<1>11. ASSUME NEW c \in Refreshers, Page!Refreshed(t, c)
       PROVE  OneRefresh(t)'
  <2>1. flight[t][c] # Page!Idle
    BY <1>11, NamesApart
    DEF Page!Refreshed, Page!Settled, Page!Refused, Page!At
  <2>2. Mine(t) = c /\ c # Page!None
    BY <1>3, <2>1, NamesApart
  <2>3. page[t] = "in"
    BY <1>1, <2>2, NamesApart DEF Mine, OneRefresh
  <2>4. promise'[t] = Page!None /\ page'[t] \in {"in", "out"} /\ live' = live
    BY <1>2, <1>11, <2>3 DEF Page!Refreshed, Page!Show, Page!server
  <2>5. page'[t] = "in" => Page!At(t, c, "ok")
    BY <1>2, <1>11 DEF Page!Refreshed, Page!Show
  <2> QED
    BY <1>9, <1>11, <2>4, <2>5 DEF Page!Refreshed
<1>12. ~Page!SignIn(t) /\ ~Page!SignOut(t) /\ ~Page!Reload(t)
  BY DEF Page!SignIn, Page!SignOut, Page!Reload
<1>13. ~Page!ServeSign(t) /\ ~Page!SignedIn(t) /\ ~Page!SignedOut(t)
  BY <1>4, NamesApart
  DEF Page!ServeSign, Page!SignedIn, Page!SignedOut, Page!Settled,
      Page!Refused, Page!At
<1>14. ASSUME UNCHANGED Page!vars
       PROVE  OneRefresh(t)'
  BY <1>1, <1>14 DEF Page!vars, OneRefresh, Mine, Page!At
<1>15. Page!Next => \/ Page!User(t) \/ Page!Gateway(t) \/ Page!Answer(t)
                    \/ \E k \in Page!Kinds : Page!Lose(t, k)
  BY DEF Page!Next
<1>16. Page!Next => OneRefresh(t)'
  BY <1>5, <1>6, <1>7, <1>8, <1>10, <1>11, <1>12, <1>13, <1>15
  DEF Page!User, Page!Gateway, Page!Answer
<1> QED
  BY <1>1, <1>14, <1>16 DEF PageInv

\* A user of one tab is not signed out by the page's own requests, however
\* many of them ask for a refresh and whichever of them are lost: the refresh
\* they share presents a cookie that no other has used up.
THEOREM NotThrownOutOfOneTab ==
    ASSUME Page!BoundAssumption, NEW t \in Tabs, Tabs = {t}, Signs = {},
           "reload" \notin Faults
    PROVE  Page!Spec => []Page!NotThrownOut
<1>1. Page!Init => PageInv(t)
  BY InitPageInv
<1>2. PageInv(t) /\ [Page!Next]_(Page!vars) => PageInv(t)'
  BY OneTabStep
<1>3. PageInv(t) => Page!NotThrownOut
  BY NamesApart DEF PageInv, OneRefresh, Page!NotThrownOut
<1> QED
  BY <1>1, <1>2, <1>3, PTL DEF Page!Spec

-----------------------------------------------------------------------------
(* The seed of the shop (Seeding) *)

\* How often the job has committed, at most.
Applied == IF job.at = "absent" THEN runs ELSE runs - 1

Places == {"absent", "users", "address", "products", "commit", "failed"}
Jobs == [at : Places, home : BOOLEAN, rows : SUBSET Products]

\* Where the job is, and what its transaction has written by then.
JobTyped ==
    /\ job \in Jobs
    /\ job.at \notin {"products", "commit"} =>
           job.home = FALSE /\ job.rows = {}
    /\ job.at = "commit" => job.rows = Products
    /\ job.at # "absent" => runs > 0

\* The shop, and the counters that a run of the job starts anew: what has left
\* and what is held was brought by one of the runs.
ShopTyped ==
    /\ account \in {"none", "seeded", "renamed"}
    /\ addresses \in Nat /\ addresses <= Applied
    /\ hasDefault \in BOOLEAN /\ quiet \in BOOLEAN
    /\ reviews \in SUBSET listed /\ outbox \in SUBSET listed
    /\ indexed \in SUBSET listed
    /\ runs \in 0..MaxRuns /\ crashes \in 0..MaxErrors

UnitsBounded ==
    /\ available \in [Products -> Nat] /\ reserved \in [Products -> Nat]
    /\ sold \in [Products -> Nat]
    /\ \A p \in Products :
           available[p] + reserved[p] + sold[p] <= Applied * Stock

\* After a run, and until something is changed, the shop is as the seed has it.
QuietIsSeeded ==
    quiet => /\ account = "seeded" /\ hasDefault = TRUE /\ listed = Products
             /\ available = [p \in Products |-> Stock]
             /\ job.home = FALSE

SeedInv ==
    /\ JobTyped /\ ShopTyped /\ UnitsBounded
    /\ Seeding!WholeCatalogue /\ Seeding!NothingMissed /\ QuietIsSeeded

\* The states of the job are records.
LEMMA JobAt ==
    ASSUME NEW l \in Places
    PROVE  /\ Seeding!At(l) \in Jobs
           /\ Seeding!At(l).at = l /\ Seeding!At(l).home = FALSE
           /\ Seeding!At(l).rows = {}
BY DEF Seeding!At, Jobs

LEMMA AppliedType ==
    ASSUME JobTyped, ShopTyped
    PROVE  Applied \in Nat /\ Applied <= runs
BY DEF JobTyped, ShopTyped, Applied

\* More runs bring more units.
LEMMA MoreUnits ==
    ASSUME NEW m \in Nat, NEW n \in Nat, m <= n, NEW s \in Nat
    PROVE  m * s <= n * s /\ (m + 1) * s = m * s + s /\ m * s \in Nat
BY SMT

LEMMA InitSeedInv == Seeding!SeedingAssumption /\ Seeding!Init => SeedInv
<1> SUFFICES ASSUME Seeding!SeedingAssumption, Seeding!Init
             PROVE  SeedInv
  OBVIOUS
<1> USE DEF Places
<1>0. /\ job \in Jobs /\ job.at = "absent" /\ job.home = FALSE /\ job.rows = {}
      /\ runs = 0 /\ crashes = 0 /\ MaxRuns \in Nat /\ MaxErrors \in Nat
      /\ Stock \in Nat
  BY JobAt DEF Seeding!Init, Seeding!SeedingAssumption
<1>1. JobTyped
  BY <1>0 DEF JobTyped
<1>2. ShopTyped
  <2>1. Applied = 0 /\ runs \in 0..MaxRuns /\ crashes \in 0..MaxErrors
    BY <1>0 DEF Applied
  <2>2. hasDefault \in BOOLEAN /\ quiet \in BOOLEAN
    BY DEF Seeding!Init
  <2> QED
    BY <2>1, <2>2 DEF Seeding!Init, ShopTyped
<1>3. UnitsBounded
  <2>1. Applied * Stock = 0
    BY <1>0 DEF Applied
  <2> QED
    BY <2>1 DEF Seeding!Init, UnitsBounded
<1>4. Seeding!WholeCatalogue /\ Seeding!NothingMissed /\ QuietIsSeeded
  BY 
  DEF Seeding!Init, Seeding!WholeCatalogue, Seeding!NothingMissed,
      QuietIsSeeded
<1> QED
  BY <1>1, <1>2, <1>3, <1>4 DEF SeedInv

\* A step of the job before its COMMIT is seen by nobody.
LEMMA JobWrites ==
    ASSUME Seeding!SeedingAssumption, SeedInv,
           JobTyped',
               UNCHANGED <<Seeding!customer, Seeding!catalog,
                   Seeding!inventory, quiet>>,
           runs' \in 0..MaxRuns, crashes' \in 0..MaxErrors,
           Applied' = Applied, quiet => job'.home = FALSE
    PROVE  SeedInv'
<1>1. ShopTyped'
  BY DEF SeedInv, ShopTyped, Seeding!customer, Seeding!catalog
<1>2. UnitsBounded'
  BY DEF SeedInv, UnitsBounded, Seeding!inventory
<1>3. Seeding!WholeCatalogue' /\ Seeding!NothingMissed' /\ QuietIsSeeded'
  BY 
  DEF SeedInv, Seeding!WholeCatalogue, Seeding!NothingMissed, QuietIsSeeded,
      Seeding!customer,
         Seeding!catalog, Seeding!inventory
<1> QED
  BY <1>1, <1>2, <1>3 DEF SeedInv

LEMMA JobStep ==
    ASSUME Seeding!SeedingAssumption, SeedInv,
           \/ Seeding!Apply \/ Seeding!Restart \/ Seeding!UpsertUsers \/
                  Seeding!InsertAddress
           \/ (\E p \in Products : Seeding!UpsertProduct(p)) \/
                  Seeding!InsertReviews \/ Seeding!Fail
    PROVE  SeedInv'
<1>1. JobTyped /\ ShopTyped
  BY DEF SeedInv
<1>2. CASE Seeding!Apply
  <2>1. /\ job' \in Jobs /\ job'.at = "users" /\ job'.home = FALSE
        /\ job'.rows = {}
    BY <1>2, JobAt DEF Seeding!Apply, Places
  <2>2. /\ UNCHANGED <<Seeding!customer, Seeding!catalog, Seeding!inventory,
               quiet>>
        /\ runs' = runs + 1 /\ crashes' = crashes /\ runs < MaxRuns
        /\ job.at = "absent"
    BY <1>2 DEF Seeding!Apply
  <2>3. /\ runs' \in 0..MaxRuns /\ crashes' \in 0..MaxErrors /\ runs' > 0
        /\ runs \in Nat
    BY <1>1, <2>2 DEF ShopTyped, Seeding!SeedingAssumption
  <2>4. JobTyped'
    BY <2>1, <2>3 DEF JobTyped
  <2>5. Applied' = Applied
    BY <2>1, <2>2, <2>3 DEF Applied
  <2> QED
    BY <2>1, <2>2, <2>3, <2>4, <2>5, JobWrites
<1>3. CASE ~Seeding!Apply
  <2>1. /\ UNCHANGED <<Seeding!customer, Seeding!catalog, Seeding!inventory,
               quiet>>
        /\ runs' = runs
        /\ crashes' \in 0..MaxErrors
    BY <1>1, <1>3
       DEF Seeding!Apply, Seeding!Restart, Seeding!UpsertUsers,
           Seeding!InsertAddress, Seeding!UpsertProduct,
           Seeding!InsertReviews, Seeding!Fail, Seeding!Rollback,
               Seeding!counts, ShopTyped, Seeding!SeedingAssumption
  <2>2. job.at # "absent" /\ job'.at # "absent" /\ (quiet => job'.home = FALSE)
        /\ JobTyped'
    <3>1. CASE Seeding!Restart \/ Seeding!UpsertUsers \/ Seeding!Fail
      <4>1. /\ job' \in Jobs /\ job'.at \in {"users", "address", "failed"}
            /\ job'.home = FALSE /\ job'.rows = {} /\ job.at # "absent"
        BY <3>1, JobAt
        DEF Seeding!Restart, Seeding!UpsertUsers, Seeding!Fail, Places
      <4> QED
        BY <1>1, <2>1, <4>1 DEF JobTyped
    <3>2. CASE Seeding!InsertAddress
      <4>1. /\ job.at = "address" /\ job'.at = "products"
            /\ job'.home = Seeding!AddressIsNew /\ job'.rows = {}
            /\ job' \in Jobs
        BY <3>2
        DEF Seeding!InsertAddress, Seeding!AddressIsNew, Seeding!At, Jobs,
            Places
      <4>2. quiet => Seeding!AddressIsNew = FALSE
        BY DEF SeedInv, QuietIsSeeded, Seeding!AddressIsNew
      <4> QED
        BY <1>1, <2>1, <4>1, <4>2 DEF JobTyped
    <3>3. ASSUME NEW p \in Products, Seeding!UpsertProduct(p)
          PROVE  job.at # "absent" /\ job'.at # "absent"
                 /\ (quiet => job'.home = FALSE) /\ JobTyped'
      <4>1. quiet => job.home = FALSE
        BY DEF SeedInv, QuietIsSeeded
      <4>2. /\ job.at = "products" /\ job'.at = "products"
            /\ job'.home = job.home /\ job'.rows = job.rows \cup {p}
            /\ job' \in Jobs
        BY <1>1, <3>3 DEF Seeding!UpsertProduct, JobTyped, Jobs
      <4> QED
        BY <1>1, <2>1, <4>1, <4>2 DEF JobTyped
    <3>4. CASE Seeding!InsertReviews
      <4>1. quiet => job.home = FALSE
        BY DEF SeedInv, QuietIsSeeded
      <4>2. /\ job.at = "products" /\ job'.at = "commit"
            /\ job'.home = job.home /\ job'.rows = Products
            /\ job' \in Jobs
        BY <1>1, <3>4 DEF Seeding!InsertReviews, JobTyped, Jobs, Places
      <4> QED
        BY <1>1, <2>1, <4>1, <4>2 DEF JobTyped
    <3> QED
      BY <1>3, <3>1, <3>2, <3>3, <3>4
  <2>3. Applied' = Applied /\ runs' \in 0..MaxRuns
    BY <1>1, <2>1, <2>2 DEF Applied, ShopTyped
  <2> QED
    BY <2>1, <2>2, <2>3, JobWrites
<1> QED
  BY <1>2, <1>3

\* The transaction is seen whole.
LEMMA CommitStep ==
    ASSUME Seeding!SeedingAssumption, SeedInv, Seeding!Commit
    PROVE  SeedInv'
<1>1. /\ JobTyped /\ ShopTyped /\ UnitsBounded
      /\ job.at = "commit" /\ job.rows = Products /\ runs > 0
  BY DEF SeedInv, JobTyped, Seeding!Commit
<1>0. /\ job' \in Jobs /\ job'.at = "absent" /\ job'.home = FALSE
      /\ job'.rows = {}
  BY JobAt DEF Seeding!Commit, Places
<1>2. JobTyped'
  BY <1>0 DEF JobTyped
<1>3. /\ Applied = runs - 1 /\ Applied' = runs /\ runs \in Nat
      /\ runs - 1 \in Nat /\ runs' = runs
  <2>1. runs' = runs
    BY DEF Seeding!Commit, Seeding!counts
  <2>2. runs \in Nat /\ runs > 0
    BY <1>1 DEF ShopTyped, Seeding!SeedingAssumption
  <2> QED
    BY <1>0, <1>1, <2>1, <2>2 DEF Applied
<1>4. /\ listed' = Products /\ reviews' = Products /\ outbox' = Products
      /\ indexed' = {} /\ account' = "seeded"
      /\ available' = [p \in Products |-> Stock]
      /\ quiet' = hasDefault' /\ job'.home = FALSE
      /\ reserved' = reserved /\ sold' = sold
  <2>1. listed \subseteq Products /\ reviews \subseteq listed
        /\ outbox \subseteq listed /\ indexed \subseteq listed
    BY <1>1 DEF SeedInv, Seeding!WholeCatalogue, ShopTyped
  <2> QED
    BY <1>0, <1>1, <2>1 DEF Seeding!Commit, Seeding!SetTo, Seeding!Queue
<1>5. ShopTyped'
  <2>1. /\ addresses' \in Nat /\ addresses' <= addresses + 1
        /\ hasDefault' \in BOOLEAN
    <3>1. job.home \in BOOLEAN /\ hasDefault \in BOOLEAN /\ addresses \in Nat
      BY <1>1 DEF JobTyped, ShopTyped, Jobs
    <3>2. addresses' = addresses + IF job.home THEN 1 ELSE 0
      BY DEF Seeding!Commit
    <3>3. hasDefault' = (hasDefault \/ job.home)
      BY DEF Seeding!Commit
    <3> QED
      BY <3>1, <3>2, <3>3
  <2>2. addresses' <= Applied'
    BY <1>1, <1>3, <2>1 DEF ShopTyped
  <2>3. runs' \in 0..MaxRuns /\ crashes' \in 0..MaxErrors
    BY <1>1 DEF ShopTyped, Seeding!Commit, Seeding!counts
  <2> QED
    BY <1>4, <2>1, <2>2, <2>3 DEF ShopTyped
<1>6. UnitsBounded'
  <2>1. Stock \in Nat
    BY DEF Seeding!SeedingAssumption
  <2>2. runs * Stock = (runs - 1) * Stock + Stock /\ (runs - 1) * Stock \in Nat
    BY <1>3, <2>1, SMT
  <2>3. ASSUME NEW p \in Products
        PROVE  available'[p] + reserved'[p] + sold'[p] <= Applied' * Stock
    <3>1. /\ available[p] \in Nat /\ reserved[p] \in Nat /\ sold[p] \in Nat
          /\ available[p] + reserved[p] + sold[p] <= (runs - 1) * Stock
      BY <1>1, <1>3 DEF UnitsBounded
    <3>2. available'[p] = Stock /\ reserved'[p] = reserved[p]
          /\ sold'[p] = sold[p] /\ Applied' * Stock = runs * Stock
      BY <1>3, <1>4
    <3> DEFINE a == runs * Stock
               b == (runs - 1) * Stock
    <3>3. a = b + Stock /\ b \in Nat
      BY <2>2
    <3> HIDE DEF a, b
    <3>4. reserved[p] + sold[p] <= b
      BY <3>1, <3>3 DEF b
    <3>5. Stock + reserved[p] + sold[p] <= a
      BY <2>1, <3>1, <3>3, <3>4
    <3> QED
      BY <3>2, <3>5 DEF a
  <2> QED
    BY <1>1, <1>4, <2>1, <2>3 DEF UnitsBounded
<1>7. Seeding!WholeCatalogue' /\ Seeding!NothingMissed' /\ QuietIsSeeded'
  BY <1>4 DEF Seeding!WholeCatalogue, Seeding!NothingMissed, QuietIsSeeded
<1> QED
  BY <1>2, <1>5, <1>6, <1>7 DEF SeedInv

\* Customers move units and never make any; the indexer moves products.
LEMMA ShopStep ==
    ASSUME Seeding!SeedingAssumption, SeedInv,
           \/ Seeding!Shop \/ \E p \in Products : Seeding!Drain(p)
    PROVE  SeedInv'
<1>1. /\ JobTyped /\ ShopTyped /\ UnitsBounded /\ Seeding!WholeCatalogue
      /\ Seeding!NothingMissed /\ QuietIsSeeded
  BY DEF SeedInv
<1>2. job' = job /\ runs' = runs /\ crashes' = crashes /\ Applied' = Applied
  BY 
  DEF Seeding!Shop, Seeding!Rename, Seeding!UnsetDefault, Seeding!Reserve,
      Seeding!Sell, Seeding!Release, Seeding!Drain, Seeding!counts,
         Applied
<1>3. JobTyped'
  BY <1>1, <1>2 DEF JobTyped
<1>4. UnitsBounded'
  <2>1. CASE UNCHANGED Seeding!inventory
    BY <1>1, <1>2, <2>1 DEF UnitsBounded, Seeding!inventory
  <2>2. ASSUME NEW p \in Products,
               Seeding!Reserve(p) \/ Seeding!Sell(p) \/ Seeding!Release(p)
        PROVE  UnitsBounded'
    <3>1. /\ available[p] \in Nat /\ reserved[p] \in Nat /\ sold[p] \in Nat
      BY <1>1 DEF UnitsBounded
    <3>2. /\ available' \in [Products -> Nat]
          /\ reserved' \in [Products -> Nat]
          /\ sold' \in [Products -> Nat]
          /\ available'[p] + reserved'[p] + sold'[p]
                 = available[p] + reserved[p] + sold[p]
      BY <1>1, <2>2, <3>1
      DEF UnitsBounded, Seeding!Reserve, Seeding!Sell, Seeding!Release,
          Seeding!Held
    <3>3. \A q \in Products : q # p =>
              /\ available'[q] = available[q] /\ reserved'[q] = reserved[q]
              /\ sold'[q] = sold[q]
      BY <1>1, <2>2
      DEF UnitsBounded, Seeding!Reserve, Seeding!Sell, Seeding!Release
    <3> QED
      BY <1>1, <1>2, <3>2, <3>3 DEF UnitsBounded
  <2> QED
    BY <2>1, <2>2
       DEF Seeding!Shop, Seeding!Rename, Seeding!UnsetDefault, Seeding!Drain,
           Seeding!inventory
<1>5. CASE Seeding!Shop
  <2>1. quiet' = FALSE /\ UNCHANGED Seeding!catalog /\ addresses' = addresses
        /\ hasDefault' \in BOOLEAN /\ account' \in {account, "renamed"}
    BY <1>1, <1>5
       DEF Seeding!Shop, Seeding!Rename, Seeding!UnsetDefault, Seeding!Reserve,
           Seeding!Sell, Seeding!Release, Seeding!customer,
           ShopTyped
  <2>2. ShopTyped'
    BY <1>1, <1>2, <2>1 DEF ShopTyped, Seeding!catalog
  <2>3. Seeding!WholeCatalogue' /\ Seeding!NothingMissed' /\ QuietIsSeeded'
    BY <1>1, <2>1
       DEF Seeding!WholeCatalogue, Seeding!NothingMissed, QuietIsSeeded,
           Seeding!catalog
  <2> QED
    BY <1>3, <1>4, <2>2, <2>3 DEF SeedInv
<1>6. ASSUME NEW p \in Products, Seeding!Drain(p)
      PROVE  SeedInv'
  <2>1. ShopTyped'
    BY <1>1, <1>2, <1>6 DEF ShopTyped, Seeding!Drain, Seeding!customer
  <2>2. Seeding!WholeCatalogue' /\ Seeding!NothingMissed'
    BY <1>1, <1>6
    DEF Seeding!WholeCatalogue, Seeding!NothingMissed, Seeding!Drain, ShopTyped
  <2>3. QuietIsSeeded'
    BY <1>1, <1>6
    DEF QuietIsSeeded, Seeding!Drain, Seeding!customer, Seeding!inventory
  <2> QED
    BY <1>3, <1>4, <2>1, <2>2, <2>3 DEF SeedInv
<1> QED
  BY <1>5, <1>6

LEMMA SeedStep ==
    ASSUME Seeding!SeedingAssumption, SeedInv, [Seeding!Next]_(Seeding!vars)
    PROVE  SeedInv'
<1>1. CASE UNCHANGED Seeding!vars
  BY <1>1
  DEF Seeding!vars, Seeding!customer, Seeding!catalog, Seeding!inventory,
      Seeding!counts, SeedInv, JobTyped,
      ShopTyped, UnitsBounded, Applied, Seeding!WholeCatalogue,
          Seeding!NothingMissed,
      QuietIsSeeded
<1> QED
  BY <1>1, JobStep, CommitStep, ShopStep DEF Seeding!Next, Seeding!Job

\* A run over a shop as the seed has it finds everything in place.
LEMMA RerunStep ==
    ASSUME Seeding!SeedingAssumption, SeedInv, [Seeding!Next]_(Seeding!vars)
    PROVE  Seeding!RerunChangesNothing
<1> SUFFICES ASSUME quiet, job.at = "commit", job'.at = "absent"
             PROVE  UNCHANGED <<Seeding!customer, listed, reviews,
                        Seeding!inventory>>
  BY DEF Seeding!RerunChangesNothing
<1>1. CASE Seeding!Commit
  <2>1. /\ account = "seeded" /\ hasDefault = TRUE /\ listed = Products
        /\ job.home = FALSE /\ job.rows = Products /\ reviews = listed
        /\ available = [p \in Products |-> Stock] /\ addresses \in Nat
    BY <1>1
    DEF SeedInv, QuietIsSeeded, JobTyped, ShopTyped, Seeding!WholeCatalogue,
        Seeding!Commit
  <2>2. account' = account /\ addresses' = addresses
    BY <1>1, <2>1 DEF Seeding!Commit
  <2>3. hasDefault' = hasDefault
    <3>1. hasDefault' = (hasDefault \/ job.home)
      BY <1>1 DEF Seeding!Commit
    <3> QED
      BY <2>1, <3>1
  <2> QED
    BY <1>1, <2>1, <2>2, <2>3
    DEF Seeding!Commit, Seeding!customer, Seeding!inventory, Seeding!SetTo
<1>2. CASE ~Seeding!Commit
  <2>1. \/ job' = job
        \/ Seeding!Apply \/ Seeding!Restart \/ Seeding!UpsertUsers \/
               Seeding!InsertAddress
        \/ (\E p \in Products : Seeding!UpsertProduct(p)) \/
               Seeding!InsertReviews \/ Seeding!Fail
    BY <1>2
    DEF Seeding!Next, Seeding!Job, Seeding!Shop, Seeding!vars, Seeding!Rename,
        Seeding!UnsetDefault, Seeding!Reserve, Seeding!Sell, Seeding!Release,
        Seeding!Drain
  <2>2. ASSUME
               \/ Seeding!Apply \/ Seeding!Restart \/ Seeding!UpsertUsers \/
                      Seeding!InsertAddress
               \/ (\E p \in Products : Seeding!UpsertProduct(p)) \/
                      Seeding!Fail
        PROVE  job'.at # "absent"
    BY <2>2, JobAt
    DEF Seeding!Apply, Seeding!Restart, Seeding!UpsertUsers,
        Seeding!InsertAddress, Seeding!UpsertProduct, Seeding!Fail,
        Places, Seeding!At, SeedInv, JobTyped, Jobs
  <2>3. ~Seeding!InsertReviews
    BY DEF Seeding!InsertReviews
  <2> QED
    BY <2>1, <2>2, <2>3
<1> QED
  BY <1>1, <1>2

\* Whatever fails and whatever customers do meanwhile, the shop opens with all
\* of the catalogue or none of it, and what is listed is indexed or queued.
THEOREM SeededWhole ==
    ASSUME Seeding!SeedingAssumption
    PROVE  Seeding!Spec =>
               [](Seeding!TypeOK /\ Seeding!WholeCatalogue /\
                   Seeding!NothingMissed)
<1>1. Seeding!Init => SeedInv
  BY InitSeedInv
<1>2. SeedInv /\ [Seeding!Next]_(Seeding!vars) => SeedInv'
  BY SeedStep
<1>3. SeedInv =>
          Seeding!TypeOK /\ Seeding!WholeCatalogue /\ Seeding!NothingMissed
  <2> SUFFICES ASSUME SeedInv
               PROVE  Seeding!TypeOK
    BY DEF SeedInv
  <2>1. JobTyped /\ ShopTyped /\ UnitsBounded
    BY DEF SeedInv
  <2>2. Applied \in Nat /\ Applied <= runs /\ runs \in Nat /\ MaxRuns \in Nat
        /\ runs <= MaxRuns /\ Stock \in Nat
    BY <2>1, AppliedType DEF ShopTyped, Seeding!SeedingAssumption
  <2>3. /\ Applied * Stock \in Nat /\ MaxRuns * Stock \in Nat
        /\ Applied * Stock <= MaxRuns * Stock
    BY <2>2, MoreUnits
  <2>4. ASSUME NEW p \in Products
        PROVE  /\ available[p] \in 0..(MaxRuns * Stock)
               /\ reserved[p] \in 0..(MaxRuns * Stock)
               /\ sold[p] \in 0..(MaxRuns * Stock)
    <3> DEFINE a == Applied * Stock
               b == MaxRuns * Stock
    <3>1. /\ available[p] \in Nat /\ reserved[p] \in Nat /\ sold[p] \in Nat
          /\ available[p] + reserved[p] + sold[p] <= a
          /\ a \in Nat /\ b \in Nat /\ a <= b
      BY <2>1, <2>3 DEF UnitsBounded
    <3> HIDE DEF a, b
    <3>2. /\ available[p] \in 0..b /\ reserved[p] \in 0..b /\ sold[p] \in 0..b
      BY <3>1
    <3> QED
      BY <3>2 DEF b
  <2>5. /\ available \in [Products -> 0..(MaxRuns * Stock)]
        /\ reserved \in [Products -> 0..(MaxRuns * Stock)]
        /\ sold \in [Products -> 0..(MaxRuns * Stock)]
    BY <2>1, <2>4 DEF UnitsBounded
  <2>6. addresses \in 0..MaxRuns
    BY <2>1, <2>2 DEF ShopTyped
  <2>7. listed \in SUBSET Products
    BY DEF SeedInv, Seeding!WholeCatalogue
  <2> QED
    BY <2>1, <2>5, <2>6, <2>7
    DEF Seeding!TypeOK, JobTyped, Jobs, Places, ShopTyped
<1> QED
  BY <1>1, <1>2, <1>3, PTL DEF Seeding!Spec

\* "Safe to run repeatedly": a run over a shop nobody has touched since the
\* last one changes nothing but the outbox.
THEOREM RerunIsSafe ==
    ASSUME Seeding!SeedingAssumption
    PROVE  Seeding!Spec => [][Seeding!RerunChangesNothing]_(Seeding!vars)
<1>1. Seeding!Init => SeedInv
  BY InitSeedInv
<1>2. SeedInv /\ [Seeding!Next]_(Seeding!vars) =>
          SeedInv' /\ [Seeding!RerunChangesNothing]_(Seeding!vars)
  BY SeedStep, RerunStep
<1> QED
  BY <1>1, <1>2, PTL DEF Seeding!Spec

-----------------------------------------------------------------------------
(* The checkout page (WebCheckout) *)

Asked == Cardinality(DOMAIN requests)

\* What is kept of a request.
Asks == [mount : 1..MaxMounts, key : WebCheckout!Keys, body : WebCheckout!Body,
         at : {"sent", "claimed", "checked", "answered"},
         charged : Prices \cup {0}, answer : WebCheckout!Answers
             \cup {WebCheckout!None}]

RequestsTyped == Asked \in Nat /\ requests \in [1..Asked -> Asks]

PageTyped ==
    /\ step \in {"address", "payment", "review", "placed"}
    /\ address \in Addresses /\ payment \in WebCheckout!Payments
    /\ mount \in 1..MaxMounts /\ seen \in Prices \cup {0}
    /\ preview \in {"idle", "loading", "error"}
    /\ told \in WebCheckout!Answers \cup {WebCheckout!None, "lost"}
    /\ cart \in BOOLEAN /\ price \in Prices

\* While the page waits it shows what it has sent.
WaitsForWhatItShows ==
    /\ waiting \in 0..Asked
    /\ waiting # 0 =>
           /\ step = "review" /\ requests[waiting].mount = mount
           /\ requests[waiting].body.address = address
           /\ requests[waiting].body.payment = payment

StoreTyped ==
    /\ store \in [WebCheckout!Keys -> 0..MaxRequests] /\ Asked <= MaxRequests
    /\ used \subseteq WebCheckout!Keys /\ orders \subseteq DOMAIN requests

\* The key is that of the mount.  Who works on a request has claimed the key of
\* it; who has claimed one and is done has placed the order.
ClaimsHold ==
    /\ \A i \in DOMAIN requests :
           /\ requests[i].key = requests[i].mount
           /\ requests[i].at \in {"claimed", "checked"} =>
                  store[requests[i].key] = i
    /\ \A k \in WebCheckout!Keys : store[k] # 0 =>
           /\ store[k] \in DOMAIN requests /\ requests[store[k]].key = k
           /\ requests[store[k]].at # "sent"
           /\ requests[store[k]].at = "answered" => store[k] \in orders

\* An order has used up its key and was charged the total that was shown.
OrdersArePaid ==
    /\ \A i \in DOMAIN requests :
           requests[i].at = "checked" =>
               requests[i].charged = requests[i].body.total
    /\ \A i \in orders :
           /\ requests[i].at = "answered" /\ requests[i].key \in used
           /\ requests[i].charged = requests[i].body.total

\* Behind an answer that tells of an order there is one, as it was asked for.
AnswersAreTrue ==
    \A i \in DOMAIN requests :
        requests[i].answer \in {"placed", "replayed"} =>
            \E j \in orders : /\ requests[j].mount = requests[i].mount
                              /\ requests[j].body = requests[i].body

CheckoutInv ==
    /\ RequestsTyped /\ PageTyped /\ WaitsForWhatItShows /\ StoreTyped
    /\ ClaimsHold /\ OrdersArePaid /\ AnswersAreTrue
    /\ WebCheckout!OneOrderPerMount

\* The page counts as we do.
LEMMA SameCount ==
    ASSUME NEW S
    PROVE  WebCheckout!Cardinality(S) = Cardinality(S)
BY DEF Cardinality, WebCheckout!Cardinality

LEMMA CountOf ==
    ASSUME NEW n \in Nat
    PROVE  Cardinality(1..n) = n
BY FS_Interval

LEMMA InitCheckout ==
    WebCheckout!WebCheckoutAssumption /\ WebCheckout!Init => CheckoutInv
<1> SUFFICES ASSUME WebCheckout!WebCheckoutAssumption, WebCheckout!Init
             PROVE  CheckoutInv
  OBVIOUS
<1>1. DOMAIN requests = {} /\ Asked = 0
  <2>1. DOMAIN requests = 1..0
    BY DEF WebCheckout!Init
  <2>2. Cardinality(1..0) = 0
    BY CountOf
  <2> QED
    BY <2>1, <2>2 DEF Asked
<1>2. requests \in [1..Asked -> Asks]
  BY <1>1 DEF WebCheckout!Init
<1>3. MaxMounts \in Nat \ {0} /\ MaxRequests \in Nat /\
          store = [k \in WebCheckout!Keys |-> 0]
  BY DEF WebCheckout!WebCheckoutAssumption, WebCheckout!Init
<1>4. PageTyped
  BY <1>3
  DEF WebCheckout!Init, PageTyped, WebCheckout!Payments, WebCheckout!None
<1>5. StoreTyped /\ ClaimsHold /\ OrdersArePaid /\ AnswersAreTrue
      /\ WebCheckout!OneOrderPerMount /\ WaitsForWhatItShows
  BY <1>1, <1>3
  DEF WebCheckout!Init, StoreTyped, ClaimsHold, OrdersArePaid, AnswersAreTrue,
      WebCheckout!OneOrderPerMount, WaitsForWhatItShows
<1> QED
  BY <1>1, <1>2, <1>4, <1>5 DEF CheckoutInv, RequestsTyped

\* What the page does but submit leaves the service as it is.
LEMMA PageActs ==
    ASSUME WebCheckout!WebCheckoutAssumption, CheckoutInv,
           \/ WebCheckout!Mount \/ WebCheckout!Walk \/ WebCheckout!Load \/
                  WebCheckout!Reload \/ WebCheckout!Receive \/ WebCheckout!Lose
           \/ (\E a \in Addresses : WebCheckout!ChooseAddress(a))
           \/ (\E p \in WebCheckout!Payments : WebCheckout!ChoosePayment(p))
           \/ (\E p \in Prices : WebCheckout!Reprice(p))
    PROVE  CheckoutInv'
<1>1. UNCHANGED WebCheckout!service
  BY 
  DEF WebCheckout!Mount, WebCheckout!Walk, WebCheckout!Show, WebCheckout!Load,
      WebCheckout!Reload, WebCheckout!Receive, WebCheckout!Lose,
      WebCheckout!ChooseAddress,
         WebCheckout!ChoosePayment, WebCheckout!Reprice
<1>2. Asked' = Asked /\ requests' = requests /\ store' = store /\ used' = used
      /\ orders' = orders /\ cart' = cart
  BY <1>1 DEF WebCheckout!service, Asked
<1>3. RequestsTyped' /\ StoreTyped' /\ ClaimsHold' /\ OrdersArePaid'
      /\ AnswersAreTrue' /\ WebCheckout!OneOrderPerMount'
  BY <1>2
  DEF CheckoutInv, RequestsTyped, StoreTyped, ClaimsHold, OrdersArePaid,
      AnswersAreTrue, WebCheckout!OneOrderPerMount
<1>4. PageTyped /\ WaitsForWhatItShows /\ RequestsTyped
  BY DEF CheckoutInv
<1>5. PageTyped'
  <2>1. CASE WebCheckout!Mount
    BY <1>2, <1>4, <2>1
    DEF WebCheckout!Mount, WebCheckout!Fresh, PageTyped, WebCheckout!Payments,
        WebCheckout!None, WebCheckout!WebCheckoutAssumption
  <2>2. CASE WebCheckout!Walk \/ WebCheckout!Load \/ WebCheckout!Reload \/
                 WebCheckout!Lose
    BY <1>2, <1>4, <2>2
    DEF WebCheckout!Walk, WebCheckout!Show, WebCheckout!Load,
        WebCheckout!Reload, WebCheckout!Lose, PageTyped, WebCheckout!page,
        WebCheckout!None
  <2>3. CASE WebCheckout!Receive
    <3>1. requests[waiting].answer \in WebCheckout!Answers
              \cup {WebCheckout!None}
      BY <1>4, <2>3
      DEF WebCheckout!Receive, WebCheckout!Pending, RequestsTyped,
          WaitsForWhatItShows, Asks
    <3>2. /\ told' = requests[waiting].answer
          /\ step' \in {"placed", "review"}
          /\ preview' \in {"loading", preview}
          /\ UNCHANGED <<address, payment, mount, seen, cart, price>>
      BY <2>3 DEF WebCheckout!Receive, WebCheckout!service
    <3> QED
      BY <1>4, <3>1, <3>2 DEF PageTyped
  <2>4. CASE \/ (\E a \in Addresses : WebCheckout!ChooseAddress(a))
             \/ (\E p \in WebCheckout!Payments : WebCheckout!ChoosePayment(p))
             \/ (\E p \in Prices : WebCheckout!Reprice(p))
    BY <1>2, <1>4, <2>4
    DEF WebCheckout!ChooseAddress, WebCheckout!ChoosePayment,
        WebCheckout!Reprice, PageTyped, WebCheckout!page
  <2> QED
    BY <2>1, <2>2, <2>3, <2>4
<1>6. WaitsForWhatItShows'
  <2>1. \/ waiting' = 0
        \/ /\ waiting' = waiting
           /\ waiting # 0 => UNCHANGED <<step, address, payment, mount>>
    BY <1>4
    DEF WebCheckout!Mount, WebCheckout!Fresh, WebCheckout!Walk,
        WebCheckout!Show, WebCheckout!Disabled, WebCheckout!Pending,
        WebCheckout!Load, WebCheckout!Reload, WebCheckout!Receive,
        WebCheckout!Lose, WebCheckout!ChooseAddress, WebCheckout!ChoosePayment,
            WebCheckout!Reprice, WebCheckout!page,
        WaitsForWhatItShows
  <2> QED
    BY <1>2, <1>4, <2>1 DEF WaitsForWhatItShows, RequestsTyped
<1> QED
  BY <1>3, <1>5, <1>6 DEF CheckoutInv

LEMMA SubmitStep ==
    ASSUME WebCheckout!WebCheckoutAssumption, CheckoutInv, WebCheckout!Submit
    PROVE  CheckoutInv'
<1> DEFINE n == Asked + 1
<1>1. /\ RequestsTyped /\ PageTyped /\ WaitsForWhatItShows /\ StoreTyped
      /\ Asked \in Nat /\ DOMAIN requests = 1..Asked
  BY DEF CheckoutInv, RequestsTyped
<1>2. /\ n <= MaxRequests /\ waiting' = n /\ step = "review" /\ seen # 0
      /\ UNCHANGED <<WebCheckout!page, seen, preview, told, store, used,
             orders, cart,
                     price>>
      /\ DOMAIN requests' = 1..n
      /\ \A i \in 1..Asked : requests'[i] = requests[i]
      /\ requests'[n]
             = [mount |-> mount, key |-> mount, body |-> WebCheckout!Body0,
                         at |-> "sent", charged |-> 0,
                             answer |-> WebCheckout!None]
  BY <1>1, SameCount DEF WebCheckout!Submit, Asked, WebCheckout!KeyFor
<1>3. requests'[n] \in Asks
  <2>1. WebCheckout!Body0 \in WebCheckout!Body
    BY <1>1, <1>2 DEF WebCheckout!Body0, WebCheckout!Body, PageTyped
  <2>2. mount \in 1..MaxMounts /\ mount \in WebCheckout!Keys
    BY <1>1 DEF PageTyped, WebCheckout!Keys, WebCheckout!WebCheckoutAssumption
  <2> QED
    BY <1>2, <2>1, <2>2 DEF Asks
<1>4. Asked' = n /\ n \in Nat
  BY <1>1, <1>2, CountOf DEF Asked
<1>5. RequestsTyped'
  <2>1. \A i \in 1..n : requests'[i] \in Asks
    BY <1>1, <1>2, <1>3 DEF RequestsTyped
  <2>2. requests' = [i \in 1..n |-> requests'[i]]
    BY SameCount DEF WebCheckout!Submit, Asked
  <2> QED
    BY <1>4, <2>1, <2>2 DEF RequestsTyped
<1>6. PageTyped' /\ StoreTyped'
  BY <1>1, <1>2, <1>4 DEF PageTyped, StoreTyped, WebCheckout!page
<1>7. WaitsForWhatItShows'
  BY <1>2, <1>4 DEF WaitsForWhatItShows, WebCheckout!page, WebCheckout!Body0
<1>8. ClaimsHold' /\ OrdersArePaid' /\ AnswersAreTrue' /\
          WebCheckout!OneOrderPerMount'
  <2> DEFINE new == requests'[n]
  <2>1. /\ new.key = new.mount /\ new.at = "sent"
        /\ new.answer = WebCheckout!None
    BY <1>2
  <2>2. orders \subseteq 1..Asked /\ orders' = orders /\ store' = store
        /\ used' = used
    BY <1>1, <1>2 DEF StoreTyped
  <2>3. WebCheckout!None \notin {"placed", "replayed"}
    BY DEF WebCheckout!None
  <2>4. \A i \in 1..n : i \in 1..Asked \/ i = n
    BY <1>1
  <2>5. 1..Asked \subseteq 1..n
    BY <1>1
  <2> HIDE DEF n
  <2>6. ClaimsHold'
    BY <1>1, <1>2, <2>1, <2>2, <2>4, <2>5 DEF CheckoutInv, ClaimsHold
  <2>7. OrdersArePaid' /\ WebCheckout!OneOrderPerMount'
    BY <1>1, <1>2, <2>1, <2>2, <2>4, <2>5
    DEF CheckoutInv, OrdersArePaid, WebCheckout!OneOrderPerMount
  <2>8. AnswersAreTrue'
    BY <1>1, <1>2, <2>1, <2>2, <2>3, <2>4, <2>5
    DEF CheckoutInv, AnswersAreTrue
  <2> QED
    BY <2>6, <2>7, <2>8
<1> QED
  BY <1>5, <1>6, <1>7, <1>8 DEF CheckoutInv

\* The service changes one request, and not what was asked.
LEMMA ServeEffect ==
    ASSUME WebCheckout!WebCheckoutAssumption, CheckoutInv,
           NEW i \in DOMAIN requests,
           WebCheckout!Claim(i) \/ WebCheckout!Check(i) \/ WebCheckout!Place(i)
    PROVE  /\ requests' \in [1..Asked -> Asks] /\ Asked' = Asked
           /\ DOMAIN requests' = DOMAIN requests
           /\ \A j \in DOMAIN requests : j # i => requests'[j] = requests[j]
           /\ requests'[i].mount = requests[i].mount
           /\ requests'[i].key = requests[i].key
           /\ requests'[i].body = requests[i].body
           /\ UNCHANGED <<WebCheckout!page, seen, preview, waiting, told,
                  price>>
           /\ requests[i].at # "answered" /\ requests'[i].at # "sent"
<1>1. Asked \in Nat /\ requests \in [1..Asked -> Asks] /\ requests[i] \in Asks
      /\ DOMAIN requests = 1..Asked /\ i \in 1..Asked
  BY DEF CheckoutInv, RequestsTyped
<1>2. price \in Prices
  BY DEF CheckoutInv, PageTyped
<1>3. \/ requests' = [requests EXCEPT ![i].at = "claimed"]
      \/ requests' = [requests EXCEPT ![i].at = "checked",
                                      ![i].charged = price]
      \/ \E a \in WebCheckout!Answers :
             requests' = [requests EXCEPT ![i].at = "answered",
                                          ![i].answer = a]
  BY 
  DEF WebCheckout!Claim, WebCheckout!Check, WebCheckout!Place, WebCheckout!At,
      WebCheckout!Answer, WebCheckout!Fail, WebCheckout!Answers
<1> DEFINE Writes(r) ==
               /\ requests' = [requests EXCEPT ![i] = r]
               /\ r.mount = requests[i].mount /\ r.key = requests[i].key
               /\ r.body = requests[i].body /\ r.at # "sent"
<1>4. \E r \in Asks : Writes(r)
  <2> DEFINE old == requests[i]
  <2>1. ASSUME requests' = [requests EXCEPT ![i].at = "claimed"]
        PROVE  \E r \in Asks : Writes(r)
    <3> DEFINE r == [old EXCEPT !.at = "claimed"]
    <3>1. r \in Asks /\ r.mount = old.mount /\ r.key = old.key
          /\ r.body = old.body /\ r.at # "sent"
      BY <1>1 DEF Asks
    <3>2. requests' = [requests EXCEPT ![i] = r]
      BY <1>1, <2>1
    <3> QED
      BY <3>1, <3>2
  <2>2. ASSUME requests' = [requests EXCEPT ![i].at = "checked",
                                            ![i].charged = price]
        PROVE  \E r \in Asks : Writes(r)
    <3> DEFINE r == [old EXCEPT !.at = "checked", !.charged = price]
    <3>1. r \in Asks /\ r.mount = old.mount /\ r.key = old.key
          /\ r.body = old.body /\ r.at # "sent"
      BY <1>1, <1>2 DEF Asks
    <3>2. requests' = [requests EXCEPT ![i] = r]
      BY <1>1, <2>2
    <3> QED
      BY <3>1, <3>2
  <2>3. ASSUME NEW a \in WebCheckout!Answers,
               requests' = [requests EXCEPT ![i].at = "answered",
                                            ![i].answer = a]
        PROVE  \E r \in Asks : Writes(r)
    <3> DEFINE r == [old EXCEPT !.at = "answered", !.answer = a]
    <3>1. r \in Asks /\ r.mount = old.mount /\ r.key = old.key
          /\ r.body = old.body /\ r.at # "sent"
      BY <1>1 DEF Asks
    <3>2. requests' = [requests EXCEPT ![i] = r]
      BY <1>1, <2>3
    <3> QED
      BY <3>1, <3>2
  <2> QED
    BY <1>3, <2>1, <2>2, <2>3
<1>5. PICK r \in Asks : Writes(r)
  BY <1>4
<1>6. requests' \in [1..Asked -> Asks] /\ DOMAIN requests' = DOMAIN requests
      /\ requests'[i] = r
      /\ \A j \in DOMAIN requests : j # i => requests'[j] = requests[j]
  BY <1>1, <1>5
<1>7. Asked' = Asked
  BY <1>6 DEF Asked
<1>8. /\ UNCHANGED <<WebCheckout!page, seen, preview, waiting, told, price>>
      /\ requests[i].at # "answered"
  BY DEF WebCheckout!Claim, WebCheckout!Check, WebCheckout!Place
<1> QED
  BY <1>5, <1>6, <1>7, <1>8

\* What a step of the service does to the request, by what it finds.
LEMMA ServeCases ==
    ASSUME WebCheckout!WebCheckoutAssumption, CheckoutInv,
           NEW i \in DOMAIN requests,
           WebCheckout!Claim(i) \/ WebCheckout!Check(i) \/ WebCheckout!Place(i)
    PROVE  LET k == requests[i].key
               new == requests'[i] IN
           \/ /\ requests[i].at = "sent" /\ new.at = "claimed"
              /\ store[k] = 0 /\ store' = [store EXCEPT ![k] = i]
              /\ new.answer = requests[i].answer
              /\ UNCHANGED <<used, orders, cart>>
           \/ /\ requests[i].at = "sent" /\ new.at = "answered"
              /\ store[k] # 0
              /\ new.answer \in {"placed", "replayed"} =>
                     /\ WebCheckout!SameBody(i, store[k])
                     /\ requests[store[k]].at = "answered"
              /\ UNCHANGED <<store, used, orders, cart>>
           \/ /\ requests[i].at \in {"claimed", "checked"}
              /\ new.at = "answered" /\ store' = [store EXCEPT ![k] = 0]
              /\ new.answer \notin {"placed", "replayed"}
              /\ used' \in {used, used \cup {k}} /\ UNCHANGED <<orders, cart>>
           \/ /\ requests[i].at = "claimed" /\ new.at = "checked"
              /\ new.charged = requests[i].body.total
              /\ new.answer = requests[i].answer
              /\ UNCHANGED <<store, used, orders, cart>>
           \/ /\ requests[i].at = "checked" /\ new.at = "answered"
              /\ new.charged = requests[i].charged /\ k \notin used
              /\ orders' = orders \cup {i} /\ used' = used \cup {k}
              /\ cart' = FALSE /\ UNCHANGED store
<1>1. requests \in [1..Asked -> Asks] /\ requests[i] \in Asks
      /\ i \in DOMAIN requests
  BY DEF CheckoutInv, RequestsTyped
<1>2. ASSUME NEW l \in {"claimed"}, WebCheckout!At(i, l)
      PROVE  /\ requests'[i].at = l
             /\ requests'[i].answer = requests[i].answer
  BY <1>1, <1>2 DEF WebCheckout!At, Asks
<1>3. ASSUME NEW a \in WebCheckout!Answers, WebCheckout!Answer(i, a)
      PROVE  /\ requests'[i].at = "answered" /\ requests'[i].answer = a
             /\ requests'[i].charged = requests[i].charged
  BY <1>1, <1>3 DEF WebCheckout!Answer, Asks
<1>4. CASE WebCheckout!Claim(i)
  <2> DEFINE a == IF ~WebCheckout!SameBody(i,
          store[requests[i].key]) THEN "other body"
                  ELSE IF requests[store[requests[i].key]].at # "answered"
                       THEN "in progress" ELSE "replayed"
  <2>1. a \in WebCheckout!Answers
    BY DEF WebCheckout!Answers
  <2>2. a \in {"placed", "replayed"} =>
            /\ WebCheckout!SameBody(i, store[requests[i].key])
            /\ requests[store[requests[i].key]].at = "answered"
    OBVIOUS
  <2>3. \/ /\ WebCheckout!At(i, "claimed") /\ store[requests[i].key] = 0
           /\ store' = [store EXCEPT ![requests[i].key] = i]
        \/ /\ WebCheckout!Answer(i, a) /\ store[requests[i].key] # 0
           /\ UNCHANGED store
    BY <1>4 DEF WebCheckout!Claim
  <2>4. requests[i].at = "sent" /\ UNCHANGED <<used, orders, cart>>
    BY <1>4 DEF WebCheckout!Claim
  <2> HIDE DEF a
  <2> QED
    BY <1>2, <1>3, <2>1, <2>2, <2>3, <2>4
<1>5. ASSUME NEW a \in {"empty", "changed", "refused", "declined"},
             WebCheckout!Fail(i, a)
      PROVE  /\ requests'[i].at = "answered"
             /\ store' = [store EXCEPT ![requests[i].key] = 0]
             /\ requests'[i].answer \notin {"placed", "replayed"}
             /\ UNCHANGED <<orders, cart>>
  BY <1>3, <1>5 DEF WebCheckout!Fail, WebCheckout!Answers
<1>6. CASE WebCheckout!Check(i)
  <2>1. CASE WebCheckout!Fail(i, "empty") \/ WebCheckout!Fail(i, "changed")
    BY <1>5, <1>6, <2>1 DEF WebCheckout!Check
  <2>2. CASE ~(WebCheckout!Fail(i, "empty") \/ WebCheckout!Fail(i, "changed"))
    <3>1. /\ requests' = [requests EXCEPT ![i].at = "checked",
                                          ![i].charged = price]
          /\ price = requests[i].body.total /\ requests[i].at = "claimed"
          /\ UNCHANGED <<store, used, orders, cart>>
      BY <1>6, <2>2 DEF WebCheckout!Check, WebCheckout!PriceChanged
    <3>2. requests'[i] = [[requests[i] EXCEPT !.at = "checked"]
                             EXCEPT !.charged = price]
      BY <1>1, <3>1
    <3>3. /\ requests'[i].at = "checked" /\ requests'[i].charged = price
          /\ requests'[i].answer = requests[i].answer
      BY <1>1, <3>2 DEF Asks
    <3> QED
      BY <3>1, <3>3
  <2> QED
    BY <2>1, <2>2
<1>7. CASE WebCheckout!Place(i)
  <2>1. CASE WebCheckout!Fail(i, "refused") \/ WebCheckout!Fail(i, "declined")
    BY <1>5, <1>7, <2>1 DEF WebCheckout!Place
  <2>2. CASE ~(WebCheckout!Fail(i, "refused") \/
                 WebCheckout!Fail(i, "declined"))
    <3>1. /\ WebCheckout!Answer(i, "placed") /\ requests[i].at = "checked"
          /\ requests[i].key \notin used /\ UNCHANGED store
          /\ orders' = orders \cup {i} /\ used' = used \cup {requests[i].key}
          /\ cart' = FALSE
      BY <1>7, <2>2 DEF WebCheckout!Place
    <3> QED
      BY <1>3, <3>1 DEF WebCheckout!Answers
  <2> QED
    BY <2>1, <2>2
<1> QED
  BY <1>4, <1>6, <1>7

LEMMA ServeStep ==
    ASSUME WebCheckout!WebCheckoutAssumption, CheckoutInv, WebCheckout!Serve
    PROVE  CheckoutInv'
<1>1. PICK i \in DOMAIN requests : WebCheckout!Claim(i) \/
          WebCheckout!Check(i) \/ WebCheckout!Place(i)
  BY DEF WebCheckout!Serve
<1> DEFINE k == requests[i].key
           new == requests'[i]
           Took == /\ requests[i].at = "sent" /\ new.at = "claimed"
                   /\ store[k] = 0 /\ store' = [store EXCEPT ![k] = i]
                   /\ new.answer = requests[i].answer
                   /\ UNCHANGED <<used, orders, cart>>
           Told == /\ requests[i].at = "sent" /\ new.at = "answered"
                   /\ store[k] # 0
                   /\ new.answer \in {"placed", "replayed"} =>
                          /\ WebCheckout!SameBody(i, store[k])
                          /\ requests[store[k]].at = "answered"
                   /\ UNCHANGED <<store, used, orders, cart>>
           Failed == /\ requests[i].at \in {"claimed", "checked"}
                     /\ new.at = "answered"
                     /\ store' = [store EXCEPT ![k] = 0]
                     /\ new.answer \notin {"placed", "replayed"}
                     /\ used' \in {used, used \cup {k}}
                     /\ UNCHANGED <<orders, cart>>
           Checked == /\ requests[i].at = "claimed" /\ new.at = "checked"
                      /\ new.charged = requests[i].body.total
                      /\ new.answer = requests[i].answer
                      /\ UNCHANGED <<store, used, orders, cart>>
           Placed == /\ requests[i].at = "checked" /\ new.at = "answered"
                     /\ new.charged = requests[i].charged /\ k \notin used
                     /\ orders' = orders \cup {i} /\ used' = used \cup {k}
                     /\ cart' = FALSE /\ UNCHANGED store
<1>2. Took \/ Told \/ Failed \/ Checked \/ Placed
  BY <1>1, ServeCases
<1>3. /\ requests' \in [1..Asked -> Asks] /\ Asked' = Asked
      /\ DOMAIN requests' = DOMAIN requests
      /\ \A j \in DOMAIN requests : j # i => requests'[j] = requests[j]
      /\ new.mount = requests[i].mount /\ new.key = k
      /\ new.body = requests[i].body
      /\ UNCHANGED <<WebCheckout!page, seen, preview, waiting, told, price>>
      /\ requests[i].at # "answered" /\ new.at # "sent"
  BY <1>1, ServeEffect
<1>4. /\ RequestsTyped /\ PageTyped /\ WaitsForWhatItShows /\ StoreTyped
      /\ ClaimsHold /\ OrdersArePaid /\ AnswersAreTrue
      /\ WebCheckout!OneOrderPerMount
      /\ Asked \in Nat /\ DOMAIN requests = 1..Asked /\ i \in 1..Asked
      /\ requests[i] \in Asks /\ k \in WebCheckout!Keys
      /\ 0 \notin DOMAIN requests
  BY DEF CheckoutInv, RequestsTyped, Asks
<1>5. \A j \in DOMAIN requests :
          /\ requests'[j].mount = requests[j].mount
          /\ requests'[j].key = requests[j].key
          /\ requests'[j].body = requests[j].body
  BY <1>3
<1>6. /\ orders \subseteq orders' /\ used \subseteq used'
      /\ orders' \subseteq orders \cup {i} /\ used' \subseteq used \cup {k}
      /\ cart' \in BOOLEAN /\ store' \in [WebCheckout!Keys -> 0..MaxRequests]
  <2>1. i \in 0..MaxRequests /\ 0 \in 0..MaxRequests
    BY <1>4 DEF StoreTyped, WebCheckout!WebCheckoutAssumption
  <2> QED
    BY <1>2, <1>4, <2>1 DEF StoreTyped, PageTyped
<1> HIDE DEF Took, Told, Failed, Checked, Placed, k, new
<1>7. RequestsTyped' /\ PageTyped' /\ StoreTyped' /\ WaitsForWhatItShows'
  <2>1. RequestsTyped'
    BY <1>3, <1>4 DEF RequestsTyped
  <2>2. PageTyped'
    BY <1>3, <1>4, <1>6 DEF PageTyped, WebCheckout!page
  <2>3. StoreTyped'
    BY <1>3, <1>4, <1>6 DEF StoreTyped
  <2>4. WaitsForWhatItShows'
    BY <1>3, <1>4, <1>5 DEF WaitsForWhatItShows, WebCheckout!page
  <2> QED
    BY <2>1, <2>2, <2>3, <2>4
<1>8. ClaimsHold'
  <2>1. ASSUME NEW j \in DOMAIN requests
        PROVE  /\ requests'[j].key = requests'[j].mount
               /\ requests'[j].at \in {"claimed", "checked"} =>
                      store'[requests'[j].key] = j
    <3>1. requests'[j].key = requests'[j].mount
      BY <1>4, <1>5 DEF ClaimsHold
    <3>2. CASE j = i
      BY <1>2, <1>3, <1>4, <3>2
      DEF ClaimsHold, StoreTyped, Took, Told, Failed, Checked, Placed, k, new
    <3>3. CASE j # i /\ requests[j].at \in {"claimed", "checked"}
      <4>1. store[requests[j].key] = j /\ requests'[j] = requests[j]
            /\ requests[j].key \in WebCheckout!Keys
        BY <1>3, <1>4, <3>3 DEF ClaimsHold, RequestsTyped, Asks
      <4>2. requests[j].key = k => store[k] # 0 /\ store[k] # i
        BY <1>4, <3>3, <4>1
      <4>3. requests[j].key # k \/ Told \/ Checked \/ Placed
        BY <1>2, <1>4, <4>2 DEF ClaimsHold, Took, Failed, k
      <4>4. store'[requests[j].key] = store[requests[j].key]
        BY <1>2, <1>4, <4>1, <4>3
        DEF Took, Told, Failed, Checked, Placed, StoreTyped
      <4> QED
        BY <3>1, <4>1, <4>4
    <3> QED
      BY <1>3, <3>1, <3>2, <3>3
  <2>2. ASSUME NEW c \in WebCheckout!Keys, store'[c] # 0
        PROVE  /\ store'[c] \in DOMAIN requests
               /\ requests'[store'[c]].key = c
               /\ requests'[store'[c]].at # "sent"
               /\ requests'[store'[c]].at = "answered" => store'[c] \in orders'
    <3>1. CASE store'[c] = i /\ store[c] # i
      <4>1. Took /\ c = k
        BY <1>2, <1>4, <2>2, <3>1
        DEF Took, Told, Failed, Checked, Placed, StoreTyped
      <4> QED
        BY <1>3, <1>4, <3>1, <4>1 DEF Took, new
    <3>2. CASE store'[c] = store[c]
      <4>1. /\ store[c] \in DOMAIN requests /\ requests[store[c]].key = c
            /\ requests[store[c]].at # "sent"
            /\ requests[store[c]].at = "answered" => store[c] \in orders
        BY <1>4, <2>2, <3>2 DEF ClaimsHold
      <4>2. CASE store[c] # i
        BY <1>3, <1>6, <3>2, <4>1, <4>2
      <4>3. CASE store[c] = i
        <5>1. c = k /\ ~Took /\ ~Told
          BY <4>1, <4>3 DEF Took, Told, k
        <5>2. ~Failed
          BY <1>4, <2>2, <3>2, <5>1 DEF Failed, StoreTyped
        <5> QED
          BY <1>2, <1>3, <1>6, <3>2, <4>1, <4>3, <5>1, <5>2
          DEF Checked, Placed, k, new
      <4> QED
        BY <4>2, <4>3
    <3>3. store'[c] \in {store[c], i, 0}
      BY <1>2, <1>4 DEF Took, Told, Failed, Checked, Placed, StoreTyped
    <3> QED
      BY <2>2, <3>1, <3>2, <3>3
  <2> QED
    BY <1>3, <2>1, <2>2 DEF ClaimsHold
<1>9. OrdersArePaid'
  <2>1. ASSUME NEW j \in DOMAIN requests, requests'[j].at = "checked"
        PROVE  requests'[j].charged = requests'[j].body.total
    BY <1>2, <1>3, <1>4, <2>1
    DEF OrdersArePaid, Took, Told, Failed, Checked, Placed, new
  <2>2. ASSUME NEW j \in orders'
        PROVE  /\ requests'[j].at = "answered" /\ requests'[j].key \in used'
               /\ requests'[j].charged = requests'[j].body.total
    <3>1. CASE j \in orders
      <4>1. j # i /\ j \in DOMAIN requests
        BY <1>3, <1>4, <3>1 DEF OrdersArePaid, StoreTyped
      <4> QED
        BY <1>3, <1>4, <1>6, <3>1, <4>1 DEF OrdersArePaid
    <3>2. CASE j \notin orders
      <4>1. Placed /\ j = i
        BY <1>2, <2>2, <3>2 DEF Took, Told, Failed, Checked, Placed
      <4> QED
        BY <1>3, <1>4, <4>1 DEF OrdersArePaid, Placed, k, new
    <3> QED
      BY <3>1, <3>2
  <2> QED
    BY <1>3, <2>1, <2>2 DEF OrdersArePaid
<1>10. AnswersAreTrue'
  <2> SUFFICES ASSUME NEW j \in DOMAIN requests,
                      requests'[j].answer \in {"placed", "replayed"}
               PROVE  \E o \in orders' :
                          /\ requests'[o].mount = requests'[j].mount
                          /\ requests'[o].body = requests'[j].body
    BY <1>3 DEF AnswersAreTrue
  <2>1. CASE requests[j].answer = requests'[j].answer
    <3>1. PICK o \in orders : /\ requests[o].mount = requests[j].mount
                              /\ requests[o].body = requests[j].body
      BY <1>4, <2>1 DEF AnswersAreTrue
    <3>2. o \in DOMAIN requests /\ o \in orders'
      BY <1>4, <1>6 DEF StoreTyped
    <3> QED
      BY <1>5, <3>1, <3>2
  <2>2. CASE requests[j].answer # requests'[j].answer
    <3>1. j = i /\ (Told \/ Placed)
      BY <1>2, <1>3, <2>2 DEF Took, Failed, Checked, new
    <3>2. CASE Told
      <4> DEFINE o == store[k]
      <4>1. /\ o \in orders /\ o \in DOMAIN requests
            /\ requests[o].key = k /\ requests[o].body = requests[i].body
        BY <1>4, <3>1, <3>2 DEF Told, ClaimsHold, WebCheckout!SameBody, new
      <4>2. requests[o].mount = requests[i].mount
        BY <1>4, <4>1 DEF ClaimsHold, k
      <4> QED
        BY <1>5, <1>6, <3>1, <4>1, <4>2
    <3>3. CASE Placed
      BY <3>1, <3>3 DEF Placed
    <3> QED
      BY <3>1, <3>2, <3>3
  <2> QED
    BY <2>1, <2>2
<1>11. WebCheckout!OneOrderPerMount'
  <2> SUFFICES ASSUME NEW a \in orders', NEW b \in orders',
                      requests'[a].mount = requests'[b].mount
               PROVE  a = b
    BY DEF WebCheckout!OneOrderPerMount
  <2>1. orders' \subseteq DOMAIN requests
    BY <1>4, <1>6 DEF StoreTyped
  <2>2. requests[a].mount = requests[b].mount
    BY <1>5, <2>1
  <2>3. requests[a].key = requests[b].key
    BY <1>4, <2>1, <2>2 DEF ClaimsHold
  <2>4. CASE a \in orders /\ b \in orders
    BY <1>4, <2>2, <2>4 DEF WebCheckout!OneOrderPerMount
  <2>5. CASE ~(a \in orders /\ b \in orders)
    <3>1. Placed
      BY <1>2, <2>5 DEF Took, Told, Failed, Checked, Placed
    <3>2. \A o \in orders : requests[o].key \in used
      BY <1>4 DEF OrdersArePaid
    <3> QED
      BY <1>6, <2>3, <2>5, <3>1, <3>2 DEF Placed, k
  <2> QED
    BY <2>4, <2>5
<1> QED
  BY <1>7, <1>8, <1>9, <1>10, <1>11 DEF CheckoutInv

LEMMA CheckoutStep ==
    ASSUME WebCheckout!WebCheckoutAssumption, CheckoutInv,
           [WebCheckout!Next]_(WebCheckout!vars)
    PROVE  CheckoutInv'
<1>1. CASE UNCHANGED WebCheckout!vars
  BY <1>1
  DEF WebCheckout!vars, WebCheckout!page, CheckoutInv, RequestsTyped, Asked,
      PageTyped,
      WaitsForWhatItShows, StoreTyped, ClaimsHold, OrdersArePaid,
      AnswersAreTrue, WebCheckout!OneOrderPerMount
<1> QED
  BY <1>1, PageActs, SubmitStep, ServeStep DEF WebCheckout!Next

\* The page is told of the order that it asked for.
LEMMA ReceiveStep ==
    ASSUME WebCheckout!WebCheckoutAssumption, CheckoutInv,
           [WebCheckout!Next]_(WebCheckout!vars)
    PROVE  WebCheckout!PlacedAsChosen
<1> SUFFICES ASSUME step' = "placed", step # "placed"
             PROVE  \E i \in orders :
                        /\ requests[i].mount = mount
                        /\ requests[i].body.address = address
                        /\ requests[i].body.payment = payment
                        /\ requests[i].charged = requests[waiting].body.total
  BY DEF WebCheckout!PlacedAsChosen
<1>1. WebCheckout!Receive
  BY 
  DEF WebCheckout!Next, WebCheckout!vars, WebCheckout!page, WebCheckout!Mount,
      WebCheckout!Fresh, WebCheckout!Walk, WebCheckout!Show, WebCheckout!Load,
      WebCheckout!Reload, WebCheckout!Submit,
         WebCheckout!Lose, WebCheckout!Serve, WebCheckout!Claim,
             WebCheckout!Check, WebCheckout!Place, WebCheckout!ChooseAddress,
                 WebCheckout!ChoosePayment,
         WebCheckout!Reprice
<1>2. waiting \in DOMAIN requests
  BY <1>1
  DEF WebCheckout!Receive, WebCheckout!Pending, CheckoutInv, RequestsTyped,
              WaitsForWhatItShows
<1>3. requests[waiting].answer \in {"placed", "replayed"}
  BY <1>1 DEF WebCheckout!Receive
<1>4. PICK j \in orders : /\ requests[j].mount = requests[waiting].mount
                          /\ requests[j].body = requests[waiting].body
  BY <1>2, <1>3 DEF CheckoutInv, AnswersAreTrue
<1> QED
  BY <1>1, <1>4
  DEF CheckoutInv, OrdersArePaid, WaitsForWhatItShows, WebCheckout!Receive,
      WebCheckout!Pending

\* "A declined-then-corrected attempt cannot create two orders", whatever is
\* lost, repeated or changed meanwhile.
THEOREM OneOrderEachMount ==
    ASSUME WebCheckout!WebCheckoutAssumption
    PROVE  WebCheckout!Spec =>
               [](WebCheckout!TypeOK /\ WebCheckout!OneOrderPerMount)
<1>1. WebCheckout!Init => CheckoutInv
  BY InitCheckout
<1>2. CheckoutInv /\ [WebCheckout!Next]_(WebCheckout!vars) => CheckoutInv'
  BY CheckoutStep
<1>3. CheckoutInv => WebCheckout!TypeOK /\ WebCheckout!OneOrderPerMount
  BY SameCount
  DEF CheckoutInv, RequestsTyped, PageTyped, WaitsForWhatItShows,
         StoreTyped, WebCheckout!TypeOK, Asks, Asked
<1> QED
  BY <1>1, <1>2, <1>3, PTL DEF WebCheckout!Spec

\* "The customer can never be charged a total they did not see."
THEOREM PlacedIsWhatWasChosen ==
    ASSUME WebCheckout!WebCheckoutAssumption
    PROVE  WebCheckout!Spec =>
               [][WebCheckout!PlacedAsChosen]_(WebCheckout!vars)
<1>1. WebCheckout!Init => CheckoutInv
  BY InitCheckout
<1>2. CheckoutInv /\ [WebCheckout!Next]_(WebCheckout!vars) =>
          CheckoutInv' /\ [WebCheckout!PlacedAsChosen]_(WebCheckout!vars)
  BY CheckoutStep, ReceiveStep
<1> QED
  BY <1>1, <1>2, PTL DEF WebCheckout!Spec
=============================================================================
