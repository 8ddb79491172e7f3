---------------------------- MODULE WebCheckout ----------------------------
(***************************************************************************)
(* The checkout page (apps/web/src/pages/Checkout.tsx) over a service that *)
(* has the idempotency store and the checks of place-order.  The page      *)
(* keeps one key while it is mounted; answers get lost while the service   *)
(* goes on; prices change.  Stock and the steps of the saga are those of   *)
(* Checkout, the races of the store those of Idempotency.                  *)
(***************************************************************************)
EXTENDS Naturals, FiniteSets

CONSTANTS
    Addresses,
    Prices,         \* what the cart may cost
    MaxMounts,      \* bound: how often the page is mounted
    MaxRequests,    \* bound: orders that are sent
    Losses          \* whether answers get lost

WebCheckoutAssumption ==
    /\ Prices \subseteq Nat \ {0}
    /\ MaxMounts \in Nat \ {0} /\ MaxRequests \in Nat
    /\ Losses \in BOOLEAN

VARIABLES
    step, address, payment, mount,  \* the state of the page
    seen,       \* the total it shows, 0 for none
    preview,    \* the query of it: "idle", "loading" or "error"
    waiting,    \* the request it waits for, 0 for none
    told,       \* the last answer, until the total is fetched again
    requests,   \* all that were sent, in a sequence
    store,      \* what is known of each key
    used,       \* the keys that orders in the database have
    orders,     \* the orders that are paid, by request
    cart,       \* whether the cart has its items
    price       \* their total

page == <<step, address, payment, mount>>
vars == <<page, seen, preview, waiting, told, requests, store, used, orders,
          cart, price>>
service == <<requests, store, used, orders, cart>>

Keys == 1..(MaxMounts + MaxRequests)
Payments == {"approved", "declined"}
None == "none"
Answers == {"placed", "replayed", "in progress", "other body", "changed",
            "empty", "refused", "declined"}
Body == [address : Addresses, payment : Payments, total : Prices]

TypeOK ==
    /\ step \in {"address", "payment", "review", "placed"}
    /\ address \in Addresses
    /\ payment \in Payments
    /\ mount \in 1..MaxMounts
    /\ seen \in Prices \cup {0}
    /\ preview \in {"idle", "loading", "error"}
    /\ waiting \in 0..Cardinality(DOMAIN requests)
    /\ told \in Answers \cup {None, "lost"}
    /\ \A i \in DOMAIN requests :
           /\ requests[i].key \in Keys /\ requests[i].body \in Body
           /\ requests[i].charged \in Prices \cup {0}
           /\ requests[i].at \in {"sent", "claimed", "checked", "answered"}
           /\ requests[i].answer \in Answers \cup {None}
    /\ store \in [Keys -> 0..MaxRequests]
    /\ used \subseteq Keys
    /\ orders \subseteq DOMAIN requests
    /\ cart \in BOOLEAN /\ price \in Prices
    /\ waiting # 0 => requests[waiting].mount = mount

\* The form as it is mounted, with the default address.
Fresh(m, a) ==
    /\ step' = "address" /\ address' = a /\ payment' = "approved"
    /\ mount' = m /\ seen' = 0 /\ preview' = "loading"
    /\ told' = None /\ waiting' = 0

Init ==
    /\ step = "address" /\ address \in Addresses /\ payment = "approved"
    /\ mount = 1 /\ seen = 0 /\ preview = "loading" /\ waiting = 0
    /\ told = None
    /\ requests = [i \in {} |-> None]
    /\ store = [k \in Keys |-> 0] /\ used = {} /\ orders = {}
    /\ cart = TRUE /\ price \in Prices
-----------------------------------------------------------------------------
(* The page *)

Pending == waiting # 0

Mount ==
    /\ mount < MaxMounts
    /\ \E a \in Addresses : Fresh(mount + 1, a)
    /\ UNCHANGED <<service, price>>

\* The preview has the address in its key.
ChooseAddress(a) ==
    /\ step = "address" /\ a # address
    /\ address' = a /\ seen' = 0 /\ preview' = "loading"
    /\ UNCHANGED <<step, payment, mount, waiting, told, service, price>>

ChoosePayment(p) ==
    /\ step = "payment"
    /\ payment' = p
    /\ UNCHANGED <<step, address, mount, seen, preview, waiting, told,
                   service, price>>

Show(from, to) ==
    /\ step = from /\ step' = to
    /\ UNCHANGED <<address, payment, mount, seen, preview, waiting, told,
                   service, price>>

Enabled == FALSE
Disabled == Pending

Walk ==
    \/ Show("address", "payment") \/ Show("payment", "review")
    \/ Show("payment", "address")
    \/ ~Disabled /\ Show("review", "payment")

\* A preview of an empty cart is refused, and what was shown stays.
Load ==
    /\ preview = "loading" /\ step # "placed"
    /\ IF cart THEN seen' = price /\ preview' = "idle"
               ELSE preview' = "error" /\ UNCHANGED seen
    /\ told' = None
    /\ UNCHANGED <<page, waiting, service, price>>

\* On reconnecting, say.
Reload ==
    /\ preview = "idle" /\ step # "placed" /\ preview' = "loading"
    /\ UNCHANGED <<page, seen, waiting, told, service, price>>

\* The key is made when the page is mounted.
KeyFor(m, n) == m

Body0 == [address |-> address, payment |-> payment, total |-> seen]

Submit ==
    LET n == Cardinality(DOMAIN requests) + 1 IN
    /\ step = "review" /\ seen # 0 /\ preview # "error" /\ ~Pending
    /\ n <= MaxRequests
    /\ requests' = [i \in 1..n |->
           IF i < n THEN requests[i]
           ELSE [mount |-> mount, key |-> KeyFor(mount, n), body |-> Body0,
                 at |-> "sent", charged |-> 0, answer |-> None]]
    /\ waiting' = n
    /\ UNCHANGED <<page, seen, preview, told, store, used, orders, cart,
                   price>>

\* onError: a changed price is fetched.
Refetches(a) == a = "changed"

Receive ==
    /\ Pending /\ requests[waiting].at = "answered"
    /\ LET a == requests[waiting].answer IN
       /\ told' = a /\ waiting' = 0
       /\ step' = IF a \in {"placed", "replayed"} THEN "placed" ELSE "review"
       /\ preview' = IF Refetches(a) THEN "loading" ELSE preview
    /\ UNCHANGED <<address, payment, mount, seen, service, price>>

Lose ==
    /\ Losses /\ Pending
    /\ told' = "lost" /\ waiting' = 0
    /\ UNCHANGED <<page, seen, preview, service, price>>
-----------------------------------------------------------------------------
(* The service *)

Reprice(p) ==
    /\ price' = p
    /\ UNCHANGED <<page, seen, preview, waiting, told, service>>

At(i, l) == requests' = [requests EXCEPT ![i].at = l]
Answer(i, a) ==
    requests' = [requests EXCEPT ![i].at = "answered", ![i].answer = a]

\* idempotency.begin.
SameBody(i, j) == requests[i].body = requests[j].body

Claim(i) ==
    LET k == requests[i].key IN
    /\ requests[i].at = "sent"
    /\ \/ /\ store[k] = 0
          /\ store' = [store EXCEPT ![k] = i] /\ At(i, "claimed")
       \/ /\ store[k] # 0
          /\ Answer(i, IF ~SameBody(i, store[k]) THEN "other body"
                       ELSE IF requests[store[k]].at # "answered"
                            THEN "in progress" ELSE "replayed")
          /\ UNCHANGED store
    /\ UNCHANGED <<page, seen, preview, waiting, told, used, orders, cart,
                   price>>

\* An attempt that fails gives its claim back.
Fail(i, a) ==
    /\ Answer(i, a)
    /\ store' = [store EXCEPT ![requests[i].key] = 0]
    /\ UNCHANGED <<orders, cart>>

PriceChanged(i) == price # requests[i].body.total

\* placeOrder reads the cart, then writes the order.
Check(i) ==
    /\ requests[i].at = "claimed"
    /\ \/ ~cart /\ Fail(i, "empty")
       \/ cart /\ PriceChanged(i) /\ Fail(i, "changed")
       \/ /\ cart /\ ~PriceChanged(i)
          /\ requests' = [requests EXCEPT ![i].at = "checked",
                                          ![i].charged = price]
          /\ UNCHANGED <<store, orders, cart>>
    /\ UNCHANGED <<page, seen, preview, waiting, told, used, price>>

Place(i) ==
    LET r == requests[i] IN
    /\ r.at = "checked"
    /\ \/ r.key \in used /\ Fail(i, "refused")
       \/ r.key \notin used /\ r.body.payment = "declined"
          /\ Fail(i, "declined")
       \/ /\ r.key \notin used /\ r.body.payment = "approved"
          /\ orders' = orders \cup {i} /\ cart' = FALSE
          /\ Answer(i, "placed") /\ UNCHANGED store
    /\ used' = used \cup {r.key}
    /\ UNCHANGED <<page, seen, preview, waiting, told, price>>

Serve == \E i \in DOMAIN requests : Claim(i) \/ Check(i) \/ Place(i)

Next ==
    \/ Mount \/ Walk \/ Load \/ Reload \/ Submit \/ Receive \/ Lose \/ Serve
    \/ \E a \in Addresses : ChooseAddress(a)
    \/ \E p \in Payments : ChoosePayment(p)
    \/ \E p \in Prices : Reprice(p)
Spec == Init /\ [][Next]_vars
-----------------------------------------------------------------------------
(* Properties *)

\* "A declined-then-corrected attempt cannot create two orders": a mounted
\* checkout creates one.
OneOrderPerMount ==
    \A i, j \in orders : requests[i].mount = requests[j].mount => i = j

\* "The customer can never be charged a total they did not see": the order that
\* is shown as placed has the address and payment of the page, not those of an
\* earlier attempt, and was charged the total that was shown when it was sent.
PlacedAsChosen ==
    step' = "placed" /\ step # "placed" =>
        \E i \in orders :
            /\ requests[i].mount = mount
            /\ requests[i].body.address = address
            /\ requests[i].body.payment = payment
            /\ requests[i].charged = requests[waiting].body.total

\* "A price change means the review step is stale": the page comes to show the
\* new total, or why it cannot.  (To be reached, and for good.)
Settled == told = "changed" => seen = price \/ preview = "error"
=============================================================================
