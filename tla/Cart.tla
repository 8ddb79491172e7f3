-------------------------------- MODULE Cart --------------------------------
(***************************************************************************)
(* The cart of one user: services/cart on Redis, and the cart page of      *)
(* apps/web that sends the requests and shows the answers.                 *)
(*                                                                         *)
(* Redis holds one value per user.  Every operation reads it, changes its  *)
(* copy and writes it back, with calls of the catalogue in between.        *)
(***************************************************************************)
EXTENDS Naturals, FiniteSets, FiniteSetsExt

CONSTANTS
    Products,
    Requests,
    Kinds,                  \* the kinds of requests that are sent
    MAX_QUANTITY_PER_ITEM,
    MAX_LINE_ITEMS,
    Stock,                  \* bound: units of a product in stock
    MaxSales                \* bound: changes of the catalogue

CartAssumption ==
    /\ Kinds \subseteq {"add", "set", "remove", "clear", "merge", "fetch"}
    /\ {MAX_QUANTITY_PER_ITEM, MAX_LINE_ITEMS, Stock, MaxSales} \subseteq Nat

VARIABLES
    cart,      \* the quantity of each product in the stored cart, 0 for none
    available, \* the catalogue: what is in stock,
    active,    \* and which products are sold
    sales,     \* changes of the catalogue so far
    request,
    shown      \* the page's cart: what was stored, and the items with their
               \* quantities; the other lines are those not available

vars == <<cart, available, active, sales, request, shown>>
catalogue == <<available, active, sales>>

Carts == [Products -> 0..MAX_QUANTITY_PER_ITEM]
EmptyCart == [p \in Products |-> 0]
Lines(c) == {p \in Products : c[p] > 0}

\* getCart: quantities are clamped to the stock; what is not sold or out of
\* stock is reported apart.
View(c) == [p \in Products |->
    IF p \in active THEN Min({c[p], available[p]}) ELSE 0]

NoProduct == CHOOSE p \in Products : TRUE
Idle == [at |-> "idle", kind |-> "fetch", product |-> NoProduct,
         quantity |-> 0, items |-> EmptyCart, raw |-> EmptyCart,
         found |-> [sold |-> FALSE, available |-> 0]]

TypeOK ==
    /\ cart \in Carts
    /\ Cardinality(Lines(cart)) <= MAX_LINE_ITEMS
    /\ available \in [Products -> 0..Stock] /\ active \subseteq Products
    /\ \A r \in Requests :
           /\ request[r].raw \in Carts
           /\ request[r].at \in {"idle", "sent", "looked", "read", "written",
                                 "ok", "failed"}
    /\ shown.stored \in Carts /\ shown.items \in Carts

Init ==
    /\ cart \in {c \in Carts : Cardinality(Lines(c)) <= MAX_LINE_ITEMS}
    /\ available = [p \in Products |-> Stock]
    /\ active = Products
    /\ sales = 0
    /\ request = [r \in Requests |-> Idle]
    /\ shown = [stored |-> cart, items |-> View(cart)]
-----------------------------------------------------------------------------
(* The page.  Its selects are disabled while an update is pending, its       *)
(* buttons to remove a line while a removal is.                             *)

NotPending(k) ==
    \/ k \notin {"set", "remove"}
    \/ \A r \in Requests : request[r].at # "idle" => request[r].kind # k

Quantities(k) ==
    CASE k = "add" -> 1..MAX_QUANTITY_PER_ITEM
      [] k = "set" -> 0..MAX_QUANTITY_PER_ITEM
      [] OTHER -> {0}

\* Lines that are not available are not on the page's list of items.
Send(r, k, p, n, guest) ==
    /\ k \in Kinds /\ request[r].at = "idle" /\ NotPending(k)
    /\ n \in Quantities(k)
    /\ k = "merge" \/ guest = EmptyCart
    /\ k \in {"set", "remove"} => shown.items[p] > 0
    /\ k \in {"clear", "merge", "fetch"} => p = NoProduct
    /\ request' = [request EXCEPT ![r] = [Idle EXCEPT !.at = "sent",
           !.kind = k, !.product = p, !.quantity = n, !.items = guest]]
    /\ UNCHANGED <<cart, catalogue, shown>>

\* onSuccess: the cart of the answer becomes the page's.  An error is told,
\* and the page stays as it is.
Receive(r) ==
    /\ request[r].at \in {"ok", "failed"}
    /\ shown' = IF request[r].at = "failed" THEN shown
                ELSE [stored |-> request[r].raw, items |-> request[r].items]
    /\ request' = [request EXCEPT ![r] = Idle]
    /\ UNCHANGED <<cart, catalogue>>
-----------------------------------------------------------------------------
(* The handlers *)

At(r, k, at) == request[r].kind = k /\ request[r].at = at
Fail(r) ==
    request' = [request EXCEPT ![r].at = "failed"] /\ UNCHANGED cart
WriteRaw(r, c) ==
    cart' = c /\ request' = [request EXCEPT ![r].at = "written"]
Without(c, p) == [c EXCEPT ![p] = 0]

\* POST /products/lookup
Lookup(r) ==
    LET p == request[r].product IN
    /\ \/ At(r, "add", "sent")
       \/ /\ At(r, "set", "read")
          /\ request[r].raw[p] > 0 /\ request[r].quantity > 0
    /\ request' = [request EXCEPT ![r].at = "looked", ![r].found =
           [sold |-> p \in active, available |-> available[p]]]
    /\ UNCHANGED <<cart, catalogue, shown>>

ReadRaw(r) ==
    /\ \/ At(r, "add", "looked")
       \/ \E k \in {"set", "remove", "merge"} : At(r, k, "sent")
    /\ request' = [request EXCEPT ![r].at = "read", ![r].raw = cart]
    /\ UNCHANGED <<cart, catalogue, shown>>

LineFits(q) ==
    q.raw[q.product] > 0 \/ Cardinality(Lines(q.raw)) < MAX_LINE_ITEMS

AddItem(r) ==
    LET q == request[r]
        desired == q.raw[q.product] + q.quantity
    IN
    /\ At(r, "add", "read")
    /\ IF /\ q.found.sold
          /\ desired <= Min({MAX_QUANTITY_PER_ITEM, q.found.available})
          /\ LineFits(q)
       THEN WriteRaw(r, [q.raw EXCEPT ![q.product] = desired])
       ELSE Fail(r)
    /\ UNCHANGED <<catalogue, shown>>

\* A line that is not there, and quantity 0, are dealt with before the
\* lookup; a product that is no longer sold loses its line.
SetItemQuantity(r) ==
    LET q == request[r]
        p == q.product
    IN
    /\ \/ /\ At(r, "set", "read") /\ q.raw[p] = 0
          /\ Fail(r)
       \/ /\ At(r, "set", "read") /\ q.raw[p] > 0 /\ q.quantity = 0
          /\ WriteRaw(r, Without(q.raw, p))
       \/ /\ At(r, "set", "looked") /\ ~q.found.sold
          /\ cart' = Without(q.raw, p)
          /\ request' = [request EXCEPT ![r].at = "failed"]
       \/ /\ At(r, "set", "looked") /\ q.found.sold
          /\ IF q.quantity <= q.found.available
             THEN WriteRaw(r, [q.raw EXCEPT ![p] = q.quantity])
             ELSE Fail(r)
    /\ UNCHANGED <<catalogue, shown>>

RemoveItem(r) ==
    LET q == request[r] IN
    /\ At(r, "remove", "read")
    /\ IF q.raw[q.product] > 0 THEN WriteRaw(r, Without(q.raw, q.product))
                               ELSE Fail(r)
    /\ UNCHANGED <<catalogue, shown>>

\* The answer to a clear carries no cart; the page fetches it.
ClearCart(r) ==
    /\ At(r, "clear", "sent")
    /\ cart' = EmptyCart
    /\ request' = [request EXCEPT ![r] = [Idle EXCEPT !.at = "sent"]]
    /\ UNCHANGED <<catalogue, shown>>

Sum(m, n) == Min({m + n, MAX_QUANTITY_PER_ITEM})
\* "Take the larger quantity rather than summing"
Larger(m, n) == Min({Max({m, n}), MAX_QUANTITY_PER_ITEM})

\* The guest's items in their order; a new line needs room.
MergeInto(c, guest, order) ==
    LET room == MAX_LINE_ITEMS - Cardinality(Lines(c))
        new == {p \in Lines(guest) \ Lines(c) :
                   Cardinality({s \in Lines(guest) \ Lines(c) :
                                   order[s] < order[p]}) < room}
    IN  [p \in Products |->
            IF p \in Lines(c) \cap Lines(guest) \/ p \in new
            THEN Larger(c[p], guest[p]) ELSE c[p]]

Orders == {f \in [Products -> 1..Cardinality(Products)] :
              \A p, s \in Products : p # s => f[p] # f[s]}

MergeCart(r) ==
    /\ At(r, "merge", "read")
    /\ \E order \in Orders :
           WriteRaw(r, MergeInto(request[r].raw, request[r].items, order))
    /\ UNCHANGED <<catalogue, shown>>

\* getCart, on its own or for the answer to a mutation.
GetCart(r) ==
    /\ At(r, "fetch", "sent") \/ request[r].at = "written"
    /\ request' = [request EXCEPT ![r].at = "ok", ![r].raw = cart,
                                  ![r].items = View(cart)]
    /\ UNCHANGED <<cart, catalogue, shown>>

\* Others buy, the stock is filled up, a product is taken off sale.
Sell(p) ==
    /\ sales < MaxSales
    /\ sales' = sales + 1
    /\ \/ \E n \in 0..Stock : available' = [available EXCEPT ![p] = n]
          /\ UNCHANGED active
       \/ active' = active \ {p} /\ UNCHANGED available
    /\ UNCHANGED <<cart, request, shown>>

Handle(r) ==
    \/ Lookup(r) \/ ReadRaw(r) \/ AddItem(r) \/ SetItemQuantity(r)
    \/ RemoveItem(r) \/ ClearCart(r) \/ MergeCart(r) \/ GetCart(r)

Next ==
    \/ \E r \in Requests :
           \/ Handle(r) \/ Receive(r)
           \/ \E k \in Kinds, p \in Products, guest \in Carts,
                 n \in 0..MAX_QUANTITY_PER_ITEM : Send(r, k, p, n, guest)
    \/ \E p \in Products : Sell(p)

Spec == Init /\ [][Next]_vars
-----------------------------------------------------------------------------
(* Properties *)

\* With requests that wait for each other, a change of one product's line
\* leaves the other lines as they are, although the whole cart is written.
OneLineChanges ==
    \A r \in Requests :
        request[r].kind \in {"add", "set", "remove"} /\ Handle(r) =>
            \A p \in Products \ {request[r].product} : cart'[p] = cart[p]

\* A merge that is sent twice is merged once, and takes nothing from the cart:
\* on what the first left, the second changes nothing.
MergeIsIdempotent ==
    \A guest \in Carts, order \in Orders :
        LET once == MergeInto(cart, guest, order) IN
        /\ MergeInto(once, guest, order) = once
        /\ \A p \in Products : once[p] >= cart[p]

=============================================================================
