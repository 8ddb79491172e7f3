------------------------------ MODULE MCUsers -------------------------------
(* What a user has: Accounts, Addresses and Cart on small instances, side   *)
(* by side.  Here they share no state, so of each behaviour one component   *)
(* is all.                                                                  *)
EXTENDS Accounts, TLC

CONSTANTS e1, n1, t1, t2, t3, t4

VARIABLES
    part,   \* the component that runs
    \* the variables of the component, one after the other
    x1, x2, x3, x4, x5, x6, x7

\* Of two email addresses and two usernames the member has one each.
MCFirst == [a \in Members |-> [email |-> e1, name |-> n1]]

Tx == {t1, t2, t3, t4}
Symmetry == Permutations(Tx)

Book == INSTANCE Addresses WITH
    Txs <- Tx,
    Operations <- {"create", "createDefault", "unset", "setDefault", "delete"},
    MAX_ADDRESSES_PER_USER <- 3, MaxOpen <- 3, MaxRows <- 4,
    row <- x1, draft <- x2, at <- x3, op <- x4, count <- x5, found <- x6,
    locks <- x7

Cart == INSTANCE Cart WITH
    Products <- {"hat", "mug"}, Requests <- {"r1"},
    Kinds <- {"add", "set", "remove", "clear", "merge", "fetch"},
    MAX_QUANTITY_PER_ITEM <- 2, MAX_LINE_ITEMS <- 1, Stock <- 2, MaxSales <- 1,
    cart <- x1, available <- x2, active <- x3, sales <- x4, request <- x5,
    shown <- x6

Page == INSTANCE Cart WITH
    Products <- {"hat", "mug"}, Requests <- {"r1", "r2"},
    Kinds <- {"set", "fetch"}, MAX_QUANTITY_PER_ITEM <- 2, MAX_LINE_ITEMS <- 2,
    Stock <- 2, MaxSales <- 0,
    cart <- x1, available <- x2, active <- x3, sales <- x4, request <- x5,
    shown <- x6

ASSUME AccountsAssumption
ASSUME BookHolds == Book!BookAssumption
ASSUME CartHolds == Cart!CartAssumption
ASSUME PageHolds == Page!CartAssumption

\* What a component has no use for.
Idle ==
    /\ x1 = "idle" /\ x2 = "idle" /\ x3 = "idle" /\ x4 = "idle"
    /\ x5 = "idle" /\ x6 = "idle" /\ x7 = "idle"
Still == UNCHANGED <<x1, x2, x3, x4, x5, x6, x7>>

\* Those of Accounts are its own.
MCInit ==
    \/ part = "accounts" /\ Init /\ Idle
    \/ part \in {"edits", "additions", "turns"} /\ Book!Init /\ Init
    \/ part = "cart" /\ Cart!Init /\ x7 = "idle" /\ Init
    \/ part = "page" /\ Page!Init /\ x7 = "idle" /\ Init

MCNext ==
    /\ UNCHANGED part
    /\ IF part = "accounts" THEN Still ELSE UNCHANGED vars
    /\ \/ part = "accounts" /\ Next
       \/ part = "edits" /\ Book!Next
       \/ part = "additions" /\ Book!Next /\ Book!OnlyAdds'
       \/ /\ part = "turns" /\ Book!Next
          /\ Book!OneAtATime' /\ Book!NoneUnset'
       \/ part = "cart" /\ Cart!Next /\ UNCHANGED x7
       \/ part = "page" /\ Page!Next /\ UNCHANGED x7

state == <<part, vars, x1, x2, x3, x4, x5, x6, x7>>
MCSpec == MCInit /\ [][MCNext]_state
-----------------------------------------------------------------------------
(* Properties *)

\* "The user always has a default to check out with", while addresses are
\* added and made the default concurrently, and when they are deleted, one
\* request after the other; then the limit holds as well, and no request runs
\* into the unique index.
BookIsLegal ==
    /\ part = "edits" => Book!TypeOK
    /\ part = "additions" => Book!HasDefault
    /\ part = "turns" => Book!BookIsLegal

\* Requests to a cart keep what they are not about: a merge that is repeated
\* adds nothing, and a change of one line that the page sends leaves the others
\* alone.
CartKeepsItsLines ==
    [][/\ part = "cart" => Cart!MergeIsIdempotent
       /\ part = "page" => Page!OneLineChanges]_state
=============================================================================
