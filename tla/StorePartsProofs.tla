--------------------------- MODULE StorePartsProofs ---------------------------
(***************************************************************************)
(* Proofs about the parts that MCUsers, MCOrders and MCShop put side by    *)
(* side: the address book of a user, the totals of an order, the rating    *)
(* of a product, the recommendations, the search, the payments, the index  *)
(* of the search and the cart; and about row locks. Each is on its own,    *)
(* with constants and variables of its own; AccountsProofs, OrdersProofs   *)
(* and FulfilmentProofs say what they show of the runs.                    *)
(***************************************************************************)
EXTENDS Integers, Sequences, Functions, FiniteSetTheorems, SequenceTheorems,
        WellFoundedInduction, TLAPS

CONSTANTS
    Txs, Operations, MAX_ADDRESSES_PER_USER, MaxOpen, MaxRows,   \* Addresses
    Products, Prices, MaxStock, ServiceLevels, TAX_RATE,
    FREE_SHIPPING_THRESHOLD_CENTS, FLAT_SHIPPING_CENTS, TiesDown,   \* Totals
    Users, Ratings, Requests, Buyers, REQUIRE_VERIFIED_PURCHASE, Crashes,
    MaxVotes,   \* ReviewRollup
    Shoppers, Baskets, MIN_CO_OCCURRENCES, AFFINITY_PER_PRODUCT,
    RECOMMENDATIONS_PER_USER, Limits, Fragile, Cancels, Stocks, Dies,
    MaxOrders, MaxFails,   \* RecommendationRun
    Catalogues, Searches, Toggles, WINDOW,   \* SearchQuery
    Charges, Refunds, Keys, Orders, KeyOf, OrderOf, UserOf, AmountOf, OwnerOf,
    TotalOf, Faults,   \* Payment
    Indexed, Replicas, Admins, Live, BatchSize, MAX_ATTEMPTS, MaxChanges,
    MaxFaults,   \* SearchIndex
    Kinds, MAX_QUANTITY_PER_ITEM, MAX_LINE_ITEMS, Stock, MaxSales   \* Cart

VARIABLES
    row, draft, place, op, count, found, locks,   \* Addresses
    lines, price, stock, seen, level, placed,   \* Totals
    review, rating, rowOf, productOf, req, outbox, indexed,   \* ReviewRollup
    orders, inStock, viewed, running, at, next, affinity, recs, fails,
    \* RecommendationRun
    products, request, up, page, answer, toggles,   \* SearchQuery
    pc, payment, order, taken, returned, refund, target, holder,   \* Payment
    version, queue, indices, docs, alias, drain, build, faults,
    \* SearchIndex
    cart, available, active, sales, shown   \* Cart

Book == INSTANCE Addresses WITH at <- place

Totals == INSTANCE Totals WITH order <- placed

Rollup == INSTANCE ReviewRollup

Generation == INSTANCE RecommendationRun WITH
    Users <- Shoppers, Crashes <- Dies

Query == INSTANCE SearchQuery WITH
    Requests <- Searches, req <- request

Pay == INSTANCE Payment

Index == INSTANCE SearchIndex WITH
    Products <- Indexed, row <- version, outbox <- queue

Cart == INSTANCE Cart

-----------------------------------------------------------------------------
(* Row locks (RowLocks) *)

\* FOR UPDATE excludes everything, an UPDATE another one, and a foreign key's
\* lock neither itself nor an UPDATE.
LEMMA ConflictFacts ==
    /\ \A m : Book!Conflict("update", m) /\ Book!Conflict(m, "update")
    /\ Book!Conflict("no key update", "no key update")
    /\ \A m, n : Book!Conflict(m, n) <=> Book!Conflict(n, m)
<1>1. \A m : /\ "update" \in {"update", m} /\ "update" \in {m, "update"}
             /\ "update" \notin {"key share"}
             /\ "update" \notin {"key share", "no key update"}
  OBVIOUS
<1>2. /\ "key share" \notin {"no key update", "no key update"}
      /\ "key share" \in {"key share"}
      /\ "key share" \in {"key share", "no key update"}
  OBVIOUS
<1>3. \A m, n : {m, n} = {n, m}
  OBVIOUS
<1> QED
  BY <1>1, <1>2, <1>3 DEF Book!Conflict

\* A statement that waits for its lock keeps the locks of the transactions
\* apart.
LEMMA LockKeepsExclusion ==
    ASSUME NEW S, locks \in [Txs -> S], Book!LocksExclude,
           NEW t \in Txs, NEW id, NEW mode, Book!Lock(t, id, mode)
    PROVE  Book!LocksExclude'
<1>1. /\ locks'[t] = locks[t] \cup {<<id, mode>>}
      /\ \A u \in Txs : u # t => locks'[u] = locks[u]
  BY DEF Book!Lock
<1>2. \A u \in Txs \ {t} :
          \A l \in locks[u] : l[1] = id => ~Book!Conflict(l[2], mode)
  BY DEF Book!Lock, Book!CanLock
<1>3. <<id, mode>>[1] = id /\ <<id, mode>>[2] = mode
  OBVIOUS
<1> SUFFICES ASSUME NEW u \in Txs, NEW v \in Txs, u # v,
                    NEW l \in locks'[u], NEW m \in locks'[v], l[1] = m[1]
             PROVE  ~Book!Conflict(l[2], m[2])
  BY DEF Book!LocksExclude
<1>4. CASE l \in locks[u] /\ m \in locks[v]
  BY <1>4 DEF Book!LocksExclude
<1>5. CASE u = t /\ l = <<id, mode>>
  <2>1. m \in locks[v] /\ m[1] = id /\ l[2] = mode
    BY <1>1, <1>3, <1>5
  <2> QED
    BY <1>2, <1>5, <2>1, ConflictFacts
<1>6. CASE v = t /\ m = <<id, mode>>
  <2>1. l \in locks[u] /\ l[1] = id /\ m[2] = mode
    BY <1>1, <1>3, <1>6
  <2> QED
    BY <1>2, <1>6, <2>1
<1> QED
  BY <1>1, <1>4, <1>5, <1>6

\* COMMIT and ROLLBACK release all the locks of the transaction.
LEMMA ReleaseKeepsExclusion ==
    ASSUME NEW S, locks \in [Txs -> S], Book!LocksExclude, NEW t \in Txs,
           locks' = [locks EXCEPT ![t] = {}]
    PROVE  Book!LocksExclude'
<1>1. /\ locks'[t] = {}
      /\ \A u \in Txs : u # t => locks'[u] = locks[u]
  OBVIOUS
<1> QED
  BY <1>1 DEF Book!LocksExclude

\* Two transactions that hold one row exclude each other, unless both only
\* share it.
LEMMA HoldersExclude ==
    ASSUME Book!LocksExclude, NEW t \in Txs, NEW u \in Txs, NEW id,
           NEW m, NEW n, <<id, m>> \in locks[t], <<id, n>> \in locks[u],
           Book!Conflict(m, n)
    PROVE  t = u
<1> SUFFICES ASSUME t # u
             PROVE  FALSE
  OBVIOUS
<1> DEFINE l == <<id, m>>
           k == <<id, n>>
<1>1. l[1] = k[1] /\ l[2] = m /\ k[2] = n
  OBVIOUS
<1>2. l \in locks[t] /\ k \in locks[u]
  OBVIOUS
<1> HIDE DEF l, k
<1> QED
  BY <1>1, <1>2 DEF Book!LocksExclude

\* What is locked cannot be locked by another.
LEMMA HeldIsNotLockable ==
    ASSUME NEW t \in Txs, NEW u \in Txs, NEW id, NEW m, NEW n,
           <<id, m>> \in locks[u], Book!Conflict(m, n), Book!CanLock(t, id, n)
    PROVE  t = u
<1> SUFFICES ASSUME t # u
             PROVE  FALSE
  OBVIOUS
<1> DEFINE l == <<id, m>>
<1>1. l[1] = id /\ l[2] = m /\ l \in locks[u]
  OBVIOUS
<1> HIDE DEF l
<1> QED
  BY <1>1 DEF Book!CanLock

-----------------------------------------------------------------------------
(* The address book of a user (Addresses) *)

Stages == {"idle", "begun", "clear", "cleared", "write", "promote", "promoted",
           "commit", "done", "refused", "illegal", "aborted"}

RowsTyped ==
    /\ row \in [Book!Ids -> {"none", "plain", "default"}]
    /\ draft \in [Txs -> [Book!Ids -> Book!Written]]
    /\ place \in [Txs -> Stages]
    /\ op \in [Txs -> [does : Operations \cup {"none"}, id : Book!Ids]]
    /\ count \in [Txs -> Nat]
    /\ found \in [Txs -> SUBSET Book!Ids]
    /\ locks \in [Txs -> SUBSET (Book!Ids \X {"update"})]

Writing == {"write", "promote", "promoted", "commit"}

\* What a transaction has written is a new row, or one that it has locked; no
\* other has written it.
WritesAreOwn ==
    \A t \in Txs, i \in Book!Ids :
        draft[t][i] # "kept" =>
            /\ place[t] \in Writing
            /\ row[i] = "none" \/ <<i, "update">> \in locks[t]
            /\ \A u \in Txs : draft[u][i] # "kept" => u = t

\* The address that a request has found stays.
TargetStays ==
    \A t \in Txs :
        /\ op[t].does \in {"unset", "setDefault"}
        /\ place[t] \in {"clear", "cleared", "write"}
        => row[op[t].id] # "none" /\ <<op[t].id, "update">> \in locks[t]

\* One transaction at a time has a new default, and has replaced the old one.
NewDefault ==
    \A t \in Txs, i \in Book!Ids :
        draft[t][i] = "default" =>
            /\ place[t] = "commit"
            /\ \A u \in Txs, j \in Book!Ids :
                   draft[u][j] = "default" => u = t /\ j = i
            /\ \A j \in Book!Ids \ {i} :
                   row[j] = "default" => draft[t][j] # "kept"

OneDefault ==
    \A i, j \in Book!Ids : row[i] = "default" /\ row[j] = "default" => i = j

BookInv ==
    /\ RowsTyped /\ Book!LocksExclude /\ WritesAreOwn /\ TargetStays
    /\ NewDefault
    /\ OneDefault

LEMMA SameSize ==
    ASSUME NEW S
    PROVE  Book!Cardinality(S) = Cardinality(S)
BY DEF Cardinality, Book!Cardinality

\* What the definitions say of a transaction that has written nothing.
LEMMA KeptFacts ==
    /\ Book!Kept \in [Book!Ids -> Book!Written]
    /\ \A i \in Book!Ids : Book!Kept[i] = "kept"
BY DEF Book!Kept, Book!Written

LEMMA InitBook == Book!BookAssumption /\ Book!Init => BookInv
<1> SUFFICES ASSUME Book!BookAssumption, Book!Init
             PROVE  BookInv
  OBVIOUS
<1>1. 1 \in Book!Ids
  BY DEF Book!BookAssumption, Book!Ids
<1>2. \A t \in Txs : draft[t] = Book!Kept /\ place[t] = "idle" /\ locks[t] = {}
  BY DEF Book!Init
<1>3. \A t \in Txs, i \in Book!Ids : draft[t][i] = "kept"
  BY <1>2, KeptFacts
<1>4. RowsTyped
  BY <1>1, KeptFacts DEF Book!Init, RowsTyped, Stages
<1> QED
  BY <1>2, <1>3, <1>4
  DEF BookInv, Book!Init, WritesAreOwn, TargetStays, NewDefault, OneDefault,
      Book!LocksExclude

\* Who ends leaves no trace.
LEMMA AbortStep ==
    ASSUME BookInv, NEW t \in Txs, NEW l \in {"refused", "illegal", "aborted"},
           Book!Abort(t, l)
    PROVE  BookInv'
<1>1. /\ row' = row /\ op' = op
      /\ place' = [place EXCEPT ![t] = l]
      /\ draft' = [draft EXCEPT ![t] = Book!Kept]
      /\ locks' = [locks EXCEPT ![t] = {}]
  BY DEF Book!Abort, Book!Goto
<1>2. RowsTyped'
  BY <1>1, KeptFacts DEF Book!Abort, Book!Goto, BookInv, RowsTyped, Stages
<1>3. /\ place'[t] = l /\ \A i \in Book!Ids : draft'[t][i] = "kept"
      /\ \A u \in Txs \ {t} : /\ place'[u] = place[u] /\ draft'[u] = draft[u]
                              /\ locks'[u] = locks[u]
  BY <1>1, KeptFacts DEF BookInv, RowsTyped
<1>4. Book!LocksExclude'
  BY <1>1, ReleaseKeepsExclusion DEF BookInv, RowsTyped
<1>5. WritesAreOwn' /\ NewDefault'
  BY <1>1, <1>3 DEF BookInv, WritesAreOwn, NewDefault
<1>6. TargetStays' /\ OneDefault'
  BY <1>1, <1>3 DEF BookInv, TargetStays, OneDefault
<1> QED
  BY <1>2, <1>4, <1>5, <1>6 DEF BookInv

\* A statement that writes nothing.
LEMMA ReadStep ==
    ASSUME Book!BookAssumption, BookInv, NEW t \in Txs,
           \/ Book!Begin(t) \/ Book!CountAddresses(t) \/ Book!ClearSelect(t)
           \/ Book!PromoteSelect(t)
    PROVE  BookInv'
<1> DEFINE l == place'[t]
<1>1. /\ row' = row /\ draft' = draft /\ locks' = locks
      /\ \A u \in Txs \ {t} : place'[u] = place[u] /\ op'[u] = op[u]
  BY DEF Book!Begin, Book!CountAddresses, Book!ClearSelect, Book!PromoteSelect,
         Book!Goto, BookInv, RowsTyped
<1>2. RowsTyped'
  <2>1. place' \in [Txs -> Stages]
    BY DEF Book!Begin, Book!CountAddresses, Book!ClearSelect,
           Book!PromoteSelect, Book!Goto, BookInv, RowsTyped, Stages
  <2>2. op' \in [Txs -> [does : Operations \cup {"none"}, id : Book!Ids]]
    <3>1. 1 \in Book!Ids
      BY DEF Book!BookAssumption, Book!Ids
    <3>2. ASSUME NEW o \in Operations, NEW i \in Book!Ids,
                 op' = [op EXCEPT ![t] = [does |-> o, id |-> i]]
          PROVE  op' \in [Txs -> [does : Operations \cup {"none"},
                                  id : Book!Ids]]
      BY <3>2 DEF BookInv, RowsTyped
    <3> QED
      BY <3>1, <3>2
      DEF Book!Begin, Book!CountAddresses, Book!ClearSelect,
          Book!PromoteSelect, BookInv, RowsTyped
  <2>3. count' \in [Txs -> Nat]
    <3>1. Cardinality(Book!Book(t)) \in Nat
      <4>1. IsFiniteSet(Book!Ids)
        BY FS_Interval DEF Book!Ids, Book!BookAssumption
      <4> QED
        BY <4>1, FS_Subset, FS_CardinalityType DEF Book!Book
    <3> QED
      BY <3>1, SameSize
      DEF Book!Begin, Book!CountAddresses, Book!ClearSelect,
          Book!PromoteSelect, BookInv, RowsTyped
  <2>4. found' \in [Txs -> SUBSET Book!Ids]
    <3>1. \A S \in Book!MostRecent(Book!Book(t)) : S \in SUBSET Book!Ids
      BY DEF Book!MostRecent, Book!Book
    <3>2. Book!Defaults(t) \in SUBSET Book!Ids
      BY DEF Book!Defaults
    <3>3. found' = found \/ \E S \in SUBSET Book!Ids :
                                found' = [found EXCEPT ![t] = S]
      BY <3>1, <3>2
      DEF Book!Begin, Book!CountAddresses, Book!ClearSelect, Book!PromoteSelect
    <3> QED
      BY <3>3 DEF BookInv, RowsTyped
  <2> QED
    BY <1>1, <2>1, <2>2, <2>3, <2>4 DEF BookInv, RowsTyped
<1>3. \/ place[t] \in {"idle", "begun"} /\ place'[t] \in {"begun", "refused"}
      \/ /\ Book!Creates(t) /\ place[t] = "begun" /\ op' = op
         /\ place'[t] \in {"clear", "write"}
      \/ place[t] = "clear" /\ place'[t] = "cleared" /\ op' = op
      \/ place[t] = "promote" /\ place'[t] = "promoted" /\ op' = op
  BY DEF Book!Begin, Book!CountAddresses, Book!ClearSelect, Book!PromoteSelect,
         Book!Goto, BookInv, RowsTyped
<1>4. WritesAreOwn'
  BY <1>1, <1>3 DEF BookInv, WritesAreOwn, Writing
<1>5. NewDefault'
  BY <1>1, <1>3 DEF BookInv, NewDefault
<1>6. TargetStays'
  BY <1>1, <1>3 DEF BookInv, TargetStays, Book!Creates
<1> QED
  BY <1>1, <1>2, <1>4, <1>5, <1>6 DEF BookInv, OneDefault, Book!LocksExclude

LEMMA SelectStep ==
    ASSUME BookInv, NEW t \in Txs, Book!SelectOwned(t)
    PROVE  BookInv'
<1> DEFINE i == op[t].id
<1>1. /\ row' = row /\ draft' = draft /\ op' = op /\ i \in Book!Ids
      /\ UNCHANGED <<count, found>> /\ place[t] = "begun"
      /\ \A u \in Txs \ {t} : place'[u] = place[u] /\ locks'[u] = locks[u]
      /\ place' \in [Txs -> Stages]
  BY DEF Book!SelectOwned, Book!LockRow, Book!Lock, Book!Goto, BookInv,
         RowsTyped, Stages
<1>2. CASE row[i] = "none"
  <2>1. place'[t] = "refused" /\ locks' = locks
    BY <1>2 DEF Book!SelectOwned, Book!Goto, BookInv, RowsTyped
  <2> QED
    <3>1. RowsTyped' /\ Book!LocksExclude'
      BY <1>1, <2>1 DEF BookInv, RowsTyped, Book!LocksExclude
    <3>2. WritesAreOwn' /\ TargetStays'
      BY <1>1, <2>1 DEF BookInv, WritesAreOwn, TargetStays, Writing
    <3>3. NewDefault' /\ OneDefault'
      BY <1>1, <2>1 DEF BookInv, NewDefault, OneDefault
    <3> QED
      BY <3>1, <3>2, <3>3 DEF BookInv
<1>3. CASE row[i] # "none"
  <2>1. Book!Lock(t, i, "update") /\ place'[t] \in {"write", "clear"}
    BY <1>3 DEF Book!SelectOwned, Book!LockRow, Book!Goto, BookInv, RowsTyped
  <2>2. Book!LocksExclude'
    BY <2>1, LockKeepsExclusion DEF BookInv, RowsTyped
  <2>3. locks'[t] = locks[t] \cup {<<i, "update">>}
        /\ locks' \in [Txs -> SUBSET (Book!Ids \X {"update"})]
    BY <1>1, <2>1 DEF Book!Lock, BookInv, RowsTyped
  <2>4. RowsTyped' /\ OneDefault'
    BY <1>1, <2>3 DEF BookInv, RowsTyped, OneDefault
  <2>5. WritesAreOwn' /\ NewDefault'
    BY <1>1, <2>1, <2>3 DEF BookInv, WritesAreOwn, NewDefault, Writing
  <2>6. TargetStays'
    BY <1>1, <1>3, <2>3 DEF BookInv, TargetStays
  <2> QED
    BY <2>2, <2>4, <2>5, <2>6 DEF BookInv
<1> QED
  BY <1>2, <1>3

\* A row that is locked, or new, is written by nobody else.
LEMMA LockedIsOwn ==
    ASSUME BookInv, NEW t \in Txs, NEW i \in Book!Ids, row[i] # "none",
           Book!CanLock(t, i, "update")
    PROVE  \A u \in Txs : draft[u][i] # "kept" => u = t
<1> SUFFICES ASSUME NEW u \in Txs, draft[u][i] # "kept"
             PROVE  u = t
  OBVIOUS
<1>1. <<i, "update">> \in locks[u]
  BY DEF BookInv, WritesAreOwn
<1> QED
  BY <1>1, HeldIsNotLockable, ConflictFacts

LEMMA ClearStep ==
    ASSUME BookInv, NEW t \in Txs, Book!ClearDefault(t)
    PROVE  BookInv'
<1> DEFINE new == {i \in found[t] : row[i] = "default"}
           held == found[t] \X {"update"}
<1>1. /\ row' = row /\ op' = op /\ count' = count
      /\ place[t] = "cleared" /\ place'[t] = "write"
      /\ \A u \in Txs \ {t} : /\ place'[u] = place[u] /\ draft'[u] = draft[u]
                              /\ locks'[u] = locks[u]
      /\ locks'[t] = locks[t] \cup held
      /\ place' \in [Txs -> Stages] /\ found' \in [Txs -> SUBSET Book!Ids]
  BY DEF Book!ClearDefault, Book!Goto, BookInv, RowsTyped, Stages
<1>2. found[t] \subseteq Book!Ids
  BY DEF BookInv, RowsTyped
<1>3. \A i \in Book!Ids : draft[t][i] = "kept"
  BY <1>1 DEF BookInv, WritesAreOwn, Writing
<1>4. \A i \in Book!Ids : draft'[t][i] = IF i \in new THEN "plain" ELSE "kept"
  BY <1>3 DEF Book!ClearDefault, Book!Sees, BookInv, RowsTyped
<1>5. RowsTyped'
  <2>1. draft' \in [Txs -> [Book!Ids -> Book!Written]]
    <3> DEFINE d == [i \in Book!Ids |->
                         IF i \in found[t] /\ Book!Sees(t, i) = "default"
                         THEN "plain" ELSE draft[t][i]]
    <3>1. d \in [Book!Ids -> Book!Written]
      BY <1>3 DEF Book!Written
    <3>2. draft' = [draft EXCEPT ![t] = d]
      BY DEF Book!ClearDefault, BookInv, RowsTyped
    <3> HIDE DEF d
    <3> QED
      BY <3>1, <3>2 DEF BookInv, RowsTyped
  <2>2. locks' \in [Txs -> SUBSET (Book!Ids \X {"update"})]
    BY <1>1, <1>2 DEF Book!ClearDefault, BookInv, RowsTyped
  <2> QED
    BY <1>1, <2>1, <2>2 DEF BookInv, RowsTyped
<1>6. Book!LocksExclude'
  <2> SUFFICES ASSUME NEW u \in Txs, NEW v \in Txs, u # v,
                      NEW k \in locks'[u], NEW m \in locks'[v], k[1] = m[1]
               PROVE  ~Book!Conflict(k[2], m[2])
    BY DEF Book!LocksExclude
  <2>1. \A w \in Txs \ {t} : \A n \in locks[w] :
            n[1] \in found[t] => ~Book!Conflict(n[2], "update")
    BY DEF Book!ClearDefault, Book!CanLock
  <2>2. \A n \in held : n[1] \in found[t] /\ n[2] = "update"
    OBVIOUS
  <2> HIDE DEF held
  <2>3. CASE k \in locks[u] /\ m \in locks[v]
    BY <2>3 DEF BookInv, Book!LocksExclude
  <2>4. CASE u = t /\ k \in held
    <3>1. m \in locks[v] /\ m[1] \in found[t] /\ k[2] = "update"
      BY <1>1, <2>2, <2>4
    <3> QED
      BY <2>1, <2>4, <3>1, ConflictFacts
  <2>5. CASE v = t /\ m \in held
    <3>1. k \in locks[u] /\ k[1] \in found[t] /\ m[2] = "update"
      BY <1>1, <2>2, <2>5
    <3>2. u \in Txs \ {t}
      BY <2>5
    <3>3. ~Book!Conflict(k[2], "update")
      BY <2>1, <3>1, <3>2
    <3> QED
      BY <3>1, <3>3
  <2>6. /\ k \in locks[u] \/ (u = t /\ k \in held)
        /\ m \in locks[v] \/ (v = t /\ m \in held)
    BY <1>1
  <2> QED
    BY <2>3, <2>4, <2>5, <2>6
<1>7. WritesAreOwn'
  <2>1. ASSUME NEW i \in new
        PROVE  /\ <<i, "update">> \in locks'[t]
               /\ \A u \in Txs : draft[u][i] # "kept" => u = t
    <3>1. i \in Book!Ids /\ row[i] # "none" /\ Book!CanLock(t, i, "update")
      BY <1>2 DEF Book!ClearDefault
    <3> QED
      BY <1>1, <3>1, LockedIsOwn
  <2>2. ASSUME NEW u \in Txs, NEW i \in Book!Ids, draft'[u][i] # "kept"
        PROVE  /\ place'[u] \in Writing
               /\ row[i] = "none" \/ <<i, "update">> \in locks'[u]
               /\ \A v \in Txs : draft'[v][i] # "kept" => v = u
    <3>1. CASE u = t
      BY <1>1, <1>4, <2>1, <2>2, <3>1 DEF Writing
    <3>2. CASE u # t
      <4>1. /\ draft[u][i] # "kept" /\ place'[u] = place[u]
            /\ locks'[u] = locks[u]
        BY <1>1, <2>2, <3>2
      <4>2. i \notin new
        BY <2>1, <3>2, <4>1
      <4> QED
        BY <1>1, <1>4, <3>2, <4>1, <4>2 DEF BookInv, WritesAreOwn
    <3> QED
      BY <3>1, <3>2
  <2> QED
    BY <1>1, <2>2 DEF WritesAreOwn
<1>8. NewDefault'
  <2>1. \A i \in Book!Ids : draft'[t][i] # "default"
    BY <1>4
  <2> QED
    BY <1>1, <1>3, <2>1 DEF BookInv, NewDefault
<1>9. TargetStays' /\ OneDefault'
  BY <1>1 DEF BookInv, TargetStays, OneDefault
<1> QED
  BY <1>5, <1>6, <1>7, <1>8, <1>9 DEF BookInv

\* A statement that writes one row, which is new or locked by now.
LEMMA WriteStep ==
    ASSUME BookInv, NEW t \in Txs, NEW i \in Book!Ids,
           NEW v \in {"none", "plain", "default"},
           NEW l \in {"promote", "commit"},
           place[t] # "commit", Book!Write(t, i, v), Book!Goto(t, l),
           UNCHANGED <<row, op, count, found>>,
           locks' = locks \/ Book!LockRow(t, i),
           row[i] = "none" \/ <<i, "update">> \in locks'[t],
           \A u \in Txs : draft[u][i] # "kept" => u = t,
           v = "default" =>
               /\ l = "commit"
               /\ ~Book!IndexWaits(t, i) /\ ~Book!IndexRefuses(t, i)
    PROVE  BookInv'
<1>1. /\ row' = row /\ op' = op
      /\ place'[t] = l /\ \A u \in Txs \ {t} : place'[u] = place[u]
      /\ draft'[t][i] = v
      /\ \A j \in Book!Ids \ {i} : draft'[t][j] = draft[t][j]
      /\ \A u \in Txs \ {t} : draft'[u] = draft[u]
      /\ \A u \in Txs \ {t} : locks'[u] = locks[u]
      /\ locks[t] \subseteq locks'[t]
  BY DEF Book!Write, Book!Goto, Book!LockRow, Book!Lock, BookInv, RowsTyped
<1>2. RowsTyped'
  <2>1. draft' \in [Txs -> [Book!Ids -> Book!Written]]
    BY DEF Book!Write, Book!Written, BookInv, RowsTyped
  <2>2. locks' \in [Txs -> SUBSET (Book!Ids \X {"update"})]
    <3>1. <<i, "update">> \in Book!Ids \X {"update"}
      OBVIOUS
    <3>2. CASE locks' = locks
      BY <3>2 DEF BookInv, RowsTyped
    <3>3. CASE locks' = [locks EXCEPT ![t] = @ \cup {<<i, "update">>}]
      BY <3>1, <3>3 DEF BookInv, RowsTyped
    <3> QED
      BY <3>2, <3>3 DEF Book!LockRow, Book!Lock
  <2>3. place' \in [Txs -> Stages]
    BY DEF Book!Goto, Stages, BookInv, RowsTyped
  <2> QED
    BY <2>1, <2>2, <2>3 DEF BookInv, RowsTyped
<1>3. Book!LocksExclude'
  <2>1. CASE locks' = locks
    BY <2>1 DEF BookInv, Book!LocksExclude
  <2>2. CASE Book!LockRow(t, i)
    BY <2>2, LockKeepsExclusion DEF Book!LockRow, BookInv, RowsTyped
  <2> QED
    BY <2>1, <2>2
<1>4. WritesAreOwn'
  <2>1. l \in Writing
    BY DEF Writing
  <2> SUFFICES ASSUME NEW u \in Txs, NEW k \in Book!Ids, draft'[u][k] # "kept"
               PROVE  /\ place'[u] \in Writing
                      /\ row[k] = "none" \/ <<k, "update">> \in locks'[u]
                      /\ \A w \in Txs : draft'[w][k] # "kept" => w = u
    BY <1>1 DEF WritesAreOwn
  <2>2. CASE k = i
    <3>1. u = t
      BY <1>1, <2>2
    <3> QED
      BY <1>1, <2>1, <2>2, <3>1
  <2>3. CASE k # i
    <3>1. \A w \in Txs : draft'[w][k] = draft[w][k]
      BY <1>1, <2>3
    <3> QED
      BY <1>1, <2>1, <3>1 DEF BookInv, WritesAreOwn
  <2> QED
    BY <2>2, <2>3
<1>5. TargetStays'
  BY <1>1 DEF BookInv, TargetStays
<1>6. OneDefault'
  BY <1>1 DEF BookInv, OneDefault
<1>7. NewDefault'
  <2>1. \A j \in Book!Ids : draft[t][j] # "default"
    BY DEF BookInv, NewDefault
  <2>2. CASE v = "default"
    <3>1. \A u \in Txs \ {t}, j \in Book!Ids : draft[u][j] # "default"
      BY <2>2 DEF Book!IndexWaits
    <3>2. \A u \in Txs, j \in Book!Ids :
              draft'[u][j] = "default" => u = t /\ j = i
      BY <1>1, <2>1, <3>1
    <3>3. \A j \in Book!Ids \ {i} : row[j] = "default" => draft[t][j] # "kept"
      BY <2>2 DEF Book!IndexRefuses
    <3> QED
      BY <1>1, <2>2, <3>2, <3>3 DEF NewDefault
  <2>3. CASE v # "default"
    <3>1. \A j \in Book!Ids : draft'[t][j] # "default"
      BY <1>1, <2>1, <2>3
    <3> QED
      BY <1>1, <3>1 DEF BookInv, NewDefault
  <2> QED
    BY <2>2, <2>3
<1> QED
  BY <1>2, <1>3, <1>4, <1>5, <1>6, <1>7 DEF BookInv

\* A new default, in a row that this transaction alone writes.
LEMMA WriteDefaultStep ==
    ASSUME BookInv, NEW t \in Txs, NEW i \in Book!Ids, place[t] # "commit",
           \A u \in Txs : draft[u][i] # "kept" => u = t,
           Book!WriteDefault(t, i)
    PROVE  BookInv'
<1>1. CASE Book!IndexRefuses(t, i)
  BY <1>1, AbortStep DEF Book!WriteDefault
<1>2. CASE ~Book!IndexRefuses(t, i)
  <2>1. /\ ~Book!IndexWaits(t, i) /\ Book!Write(t, i, "default")
        /\ Book!Goto(t, "commit")
        /\ Book!LockRow(t, i) /\ UNCHANGED <<row, op, count, found>>
    BY <1>2 DEF Book!WriteDefault
  <2>2. <<i, "update">> \in locks'[t]
    BY <2>1 DEF Book!LockRow, Book!Lock, BookInv, RowsTyped
  <2> QED
    BY <1>2, <2>1, <2>2, WriteStep
<1> QED
  BY <1>1, <1>2

LEMMA InsertStep ==
    ASSUME BookInv, NEW t \in Txs, Book!Insert(t)
    PROVE  BookInv'
<1> DEFINE i == CHOOSE j \in Book!Ids \ Book!Used : TRUE
<1>1. i \in Book!Ids /\ i \notin Book!Used
  BY DEF Book!Insert, Book!Used
<1> HIDE DEF i
<1>2. row[i] = "none" /\ \A u \in Txs : draft[u][i] = "kept"
  BY <1>1 DEF Book!Used
<1>3. CASE Book!ShouldBeDefault(t, count[t])
  BY <1>1, <1>2, <1>3, WriteDefaultStep DEF Book!Insert, i
<1>4. CASE ~Book!ShouldBeDefault(t, count[t])
  <2>1. /\ place[t] = "write" /\ Book!Write(t, i, "plain")
        /\ Book!Goto(t, "commit")
        /\ UNCHANGED <<row, op, count, found, locks>>
    BY <1>4 DEF Book!Insert, i
  <2> QED
    BY <1>1, <1>2, <2>1, WriteStep
<1> QED
  BY <1>3, <1>4

\* An UPDATE of the row its transaction has locked.
LEMMA UpdateStep ==
    ASSUME BookInv, NEW t \in Txs, Book!UpdateRow(t)
    PROVE  BookInv'
<1> DEFINE i == op[t].id
<1>1. i \in Book!Ids /\ place[t] = "write"
  BY DEF Book!UpdateRow, BookInv, RowsTyped
<1>2. op[t].does \in {"unset", "setDefault"}
  BY DEF Book!UpdateRow
<1>3. row[i] # "none" /\ <<i, "update">> \in locks[t]
  BY <1>1, <1>2 DEF BookInv, TargetStays
<1>4. \A u \in Txs : draft[u][i] # "kept" => u = t
  <2> SUFFICES ASSUME NEW u \in Txs, draft[u][i] # "kept", u # t
               PROVE  FALSE
    OBVIOUS
  <2>1. <<i, "update">> \in locks[u]
    BY <1>1, <1>3 DEF BookInv, WritesAreOwn
  <2> QED
    BY <1>3, <2>1, HoldersExclude, ConflictFacts DEF BookInv
<1>5. CASE Book!WriteDefault(t, i)
  BY <1>1, <1>4, <1>5, WriteDefaultStep
<1>6. CASE /\ Book!Write(t, i, "plain") /\ Book!Goto(t, "commit")
           /\ UNCHANGED <<row, op, count, found, locks>>
  <2>1. <<i, "update">> \in locks'[t]
    BY <1>3, <1>6
  <2> QED
    BY <1>1, <1>4, <1>6, <2>1, WriteStep
<1> QED
  BY <1>5, <1>6 DEF Book!UpdateRow

LEMMA DeleteStep ==
    ASSUME BookInv, NEW t \in Txs, Book!DeleteRow(t)
    PROVE  BookInv'
<1> DEFINE i == op[t].id
<1>1. i \in Book!Ids /\ place[t] = "begun" /\ Book!CanLock(t, i, "update")
  BY DEF Book!DeleteRow, BookInv, RowsTyped
<1>2. CASE row[i] = "none"
  BY <1>2, AbortStep DEF Book!DeleteRow
<1>3. CASE row[i] # "none"
  <2>1. PICK l \in {"promote", "commit"} : Book!Goto(t, l)
    BY <1>3 DEF Book!DeleteRow
  <2>2. /\ Book!Write(t, i, "none") /\ Book!LockRow(t, i)
        /\ UNCHANGED <<row, op, count, found>>
    BY <1>3 DEF Book!DeleteRow
  <2>3. <<i, "update">> \in locks'[t]
    BY <2>2 DEF Book!LockRow, Book!Lock, BookInv, RowsTyped
  <2> QED
    BY <1>1, <1>3, <2>1, <2>2, <2>3, LockedIsOwn, WriteStep
<1> QED
  BY <1>2, <1>3

LEMMA PromoteStep ==
    ASSUME BookInv, NEW t \in Txs, Book!Promote(t)
    PROVE  BookInv'
<1>1. place[t] = "promoted"
  BY DEF Book!Promote
<1>2. CASE \E i \in found[t] :
               /\ Book!Sees(t, i) # "none" /\ Book!CanLock(t, i, "update")
               /\ Book!WriteDefault(t, i)
  <2>1. PICK i \in found[t] : /\ Book!Sees(t, i) # "none"
                              /\ Book!CanLock(t, i, "update")
                              /\ Book!WriteDefault(t, i)
    BY <1>2
  <2>2. i \in Book!Ids
    BY DEF BookInv, RowsTyped
  <2>3. \A u \in Txs : draft[u][i] # "kept" => u = t
    <3>1. CASE row[i] # "none"
      BY <2>1, <2>2, <3>1, LockedIsOwn
    <3>2. CASE row[i] = "none"
      BY <2>1, <2>2, <3>2 DEF Book!Sees, BookInv, WritesAreOwn
    <3> QED
      BY <3>1, <3>2
  <2> QED
    BY <1>1, <2>1, <2>2, <2>3, WriteDefaultStep
<1>3. CASE /\ found' = [found EXCEPT ![t] = {}]
           /\ Book!Goto(t, "commit")
           /\ UNCHANGED <<row, draft, op, count, locks>>
  <2>1. /\ row' = row /\ draft' = draft /\ op' = op /\ locks' = locks
        /\ place'[t] = "commit" /\ \A u \in Txs \ {t} : place'[u] = place[u]
    BY <1>3 DEF Book!Goto, BookInv, RowsTyped
  <2>2. RowsTyped'
    BY <1>3 DEF Book!Goto, Stages, BookInv, RowsTyped
  <2>3. WritesAreOwn' /\ NewDefault'
    BY <1>1, <2>1 DEF BookInv, WritesAreOwn, NewDefault, Writing
  <2>4. TargetStays' /\ OneDefault' /\ Book!LocksExclude'
    BY <2>1 DEF BookInv, TargetStays, OneDefault, Book!LocksExclude
  <2> QED
    BY <2>2, <2>3, <2>4 DEF BookInv
<1> QED
  BY <1>2, <1>3 DEF Book!Promote

LEMMA CommittedStep ==
    ASSUME BookInv, NEW t \in Txs, Book!Commit(t)
    PROVE  BookInv'
<1>1. /\ op' = op /\ place'[t] = "done" /\ locks' = [locks EXCEPT ![t] = {}]
      /\ \A i \in Book!Ids : draft'[t][i] = "kept"
      /\ \A i \in Book!Ids : row'[i] = Book!Sees(t, i)
      /\ \A u \in Txs \ {t} : /\ place'[u] = place[u] /\ draft'[u] = draft[u]
                              /\ locks'[u] = locks[u]
  BY KeptFacts DEF Book!Commit, Book!Goto, BookInv, RowsTyped
<1>2. RowsTyped'
  <2>1. row' \in [Book!Ids -> {"none", "plain", "default"}]
    BY DEF Book!Commit, Book!Sees, Book!Written, BookInv, RowsTyped
  <2>2. draft' \in [Txs -> [Book!Ids -> Book!Written]]
    BY KeptFacts DEF Book!Commit, BookInv, RowsTyped
  <2> QED
    BY <1>1, <2>1, <2>2 DEF Book!Commit, Book!Goto, Stages, BookInv, RowsTyped
<1>3. Book!LocksExclude'
  BY <1>1, ReleaseKeepsExclusion DEF BookInv, RowsTyped
<1>4. WritesAreOwn'
  <2> SUFFICES ASSUME NEW u \in Txs \ {t}, NEW i \in Book!Ids,
                      draft[u][i] # "kept"
               PROVE  row'[i] = row[i]
    BY <1>1 DEF BookInv, WritesAreOwn
  <2>1. draft[t][i] = "kept"
    BY DEF BookInv, WritesAreOwn
  <2> QED
    BY <1>1, <2>1 DEF Book!Sees
<1>5. TargetStays'
  <2> SUFFICES ASSUME NEW u \in Txs \ {t}, NEW i \in Book!Ids, row[i] # "none",
                      <<i, "update">> \in locks[u]
               PROVE  row'[i] # "none"
    <3>1. \A u \in Txs : op[u].id \in Book!Ids
      BY DEF BookInv, RowsTyped
    <3> QED
      BY <1>1, <3>1 DEF BookInv, TargetStays
  <2>1. draft[t][i] = "kept"
    <3>1. draft[t][i] # "kept" => <<i, "update">> \in locks[t]
      BY DEF BookInv, WritesAreOwn
    <3> QED
      BY <3>1, HoldersExclude, ConflictFacts DEF BookInv
  <2> QED
    BY <1>1, <2>1 DEF Book!Sees
<1>6. NewDefault'
  <2>1. ASSUME NEW u \in Txs \ {t}, NEW i \in Book!Ids,
               draft[u][i] = "default",
               NEW j \in Book!Ids \ {i}, row'[j] = "default"
        PROVE  draft[u][j] # "kept"
    <3>1. CASE draft[t][j] = "kept"
      BY <1>1, <2>1, <3>1 DEF Book!Sees, BookInv, NewDefault
    <3>2. CASE draft[t][j] # "kept"
      BY <1>1, <2>1, <3>2 DEF Book!Sees, BookInv, NewDefault
    <3> QED
      BY <3>1, <3>2
  <2>2. \A u \in Txs, i \in Book!Ids :
            draft'[u][i] = "default" => u # t /\ draft[u][i] = "default"
    BY <1>1
  <2> QED
    BY <1>1, <2>1, <2>2 DEF BookInv, NewDefault
<1>7. OneDefault'
  <2> SUFFICES ASSUME NEW i \in Book!Ids, NEW j \in Book!Ids,
                      Book!Sees(t, i) = "default",
                      Book!Sees(t, j) = "default"
               PROVE  i = j
    BY <1>1 DEF OneDefault
  <2> QED
    BY DEF Book!Sees, BookInv, NewDefault, OneDefault
<1> QED
  BY <1>2, <1>3, <1>4, <1>5, <1>6, <1>7 DEF BookInv

LEMMA BookStep ==
    ASSUME Book!BookAssumption, BookInv, [Book!Next]_(Book!vars)
    PROVE  BookInv'
<1>1. ASSUME NEW t \in Txs, Book!Begin(t) \/ Book!Step(t) \/ Book!WaitFails(t)
      PROVE  BookInv'
  <2>1. CASE \/ Book!Begin(t) \/ Book!CountAddresses(t) \/ Book!ClearSelect(t)
             \/ Book!PromoteSelect(t)
    BY <2>1, ReadStep
  <2>2. CASE Book!SelectOwned(t)
    BY <2>2, SelectStep
  <2>3. CASE Book!ClearDefault(t)
    BY <2>3, ClearStep
  <2>4. CASE Book!Insert(t)
    BY <2>4, InsertStep
  <2>5. CASE Book!UpdateRow(t)
    BY <2>5, UpdateStep
  <2>6. CASE Book!DeleteRow(t)
    BY <2>6, DeleteStep
  <2>7. CASE Book!Promote(t)
    BY <2>7, PromoteStep
  <2>8. CASE Book!Commit(t)
    BY <2>8, CommittedStep
  <2>9. CASE Book!WaitFails(t)
    BY <2>9, AbortStep DEF Book!WaitFails
  <2> QED
    BY <1>1, <2>1, <2>2, <2>3, <2>4, <2>5, <2>6, <2>7, <2>8, <2>9 DEF Book!Step
<1>2. CASE UNCHANGED Book!vars
  BY <1>2
  DEF Book!vars, BookInv, RowsTyped, Book!LocksExclude, WritesAreOwn,
      TargetStays, NewDefault, OneDefault
<1> QED
  BY <1>1, <1>2 DEF Book!Next

LEMMA BookIsKept == ASSUME Book!BookAssumption PROVE Book!Spec => []BookInv
<1>1. Book!Init => BookInv
  BY InitBook
<1>2. BookInv /\ [Book!Next]_(Book!vars) => BookInv'
  BY BookStep
<1> QED
  BY <1>1, <1>2, PTL DEF Book!Spec

\* At most one default is committed, whatever the requests do at once.
THEOREM OneDefaultOnly ==
    ASSUME Book!BookAssumption PROVE Book!Spec => []Book!TypeOK
<1>1. BookInv => Book!TypeOK
  <2> SUFFICES ASSUME BookInv
               PROVE  Book!TypeOK
    OBVIOUS
  <2> DEFINE D == {i \in Book!Ids : row[i] = "default"}
  <2>1. Cardinality(D) <= 1
    <3>1. CASE D = {}
      BY <3>1, FS_EmptySet
    <3>2. CASE D # {}
      <4>1. PICK i : i \in D
        BY <3>2
      <4>2. D = {i}
        BY <4>1 DEF BookInv, OneDefault
      <4> QED
        BY <4>2, FS_Singleton
    <3> QED
      BY <3>1, <3>2
  <2> QED
    BY <2>1, SameSize DEF BookInv, RowsTyped, Book!TypeOK, Stages
<1> QED
  BY <1>1, BookIsKept, PTL
-----------------------------------------------------------------------------
(* Addresses are added, and made the default, concurrently *)

\* Who adds an address that shall not be the default has seen another one; who
\* commits has a new default, or leaves the old one alone.
Adding ==
    /\ \A t \in Txs : place[t] \notin {"promote", "promoted"}
    /\ \A t \in Txs, i \in Book!Ids : draft[t][i] # "none"
    /\ \A t \in Txs :
           place[t] \in {"clear", "cleared"} /\ Book!Creates(t) =>
                  Book!ShouldBeDefault(t, count[t])
    /\ \A t \in Txs :
           /\ place[t] = "write" /\ Book!Creates(t)
           /\ ~Book!ShouldBeDefault(t, count[t])
           =>
                  Book!Saved # {} /\ \A i \in Book!Ids : draft[t][i] = "kept"
    /\ \A t \in Txs :
           place[t] = "commit" =>
                  \/ \E i \in Book!Ids : draft[t][i] = "default"
                  \/ /\ Book!Saved # {}
                     /\ \A i \in Book!Ids :
                            draft[t][i] # "kept" => row[i] = "none"

LEMMA Finite ==
    ASSUME Book!BookAssumption, NEW S \in SUBSET Book!Ids
    PROVE  IsFiniteSet(S) /\ Cardinality(S) \in Nat
<1>1. IsFiniteSet(Book!Ids)
  BY FS_Interval DEF Book!Ids, Book!BookAssumption
<1>2. IsFiniteSet(S)
  BY <1>1, FS_Subset
<1> QED
  BY <1>2, FS_CardinalityType

\* An address that is counted is there.
LEMMA BookAlone ==
    ASSUME Book!BookAssumption, BookInv, NEW t \in Txs, place[t] \notin Writing
    PROVE  /\ \A i \in Book!Ids :
                  draft[t][i] = "kept" /\ Book!Sees(t, i) = row[i]
           /\ Book!Book(t) = Book!Saved
           /\ Cardinality(Book!Saved) \in Nat
           /\ Cardinality(Book!Saved) = 0 <=> Book!Saved = {}
<1>1. \A i \in Book!Ids : draft[t][i] = "kept" /\ Book!Sees(t, i) = row[i]
  BY DEF BookInv, WritesAreOwn, Book!Sees
<1>2. Book!Book(t) = Book!Saved
  BY <1>1 DEF Book!Book, Book!Saved
<1>3. IsFiniteSet(Book!Saved)
  BY Finite DEF Book!Saved
<1>4. /\ Cardinality(Book!Saved) \in Nat
      /\ Cardinality(Book!Saved) = 0 <=> Book!Saved = {}
  BY <1>3, FS_CardinalityType, FS_EmptySet
<1> QED
  BY <1>1, <1>2, <1>4

LEMMA AddingStep ==
    ASSUME Book!BookAssumption, Book!OnlyAdds, BookInv, BookInv', Adding,
           Book!HasDefault,
           NEW t \in Txs, Book!Begin(t) \/ Book!Step(t) \/ Book!WaitFails(t)
    PROVE  Adding' /\ Book!HasDefault'
<1> DEFINE Ready(u) ==
             /\ place[u] \notin {"promote", "promoted"}
             /\ \A i \in Book!Ids : draft[u][i] # "none"
             /\ place[u] \in {"clear", "cleared"} /\ Book!Creates(u) =>
                       Book!ShouldBeDefault(u, count[u])
             /\ place[u] = "write" /\ Book!Creates(u)
                       /\ ~Book!ShouldBeDefault(u, count[u]) =>
                           /\ Book!Saved # {}
                           /\ \A i \in Book!Ids : draft[u][i] = "kept"
             /\ place[u] = "commit" =>
                       \/ \E i \in Book!Ids : draft[u][i] = "default"
                       \/ /\ Book!Saved # {}
                          /\ \A i \in Book!Ids :
                                 draft[u][i] # "kept" => row[i] = "none"
<1>0. Ready(t) /\ op[t].id \in Book!Ids
  BY DEF Adding, BookInv, RowsTyped
<1>1. op[t].does \in {"none", "create", "createDefault", "setDefault"}
  BY DEF Book!BookAssumption, Book!OnlyAdds, BookInv, RowsTyped
<1>2. \A u \in Txs \ {t} :
          /\ place'[u] = place[u] /\ draft'[u] = draft[u]
          /\ count'[u] = count[u]
          /\ op'[u] = op[u]
  BY DEF Book!Step, Book!Begin, Book!CountAddresses, Book!SelectOwned,
         Book!ClearSelect, Book!ClearDefault, Book!Insert, Book!UpdateRow,
         Book!DeleteRow, Book!PromoteSelect, Book!Promote, Book!Commit,
         Book!WaitFails, Book!Abort, Book!WriteDefault, Book!Write, Book!Goto,
         BookInv, RowsTyped
<1>3. ASSUME row' = row, Ready(t)'
      PROVE  Adding' /\ Book!HasDefault'
  <2>1. ASSUME NEW u \in Txs
        PROVE  Ready(u)'
    <3>1. CASE u # t
      BY <1>2, <1>3, <3>1
      DEF Adding, Book!Creates, Book!ShouldBeDefault, Book!Saved
    <3> QED
      BY <1>3, <3>1
  <2> QED
    BY <1>3, <2>1 DEF Adding, Book!HasDefault, Book!Saved
<1>4. ASSUME NEW l \in Stages, Book!Abort(t, l),
             l \in {"refused", "illegal", "aborted"}
      PROVE  Adding' /\ Book!HasDefault'
  <2>1. /\ row' = row /\ place'[t] = l
        /\ \A i \in Book!Ids : draft'[t][i] = "kept"
    BY <1>4, KeptFacts DEF Book!Abort, Book!Goto, BookInv, RowsTyped
  <2> QED
    BY <1>3, <1>4, <2>1
<1>5. ASSUME NEW i \in Book!Ids, place[t] = "write", Book!WriteDefault(t, i)
      PROVE  Adding' /\ Book!HasDefault'
  <2>1. CASE Book!IndexRefuses(t, i)
    BY <1>4, <1>5, <2>1 DEF Book!WriteDefault, Stages
  <2>2. CASE ~Book!IndexRefuses(t, i)
    <3>1. row' = row /\ place'[t] = "commit" /\ draft'[t][i] = "default"
          /\ \A j \in Book!Ids \ {i} : draft'[t][j] = draft[t][j]
      BY <1>5, <2>2
      DEF Book!WriteDefault, Book!Write, Book!Goto, BookInv, RowsTyped
    <3> QED
      BY <1>0, <1>3, <3>1
  <2> QED
    BY <2>1, <2>2
<1>6. CASE Book!Begin(t) \/ Book!SelectOwned(t) \/ Book!ClearSelect(t)
  <2>1. /\ row' = row /\ draft' = draft /\ count' = count
        /\ place'[t] \in {"begun", "refused", "write", "clear", "cleared"}
        /\ place'[t] = "write" => op[t].does = "unset"
        /\ place'[t] \in {"write", "clear"} =>
                  op[t].does \in {"unset", "setDefault"} /\ op' = op
        /\ place'[t] = "cleared" => place[t] = "clear" /\ op' = op
    BY <1>6
    DEF Book!Begin, Book!SelectOwned, Book!ClearSelect, Book!Goto, BookInv,
        RowsTyped
  <2> QED
    BY <1>0, <1>1, <1>3, <2>1 DEF Book!Creates, Book!ShouldBeDefault
<1>7. CASE Book!CountAddresses(t)
  <2>1. /\ row' = row /\ draft' = draft /\ op' = op /\ Book!Creates(t)
        /\ place[t] = "begun" /\ count'[t] = Cardinality(Book!Book(t))
        /\ place'[t] \in {"refused", "clear", "write"}
        /\ place'[t] = "clear" <=>
               /\ ~Book!LimitReached(count'[t])
               /\ Book!ShouldBeDefault(t, count'[t])
    BY <1>7, SameSize DEF Book!CountAddresses, Book!Goto, BookInv, RowsTyped
  <2>2. /\ \A i \in Book!Ids : draft[t][i] = "kept"
        /\ Book!Book(t) = Book!Saved
        /\ Cardinality(Book!Saved) = 0 <=> Book!Saved = {}
    BY <2>1, BookAlone DEF Writing
  <2> QED
    BY <1>3, <2>1, <2>2 DEF Book!Creates, Book!ShouldBeDefault, Book!Saved
<1>8. CASE Book!ClearDefault(t)
  <2>1. /\ row' = row /\ op' = op /\ count' = count
        /\ place[t] = "cleared" /\ place'[t] = "write"
        /\ \A i \in Book!Ids : draft'[t][i] \in {draft[t][i], "plain"}
    BY <1>8 DEF Book!ClearDefault, Book!Goto, BookInv, RowsTyped
  <2> QED
    BY <1>0, <1>3, <2>1 DEF Book!Creates, Book!ShouldBeDefault
<1>9. CASE Book!Insert(t)
  <2> DEFINE i == CHOOSE j \in Book!Ids \ Book!Used : TRUE
  <2>1. i \in Book!Ids /\ i \notin Book!Used
    BY <1>9 DEF Book!Insert, Book!Used
  <2> HIDE DEF i
  <2>2. CASE Book!ShouldBeDefault(t, count[t])
    BY <1>5, <1>9, <2>1, <2>2 DEF Book!Insert, i
  <2>3. CASE ~Book!ShouldBeDefault(t, count[t])
    <3>1. /\ row' = row /\ place[t] = "write" /\ place'[t] = "commit"
          /\ draft'[t][i] = "plain"
          /\ \A j \in Book!Ids \ {i} : draft'[t][j] = draft[t][j]
      BY <1>9, <2>1, <2>3
      DEF Book!Insert, i, Book!Write, Book!Goto, BookInv, RowsTyped
    <3>2. row[i] = "none"
      BY <2>1 DEF Book!Used
    <3>3. Book!Saved # {} /\ \A j \in Book!Ids : draft[t][j] = "kept"
      BY <1>0, <1>9, <2>3, <3>1 DEF Book!Insert
    <3> QED
      BY <1>3, <3>1, <3>2, <3>3 DEF Book!Saved
  <2> QED
    BY <2>2, <2>3
<1>10. CASE Book!UpdateRow(t)
  BY <1>0, <1>1, <1>5, <1>10 DEF Book!UpdateRow
<1>11. CASE Book!DeleteRow(t) \/ Book!PromoteSelect(t) \/ Book!Promote(t)
  BY <1>0, <1>1, <1>11 DEF Book!DeleteRow, Book!PromoteSelect, Book!Promote
<1>12. CASE Book!WaitFails(t)
  BY <1>4, <1>12 DEF Book!WaitFails, Stages
<1>13. CASE Book!Commit(t)
  <2>1. /\ place[t] = "commit" /\ place'[t] = "done"
        /\ \A i \in Book!Ids :
               draft'[t][i] = "kept" /\ row'[i] = Book!Sees(t, i)
    BY <1>13, KeptFacts DEF Book!Commit, Book!Goto, BookInv, RowsTyped
  <2>2. \A i \in Book!Ids : row[i] # "none" => row'[i] # "none"
    BY <1>0, <2>1 DEF Book!Sees
  <2>3. Book!Saved # {} => Book!Saved' # {}
    BY <2>2 DEF Book!Saved
  <2>4. Ready(t)'
    BY <2>1
  <2>5. ASSUME NEW u \in Txs \ {t}
        PROVE  Ready(u)'
    <3>1. \A i \in Book!Ids : draft[u][i] # "kept" /\ row[i] = "none"
                              => row'[i] = "none"
      BY <2>1 DEF Book!Sees, BookInv, WritesAreOwn
    <3> QED
      BY <1>2, <2>3, <3>1 DEF Adding, Book!Creates, Book!ShouldBeDefault
  <2>6. Book!HasDefault'
    <3>1. CASE \E i \in Book!Ids : draft[t][i] = "default"
      BY <2>1, <3>1 DEF Book!HasDefault, Book!Saved, Book!Sees
    <3>2. CASE /\ Book!Saved # {}
               /\ \A i \in Book!Ids : draft[t][i] # "kept" => row[i] = "none"
      <4>1. PICK i \in Book!Saved : row[i] = "default"
        BY <3>2 DEF Book!HasDefault
      <4>2. row'[i] = "default" /\ i \in Book!Ids
        BY <2>1, <3>2, <4>1 DEF Book!Sees, Book!Saved
      <4> QED
        BY <4>2 DEF Book!HasDefault, Book!Saved
    <3> QED
      BY <1>0, <2>1, <3>1, <3>2
  <2> QED
    BY <2>4, <2>5, <2>6 DEF Adding
<1> QED
  BY <1>6, <1>7, <1>8, <1>9, <1>10, <1>11, <1>12, <1>13 DEF Book!Step

\* "The user always has a default to check out with", while addresses are
\* added and made the default concurrently.
THEOREM AlwaysADefault ==
    ASSUME Book!BookAssumption
    PROVE  Book!Spec /\ []Book!OnlyAdds => []Book!HasDefault
<1> DEFINE Inv == Adding /\ Book!HasDefault
<1>1. Book!Init => Inv
  <2> SUFFICES ASSUME Book!Init
               PROVE  Inv
    OBVIOUS
  <2>1. /\ \A t \in Txs : place[t] = "idle"
        /\ \A t \in Txs, i \in Book!Ids : draft[t][i] = "kept"
        /\ Book!Saved = {}
    BY KeptFacts DEF Book!Init, Book!Saved
  <2> QED
    BY <2>1 DEF Adding, Book!HasDefault
<1>2. Inv /\ Book!OnlyAdds /\ BookInv /\ BookInv' /\ [Book!Next]_(Book!vars)
          => Inv'
  <2> SUFFICES ASSUME Inv, Book!OnlyAdds, BookInv, BookInv',
                      [Book!Next]_(Book!vars)
               PROVE  Inv'
    OBVIOUS
  <2>1. CASE UNCHANGED Book!vars
    BY <2>1
    DEF Book!vars, Adding, Book!HasDefault, Book!Saved, Book!Creates,
        Book!ShouldBeDefault
  <2> QED
    BY <2>1, AddingStep DEF Book!Next
<1> QED
  BY <1>1, <1>2, BookIsKept, PTL DEF Book!Spec
-----------------------------------------------------------------------------
(* One request follows another *)

\* What it is about to write, an address like others or the default.
AddsPlain(t) ==
    /\ place[t] = "write" /\ Book!Creates(t)
    /\ ~Book!ShouldBeDefault(t, count[t])
WritesDefault(t) ==
    /\ place[t] = "write"
    /\ Book!Creates(t) => Book!ShouldBeDefault(t, count[t])

\* The one request that is open has the table for itself: what it has counted,
\* found and cleared is still so when it writes.
Turn(t) ==
    /\ place[t] \in {"clear", "cleared", "write"} /\ Book!Creates(t) =>
           /\ count[t] = Cardinality(Book!Saved)
           /\ count[t] < MAX_ADDRESSES_PER_USER
    /\ place[t] \in {"clear", "cleared"} /\ Book!Creates(t) =>
           Book!ShouldBeDefault(t, count[t])
    /\ place[t] = "cleared" =>
           found[t] = {i \in Book!Ids : row[i] = "default"}
    /\ AddsPlain(t) => \A i \in Book!Ids : draft[t][i] = "kept"
    /\ WritesDefault(t) =>
           \A i \in Book!Ids :
               draft[t][i] = IF row[i] = "default" THEN "plain" ELSE "kept"
    /\ place[t] \in {"promote", "promoted"} =>
           /\ row[op[t].id] = "default"
           /\ \A i \in Book!Ids :
                  draft[t][i] = IF i = op[t].id THEN "none" ELSE "kept"
    /\ place[t] = "promoted" =>
           \/ found[t] = {} /\ Book!Book(t) = {}
           \/ \E i \in Book!Book(t) : found[t] = {i}
    /\ place[t] = "commit" =>
           /\ Cardinality(Book!Book(t)) <= MAX_ADDRESSES_PER_USER
           /\ Book!Book(t) # {} =>
                  \E i \in Book!Ids : Book!Sees(t, i) = "default"

OneByOne ==
    /\ Book!OneAtATime
    /\ \A t \in Book!Open : Turn(t)
    /\ Book!SwapIsLegal /\ Book!HasDefault /\ Book!WithinLimit

\* A statement of the only transaction that is open, which leaves the rows.
LEMMA TurnStep ==
    ASSUME OneByOne, BookInv, NEW t \in Txs, t \in Book!Open \/ Book!Open = {},
           row' = row, \A u \in Txs \ {t} : place'[u] = place[u],
           place'[t] # "illegal", t \in Book!Open' => Turn(t)'
    PROVE  OneByOne'
<1>1. \A u \in Txs : u # t => u \notin Book!Open
  BY DEF OneByOne, Book!OneAtATime
<1>2. \A u \in Txs : u # t => u \notin Book!Open'
  BY <1>1 DEF Book!Open
<1>3. \A u \in Book!Open' : u = t
  BY <1>2 DEF Book!Open
<1> QED
  BY <1>3
  DEF OneByOne, Book!OneAtATime, Book!SwapIsLegal, Book!HasDefault,
      Book!WithinLimit, Book!Saved

LEMMA AbortTurn ==
    ASSUME OneByOne, BookInv, NEW t \in Book!Open,
           NEW l \in {"refused", "aborted"}, Book!Abort(t, l)
    PROVE  OneByOne'
<1>1. /\ t \in Txs /\ row' = row /\ place'[t] = l
      /\ \A u \in Txs \ {t} : place'[u] = place[u]
  BY DEF Book!Open, Book!Abort, Book!Goto, BookInv, RowsTyped
<1>2. t \notin Book!Open'
  BY <1>1 DEF Book!Open
<1> QED
  BY <1>1, <1>2, TurnStep

\* A new default is legal when the old one has been replaced; the addresses
\* are then those that there were, and this one.
LEMMA DefaultTurn ==
    ASSUME Book!BookAssumption, OneByOne, BookInv, NEW t \in Book!Open,
           NEW i \in Book!Ids,
           \A j \in Book!Ids \ {i} :
               row[j] = "default" => draft[t][j] # "kept",
           Cardinality(Book!Book(t) \cup {i}) <= MAX_ADDRESSES_PER_USER,
           Book!WriteDefault(t, i)
    PROVE  OneByOne'
<1>1. ~Book!IndexRefuses(t, i)
  BY DEF Book!IndexRefuses
<1>2. /\ t \in Txs /\ row' = row /\ place'[t] = "commit"
      /\ \A u \in Txs \ {t} : place'[u] = place[u]
      /\ draft'[t][i] = "default"
      /\ \A j \in Book!Ids \ {i} : draft'[t][j] = draft[t][j]
  BY <1>1
  DEF Book!Open, Book!WriteDefault, Book!Write, Book!Goto, BookInv, RowsTyped
<1>3. Book!Sees(t, i)' = "default"
  BY <1>2 DEF Book!Sees
<1>4. \A j \in Book!Ids \ {i} : Book!Sees(t, j)' = Book!Sees(t, j)
  BY <1>2 DEF Book!Sees
<1>5. Book!Book(t)' = Book!Book(t) \cup {i}
  BY <1>3, <1>4 DEF Book!Book
<1>6. Turn(t)'
  BY <1>2, <1>3, <1>5 DEF Turn, AddsPlain, WritesDefault
<1> QED
  BY <1>2, <1>6, TurnStep

LEMMA InsertTurn ==
    ASSUME Book!BookAssumption, OneByOne, BookInv, NEW t \in Book!Open,
           Book!Insert(t)
    PROVE  OneByOne'
<1>1. PICK i \in Book!Ids \ Book!Used :
          i = CHOOSE j \in Book!Ids \ Book!Used : TRUE
  BY DEF Book!Insert, Book!Used
<1>2. /\ t \in Txs /\ place[t] = "write" /\ Book!Creates(t) /\ Turn(t)
      /\ row[i] = "none"
  BY <1>1 DEF Book!Insert, Book!Open, OneByOne, Book!Used
<1>3. Cardinality(Book!Saved \cup {i}) <= MAX_ADDRESSES_PER_USER
  <2>1. /\ IsFiniteSet(Book!Saved) /\ Cardinality(Book!Saved) \in Nat
        /\ i \notin Book!Saved
    BY <1>2, Finite DEF Book!Saved
  <2>2. Cardinality(Book!Saved \cup {i}) = Cardinality(Book!Saved) + 1
    BY <2>1, FS_AddElement
  <2> QED
    BY <1>2, <2>1, <2>2 DEF Turn, AddsPlain, WritesDefault, Book!BookAssumption
<1>4. \A j \in Book!Ids : draft[t][j] \in {"kept", "plain"}
                          /\ (draft[t][j] = "plain" => row[j] = "default")
  BY <1>2 DEF Turn, AddsPlain, WritesDefault
<1>5. Book!Book(t) = Book!Saved
  BY <1>4 DEF Book!Book, Book!Saved, Book!Sees
<1>6. CASE Book!ShouldBeDefault(t, count[t])
  <2>1. \A j \in Book!Ids : row[j] = "default" => draft[t][j] # "kept"
    BY <1>2, <1>6 DEF Turn, AddsPlain, WritesDefault
  <2>2. Book!WriteDefault(t, i)
    BY <1>1, <1>6 DEF Book!Insert
  <2> QED
    BY <1>1, <1>3, <1>5, <2>1, <2>2, DefaultTurn
<1>7. CASE ~Book!ShouldBeDefault(t, count[t])
  <2>1. /\ row' = row /\ place'[t] = "commit"
        /\ \A u \in Txs \ {t} : place'[u] = place[u]
        /\ draft'[t][i] = "plain"
        /\ \A j \in Book!Ids \ {i} : draft'[t][j] = draft[t][j]
    BY <1>1, <1>2, <1>7
    DEF Book!Insert, Book!Write, Book!Goto, BookInv, RowsTyped
  <2>2. \A j \in Book!Ids : draft[t][j] = "kept"
    BY <1>2, <1>7 DEF Turn, AddsPlain, WritesDefault
  <2>3. /\ Book!Sees(t, i)' = "plain"
        /\ \A j \in Book!Ids \ {i} : Book!Sees(t, j)' = row[j]
    <3>1. Book!Sees(t, i)' = "plain"
      BY <2>1 DEF Book!Sees
    <3>2. \A j \in Book!Ids \ {i} : Book!Sees(t, j)' = row[j]
      BY <2>1, <2>2 DEF Book!Sees
    <3> QED
      BY <3>1, <3>2
  <2>4. Book!Book(t)' = Book!Saved \cup {i}
    <3>1. \A j \in Book!Ids :
              Book!Sees(t, j)' # "none" <=> row[j] # "none" \/ j = i
      BY <1>2, <2>3
    <3> QED
      BY <1>1, <3>1 DEF Book!Book, Book!Saved
  <2>5. \E j \in Book!Ids : Book!Sees(t, j)' = "default"
    <3>1. Book!Saved # {}
      <4>1. count[t] # 0 /\ count[t] = Cardinality(Book!Saved)
        BY <1>2, <1>7 DEF Turn, AddsPlain, WritesDefault, Book!ShouldBeDefault
      <4> QED
        BY <4>1, FS_EmptySet
    <3>2. PICK j \in Book!Saved : row[j] = "default"
      BY <3>1 DEF OneByOne, Book!OneAtATime, Book!HasDefault
    <3> QED
      BY <1>2, <2>3, <3>2 DEF Book!Saved
  <2>6. Turn(t)'
    BY <1>3, <2>1, <2>4, <2>5 DEF Turn, AddsPlain, WritesDefault
  <2> QED
    BY <1>2, <2>1, <2>6, TurnStep
<1> QED
  BY <1>6, <1>7

LEMMA UpdateTurn ==
    ASSUME Book!BookAssumption, OneByOne, BookInv, Book!NoneUnset,
           NEW t \in Book!Open, Book!UpdateRow(t)
    PROVE  OneByOne'
<1> DEFINE i == op[t].id
<1>1. /\ t \in Txs /\ i \in Book!Ids /\ place[t] = "write" /\ Turn(t)
      /\ op[t].does = "setDefault" /\ Book!WriteDefault(t, i)
  BY DEF Book!NoneUnset, Book!UpdateRow, Book!Open, OneByOne, BookInv,
         RowsTyped
<1>2. row[i] # "none"
  BY <1>1 DEF BookInv, TargetStays
<1>3. \A j \in Book!Ids : draft[t][j] = IF row[j] = "default" THEN "plain"
                                                              ELSE "kept"
  BY <1>1 DEF Turn, AddsPlain, WritesDefault, Book!Creates
<1>4. Book!Book(t) \cup {i} = Book!Saved
  BY <1>1, <1>2, <1>3 DEF Book!Book, Book!Saved, Book!Sees
<1>5. \A j \in Book!Ids \ {i} : row[j] = "default" => draft[t][j] # "kept"
  BY <1>3
<1> QED
  BY <1>1, <1>4, <1>5, SameSize, DefaultTurn
  DEF OneByOne, Book!OneAtATime, Book!WithinLimit

LEMMA DeleteTurn ==
    ASSUME Book!BookAssumption, OneByOne, BookInv, NEW t \in Book!Open,
           Book!DeleteRow(t)
    PROVE  OneByOne'
<1> DEFINE i == op[t].id
<1>1. /\ t \in Txs /\ i \in Book!Ids
      /\ place[t] = "begun" /\ op[t].does = "delete"
  BY DEF Book!DeleteRow, Book!Open, BookInv, RowsTyped
<1>2. \A j \in Book!Ids : draft[t][j] = "kept"
  BY <1>1 DEF BookInv, WritesAreOwn, Writing
<1>3. CASE row[i] = "none"
  BY <1>3, AbortTurn DEF Book!DeleteRow
<1>4. CASE row[i] # "none"
  <2>1. /\ row' = row /\ op' = op
        /\ place'[t] = IF row[i] = "default" THEN "promote" ELSE "commit"
        /\ \A u \in Txs \ {t} : place'[u] = place[u]
        /\ \A j \in Book!Ids : draft'[t][j] = IF j = i THEN "none" ELSE "kept"
    BY <1>1, <1>2, <1>4
    DEF Book!DeleteRow, Book!Promotes, Book!Write, Book!Goto, BookInv,
        RowsTyped
  <2>2. \A j \in Book!Ids : Book!Sees(t, j)' = IF j = i THEN "none" ELSE row[j]
    BY <2>1 DEF Book!Sees
  <2>3. Book!Book(t)' = Book!Saved \ {i}
    BY <2>2 DEF Book!Book, Book!Saved
  <2>4. Cardinality(Book!Saved \ {i}) <= MAX_ADDRESSES_PER_USER
    <3>1. IsFiniteSet(Book!Saved) /\ Cardinality(Book!Saved) \in Nat
      BY Finite DEF Book!Saved
    <3>2. /\ Cardinality(Book!Saved \ {i}) <= Cardinality(Book!Saved)
          /\ Cardinality(Book!Saved \ {i}) \in Nat
      BY <3>1, FS_Subset, FS_CardinalityType
    <3> QED
      BY <3>1, <3>2, SameSize
      DEF OneByOne, Book!OneAtATime, Book!WithinLimit, Book!BookAssumption
  <2>5. ASSUME row[i] # "default", Book!Book(t)' # {}
        PROVE  \E j \in Book!Ids : Book!Sees(t, j)' = "default"
    <3>1. PICK j \in Book!Saved : row[j] = "default"
      BY <2>3, <2>5 DEF OneByOne, Book!OneAtATime, Book!HasDefault
    <3> QED
      BY <2>2, <2>5, <3>1 DEF Book!Saved
  <2>6. Turn(t)'
    BY <2>1, <2>3, <2>4, <2>5 DEF Turn, AddsPlain, WritesDefault
  <2> QED
    BY <1>1, <2>1, <2>6, TurnStep
<1> QED
  BY <1>3, <1>4

LEMMA PromoteTurn ==
    ASSUME Book!BookAssumption, OneByOne, BookInv, NEW t \in Book!Open,
           Book!Promote(t)
    PROVE  OneByOne'
<1> DEFINE i == op[t].id
<1>1. t \in Txs /\ i \in Book!Ids /\ place[t] = "promoted" /\ Turn(t)
  BY DEF Book!Promote, Book!Open, OneByOne, BookInv, RowsTyped
<1>2. \A j \in Book!Ids : draft[t][j] = IF j = i THEN "none" ELSE "kept"
  BY <1>1 DEF Turn, AddsPlain, WritesDefault
<1>3. Book!Book(t) \subseteq Book!Saved
  BY <1>2 DEF Book!Book, Book!Saved, Book!Sees
<1>4. Cardinality(Book!Book(t)) <= MAX_ADDRESSES_PER_USER
  <2>1. /\ IsFiniteSet(Book!Saved) /\ Cardinality(Book!Saved) \in Nat
        /\ Cardinality(Book!Book(t)) \in Nat
    BY Finite DEF Book!Saved, Book!Book
  <2>2. Cardinality(Book!Book(t)) <= Cardinality(Book!Saved)
    BY <1>3, <2>1, FS_Subset
  <2> QED
    BY <2>1, <2>2, SameSize
    DEF OneByOne, Book!OneAtATime, Book!WithinLimit, Book!BookAssumption
<1>5. CASE /\ \A j \in found[t] : Book!Sees(t, j) = "none"
           /\ found' = [found EXCEPT ![t] = {}]
           /\ Book!Goto(t, "commit")
           /\ UNCHANGED <<row, draft, op, count, locks>>
  <2>1. Book!Book(t) = {}
    BY <1>1, <1>5 DEF Turn, AddsPlain, WritesDefault, Book!Book
  <2>2. /\ row' = row /\ draft' = draft /\ place'[t] = "commit"
        /\ \A u \in Txs \ {t} : place'[u] = place[u]
    BY <1>1, <1>5 DEF Book!Goto, BookInv, RowsTyped
  <2>3. Book!Book(t)' = Book!Book(t)
    BY <2>2 DEF Book!Book, Book!Sees
  <2>4. Turn(t)'
    BY <1>4, <2>1, <2>2, <2>3 DEF Turn, AddsPlain, WritesDefault
  <2> QED
    BY <1>1, <2>2, <2>4, TurnStep
<1>6. CASE \E j \in found[t] :
               Book!Sees(t, j) # "none" /\ Book!WriteDefault(t, j)
  <2>1. PICK j \in found[t] :
            Book!Sees(t, j) # "none" /\ Book!WriteDefault(t, j)
    BY <1>6
  <2>2. j \in Book!Ids
    BY <1>1 DEF BookInv, RowsTyped
  <2>3. Book!Book(t) \cup {j} = Book!Book(t)
    BY <2>1, <2>2 DEF Book!Book
  <2>4. \A k \in Book!Ids : row[k] = "default" => draft[t][k] # "kept"
    <3>1. row[i] = "default"
      BY <1>1 DEF Turn, AddsPlain, WritesDefault
    <3> QED
      BY <1>1, <1>2, <3>1 DEF BookInv, OneDefault
  <2> QED
    BY <1>4, <2>1, <2>2, <2>3, <2>4, DefaultTurn
<1> QED
  BY <1>5, <1>6 DEF Book!Promote

LEMMA ReadTurn ==
    ASSUME Book!BookAssumption, OneByOne, BookInv, Book!NoneUnset,
           NEW t \in Book!Open,
           \/ Book!CountAddresses(t) \/ Book!SelectOwned(t)
           \/ Book!ClearSelect(t)
           \/ Book!ClearDefault(t) \/ Book!PromoteSelect(t)
    PROVE  OneByOne'
<1>1. t \in Txs /\ Turn(t) /\ op[t].does # "unset"
  BY DEF Book!NoneUnset, Book!Open, OneByOne, BookInv, RowsTyped
<1>2. /\ row' = row /\ op' = op
      /\ \A u \in Txs \ {t} : place'[u] = place[u]
  BY DEF Book!CountAddresses, Book!SelectOwned, Book!ClearSelect,
         Book!ClearDefault, Book!PromoteSelect, Book!Goto, BookInv, RowsTyped
<1>3. CASE Book!CountAddresses(t)
  <2>1. /\ place[t] = "begun" /\ draft' = draft
        /\ count'[t] = Cardinality(Book!Book(t))
        /\ place'[t] = IF count'[t] >= MAX_ADDRESSES_PER_USER THEN "refused"
                       ELSE IF Book!ShouldBeDefault(t, count'[t]) THEN "clear"
                       ELSE "write"
    BY <1>1, <1>3, SameSize
    DEF Book!CountAddresses, Book!LimitReached, Book!Goto, BookInv, RowsTyped
  <2>2. /\ \A i \in Book!Ids : draft[t][i] = "kept"
        /\ Book!Book(t) = Book!Saved /\ Cardinality(Book!Saved) \in Nat
    BY <1>1, <2>1, BookAlone DEF Writing
  <2>3. /\ Book!Saved' = Book!Saved /\ Book!Creates(t)'
        /\ place'[t] # "illegal"
        /\ Book!ShouldBeDefault(t, count[t])'
               <=> Book!ShouldBeDefault(t, count'[t])
    BY <1>2, <1>3, <2>1
    DEF Book!Saved, Book!CountAddresses, Book!Creates, Book!ShouldBeDefault
  <2>4. t \in Book!Open' => Turn(t)'
    BY <2>1, <2>2, <2>3
    DEF Turn, AddsPlain, WritesDefault, Book!Open, Book!BookAssumption
  <2> QED
    BY <1>1, <1>2, <2>3, <2>4, TurnStep
<1>4. CASE Book!SelectOwned(t)
  <2>1. op[t].does = "setDefault" /\ place'[t] \in {"refused", "clear"}
    BY <1>1, <1>4 DEF Book!SelectOwned, Book!Goto, BookInv, RowsTyped
  <2>2. t \in Book!Open' => Turn(t)'
    BY <1>2, <2>1 DEF Turn, AddsPlain, WritesDefault, Book!Open, Book!Creates
  <2> QED
    BY <1>1, <1>2, <2>1, <2>2, TurnStep
<1>5. CASE Book!ClearSelect(t)
  <2>1. /\ place[t] = "clear" /\ place'[t] = "cleared" /\ count' = count
        /\ found'[t] = Book!Defaults(t)
    BY <1>1, <1>5 DEF Book!ClearSelect, Book!Goto, BookInv, RowsTyped
  <2>2. \A i \in Book!Ids : Book!Sees(t, i) = row[i]
    BY <1>1, <2>1, BookAlone DEF Writing
  <2>3. found'[t] = {i \in Book!Ids : row[i] = "default"}
    BY <2>1, <2>2 DEF Book!Defaults
  <2>4. Turn(t)'
    BY <1>1, <1>2, <2>1, <2>3
    DEF Turn, AddsPlain, WritesDefault, Book!Creates, Book!ShouldBeDefault,
        Book!Saved
  <2> QED
    BY <1>1, <1>2, <2>1, <2>4, TurnStep
<1>6. CASE Book!ClearDefault(t)
  <2>1. place[t] = "cleared" /\ place'[t] = "write" /\ count' = count
    BY <1>1, <1>6 DEF Book!ClearDefault, Book!Goto, BookInv, RowsTyped
  <2>2. \A i \in Book!Ids : draft[t][i] = "kept" /\ Book!Sees(t, i) = row[i]
    BY <1>1, <2>1, BookAlone DEF Writing
  <2>3. \A i \in Book!Ids :
            draft'[t][i] = IF row[i] = "default" THEN "plain" ELSE "kept"
    BY <1>1, <1>6, <2>1, <2>2
    DEF Book!ClearDefault, Turn, AddsPlain, WritesDefault, BookInv, RowsTyped
  <2>4. Turn(t)'
    BY <1>1, <1>2, <2>1, <2>3
    DEF Turn, AddsPlain, WritesDefault, Book!Creates, Book!ShouldBeDefault,
        Book!Saved
  <2> QED
    BY <1>1, <1>2, <2>1, <2>4, TurnStep
<1>7. CASE Book!PromoteSelect(t)
  <2>1. /\ place[t] = "promote" /\ place'[t] = "promoted" /\ draft' = draft
        /\ found'[t] \in Book!MostRecent(Book!Book(t))
    BY <1>1, <1>7 DEF Book!PromoteSelect, Book!Goto, BookInv, RowsTyped
  <2>2. Book!Book(t)' = Book!Book(t)
    BY <1>2, <2>1 DEF Book!Book, Book!Sees
  <2>3. Turn(t)'
    BY <1>1, <1>2, <2>1, <2>2
    DEF Turn, AddsPlain, WritesDefault, Book!MostRecent
  <2> QED
    BY <1>1, <1>2, <2>1, <2>3, TurnStep
<1> QED
  BY <1>3, <1>4, <1>5, <1>6, <1>7

LEMMA BeginTurn ==
    ASSUME OneByOne, BookInv, Book!OneAtATime', NEW t \in Txs, Book!Begin(t)
    PROVE  OneByOne'
<1>1. /\ row' = row /\ place'[t] = "begun"
      /\ \A u \in Txs \ {t} : place'[u] = place[u]
  BY DEF Book!Begin, Book!Goto, BookInv, RowsTyped
<1>2. Book!Open = {}
  <2>1. \A u \in Book!Open \cup {t} : u \in Book!Open'
    BY <1>1 DEF Book!Open
  <2>2. t \notin Book!Open
    BY DEF Book!Begin, Book!Open
  <2> QED
    BY <2>1, <2>2 DEF Book!OneAtATime
<1>3. Turn(t)'
  BY <1>1 DEF Turn, AddsPlain, WritesDefault
<1> QED
  BY <1>1, <1>2, <1>3, TurnStep

LEMMA CommitTurn ==
    ASSUME OneByOne, BookInv, NEW t \in Book!Open, Book!Commit(t)
    PROVE  OneByOne'
<1>1. /\ t \in Txs /\ place[t] = "commit" /\ place'[t] = "done" /\ Turn(t)
      /\ \A u \in Txs \ {t} : place'[u] = place[u]
      /\ \A i \in Book!Ids : row'[i] = Book!Sees(t, i)
  BY DEF Book!Commit, Book!Open, OneByOne, Book!Goto, BookInv, RowsTyped
<1>2. Book!Saved' = Book!Book(t)
  BY <1>1 DEF Book!Saved, Book!Book
<1>3. Book!Open' = {}
  <2>1. \A u \in Txs : u # t => u \notin Book!Open
    BY DEF OneByOne, Book!OneAtATime
  <2> QED
    BY <1>1, <2>1 DEF Book!Open
<1>4. Book!HasDefault' /\ Book!WithinLimit'
  BY <1>1, <1>2, SameSize
  DEF Turn, AddsPlain, WritesDefault, Book!HasDefault, Book!WithinLimit,
      Book!Saved
<1>5. Book!SwapIsLegal'
  BY <1>1 DEF OneByOne, Book!OneAtATime, Book!SwapIsLegal
<1> QED
  BY <1>3, <1>4, <1>5 DEF OneByOne, Book!OneAtATime

\* One request after the other, an address book always has a default and no
\* more addresses than it may, and no request runs into the unique index.
THEOREM BookIsLegalAlone ==
    ASSUME Book!BookAssumption
    PROVE  Book!Spec /\ []Book!OneAtATime /\ []Book!NoneUnset
               => []Book!BookIsLegal
<1>1. Book!Init => OneByOne
  <2> SUFFICES ASSUME Book!Init
               PROVE  OneByOne
    OBVIOUS
  <2>1. Book!Open = {} /\ Book!Saved = {} /\ Book!SwapIsLegal
    BY DEF Book!Init, Book!Open, Book!Saved, Book!SwapIsLegal
  <2> QED
    BY <2>1, SameSize, FS_EmptySet
    DEF OneByOne, Book!OneAtATime, Book!HasDefault, Book!WithinLimit,
        Book!BookAssumption
<1>2. /\ Book!NoneUnset /\ Book!OneAtATime' /\ OneByOne /\ BookInv
      /\ [Book!Next]_(Book!vars)
      => OneByOne'
  <2> SUFFICES ASSUME Book!NoneUnset, Book!OneAtATime', OneByOne, BookInv,
                      [Book!Next]_(Book!vars)
               PROVE  OneByOne'
    OBVIOUS
  <2>1. CASE UNCHANGED Book!vars
    <3>1. /\ Book!Saved' = Book!Saved /\ Book!Open' = Book!Open
          /\ \A t \in Txs : /\ Book!Creates(t)' <=> Book!Creates(t)
                            /\ Book!Book(t)' = Book!Book(t)
                            /\ Book!ShouldBeDefault(t, count[t])'
                                   <=> Book!ShouldBeDefault(t, count[t])
                            /\ \A i \in Book!Ids :
                                   Book!Sees(t, i)' = Book!Sees(t, i)
      BY <2>1
      DEF Book!vars, Book!Saved, Book!Open, Book!Creates, Book!Book,
          Book!ShouldBeDefault, Book!Sees
    <3>2. \A t \in Book!Open : t \in Txs
      BY DEF Book!Open
    <3>3. \A t \in Book!Open : Turn(t)'
      BY <2>1, <3>1, <3>2
      DEF Book!vars, OneByOne, Turn, AddsPlain, WritesDefault
    <3> QED
      BY <2>1, <3>1, <3>3
      DEF Book!vars, OneByOne, Book!SwapIsLegal, Book!HasDefault,
          Book!WithinLimit
  <2>2. ASSUME NEW t \in Txs,
               Book!Begin(t) \/ Book!Step(t) \/ Book!WaitFails(t)
        PROVE  OneByOne'
    <3>1. CASE Book!Begin(t)
      BY <3>1, BeginTurn
    <3>2. CASE Book!Step(t) \/ Book!WaitFails(t)
      <4>1. t \in Book!Open
        BY <3>2
        DEF Book!Open, Book!Step, Book!CountAddresses, Book!SelectOwned,
            Book!ClearSelect, Book!ClearDefault, Book!Insert, Book!UpdateRow,
            Book!DeleteRow, Book!PromoteSelect, Book!Promote, Book!Commit,
            Book!WaitFails
      <4>2. CASE \/ Book!CountAddresses(t) \/ Book!SelectOwned(t)
                 \/ Book!ClearSelect(t)
                 \/ Book!ClearDefault(t) \/ Book!PromoteSelect(t)
        BY <4>1, <4>2, ReadTurn
      <4>3. CASE Book!Insert(t)
        BY <4>1, <4>3, InsertTurn
      <4>4. CASE Book!UpdateRow(t)
        BY <4>1, <4>4, UpdateTurn
      <4>5. CASE Book!DeleteRow(t)
        BY <4>1, <4>5, DeleteTurn
      <4>6. CASE Book!Promote(t)
        BY <4>1, <4>6, PromoteTurn
      <4>7. CASE Book!Commit(t)
        BY <4>1, <4>7, CommitTurn
      <4>8. CASE Book!WaitFails(t)
        BY <4>1, <4>8, AbortTurn DEF Book!WaitFails
      <4> QED
        BY <3>2, <4>2, <4>3, <4>4, <4>5, <4>6, <4>7, <4>8 DEF Book!Step
    <3> QED
      BY <2>2, <3>1, <3>2
  <2> QED
    BY <2>1, <2>2 DEF Book!Next
<1>3. OneByOne => Book!HasDefault /\ Book!WithinLimit /\ Book!SwapIsLegal
  BY DEF OneByOne, Book!OneAtATime
<1> QED
  BY <1>1, <1>2, <1>3, BookIsKept, OneDefaultOnly, PTL
  DEF Book!Spec, Book!BookIsLegal

-----------------------------------------------------------------------------
(* Sums of the values of a function *)

\* A set of numbers that has a number whenever it has all that are less has
\* them all.
LEMMA AllNumbers ==
    ASSUME NEW T,
           \A n \in Nat : (\A m \in Nat : m < n => m \in T) => n \in T
    PROVE  Nat \subseteq T
<1> SUFFICES ASSUME Nat \ T # {}
             PROVE  FALSE
  OBVIOUS
<1>1. \E n \in Nat \ T : \A m \in Nat \ T : ~(<<m, n>> \in OpToRel(<, Nat))
  BY NatLessThanWellFounded, WFMin
<1>2. PICK n \in Nat \ T : \A m \in Nat \ T : ~(<<m, n>> \in OpToRel(<, Nat))
  BY <1>1
<1>3. \A m \in Nat \ T : ~(m < n)
  BY <1>2 DEF OpToRel
<1> QED
  BY <1>3

\* The sum of a function is that of one value and those that are left, in the
\* order of CHOOSE.
Pick(s) == CHOOSE x \in s : TRUE
Small(S, n) == {s \in SUBSET S : IsFiniteSet(s) /\ Cardinality(s) <= n}
SumsTo(f, S, n) ==
    {g \in [Small(S, n) -> Int] :
        \A s \in Small(S, n) :
            g[s] = IF s = {} THEN 0 ELSE f[Pick(s)] + g[s \ {Pick(s)}]}

LEMMA Picked ==
    ASSUME NEW S, S # {}
    PROVE  Pick(S) \in S
BY DEF Pick

LEMMA OneLess ==
    ASSUME NEW S, NEW n \in Nat, NEW s \in Small(S, n), s # {}
    PROVE  /\ n > 0 /\ s \ {Pick(s)} \in Small(S, n - 1)
           /\ s \ {Pick(s)} \in Small(S, n)
<1>1. IsFiniteSet(s) /\ Cardinality(s) \in Nat /\ Cardinality(s) <= n
  BY FS_CardinalityType DEF Small
<1>2. Pick(s) \in s
  BY Picked
<1>3. /\ IsFiniteSet(s \ {Pick(s)})
      /\ Cardinality(s \ {Pick(s)}) = Cardinality(s) - 1
  BY <1>1, <1>2, FS_RemoveElement
<1>4. Cardinality(s) # 0
  BY <1>1, FS_EmptySet
<1> QED
  BY <1>1, <1>3, <1>4 DEF Small

LEMMA SumsExist ==
    ASSUME NEW D, NEW S \in SUBSET D, NEW f \in [D -> Int], NEW n \in Nat
    PROVE  SumsTo(f, S, n) # {}
<1> DEFINE T == {m \in Nat : SumsTo(f, S, m) # {}}
<1> SUFFICES ASSUME NEW m \in Nat, \A l \in Nat : l < m => l \in T
             PROVE  SumsTo(f, S, m) # {}
  <2>1. \A k \in Nat : (\A l \in Nat : l < k => l \in T) => k \in T
    OBVIOUS
  <2> HIDE DEF T
  <2>2. Nat \subseteq T
    BY <2>1, AllNumbers
  <2> QED
    BY <2>2 DEF T
<1>1. CASE m = 0
  <2> DEFINE g == [s \in Small(S, 0) |-> 0]
  <2>1. \A s \in Small(S, 0) : s = {}
    BY FS_EmptySet, FS_CardinalityType DEF Small
  <2>2. g \in SumsTo(f, S, 0)
    BY <2>1 DEF SumsTo
  <2> QED
    BY <1>1, <2>2
<1>2. CASE m > 0
  <2>1. PICK h : h \in SumsTo(f, S, m - 1)
    BY <1>2
  <2> DEFINE V(s) == IF s = {} THEN 0 ELSE f[Pick(s)] + h[s \ {Pick(s)}]
             g == [s \in Small(S, m) |-> V(s)]
  <2>2. ASSUME NEW s \in Small(S, m), s # {}
        PROVE  s \ {Pick(s)} \in Small(S, m - 1) /\ f[Pick(s)] \in Int
    BY <2>2, OneLess, Picked DEF Small
  <2>3. \A s \in Small(S, m) : V(s) \in Int
    BY <2>1, <2>2 DEF SumsTo
  <2>4. \A s \in Small(S, m - 1) : s \in Small(S, m) /\ h[s] = V(s)
    <3>1. Small(S, m - 1) \subseteq Small(S, m)
      BY <1>2, FS_CardinalityType DEF Small
    <3> QED
      BY <2>1, <3>1 DEF SumsTo
  <2>5. ASSUME NEW s \in Small(S, m), s # {}
        PROVE  g[s] = f[Pick(s)] + g[s \ {Pick(s)}]
    <3>1. g[s \ {Pick(s)}] = h[s \ {Pick(s)}]
      BY <2>2, <2>4, <2>5
    <3> QED
      BY <2>5, <3>1
  <2>6. g \in SumsTo(f, S, m)
    <3>1. g \in [Small(S, m) -> Int]
      BY <2>3
    <3>2. \A s \in Small(S, m) :
              g[s] = IF s = {} THEN 0 ELSE f[Pick(s)] + g[s \ {Pick(s)}]
      BY <2>5
    <3> QED
      BY <3>1, <3>2 DEF SumsTo
  <2> QED
    BY <2>6
<1> QED
  BY <1>1, <1>2

\* Running(f, S, g): g has the sums over the subsets of S.
Adds(f, g, s) == IF s = {} THEN 0 ELSE f[Pick(s)] + g[s \ {Pick(s)}]
Running(f, S, g) == g = [s \in SUBSET S |-> Adds(f, g, s)]

LEMMA RunningIs ==
    ASSUME NEW S, NEW f, NEW g, Running(f, S, g)
    PROVE  \A s \in SUBSET S : g[s] = Adds(f, g, s)
<1> DEFINE h == [s \in SUBSET S |-> Adds(f, g, s)]
<1>1. g = h
  BY DEF Running
<1>2. \A s \in SUBSET S : h[s] = Adds(f, g, s)
  OBVIOUS
<1> HIDE DEF h
<1> QED
  BY <1>1, <1>2

LEMMA RunningExists ==
    ASSUME NEW D, NEW f \in [D -> Int], NEW S \in SUBSET D, IsFiniteSet(S)
    PROVE  \E g : Running(f, S, g)
<1>1. Cardinality(S) \in Nat
  BY FS_CardinalityType
<1>2. Small(S, Cardinality(S)) = SUBSET S
  BY FS_Subset, FS_CardinalityType DEF Small
<1>3. PICK g : g \in SumsTo(f, S, Cardinality(S))
  BY <1>1, SumsExist
<1>4. /\ g \in [SUBSET S -> Int]
      /\ \A s \in SUBSET S :
             g[s] = IF s = {} THEN 0 ELSE f[Pick(s)] + g[s \ {Pick(s)}]
  BY <1>2, <1>3 DEF SumsTo
<1> QED
  BY <1>4 DEF Running, Adds

LEMMA SumIsRunning ==
    ASSUME NEW D, NEW f \in [D -> Int], NEW S \in SUBSET D, IsFiniteSet(S)
    PROVE  \E g : Running(f, S, g) /\ SumFunctionOnSet(f, S) = g[S]
<1> DEFINE g == CHOOSE g : g = [s \in SUBSET S |->
                       IF s = {} THEN 0 ELSE f[Pick(s)] + g[s \ {Pick(s)}]]
<1>1. SumFunctionOnSet(f, S) = g[S]
  BY DEF SumFunctionOnSet, FoldFunctionOnSet, MapThenFoldSet, Pick
<1>2. g = CHOOSE h : Running(f, S, h)
  BY DEF Running, Adds
<1> HIDE DEF g
<1>3. Running(f, S, g)
  BY <1>2, RunningExists
<1> QED
  BY <1>1, <1>3

\* Two of them agree where both are.
LEMMA RunningAgree ==
    ASSUME NEW D, NEW f \in [D -> Int], NEW S \in SUBSET D,
           NEW E, NEW e \in [E -> Int], NEW T \in SUBSET E, IsFiniteSet(T),
           T \subseteq S, \A x \in T : e[x] = f[x],
           NEW g, Running(f, S, g), NEW h, Running(e, T, h)
    PROVE  g[T] = h[T] /\ g[T] \in Int
<1> DEFINE P(s) == g[s] = h[s] /\ g[s] \in Int
           M == {n \in Nat : \A s \in Small(T, n) : P(s)}
<1> HIDE DEF P, M
<1>5. \A s \in SUBSET S :
          g[s] = Adds(f, g, s)
  BY RunningIs
<1>6. \A s \in SUBSET T :
          h[s] = Adds(e, h, s)
  BY RunningIs
<1> USE DEF P, M
<1>1. ASSUME NEW n \in Nat, \A m \in Nat : m < n => m \in M,
             NEW s \in Small(T, n)
      PROVE  P(s)
  <2>1. s \in SUBSET S /\ s \in SUBSET T
    BY DEF Small
  <2>2. /\ g[s] = IF s = {} THEN 0 ELSE f[Pick(s)] + g[s \ {Pick(s)}]
        /\ h[s] = IF s = {} THEN 0 ELSE e[Pick(s)] + h[s \ {Pick(s)}]
    BY <1>5, <1>6, <2>1 DEF Adds
  <2>3. CASE s = {}
    BY <2>2, <2>3
  <2>4. CASE s # {}
    <3>1. n > 0 /\ s \ {Pick(s)} \in Small(T, n - 1) /\ Pick(s) \in T
      BY <2>1, <2>4, OneLess, Picked
    <3>2. n - 1 \in M
      BY <1>1, <3>1
    <3>3. P(s \ {Pick(s)})
      BY <3>1, <3>2
    <3>4. f[Pick(s)] \in Int /\ e[Pick(s)] = f[Pick(s)]
      BY <3>1
    <3> QED
      BY <2>2, <2>4, <3>3, <3>4
  <2> QED
    BY <2>3, <2>4
<1>2. Nat \subseteq M
  <2>1. \A n \in Nat : (\A m \in Nat : m < n => m \in M) => n \in M
    BY <1>1
  <2> HIDE DEF M
  <2> QED
    BY <2>1, AllNumbers
<1>3. IsFiniteSet(T) /\ Cardinality(T) \in Nat
  BY FS_Subset, FS_CardinalityType
<1>4. T \in Small(T, Cardinality(T)) /\ Cardinality(T) \in M
  BY <1>2, <1>3 DEF Small
<1> QED
  BY <1>4

\* A sum is of the values alone.
LEMMA SumOfValues ==
    ASSUME NEW D, NEW f \in [D -> Int], NEW E, NEW e \in [E -> Int],
           NEW S \in SUBSET D, S \subseteq E, IsFiniteSet(S),
           \A x \in S : e[x] = f[x]
    PROVE  /\ SumFunctionOnSet(f, S) = SumFunctionOnSet(e, S)
           /\ SumFunctionOnSet(f, S) \in Int
<1>1. PICK g : Running(f, S, g) /\ SumFunctionOnSet(f, S) = g[S]
  BY SumIsRunning
<1>2. PICK h : Running(e, S, h) /\ SumFunctionOnSet(e, S) = h[S]
  BY SumIsRunning
<1> QED
  BY <1>1, <1>2, RunningAgree

\* The sum of no values is none; that of some is one of them and the rest.
LEMMA SumOfNone ==
    ASSUME NEW D, NEW f \in [D -> Int]
    PROVE  SumFunctionOnSet(f, {}) = 0
<1>1. PICK g : Running(f, {}, g) /\ SumFunctionOnSet(f, {}) = g[{}]
  BY SumIsRunning, FS_EmptySet
<1> QED
  BY <1>1, RunningIs DEF Adds

LEMMA SumOfPicked ==
    ASSUME NEW D, NEW f \in [D -> Int], NEW S \in SUBSET D, IsFiniteSet(S),
           S # {}
    PROVE  SumFunctionOnSet(f, S) =
               f[Pick(S)] + SumFunctionOnSet(f, S \ {Pick(S)})
<1> DEFINE T == S \ {Pick(S)}
<1>1. T \in SUBSET D /\ IsFiniteSet(T)
  BY FS_Subset
<1>2. PICK g : Running(f, S, g) /\ SumFunctionOnSet(f, S) = g[S]
  BY SumIsRunning
<1>3. PICK h : Running(f, T, h) /\ SumFunctionOnSet(f, T) = h[T]
  BY <1>1, SumIsRunning
<1>4. g[T] = h[T]
  <2>1. T \subseteq S /\ \A x \in T : f[x] = f[x]
    OBVIOUS
  <2>2. Running(f, S, g) /\ Running(f, T, h)
    BY <1>2, <1>3
  <2> HIDE DEF T
  <2> QED
    BY <1>1, <2>1, <2>2, RunningAgree
<1>5. g[S] = Adds(f, g, S)
  <2>1. S \in SUBSET S
    OBVIOUS
  <2> QED
    BY <1>2, <2>1, RunningIs
<1> QED
  BY <1>2, <1>3, <1>4, <1>5 DEF Adds

LEMMA SumOfSome ==
    ASSUME NEW D, NEW f \in [D -> Int], NEW S \in SUBSET D, IsFiniteSet(S),
           NEW x \in S
    PROVE  SumFunctionOnSet(f, S) = f[x] + SumFunctionOnSet(f, S \ {x})
<1> DEFINE P(s) == \A y \in s :
                       SumFunctionOnSet(f, s) =
                           f[y] + SumFunctionOnSet(f, s \ {y})
           M == {n \in Nat : \A s \in Small(S, n) : P(s)}
<1>1. ASSUME NEW n \in Nat, \A m \in Nat : m < n => m \in M,
             NEW s \in Small(S, n), NEW y \in s
      PROVE  SumFunctionOnSet(f, s) = f[y] + SumFunctionOnSet(f, s \ {y})
  <2> DEFINE p == Pick(s)
             t == s \ {p}
             u == s \ {y}
             v == (s \ {p}) \ {y}
  <2>1. /\ s \in SUBSET D /\ IsFiniteSet(s) /\ p \in s /\ n > 0
        /\ f[p] \in Int /\ f[y] \in Int
    BY Picked, OneLess DEF Small
  <2>2. SumFunctionOnSet(f, s) = f[p] + SumFunctionOnSet(f, t)
    BY <2>1, SumOfPicked
  <2>3. CASE y = p
    BY <2>2, <2>3
  <2>4. CASE y # p
    <3>1. n - 1 \in M
      BY <1>1, <2>1
    <3>2. t \in Small(S, n - 1)
      BY OneLess
    <3>3. u \in Small(S, n - 1)
      <4>1. /\ IsFiniteSet(u) /\ Cardinality(u) = Cardinality(s) - 1
            /\ Cardinality(s) \in Nat /\ Cardinality(s) <= n
        BY <2>1, FS_RemoveElement, FS_CardinalityType DEF Small
      <4> QED
        BY <2>1, <4>1 DEF Small
    <3>4. SumFunctionOnSet(f, t) = f[y] + SumFunctionOnSet(f, v)
      BY <2>4, <3>1, <3>2
    <3>5. SumFunctionOnSet(f, u) = f[p] + SumFunctionOnSet(f, u \ {p})
      BY <2>1, <2>4, <3>1, <3>3
    <3>6. u \ {p} = v
      OBVIOUS
    <3>7. v \in SUBSET D /\ IsFiniteSet(v) /\ SumFunctionOnSet(f, v) \in Int
      <4>1. v \in SUBSET D /\ IsFiniteSet(v)
        BY <2>1, FS_Subset
      <4> QED
        BY <4>1, SumOfValues
    <3> HIDE DEF p, t, u, v
    <3>8. SumFunctionOnSet(f, s \ {y}) = SumFunctionOnSet(f, u)
      BY DEF u
    <3> DEFINE w == SumFunctionOnSet(f, v)
    <3>9. SumFunctionOnSet(f, s) = f[p] + (f[y] + w)
      BY <2>2, <3>4, Zenon
    <3>10. f[y] + SumFunctionOnSet(f, s \ {y}) = f[y] + (f[p] + w)
      BY <3>5, <3>6, <3>8, Zenon
    <3> HIDE DEF w
    <3>11. \A a, b, c \in Int : a + (b + c) = b + (a + c)
      OBVIOUS
    <3>12. f[p] + (f[y] + w) = f[y] + (f[p] + w)
      BY <2>1, <3>7, <3>11, Zenon DEF w
    <3> QED
      BY <3>9, <3>10, <3>12, Zenon
  <2> QED
    BY <2>3, <2>4
<1>2. Nat \subseteq M
  <2>1. \A n \in Nat : (\A m \in Nat : m < n => m \in M) => n \in M
    BY <1>1
  <2> HIDE DEF M
  <2> QED
    BY <2>1, AllNumbers
<1>3. Cardinality(S) \in M /\ S \in Small(S, Cardinality(S))
  BY <1>2, FS_CardinalityType DEF Small
<1> QED
  BY <1>3

\* One of the values grows.
LEMMA SumGrows ==
    ASSUME NEW K, IsFiniteSet(K), NEW g \in [K -> Int], NEW h \in [K -> Int],
           NEW k \in K, NEW d \in Int, h[k] = g[k] + d,
           \A j \in K \ {k} : h[j] = g[j]
    PROVE  SumFunctionOnSet(h, K) = SumFunctionOnSet(g, K) + d
<1> DEFINE R == K \ {k}
<1>1. /\ SumFunctionOnSet(h, K) = h[k] + SumFunctionOnSet(h, R)
      /\ SumFunctionOnSet(g, K) = g[k] + SumFunctionOnSet(g, R)
  BY SumOfSome
<1>2. R \in SUBSET K /\ IsFiniteSet(R) /\ \A x \in R : g[x] = h[x]
  BY FS_Subset
<1> HIDE DEF R
<1>3. /\ SumFunctionOnSet(h, R) = SumFunctionOnSet(g, R)
      /\ SumFunctionOnSet(h, R) \in Int
  BY <1>2, SumOfValues
<1>4. g[k] \in Int
  OBVIOUS
<1> QED
  BY <1>1, <1>3, <1>4

\* Facts about every finite subset, by the number of its elements.
LEMMA AllSubsets ==
    ASSUME NEW A, IsFiniteSet(A), NEW G, {} \in G,
           \A s \in SUBSET A : \A x \in s : s \ {x} \in G => s \in G
    PROVE  SUBSET A \subseteq G
<1> DEFINE M == {n \in Nat : Small(A, n) \subseteq G}
<1>1. ASSUME NEW n \in Nat, \A m \in Nat : m < n => m \in M,
             NEW s \in Small(A, n)
      PROVE  s \in G
  <2>1. CASE s = {}
    BY <2>1
  <2>2. CASE s # {}
    <3>1. n - 1 \in M /\ s \ {Pick(s)} \in Small(A, n - 1) /\ Pick(s) \in s
      BY <1>1, <2>2, OneLess, Picked
    <3>2. s \ {Pick(s)} \in G /\ s \in SUBSET A
      BY <3>1 DEF Small
    <3> QED
      BY <3>1, <3>2
  <2> QED
    BY <2>1, <2>2
<1>2. Nat \subseteq M
  <2>1. \A n \in Nat : (\A m \in Nat : m < n => m \in M) => n \in M
    BY <1>1
  <2> HIDE DEF M
  <2> QED
    BY <2>1, AllNumbers
<1> SUFFICES ASSUME NEW s \in SUBSET A
             PROVE  s \in G
  OBVIOUS
<1>3. Cardinality(s) \in M /\ s \in Small(A, Cardinality(s))
  BY <1>2, FS_Subset, FS_CardinalityType DEF Small
<1> QED
  BY <1>3

\* A set has as many elements as its classes, and what they weigh is the
\* weight of each class times its elements.
Class(f, s, k) == {a \in s : f[a] = k}

LEMMA ClassGrows ==
    ASSUME NEW A, IsFiniteSet(A), NEW K, NEW f \in [A -> K],
           NEW s \in SUBSET A, NEW x \in s
    PROVE  /\ \A k \in K : Cardinality(Class(f, s, k)) \in Nat
           /\ Cardinality(Class(f, s, f[x])) =
                  Cardinality(Class(f, s \ {x}, f[x])) + 1
           /\ \A k \in K \ {f[x]} : Class(f, s, k) = Class(f, s \ {x}, k)
           /\ \A k \in K : Cardinality(Class(f, s \ {x}, k)) \in Nat
<1>1. \A t \in SUBSET A : \A k \in K :
          /\ IsFiniteSet(Class(f, t, k))
          /\ Cardinality(Class(f, t, k)) \in Nat
  BY FS_Subset, FS_CardinalityType DEF Class
<1>2. /\ x \notin Class(f, s \ {x}, f[x]) /\ f[x] \in K
      /\ Class(f, s, f[x]) = Class(f, s \ {x}, f[x]) \cup {x}
  BY DEF Class
<1>3. Cardinality(Class(f, s, f[x])) =
          Cardinality(Class(f, s \ {x}, f[x])) + 1
  BY <1>1, <1>2, FS_AddElement
<1>4. \A k \in K \ {f[x]} : Class(f, s, k) = Class(f, s \ {x}, k)
  BY DEF Class
<1> QED
  BY <1>1, <1>3, <1>4

LEMMA ClassesWeigh ==
    ASSUME NEW A, IsFiniteSet(A), NEW K, IsFiniteSet(K), NEW f \in [A -> K],
           NEW w \in [K -> Nat]
    PROVE  SumFunction([a \in A |-> w[f[a]]]) =
               SumFunction([k \in K |-> w[k] * Cardinality(Class(f, A, k))])
<1> DEFINE e == [a \in A |-> w[f[a]]]
           g(s) == [k \in K |-> w[k] * Cardinality(Class(f, s, k))]
           G == {s \in SUBSET A : SumFunctionOnSet(e, s) =
                                      SumFunctionOnSet(g(s), K)}
<1>1. e \in [A -> Int]
  OBVIOUS
<1>2. ASSUME NEW s \in SUBSET A
      PROVE  g(s) \in [K -> Int]
  <2>1. \A k \in K : Cardinality(Class(f, s, k)) \in Nat
    BY FS_Subset, FS_CardinalityType DEF Class
  <2>2. \A a, b \in Nat : a * b \in Int
    OBVIOUS
  <2> QED
    BY <2>1, <2>2
<1>3. {} \in G
  <2>1. \A k \in K : w[k] * Cardinality(Class(f, {}, k)) = 0
    <3> HIDE DEF e, g, G
    <3>1. \A k \in K : Class(f, {}, k) = {}
      BY DEF Class
    <3>2. Cardinality({}) = 0
      BY FS_EmptySet
    <3>3. \A k \in K : w[k] \in Nat /\ Cardinality(Class(f, {}, k)) = 0
      BY <3>1, <3>2
    <3>4. \A a \in Nat : a * 0 = 0
      OBVIOUS
    <3> QED
      BY <3>3, <3>4
  <2> DEFINE z == [k \in K |-> 0]
             Z == {t \in SUBSET K : SumFunctionOnSet(z, t) = 0}
  <2>2. g({}) = z
    BY <2>1
  <2>3. {} \in Z
    BY SumOfNone
  <2>4. ASSUME NEW t \in SUBSET K, NEW x \in t, t \ {x} \in Z
        PROVE  t \in Z
    <3>1. IsFiniteSet(t) /\ z \in [K -> Int] /\ z[x] = 0
      BY FS_Subset
    <3>2. SumFunctionOnSet(z, t) = z[x] + SumFunctionOnSet(z, t \ {x})
      BY <3>1, SumOfSome
    <3> QED
      BY <2>4, <3>1, <3>2
  <2>5. SUBSET K \subseteq Z
    <3> HIDE DEF Z
    <3> QED
      BY <2>3, <2>4, AllSubsets
  <2>6. SumFunctionOnSet(z, K) = 0
    BY <2>5
  <2> QED
    BY <1>1, <2>2, <2>6, SumOfNone
<1>4. ASSUME NEW s \in SUBSET A, NEW x \in s, s \ {x} \in G
      PROVE  s \in G
  <2> DEFINE k == f[x]
             c == Cardinality(Class(f, s \ {x}, k))
  <2>1. /\ \A j \in K : Cardinality(Class(f, s, j)) \in Nat
        /\ Cardinality(Class(f, s, k)) = c + 1
        /\ \A j \in K \ {k} : Class(f, s, j) = Class(f, s \ {x}, j)
        /\ c \in Nat
    <3> HIDE DEF e, g, G
    <3>1. k \in K
      OBVIOUS
    <3>2. /\ \A j \in K : Cardinality(Class(f, s, j)) \in Nat
          /\ Cardinality(Class(f, s, f[x])) =
                 Cardinality(Class(f, s \ {x}, f[x])) + 1
          /\ \A j \in K \ {f[x]} : Class(f, s, j) = Class(f, s \ {x}, j)
          /\ \A j \in K : Cardinality(Class(f, s \ {x}, j)) \in Nat
      <4> HIDE DEF k, c
      <4> QED
        BY ClassGrows
    <3> QED
      BY <3>1, <3>2
  <2>2. w[k] \in Nat /\ k \in K /\ IsFiniteSet(s) /\ e[x] = w[k]
    BY FS_Subset
  <2>3. \A a, b \in Nat : a * (b + 1) = a * b + a /\ a * b \in Int
    OBVIOUS
  <2>4. /\ g(s)[k] = w[k] * (c + 1) /\ g(s \ {x})[k] = w[k] * c
        /\ \A j \in K \ {k} : g(s)[j] = g(s \ {x})[j]
    BY <2>1, <2>2
  <2> HIDE DEF c
  <2>5. g(s)[k] = g(s \ {x})[k] + w[k]
    BY <2>1, <2>2, <2>3, <2>4
  <2>6. g(s) \in [K -> Int] /\ g(s \ {x}) \in [K -> Int]
    BY <1>2
  <2> HIDE DEF g, k
  <2>7. SumFunctionOnSet(g(s), K) = SumFunctionOnSet(g(s \ {x}), K) + w[k]
    <3> DEFINE h == g(s)
               i == g(s \ {x})
    <3>1. /\ h \in [K -> Int] /\ i \in [K -> Int] /\ h[k] = i[k] + w[k]
          /\ \A j \in K \ {k} : h[j] = i[j]
      BY <2>4, <2>5, <2>6
    <3> HIDE DEF h, i
    <3>2. w[k] \in Int /\ k \in K
      BY <2>2
    <3>3. SumFunctionOnSet(h, K) = SumFunctionOnSet(i, K) + w[k]
      BY <3>1, <3>2, SumGrows
    <3> QED
      BY <3>3 DEF h, i
  <2>8. SumFunctionOnSet(e, s) = e[x] + SumFunctionOnSet(e, s \ {x})
    BY <1>1, <2>2, SumOfSome
  <2>9. SumFunctionOnSet(e, s \ {x}) \in Int
    <3>1. s \ {x} \in SUBSET A /\ IsFiniteSet(s \ {x})
      BY FS_Subset
    <3> QED
      BY <1>1, <3>1, SumOfValues
  <2> HIDE DEF e
  <2> QED
    BY <1>4, <2>2, <2>7, <2>8, <2>9
<1>5. SUBSET A \subseteq G
  <2> HIDE DEF G
  <2> QED
    BY <1>3, <1>4, AllSubsets
<1>6. SumFunctionOnSet(e, A) = SumFunctionOnSet(g(A), K)
  BY <1>5
<1> QED
  BY <1>6 DEF SumFunction

LEMMA ClassesCount ==
    ASSUME NEW A, IsFiniteSet(A), NEW K, IsFiniteSet(K), NEW f \in [A -> K]
    PROVE  Cardinality(A) =
               SumFunction([k \in K |-> Cardinality(Class(f, A, k))])
<1> DEFINE w == [k \in K |-> 1]
           e == [a \in A |-> 1]
           G == {s \in SUBSET A : SumFunctionOnSet(e, s) = Cardinality(s)}
<1>1. SumFunction([a \in A |-> w[f[a]]]) =
          SumFunction([k \in K |-> w[k] * Cardinality(Class(f, A, k))])
  <2>1. w \in [K -> Nat]
    OBVIOUS
  <2> HIDE DEF w
  <2> QED
    BY <2>1, ClassesWeigh
<1>2. [a \in A |-> w[f[a]]] = e
  OBVIOUS
<1>3. \A k \in K : Cardinality(Class(f, A, k)) \in Nat
  BY FS_Subset, FS_CardinalityType DEF Class
<1>4. [k \in K |-> w[k] * Cardinality(Class(f, A, k))] =
          [k \in K |-> Cardinality(Class(f, A, k))]
  BY <1>3
<1>5. e \in [A -> Int] /\ DOMAIN e = A
  OBVIOUS
<1>6. {} \in G
  BY <1>5, SumOfNone, FS_EmptySet
<1>7. ASSUME NEW s \in SUBSET A, NEW x \in s, s \ {x} \in G
      PROVE  s \in G
  <2>1. IsFiniteSet(s) /\ e[x] = 1
    BY FS_Subset
  <2>2. SumFunctionOnSet(e, s) = e[x] + SumFunctionOnSet(e, s \ {x})
    BY <1>5, <2>1, SumOfSome
  <2>3. /\ Cardinality(s \ {x}) = Cardinality(s) - 1
        /\ Cardinality(s) \in Nat
    BY <2>1, FS_RemoveElement, FS_CardinalityType
  <2> QED
    BY <1>7, <2>1, <2>2, <2>3
<1>8. SUBSET A \subseteq G
  <2> HIDE DEF G
  <2> QED
    BY <1>6, <1>7, AllSubsets
<1>9. SumFunction(e) = Cardinality(A)
  BY <1>5, <1>8 DEF SumFunction
<1> QED
  BY <1>1, <1>2, <1>4, <1>9

-----------------------------------------------------------------------------
(* The totals of an order (Totals) *)

\* The library that the instance brings is the library.
LEMMA TotalsLibrary ==
    /\ \A f : Totals!SumFunction(f) = SumFunction(f)
BY DEF Totals!SumFunction, SumFunction, Totals!SumFunctionOnSet,
       SumFunctionOnSet, Totals!FoldFunctionOnSet, FoldFunctionOnSet,
       Totals!MapThenFoldSet, MapThenFoldSet

\* A sum of amounts is one, and not none if one of them is not.
LEMMA SumOfAmounts ==
    ASSUME NEW D, IsFiniteSet(D), NEW f \in [D -> Nat]
    PROVE  /\ SumFunction(f) \in Nat
           /\ (\E x \in D : f[x] > 0) => SumFunction(f) > 0
<1> DEFINE M == {n \in Nat : \A s \in Small(D, n) :
                                 SumFunctionOnSet(f, s) \in Nat}
<1>0. f \in [D -> Int] /\ DOMAIN f = D
  OBVIOUS
<1>1. ASSUME NEW n \in Nat, \A m \in Nat : m < n => m \in M,
             NEW s \in Small(D, n)
      PROVE  SumFunctionOnSet(f, s) \in Nat
  <2>1. CASE s = {}
    BY <1>0, <2>1, SumOfNone
  <2>2. CASE s # {}
    <3>1. n - 1 \in M /\ s \ {Pick(s)} \in Small(D, n - 1) /\ Pick(s) \in s
      BY <1>1, <2>2, OneLess, Picked
    <3>2. s \in SUBSET D /\ IsFiniteSet(s)
      BY DEF Small
    <3>3. SumFunctionOnSet(f, s) =
              f[Pick(s)] + SumFunctionOnSet(f, s \ {Pick(s)})
      BY <1>0, <2>2, <3>2, SumOfPicked
    <3>4. f[Pick(s)] \in Nat /\ SumFunctionOnSet(f, s \ {Pick(s)}) \in Nat
      BY <3>1, <3>2
    <3> QED
      BY <3>3, <3>4
  <2> QED
    BY <2>1, <2>2
<1>2. Nat \subseteq M
  <2>1. \A n \in Nat : (\A m \in Nat : m < n => m \in M) => n \in M
    BY <1>1
  <2> HIDE DEF M
  <2> QED
    BY <2>1, AllNumbers
<1>3. \A s \in SUBSET D : SumFunctionOnSet(f, s) \in Nat
  <2> SUFFICES ASSUME NEW s \in SUBSET D
               PROVE  SumFunctionOnSet(f, s) \in Nat
    OBVIOUS
  <2>1. Cardinality(s) \in M /\ s \in Small(D, Cardinality(s))
    BY <1>2, FS_Subset, FS_CardinalityType DEF Small
  <2> QED
    BY <2>1
<1>4. ASSUME NEW x \in D, f[x] > 0
      PROVE  SumFunctionOnSet(f, D) > 0
  <2>1. SumFunctionOnSet(f, D) = f[x] + SumFunctionOnSet(f, D \ {x})
    BY <1>0, SumOfSome
  <2>2. f[x] \in Nat /\ SumFunctionOnSet(f, D \ {x}) \in Nat
    BY <1>3
  <2> QED
    BY <1>4, <2>1, <2>2
<1> QED
  BY <1>0, <1>3, <1>4 DEF SumFunction

\* The subtotal is a whole amount, and of goods that cost something it is
\* something.
LEMMA SubtotalIsAmount ==
    ASSUME Totals!TotalsAssumption, IsFiniteSet(Products),
           NEW items \in [Products -> 0..MaxStock],
           NEW prices \in [Products -> Prices]
    PROVE  /\ Totals!Subtotal(items, prices) \in Nat
           /\ 0 \notin Prices /\ items # Totals!Empty =>
             Totals!Subtotal(items, prices) > 0
<1> DEFINE f == [p \in Products |-> prices[p] * items[p]]
<1>0. Prices \subseteq Nat /\ MaxStock \in Nat
  BY DEF Totals!TotalsAssumption
<1>1. ASSUME NEW p \in Products
      PROVE  prices[p] \in Nat /\ items[p] \in Nat
  <2> HIDE DEF f
  <2>1. prices[p] \in Prices /\ items[p] \in 0..MaxStock
    OBVIOUS
  <2>2. \A n \in 0..MaxStock : n \in Nat
    BY <1>0
  <2> QED
    BY <1>0, <2>1, <2>2, Zenon
<1>2. \A a, b \in Nat : a * b \in Nat /\ (a > 0 /\ b > 0 => a * b > 0)
  OBVIOUS
<1>3. f \in [Products -> Nat]
  BY <1>1, <1>2
<1>4. ASSUME 0 \notin Prices, items # Totals!Empty
      PROVE  \E p \in Products : f[p] > 0
  <2>1. PICK p \in Products : items[p] # 0
    BY <1>4 DEF Totals!Empty
  <2>2. prices[p] > 0 /\ items[p] > 0
    BY <1>1, <1>4, <2>1
  <2> QED
    BY <1>1, <1>2, <2>2
<1>5. Totals!Subtotal(items, prices) = SumFunction(f)
  BY TotalsLibrary DEF Totals!Subtotal
<1> HIDE DEF f
<1> QED
  BY <1>3, <1>4, <1>5, SumOfAmounts

\* The tax is the exact one to half a cent, wherever half a cent is rounded to.
LEMMA TaxIsExact ==
    ASSUME NEW cents \in Nat, NEW rate \in Nat
    PROVE  /\ Totals!CalculateTax(cents, rate) \in Nat
           /\ 2 * (cents * rate - 100 * Totals!CalculateTax(cents, rate))
                  \in -100..100
<1>1. \A a \in Nat :
          /\ (2 * a + 100) \div 200 \in Nat
          /\ 2 * (a - 100 * ((2 * a + 100) \div 200)) \in -100..100
          /\ a % 100 = 50 =>
                 /\ a \div 100 \in Nat
                 /\ 2 * (a - 100 * (a \div 100)) \in -100..100
  OBVIOUS
<1>2. cents * rate \in Nat /\ 2 * cents * rate = 2 * (cents * rate)
  OBVIOUS
<1> QED
  BY <1>1, <1>2 DEF Totals!CalculateTax

\* What an order says it costs is what its goods cost at prices there were.
IsPriced(items, prices, t) ==
    t = Totals!CalculateTotals(items, prices, TAX_RATE,
                               FREE_SHIPPING_THRESHOLD_CENTS,
                               FLAT_SHIPPING_CENTS)
Priced(items, t) ==
    \E prices \in [Products -> Prices] : IsPriced(items, prices, t)

LEMMA PricedIsExact ==
    ASSUME Totals!TotalsAssumption, IsFiniteSet(Products),
           NEW items \in [Products -> 0..MaxStock], NEW t, Priced(items, t)
    PROVE  /\ t \in [subtotal : Nat, shipping : Nat, tax : Nat, total : Nat]
           /\ t.total = t.subtotal + t.shipping + t.tax
           /\ 2 * (t.subtotal * TAX_RATE - 100 * t.tax) \in -100..100
           /\ Totals!Default /\ 0 \notin Prices /\ items # Totals!Empty =>
                  t.shipping = Totals!Quote("standard", t.subtotal)
<1>1. PICK prices \in [Products -> Prices] : IsPriced(items, prices, t)
  BY DEF Priced
<1> DEFINE sub == Totals!Subtotal(items, prices)
           ship == Totals!CalculateShipping(sub, FREE_SHIPPING_THRESHOLD_CENTS,
                                            FLAT_SHIPPING_CENTS)
           tax == Totals!CalculateTax(sub, TAX_RATE)
<1>2. t = [subtotal |-> sub, shipping |-> ship, tax |-> tax,
           total |-> sub + ship + tax]
  BY <1>1 DEF IsPriced, Totals!CalculateTotals
<1>3. /\ sub \in Nat
      /\ 0 \notin Prices /\ items # Totals!Empty => sub > 0
  BY SubtotalIsAmount
<1>4. tax \in Nat /\ 2 * (sub * TAX_RATE - 100 * tax) \in -100..100
  <2>1. TAX_RATE \in Nat
    BY DEF Totals!TotalsAssumption
  <2> HIDE DEF sub
  <2> QED
    BY <1>3, <2>1, TaxIsExact
<1>5. ship \in Nat
  BY DEF Totals!CalculateShipping, Totals!TotalsAssumption
<1>6. Totals!Default /\ sub > 0 => ship = Totals!Quote("standard", sub)
  BY <1>3 DEF Totals!Default, Totals!CalculateShipping, Totals!Quote
<1> HIDE DEF sub, ship, tax
<1>7. /\ t.subtotal = sub /\ t.shipping = ship /\ t.tax = tax
      /\ t.total = sub + ship + tax
  BY <1>2
<1> QED
  BY <1>2, <1>3, <1>4, <1>5, <1>6, <1>7

TotalsInv ==
    /\ lines \in [Products -> 0..MaxStock]
    /\ price \in [Products -> Prices]
    /\ stock \in [Products -> 0..MaxStock]
    /\ level \in ServiceLevels
    /\ placed # Totals!NoOrder =>
           /\ placed.items \in [Products -> 0..MaxStock]
           /\ placed.items # Totals!Empty
           /\ Priced(placed.items, placed.totals)
           /\ placed.totals.total = placed.shown.total

LEMMA TotalsStep ==
    ASSUME Totals!TotalsAssumption, TotalsInv, [Totals!Next]_(Totals!vars)
    PROVE  TotalsInv'
<1> USE DEF TotalsInv
<1>1. CASE Totals!Place
  <2>1. /\ placed' = [items |-> Totals!Items, totals |-> Totals!CheckoutTotals,
                     shown |-> seen, level |-> level]
        /\ Totals!Items # Totals!Empty
        /\ seen.total = Totals!CheckoutTotals.total
    BY <1>1 DEF Totals!Place, Totals!PriceChanged
  <2>2. Totals!Items \in [Products -> 0..MaxStock]
    BY DEF Totals!Items, Totals!Available
  <2>3. Priced(Totals!Items, Totals!CheckoutTotals)
    BY DEF Priced, IsPriced, Totals!CheckoutTotals
  <2>4. /\ placed'.items = Totals!Items
        /\ placed'.totals = Totals!CheckoutTotals
        /\ placed'.shown = seen
    BY <2>1
  <2>5. UNCHANGED <<lines, price, stock, level>>
    BY <1>1 DEF Totals!Place
  <2>6. Priced(Totals!Items, Totals!CheckoutTotals) <=>
          Priced(placed'.items, placed'.totals)
    BY <2>4
  <2> HIDE DEF Totals!Items, Totals!CheckoutTotals
  <2>7. Totals!Empty' = Totals!Empty
    BY DEF Totals!Empty
  <2> QED
    BY <2>1, <2>2, <2>3, <2>4, <2>5, <2>7 DEF Priced, IsPriced
<1>2. CASE \/ Totals!SetLine \/ Totals!Choose \/ Totals!Preview
           \/ Totals!Reprice \/ Totals!Restock
          \/ UNCHANGED Totals!vars
  <2>1. placed' = placed
    BY <1>2
    DEF Totals!SetLine, Totals!Choose, Totals!Preview, Totals!Reprice,
        Totals!Restock, Totals!vars
  <2>2. /\ lines' \in [Products -> 0..MaxStock]
        /\ price' \in [Products -> Prices]
        /\ stock' \in [Products -> 0..MaxStock] /\ level' \in ServiceLevels
    BY <1>2
    DEF Totals!SetLine, Totals!Choose, Totals!Preview, Totals!Reprice,
        Totals!Restock, Totals!vars
  <2> QED
    BY <2>1, <2>2
<1> QED
  BY <1>1, <1>2 DEF Totals!Next

\* "The customer can never be charged a total they did not see", and it is
\* exact to half a cent, wherever the float product of a tie falls; the cart, the
\* checkout and the quote say the same of goods that are not for free.
THEOREM OrderedAsSeen ==
    ASSUME Totals!TotalsAssumption, IsFiniteSet(Products)
    PROVE  /\ Totals!Spec =>
             [](Totals!TypeOK /\ Totals!ChargedAsSeen /\ Totals!ExactToTheCent)
           /\ 0 \notin Prices => (Totals!Spec => []Totals!OneTruth)
<1>1. Totals!Init => TotalsInv
  BY DEF Totals!Init, TotalsInv, Totals!Empty, Totals!TotalsAssumption
<1>2. TotalsInv /\ [Totals!Next]_(Totals!vars) => TotalsInv'
  BY TotalsStep
<1>3. TotalsInv =>
        Totals!TypeOK /\ Totals!ChargedAsSeen /\ Totals!ExactToTheCent
  <2> SUFFICES ASSUME TotalsInv
               PROVE  /\ Totals!TypeOK /\ Totals!ChargedAsSeen
                      /\ Totals!ExactToTheCent
    OBVIOUS
  <2>1. CASE placed = Totals!NoOrder
    BY <2>1
    DEF TotalsInv, Totals!TypeOK, Totals!ChargedAsSeen, Totals!ExactToTheCent
  <2>2. CASE placed # Totals!NoOrder
    <3>1. /\ placed.items \in [Products -> 0..MaxStock]
          /\ Priced(placed.items, placed.totals)
          /\ placed.totals.total = placed.shown.total
      BY <2>2 DEF TotalsInv
    <3> DEFINE t == placed.totals
    <3>2. /\ t \in [subtotal : Nat, shipping : Nat, tax : Nat, total : Nat]
          /\ t.total = t.subtotal + t.shipping + t.tax
          /\ 2 * (t.subtotal * TAX_RATE - 100 * t.tax) \in -100..100
      BY <3>1, PricedIsExact
    <3> QED
      BY <2>2, <3>1, <3>2
      DEF TotalsInv, Totals!TypeOK, Totals!ChargedAsSeen, Totals!ExactToTheCent
  <2> QED
    BY <2>1, <2>2
<1>4. 0 \notin Prices /\ TotalsInv => Totals!OneTruth
  <2> SUFFICES ASSUME 0 \notin Prices, TotalsInv, Totals!Default
               PROVE  /\ Totals!CartTotals = Totals!CheckoutTotals
                      /\ placed # Totals!NoOrder /\ placed.level = "standard"
                         => placed.totals.shipping =
                                Totals!Quote("standard",
                                             placed.totals.subtotal)
    BY DEF Totals!OneTruth
  <2>1. Totals!CartTotals = Totals!CheckoutTotals
    BY DEF Totals!CartTotals, Totals!CheckoutTotals, Totals!Default
  <2>2. ASSUME placed # Totals!NoOrder
        PROVE  placed.totals.shipping =
                   Totals!Quote("standard", placed.totals.subtotal)
    BY <2>2, PricedIsExact DEF TotalsInv
  <2> QED
    BY <2>1, <2>2
<1>5. Totals!Spec => []TotalsInv
  BY <1>1, <1>2, PTL DEF Totals!Spec
<1>6. Totals!Spec =>
        [](Totals!TypeOK /\ Totals!ChargedAsSeen /\ Totals!ExactToTheCent)
  BY <1>3, <1>5, PTL
<1>7. ASSUME 0 \notin Prices
      PROVE  Totals!Spec => []Totals!OneTruth
  <2>1. TotalsInv => Totals!OneTruth
    BY <1>4, <1>7
  <2> QED
    BY <1>5, <2>1, PTL
<1> QED
  BY <1>6, <1>7

-----------------------------------------------------------------------------
(* The rating of a product (ReviewRollup) *)

\* The library that the instance brings is the library.
LEMMA RollupLibrary ==
    /\ \A S : /\ Rollup!Cardinality(S) = Cardinality(S)
              /\ Rollup!IsFiniteSet(S) <=> IsFiniteSet(S)
    /\ \A f : Rollup!SumFunction(f) = SumFunction(f)
BY DEF Rollup!Cardinality, Cardinality, Rollup!IsFiniteSet, IsFiniteSet,
       Rollup!SumFunction, SumFunction, Rollup!SumFunctionOnSet,
       SumFunctionOnSet, Rollup!FoldFunctionOnSet, FoldFunctionOnSet,
       Rollup!MapThenFoldSet, MapThenFoldSet

\* A request that has locked a row is about the review that is there.
Works(r) == req[r].at \in {"trigger", "product", "commit"}
RowIsHeld(r) ==
    /\ rowOf[req[r].user] = r
    /\ req[r].does \in Operations
    /\ (req[r].does = "create") <=> (review[req[r].user] = Rollup!NoReview)
    /\ req[r].row \in Rollup!NewRows(req[r].does, review[req[r].user])
    /\ req[r].does = "helpful" => review[req[r].user].helpful < MaxVotes

CallsTyped ==
    req \in [Requests ->
        [at : {"idle", "row", "trigger", "product", "commit", "notify",
               "done", "refused", "dead"},
         does : Operations \cup {Rollup!None}, user : Users, row : Rollup!Rows,
         agg : SUBSET (Users \X Ratings)]]

RollupInv ==
    /\ review \in [Users -> Rollup!Rows]
    /\ rowOf \in [Users -> Requests \cup {Rollup!None}]
    /\ CallsTyped
    /\ \A r \in Requests : Works(r) => RowIsHeld(r)
    /\ \A r \in Requests : req[r].at = "row" => req[r].does \in Operations
    /\ \A u \in Users : rowOf[u] # Rollup!None =>
           Works(rowOf[u]) /\ req[rowOf[u]].user = u

LEMMA NoneIsNoRequest == Rollup!ReviewAssumption => Rollup!None \notin Requests
BY DEF Rollup!ReviewAssumption, Rollup!None

\* The rows that an operation may make of one that is there.
LEMMA NewRowsAreRows ==
    ASSUME Rollup!ReviewAssumption, NEW o \in Operations,
           NEW old \in Rollup!Rows,
           (o = "create") <=> (old = Rollup!NoReview),
           o = "helpful" => old.helpful < MaxVotes,
           NEW new \in Rollup!NewRows(o, old)
    PROVE  /\ new \in Rollup!Rows
           /\ o # "moderate" /\ old.status = "rejected" =>
                  new.status # "published"
           /\ o = "helpful" =>
                  new.status = old.status /\ new.stars = old.stars
<1>1. /\ Operations \subseteq {"create", "update", "delete", "helpful",
                               "moderate"}
      /\ MaxVotes \in Nat
  BY DEF Rollup!ReviewAssumption
<1>2. CASE o = "create"
  <2>1. PICK s \in Ratings :
            new = [stars |-> s, status |-> "published", helpful |-> 0]
    BY <1>2 DEF Rollup!NewRows
  <2> QED
    BY <1>1, <1>2, <2>1 DEF Rollup!Rows, Rollup!NoReview
<1>3. ASSUME o # "create"
      PROVE  old \in [stars : Ratings, status : {"published", "rejected"},
                      helpful : 0..MaxVotes]
  BY <1>3 DEF Rollup!Rows
<1>4. CASE o = "update"
  <2>1. PICK s \in Ratings : new = [old EXCEPT !.stars = s]
    BY <1>4 DEF Rollup!NewRows
  <2> QED
    BY <1>3, <1>4, <2>1 DEF Rollup!Rows
<1>5. CASE o = "delete"
  BY <1>5 DEF Rollup!NewRows, Rollup!Rows, Rollup!NoReview
<1>6. CASE o = "helpful"
  <2>1. new = [old EXCEPT !.helpful = @ + 1]
    BY <1>6 DEF Rollup!NewRows
  <2>2. old.helpful + 1 \in 0..MaxVotes
    BY <1>1, <1>3, <1>6
  <2> QED
    BY <1>3, <1>6, <2>1, <2>2 DEF Rollup!Rows
<1>7. CASE o = "moderate"
  <2>1. PICK s \in {"published", "rejected"} : new = [old EXCEPT !.status = s]
    BY <1>7 DEF Rollup!NewRows
  <2> QED
    BY <1>3, <1>7, <2>1 DEF Rollup!Rows
<1> QED
  BY <1>1, <1>2, <1>4, <1>5, <1>6, <1>7

\* Who has nothing to do has no row.
LEMMA IdleIsTyped ==
    ASSUME Rollup!ReviewAssumption
    PROVE  /\ Rollup!Idle \in [at : {"idle"},
                               does : Operations \cup {Rollup!None},
                               user : Users, row : Rollup!Rows,
                               agg : SUBSET (Users \X Ratings)]
           /\ Rollup!Idle.at = "idle"
<1>1. (CHOOSE u \in Users : TRUE) \in Users
  BY DEF Rollup!ReviewAssumption
<1> QED
  BY <1>1 DEF Rollup!Idle, Rollup!Rows

LEMMA InitRollup == Rollup!ReviewAssumption /\ Rollup!Init => RollupInv
<1> SUFFICES ASSUME Rollup!ReviewAssumption, Rollup!Init
             PROVE  RollupInv
  OBVIOUS
<1>1. CallsTyped
  BY IdleIsTyped DEF Rollup!Init, CallsTyped
<1>2. \A r \in Requests : req[r].at = "idle"
  BY IdleIsTyped DEF Rollup!Init
<1> QED
  BY <1>1, <1>2 DEF Rollup!Init, RollupInv, Rollup!Rows, Works

\* What a step of a request does to the others.
LEMMA ReqStep ==
    ASSUME CallsTyped, NEW r \in Requests, NEW v,
           v \in [at : {"idle", "row", "trigger", "product", "commit",
                        "notify", "done", "refused", "dead"},
                  does : Operations \cup {Rollup!None}, user : Users,
                  row : Rollup!Rows,
                  agg : SUBSET (Users \X Ratings)],
           req' = [req EXCEPT ![r] = v]
    PROVE  /\ CallsTyped' /\ req'[r] = v
           /\ \A q \in Requests \ {r} : req'[q] = req[q]
BY DEF CallsTyped, Rollup!Rows, Rollup!NoReview

\* Of a request the others' rows do not depend.
LEMMA BeginRollup ==
    ASSUME Rollup!ReviewAssumption, RollupInv, NEW r \in Requests,
           Rollup!Begin(r)
    PROVE  /\ RollupInv'
           /\ req[r].at = "idle" /\ req'[r].at \in {"row", "refused"}
           /\ \A q \in Requests \ {r} : req'[q] = req[q]
<1>1. PICK o \in Operations, u \in Users, b \in BOOLEAN :
          req' = [req EXCEPT ![r].does = o, ![r].user = u,
                     ![r].at = IF o = "create" /\ ~(b /\ Rollup!MayReview(u))
                               THEN "refused"
                               ELSE "row"]
  BY DEF Rollup!Begin
<1> DEFINE l == IF o = "create" /\ ~(b /\ Rollup!MayReview(u))
                THEN "refused" ELSE "row"
           v == [req[r] EXCEPT !.does = o, !.user = u, !.at = l]
<1>2. l \in {"row", "refused"}
  OBVIOUS
<1> HIDE DEF l
<1>3. /\ v \in [at : {"idle", "row", "trigger", "product", "commit",
                      "notify", "done", "refused", "dead"},
                does : Operations \cup {Rollup!None}, user : Users,
                row : Rollup!Rows,
                agg : SUBSET (Users \X Ratings)]
      /\ v.at = l /\ v.does = o
  BY <1>2 DEF RollupInv, CallsTyped
<1>4. req' = [req EXCEPT ![r] = v]
  BY <1>1 DEF l, RollupInv, CallsTyped
<1> HIDE DEF v
<1>5. /\ CallsTyped' /\ req'[r] = v
      /\ \A q \in Requests \ {r} : req'[q] = req[q]
  BY <1>3, <1>4, ReqStep DEF RollupInv
<1>6. UNCHANGED <<review, rowOf>> /\ req[r].at = "idle"
  BY DEF Rollup!Begin
<1>7. ~Works(r) /\ ~Works(r)'
  BY <1>2, <1>3, <1>5, <1>6 DEF Works
<1>8. \A q \in Requests \ {r} : Works(q)' = Works(q)
  BY <1>5 DEF Works
<1>9. \A q \in Requests : Works(q)' => RowIsHeld(q)'
  BY <1>5, <1>6, <1>7, <1>8 DEF RowIsHeld, RollupInv
<1>10. \A w \in Users : rowOf'[w] # Rollup!None =>
           Works(rowOf[w])' /\ req'[rowOf[w]].user = w
  BY <1>5, <1>6, <1>7, <1>8 DEF RollupInv
<1> QED
  BY <1>2, <1>3, <1>5, <1>6, <1>9, <1>10 DEF RollupInv

\* A request that goes on without changing a row.
LEMMA GoOnRollup ==
    ASSUME Rollup!ReviewAssumption, RollupInv, NEW r \in Requests,
           Rollup!Trigger(r) \/ Rollup!LockProduct(r) \/ Rollup!Notify(r)
    PROVE  RollupInv'
<1>1. UNCHANGED <<review, rowOf>>
  BY DEF Rollup!Trigger, Rollup!LockProduct, Rollup!Notify
<1>2. \E v : /\ req' = [req EXCEPT ![r] = v]
             /\ v \in [at : {"product", "commit", "done"},
                       does : Operations \cup {Rollup!None}, user : Users,
                       row : Rollup!Rows, agg : SUBSET (Users \X Ratings)]
             /\ Works(r) <=> v.at \in {"product", "commit"}
             /\ v.does = req[r].does /\ v.user = req[r].user
             /\ v.row = req[r].row
  <2> USE DEF RollupInv, CallsTyped
  <2>1. CASE Rollup!Trigger(r)
    <3> DEFINE v == [req[r] EXCEPT !.agg = Rollup!Aggregate(r),
                                   !.at = "product"]
    <3>1. Rollup!Aggregate(r) \in SUBSET (Users \X Ratings)
      <4> DEFINE T == [review EXCEPT ![req[r].user] = req[r].row]
      <4>1. T \in [Users -> Rollup!Rows]
        OBVIOUS
      <4>2. \A u \in Users : T[u].status = "published" =>
                T[u].stars \in Ratings
        BY <4>1 DEF Rollup!Rows, Rollup!NoReview
      <4> HIDE DEF T
      <4>3. Rollup!Published(T) \in SUBSET (Users \X Ratings)
        BY <4>2 DEF Rollup!Published
      <4> QED
        BY <4>3 DEF Rollup!Aggregate, T
    <3>2. req' = [req EXCEPT ![r] = v]
      BY <2>1 DEF Rollup!Trigger
    <3>5. ASSUME NEW a \in SUBSET (Users \X Ratings)
          PROVE  LET w == [req[r] EXCEPT !.agg = a, !.at = "product"] IN
                 /\ w \in [at : {"product", "commit", "done"},
                           does : Operations \cup {Rollup!None}, user : Users,
                           row : Rollup!Rows, agg : SUBSET (Users \X Ratings)]
                 /\ w.at = "product"
                 /\ w.does = req[r].does /\ w.user = req[r].user
                 /\ w.row = req[r].row
      <4>1. req[r] \in [at : {"idle", "row", "trigger", "product", "commit",
                             "notify", "done", "refused", "dead"},
                       does : Operations \cup {Rollup!None}, user : Users,
                       row : Rollup!Rows, agg : SUBSET (Users \X Ratings)]
        OBVIOUS
      <4> HIDE DEF RollupInv, CallsTyped
      <4> QED
        BY <4>1
    <3>3. /\ v \in [at : {"product", "commit", "done"},
                    does : Operations \cup {Rollup!None}, user : Users,
                    row : Rollup!Rows, agg : SUBSET (Users \X Ratings)]
          /\ v.at = "product"
          /\ v.does = req[r].does /\ v.user = req[r].user
          /\ v.row = req[r].row
      BY <3>1, <3>5, Zenon
    <3>4. Works(r)
      BY <2>1 DEF Rollup!Trigger, Works
    <3> HIDE DEF v
    <3> QED
      BY <3>2, <3>3, <3>4
  <2>2. CASE Rollup!LockProduct(r)
    <3> DEFINE v == [req[r] EXCEPT !.at = "commit"]
    <3>1. req' = [req EXCEPT ![r] = v]
      BY <2>2 DEF Rollup!LockProduct, Rollup!Goto
    <3>2. /\ v \in [at : {"product", "commit", "done"},
                    does : Operations \cup {Rollup!None}, user : Users,
                    row : Rollup!Rows, agg : SUBSET (Users \X Ratings)]
          /\ v.at = "commit"
          /\ v.does = req[r].does /\ v.user = req[r].user
          /\ v.row = req[r].row
      OBVIOUS
    <3>3. Works(r)
      BY <2>2 DEF Rollup!LockProduct, Works
    <3> HIDE DEF v
    <3> QED
      BY <3>1, <3>2, <3>3
  <2>3. CASE Rollup!Notify(r)
    <3> DEFINE v == [req[r] EXCEPT !.at = "done"]
    <3>1. req' = [req EXCEPT ![r] = v]
      BY <2>3 DEF Rollup!Notify, Rollup!Goto
    <3>2. /\ v \in [at : {"product", "commit", "done"},
                    does : Operations \cup {Rollup!None}, user : Users,
                    row : Rollup!Rows, agg : SUBSET (Users \X Ratings)]
          /\ v.at = "done"
          /\ v.does = req[r].does /\ v.user = req[r].user
          /\ v.row = req[r].row
      OBVIOUS
    <3>3. ~Works(r)
      BY <2>3 DEF Rollup!Notify, Works
    <3> HIDE DEF v
    <3> QED
      BY <3>1, <3>2, <3>3
  <2> QED
    BY <2>1, <2>2, <2>3
<1>3. PICK v : /\ req' = [req EXCEPT ![r] = v]
               /\ v \in [at : {"product", "commit", "done"},
                         does : Operations \cup {Rollup!None}, user : Users,
                         row : Rollup!Rows, agg : SUBSET (Users \X Ratings)]
               /\ Works(r) <=> v.at \in {"product", "commit"}
               /\ v.does = req[r].does /\ v.user = req[r].user
               /\ v.row = req[r].row
  BY <1>2
<1>4. /\ CallsTyped' /\ req'[r] = v
      /\ \A q \in Requests \ {r} : req'[q] = req[q]
  BY <1>3, ReqStep DEF RollupInv
<1>5. \A q \in Requests : Works(q)' = Works(q)
  BY <1>3, <1>4 DEF Works
<1>6. \A q \in Requests : Works(q)' => RowIsHeld(q)'
  BY <1>1, <1>3, <1>4, <1>5 DEF RowIsHeld, RollupInv
<1>7. \A w \in Users : rowOf'[w] # Rollup!None =>
          Works(rowOf[w])' /\ req'[rowOf[w]].user = w
  BY <1>1, <1>3, <1>4, <1>5 DEF RollupInv
<1>8. \A q \in Requests : req'[q].at = "row" => req'[q].does \in Operations
  BY <1>3, <1>4 DEF RollupInv
<1> QED
  BY <1>1, <1>4, <1>6, <1>7, <1>8 DEF RollupInv

LEMMA LockRowRollup ==
    ASSUME Rollup!ReviewAssumption, RollupInv, NEW r \in Requests,
           Rollup!LockRow(r)
    PROVE  RollupInv'
<1> DEFINE u == req[r].user
           o == req[r].does
<1>1. /\ req[r].at = "row" /\ rowOf[u] = Rollup!None /\ u \in Users
      /\ o \in Operations /\ review[u] \in Rollup!Rows /\ UNCHANGED review
      /\ o = "helpful" => review[u].helpful < MaxVotes
  BY DEF Rollup!LockRow, RollupInv, CallsTyped
<1>2. CASE (o = "create") = (review[u] # Rollup!NoReview)
  <2> DEFINE v == [req[r] EXCEPT !.at = "refused"]
  <2>1. req' = [req EXCEPT ![r] = v] /\ UNCHANGED rowOf
    BY <1>2 DEF Rollup!LockRow, Rollup!Goto
  <2>2. /\ v \in [at : {"idle", "row", "trigger", "product", "commit",
                        "notify", "done", "refused", "dead"},
                  does : Operations \cup {Rollup!None}, user : Users,
                  row : Rollup!Rows,
                  agg : SUBSET (Users \X Ratings)]
        /\ v.at = "refused"
    BY DEF RollupInv, CallsTyped
  <2> HIDE DEF v
  <2>3. /\ CallsTyped' /\ req'[r] = v
        /\ \A q \in Requests \ {r} : req'[q] = req[q]
    BY <2>1, <2>2, ReqStep DEF RollupInv
  <2>4. \A q \in Requests : Works(q)' = Works(q)
    BY <1>1, <2>2, <2>3 DEF Works
  <2>5. ~Works(r)
    BY <1>1 DEF Works
  <2>6. \A q \in Requests : Works(q)' => RowIsHeld(q)'
    BY <1>1, <2>1, <2>3, <2>4, <2>5 DEF RowIsHeld, RollupInv
  <2>7. \A w \in Users : rowOf'[w] # Rollup!None =>
            Works(rowOf[w])' /\ req'[rowOf[w]].user = w
    BY <2>1, <2>3, <2>4, <2>5 DEF RollupInv
  <2>8. \A q \in Requests : req'[q].at = "row" => req'[q].does \in Operations
    BY <2>2, <2>3 DEF RollupInv
  <2> QED
    BY <1>1, <2>1, <2>3, <2>6, <2>7, <2>8 DEF RollupInv
<1>3. CASE (o = "create") # (review[u] # Rollup!NoReview)
  <2>1. PICK new \in Rollup!NewRows(o, review[u]) :
            Rollup!Put(r, new, "trigger")
    BY <1>3 DEF Rollup!LockRow
  <2>2. rowOf' = [rowOf EXCEPT ![u] = r]
    BY <1>3 DEF Rollup!LockRow
  <2>3. (o = "create") <=> (review[u] = Rollup!NoReview)
    BY <1>3
  <2>4. new \in Rollup!Rows
    BY <1>1, <2>3, NewRowsAreRows
  <2> DEFINE v == [req[r] EXCEPT !.at = "trigger", !.row = new]
  <2>5. req' = [req EXCEPT ![r] = v]
    BY <2>1 DEF Rollup!Put, RollupInv, CallsTyped
  <2>6. /\ v \in [at : {"idle", "row", "trigger", "product", "commit",
                        "notify", "done", "refused", "dead"},
                  does : Operations \cup {Rollup!None}, user : Users,
                  row : Rollup!Rows,
                  agg : SUBSET (Users \X Ratings)]
        /\ v.at = "trigger" /\ v.row = new /\ v.user = u /\ v.does = o
    BY <2>4 DEF RollupInv, CallsTyped
  <2> HIDE DEF v
  <2>7. /\ CallsTyped' /\ req'[r] = v
        /\ \A q \in Requests \ {r} : req'[q] = req[q]
    BY <2>5, <2>6, ReqStep DEF RollupInv
  <2>8. ~Works(r) /\ Works(r)'
    BY <1>1, <2>6, <2>7 DEF Works
  <2>9. \A q \in Requests \ {r} : Works(q)' = Works(q)
    BY <2>7 DEF Works
  <2>10. rowOf' \in [Users -> Requests \cup {Rollup!None}] /\ rowOf'[u] = r
         /\ \A w \in Users \ {u} : rowOf'[w] = rowOf[w]
    BY <1>1, <2>2 DEF RollupInv
  <2>11. RowIsHeld(r)'
    BY <1>1, <2>1, <2>3, <2>6, <2>7, <2>10 DEF RowIsHeld
  <2>12. ASSUME NEW q \in Requests \ {r}, Works(q)
         PROVE  RowIsHeld(q)'
    <3>1. RowIsHeld(q) /\ req[q].user \in Users
      BY <2>12 DEF RollupInv, CallsTyped
    <3>2. req[q].user # u
      BY <1>1, <3>1, NoneIsNoRequest DEF RowIsHeld
    <3> QED
      BY <1>1, <2>7, <2>10, <3>1, <3>2 DEF RowIsHeld
  <2>13. ASSUME NEW w \in Users, rowOf'[w] # Rollup!None
         PROVE  /\ req'[rowOf'[w]].at \in {"trigger", "product", "commit"}
                /\ req'[rowOf'[w]].user = w
    <3>1. CASE w = u
      BY <2>6, <2>7, <2>8, <2>10, <3>1 DEF Works
    <3>2. CASE w # u
      <4>1. rowOf'[w] = rowOf[w] /\ rowOf[w] \in Requests
        BY <2>10, <2>13, <3>2 DEF RollupInv
      <4>2. Works(rowOf[w]) /\ req[rowOf[w]].user = w
        BY <2>13, <4>1 DEF RollupInv
      <4>3. rowOf[w] # r
        BY <2>8, <4>2
      <4> QED
        BY <2>7, <4>1, <4>2, <4>3 DEF Works
    <3> QED
      BY <3>1, <3>2
  <2>14. \A q \in Requests : req'[q].at = "row" => req'[q].does \in Operations
    BY <2>6, <2>7 DEF RollupInv
  <2> QED
    BY <1>1, <2>7, <2>9, <2>10, <2>11, <2>12, <2>13, <2>14 DEF RollupInv, Works
<1> QED
  BY <1>2, <1>3

\* The end of a request frees its row, and leaves the others theirs.
LEMMA EndRollup ==
    ASSUME Rollup!ReviewAssumption, RollupInv, NEW r \in Requests, NEW v,
           v \in [at : {"done", "notify", "dead"},
                  does : Operations \cup {Rollup!None}, user : Users,
                  row : Rollup!Rows,
                  agg : SUBSET (Users \X Ratings)],
           req' = [req EXCEPT ![r] = v], rowOf' = Rollup!Freed(r),
           review' \in [Users -> Rollup!Rows],
           \A w \in Users : review'[w] # review[w] =>
               Works(r) /\ w = req[r].user
    PROVE  RollupInv'
<1>1. /\ CallsTyped' /\ req'[r] = v
      /\ \A q \in Requests \ {r} : req'[q] = req[q]
  BY ReqStep DEF RollupInv
<1>2. ~Works(r)' /\ \A q \in Requests \ {r} : Works(q)' = Works(q)
  BY <1>1 DEF Works
<1>3. /\ rowOf' \in [Users -> Requests \cup {Rollup!None}]
      /\ \A w \in Users : IF rowOf[w] = r THEN rowOf'[w] = Rollup!None
                                           ELSE rowOf'[w] = rowOf[w]
  BY DEF Rollup!Freed, RollupInv
<1>4. ASSUME NEW q \in Requests, Works(q)'
      PROVE  RowIsHeld(q)'
  <2>1. q # r /\ Works(q) /\ req'[q] = req[q]
    BY <1>1, <1>2, <1>4
  <2>2. RowIsHeld(q) /\ req[q].user \in Users
    BY <2>1 DEF RollupInv, CallsTyped
  <2>3. rowOf'[req[q].user] = q
    BY <1>3, <2>1, <2>2 DEF RowIsHeld
  <2>4. review'[req[q].user] = review[req[q].user]
    <3>1. Works(r) => req[q].user # req[r].user
      BY <2>1, <2>2 DEF RollupInv, RowIsHeld
    <3> QED
      BY <2>2, <3>1
  <2> QED
    BY <2>1, <2>2, <2>3, <2>4 DEF RowIsHeld
<1>5. ASSUME NEW w \in Users, rowOf'[w] # Rollup!None
      PROVE  /\ req'[rowOf'[w]].at \in {"trigger", "product", "commit"}
             /\ req'[rowOf'[w]].user = w
  <2>1. rowOf'[w] = rowOf[w] /\ rowOf[w] \in Requests \ {r}
    BY <1>3, <1>5 DEF RollupInv
  <2>2. Works(rowOf[w]) /\ req[rowOf[w]].user = w
    BY <1>5, <2>1 DEF RollupInv
  <2> QED
    BY <1>1, <2>1, <2>2 DEF Works
<1>6. \A q \in Requests : req'[q].at = "row" => req'[q].does \in Operations
  BY <1>1 DEF RollupInv
<1> QED
  BY <1>1, <1>3, <1>4, <1>5, <1>6 DEF RollupInv, Works

LEMMA CommitIs ==
    ASSUME Rollup!ReviewAssumption, RollupInv, NEW r \in Requests,
           Rollup!Commit(r)
    PROVE  /\ Works(r) /\ RowIsHeld(r) /\ req[r].user \in Users
           /\ req[r].row \in Rollup!Rows /\ review' \in [Users -> Rollup!Rows]
           /\ review'[req[r].user] = req[r].row
           /\ \A w \in Users \ {req[r].user} : review'[w] = review[w]
<1>1. Works(r)
  BY DEF Rollup!Commit, Works
<1> QED
  BY <1>1 DEF Rollup!Commit, RollupInv, CallsTyped

LEMMA CommitRollup ==
    ASSUME Rollup!ReviewAssumption, RollupInv, NEW r \in Requests,
           Rollup!Commit(r)
    PROVE  RollupInv'
<1> DEFINE l == IF req[r].does = "moderate" THEN "notify" ELSE "done"
           v == [req[r] EXCEPT !.at = l]
<1>1. l \in {"done", "notify"}
  OBVIOUS
<1>2. req' = [req EXCEPT ![r] = v]
  BY DEF Rollup!Commit, Rollup!Goto
<1> HIDE DEF l
<1>3. v \in [at : {"done", "notify", "dead"},
             does : Operations \cup {Rollup!None},
             user : Users, row : Rollup!Rows, agg : SUBSET (Users \X Ratings)]
  BY <1>1 DEF RollupInv, CallsTyped
<1> HIDE DEF v
<1>4. \A w \in Users : review'[w] # review[w] =>
          Works(r) /\ w = req[r].user
  BY CommitIs
<1>5. rowOf' = Rollup!Freed(r) /\ review' \in [Users -> Rollup!Rows]
  BY CommitIs DEF Rollup!Commit
<1> QED
  BY <1>2, <1>3, <1>4, <1>5, EndRollup

LEMMA CrashRollup ==
    ASSUME Rollup!ReviewAssumption, RollupInv, NEW r \in Requests,
           Rollup!Crash(r)
    PROVE  RollupInv'
<1> DEFINE v == [Rollup!Idle EXCEPT !.at = "dead"]
<1>1. req' = [req EXCEPT ![r] = v]
  BY DEF Rollup!Crash
<1>2. v \in [at : {"done", "notify", "dead"},
             does : Operations \cup {Rollup!None},
             user : Users, row : Rollup!Rows, agg : SUBSET (Users \X Ratings)]
  BY IdleIsTyped
<1> HIDE DEF v
<1>3. rowOf' = Rollup!Freed(r) /\ review' = review
  BY DEF Rollup!Crash
<1> QED
  BY <1>1, <1>2, <1>3, EndRollup DEF RollupInv

LEMMA RollupStep ==
    ASSUME Rollup!ReviewAssumption, RollupInv, [Rollup!Next]_(Rollup!vars)
    PROVE  RollupInv'
<1>1. CASE Rollup!Drain \/ UNCHANGED Rollup!vars
  <2>1. UNCHANGED <<review, rowOf, req>>
    BY <1>1 DEF Rollup!Drain, Rollup!vars
  <2> QED
    BY <2>1 DEF RollupInv, CallsTyped, Works, RowIsHeld
<1> QED
  BY <1>1, BeginRollup, LockRowRollup, GoOnRollup, CommitRollup, CrashRollup
  DEF Rollup!Next, Rollup!Step

\* A review that a moderator has taken off the page comes back only by
\* moderation, or as a new one after it was deleted, whatever else is asked
\* for at the same time.
THEOREM HiddenStaysSo ==
    ASSUME Rollup!ReviewAssumption
    PROVE  Rollup!Spec => [][Rollup!HiddenStays]_(Rollup!vars)
<1>1. Rollup!Init => RollupInv
  BY InitRollup
<1>2. RollupInv /\ [Rollup!Next]_(Rollup!vars) => RollupInv'
  BY RollupStep
<1>3. ASSUME RollupInv, [Rollup!Next]_(Rollup!vars), NEW u \in Users,
             review[u].status = "rejected", review'[u].status = "published"
      PROVE  \E r \in Requests : req[r].at = "commit" /\
                                 req[r].does = "moderate"
  <2>1. PICK r \in Requests : Rollup!Commit(r)
    <3>1. review' # review
      BY <1>3
    <3> QED
      BY <1>3, <3>1
      DEF Rollup!Next, Rollup!Step, Rollup!Drain, Rollup!Begin, Rollup!LockRow,
          Rollup!Trigger, Rollup!LockProduct, Rollup!Notify, Rollup!Crash,
          Rollup!vars
  <2>2. u = req[r].user /\ review'[u] = req[r].row /\ RowIsHeld(r)
    BY <1>3, <2>1, CommitIs
  <2>3. req[r].does = "moderate"
    BY <1>3, <2>2, NewRowsAreRows DEF RowIsHeld, RollupInv
  <2> QED
    BY <2>1, <2>3 DEF Rollup!Commit
<1>4. RollupInv /\ [Rollup!Next]_(Rollup!vars) =>
        [Rollup!HiddenStays]_(Rollup!vars)
  BY <1>3 DEF Rollup!HiddenStays
<1> QED
  BY <1>1, <1>2, <1>4, PTL DEF Rollup!Spec
-----------------------------------------------------------------------------
\* One request after the other: what the trigger has read is what will be
\* there, and search has heard of it or will.
OneOpen == \A q, r \in Rollup!Open : q = r
RatingKept ==
    /\ OneOpen
    /\ rating = Rollup!Published(review)
    /\ \A r \in Requests : req[r].at \in {"product", "commit"} =>
           req[r].agg = Rollup!Aggregate(r)
    /\ outbox \in Nat
    /\ outbox = 0 /\ (\A r \in Requests : req[r].at # "notify") =>
           indexed = rating

LEMMA OneOpenStep ==
    ASSUME Rollup!ReviewAssumption, IsFiniteSet(Requests), MaxOpen = 1,
           RollupInv, RollupInv', OneOpen, [Rollup!Next]_(Rollup!vars)
    PROVE  OneOpen'
<1>1. ASSUME NEW r \in Requests, Rollup!Begin(r)
      PROVE  OneOpen'
  <2>1. Rollup!Open = {}
    <3>1. IsFiniteSet(Rollup!Open) /\ Cardinality(Rollup!Open) < 1
      BY <1>1, FS_Subset, RollupLibrary DEF Rollup!Begin, Rollup!Open
    <3> QED
      BY <3>1, FS_EmptySet, FS_CardinalityType
  <2>2. \A q \in Requests \ {r} : req'[q] = req[q]
    BY <1>1, BeginRollup
  <2>3. Rollup!Open' \subseteq {r}
    BY <2>1, <2>2 DEF Rollup!Open
  <2> QED
    BY <2>3 DEF OneOpen
<1>2. ASSUME NEW r \in Requests, Rollup!Step(r) \/ Rollup!Crash(r)
      PROVE  OneOpen'
  <2>1. r \in Rollup!Open
    BY <1>2
    DEF Rollup!Step, Rollup!LockRow, Rollup!Trigger, Rollup!LockProduct,
        Rollup!Commit, Rollup!Notify, Rollup!Crash, Rollup!Open, Rollup!Ended
  <2>2. \E v : req' = [req EXCEPT ![r] = v]
    BY <1>2
    DEF Rollup!Step, Rollup!LockRow, Rollup!Trigger, Rollup!LockProduct,
        Rollup!Commit, Rollup!Notify, Rollup!Crash, Rollup!Goto, Rollup!Put,
        RollupInv, CallsTyped
  <2>3. \A q \in Requests \ {r} : req'[q] = req[q]
    BY <2>2 DEF RollupInv, CallsTyped
  <2>4. Rollup!Open' \subseteq Rollup!Open
    BY <2>1, <2>3 DEF Rollup!Open
  <2> QED
    BY <2>4 DEF OneOpen
<1>3. CASE Rollup!Drain \/ UNCHANGED Rollup!vars
  BY <1>3 DEF Rollup!Drain, Rollup!vars, OneOpen, Rollup!Open
<1> QED
  BY <1>1, <1>2, <1>3 DEF Rollup!Next

\* A vote leaves the rating as it is.
LEMMA VoteKeepsRating ==
    ASSUME Rollup!ReviewAssumption, RollupInv, NEW r \in Requests,
           Rollup!Commit(r),
           req[r].does = "helpful"
    PROVE  Rollup!Published(review') = Rollup!Published(review)
<1>1. /\ RowIsHeld(r) /\ req[r].user \in Users
      /\ review'[req[r].user] = req[r].row
      /\ \A w \in Users \ {req[r].user} : review'[w] = review[w]
  BY CommitIs
<1> DEFINE u == req[r].user
<1>2. /\ review'[u].status = review[u].status
      /\ review'[u].stars = review[u].stars
  BY <1>1, NewRowsAreRows DEF RowIsHeld, RollupInv
<1>3. \A w \in Users : /\ review'[w].status = review[w].status
                       /\ review'[w].stars = review[w].stars
  BY <1>1, <1>2
<1> QED
  BY <1>3 DEF Rollup!Published

LEMMA RatingStep ==
    ASSUME Rollup!ReviewAssumption, IsFiniteSet(Requests), MaxOpen = 1,
           Crashes = FALSE, RollupInv, RollupInv', RatingKept,
           [Rollup!Next]_(Rollup!vars)
    PROVE  RatingKept'
<1>0. OneOpen'
  BY OneOpenStep DEF RatingKept
<1> USE DEF RatingKept
<1>1. ASSUME NEW r \in Requests, Rollup!Begin(r)
      PROVE  RatingKept'
  <2>1. /\ req[r].at = "idle" /\ req'[r].at \in {"row", "refused"}
        /\ \A q \in Requests \ {r} : req'[q] = req[q]
    BY <1>1, BeginRollup
  <2>2. UNCHANGED <<review, rating, outbox, indexed>>
    BY <1>1 DEF Rollup!Begin
  <2> QED
    BY <1>0, <2>1, <2>2 DEF Rollup!Aggregate, Rollup!Published
<1>2. ASSUME NEW r \in Requests, Rollup!LockRow(r)
      PROVE  RatingKept'
  <2>1. /\ req'[r].at \in {"trigger", "refused"} /\ req[r].at = "row"
        /\ \A q \in Requests \ {r} : req'[q] = req[q]
    BY <1>2 DEF Rollup!LockRow, Rollup!Goto, Rollup!Put, RollupInv, CallsTyped
  <2>2. UNCHANGED <<review, rating, outbox, indexed>>
    BY <1>2 DEF Rollup!LockRow
  <2> QED
    BY <1>0, <2>1, <2>2 DEF Rollup!Aggregate, Rollup!Published
<1>3. ASSUME NEW r \in Requests, Rollup!Trigger(r) \/ Rollup!LockProduct(r)
      PROVE  RatingKept'
  <2>1. /\ req[r].at # "notify" /\ req'[r].at \in {"product", "commit"}
        /\ req'[r].user = req[r].user /\ req'[r].row = req[r].row
        /\ req'[r].agg = Rollup!Aggregate(r)
        /\ \A q \in Requests \ {r} : req'[q] = req[q]
    <3>1. CASE Rollup!Trigger(r)
      <4>1. req' = [req EXCEPT ![r].agg = Rollup!Aggregate(r),
                               ![r].at = "product"]
            /\ req[r].at = "trigger"
        BY <3>1 DEF Rollup!Trigger
      <4> QED
        BY <4>1 DEF RollupInv, CallsTyped
    <3>2. CASE Rollup!LockProduct(r)
      <4>1. req' = [req EXCEPT ![r].at = "commit"] /\ req[r].at = "product"
        BY <3>2 DEF Rollup!LockProduct, Rollup!Goto
      <4> QED
        BY <4>1 DEF RollupInv, CallsTyped
    <3> QED
      BY <1>3, <3>1, <3>2
  <2>2. UNCHANGED <<review, rating, outbox, indexed>>
    BY <1>3 DEF Rollup!Trigger, Rollup!LockProduct
  <2>3. Rollup!Aggregate(r)' = Rollup!Aggregate(r)
    BY <2>1, <2>2 DEF Rollup!Aggregate, Rollup!Published
  <2>4. \A q \in Requests \ {r} : Rollup!Aggregate(q)' = Rollup!Aggregate(q)
    BY <2>1, <2>2 DEF Rollup!Aggregate, Rollup!Published
  <2>5. Rollup!Published(review)' = Rollup!Published(review)
    BY <2>2 DEF Rollup!Published
  <2> QED
    BY <1>0, <2>1, <2>2, <2>3, <2>4, <2>5
<1>4. ASSUME NEW r \in Requests, Rollup!Commit(r)
      PROVE  RatingKept'
  <2>1. /\ req[r].at = "commit"
        /\ req'[r].at = IF req[r].does = "moderate" THEN "notify" ELSE "done"
        /\ \A q \in Requests \ {r} : req'[q] = req[q]
    BY <1>4 DEF Rollup!Commit, Rollup!Goto, RollupInv, CallsTyped
  <2>2. r \in Rollup!Open /\ \A q \in Requests \ {r} : q \notin Rollup!Open
    BY <2>1 DEF Rollup!Open, Rollup!Ended, OneOpen
  <2>3. rating' = Rollup!Published(review') /\ indexed' = indexed
    BY <1>4 DEF Rollup!Commit, Rollup!Aggregate
  <2>4. \A q \in Requests : req'[q].at \notin {"product", "commit"}
    BY <2>1, <2>2 DEF Rollup!Open, Rollup!Ended
  <2>5. outbox' \in Nat
    BY <1>4 DEF Rollup!Commit
  <2>6. ASSUME outbox' = 0, \A q \in Requests : req'[q].at # "notify"
        PROVE  indexed' = rating'
    <3>1. req[r].does \in {"create", "update", "delete", "helpful",
                           "moderate"}
      BY <1>4, CommitIs DEF RowIsHeld, Rollup!ReviewAssumption
    <3>2. req[r].does # "moderate"
      BY <2>1, <2>6
    <3>3. req[r].does = "helpful" /\ outbox = 0
      BY <1>4, <2>6, <3>1, <3>2 DEF Rollup!Commit, Rollup!WritesOutbox
    <3>4. \A q \in Requests : req[q].at # "notify"
      BY <2>1, <2>2 DEF Rollup!Open, Rollup!Ended
    <3> QED
      BY <1>4, <2>3, <3>3, <3>4, VoteKeepsRating
  <2>7. rating' = Rollup!Published(review)'
    BY <2>3 DEF Rollup!Published
  <2> QED
    BY <1>0, <2>4, <2>5, <2>6, <2>7
<1>5. ASSUME NEW r \in Requests, Rollup!Notify(r)
      PROVE  RatingKept'
  <2>1. /\ req'[r].at = "done"
        /\ \A q \in Requests \ {r} : req'[q] = req[q]
    BY <1>5 DEF Rollup!Notify, Rollup!Goto, RollupInv, CallsTyped
  <2>2. UNCHANGED <<review, rating, indexed>> /\ outbox' = outbox + 1
    BY <1>5 DEF Rollup!Notify
  <2> QED
    BY <1>0, <2>1, <2>2 DEF Rollup!Aggregate, Rollup!Published
<1>6. ASSUME NEW r \in Requests, Rollup!Crash(r)
      PROVE  FALSE
  BY <1>6 DEF Rollup!Crash
<1>7. CASE Rollup!Drain
  BY <1>0, <1>7 DEF Rollup!Drain, Rollup!Aggregate, Rollup!Published
<1>8. CASE UNCHANGED Rollup!vars
  BY <1>0, <1>8 DEF Rollup!vars, Rollup!Aggregate, Rollup!Published
<1> QED
  BY <1>1, <1>2, <1>3, <1>4, <1>5, <1>6, <1>7, <1>8
  DEF Rollup!Next, Rollup!Step

\* Reviews with as many stars, counted on the page and in the rating.
LEMMA CountedTwice ==
    ASSUME IsFiniteSet(Users), rating = Rollup!Published(review),
           NEW n \in 1..5
    PROVE  Rollup!Histogram(n) = Cardinality({p \in rating : p[2] = n})
<1> DEFINE S == {u \in Users : /\ review[u].status = "published"
                              /\ review[u].stars = n}
           T == {p \in rating : p[2] = n}
           g == [u \in S |-> <<u, n>>]
<1>1. \A p \in rating : \E u \in Users :
          review[u].status = "published" /\ p = <<u, review[u].stars>>
  BY DEF Rollup!Published
<1>2. \A u \in S : <<u, n>> \in T
  BY DEF Rollup!Published
<1>3. \A p \in T : \E u \in S : p = <<u, n>>
  BY <1>1
<1> HIDE DEF S, T
<1>4. g \in [S -> T] /\ \A u \in S : g[u] = <<u, n>>
  BY <1>2
<1> HIDE DEF g
<1>5. g \in Bijection(S, T)
  BY <1>3, <1>4 DEF Bijection, Injection, Surjection, IsInjective
<1>6. IsFiniteSet(S)
  BY FS_Subset DEF S
<1>7. Cardinality(T) = Cardinality(S)
  BY <1>5, <1>6, FS_Bijection DEF ExistsBijection
<1> QED
  BY <1>7, RollupLibrary DEF Rollup!Histogram, S, T

LEMMA RatingNeverDrifts ==
    ASSUME Rollup!ReviewAssumption, IsFiniteSet(Users), RollupInv,
           rating = Rollup!Published(review)
    PROVE  Rollup!NeverDrifts
<1> DEFINE f == [p \in rating |-> p[2]]
           w == [k \in 1..5 |-> k]
<1>1. f \in [rating -> 1..5]
  <2> SUFFICES ASSUME NEW p \in rating
               PROVE  p[2] \in 1..5
    OBVIOUS
  <2>1. PICK u \in Users :
            review[u].status = "published" /\ p = <<u, review[u].stars>>
    BY DEF Rollup!Published
  <2>2. review[u] \in Rollup!Rows /\ review[u] # Rollup!NoReview
    BY <2>1 DEF RollupInv, Rollup!NoReview
  <2> QED
    BY <2>1, <2>2 DEF Rollup!Rows, Rollup!ReviewAssumption
<1>2. IsFiniteSet(rating)
  <2> DEFINE V == {v \in Users : review[v].status = "published"}
  <2>1. IsFiniteSet(V)
    BY FS_Subset
  <2> DEFINE g == [u \in V |-> <<u, review[u].stars>>]
  <2>2. rating = {<<u, review[u].stars>> : u \in V}
    BY DEF Rollup!Published
  <2>3. g \in Surjection(V, rating)
    BY <2>2 DEF Surjection
  <2> QED
    BY <2>1, <2>3, FS_Surjection DEF ExistsSurjection
<1>3. \A k \in 1..5 : Rollup!Histogram(k) = Cardinality(Class(f, rating, k))
  <2>1. \A k \in 1..5 : Class(f, rating, k) = {p \in rating : p[2] = k}
    BY DEF Class
  <2> QED
    BY <2>1, CountedTwice
<1>4. IsFiniteSet(1..5) /\ w \in [1..5 -> Nat]
  <2>1. IsFiniteSet(1..5)
    <3>1. 1 \in Int /\ 5 \in Int
      OBVIOUS
    <3> QED
      BY <3>1, FS_Interval, Zenon
  <2>2. w \in [1..5 -> Nat]
    OBVIOUS
  <2> QED
    BY <2>1, <2>2
<1>5. [a \in rating |-> w[f[a]]] = [p \in rating |-> p[2]]
  BY <1>1
<1>6. /\ [k \in 1..5 |-> Cardinality(Class(f, rating, k))] =
             [k \in 1..5 |-> Rollup!Histogram(k)]
      /\ [k \in 1..5 |-> w[k] * Cardinality(Class(f, rating, k))] =
             [k \in 1..5 |-> k * Rollup!Histogram(k)]
  BY <1>3
<1> HIDE DEF f, w
<1>7. Rollup!RatingCount = Rollup!Total
  BY <1>1, <1>2, <1>4, <1>6, ClassesCount, RollupLibrary
  DEF Rollup!RatingCount, Rollup!Total
<1>8. SumFunction([p \in rating |-> p[2]]) = Rollup!Stars
  BY <1>1, <1>2, <1>4, <1>5, <1>6, ClassesWeigh, RollupLibrary DEF Rollup!Stars
<1>9. Rollup!RatingAvg = Rollup!Rounded(Rollup!Stars, Rollup!Total)
  BY <1>7, <1>8, RollupLibrary DEF Rollup!RatingAvg
<1> QED
  BY <1>7, <1>9 DEF Rollup!NeverDrifts, Rollup!Average

\* The one case in which "the rollup can never drift from the source rows" is
\* true of the code, and search comes to hold the same rating: the requests
\* come one after the other and none is lost between its two statements.
THEOREM RatingIsTheirs ==
    ASSUME Rollup!ReviewAssumption, IsFiniteSet(Requests), IsFiniteSet(Users),
           MaxOpen = 1, Crashes = FALSE
    PROVE  Rollup!Spec => [](Rollup!NeverDrifts /\ Rollup!SearchReflects)
<1>1. Rollup!Init => RollupInv /\ RatingKept
  <2> SUFFICES ASSUME Rollup!Init
               PROVE  RollupInv /\ RatingKept
    OBVIOUS
  <2>1. \A r \in Requests : req[r].at = "idle"
    BY IdleIsTyped DEF Rollup!Init
  <2>2. Rollup!Open = {}
    BY <2>1 DEF Rollup!Open, Rollup!Ended
  <2>3. Rollup!Published(review) = {}
    BY DEF Rollup!Init, Rollup!Published, Rollup!NoReview
  <2> QED
    BY <2>1, <2>2, <2>3, InitRollup DEF Rollup!Init, RatingKept, OneOpen
<1>2. RollupInv /\ RatingKept /\ [Rollup!Next]_(Rollup!vars) =>
        (RollupInv /\ RatingKept)'
  BY RollupStep, RatingStep
<1>3. RollupInv /\ RatingKept => Rollup!NeverDrifts /\ Rollup!SearchReflects
  <2>1. RatingKept => Rollup!SearchReflects
    BY DEF RatingKept, Rollup!SearchReflects, Rollup!Open, Rollup!Ended
  <2> QED
    BY <2>1, RatingNeverDrifts DEF RatingKept
<1> QED
  BY <1>1, <1>2, <1>3, PTL DEF Rollup!Spec

-----------------------------------------------------------------------------
(* A run of the generator (RecommendationRun) *)

\* The library that the instance brings is the library.
LEMMA GenerationLibrary ==
    /\ \A S : /\ Generation!Cardinality(S) = Cardinality(S)
              /\ Generation!IsFiniteSet(S) <=> IsFiniteSet(S)
BY DEF Generation!Cardinality, Cardinality, Generation!IsFiniteSet, IsFiniteSet

\* What the statements and the process have come to so far.
FaultsTyped == fails \in Seq(Fragile \cup {"crash"})

\* The flag is set while a run is under way, and for good after one that could
\* not insert its row.
FlagTells ==
    /\ running \in BOOLEAN /\ (at # "idle" => running)
    /\ running /\ at = "idle" => fails # <<>> /\ fails[Len(fails)] = "insert"

\* The row is settled when no run has it, unless it was left behind.
LeftBehind == \E i \in DOMAIN fails : fails[i] \in {"fail", "crash"}
RowTells == at \in {"idle", "insert"} /\ row = "running" => LeftBehind

\* What is known of the faults stays known.
LEMMA FaultsAppended ==
    ASSUME FaultsTyped, NEW l, fails' = Append(fails, l)
    PROVE  /\ l \in Fragile \cup {"crash"} => FaultsTyped'
           /\ fails' # <<>> /\ fails'[Len(fails')] = l
           /\ LeftBehind \/ l \in {"fail", "crash"} => LeftBehind'
<1> DEFINE n == Len(fails)
<1>1. /\ n \in Nat /\ DOMAIN fails = 1..n /\ Len(fails') = n + 1
      /\ DOMAIN fails' = 1..(n + 1) /\ fails'[n + 1] = l
      /\ \A i \in 1..n : fails'[i] = fails[i]
  BY DEF FaultsTyped
<1>2. l \in Fragile \cup {"crash"} => FaultsTyped'
  BY DEF FaultsTyped
<1> HIDE DEF n
<1>3. LeftBehind => LeftBehind'
  BY <1>1 DEF LeftBehind
<1>4. l \in {"fail", "crash"} => LeftBehind'
  BY <1>1 DEF LeftBehind
<1>5. fails' # <<>>
  BY <1>1
<1> QED
  BY <1>1, <1>2, <1>3, <1>4, <1>5

\* A call that is turned away is turned away by a run, or by one that could not
\* insert its row; a run that is over has not left its row as running, unless
\* the process died or the UPDATE of the catch failed.
THEOREM RunIsOver ==
    ASSUME Generation!RunAssumption
    PROVE  Generation!Spec =>
             [](Generation!SkipIsTrue /\ Generation!RowIsSettled)
<1> DEFINE Inv == FaultsTyped /\ FlagTells /\ RowTells
<1>1. Generation!Init => Inv
  <2>1. Generation!Init => FaultsTyped
    BY DEF Generation!Init, FaultsTyped
  <2>2. Generation!Init => FlagTells /\ RowTells
    BY DEF Generation!Init, FlagTells, RowTells
  <2> QED
    BY <2>1, <2>2
<1>2. Inv /\ [Generation!Next]_(Generation!vars) => Inv'
  <2> SUFFICES ASSUME Inv, [Generation!Next]_(Generation!vars)
               PROVE  Inv'
    OBVIOUS
  <2>1. CASE Generation!Start
    <3>1. ~running /\ running' = TRUE /\ at' = "insert"
      BY <2>1 DEF Generation!Start, Generation!Goto
    <3>2. row' = row /\ fails' = fails
      BY <2>1 DEF Generation!Start
    <3> QED
      BY <3>1, <3>2 DEF FaultsTyped, FlagTells, RowTells, LeftBehind
  <2>2. CASE Generation!Run
    <3>1. at # "idle" /\ fails' = fails
      BY <2>2
      DEF Generation!Run, Generation!InsertRun, Generation!Compute,
          Generation!Delete, Generation!Insert, Generation!Commit,
          Generation!Complete, Generation!Fail
    <3>2. \/ /\ at' \notin {"idle", "insert"} /\ running' = running
          \/ at' = "idle" /\ running' = FALSE /\ row' # "running"
      BY <2>2
      DEF Generation!Run, Generation!InsertRun, Generation!Compute,
          Generation!Delete, Generation!Insert, Generation!Commit,
          Generation!Complete, Generation!Fail, Generation!Goto,
          Generation!ClearsFlag
    <3> QED
      BY <3>1, <3>2 DEF FaultsTyped, FlagTells, RowTells
  <2>3. CASE Generation!Throws
    <3>1. /\ at \in Fragile /\ fails' = Append(fails, at) /\ row' = row
          /\ at' = IF Generation!Catches(at) THEN "fail" ELSE "idle"
          /\ running' = IF at = "fail" THEN FALSE ELSE running
      BY <2>3 DEF Generation!Throws, Generation!Goto, Generation!ClearsFlag
    <3>2. /\ FaultsTyped' /\ fails' # <<>> /\ fails'[Len(fails')] = at
          /\ LeftBehind \/ at \in {"fail", "crash"} => LeftBehind'
      BY <3>1, FaultsAppended
    <3>3. at # "idle"
      BY <3>1 DEF Generation!RunAssumption, Generation!Statements
    <3> QED
      BY <3>1, <3>2, <3>3 DEF FlagTells, RowTells, Generation!Catches
  <2>4. CASE Generation!Crash
    <3>1. /\ fails' = Append(fails, "crash")
          /\ running' = FALSE /\ at' = "idle"
      BY <2>4 DEF Generation!Crash, Generation!Goto
    <3>2. FaultsTyped' /\ LeftBehind'
      BY <3>1, FaultsAppended
    <3> QED
      BY <3>1, <3>2 DEF FlagTells, RowTells
  <2>5. CASE \/ Generation!Order \/ Generation!View \/ Generation!CancelOrder
             \/ Generation!SellOut \/ UNCHANGED Generation!vars
    <3>1. UNCHANGED <<running, at, row, fails>>
      BY <2>5
      DEF Generation!Order, Generation!View, Generation!CancelOrder,
          Generation!SellOut, Generation!vars, Generation!Batch
    <3> QED
      BY <3>1 DEF FaultsTyped, FlagTells, RowTells, LeftBehind
  <2> QED
    BY <2>1, <2>2, <2>3, <2>4, <2>5 DEF Generation!Next
<1>3. Inv => Generation!SkipIsTrue /\ Generation!RowIsSettled
  BY DEF FlagTells, RowTells, LeftBehind, Generation!SkipIsTrue,
         Generation!RowIsSettled
<1> QED
  BY <1>1, <1>2, <1>3, PTL DEF Generation!Spec
-----------------------------------------------------------------------------
\* A query with a limit returns some of the rows, unless there are none.
LEMMA TakeSome ==
    ASSUME NEW S, IsFiniteSet(S), NEW n \in Nat,
           NEW T \in Generation!Take(S, n)
    PROVE  /\ T \subseteq S /\ IsFiniteSet(T)
           /\ Cardinality(T) \in Nat /\ Cardinality(T) <= n
           /\ S # {} /\ n > 0 => T # {}
<1>1. /\ T \subseteq S
      /\ Cardinality(T) = IF n < Cardinality(S) THEN n ELSE Cardinality(S)
  BY GenerationLibrary DEF Generation!Take, Generation!kSubset
<1>2. IsFiniteSet(T) /\ Cardinality(T) \in Nat /\ Cardinality(S) \in Nat
  BY <1>1, FS_Subset, FS_CardinalityType
<1>3. Cardinality(T) <= n
  BY <1>1, <1>2
<1>4. S # {} /\ n > 0 => Cardinality(T) # 0
  BY <1>1, <1>2, FS_EmptySet
<1> QED
  BY <1>1, <1>2, <1>3, <1>4, FS_EmptySet

\* What the tables hold, and what is about to be put there.
TablesTyped ==
    /\ inStock \subseteq Products
    /\ affinity \subseteq Generation!Pairs
    /\ recs \subseteq Shoppers \X Products
    /\ at \in {"deleteA", "insertA"} => next \subseteq Generation!Pairs
    /\ at = "commitA" => draft \subseteq Generation!Pairs
    /\ at \in {"deleteR", "insertR"} => next \subseteq Shoppers \X Products
    /\ at = "commitR" => draft \subseteq Shoppers \X Products
    /\ at \in {"insertA", "insertR"} => draft = {}

LEMMA AffinityNextIsPairs ==
    ASSUME NEW t \in Generation!AffinityNext PROVE t \subseteq Generation!Pairs
<1>1. PICK f \in [Products -> SUBSET Products] :
          /\ \A p \in Products : f[p] \in Generation!Ranked(p)
          /\ t = UNION {{<<p, q>> : q \in f[p]} : p \in Products}
  BY DEF Generation!AffinityNext
<1>2. \A p \in Products : f[p] \subseteq Products \ {p}
  BY <1>1
  DEF Generation!Ranked, Generation!Take, Generation!kSubset,
      Generation!Related
<1> SUFFICES ASSUME NEW e \in t
             PROVE  e \in Generation!Pairs
  OBVIOUS
<1>3. PICK p \in Products : \E q \in f[p] : e = <<p, q>>
  BY <1>1
<1> QED
  BY <1>2, <1>3 DEF Generation!Pairs

LEMMA RecsNextIsOfUsers ==
    ASSUME TablesTyped,
           NEW t \in Generation!RecsNext PROVE t \subseteq Shoppers \X Products
<1>1. PICK f \in [Shoppers -> SUBSET Products] :
          t = UNION {{<<u, q>> : q \in f[u]} : u \in Shoppers}
  BY DEF Generation!RecsNext
<1> QED
  BY <1>1

LEMMA TablesStep ==
    ASSUME Generation!RunAssumption, TablesTyped,
           [Generation!Next]_(Generation!vars)
    PROVE  TablesTyped'
<1> USE DEF TablesTyped
<1>1. CASE Generation!Start
  BY <1>1 DEF Generation!Start, Generation!Goto
<1>2. CASE Generation!InsertRun \/ Generation!Complete \/ Generation!Fail
  BY <1>2
  DEF Generation!InsertRun, Generation!Complete, Generation!Fail,
      Generation!Goto
<1>3. CASE Generation!Compute
  <2>1. /\ at' = "deleteA" => next' \subseteq Generation!Pairs
        /\ at' = "deleteR" => next' \subseteq Shoppers \X Products
    BY <1>3, AffinityNextIsPairs, RecsNextIsOfUsers
    DEF Generation!Compute, Generation!Goto
  <2>2. /\ at' \in {"deleteA", "deleteR"}
        /\ UNCHANGED <<inStock, affinity, recs>>
    BY <1>3 DEF Generation!Compute, Generation!Goto
  <2>3. Generation!Pairs' = Generation!Pairs
    BY DEF Generation!Pairs
  <2> QED
    BY <2>1, <2>2, <2>3
<1>4. CASE Generation!Delete
  BY <1>4 DEF Generation!Delete, Generation!Goto, Generation!Isolated
<1>5. CASE Generation!Insert
  BY <1>5 DEF Generation!Insert, Generation!Goto
<1>6. CASE Generation!Commit
  BY <1>6 DEF Generation!Commit, Generation!Goto
<1>7. CASE Generation!Throws
  <2>1. at' \in {"fail", "idle"} /\ UNCHANGED <<inStock, affinity, recs>>
    BY <1>7 DEF Generation!Throws, Generation!Goto
  <2> QED
    BY <2>1
<1>8. CASE Generation!Crash
  BY <1>8 DEF Generation!Crash, Generation!Goto
<1>9. CASE \/ Generation!Order \/ Generation!View \/ Generation!CancelOrder
           \/ Generation!SellOut \/ UNCHANGED Generation!vars
  <2>1. UNCHANGED <<at, next, draft, affinity, recs>>
    BY <1>9
    DEF Generation!Order, Generation!View, Generation!CancelOrder,
        Generation!SellOut, Generation!vars, Generation!Batch
  <2>2. inStock' \subseteq inStock
    BY <1>9
    DEF Generation!Order, Generation!View, Generation!CancelOrder,
        Generation!SellOut, Generation!vars
  <2> QED
    BY <2>1, <2>2
<1> QED
  BY <1>1, <1>2, <1>3, <1>4, <1>5, <1>6, <1>7, <1>8, <1>9
  DEF Generation!Next, Generation!Run

LEMMA InitTables == Generation!Init => TablesTyped
BY DEF Generation!Init, TablesTyped

\* A shelf is never empty if there is anything to put on it, has as many as
\* were asked for at most, and does not show a product beside itself.
LEMMA ShelvesAreFull ==
    ASSUME Generation!RunAssumption, IsFiniteSet(Products), TablesTyped
    PROVE  Generation!ShelfPopulated
<1> SUFFICES ASSUME NEW n \in Limits
             PROVE  /\ \A u \in Shoppers : inStock # {} =>
                      {} \notin Generation!ForMe(u, n)
                    /\ \A p \in Products, C \in SUBSET Products :
                           \A S \in Generation!RelatedShelf(p, C, n) :
                               /\ p \notin S /\ Cardinality(S) <= n
                               /\ Products # {p} => S # {}
  BY GenerationLibrary DEF Generation!ShelfPopulated
<1>1. /\ n \in Nat /\ n > 0
      /\ Generation!AFew(n) \in Nat /\ Generation!AFew(n) > 0
  BY DEF Generation!RunAssumption, Generation!AFew
<1>2. ASSUME NEW u \in Shoppers, inStock # {}
      PROVE  {} \notin Generation!ForMe(u, n)
  <2> SUFFICES ASSUME {} \in Generation!ForMe(u, n)
               PROVE  FALSE
    OBVIOUS
  <2>1. PICK S \in Generation!Take({e[2] : e \in {r \in recs : r[1] = u}}, n) :
            {} \in IF Cardinality(S) >= Generation!AFew(n)
                   THEN {S} ELSE Generation!Popular(n)
    BY GenerationLibrary DEF Generation!ForMe
  <2>2. CASE Cardinality(S) >= Generation!AFew(n)
    BY <1>1, <2>1, <2>2, FS_EmptySet
  <2>3. CASE ~(Cardinality(S) >= Generation!AFew(n))
    <3>1. {} \in Generation!Take(inStock, n)
      BY <2>1, <2>3 DEF Generation!Popular
    <3>2. IsFiniteSet(inStock)
      BY FS_Subset DEF TablesTyped
    <3> QED
      BY <1>1, <1>2, <3>1, <3>2, TakeSome
  <2> QED
    BY <2>2, <2>3
<1>3. ASSUME NEW p \in Products, NEW C \in SUBSET Products,
             NEW R \in Generation!RelatedShelf(p, C, n)
      PROVE  /\ p \notin R /\ Cardinality(R) <= n
             /\ Products # {p} => R # {}
  <2> DEFINE A == {e[2] : e \in {a \in affinity : a[1] = p}}
  <2>1. A \subseteq Products \ {p} /\ IsFiniteSet(A)
    <3>1. A \subseteq Products \ {p}
      BY DEF TablesTyped, Generation!Pairs
    <3> QED
      BY <3>1, FS_Subset
  <2>2. PICK S \in Generation!Take(A, n) :
            R \in IF Cardinality(S) >= Generation!AFew(n) THEN {S}
                  ELSE UNION {Generation!LastResort(p, S \cup T, n) :
                           T \in Generation!Take(C \ ({p} \cup S),
                                                 n - Cardinality(S))}
    BY GenerationLibrary DEF Generation!RelatedShelf
  <2>3. /\ S \subseteq A /\ IsFiniteSet(S)
        /\ Cardinality(S) \in Nat /\ Cardinality(S) <= n
    BY <1>1, <2>1, <2>2, TakeSome
  <2>4. CASE Cardinality(S) >= Generation!AFew(n)
    BY <1>1, <2>1, <2>2, <2>3, <2>4, FS_EmptySet
  <2>5. CASE ~(Cardinality(S) >= Generation!AFew(n))
    <3>1. PICK T \in Generation!Take(C \ ({p} \cup S), n - Cardinality(S)) :
              R \in Generation!LastResort(p, S \cup T, n)
      BY <2>2, <2>5
    <3>2. /\ IsFiniteSet(C \ ({p} \cup S)) /\ n - Cardinality(S) \in Nat
      BY <1>1, <2>3, FS_Subset
    <3>3. /\ T \subseteq C \ ({p} \cup S) /\ IsFiniteSet(T)
          /\ Cardinality(T) \in Nat /\ Cardinality(T) <= n - Cardinality(S)
      BY <3>1, <3>2, TakeSome
    <3>4. CASE S \cup T # {}
      <4>1. R = S \cup T
        BY <3>1, <3>4 DEF Generation!LastResort
      <4>2. /\ S \cap T = {}
            /\ Cardinality(S \cap T) = 0
        BY <3>3, FS_EmptySet
      <4>3. Cardinality(R) = Cardinality(S) + Cardinality(T) - 0
        BY <2>3, <3>3, <4>1, <4>2, FS_Union
      <4> QED
        BY <1>1, <2>1, <2>3, <3>3, <3>4, <4>1, <4>3
    <3>5. CASE S \cup T = {}
      <4>1. /\ R \in Generation!Take(Products \ {p}, n)
            /\ IsFiniteSet(Products \ {p})
        BY <3>1, <3>5, FS_Subset DEF Generation!LastResort
      <4>2. /\ R \subseteq Products \ {p} /\ Cardinality(R) <= n
            /\ Products \ {p} # {} => R # {}
        BY <1>1, <4>1, TakeSome
      <4> QED
        BY <4>2
    <3> QED
      BY <3>4, <3>5
  <2> QED
    BY <2>4, <2>5
<1> QED
  BY <1>2, <1>3

THEOREM ShelvesPopulated ==
    ASSUME Generation!RunAssumption, IsFiniteSet(Products)
    PROVE  Generation!Spec => []Generation!ShelfPopulated
<1>1. TablesTyped /\ [Generation!Next]_(Generation!vars) => TablesTyped'
  BY TablesStep
<1>2. TablesTyped => Generation!ShelfPopulated
  BY ShelvesAreFull
<1> QED
  BY <1>1, <1>2, InitTables, PTL DEF Generation!Spec
-----------------------------------------------------------------------------
\* There are products that are ordered together often enough.
SomeRelated == \E p \in Products : Generation!Related(p) # {}

OrdersTyped ==
    orders \in Seq([user : Shoppers, items : Baskets, paid : BOOLEAN])

\* What is related stays so while no order is cancelled.
LEMMA PaidGrows ==
    ASSUME OrdersTyped, Cancels = FALSE, [Generation!Next]_(Generation!vars)
    PROVE  /\ OrdersTyped'
           /\ Generation!Paid \subseteq Generation!Paid'
           /\ IsFiniteSet(Generation!Paid')
           /\ \A i \in Generation!Paid : orders'[i] = orders[i]
<1>1. CASE Generation!Order
  <2>1. PICK u \in Shoppers, b \in Baskets :
            orders' = Append(orders, [user |-> u, items |-> b, paid |-> TRUE])
    BY <1>1 DEF Generation!Order
  <2>2. /\ OrdersTyped' /\ Len(orders) \in Nat
        /\ DOMAIN orders = 1..Len(orders)
        /\ DOMAIN orders' = 1..(Len(orders) + 1)
        /\ \A i \in DOMAIN orders : orders'[i] = orders[i]
    BY <2>1 DEF OrdersTyped
  <2>3. DOMAIN orders \subseteq DOMAIN orders' /\ IsFiniteSet(DOMAIN orders')
    BY <2>2, FS_Interval
  <2>4. /\ Generation!Paid \subseteq Generation!Paid'
        /\ Generation!Paid' \subseteq DOMAIN orders'
    BY <2>2, <2>3 DEF Generation!Paid
  <2> QED
    BY <2>2, <2>3, <2>4, FS_Subset DEF Generation!Paid
<1>2. CASE UNCHANGED orders
  <2>1. DOMAIN orders = 1..Len(orders) /\ Len(orders) \in Nat
    BY DEF OrdersTyped
  <2>2. IsFiniteSet(DOMAIN orders)
    BY <2>1, FS_Interval
  <2>3. /\ Generation!Paid' = Generation!Paid
        /\ Generation!Paid \subseteq DOMAIN orders
    BY <1>2 DEF Generation!Paid
  <2> QED
    BY <1>2, <2>2, <2>3, FS_Subset DEF OrdersTyped
<1>3. Generation!Order \/ UNCHANGED orders
  BY DEF Generation!Next, Generation!Start, Generation!Run,
         Generation!InsertRun, Generation!Compute, Generation!Delete,
         Generation!Insert, Generation!Commit, Generation!Complete,
         Generation!Fail, Generation!Throws, Generation!Crash, Generation!View,
         Generation!CancelOrder, Generation!SellOut, Generation!vars
<1> QED
  BY <1>1, <1>2, <1>3

LEMMA RelatedStays ==
    ASSUME Generation!RunAssumption, OrdersTyped, Cancels = FALSE,
           [Generation!Next]_(Generation!vars),
           SomeRelated
    PROVE  SomeRelated'
<1>1. PICK p \in Products, q \in Products :
          p # q /\ Generation!Together(p, q) >= MIN_CO_OCCURRENCES
  BY DEF SomeRelated, Generation!Related
<1> DEFINE T == {i \in Generation!Paid : {p, q} \subseteq orders[i].items}
           U == {i \in Generation!Paid' : {p, q} \subseteq orders'[i].items}
<1>2. T \subseteq U /\ IsFiniteSet(U)
  BY PaidGrows, FS_Subset
<1>3. /\ Cardinality(T) <= Cardinality(U)
      /\ Cardinality(T) \in Nat /\ Cardinality(U) \in Nat
  BY <1>2, FS_Subset, FS_CardinalityType
<1>4. /\ Generation!Together(p, q) = Cardinality(T)
      /\ Generation!Together(p, q)' = Cardinality(U)
  BY GenerationLibrary DEF Generation!Together
<1>5. MIN_CO_OCCURRENCES \in Nat
  BY DEF Generation!RunAssumption
<1>6. Generation!Together(p, q)' >= MIN_CO_OCCURRENCES
  BY <1>1, <1>3, <1>4, <1>5
<1>7. q \in Generation!Related(p)'
  BY <1>1, <1>6 DEF Generation!Related
<1> QED
  BY <1>7 DEF SomeRelated

\* The table is not made empty by what is related, and not filled without.
LEMMA AffinityNextIsRelated ==
    ASSUME Generation!RunAssumption, IsFiniteSet(Products),
           NEW t \in Generation!AffinityNext
    PROVE  t # {} <=> SomeRelated
<1>1. PICK f \in [Products -> SUBSET Products] :
          /\ \A p \in Products : f[p] \in Generation!Ranked(p)
          /\ t = UNION {{<<p, q>> : q \in f[p]} : p \in Products}
  BY DEF Generation!AffinityNext
<1>2. ASSUME NEW p \in Products
      PROVE  /\ f[p] \subseteq Generation!Related(p)
             /\ Generation!Related(p) # {} => f[p] # {}
  <2>1. f[p] \in Generation!Take(Generation!Related(p), AFFINITY_PER_PRODUCT)
    BY <1>1 DEF Generation!Ranked
  <2>2. IsFiniteSet(Generation!Related(p))
    BY FS_Subset DEF Generation!Related
  <2>3. AFFINITY_PER_PRODUCT \in Nat /\ AFFINITY_PER_PRODUCT > 0
    BY DEF Generation!RunAssumption
  <2> QED
    BY <2>1, <2>2, <2>3, TakeSome
<1>3. ASSUME t # {} PROVE SomeRelated
  <2>1. PICK p \in Products : f[p] # {}
    BY <1>1, <1>3
  <2> QED
    BY <1>2, <2>1 DEF SomeRelated
<1>4. ASSUME SomeRelated PROVE t # {}
  <2>1. PICK p \in Products : f[p] # {}
    BY <1>2, <1>4 DEF SomeRelated
  <2>2. PICK q \in f[p] : TRUE
    BY <2>1
  <2> DEFINE Row(r) == {<<r, s>> : s \in f[r]}
  <2>3. <<p, q>> \in Row(p) /\ Row(p) \in {Row(r) : r \in Products}
    OBVIOUS
  <2>4. <<p, q>> \in UNION {Row(r) : r \in Products}
    BY <2>3
  <2> QED
    BY <1>1, <2>4
<1> QED
  BY <1>3, <1>4

\* What is there is related, and so is what is about to replace it.
AffinityIsKept ==
    /\ affinity # {} => SomeRelated
    /\ at \in {"deleteA", "insertA"} =>
           /\ next # {} => SomeRelated
           /\ affinity # {} => next # {}
    /\ at = "insertA" => draft = {}
    /\ at = "commitA" =>
           /\ draft # {} => SomeRelated
           /\ affinity # {} => draft # {}

LEMMA AffinityStep ==
    ASSUME Generation!RunAssumption, IsFiniteSet(Products), Cancels = FALSE,
           OrdersTyped, AffinityIsKept, [Generation!Next]_(Generation!vars)
    PROVE  AffinityIsKept' /\ [Generation!NeverEmptied]_(Generation!vars)
<1>1. SomeRelated => SomeRelated'
  BY RelatedStays
<1> USE DEF AffinityIsKept
<1>2. CASE Generation!Compute
  <2>1. UNCHANGED <<orders, affinity, draft>>
    BY <1>2 DEF Generation!Compute
  <2>2. SomeRelated' <=> SomeRelated
    BY <1>1, <2>1
    DEF SomeRelated, Generation!Related, Generation!Together, Generation!Paid
  <2>3. CASE at = "affinity"
    <3>1. at' = "deleteA" /\ next' \in Generation!AffinityNext
      BY <1>2, <2>3 DEF Generation!Compute, Generation!Goto
    <3> QED
      BY <2>1, <2>2, <3>1, AffinityNextIsRelated DEF Generation!NeverEmptied
  <2>4. CASE at = "recs"
    <3>1. at' = "deleteR"
      BY <1>2, <2>4 DEF Generation!Compute, Generation!Goto
    <3> QED
      BY <1>1, <2>1, <3>1 DEF Generation!NeverEmptied
  <2> QED
    BY <1>2, <2>3, <2>4 DEF Generation!Compute
<1>3. CASE Generation!Delete
  BY <1>1, <1>3
  DEF Generation!Delete, Generation!Goto, Generation!Isolated,
      Generation!NeverEmptied
<1>4. CASE Generation!Insert
  <2>1. draft' = draft \cup next /\ UNCHANGED <<affinity, next>>
    BY <1>4 DEF Generation!Insert
  <2>2. CASE at = "insertA"
    BY <1>1, <1>4, <2>1, <2>2
    DEF Generation!Insert, Generation!Goto, Generation!NeverEmptied
  <2>3. CASE at = "insertR"
    BY <1>1, <1>4, <2>1, <2>3
    DEF Generation!Insert, Generation!Goto, Generation!NeverEmptied
  <2> QED
    BY <1>4, <2>2, <2>3 DEF Generation!Insert
<1>5. CASE Generation!Commit
  BY <1>1, <1>5 DEF Generation!Commit, Generation!Goto, Generation!NeverEmptied
<1>6. CASE \/ Generation!Start \/ Generation!InsertRun \/ Generation!Complete
           \/ Generation!Fail \/ Generation!Throws \/ Generation!Crash
  <2>1. /\ UNCHANGED affinity
        /\ at' \in {"idle", "insert", "affinity", "fail"}
    BY <1>6
    DEF Generation!Start, Generation!InsertRun, Generation!Complete,
        Generation!Fail, Generation!Throws, Generation!Crash, Generation!Goto
  <2> QED
    BY <1>1, <2>1 DEF Generation!NeverEmptied
<1>7. CASE \/ Generation!Order \/ Generation!View \/ Generation!CancelOrder
           \/ Generation!SellOut \/ UNCHANGED Generation!vars
  <2>1. UNCHANGED <<at, next, draft, affinity>>
    BY <1>7
    DEF Generation!Order, Generation!View, Generation!CancelOrder,
        Generation!SellOut, Generation!vars, Generation!Batch
  <2> QED
    BY <1>1, <2>1 DEF Generation!NeverEmptied
<1> QED
  BY <1>2, <1>3, <1>4, <1>5, <1>6, <1>7 DEF Generation!Next, Generation!Run

\* "A DELETE-then-INSERT would leave the serving layer reading an empty table
\* mid-run": as long as no order is cancelled, related products that are there
\* stay there.
THEOREM RelatedNeverEmptied ==
    ASSUME Generation!RunAssumption, IsFiniteSet(Products), Cancels = FALSE
    PROVE  Generation!Spec => [][Generation!NeverEmptied]_(Generation!vars)
<1> DEFINE Inv == OrdersTyped /\ AffinityIsKept
<1>1. Generation!Init => Inv
  BY DEF Generation!Init, OrdersTyped, AffinityIsKept
<1>2. Inv /\ [Generation!Next]_(Generation!vars) =>
        Inv' /\ [Generation!NeverEmptied]_(Generation!vars)
  BY PaidGrows, AffinityStep
<1> QED
  BY <1>1, <1>2, PTL DEF Generation!Spec

-----------------------------------------------------------------------------
(* A search and its pages (SearchQuery) *)

\* The library that the instance brings is the library.
LEMMA QueryLibrary ==
    /\ \A S : /\ Query!Cardinality(S) = Cardinality(S)
              /\ Query!IsFiniteSet(S) <=> IsFiniteSet(S)
    /\ \A s : Query!IsInjective(s) <=> IsInjective(s)
BY DEF Query!Cardinality, Cardinality, Query!IsFiniteSet, IsFiniteSet,
       Query!IsInjective, IsInjective

\* Both searches find the same, and the sorting tells apart what they find.
TellsApart(S) ==
    /\ \A p \in S : ~Query!Before(p, p)
    /\ \A p, q \in S : p # q => (Query!Before(p, q) <=> ~Query!Before(q, p))
Unambiguous ==
    /\ Query!BuildQuery(request) = Query!Conditions(request)
    /\ TellsApart(Query!Conditions(request))

\* Where a product comes in a listing, the order of which is a relation.
Order(S) == {o \in S \X S : Query!Before(o[1], o[2])}
Place(O, S, p) == Cardinality({q \in S : <<q, p>> \in O}) + 1

\* A sorted listing has every product, at its place.
LEMMA SortedIs ==
    ASSUME NEW S, IsFiniteSet(S), NEW s \in Query!Sorted(S)
    PROVE  /\ s \in [1..Cardinality(S) -> S] /\ Len(s) = Cardinality(S)
           /\ s \in Seq(S)
           /\ \A i, j \in 1..Cardinality(S) : i # j => s[i] # s[j]
           /\ \A i, j \in 1..Cardinality(S) :
                  i < j => ~Query!Before(s[j], s[i])
           /\ Query!ToSet(s) = S
<1> DEFINE n == Cardinality(S)
<1>1. n \in Nat
  BY FS_CardinalityType
<1>2. PICK t \in SUBSET S : s \in Query!SetToSeqs(t)
  BY DEF Query!Sorted, Query!SetToAllKPermutations
<1>3. IsFiniteSet(t) /\ Cardinality(t) \in Nat
  BY FS_Subset, FS_CardinalityType
<1>4. /\ s \in [1..Cardinality(t) -> t]
      /\ \A i, j \in 1..Cardinality(t) : i # j => s[i] # s[j]
  BY <1>2, QueryLibrary DEF Query!SetToSeqs
<1>5. Len(s) = Cardinality(t)
  BY <1>3, <1>4
<1>6. /\ Len(s) = n
      /\ \A i, j \in DOMAIN s : i < j => ~Query!Before(s[j], s[i])
  BY QueryLibrary DEF Query!Sorted
<1>7. t = S
  BY <1>3, <1>5, <1>6, FS_Subset
<1> HIDE DEF n
<1>8. IsFiniteSet(1..n) /\ Cardinality(1..n) = n
  <2>1. 1 \in Int /\ n \in Int
    BY <1>1
  <2> QED
    BY <1>1, <2>1, FS_Interval
<1>9. s \in Injection(1..n, S)
  BY <1>4, <1>5, <1>6, <1>7 DEF Injection, IsInjective
<1>10. s \in Surjection(1..n, S)
  BY <1>8, <1>9, FS_Injection DEF n
<1>11. Query!ToSet(s) = S
  BY <1>4, <1>5, <1>6, <1>7, <1>10 DEF Query!ToSet, Surjection
<1>12. s \in Seq(S)
  BY <1>1, <1>4, <1>5, <1>6, <1>7
<1> QED
  BY <1>4, <1>5, <1>6, <1>7, <1>11, <1>12 DEF n

LEMMA SortedAtPlace ==
    ASSUME NEW S, IsFiniteSet(S), TellsApart(S), NEW s \in Query!Sorted(S)
    PROVE  \A k \in 1..Cardinality(S) : Place(Order(S), S, s[k]) = k
<1> SUFFICES ASSUME NEW k \in 1..Cardinality(S)
             PROVE  Place(Order(S), S, s[k]) = k
  OBVIOUS
<1> DEFINE n == Cardinality(S)
           B == {q \in S : <<q, s[k]>> \in Order(S)}
           g == [i \in 1..(k - 1) |-> s[i]]
<1>1. n \in Nat /\ k \in 1..n
  BY FS_CardinalityType
<1> HIDE DEF n
<1>2. /\ s \in [1..n -> S] /\ \A i, j \in 1..n : i # j => s[i] # s[j]
      /\ \A i, j \in 1..n : i < j => ~Query!Before(s[j], s[i])
      /\ \A p \in S : \E i \in 1..n : p = s[i]
  BY SortedIs DEF n, Query!ToSet
<1>3. \A i \in 1..n : Query!Before(s[i], s[k]) <=> i < k
  <2> SUFFICES ASSUME NEW i \in 1..n
               PROVE  Query!Before(s[i], s[k]) <=> i < k
    OBVIOUS
  <2>1. s[i] \in S /\ s[k] \in S
    BY <1>1, <1>2
  <2>2. CASE i = k
    BY <1>1, <2>1, <2>2 DEF TellsApart
  <2>3. CASE i < k
    BY <1>1, <1>2, <2>1, <2>3 DEF TellsApart
  <2>4. CASE i > k
    BY <1>1, <1>2, <2>1, <2>4
  <2> QED
    BY <1>1, <2>2, <2>3, <2>4
<1>4. \A i \in 1..(k - 1) : i \in 1..n /\ i < k
  BY <1>1
<1>0. /\ s[k] \in S
      /\ \A q \in S : <<q, s[k]>> \in Order(S) <=> Query!Before(q, s[k])
  BY <1>1, <1>2 DEF Order
<1>5. g \in [1..(k - 1) -> B] /\ \A i \in 1..(k - 1) : g[i] = s[i]
  BY <1>0, <1>2, <1>3, <1>4
<1>6. \A p \in B : \E i \in 1..(k - 1) : p = s[i]
  <2> SUFFICES ASSUME NEW p \in B
               PROVE  \E i \in 1..(k - 1) : p = s[i]
    OBVIOUS
  <2>1. PICK i \in 1..n : p = s[i]
    BY <1>2
  <2>2. i < k
    BY <1>0, <1>3, <2>1
  <2> QED
    BY <1>1, <2>1, <2>2
<1> HIDE DEF B, g
<1>7. g \in Bijection(1..(k - 1), B)
  <2>1. \A i, j \in 1..(k - 1) : g[i] = g[j] => i = j
    BY <1>2, <1>4, <1>5
  <2>2. g \in Injection(1..(k - 1), B)
    BY <1>5, <2>1 DEF Injection, IsInjective
  <2>3. g \in Surjection(1..(k - 1), B)
    BY <1>5, <1>6 DEF Surjection
  <2> QED
    BY <2>2, <2>3 DEF Bijection
<1>8. k - 1 \in Nat
  BY <1>1
<1>9. Cardinality(B) = k - 1
  BY <1>7, <1>8, FS_CountingElements DEF ExistsBijection
<1> QED
  BY <1>1, <1>9 DEF Place, B

\* What has been seen are the first pages of the listing, whatever was down.
Smaller(a, b) == IF a < b THEN a ELSE b
FirstPages(S, O, size, pages, done, more) ==
    /\ done \in Seq(S)
    /\ Len(done) = Smaller((pages - 1) * size, Cardinality(S))
    /\ \A k \in 1..Len(done) : Place(O, S, done[k]) = k
    /\ ~more => Len(done) = Cardinality(S)
SeenInOrder ==
    FirstPages(Query!Conditions(request), Order(Query!Conditions(request)),
               request.pageSize, page,
               seen, answer.hasNext)

QueryInv ==
    /\ products \in Catalogues /\ request \in Searches /\ page \in Nat \ {0}
    /\ Unambiguous => SeenInOrder

LEMMA ConditionsFinite ==
    ASSUME Query!SearchAssumption, QueryInv
    PROVE  /\ IsFiniteSet(Query!Conditions(request))
           /\ Cardinality(Query!Conditions(request)) \in Nat
           /\ request.pageSize \in 1..60 /\ request.pageSize \in Nat
<1>1. IsFiniteSet(products) /\ request.pageSize \in 1..60
  BY QueryLibrary DEF Query!SearchAssumption, QueryInv, Query!Bodies
<1>2. Query!Conditions(request) \subseteq products
  BY DEF Query!Conditions
<1>3. IsFiniteSet(Query!Conditions(request))
  BY <1>1, <1>2, FS_Subset
<1>4. Cardinality(Query!Conditions(request)) \in Nat
  BY <1>3, FS_CardinalityType
<1>5. \A n \in 1..60 : n \in Nat
  OBVIOUS
<1> QED
  BY <1>1, <1>3, <1>4, <1>5

\* The pages of a listing, one after the other.
BeginsWith(S, s, done, n) ==
    /\ done \in Seq(S) /\ Len(done) = n
    /\ \A k \in 1..Len(done) : done[k] = s[k]

LEMMA NextPage ==
    ASSUME NEW S, NEW s \in Seq(S), NEW a \in Nat, NEW z \in Nat,
           NEW done, BeginsWith(S, s, done, Smaller(a, Len(s)))
    PROVE  BeginsWith(S, s,
                      done \o SubSeq(s, a + 1, Smaller(a + z, Len(s))),
                      Smaller(a + z, Len(s)))
<1> DEFINE l == Len(s)
           items == SubSeq(s, a + 1, Smaller(a + z, l))
<1>0. /\ done \in Seq(S) /\ Len(done) = Smaller(a, l) /\ l = Len(s)
      /\ \A k \in 1..Len(done) : done[k] = s[k]
      /\ items = SubSeq(s, a + 1, Smaller(a + z, l))
  BY DEF BeginsWith
<1> HIDE DEF l, items
<1>1. l \in Nat /\ \A i \in 1..l : s[i] \in S
  BY <1>0
<1>2. PICK last \in Nat : last = Smaller(a + z, l)
  BY <1>1 DEF Smaller
<1>3. last <= l
  BY <1>1, <1>2 DEF Smaller
<1>4. items = SubSeq(s, a + 1, last)
  BY <1>0, <1>2
<1>5. /\ items \in Seq(S)
      /\ Len(items) = IF a + 1 <= last THEN last - (a + 1) + 1 ELSE 0
      /\ \A i \in 1..(last - (a + 1) + 1) : items[i] = s[(a + 1) + i - 1]
  <2>1. \A i \in (a + 1)..last : s[i] \in S
    BY <1>1, <1>3
  <2>2. a + 1 \in Int /\ last \in Int
    OBVIOUS
  <2>3. /\ SubSeq(s, a + 1, last) \in Seq(S)
        /\ Len(SubSeq(s, a + 1, last)) =
               IF a + 1 <= last THEN last - (a + 1) + 1 ELSE 0
        /\ \A i \in 1..(last - (a + 1) + 1) :
               SubSeq(s, a + 1, last)[i] = s[(a + 1) + i - 1]
    BY <2>1, <2>2, SubSeqProperties
  <2> QED
    BY <1>4, <2>3, Zenon
<1>6. /\ done \o items \in Seq(S)
      /\ Len(done \o items) = Len(done) + Len(items)
      /\ \A k \in 1..(Len(done) + Len(items)) :
             (done \o items)[k] =
                 IF k <= Len(done) THEN done[k] ELSE items[k - Len(done)]
  BY <1>0, <1>5, ConcatProperties, Zenon
<1>7. Len(done) \in Nat /\ Len(items) \in Nat
  BY <1>0, <1>5, LenProperties
<1>8. PICK d \in Nat : d = Len(done)
  BY <1>7
<1>9. PICK m \in Nat : m = Len(items)
  BY <1>7
<1>10. /\ d + m = last /\ d = Smaller(a, l)
       /\ m = IF a <= last THEN last - a ELSE 0
  <2>1. d = Smaller(a, l)
    BY <1>0, <1>8
  <2>2. m = IF a <= last THEN last - a ELSE 0
    BY <1>5, <1>9
  <2>3. last = IF a + z < l THEN a + z ELSE l
    BY <1>2 DEF Smaller
  <2>4. d = IF a < l THEN a ELSE l
    BY <2>1 DEF Smaller
  <2>5. CASE a <= l
    <3>1. d = a /\ a <= last
      BY <1>1, <2>3, <2>4, <2>5
    <3> QED
      BY <2>1, <2>2, <3>1
  <2>6. CASE l < a
    <3>1. d = l /\ last = l
      BY <1>1, <2>3, <2>4, <2>6
    <3>2. m = 0
      BY <1>1, <2>2, <2>6, <3>1
    <3> QED
      BY <1>1, <2>1, <2>2, <3>1, <3>2
  <2> QED
    BY <1>1, <2>5, <2>6
<1>11. ASSUME NEW k \in 1..last
       PROVE  (done \o items)[k] = s[k]
  <2>1. k \in 1..(Len(done) + Len(items))
    BY <1>8, <1>9, <1>10
  <2>2. CASE k <= d
    <3>1. (done \o items)[k] = done[k] /\ k \in 1..Len(done)
      BY <1>6, <1>8, <2>1, <2>2
    <3> QED
      BY <1>0, <3>1
  <2>3. CASE ~(k <= d)
    <3>1. (done \o items)[k] = items[k - d]
      BY <1>6, <1>8, <2>1, <2>3
    <3>2. d = a
      BY <1>1, <1>3, <1>10, <2>3 DEF Smaller
    <3>3. k - a \in 1..(last - (a + 1) + 1) /\ (a + 1) + (k - a) - 1 = k
      BY <2>3, <3>2
    <3>4. (done \o items)[k] = items[k - a]
      BY <3>1, <3>2
    <3>5. items[k - a] = s[(a + 1) + (k - a) - 1]
      BY <1>5, <3>3
    <3> QED
      BY <3>3, <3>4, <3>5
  <2> QED
    BY <2>2, <2>3
<1>12. Len(done \o items) = last
  BY <1>6, <1>8, <1>9, <1>10
<1>13. /\ done \o items \in Seq(S) /\ Len(done \o items) = Smaller(a + z, l)
       /\ \A k \in 1..Len(done \o items) : (done \o items)[k] = s[k]
  BY <1>2, <1>6, <1>11, <1>12
<1> QED
  BY <1>13 DEF BeginsWith, items, l

\* What is found stays what it is: nothing changes products or the request.
LEMMA UnambiguousStays ==
    ASSUME UNCHANGED <<products, request>>
    PROVE  /\ Query!Conditions(request)' = Query!Conditions(request)
           /\ Unambiguous' <=> Unambiguous
           /\ Order(Query!Conditions(request))'
              = Order(Query!Conditions(request))
<1>1. /\ Query!Conditions(request)' = Query!Conditions(request)
      /\ Query!BuildQuery(request)' = Query!BuildQuery(request)
  BY DEF Query!BuildQuery, Query!Conditions, Query!Folded, Query!HasValue,
         Query!StockAsked, Query!AtLeast, Query!AtMost, Query!InRange
<1>2. \A p, q : Query!Before(p, q)' <=> Query!Before(p, q)
  BY DEF Query!Before
<1>3. Order(Query!Conditions(request))' = Order(Query!Conditions(request))
  BY <1>1, <1>2 DEF Order
<1> QED
  BY <1>1, <1>2, <1>3 DEF Unambiguous, TellsApart

\* Whoever is asked, and up to what window, finds the same.
LEMMA SearchShowsMore ==
    ASSUME Query!SearchAssumption, QueryInv, Unambiguous, Query!Search
    PROVE  SeenInOrder'
<1> DEFINE S == Query!Conditions(request)
           z == request.pageSize
           n == Cardinality(S)
           O == Order(S)
           a == (page - 1) * z
<1>1. IsFiniteSet(S) /\ n \in Nat /\ z \in Nat /\ z > 0
  BY ConditionsFinite
<1>2. SeenInOrder /\ TellsApart(S) /\ page \in Nat /\ page > 0
  BY DEF QueryInv, Unambiguous
<1>3. (IF page * request.pageSize <= WINDOW
       THEN Query!Matches ELSE Query!Conditions(request)) = S
  BY DEF Unambiguous, Query!Matches
<1>4. PICK s \in Query!Sorted(S) :
          /\ answer'.hasNext = Query!HasNext(page, n)
          /\ seen' = seen \o Query!PageOf(s, page)
  <2>1. PICK s \in Query!Sorted(S) :
            /\ answer' = [total |-> n, items |-> Query!PageOf(s, page),
                          hasNext |-> Query!HasNext(page, n),
                          degraded |-> ~up \/ ~(page * z <= WINDOW)]
            /\ seen' = seen \o Query!PageOf(s, page)
    BY <1>3, QueryLibrary DEF Query!Search
  <2> HIDE DEF S, z, n
  <2> QED
    BY <2>1
<1>5. page' = page + 1 /\ UNCHANGED <<products, request>>
  BY DEF Query!Search
<1>0. O = Order(S)
  OBVIOUS
<1> HIDE DEF S, z, n, O
<1>6. /\ s \in Seq(S) /\ Len(s) = n /\ Query!ToSet(s) = S
      /\ \A k \in 1..n : s[k] \in S /\ Place(O, S, s[k]) = k
  BY <1>0, <1>1, <1>2, SortedIs, SortedAtPlace DEF n
<1>7. /\ seen \in Seq(S) /\ Len(seen) = Smaller(a, n)
      /\ \A k \in 1..Len(seen) : Place(O, S, seen[k]) = k
  BY <1>2 DEF SeenInOrder, FirstPages, S, z, n, O, a
<1>8. a \in Nat /\ a + z = page * z
  <2>1. \A x, y \in Nat : x > 0 => /\ (x - 1) * y \in Nat
                                   /\ (x - 1) * y + y = x * y
    OBVIOUS
  <2> QED
    BY <1>1, <1>2, <2>1
<1> HIDE DEF a
<1>9. \A k \in 1..Len(seen) : seen[k] = s[k]
  <2> SUFFICES ASSUME NEW k \in 1..Len(seen)
               PROVE  seen[k] = s[k]
    OBVIOUS
  <2>1. k \in 1..n /\ seen[k] \in S
    BY <1>1, <1>7, <1>8 DEF Smaller
  <2>2. PICK j \in 1..n : seen[k] = s[j]
    BY <1>6, <2>1 DEF Query!ToSet
  <2>3. Place(O, S, s[j]) = j /\ Place(O, S, seen[k]) = k
    BY <1>6, <1>7
  <2> QED
    BY <2>2, <2>3
<1>10. Query!PageOf(s, page) = SubSeq(s, a + 1, Smaller(a + z, n))
  <2>1. Query!From(page) = a + 1
    BY DEF Query!From, a, z
  <2>2. Query!From(page) + request.pageSize - 1 = a + z
    BY <1>1, <1>8, <2>1 DEF z
  <2> QED
    BY <1>6, <2>1, <2>2 DEF Query!PageOf, Smaller
<1>11. /\ seen' \in Seq(S) /\ Len(seen') = Smaller(a + z, n)
       /\ \A k \in 1..Len(seen') : seen'[k] = s[k]
  <2> DEFINE items == Query!PageOf(s, page)
  <2>1. n = Len(s) /\ seen' = seen \o items
    BY <1>4, <1>6
  <2> HIDE DEF items
  <2>2. items = SubSeq(s, a + 1, Smaller(a + z, n))
    BY <1>10 DEF items
  <2>3. a \in Nat /\ z \in Nat /\ s \in Seq(S) /\ seen \in Seq(S)
    BY <1>1, <1>6, <1>7, <1>8
  <2>4. BeginsWith(S, s, seen, Smaller(a, Len(s)))
    BY <1>7, <1>9, <2>1 DEF BeginsWith
  <2>5. BeginsWith(S, s, seen \o SubSeq(s, a + 1, Smaller(a + z, Len(s))),
                   Smaller(a + z, Len(s)))
    BY <2>3, <2>4, NextPage
  <2> QED
    BY <2>1, <2>2, <2>5 DEF BeginsWith
<1>12. \A k \in 1..Len(seen') : Place(O, S, seen'[k]) = k
  <2>1. \A k \in 1..Len(seen') : k \in 1..n
    BY <1>1, <1>8, <1>11 DEF Smaller
  <2> QED
    BY <1>6, <1>11, <2>1
<1>13. (page' - 1) * z = a + z
  BY <1>2, <1>5, <1>8
<1>14. ~answer'.hasNext => Len(seen') = n
  <2>1. Query!HasNext(page, n) <=> a + z < n
    BY <1>8 DEF Query!HasNext, z
  <2> QED
    BY <1>1, <1>4, <1>8, <1>11, <2>1 DEF Smaller
<1>15. FirstPages(S, O, z, page', seen', answer'.hasNext)
  BY <1>11, <1>12, <1>13, <1>14 DEF FirstPages, n
<1>16. /\ Query!Conditions(request)' = S
       /\ Order(Query!Conditions(request))' = O /\ request'.pageSize = z
  BY <1>5, UnambiguousStays DEF S, O, z
<1> QED
  BY <1>15, <1>16, Zenon DEF SeenInOrder

LEMMA QueryStep ==
    ASSUME Query!SearchAssumption, QueryInv, [Query!Next]_(Query!vars)
    PROVE  QueryInv'
<1>1. CASE Query!Search
  <2>1. UNCHANGED <<products, request>> /\ page' = page + 1
    BY <1>1 DEF Query!Search
  <2>2. Unambiguous' => SeenInOrder'
    BY <1>1, <2>1, UnambiguousStays, SearchShowsMore
  <2> QED
    BY <2>1, <2>2 DEF QueryInv
<1>2. CASE Query!Toggle \/ UNCHANGED Query!vars
  <2>1. UNCHANGED <<products, request, page, seen, answer>>
    BY <1>2 DEF Query!Toggle, Query!vars
  <2>2. SeenInOrder => SeenInOrder'
    BY <2>1, UnambiguousStays, Zenon DEF SeenInOrder
  <2> QED
    BY <2>1, <2>2, UnambiguousStays DEF QueryInv
<1> QED
  BY <1>1, <1>2 DEF Query!Next

LEMMA QueryInit == Query!SearchAssumption /\ Query!Init => QueryInv
<1> SUFFICES ASSUME Query!SearchAssumption, Query!Init
             PROVE  QueryInv
  OBVIOUS
<1>1. /\ request.pageSize \in Nat
      /\ Cardinality(Query!Conditions(request)) \in Nat
  <2>1. IsFiniteSet(products) /\ request.pageSize \in 1..60
    BY QueryLibrary DEF Query!SearchAssumption, Query!Init, Query!Bodies
  <2>2. Query!Conditions(request) \subseteq products
    BY DEF Query!Conditions
  <2>3. IsFiniteSet(Query!Conditions(request))
    BY <2>1, <2>2, FS_Subset
  <2>4. \A n \in 1..60 : n \in Nat
    OBVIOUS
  <2> QED
    BY <2>1, <2>3, <2>4, FS_CardinalityType
<1>2. page = 1 /\ seen = <<>> /\ answer.hasNext
  BY DEF Query!Init, Query!NoAnswer
<1>3. Smaller((1 - 1) * request.pageSize,
              Cardinality(Query!Conditions(request))) = 0
  BY <1>1 DEF Smaller
<1>4. SeenInOrder
  BY <1>1, <1>2, <1>3 DEF SeenInOrder, FirstPages
<1> QED
  BY <1>2, <1>4 DEF QueryInv, Query!Init

\* A client that follows hasNext to the end has seen every product that
\* matches, each on one page, while Elasticsearch goes and comes back, as long
\* as both searches find the same and the sorting tells it apart.
THEOREM PagesShowAll ==
    ASSUME Query!SearchAssumption
    PROVE  Query!Spec => [](Unambiguous => Query!EachOnOnePage)
<1>1. Query!Init => QueryInv
  BY QueryInit
<1>2. QueryInv /\ [Query!Next]_(Query!vars) => QueryInv'
  BY QueryStep
<1>3. ASSUME QueryInv, Unambiguous
      PROVE  Query!EachOnOnePage
  <2> DEFINE S == Query!Conditions(request)
             n == Cardinality(S)
  <2>1. /\ seen \in Seq(S)
        /\ \A k \in 1..Len(seen) : Place(Order(S), S, seen[k]) = k
        /\ ~answer.hasNext => Len(seen) = n
    BY <1>3 DEF QueryInv, SeenInOrder, FirstPages
  <2>2. IsInjective(seen)
    BY <2>1 DEF IsInjective
  <2>3. ASSUME ~answer.hasNext
        PROVE  Query!ToSet(seen) = S
    <3>1. IsFiniteSet(S) /\ n \in Nat
      BY <1>3, ConditionsFinite
    <3> HIDE DEF S, n
    <3>2. seen \in [1..n -> S] /\ DOMAIN seen = 1..n
      BY <2>1, <2>3
    <3>3. seen \in Injection(1..n, S)
      BY <2>2, <3>2 DEF Injection
    <3>4. IsFiniteSet(1..n) /\ Cardinality(1..n) = n
      <4>1. 1 \in Int /\ n \in Int
        BY <3>1
      <4> QED
        BY <3>1, <4>1, FS_Interval
    <3>5. seen \in Surjection(1..n, S)
      BY <3>1, <3>3, <3>4, FS_Injection DEF n
    <3> QED
      BY <3>2, <3>5 DEF Surjection, Query!ToSet
  <2>4. Query!Matches = S
    BY <1>3 DEF Query!Matches, Unambiguous
  <2> QED
    BY <2>2, <2>3, <2>4, QueryLibrary DEF Query!EachOnOnePage
<1> QED
  BY <1>1, <1>2, <1>3, PTL DEF Query!Spec

\* "Search degrades": without a text the fallback finds the very products that
\* Elasticsearch finds, and "the user chose nothing" is understood by both, as
\* long as categories are stored in the spelling that they are folded to.
THEOREM FallbackFindsTheSame ==
    ASSUME Query!SearchAssumption,
           \A c \in Catalogues : \A p \in c :
               Query!Folded(p.category) = p.category
    PROVE  Query!Spec => [](Query!DegradesTheSame /\ Query!NothingChosen)
<1> DEFINE Inv == products \in Catalogues /\ request \in Searches
<1>1. Query!Init => Inv
  BY DEF Query!Init
<1>2. Inv /\ [Query!Next]_(Query!vars) => Inv'
  BY DEF Query!Next, Query!Search, Query!Toggle, Query!vars
<1>3. Inv => Query!DegradesTheSame
  <2> SUFFICES ASSUME Inv, ~request.q,
                      request.category.values \subseteq Query!Stored
               PROVE  Query!BuildQuery(request) = Query!Conditions(request)
    BY DEF Query!DegradesTheSame
  <2>1. \A p \in products : Query!Folded(p.category) = p.category
    OBVIOUS
  <2>2. \A c \in request.category.values : Query!Folded(c) = c
    BY <2>1 DEF Query!Stored
  <2>3. {Query!Folded(c) : c \in request.category.values}
          = request.category.values
    BY <2>2
  <2> QED
    BY <2>1, <2>3 DEF Query!BuildQuery, Query!Conditions, Query!InRange
<1>4. Inv => Query!NothingChosen
  <2> SUFFICES ASSUME Inv, request.category.values = {}
               PROVE  LET w == [request EXCEPT !.category =
                                        [sent |-> FALSE, values |-> {}]] IN
                      /\ Query!BuildQuery(request) = Query!BuildQuery(w)
                      /\ Query!Conditions(request) = Query!Conditions(w)
    BY DEF Query!NothingChosen
  <2> DEFINE w == [request EXCEPT !.category = [sent |-> FALSE, values |-> {}]]
  <2>1. request \in Query!Bodies
    BY DEF Query!SearchAssumption
  <2>2. /\ w.q = request.q /\ w.min = request.min /\ w.max = request.max
        /\ w.inStock = request.inStock /\ w.minRating = request.minRating
        /\ w.category = [sent |-> FALSE, values |-> {}]
    BY <2>1 DEF Query!Bodies
  <2>3. ~Query!HasValue(request.category) /\ ~Query!HasValue(w.category)
    BY <2>2 DEF Query!HasValue
  <2> HIDE DEF w
  <2>4. /\ Query!BuildQuery(request) = Query!BuildQuery(w)
        /\ Query!Conditions(request) = Query!Conditions(w)
    BY <2>2, <2>3
    DEF Query!BuildQuery, Query!Conditions, Query!InRange, Query!StockAsked
  <2> QED
    BY <2>4 DEF w
<1> QED
  BY <1>1, <1>2, <1>3, <1>4, PTL DEF Query!Spec

-----------------------------------------------------------------------------
(* Charges and refunds (Payment) *)

\* What a charge request carries is of its type, and no request is "none".
ChargesAreLegal == Pay!RequestAssumption /\ Pay!NamesAssumption

LEMMA NoneIsNoCharge ==
    ChargesAreLegal => Pay!None \notin Charges /\ Pay!None \notin Refunds
BY DEF ChargesAreLegal, Pay!NamesAssumption, Pay!None

LEMMA GotoType ==
    ASSUME Pay!TypeOK, NEW r \in Charges,
           NEW l \in {"idle", "answered", "crashed"} \cup Pay!Active,
           Pay!Goto(r, l)
    PROVE  /\ pc' \in [Charges -> {"idle", "answered", "crashed"}
                                  \cup Pay!Active]
           /\ answer' \in [Charges -> Pay!Answers \cup {Pay!NoAnswer}]
BY DEF Pay!Goto, Pay!TypeOK

LEMMA ReplyType ==
    ASSUME Pay!TypeOK, NEW r \in Charges, NEW code, NEW status,
           \/ code \in {200, 201, 402} /\ status \in Pay!Outcomes
           \/ code \in {404, 409, 500} /\ status = Pay!None,
           Pay!Reply(r, code, status)
    PROVE  /\ pc' \in [Charges -> {"idle", "answered", "crashed"}
                                  \cup Pay!Active]
           /\ answer' \in [Charges -> Pay!Answers \cup {Pay!NoAnswer}]
<1>1. [code |-> code, payment |-> status] \in Pay!Answers
  BY DEF Pay!Answers
<1> QED
  BY <1>1 DEF Pay!Reply, Pay!TypeOK

LEMMA InitTypeOK == Pay!Init => Pay!TypeOK
BY DEF Pay!Init, Pay!TypeOK, Pay!Statuses

LEMMA ChargeTypeOK ==
    ASSUME ChargesAreLegal, Pay!TypeOK, NEW r \in Charges,
           Pay!Charge(r) \/ Pay!ChargeCrash(r)
    PROVE  Pay!TypeOK'
<1>1. CASE Pay!Arrive(r)
  BY <1>1, GotoType
  DEF Pay!Arrive, Pay!Active, Pay!TypeOK, Pay!tables, Pay!provider,
      Pay!refundVars
<1>2. CASE Pay!Lookup(r)
  <2>1. CASE Pay!Goto(r, "check")
    BY <1>2, <2>1, GotoType
    DEF Pay!Lookup, Pay!Active, Pay!TypeOK, Pay!tables, Pay!provider,
        Pay!refundVars
  <2>2. ASSUME NEW q \in Pay!Rows(KeyOf[r]), Pay!Reply(r, 200, payment[q])
        PROVE  Pay!TypeOK'
    <3>1. payment[q] \in Pay!Outcomes
      BY DEF Pay!Rows, Pay!TypeOK
    <3>2. /\ pc' \in [Charges -> {"idle", "answered", "crashed"}
                                 \cup Pay!Active]
          /\ answer' \in [Charges -> Pay!Answers \cup {Pay!NoAnswer}]
      BY <2>2, <3>1, ReplyType
    <3> QED
      BY <1>2, <3>2
      DEF Pay!Lookup, Pay!TypeOK, Pay!tables, Pay!provider, Pay!refundVars
  <2>3. CASE Pay!Reply(r, 409, Pay!None)
    BY <1>2, <2>3, ReplyType
    DEF Pay!Lookup, Pay!TypeOK, Pay!tables, Pay!provider, Pay!refundVars
  <2> QED
    BY <1>2, <2>1, <2>2, <2>3 DEF Pay!Lookup
<1>3. CASE Pay!Check(r)
  BY <1>3, GotoType, ReplyType
  DEF Pay!Check, Pay!Active, Pay!TypeOK, Pay!tables, Pay!provider,
      Pay!refundVars
<1>4. CASE Pay!Insert(r)
  BY <1>4, GotoType, ReplyType
  DEF Pay!Insert, Pay!Active, Pay!Outcomes, Pay!TypeOK, Pay!provider,
      Pay!refundVars
<1>5. CASE Pay!Authorize(r)
  BY <1>5, GotoType
  DEF Pay!Authorize, Pay!Active, Pay!TypeOK, Pay!tables, Pay!refundVars
<1>6. CASE Pay!Settle(r)
  <2>1. Pay!OutcomeOf(r) \in Pay!Outcomes
    BY DEF Pay!OutcomeOf, Pay!Outcomes
  <2>2. /\ pc' \in [Charges -> {"idle", "answered", "crashed"} \cup Pay!Active]
        /\ answer' \in [Charges -> Pay!Answers \cup {Pay!NoAnswer}]
    <3>1. CASE Pay!Reply(r, 201, Pay!OutcomeOf(r))
      BY <2>1, <3>1, ReplyType
    <3>2. CASE Pay!Reply(r, 402, Pay!OutcomeOf(r))
      BY <2>1, <3>2, ReplyType
    <3>3. CASE Pay!Reply(r, 500, Pay!None)
      BY <3>3, ReplyType
    <3> QED
      BY <1>6, <3>1, <3>2, <3>3 DEF Pay!Settle
  <2>3. Pay!WriteOutcome(r) \/ UNCHANGED Pay!tables
    BY <1>6 DEF Pay!Settle
  <2>4. payment' \in [Charges -> Pay!Outcomes \cup {Pay!None}]
    BY <2>1, <2>3 DEF Pay!WriteOutcome, Pay!tables, Pay!TypeOK
  <2>5. order' \in [Orders -> Pay!Statuses]
    BY <2>3
    DEF ChargesAreLegal, Pay!RequestAssumption, Pay!WriteOutcome,
        Pay!OrderAfter, Pay!Statuses, Pay!tables, Pay!TypeOK
  <2> QED
    BY <1>6, <2>2, <2>4, <2>5
    DEF Pay!Settle, Pay!TypeOK, Pay!provider, Pay!refundVars
<1>7. CASE Pay!ChargeCrash(r)
  BY <1>7, GotoType
  DEF Pay!ChargeCrash, Pay!TypeOK, Pay!tables, Pay!provider, Pay!refundVars
<1> QED
  BY <1>1, <1>2, <1>3, <1>4, <1>5, <1>6, <1>7 DEF Pay!Charge

LEMMA RefundTypeOK ==
    ASSUME ChargesAreLegal, Pay!TypeOK, NEW f \in Refunds,
           Pay!Refund(f) \/ Pay!RefundCrash(f)
    PROVE  Pay!TypeOK'
<1>1. CASE Pay!RefundBegin(f)
  <2> PICK r \in Charges :
          \/ Pay!LockRow(f, r)
          \/ /\ refund' = [refund EXCEPT ![f] = "ended"]
             /\ UNCHANGED <<target, holder>>
    BY <1>1 DEF Pay!RefundBegin
  <2> QED
    BY <1>1
    DEF Pay!RefundBegin, Pay!LockRow, Pay!TypeOK, Pay!chargeVars, Pay!tables,
        Pay!provider
<1>2. CASE Pay!ProviderRefund(f)
  <2>1. returned' \in [Charges -> Nat]
    <3>1. returned \in [Charges -> Nat]
      BY DEF Pay!TypeOK
    <3>2. ASSUME NEW r \in Charges
          PROVE  returned[r] + 1 \in Nat
      BY <3>1
    <3> QED
      BY <1>2, <3>1, <3>2 DEF Pay!ProviderRefund
  <2> QED
    BY <1>2, <2>1
    DEF Pay!ProviderRefund, Pay!TypeOK, Pay!chargeVars, Pay!tables
<1>3. CASE Pay!RefundCommit(f)
  <2>1. \E how \in {"ended", "failed"} : Pay!Release(f, how)
    BY <1>3 DEF Pay!RefundCommit
  <2>2. Pay!WriteRefund(f) \/ UNCHANGED Pay!tables
    BY <1>3 DEF Pay!RefundCommit
  <2>3. /\ payment' \in [Charges -> Pay!Outcomes \cup {Pay!None}]
        /\ order' \in [Orders -> Pay!Statuses]
    BY <2>2
    DEF Pay!WriteRefund, Pay!Outcomes, Pay!Statuses, Pay!tables, Pay!TypeOK
  <2> QED
    BY <1>3, <2>1, <2>3
    DEF Pay!RefundCommit, Pay!Release, Pay!TypeOK, Pay!chargeVars, Pay!provider
<1>4. CASE Pay!RefundCrash(f)
  BY <1>4
  DEF Pay!RefundCrash, Pay!Release, Pay!TypeOK, Pay!chargeVars, Pay!tables,
      Pay!provider
<1> QED
  BY <1>1, <1>2, <1>3, <1>4 DEF Pay!Refund

LEMMA StepTypeOK == ChargesAreLegal /\ Pay!TypeOK /\ [Pay!Next]_(Pay!vars) =>
  Pay!TypeOK'
<1> SUFFICES ASSUME ChargesAreLegal, Pay!TypeOK, [Pay!Next]_(Pay!vars)
             PROVE  Pay!TypeOK'
  OBVIOUS
<1>1. ASSUME NEW o \in Orders, Pay!OtherService(o)
      PROVE  Pay!TypeOK'
  <2>1. order[o] \in Pay!Statuses
    BY DEF Pay!TypeOK
  <2>2. Pay!ALLOWED_TRANSITIONS[order[o]] \subseteq Pay!Statuses
    BY <2>1 DEF Pay!ALLOWED_TRANSITIONS, Pay!Statuses
  <2>3. PICK s : s \in Pay!Statuses /\ order' = [order EXCEPT ![o] = s]
    BY <1>1, <2>2
    DEF Pay!OtherService, Pay!SagaWrites, Pay!CarrierReports, Pay!Statuses
  <2> QED
    BY <1>1, <2>3
    DEF Pay!OtherService, Pay!TypeOK, Pay!chargeVars, Pay!provider,
        Pay!refundVars
<1>2. CASE UNCHANGED Pay!vars
  BY <1>2
  DEF Pay!vars, Pay!chargeVars, Pay!tables, Pay!provider, Pay!refundVars,
      Pay!TypeOK
<1> QED
  BY <1>1, <1>2, ChargeTypeOK, RefundTypeOK DEF Pay!Next

\* Every status, answer and handler stays in its range.
THEOREM ChargingTypeCorrect ==
    ASSUME ChargesAreLegal
    PROVE  Pay!Spec => []Pay!TypeOK
<1>1. Pay!TypeOK /\ [Pay!Next]_(Pay!vars) => Pay!TypeOK'
  BY StepTypeOK
<1> QED
  BY <1>1, InitTypeOK, PTL DEF Pay!Spec

-----------------------------------------------------------------------------
(* What makes the books agree.  A row is inserted before the provider is    *)
(* asked and stays; the handler that inserted it is the only one to decide  *)
(* it; and a refund keeps the row it works on locked.                       *)

\* How far a charge handler has come shows in its row and at the provider.
ChargeProgress ==
    \A r \in Charges :
        /\ pc[r] \in {"idle", "lookup", "check", "insert"} =>
          payment[r] = Pay!None
        /\ payment[r] = Pay!None => r \notin taken
        /\ pc[r] \in {"authorize", "approved", "declined"} =>
               payment[r] = "pending"
        /\ pc[r] \in {"authorize", "declined"} => r \notin taken
        /\ pc[r] = "approved" => r \in taken

\* What the unique index is for.
OneRowPerKey ==
    \A q, r \in Charges :
        payment[q] # Pay!None /\ payment[r] # Pay!None /\ KeyOf[q] = KeyOf[r]
            => q = r

\* A refund that is under way holds the row of a captured payment.
RefundProgress ==
    \A f \in Refunds :
        refund[f] \in {"calling", "commit"} =>
            /\ target[f] \in Charges
            /\ holder[target[f]] = f
            /\ payment[target[f]] = "captured"
            /\ refund[f] = "commit" => returned[target[f]] > 0

\* What a client has heard was true of the row of its key, and a row that is
\* decided is not decided again.
AnswersHaveRows ==
    \A q \in Charges :
        /\ answer[q].payment \in {"captured", "refunded"} =>
               \E r \in Charges : /\ KeyOf[r] = KeyOf[q]
                                  /\ payment[r] \in {"captured", "refunded"}
        /\ answer[q].payment = "failed" =>
               \E r \in Charges : KeyOf[r] = KeyOf[q] /\ payment[r] = "failed"

BooksInv ==
    /\ ChargesAreLegal
    /\ Pay!TypeOK
    /\ ChargeProgress
    /\ OneRowPerKey
    /\ RefundProgress
    /\ Pay!RowsMatchProvider
    /\ Pay!WaitingOrderIsUnpaid
    /\ AnswersHaveRows

LEMMA InitBooks == ChargesAreLegal /\ Pay!Init => BooksInv
BY InitTypeOK
DEF Pay!Init, BooksInv, ChargeProgress, OneRowPerKey, RefundProgress,
    Pay!RowsMatchProvider, Pay!WaitingOrderIsUnpaid, AnswersHaveRows,
    Pay!NoAnswer, Pay!None

\* The steps that read, or give up: they move one handler.
LEMMA ReadEffect ==
    ASSUME Pay!TypeOK, NEW r \in Charges,
           Pay!Arrive(r) \/ Pay!Lookup(r) \/ Pay!Check(r) \/ Pay!ChargeCrash(r)
    PROVE  /\ UNCHANGED <<Pay!tables, Pay!provider, Pay!refundVars>>
           /\ \E l \in {"lookup", "check", "insert", "answered", "crashed"} :
                  /\ pc' = [pc EXCEPT ![r] = l]
                  /\ l \in {"lookup", "check", "insert"} =>
                         pc[r] \in {"idle", "lookup", "check"}
<1>1. CASE Pay!Arrive(r)
  BY <1>1 DEF Pay!Arrive, Pay!Goto
<1>2. CASE Pay!Lookup(r)
  BY <1>2 DEF Pay!Lookup, Pay!Goto, Pay!Reply
<1>3. CASE Pay!Check(r)
  BY <1>3 DEF Pay!Check, Pay!Goto, Pay!Reply
<1>4. CASE Pay!ChargeCrash(r)
  BY <1>4 DEF Pay!ChargeCrash, Pay!Goto
<1> QED
  BY <1>1, <1>2, <1>3, <1>4

\* The steps of the refunds leave the handlers of charges and what was taken
\* alone; a row changes from captured to refunded only.
LEMMA RefundEffect ==
    ASSUME BooksInv, NEW f \in Refunds, Pay!Refund(f) \/ Pay!RefundCrash(f)
    PROVE  /\ UNCHANGED <<pc, answer, taken>>
           /\ \A r \in Charges :
                  payment'[r] # payment[r] =>
                      payment[r] = "captured" /\ payment'[r] = "refunded"
<1>1. CASE Pay!RefundCommit(f)
  <2>1. Pay!WriteRefund(f) \/ UNCHANGED Pay!tables
    BY <1>1 DEF Pay!RefundCommit
  <2> QED
    BY <1>1, <2>1
    DEF Pay!RefundCommit, Pay!MayCommit, Pay!WriteRefund, BooksInv,
        RefundProgress, Pay!TypeOK, Pay!chargeVars, Pay!tables, Pay!provider
<1>2. CASE Pay!RefundBegin(f) \/ Pay!ProviderRefund(f) \/ Pay!RefundCrash(f)
  BY <1>2
  DEF Pay!RefundBegin, Pay!ProviderRefund, Pay!RefundCrash, Pay!chargeVars,
      Pay!tables, Pay!provider
<1> QED
  BY <1>1, <1>2 DEF Pay!Refund

LEMMA ChargeProgressStep ==
    ASSUME BooksInv, [Pay!Next]_(Pay!vars)
    PROVE  ChargeProgress'
<1> USE DEF BooksInv
<1>1. ASSUME NEW r \in Charges,
             \/ Pay!Arrive(r) \/ Pay!Lookup(r)
             \/ Pay!Check(r) \/ Pay!ChargeCrash(r)
      PROVE  ChargeProgress'
  <2>1. UNCHANGED <<payment, taken>>
    BY <1>1, ReadEffect DEF Pay!tables, Pay!provider
  <2>2. PICK l \in {"lookup", "check", "insert", "answered", "crashed"} :
                 /\ pc' = [pc EXCEPT ![r] = l]
                 /\ l \in {"lookup", "check", "insert"} =>
                        pc[r] \in {"idle", "lookup", "check"}
    BY <1>1, ReadEffect
  <2> QED
    BY <2>1, <2>2 DEF ChargeProgress, Pay!TypeOK
<1>2. ASSUME NEW r \in Charges, Pay!Insert(r)
      PROVE  ChargeProgress'
  BY <1>2
  DEF Pay!Insert, Pay!Goto, Pay!Reply, ChargeProgress, Pay!TypeOK,
      Pay!provider, Pay!None
<1>3. ASSUME NEW r \in Charges, Pay!Authorize(r)
      PROVE  ChargeProgress'
  BY <1>3
  DEF Pay!Authorize, Pay!Goto, ChargeProgress, Pay!TypeOK, Pay!tables, Pay!None
<1>4. ASSUME NEW r \in Charges, Pay!Settle(r)
      PROVE  ChargeProgress'
  <2>1. /\ pc' = [pc EXCEPT ![r] = "answered"]
        /\ taken' = taken
        /\ pc[r] \in {"approved", "declined"}
    BY <1>4 DEF Pay!Settle, Pay!CanSettle, Pay!Reply, Pay!provider
  <2>2. \/ payment' = [payment EXCEPT ![r] = Pay!OutcomeOf(r)]
        \/ payment' = payment
    BY <1>4 DEF Pay!Settle, Pay!WriteOutcome, Pay!tables
  <2>3. Pay!OutcomeOf(r) # Pay!None
    BY DEF Pay!OutcomeOf, Pay!None
  <2> QED
    BY <2>1, <2>2, <2>3 DEF ChargeProgress, Pay!TypeOK, Pay!None
<1>5. ASSUME NEW f \in Refunds, Pay!Refund(f) \/ Pay!RefundCrash(f)
      PROVE  ChargeProgress'
  BY <1>5, RefundEffect DEF ChargeProgress, Pay!None
<1>6. ASSUME NEW o \in Orders, Pay!OtherService(o)
      PROVE  ChargeProgress'
  BY <1>6 DEF Pay!OtherService, ChargeProgress, Pay!chargeVars, Pay!provider
<1>7. CASE UNCHANGED Pay!vars
  BY <1>7
  DEF Pay!vars, Pay!chargeVars, Pay!tables, Pay!provider, ChargeProgress
<1> QED
  BY <1>1, <1>2, <1>3, <1>4, <1>5, <1>6, <1>7 DEF Pay!Next, Pay!Charge

LEMMA OneRowPerKeyStep ==
    ASSUME BooksInv, [Pay!Next]_(Pay!vars)
    PROVE  OneRowPerKey'
<1> USE DEF BooksInv
<1>1. ASSUME NEW r \in Charges,
             \/ Pay!Arrive(r) \/ Pay!Lookup(r)
             \/ Pay!Check(r) \/ Pay!ChargeCrash(r)
      PROVE  OneRowPerKey'
  BY <1>1, ReadEffect DEF OneRowPerKey, Pay!tables
<1>2. ASSUME NEW r \in Charges, Pay!Insert(r)
      PROVE  OneRowPerKey'
  <2>1. CASE payment' = payment
    BY <2>1 DEF OneRowPerKey
  <2>2. CASE /\ Pay!Rows(KeyOf[r]) = {}
             /\ payment' = [payment EXCEPT ![r] = "pending"]
    BY <2>2 DEF Pay!Rows, OneRowPerKey, Pay!TypeOK
  <2> QED
    BY <1>2, <2>1, <2>2 DEF Pay!Insert, Pay!RowAllowed
<1>3. ASSUME NEW r \in Charges, Pay!Authorize(r)
      PROVE  OneRowPerKey'
  BY <1>3 DEF Pay!Authorize, OneRowPerKey, Pay!tables
<1>4. ASSUME NEW r \in Charges, Pay!Settle(r)
      PROVE  OneRowPerKey'
  <2>1. \/ payment' = [payment EXCEPT ![r] = Pay!OutcomeOf(r)]
        \/ payment' = payment
    BY <1>4 DEF Pay!Settle, Pay!WriteOutcome, Pay!tables
  <2>2. payment[r] # Pay!None
    BY <1>4 DEF Pay!Settle, Pay!CanSettle, ChargeProgress, Pay!None
  <2> QED
    BY <2>1, <2>2 DEF OneRowPerKey, Pay!TypeOK
<1>5. ASSUME NEW f \in Refunds, Pay!Refund(f) \/ Pay!RefundCrash(f)
      PROVE  OneRowPerKey'
  BY <1>5, RefundEffect DEF OneRowPerKey, Pay!None
<1>6. ASSUME NEW o \in Orders, Pay!OtherService(o)
      PROVE  OneRowPerKey'
  BY <1>6 DEF Pay!OtherService, OneRowPerKey
<1>7. CASE UNCHANGED Pay!vars
  BY <1>7 DEF Pay!vars, Pay!tables, OneRowPerKey
<1> QED
  BY <1>1, <1>2, <1>3, <1>4, <1>5, <1>6, <1>7 DEF Pay!Next, Pay!Charge

\* The transaction that decides a row finds it pending, and captures only what
\* was taken.
LEMMA SettleEffect ==
    ASSUME BooksInv, NEW r \in Charges, Pay!Settle(r)
    PROVE  /\ UNCHANGED <<taken, returned, refund, target, holder>>
           /\ payment[r] = "pending"
           /\ \/ UNCHANGED Pay!tables
              \/ /\ payment' = [payment EXCEPT ![r] = Pay!OutcomeOf(r)]
                 /\ order' = [order EXCEPT ![OrderOf[r]] = Pay!OrderAfter(r)]
           /\ Pay!OutcomeOf(r) \in {"captured", "failed"}
           /\ Pay!OutcomeOf(r) = "captured" <=> r \in taken
BY DEF Pay!Settle, Pay!CanSettle, Pay!WriteOutcome, Pay!provider,
       Pay!refundVars, BooksInv, ChargeProgress, Pay!OutcomeOf

LEMMA RefundProgressStep ==
    ASSUME BooksInv, [Pay!Next]_(Pay!vars)
    PROVE  RefundProgress'
<1> USE DEF BooksInv
<1>1. ASSUME NEW r \in Charges,
             \/ Pay!Arrive(r) \/ Pay!Lookup(r)
             \/ Pay!Check(r) \/ Pay!ChargeCrash(r)
      PROVE  RefundProgress'
  BY <1>1, ReadEffect
  DEF RefundProgress, Pay!tables, Pay!provider, Pay!refundVars
<1>2. ASSUME NEW r \in Charges, Pay!Insert(r) \/ Pay!Authorize(r)
      PROVE  RefundProgress'
  <2>1. UNCHANGED <<returned, refund, target, holder>>
    BY <1>2 DEF Pay!Insert, Pay!Authorize, Pay!provider, Pay!refundVars
  <2>2. \A q \in Charges : payment[q] = "captured" => payment'[q] = payment[q]
    BY <1>2
    DEF Pay!Insert, Pay!Authorize, Pay!tables, ChargeProgress, Pay!TypeOK,
        Pay!None
  <2> QED
    BY <2>1, <2>2 DEF RefundProgress
<1>3. ASSUME NEW r \in Charges, Pay!Settle(r)
      PROVE  RefundProgress'
  <2>1. \A q \in Charges : payment[q] = "captured" => payment'[q] = payment[q]
    BY <1>3, SettleEffect DEF Pay!TypeOK, Pay!tables
  <2> QED
    BY <1>3, <2>1, SettleEffect DEF RefundProgress
<1>4. ASSUME NEW f \in Refunds, Pay!RefundBegin(f)
      PROVE  RefundProgress'
  <2>1. UNCHANGED <<payment, returned>>
    BY <1>4 DEF Pay!RefundBegin, Pay!tables, Pay!provider
  <2>2. CASE /\ refund' = [refund EXCEPT ![f] = "ended"]
             /\ UNCHANGED <<target, holder>>
    BY <2>1, <2>2 DEF RefundProgress, Pay!TypeOK
  <2>3. ASSUME NEW r \in Charges, Pay!LockRow(f, r), Pay!RowIsFree(r),
               Pay!Refundable(r)
        PROVE  RefundProgress'
    <3> SUFFICES ASSUME NEW g \in Refunds, refund'[g] \in {"calling", "commit"}
                 PROVE  /\ target'[g] \in Charges
                        /\ holder'[target'[g]] = g
                        /\ payment'[target'[g]] = "captured"
                        /\ refund'[g] = "commit" => returned'[target'[g]] > 0
      BY DEF RefundProgress
    <3>1. CASE g = f
      BY <2>1, <2>3, <3>1 DEF Pay!LockRow, Pay!Refundable, Pay!TypeOK
    <3>2. CASE g # f
      <4>1. target[g] # r
        BY <2>3, <3>2, NoneIsNoCharge
        DEF Pay!LockRow, Pay!RowIsFree, RefundProgress, Pay!TypeOK
      <4> QED
        BY <2>1, <2>3, <3>2, <4>1 DEF Pay!LockRow, RefundProgress, Pay!TypeOK
    <3> QED
      BY <3>1, <3>2
  <2> QED
    BY <1>4, <2>2, <2>3 DEF Pay!RefundBegin
<1>5. ASSUME NEW f \in Refunds, Pay!ProviderRefund(f)
      PROVE  RefundProgress'
  <2>1. UNCHANGED <<payment, target, holder>>
    BY <1>5 DEF Pay!ProviderRefund, Pay!tables
  <2>2. \A g \in Refunds : g # f => refund'[g] = refund[g]
    BY <1>5 DEF Pay!ProviderRefund, Pay!TypeOK
  <2>3. returned'[target[f]] > 0
    BY <1>5 DEF Pay!ProviderRefund, RefundProgress, Pay!TypeOK
  <2>4. \A q \in Charges : returned[q] > 0 => returned'[q] > 0
    BY <1>5 DEF Pay!ProviderRefund, Pay!TypeOK
  <2> QED
    BY <1>5, <2>1, <2>2, <2>3, <2>4 DEF Pay!ProviderRefund, RefundProgress
<1>6. ASSUME NEW f \in Refunds, Pay!RefundCommit(f) \/ Pay!RefundCrash(f)
      PROVE  RefundProgress'
  <2>1. /\ refund[f] \in {"calling", "commit"}
        /\ \E how \in {"ended", "failed"} :
               refund' = [refund EXCEPT ![f] = how]
        /\ holder' = [holder EXCEPT ![target[f]] = Pay!None]
        /\ UNCHANGED <<target, returned>>
    BY <1>6
    DEF Pay!RefundCommit, Pay!RefundCrash, Pay!MayCommit, Pay!Release,
        Pay!provider
  <2>3. \A q \in Charges : q # target[f] => payment'[q] = payment[q]
    BY <1>6
    DEF Pay!RefundCommit, Pay!RefundCrash, Pay!WriteRefund, Pay!tables,
        Pay!TypeOK
  <2>2. \A g \in Refunds :
            g # f /\ refund[g] \in {"calling", "commit"} =>
                target[g] # target[f]
    BY <2>1 DEF RefundProgress
  <2> QED
    BY <2>1, <2>2, <2>3 DEF RefundProgress, Pay!TypeOK
<1>7. ASSUME NEW o \in Orders, Pay!OtherService(o)
      PROVE  RefundProgress'
  BY <1>7 DEF Pay!OtherService, RefundProgress, Pay!provider, Pay!refundVars
<1>8. CASE UNCHANGED Pay!vars
  BY <1>8
  DEF Pay!vars, Pay!tables, Pay!provider, Pay!refundVars, RefundProgress
<1> QED
  BY <1>1, <1>2, <1>3, <1>4, <1>5, <1>6, <1>7, <1>8
  DEF Pay!Next, Pay!Charge, Pay!Refund

LEMMA RowsMatchProviderStep ==
    ASSUME BooksInv, [Pay!Next]_(Pay!vars)
    PROVE  Pay!RowsMatchProvider'
<1> USE DEF BooksInv
<1>1. ASSUME NEW r \in Charges,
             \/ Pay!Arrive(r) \/ Pay!Lookup(r)
             \/ Pay!Check(r) \/ Pay!ChargeCrash(r)
      PROVE  Pay!RowsMatchProvider'
  BY <1>1, ReadEffect DEF Pay!RowsMatchProvider, Pay!tables, Pay!provider
<1>2. ASSUME NEW r \in Charges, Pay!Insert(r)
      PROVE  Pay!RowsMatchProvider'
  BY <1>2 DEF Pay!Insert, Pay!RowsMatchProvider, Pay!provider, Pay!TypeOK
<1>3. ASSUME NEW r \in Charges, Pay!Authorize(r)
      PROVE  Pay!RowsMatchProvider'
  BY <1>3 DEF Pay!Authorize, Pay!RowsMatchProvider, ChargeProgress, Pay!tables
<1>4. ASSUME NEW r \in Charges, Pay!Settle(r)
      PROVE  Pay!RowsMatchProvider'
  BY <1>4, SettleEffect DEF Pay!RowsMatchProvider, Pay!tables, Pay!TypeOK
<1>5. ASSUME NEW f \in Refunds, Pay!RefundBegin(f) \/ Pay!RefundCrash(f)
      PROVE  Pay!RowsMatchProvider'
  BY <1>5
  DEF Pay!RefundBegin, Pay!RefundCrash, Pay!RowsMatchProvider, Pay!tables,
      Pay!provider
<1>6. ASSUME NEW f \in Refunds, Pay!ProviderRefund(f)
      PROVE  Pay!RowsMatchProvider'
  <2>1. /\ UNCHANGED <<payment, taken>>
        /\ target[f] \in Charges /\ payment[target[f]] = "captured"
    BY <1>6 DEF Pay!ProviderRefund, RefundProgress, Pay!tables
  <2>2. /\ \A q \in Charges : returned[q] > 0 => returned'[q] > 0
        /\ \A q \in Charges : q # target[f] => returned'[q] = returned[q]
    BY <1>6 DEF Pay!ProviderRefund, Pay!TypeOK
  <2> QED
    BY <2>1, <2>2 DEF Pay!RowsMatchProvider
<1>7. ASSUME NEW f \in Refunds, Pay!RefundCommit(f)
      PROVE  Pay!RowsMatchProvider'
  <2>1. /\ UNCHANGED <<taken, returned>>
        /\ \/ payment' = [payment EXCEPT ![target[f]] = "refunded"]
           \/ payment' = payment
        /\ target[f] \in Charges /\ payment[target[f]] = "captured"
        /\ returned[target[f]] > 0
    BY <1>7
    DEF Pay!RefundCommit, Pay!MayCommit, Pay!WriteRefund, RefundProgress,
        Pay!tables, Pay!provider
  <2> QED
    BY <2>1 DEF Pay!RowsMatchProvider, Pay!TypeOK
<1>8. ASSUME NEW o \in Orders, Pay!OtherService(o)
      PROVE  Pay!RowsMatchProvider'
  BY <1>8 DEF Pay!OtherService, Pay!RowsMatchProvider, Pay!provider
<1>9. CASE UNCHANGED Pay!vars
  BY <1>9 DEF Pay!vars, Pay!tables, Pay!provider, Pay!RowsMatchProvider
<1> QED
  BY <1>1, <1>2, <1>3, <1>4, <1>5, <1>6, <1>7, <1>8, <1>9
  DEF Pay!Next, Pay!Charge, Pay!Refund

LEMMA WaitingOrderIsUnpaidStep ==
    ASSUME BooksInv, [Pay!Next]_(Pay!vars)
    PROVE  Pay!WaitingOrderIsUnpaid'
<1> USE DEF BooksInv
<1>1. ASSUME NEW r \in Charges,
             \/ Pay!Arrive(r) \/ Pay!Lookup(r)
             \/ Pay!Check(r) \/ Pay!ChargeCrash(r)
      PROVE  Pay!WaitingOrderIsUnpaid'
  BY <1>1, ReadEffect DEF Pay!WaitingOrderIsUnpaid, Pay!tables
<1>2. ASSUME NEW r \in Charges, Pay!Insert(r)
      PROVE  Pay!WaitingOrderIsUnpaid'
  BY <1>2
  DEF Pay!Insert, Pay!WaitingOrderIsUnpaid, Pay!TypeOK
<1>3. ASSUME NEW r \in Charges, Pay!Authorize(r)
      PROVE  Pay!WaitingOrderIsUnpaid'
  BY <1>3 DEF Pay!Authorize, Pay!WaitingOrderIsUnpaid, Pay!tables
<1>4. ASSUME NEW r \in Charges, Pay!Settle(r)
      PROVE  Pay!WaitingOrderIsUnpaid'
  <2>1. CASE UNCHANGED Pay!tables
    BY <2>1 DEF Pay!WaitingOrderIsUnpaid, Pay!tables
  <2>2. CASE /\ payment' = [payment EXCEPT ![r] = Pay!OutcomeOf(r)]
             /\ order' = [order EXCEPT ![OrderOf[r]] = Pay!OrderAfter(r)]
    <3>1. \A q \in Charges : q # r => payment'[q] = payment[q]
      BY <2>2 DEF Pay!TypeOK
    <3>2. /\ OrderOf \in [Charges -> Orders]
          /\ \A o \in Orders : o # OrderOf[r] => order'[o] = order[o]
          /\ order'[OrderOf[r]] = Pay!OrderAfter(r)
          /\ payment'[r] = Pay!OutcomeOf(r)
      BY <2>2 DEF ChargesAreLegal, Pay!RequestAssumption, Pay!TypeOK
    <3>3. Pay!OutcomeOf(r) = "captured" =>
              Pay!OrderAfter(r) # "pending_payment"
      BY DEF Pay!OrderAfter
    <3>4. order[OrderOf[r]] # "pending_payment" =>
              Pay!OrderAfter(r) # "pending_payment"
      BY DEF Pay!OrderAfter
    <3>5. Pay!OutcomeOf(r) # "refunded"
      BY DEF Pay!OutcomeOf
    <3> QED
      BY <3>1, <3>2, <3>3, <3>4, <3>5 DEF Pay!WaitingOrderIsUnpaid
  <2> QED
    BY <1>4, <2>1, <2>2, SettleEffect
<1>5. ASSUME NEW f \in Refunds,
             Pay!RefundBegin(f) \/ Pay!ProviderRefund(f) \/ Pay!RefundCrash(f)
      PROVE  Pay!WaitingOrderIsUnpaid'
  BY <1>5
  DEF Pay!RefundBegin, Pay!ProviderRefund, Pay!RefundCrash,
      Pay!WaitingOrderIsUnpaid, Pay!tables
<1>6. ASSUME NEW f \in Refunds, Pay!RefundCommit(f)
      PROVE  Pay!WaitingOrderIsUnpaid'
  <2>1. CASE UNCHANGED Pay!tables
    BY <2>1 DEF Pay!WaitingOrderIsUnpaid, Pay!tables
  <2>2. CASE Pay!WriteRefund(f)
    <3>1. /\ payment' = [payment EXCEPT ![target[f]] = "refunded"]
          /\ order' = [order EXCEPT ![OrderOf[target[f]]] = "refunded"]
          /\ target[f] \in Charges
          /\ OrderOf \in [Charges -> Orders]
      BY <1>6, <2>2
      DEF Pay!RefundCommit, Pay!MayCommit, Pay!WriteRefund, RefundProgress,
          ChargesAreLegal, Pay!RequestAssumption
    <3> QED
      BY <3>1 DEF Pay!WaitingOrderIsUnpaid, Pay!TypeOK
  <2> QED
    BY <1>6, <2>1, <2>2 DEF Pay!RefundCommit
<1>7. ASSUME NEW o \in Orders, Pay!OtherService(o)
      PROVE  Pay!WaitingOrderIsUnpaid'
  <2>1. order[o] \in Pay!Statuses
    BY DEF Pay!TypeOK
  <2>2. "pending_payment" \notin Pay!ALLOWED_TRANSITIONS[order[o]]
    BY <2>1 DEF Pay!ALLOWED_TRANSITIONS, Pay!Statuses
  <2>3. /\ payment' = payment
        /\ \E s : s # "pending_payment" /\ order' = [order EXCEPT ![o] = s]
    BY <1>7, <2>2
    DEF Pay!OtherService, Pay!SagaWrites, Pay!CarrierReports
  <2> QED
    BY <2>3 DEF Pay!WaitingOrderIsUnpaid, Pay!TypeOK
<1>8. CASE UNCHANGED Pay!vars
  BY <1>8 DEF Pay!vars, Pay!tables, Pay!WaitingOrderIsUnpaid
<1> QED
  BY <1>1, <1>2, <1>3, <1>4, <1>5, <1>6, <1>7, <1>8
  DEF Pay!Next, Pay!Charge, Pay!Refund

\* A row that is decided changes by being refunded only.
LEMMA DecidedRowsStay ==
    ASSUME BooksInv, [Pay!Next]_(Pay!vars), NEW r \in Charges
    PROVE  /\ payment[r] = "failed" => payment'[r] = "failed"
           /\ payment[r] \in {"captured", "refunded"} =>
                  payment'[r] \in {"captured", "refunded"}
<1> USE DEF BooksInv
<1>1. ASSUME NEW q \in Charges,
             \/ Pay!Arrive(q) \/ Pay!Lookup(q)
             \/ Pay!Check(q) \/ Pay!ChargeCrash(q)
      PROVE  payment' = payment
  BY <1>1, ReadEffect DEF Pay!tables
<1>2. ASSUME NEW q \in Charges, Pay!Insert(q)
      PROVE  \/ payment' = payment
             \/ /\ payment[q] = Pay!None
                /\ payment' = [payment EXCEPT ![q] = "pending"]
  BY <1>2 DEF Pay!Insert, ChargeProgress
<1>3. ASSUME NEW q \in Charges, Pay!Authorize(q)
      PROVE  payment' = payment
  BY <1>3 DEF Pay!Authorize, Pay!tables
<1>4. ASSUME NEW q \in Charges, Pay!Settle(q)
      PROVE  \/ payment' = payment
             \/ /\ payment[q] = "pending"
                /\ payment' = [payment EXCEPT ![q] = Pay!OutcomeOf(q)]
  BY <1>4, SettleEffect DEF Pay!tables
<1>5. ASSUME NEW o \in Orders, Pay!OtherService(o)
      PROVE  payment' = payment
  BY <1>5 DEF Pay!OtherService
<1>6. CASE UNCHANGED Pay!vars
  BY <1>6 DEF Pay!vars, Pay!tables
<1> QED
  BY <1>1, <1>2, <1>3, <1>4, <1>5, <1>6, RefundEffect
  DEF Pay!Next, Pay!Charge, Pay!TypeOK, Pay!None

LEMMA AnswersHaveRowsStep ==
    ASSUME BooksInv, [Pay!Next]_(Pay!vars)
    PROVE  AnswersHaveRows'
<1> USE DEF BooksInv
<1>1. CASE answer' = answer
  BY <1>1, DecidedRowsStay DEF AnswersHaveRows
<1>2. ASSUME NEW r \in Charges, NEW code, Pay!Reply(r, code, Pay!None)
      PROVE  AnswersHaveRows'
  <2>1. /\ \A q \in Charges : q # r => answer'[q] = answer[q]
        /\ answer'[r].payment = Pay!None
    BY <1>2 DEF Pay!Reply, Pay!TypeOK
  <2> QED
    BY <2>1, DecidedRowsStay DEF AnswersHaveRows, Pay!None
<1>3. ASSUME NEW r \in Charges, Pay!Lookup(r)
      PROVE  AnswersHaveRows'
  <2>1. ASSUME NEW q \in Pay!Rows(KeyOf[r]), Pay!Reply(r, 200, payment[q])
        PROVE  AnswersHaveRows'
    <3>1. q \in Charges /\ KeyOf[q] = KeyOf[r]
      BY DEF Pay!Rows
    <3>2. /\ \A s \in Charges : s # r => answer'[s] = answer[s]
          /\ answer'[r].payment = payment[q]
      BY <2>1 DEF Pay!Reply, Pay!TypeOK
    <3> QED
      BY <3>1, <3>2, DecidedRowsStay DEF AnswersHaveRows
  <2> QED
    BY <1>1, <1>2, <1>3, <2>1 DEF Pay!Lookup, Pay!Goto
<1>4. ASSUME NEW r \in Charges, Pay!Settle(r)
      PROVE  AnswersHaveRows'
  <2>1. ASSUME NEW code, Pay!Reply(r, code, Pay!OutcomeOf(r)),
               Pay!WriteOutcome(r)
        PROVE  AnswersHaveRows'
    <3>1. /\ \A s \in Charges : s # r => answer'[s] = answer[s]
          /\ answer'[r].payment = Pay!OutcomeOf(r)
          /\ payment'[r] = Pay!OutcomeOf(r)
      BY <2>1 DEF Pay!Reply, Pay!WriteOutcome, Pay!TypeOK
    <3> QED
      BY <3>1, DecidedRowsStay DEF AnswersHaveRows
  <2> QED
    BY <1>2, <1>4, <2>1 DEF Pay!Settle
<1>5. ASSUME NEW r \in Charges,
             Pay!Arrive(r) \/ Pay!Authorize(r) \/ Pay!ChargeCrash(r)
      PROVE  answer' = answer
  BY <1>5 DEF Pay!Arrive, Pay!Authorize, Pay!ChargeCrash, Pay!Goto
<1>6. ASSUME NEW r \in Charges, Pay!Check(r) \/ Pay!Insert(r)
      PROVE  AnswersHaveRows'
  BY <1>1, <1>2, <1>6 DEF Pay!Check, Pay!Insert, Pay!Goto
<1>7. ASSUME NEW o \in Orders, Pay!OtherService(o)
      PROVE  answer' = answer
  BY <1>7 DEF Pay!OtherService, Pay!chargeVars
<1>8. CASE UNCHANGED Pay!vars
  BY <1>1, <1>8 DEF Pay!vars, Pay!chargeVars
<1> QED
  BY <1>1, <1>3, <1>4, <1>5, <1>6, <1>7, <1>8, RefundEffect
  DEF Pay!Next, Pay!Charge

LEMMA BooksStep == BooksInv /\ [Pay!Next]_(Pay!vars) => BooksInv'
<1>1. BooksInv => ChargesAreLegal /\ ChargesAreLegal'
  BY DEF BooksInv, ChargesAreLegal, Pay!RequestAssumption, Pay!NamesAssumption
<1> QED
  BY <1>1, StepTypeOK, ChargeProgressStep, OneRowPerKeyStep,
     RefundProgressStep, RowsMatchProviderStep, WaitingOrderIsUnpaidStep,
     AnswersHaveRowsStep
  DEF BooksInv

LEMMA BooksAreInvariant == ASSUME ChargesAreLegal PROVE Pay!Spec => []BooksInv
<1>1. Pay!Init => BooksInv
  BY InitBooks
<1> QED
  BY <1>1, BooksStep, PTL DEF Pay!Spec

LEMMA KeysAreKeys == ASSUME BooksInv, NEW r \in Charges PROVE KeyOf[r] \in Keys
BY DEF BooksInv, ChargesAreLegal, Pay!RequestAssumption

LEMMA BooksInvImpliesBooksAgree == BooksInv => Pay!BooksAgree
<1> SUFFICES ASSUME BooksInv
             PROVE  Pay!BooksAgree
  OBVIOUS
<1>1. Pay!TakenLeavesRow
  BY DEF BooksInv, ChargeProgress, OneRowPerKey, Pay!TakenLeavesRow, Pay!TypeOK
<1>2. Pay!OneOutcomePerKey
  <2> SUFFICES ASSUME NEW q \in Charges, NEW r \in Charges,
                      KeyOf[q] = KeyOf[r],
                      answer[q].payment \in {"captured", "refunded"},
                      answer[r].payment = "failed"
               PROVE  FALSE
    BY DEF Pay!OneOutcomePerKey
  <2>1. PICK s \in Charges : /\ KeyOf[s] = KeyOf[q]
                             /\ payment[s] \in {"captured", "refunded"}
    BY DEF BooksInv, AnswersHaveRows
  <2>2. PICK t \in Charges : KeyOf[t] = KeyOf[r] /\ payment[t] = "failed"
    BY DEF BooksInv, AnswersHaveRows
  <2> QED
    BY <2>1, <2>2 DEF BooksInv, OneRowPerKey, Pay!None
<1> QED
  BY <1>1, <1>2 DEF BooksInv, Pay!BooksAgree

\* The payments table, the provider's books and what the clients were told
\* agree, whichever requests race, retry and crash: no money is taken twice
\* under a key or without a row, no order goes on waiting for a payment that it
\* has, whatever an administrator, the saga or a carrier writes to it, and no
\* client hears of a key that it was captured when another hears that it was
\* declined.
THEOREM BooksAgreed ==
    ASSUME ChargesAreLegal
    PROVE  Pay!Spec => []Pay!BooksAgree
BY BooksAreInvariant, BooksInvImpliesBooksAgree, PTL

-----------------------------------------------------------------------------
(* Money is taken from the owner of the order, in the amount it costs.      *)

\* The check of owner and amount comes before the row.
OrderedRows ==
    \A r \in Charges :
        pc[r] = "insert" \/ payment[r] # Pay!None =>
            /\ UserOf[r] = OwnerOf[OrderOf[r]]
            /\ AmountOf[r] = TotalOf[OrderOf[r]]

LEMMA OrderedRowsStep ==
    ASSUME BooksInv, OrderedRows, [Pay!Next]_(Pay!vars)
    PROVE  OrderedRows'
<1> USE DEF BooksInv
<1>1. ASSUME NEW r \in Charges,
             Pay!Arrive(r) \/ Pay!Lookup(r) \/ Pay!ChargeCrash(r)
      PROVE  OrderedRows'
  BY <1>1
  DEF Pay!Arrive, Pay!Lookup, Pay!ChargeCrash, Pay!Goto, Pay!Reply,
      OrderedRows, Pay!TypeOK, Pay!tables
<1>2. ASSUME NEW r \in Charges, Pay!Check(r)
      PROVE  OrderedRows'
  BY <1>2
  DEF Pay!Check, Pay!Chargeable, Pay!Goto, Pay!Reply, OrderedRows, Pay!TypeOK,
      Pay!tables
<1>3. ASSUME NEW r \in Charges, Pay!Insert(r)
      PROVE  OrderedRows'
  BY <1>3 DEF Pay!Insert, Pay!Goto, Pay!Reply, OrderedRows, Pay!TypeOK
<1>4. ASSUME NEW r \in Charges, Pay!Authorize(r)
      PROVE  OrderedRows'
  BY <1>4 DEF Pay!Authorize, Pay!Goto, OrderedRows, Pay!TypeOK, Pay!tables
<1>5. ASSUME NEW r \in Charges, Pay!Settle(r)
      PROVE  OrderedRows'
  <2>1. pc' = [pc EXCEPT ![r] = "answered"]
    BY <1>5 DEF Pay!Settle, Pay!Reply
  <2> QED
    BY <1>5, <2>1, SettleEffect
    DEF OrderedRows, Pay!TypeOK, Pay!tables, Pay!None
<1>6. ASSUME NEW f \in Refunds, Pay!Refund(f) \/ Pay!RefundCrash(f)
      PROVE  OrderedRows'
  BY <1>6, RefundEffect DEF OrderedRows, Pay!None
<1>7. ASSUME NEW o \in Orders, Pay!OtherService(o)
      PROVE  OrderedRows'
  BY <1>7 DEF Pay!OtherService, OrderedRows, Pay!chargeVars
<1>8. CASE UNCHANGED Pay!vars
  BY <1>8 DEF Pay!vars, Pay!chargeVars, Pay!tables, OrderedRows
<1> QED
  BY <1>1, <1>2, <1>3, <1>4, <1>5, <1>6, <1>7, <1>8 DEF Pay!Next, Pay!Charge

\* A charge that is taken is the owner's, and for the total of the order,
\* although the order is read before the row is inserted and not locked.
THEOREM ChargingAsOrdered ==
    ASSUME ChargesAreLegal
    PROVE  Pay!Spec => []Pay!ChargedAsOrdered
<1>1. Pay!Init => OrderedRows
  BY DEF Pay!Init, OrderedRows
<1>2. BooksInv /\ OrderedRows /\ [Pay!Next]_(Pay!vars) => OrderedRows'
  BY OrderedRowsStep
<1>3. BooksInv /\ OrderedRows => Pay!ChargedAsOrdered
  BY DEF BooksInv, Pay!TypeOK, ChargeProgress, OrderedRows,
         Pay!ChargedAsOrdered
<1> QED
  BY <1>1, <1>2, <1>3, BooksAreInvariant, PTL DEF Pay!Spec

-----------------------------------------------------------------------------
(* The money of a payment goes back once, unless a refund of it has failed. *)

FailedRefund(r) == \E f \in Refunds : target[f] = r /\ refund[f] = "failed"

\* A row is held by the refund that works on it; and its money went back if
\* that refund has called the provider, or another one has ended, unless one
\* has failed, which stays so.
RefundAccount ==
    \A r \in Charges :
        /\ holder[r] # Pay!None =>
               /\ refund[holder[r]] \in {"calling", "commit"}
               /\ target[holder[r]] = r
        /\ \/ FailedRefund(r)
           \/ returned[r] =
                  IF \/ payment[r] = "refunded"
                     \/ holder[r] # Pay!None /\ refund[holder[r]] = "commit"
                  THEN 1 ELSE 0

\* A refund that has begun to work on a row works on it to its end.
LEMMA FailedRefundsStay ==
    ASSUME BooksInv, NEW f \in Refunds, Pay!Refund(f) \/ Pay!RefundCrash(f),
           NEW r \in Charges, FailedRefund(r)
    PROVE  FailedRefund(r)'
<1>1. PICK g \in Refunds : target[g] = r /\ refund[g] = "failed"
  BY DEF FailedRefund
<1>2. refund[f] # "failed"
  BY DEF Pay!Refund, Pay!RefundBegin, Pay!ProviderRefund, Pay!RefundCommit,
         Pay!MayCommit, Pay!RefundCrash
<1>3. target'[g] = target[g] /\ refund'[g] = refund[g]
  <2>1. g # f
    BY <1>1, <1>2
  <2>2. CASE Pay!RefundBegin(f)
    BY <2>1, <2>2 DEF Pay!RefundBegin, Pay!LockRow, BooksInv, Pay!TypeOK
  <2>3. CASE Pay!ProviderRefund(f)
    BY <2>1, <2>3 DEF Pay!ProviderRefund, BooksInv, Pay!TypeOK
  <2>4. CASE Pay!RefundCommit(f) \/ Pay!RefundCrash(f)
    BY <2>1, <2>4
    DEF Pay!RefundCommit, Pay!RefundCrash, Pay!Release, BooksInv, Pay!TypeOK
  <2> QED
    BY <2>2, <2>3, <2>4 DEF Pay!Refund
<1> QED
  BY <1>1, <1>3 DEF FailedRefund

LEMMA RefundAccountStep ==
    ASSUME BooksInv, RefundAccount, [Pay!Next]_(Pay!vars)
    PROVE  RefundAccount'
<1> USE DEF BooksInv
<1>1. ASSUME NEW r \in Charges, Pay!Charge(r) \/ Pay!ChargeCrash(r)
      PROVE  RefundAccount'
  <2>1. /\ UNCHANGED <<returned, refund, target, holder>>
        /\ \A q \in Charges : payment'[q] = "refunded" <=>
          payment[q] = "refunded"
    <3>1. CASE \/ Pay!Arrive(r) \/ Pay!Lookup(r)
               \/ Pay!Check(r) \/ Pay!ChargeCrash(r)
      BY <3>1, ReadEffect DEF Pay!tables, Pay!provider, Pay!refundVars
    <3>2. CASE Pay!Insert(r)
      BY <3>2
      DEF Pay!Insert, ChargeProgress, Pay!TypeOK, Pay!None, Pay!provider,
          Pay!refundVars
    <3>3. CASE Pay!Authorize(r)
      BY <3>3 DEF Pay!Authorize, Pay!tables, Pay!refundVars
    <3>4. CASE Pay!Settle(r)
      BY <3>4, SettleEffect DEF Pay!TypeOK, Pay!tables
    <3> QED
      BY <1>1, <3>1, <3>2, <3>3, <3>4 DEF Pay!Charge
  <2> QED
    BY <2>1 DEF RefundAccount, FailedRefund
<1>2. ASSUME NEW f \in Refunds, Pay!RefundBegin(f)
      PROVE  RefundAccount'
  <2>1. UNCHANGED <<payment, returned>> /\ refund[f] = "idle"
    BY <1>2 DEF Pay!RefundBegin, Pay!tables, Pay!provider
  <2>2. \A r \in Charges : holder[r] # f
    BY <2>1, NoneIsNoCharge DEF RefundAccount
  <2>0. \A r \in Charges : FailedRefund(r) => FailedRefund(r)'
    BY <1>2, FailedRefundsStay DEF Pay!Refund
  <2>3. CASE /\ refund' = [refund EXCEPT ![f] = "ended"]
             /\ UNCHANGED <<target, holder>>
    <3>1. \A r \in Charges :
              holder[r] # Pay!None => refund'[holder[r]] = refund[holder[r]]
      BY <2>2, <2>3 DEF Pay!TypeOK
    <3> QED
      BY <2>0, <2>1, <2>3, <3>1 DEF RefundAccount
  <2>4. ASSUME NEW r \in Charges, Pay!LockRow(f, r), Pay!RowIsFree(r),
               Pay!Refundable(r)
        PROVE  RefundAccount'
    <3>1. /\ holder'[r] = f /\ refund'[f] = "calling" /\ target'[f] = r
          /\ \A q \in Charges : q # r => holder'[q] = holder[q]
          /\ \A g \in Refunds : g # f => /\ refund'[g] = refund[g]
                                         /\ target'[g] = target[g]
      BY <2>4 DEF Pay!LockRow, Pay!TypeOK
    <3>2. FailedRefund(r) \/ returned[r] = 0
      BY <2>4 DEF RefundAccount, Pay!RowIsFree, Pay!Refundable
    <3>3. \A q \in Charges : holder[q] # Pay!None => holder[q] \in Refunds
      BY DEF Pay!TypeOK
    <3> QED
      BY <2>0, <2>1, <2>2, <2>4, <3>1, <3>2, <3>3
      DEF RefundAccount, Pay!Refundable
  <2> QED
    BY <1>2, <2>3, <2>4 DEF Pay!RefundBegin
<1>3. ASSUME NEW f \in Refunds, Pay!ProviderRefund(f)
      PROVE  RefundAccount'
  <2>1. /\ UNCHANGED <<payment, target, holder>>
        /\ refund[f] = "calling" /\ refund'[f] = "commit"
        /\ \A g \in Refunds : g # f => refund'[g] = refund[g]
        /\ target[f] \in Charges /\ holder[target[f]] = f
        /\ payment[target[f]] = "captured"
    BY <1>3 DEF Pay!ProviderRefund, RefundProgress, Pay!TypeOK, Pay!tables
  <2>2. /\ \A q \in Charges : q # target[f] => returned'[q] = returned[q]
        /\ returned'[target[f]] = returned[target[f]] + 1
    BY <1>3, <2>1 DEF Pay!ProviderRefund, Pay!TypeOK
  <2>3. /\ f # Pay!None
        /\ \A q \in Charges : q # target[f] => holder[q] # f
        /\ \A q \in Charges : holder[q] # Pay!None => holder[q] \in Refunds
    BY NoneIsNoCharge DEF RefundAccount, Pay!TypeOK
  <2>4. FailedRefund(target[f]) \/ returned'[target[f]] = 1
    BY <2>1, <2>2 DEF RefundAccount
  <2>5. \A q \in Charges : FailedRefund(q) => FailedRefund(q)'
    BY <1>3, FailedRefundsStay DEF Pay!Refund
  <2> QED
    BY <2>1, <2>2, <2>3, <2>4, <2>5 DEF RefundAccount
<1>4. ASSUME NEW f \in Refunds, Pay!RefundCommit(f) \/ Pay!RefundCrash(f)
      PROVE  RefundAccount'
  <2>1. /\ UNCHANGED <<target, returned>>
        /\ refund[f] \in {"calling", "commit"}
        /\ refund'[f] \in {"ended", "failed"}
        /\ \A g \in Refunds : g # f => refund'[g] = refund[g]
        /\ target[f] \in Charges /\ holder[target[f]] = f
        /\ holder'[target[f]] = Pay!None
        /\ \A q \in Charges : q # target[f] => holder'[q] = holder[q]
    BY <1>4
    DEF Pay!RefundCommit, Pay!RefundCrash, Pay!MayCommit, Pay!Release,
        RefundProgress, Pay!TypeOK, Pay!provider
  <2>2. /\ f # Pay!None
        /\ \A q \in Charges : q # target[f] => holder[q] # f
        /\ \A q \in Charges : holder[q] # Pay!None => holder[q] \in Refunds
    BY NoneIsNoCharge DEF RefundAccount, Pay!TypeOK
  <2>3. \A q \in Charges : q # target[f] => payment'[q] = payment[q]
    BY <1>4
    DEF Pay!RefundCommit, Pay!RefundCrash, Pay!WriteRefund, Pay!tables,
        Pay!TypeOK
  <2>4. \A q \in Charges : FailedRefund(q) => FailedRefund(q)'
    BY <1>4, FailedRefundsStay DEF Pay!Refund
  <2>5. CASE refund'[f] = "failed"
    <3>1. FailedRefund(target[f])'
      BY <2>1, <2>5 DEF FailedRefund
    <3> QED
      BY <2>1, <2>2, <2>3, <2>4, <3>1 DEF RefundAccount
  <2>6. CASE refund'[f] = "ended"
    <3>1. refund[f] = "commit" /\ payment'[target[f]] = "refunded"
      BY <1>4, <2>1, <2>6
      DEF Pay!RefundCommit, Pay!RefundCrash, Pay!MayCommit, Pay!Release,
          Pay!WriteRefund, Pay!TypeOK
    <3> QED
      BY <2>1, <2>2, <2>3, <2>4, <3>1 DEF RefundAccount
  <2> QED
    BY <2>1, <2>5, <2>6
<1>5. ASSUME NEW o \in Orders, Pay!OtherService(o)
      PROVE  RefundAccount'
  BY <1>5
  DEF Pay!OtherService, RefundAccount, FailedRefund, Pay!provider,
      Pay!refundVars
<1>6. CASE UNCHANGED Pay!vars
  BY <1>6
  DEF Pay!vars, Pay!tables, Pay!provider, Pay!refundVars, RefundAccount,
      FailedRefund
<1> QED
  BY <1>1, <1>2, <1>3, <1>4, <1>5, <1>6 DEF Pay!Next, Pay!Refund

\* However many administrators refund a payment at once, the provider is asked
\* to give its money back once, unless the transaction of one that had asked
\* has failed: its process died, or the database did not commit.
THEOREM RefundingOnce ==
    ASSUME ChargesAreLegal
    PROVE  Pay!Spec => []Pay!RefundedOnce
<1>1. Pay!Init => RefundAccount
  <2> SUFFICES ASSUME Pay!Init, NEW r \in Charges
               PROVE  /\ holder[r] = Pay!None /\ payment[r] # "refunded"
                      /\ returned[r] = 0
    BY DEF RefundAccount
  <2> QED
    BY DEF Pay!Init, Pay!None
<1>2. BooksInv /\ RefundAccount /\ [Pay!Next]_(Pay!vars) => RefundAccount'
  BY RefundAccountStep
<1>3. RefundAccount => Pay!RefundedOnce
  <2> SUFFICES ASSUME RefundAccount, NEW r \in Charges, returned[r] > 1
               PROVE  FailedRefund(r)
    BY DEF Pay!RefundedOnce, FailedRefund
  <2>1. returned[r] > 1 => returned[r] # 0 /\ returned[r] # 1
    OBVIOUS
  <2> QED
    BY <2>1 DEF RefundAccount
<1> QED
  BY <1>1, <1>2, <1>3, BooksAreInvariant, PTL DEF Pay!Spec

-----------------------------------------------------------------------------
(* Payment implements KeyedCharge.                                          *)

\* What the mapping shows of a row.
RowsShow ==
    /\ \A k \in Keys :
           Pay!Rows(k) = {} =>
             Pay!MadeBy[k] = Pay!None /\ Pay!OutcomeOfKey[k] = Pay!None
    /\ \A q \in Charges :
           payment[q] # Pay!None =>
               /\ Pay!MadeBy[KeyOf[q]] = q
               /\ Pay!OutcomeOfKey[KeyOf[q]] = payment[q]

\* The row of a key is the only one, so that CHOOSE finds it.
LEMMA RowOfKey == BooksInv => RowsShow
<1> SUFFICES ASSUME BooksInv
             PROVE  RowsShow
  OBVIOUS
<1>1. ASSUME NEW k \in Keys, Pay!Rows(k) = {}
      PROVE  Pay!MadeBy[k] = Pay!None /\ Pay!OutcomeOfKey[k] = Pay!None
  BY <1>1 DEF Pay!MadeBy, Pay!OutcomeOfKey
<1>2. ASSUME NEW q \in Charges, payment[q] # Pay!None
      PROVE  /\ Pay!MadeBy[KeyOf[q]] = q
             /\ Pay!OutcomeOfKey[KeyOf[q]] = payment[q]
  <2>1. KeyOf[q] \in Keys
    BY KeysAreKeys
  <2>2. Pay!Rows(KeyOf[q]) = {q}
    BY <1>2 DEF Pay!Rows, BooksInv, OneRowPerKey
  <2>3. (CHOOSE r \in Pay!Rows(KeyOf[q]) : TRUE) = q
    BY <2>2
  <2>4. Pay!MadeBy[KeyOf[q]] = q
    BY <2>1, <2>2, <2>3 DEF Pay!MadeBy
  <2> QED
    BY <2>1, <2>4, NoneIsNoCharge DEF BooksInv, Pay!OutcomeOfKey
<1> QED
  BY <1>1, <1>2 DEF RowsShow

LEMMA RowOfKeyAfter == BooksInv' => RowsShow'
BY RowOfKey, PTL

\* A key is without a row, or has the row of one charge.
LEMMA KeyCases ==
    ASSUME NEW k \in Keys
    PROVE  \/ Pay!Rows(k) = {}
           \/ \E q \in Charges : KeyOf[q] = k /\ payment[q] # Pay!None
BY DEF Pay!Rows

\* When one row changes, one key changes.
LEMMA OneKeyChanges ==
    ASSUME BooksInv, BooksInv', NEW r \in Charges, NEW o \in Pay!Outcomes,
           payment' = [payment EXCEPT ![r] = o]
    PROVE  /\ Pay!MadeBy' = [Pay!MadeBy EXCEPT ![KeyOf[r]] = r]
           /\ Pay!MadeBy[KeyOf[r]] = r => Pay!MadeBy' = Pay!MadeBy
           /\ Pay!OutcomeOfKey' = [Pay!OutcomeOfKey EXCEPT ![KeyOf[r]] = o]
<1>1. o # Pay!None
  BY DEF Pay!Outcomes, Pay!None
<1>2. /\ payment'[r] = o /\ payment'[r] # Pay!None
      /\ \A q \in Charges : q # r => payment'[q] = payment[q]
  BY <1>1 DEF BooksInv, Pay!TypeOK
<1>3. Pay!MadeBy'[KeyOf[r]] = r /\ Pay!OutcomeOfKey'[KeyOf[r]] = o
  BY <1>2, RowOfKeyAfter DEF RowsShow
<1>4. ASSUME NEW k \in Keys, k # KeyOf[r]
      PROVE  /\ Pay!MadeBy'[k] = Pay!MadeBy[k]
             /\ Pay!OutcomeOfKey'[k] = Pay!OutcomeOfKey[k]
  <2>1. CASE Pay!Rows(k) = {}
    <3>1. Pay!Rows(k)' = {}
      BY <1>2, <1>4, <2>1 DEF Pay!Rows
    <3> QED
      BY <2>1, <3>1, RowOfKey, RowOfKeyAfter DEF RowsShow
  <2>2. ASSUME NEW q \in Charges, KeyOf[q] = k, payment[q] # Pay!None
        PROVE  /\ Pay!MadeBy'[k] = Pay!MadeBy[k]
               /\ Pay!OutcomeOfKey'[k] = Pay!OutcomeOfKey[k]
    <3>1. payment'[q] = payment[q]
      BY <1>2, <1>4, <2>2
    <3> QED
      BY <2>2, <3>1, RowOfKey, RowOfKeyAfter DEF RowsShow
  <2> QED
    BY <2>1, <2>2, KeyCases
<1>5. /\ Pay!MadeBy = [k \in Keys |-> Pay!MadeBy[k]]
      /\ Pay!MadeBy' = [k \in Keys |-> Pay!MadeBy'[k]]
      /\ Pay!OutcomeOfKey = [k \in Keys |-> Pay!OutcomeOfKey[k]]
      /\ Pay!OutcomeOfKey' = [k \in Keys |-> Pay!OutcomeOfKey'[k]]
  BY DEF Pay!MadeBy, Pay!OutcomeOfKey
<1> QED
  BY <1>3, <1>4, <1>5

LEMMA InitKeyedCharge == Pay!Init => Pay!KeyedCharge!Init
<1> SUFFICES ASSUME Pay!Init
             PROVE  Pay!KeyedCharge!Init
  OBVIOUS
<1>1. \A k : Pay!Rows(k) = {}
  BY DEF Pay!Init, Pay!Rows
<1>2. Pay!MadeBy = [k \in Keys |-> "none"]
  BY <1>1 DEF Pay!MadeBy, Pay!None
<1>3. Pay!OutcomeOfKey = [k \in Keys |-> "none"]
  BY <1>2 DEF Pay!OutcomeOfKey, Pay!None
<1> QED
  BY <1>2, <1>3 DEF Pay!KeyedCharge!Init

LEMMA SameRowsStutter ==
    ASSUME payment' = payment
    PROVE  UNCHANGED Pay!KeyedCharge!vars
BY DEF Pay!KeyedCharge!vars, Pay!MadeBy, Pay!OutcomeOfKey, Pay!Rows

LEMMA KeyedChargeStep ==
    ASSUME BooksInv, BooksInv', [Pay!Next]_(Pay!vars)
    PROVE  [Pay!KeyedCharge!Next]_(Pay!KeyedCharge!vars)
<1>1. ASSUME NEW r \in Charges,
             \/ Pay!Arrive(r) \/ Pay!Lookup(r)
             \/ Pay!Check(r) \/ Pay!Authorize(r) \/ Pay!ChargeCrash(r)
      PROVE  payment' = payment
  BY <1>1, ReadEffect DEF Pay!Authorize, Pay!tables, BooksInv
<1>2. ASSUME NEW r \in Charges, Pay!Insert(r)
      PROVE  [Pay!KeyedCharge!Next]_(Pay!KeyedCharge!vars)
  <2>1. CASE payment' = payment
    BY <2>1, SameRowsStutter
  <2>2. CASE /\ Pay!Rows(KeyOf[r]) = {}
             /\ payment' = [payment EXCEPT ![r] = "pending"]
    <3>1. KeyOf[r] \in Keys /\ Pay!OutcomeOfKey[KeyOf[r]] = "none"
      BY <2>2, RowOfKey, KeysAreKeys DEF RowsShow, Pay!None
    <3>2. Pay!KeyedCharge!Attempt(KeyOf[r], r)
      BY <2>2, <3>1, OneKeyChanges DEF Pay!Outcomes, Pay!KeyedCharge!Attempt
    <3> QED
      BY <3>1, <3>2 DEF Pay!KeyedCharge!Next
  <2> QED
    BY <1>2, <2>1, <2>2 DEF Pay!Insert, Pay!RowAllowed
<1>3. ASSUME NEW r \in Charges, Pay!Settle(r)
      PROVE  [Pay!KeyedCharge!Next]_(Pay!KeyedCharge!vars)
  <2>1. CASE UNCHANGED Pay!tables
    BY <2>1, SameRowsStutter DEF Pay!tables
  <2>2. CASE payment' = [payment EXCEPT ![r] = Pay!OutcomeOf(r)]
    <3>1. KeyOf[r] \in Keys /\ Pay!OutcomeOfKey[KeyOf[r]] = "pending"
      BY <1>3, SettleEffect, RowOfKey, KeysAreKeys DEF RowsShow, Pay!None
    <3>2. Pay!MadeBy[KeyOf[r]] = r
      BY <1>3, SettleEffect, RowOfKey DEF RowsShow, Pay!None
    <3>3. Pay!KeyedCharge!Decide(KeyOf[r])
      BY <1>3, <2>2, <3>1, <3>2, SettleEffect, OneKeyChanges
      DEF Pay!Outcomes, Pay!KeyedCharge!Decide
    <3> QED
      BY <3>1, <3>3 DEF Pay!KeyedCharge!Next
  <2> QED
    BY <1>3, <2>1, <2>2, SettleEffect
<1>4. ASSUME NEW f \in Refunds,
             Pay!RefundBegin(f) \/ Pay!ProviderRefund(f) \/ Pay!RefundCrash(f)
      PROVE  payment' = payment
  BY <1>4 DEF Pay!RefundBegin, Pay!ProviderRefund, Pay!RefundCrash, Pay!tables
<1>5. ASSUME NEW f \in Refunds, Pay!RefundCommit(f), Pay!WriteRefund(f)
      PROVE  [Pay!KeyedCharge!Next]_(Pay!KeyedCharge!vars)
  <2> DEFINE r == target[f]
  <2>1. /\ r \in Charges /\ payment[r] = "captured"
        /\ payment' = [payment EXCEPT ![r] = "refunded"]
    BY <1>5
    DEF Pay!RefundCommit, Pay!MayCommit, Pay!WriteRefund, BooksInv,
        RefundProgress
  <2>2. /\ KeyOf[r] \in Keys /\ Pay!OutcomeOfKey[KeyOf[r]] = "captured"
        /\ Pay!MadeBy[KeyOf[r]] = r
    BY <2>1, RowOfKey, KeysAreKeys DEF RowsShow, Pay!None
  <2>3. Pay!KeyedCharge!Return(KeyOf[r])
    BY <2>1, <2>2, OneKeyChanges DEF Pay!Outcomes, Pay!KeyedCharge!Return
  <2> QED
    BY <2>2, <2>3 DEF Pay!KeyedCharge!Next
<1>8. ASSUME NEW f \in Refunds, Pay!RefundCommit(f), ~Pay!WriteRefund(f)
      PROVE  payment' = payment
  BY <1>8 DEF Pay!RefundCommit, Pay!tables
<1>6. ASSUME NEW o \in Orders, Pay!OtherService(o)
      PROVE  payment' = payment
  BY <1>6 DEF Pay!OtherService
<1>7. CASE UNCHANGED Pay!vars
  BY <1>7, SameRowsStutter DEF Pay!vars, Pay!tables
<1> QED
  BY <1>1, <1>2, <1>3, <1>4, <1>5, <1>6, <1>7, <1>8, SameRowsStutter
  DEF Pay!Next, Pay!Charge, Pay!Refund

\* The payment service implements a machine that has one payment for a key and
\* decides it once: whatever races, crashes and is refunded meanwhile, each
\* step creates, decides or refunds the payment of one key, or shows nothing.
THEOREM ChargingImplementsKeyedCharge ==
    ASSUME ChargesAreLegal
    PROVE  Pay!Spec => Pay!ImplementsKeyedCharge
<1>1. BooksInv /\ BooksInv' /\ [Pay!Next]_(Pay!vars)
          => [Pay!KeyedCharge!Next]_(Pay!KeyedCharge!vars)
  BY KeyedChargeStep
<1> QED
  BY <1>1, InitKeyedCharge, BooksAreInvariant, PTL
  DEF Pay!Spec, Pay!ImplementsKeyedCharge, Pay!KeyedCharge!Spec

-----------------------------------------------------------------------------
(* The index of the search (SearchIndex) *)

Entries == [product : Indexed, operation : {"upsert", "delete"},
            processed : BOOLEAN, attempts : Nat]
Drains == [at : {"idle", "selected", "loaded", "sent"}, rows : SUBSET Nat,
           doc : Index!Documents, failed : SUBSET Indexed]
Builds == [at : {"down", "resolved", "read", "write", "written", "swapped",
                 "up"},
           live : {"old", "new"}, todo : SUBSET Indexed,
           page : SUBSET Indexed, doc : Index!Documents]

CopiesHeld ==
    /\ version \in Index!Documents
    /\ queue \in Seq(Entries)
    /\ indices \subseteq {"old", "new"}
    /\ docs \in [{"old", "new"} -> Index!Documents]
    /\ alias \in {"old", "new"}
    /\ drain \in [Replicas -> Drains]
    /\ build \in [Index!Builders -> Builds]
    /\ faults \in 0 .. MaxFaults
    /\ \A r \in Replicas : drain[r].rows \subseteq DOMAIN queue

Kept(p) == version[p] = 1

\* What nobody has changed is not in the outbox, and was read as it is.
KeptAsWas ==
    \A p \in Indexed : Kept(p) =>
        /\ \A i \in DOMAIN queue : queue[i].product # p
        /\ \A b \in Index!Builders :
               build[b].at = "write" => build[b].doc[p] = 1

Building == {"read", "write", "written"}

\* One replica at most fills the index that the alias is not on yet.
OneBuilder ==
    /\ alias \in indices
    /\ \A r \in Replicas :
           /\ build[r].at \in Building =>
                  alias = "old" /\ "new" \in indices
           /\ build[r].at \in Building \cup {"resolved", "swapped"} =>
                  build[r].live = "old"
           /\ build[r].at = "swapped" => alias = "new"
    /\ \A r, s \in Replicas :
           build[r].at \in Building /\ build[s].at \in Building => r = s

\* and has written what it has passed.
CopiesFilled ==
    /\ \A p \in Indexed : Kept(p) => docs[alias][p] = 1
    /\ \A r \in Replicas, p \in Indexed :
           build[r].at \in Building /\ Kept(p) =>
               \/ build[r].at # "written" /\ p \in build[r].todo
               \/ build[r].at = "write" /\ p \in build[r].page
               \/ docs["new"][p] = 1

ServesInv == CopiesHeld /\ KeptAsWas /\ OneBuilder /\ CopiesFilled

-----------------------------------------------------------------------------
\* What is nowhere: no document, no rows, nothing built.
LEMMA EmptyDocument ==
    ASSUME Index!IndexAssumption
    PROVE  /\ Index!Empty \in Index!Documents
           /\ \A l \in {"down", "up", "read", "resolved"} :
                  Index!Rest(l) \in Builds
           /\ Index!NoDrain \in Drains
           /\ Index!Versions \subseteq Nat
           /\ {0, 1} \subseteq Index!Versions
<1>1. Index!Versions \subseteq Nat /\ {0, 1} \subseteq Index!Versions
  BY DEF Index!IndexAssumption, Index!Versions, Index!NoDoc
<1>2. Index!Empty \in Index!Documents
  BY <1>1 DEF Index!Empty, Index!Documents, Index!NoDoc
<1> QED
  BY <1>1, <1>2 DEF Index!Rest, Builds, Index!NoDrain, Drains

\* At first the index that is live is a copy of the catalogue.
LEMMA HeldInit ==
    ASSUME Index!IndexAssumption, Index!Init
    PROVE  CopiesHeld
<1>1. version \in Index!Documents
  BY EmptyDocument DEF Index!Init, Index!Documents, Index!NoDoc
<1>2. docs \in [{"old", "new"} -> Index!Documents]
  BY <1>1, EmptyDocument DEF Index!Init
<1>3. drain \in [Replicas -> Drains] /\ build \in [Index!Builders -> Builds]
  BY EmptyDocument DEF Index!Init
<1>4. queue = <<>> /\ faults = 0 /\ \A r \in Replicas : drain[r].rows = {}
  BY DEF Index!Init, Index!NoDrain
<1> QED
  BY <1>1, <1>2, <1>3, <1>4 DEF Index!Init, CopiesHeld, Index!IndexAssumption

\* A row appended is the last.
LEMMA Enqueued ==
    ASSUME CopiesHeld, NEW p \in Indexed, NEW o \in {"upsert", "delete"},
           Index!Enqueue(p, o)
    PROVE  /\ queue' \in Seq(Entries)
           /\ DOMAIN queue' = DOMAIN queue \cup {Len(queue) + 1}
           /\ Len(queue) + 1 \notin DOMAIN queue
           /\ \A i \in DOMAIN queue : queue'[i] = queue[i]
           /\ queue'[Len(queue) + 1].product = p
           /\ ~queue'[Len(queue) + 1].processed
           /\ queue'[Len(queue) + 1].attempts = 0
<1> DEFINE e == [product |-> p, operation |-> o, processed |-> FALSE,
                 attempts |-> 0]
<1>1. e \in Entries
  BY DEF Entries
<1>2. queue' = Append(queue, e) /\ queue \in Seq(Entries)
  BY DEF Index!Enqueue, CopiesHeld
<1>3. /\ queue' \in Seq(Entries)
      /\ Len(queue') = Len(queue) + 1
      /\ \A i \in 1 .. Len(queue) : queue'[i] = queue[i]
      /\ queue'[Len(queue) + 1] = e
  BY <1>1, <1>2, AppendProperties
<1>4. /\ Len(queue) \in Nat
      /\ DOMAIN queue = 1 .. Len(queue)
      /\ DOMAIN queue' = 1 .. Len(queue) + 1
  BY <1>2, <1>3, LenProperties
<1> QED
  BY <1>3, <1>4

\* A change gives its product another version, and the outbox a row.
LEMMA UpsertFacts ==
    ASSUME Index!IndexAssumption, CopiesHeld, NEW p \in Indexed,
           Index!Upsert(p) \/ Index!HardDelete(p)
    PROVE  /\ version' \in Index!Documents
           /\ version'[p] # 1
           /\ \A q \in Indexed \ {p} : version'[q] = version[q]
           /\ \E o \in {"upsert", "delete"} : Index!Enqueue(p, o)
           /\ UNCHANGED Index!elastic
<1>1. Len(queue) \in Nat
  BY DEF CopiesHeld
<1>2. PICK v \in Index!Versions : v # 1 /\ version' = [version EXCEPT ![p] = v]
  <2>1. CASE Index!Upsert(p)
    <3>1. /\ Len(queue) < MaxChanges
          /\ version' = [version EXCEPT ![p] = Len(queue) + 2]
      BY <2>1 DEF Index!Upsert
    <3>2. MaxChanges \in Nat
      BY DEF Index!IndexAssumption
    <3>3. Len(queue) + 2 \in Index!Versions /\ Len(queue) + 2 # 1
      BY <1>1, <3>1, <3>2 DEF Index!Versions, Index!NoDoc
    <3> QED
      BY <3>1, <3>3
  <2>2. CASE Index!HardDelete(p)
    <3>1. version' = [version EXCEPT ![p] = 0]
      BY <2>2 DEF Index!HardDelete, Index!NoDoc
    <3>2. 0 \in Index!Versions
      BY EmptyDocument
    <3> WITNESS 0 \in Index!Versions
    <3> QED
      BY <3>1
  <2> QED
    BY <2>1, <2>2
<1>3. version \in [Indexed -> Index!Versions]
  BY DEF CopiesHeld, Index!Documents
<1>4. \E o \in {"upsert", "delete"} : Index!Enqueue(p, o)
  BY DEF Index!Upsert, Index!HardDelete
<1>5. UNCHANGED Index!elastic
  BY DEF Index!Upsert, Index!HardDelete
<1> QED
  BY <1>2, <1>3, <1>4, <1>5 DEF Index!Documents

\* A batch is of rows that are pending.
LEMMA BatchPending ==
    /\ Index!Batch \subseteq DOMAIN queue
    /\ \A i \in Index!Batch : Index!Pending(i)
BY DEF Index!Batch, Index!Free

\* The two definitions of the cardinality are one.
LEMMA IndexCounts ==
    ASSUME NEW S
    PROVE  Index!Cardinality(S) = Cardinality(S)
BY DEF Cardinality, Index!Cardinality

\* What a bulk request leaves of the documents.
LEMMA BulkFacts ==
    ASSUME CopiesHeld, NEW r \in Replicas, Index!Bulk(r)
    PROVE  \E failed \in SUBSET Index!ProductsOf(drain[r].rows) :
               /\ failed \subseteq Indexed
               /\ drain[r].at = "loaded"
               /\ faults' = faults + Cardinality(failed)
               /\ faults' <= MaxFaults
               /\ docs' \in [{"old", "new"} -> Index!Documents]
               /\ \A n \in {"old", "new"} : n # alias => docs'[n] = docs[n]
               /\ \A p \in Indexed :
                      docs'[alias][p] =
                          IF p \in Index!ProductsOf(drain[r].rows) \ failed
                          THEN drain[r].doc[p] ELSE docs[alias][p]
               /\ drain' = [drain EXCEPT ![r] =
                      [drain[r] EXCEPT !.at = "sent", !.failed = failed]]
<1>1. PICK failed \in SUBSET Index!ProductsOf(drain[r].rows) :
          /\ faults + Cardinality(failed) <= MaxFaults
          /\ faults' = faults + Cardinality(failed)
          /\ docs' = [docs EXCEPT ![alias] = [p \in Indexed |->
                 IF Index!InBulk(r, p) /\ p \notin failed THEN drain[r].doc[p]
                                                          ELSE docs[alias][p]]]
          /\ drain' = [drain EXCEPT ![r].at = "sent", ![r].failed = failed]
  <2>1. \A S : Index!Cardinality(S) = Cardinality(S)
    BY IndexCounts
  <2> QED
    BY <2>1 DEF Index!Bulk
<1>2. /\ drain[r].rows \subseteq DOMAIN queue
      /\ queue \in Seq(Entries)
      /\ drain[r].doc \in Index!Documents
      /\ alias \in {"old", "new"}
      /\ docs \in [{"old", "new"} -> Index!Documents]
  BY DEF CopiesHeld, Drains
<1>3. Index!ProductsOf(drain[r].rows) \subseteq Indexed
  <2>1. \A i \in DOMAIN queue : queue[i] \in Entries
    BY <1>2
  <2>2. \A i \in DOMAIN queue : queue[i].product \in Indexed
    BY <2>1 DEF Entries
  <2> QED
    BY <1>2, <2>2 DEF Index!ProductsOf
<1> DEFINE d == [p \in Indexed |->
                    IF Index!InBulk(r, p) /\ p \notin failed
                    THEN drain[r].doc[p] ELSE docs[alias][p]]
<1>4. d \in Index!Documents
  BY <1>2 DEF Index!Documents
<1>5. /\ docs' \in [{"old", "new"} -> Index!Documents]
      /\ \A n \in {"old", "new"} : n # alias => docs'[n] = docs[n]
      /\ docs'[alias] = d
  BY <1>1, <1>2, <1>4
<1>6. \A p \in Indexed :
          docs'[alias][p] = IF p \in Index!ProductsOf(drain[r].rows) \ failed
                            THEN drain[r].doc[p] ELSE docs[alias][p]
  BY <1>5 DEF Index!InBulk
<1>7. drain[r].at = "loaded"
  BY DEF Index!Bulk
<1>8. drain' = [drain EXCEPT ![r] =
          [drain[r] EXCEPT !.at = "sent", !.failed = failed]]
  BY <1>1
<1> HIDE DEF d
<1> QED
  BY <1>1, <1>3, <1>5, <1>6, <1>7, <1>8

\* and what a written page does.
LEMMA PageFacts ==
    ASSUME CopiesHeld, NEW b \in Index!Builders, Index!WritePage(b)
    PROVE  /\ build[b].at = "write"
           /\ docs' \in [{"old", "new"} -> Index!Documents]
           /\ \A n \in {"old", "new"} :
                  n # Index!Target(b) => docs'[n] = docs[n]
           /\ \A p \in Indexed :
                  docs'[Index!Target(b)][p] =
                      IF p \in build[b].page /\ build[b].doc[p] # Index!NoDoc
                      THEN build[b].doc[p] ELSE docs[Index!Target(b)][p]
           /\ build' = [build EXCEPT ![b] = [build[b] EXCEPT
                  !.page = {}, !.doc = Index!Empty,
                  !.at = IF build[b].todo = {} THEN "written" ELSE "read"]]
<1> DEFINE d == [p \in Indexed |->
                    IF p \in build[b].page /\ build[b].doc[p] # Index!NoDoc
                    THEN build[b].doc[p] ELSE docs[Index!Target(b)][p]]
<1>1. /\ build[b].at = "write"
      /\ docs' = [docs EXCEPT ![Index!Target(b)] = d]
      /\ build' = [build EXCEPT ![b] = [build[b] EXCEPT
             !.page = {}, !.doc = Index!Empty,
             !.at = IF build[b].todo = {} THEN "written" ELSE "read"]]
  BY DEF Index!WritePage
<1>2. /\ build[b].doc \in Index!Documents
      /\ Index!Target(b) \in {"old", "new"}
      /\ docs \in [{"old", "new"} -> Index!Documents]
  BY DEF CopiesHeld, Builds, Index!Target
<1>3. d \in Index!Documents
  BY <1>2 DEF Index!Documents
<1>4. /\ docs' \in [{"old", "new"} -> Index!Documents]
      /\ \A n \in {"old", "new"} : n # Index!Target(b) => docs'[n] = docs[n]
      /\ docs'[Index!Target(b)] = d
  BY <1>1, <1>2, <1>3
<1> QED
  BY <1>1, <1>4

\* What a worker that has sent its batch writes to the outbox.
LEMMA MarkFacts ==
    ASSUME CopiesHeld, NEW r \in Replicas, Index!MarkProcessed(r)
    PROVE  /\ drain[r].at = "sent"
           /\ queue' \in Seq(Entries)
           /\ DOMAIN queue' = DOMAIN queue
           /\ \A i \in DOMAIN queue :
                  /\ queue'[i].product = queue[i].product
                  /\ IF i \in drain[r].rows
                     THEN IF queue[i].product \in drain[r].failed
                          THEN /\ queue'[i].processed = queue[i].processed
                               /\ queue'[i].attempts =
                                      queue[i].attempts + 1
                          ELSE /\ queue'[i].processed
                               /\ queue'[i].attempts = queue[i].attempts
                     ELSE queue'[i] = queue[i]
           /\ drain' = [drain EXCEPT ![r] = Index!NoDrain]
           /\ UNCHANGED <<version, indices, docs, alias, build, faults>>
<1> DEFINE e(i) == IF i \notin drain[r].rows THEN queue[i]
                   ELSE IF Index!Succeeded(r, i)
                        THEN [queue[i] EXCEPT !.processed = TRUE]
                   ELSE [queue[i] EXCEPT !.attempts = @ + 1]
<1>1. queue' = [i \in DOMAIN queue |-> e(i)]
  BY DEF Index!MarkProcessed
<1>2. queue \in Seq(Entries) /\ Len(queue) \in Nat
      /\ DOMAIN queue = 1 .. Len(queue)
  BY DEF CopiesHeld
<1>3. \A i \in DOMAIN queue : queue[i] \in Entries
  BY <1>2
<1>4. \A i \in DOMAIN queue : e(i) \in Entries
  <2> TAKE i \in DOMAIN queue
  <2>1. CASE i \notin drain[r].rows
    BY <1>3, <2>1
  <2>2. CASE i \in drain[r].rows /\ Index!Succeeded(r, i)
    <3>1. e(i) = [queue[i] EXCEPT !.processed = TRUE]
      BY <2>2
    <3> QED
      BY <1>3, <3>1 DEF Entries
  <2>3. CASE i \in drain[r].rows /\ ~Index!Succeeded(r, i)
    <3>1. e(i) = [queue[i] EXCEPT !.attempts = @ + 1]
      BY <2>3
    <3> QED
      BY <1>3, <3>1 DEF Entries
  <2> QED
    BY <2>1, <2>2, <2>3
<1>5. queue' \in [1 .. Len(queue) -> Entries]
  <2> HIDE DEF e
  <2> QED
    BY <1>1, <1>2, <1>4
<1>6. queue' \in Seq(Entries)
  BY <1>2, <1>5
<1>7. \A i \in DOMAIN queue : queue'[i] = e(i)
  BY <1>1
<1>8. \A i \in DOMAIN queue :
          /\ queue'[i].product = queue[i].product
          /\ IF i \in drain[r].rows
             THEN IF queue[i].product \in drain[r].failed
                  THEN /\ queue'[i].processed = queue[i].processed
                       /\ queue'[i].attempts = queue[i].attempts + 1
                  ELSE /\ queue'[i].processed
                       /\ queue'[i].attempts = queue[i].attempts
             ELSE queue'[i] = queue[i]
  BY <1>3, <1>7 DEF Entries, Index!Succeeded
<1> QED
  BY <1>1, <1>6, <1>8 DEF Index!MarkProcessed

-----------------------------------------------------------------------------
(* The steps, one by one, keep what each variable holds. *)

\* A worker that ends holds nothing.
LEMMA DrainEnds ==
    ASSUME Index!IndexAssumption, CopiesHeld, NEW r \in Replicas
    PROVE  LET d == [drain EXCEPT ![r] = Index!NoDrain]
           IN  /\ d \in [Replicas -> Drains]
               /\ \A s \in Replicas : d[s].rows \subseteq drain[s].rows
<1>1. Index!NoDrain \in Drains /\ Index!NoDrain.rows = {}
  BY EmptyDocument DEF Index!NoDrain
<1>2. drain \in [Replicas -> Drains]
  BY DEF CopiesHeld
<1> QED
  BY <1>1, <1>2

\* A change of the catalogue leaves the workers their rows.
LEMMA CatalogueHeld ==
    ASSUME Index!IndexAssumption, CopiesHeld, NEW p \in Indexed,
           Index!Upsert(p) \/ Index!HardDelete(p)
    PROVE  CopiesHeld'
<1>1. PICK o \in {"upsert", "delete"} : Index!Enqueue(p, o)
  BY UpsertFacts
<1>2. version' \in Index!Documents /\ UNCHANGED Index!elastic
  BY UpsertFacts
<1>3. queue' \in Seq(Entries) /\ DOMAIN queue \subseteq DOMAIN queue'
  BY <1>1, Enqueued
<1>4. UNCHANGED <<indices, docs, alias, drain, build, faults>>
  BY <1>2 DEF Index!elastic
<1>5. \A r \in Replicas : drain'[r].rows \subseteq DOMAIN queue'
  BY <1>3, <1>4 DEF CopiesHeld
<1> QED
  BY <1>2, <1>3, <1>4, <1>5 DEF CopiesHeld

\* A batch is of as many products as the outbox has rows, or fewer.
LEMMA BatchesAreFinite ==
    ASSUME CopiesHeld, NEW r \in Replicas
    PROVE  IsFiniteSet(Index!ProductsOf(drain[r].rows))
<1>1. Len(queue) \in Nat /\ DOMAIN queue = 1 .. Len(queue)
  BY DEF CopiesHeld
<1>2. drain[r].rows \subseteq DOMAIN queue
  BY DEF CopiesHeld
<1>3. IsFiniteSet(drain[r].rows)
  <2>1. IsFiniteSet(DOMAIN queue)
    BY <1>1, FS_Interval
  <2> QED
    BY <1>2, <2>1, FS_Subset
<1> DEFINE f == [i \in drain[r].rows |-> queue[i].product]
<1>4. f \in Surjection(drain[r].rows, Index!ProductsOf(drain[r].rows))
  BY DEF Surjection, Index!ProductsOf
<1> QED
  BY <1>3, <1>4, FS_Surjection

\* The steps of a worker.
LEMMA DrainHeld ==
    ASSUME Index!IndexAssumption, CopiesHeld, NEW r \in Replicas,
           Index!Drain(r)
    PROVE  CopiesHeld'
<1> USE DEF Index!catalogue
<1>1. drain \in [Replicas -> Drains] /\ queue \in Seq(Entries)
  BY DEF CopiesHeld
<1>2. \A s \in Replicas : drain[s].rows \subseteq DOMAIN queue
  BY DEF CopiesHeld
<1>3. CASE Index!SelectPending(r)
  <2>1. drain' = [drain EXCEPT ![r] =
            [drain[r] EXCEPT !.at = "selected", !.rows = Index!Batch]]
    BY <1>3 DEF Index!SelectPending
  <2>2. Index!Batch \in SUBSET Nat /\ Index!Batch \subseteq DOMAIN queue
    BY <1>1, BatchPending
  <2>3. [drain[r] EXCEPT !.at = "selected", !.rows = Index!Batch] \in Drains
    BY <1>1, <2>2 DEF Drains
  <2>4. drain' \in [Replicas -> Drains]
    BY <1>1, <2>1, <2>3
  <2>5. \A s \in Replicas : drain'[s].rows \subseteq DOMAIN queue
    <3> TAKE s \in Replicas
    <3>1. CASE s = r
      <4>1. drain'[r].rows = Index!Batch
        BY <1>1, <2>1 DEF Drains
      <4> QED
        BY <3>1, <4>1, <2>2
    <3>2. CASE s # r
      BY <1>1, <1>2, <2>1, <3>2
    <3> QED
      BY <3>1, <3>2
  <2> QED
    BY <1>3, <2>4, <2>5 DEF CopiesHeld, Index!SelectPending
<1>4. CASE Index!LoadDocuments(r)
  <2> DEFINE d == [p \in Indexed |->
                  IF p \in Index!ProductsOf(drain[r].rows)
                  THEN version[p] ELSE Index!NoDoc]
  <2>1. drain' = [drain EXCEPT ![r] =
            [drain[r] EXCEPT !.at = "loaded", !.doc = d]]
    BY <1>4 DEF Index!LoadDocuments
  <2>2. d \in Index!Documents
    <3>1. /\ version \in [Indexed -> Index!Versions]
          /\ Index!NoDoc \in Index!Versions
      BY EmptyDocument DEF CopiesHeld, Index!Documents, Index!NoDoc
    <3> QED
      BY <3>1 DEF Index!Documents
  <2> HIDE DEF d
  <2>3. [drain[r] EXCEPT !.at = "loaded", !.doc = d] \in Drains
    BY <1>1, <2>2 DEF Drains
  <2>4. drain' \in [Replicas -> Drains]
    BY <1>1, <2>1, <2>3
  <2>5. \A s \in Replicas : drain'[s].rows = drain[s].rows
    BY <1>1, <2>1 DEF Drains
  <2> QED
    BY <1>2, <1>4, <2>4, <2>5 DEF CopiesHeld, Index!LoadDocuments
<1>5. CASE Index!Bulk(r)
  <2>1. PICK failed \in SUBSET Index!ProductsOf(drain[r].rows) :
            /\ failed \subseteq Indexed
            /\ faults' = faults + Cardinality(failed)
            /\ faults' <= MaxFaults
            /\ docs' \in [{"old", "new"} -> Index!Documents]
            /\ drain' = [drain EXCEPT ![r] =
                   [drain[r] EXCEPT !.at = "sent", !.failed = failed]]
    BY <1>5, BulkFacts
  <2>2. faults' \in 0 .. MaxFaults
    <3>4. Cardinality(failed) \in Nat
      BY BatchesAreFinite, FS_Subset, FS_CardinalityType
    <3> QED
      BY <2>1, <3>4 DEF CopiesHeld, Index!IndexAssumption
  <2>3. [drain[r] EXCEPT !.at = "sent", !.failed = failed] \in Drains
    BY <1>1, <2>1 DEF Drains
  <2>4. drain' \in [Replicas -> Drains]
    BY <1>1, <2>1, <2>3
  <2>5. \A s \in Replicas : drain'[s].rows = drain[s].rows
    BY <1>1, <2>1 DEF Drains
  <2> QED
    BY <1>2, <1>5, <2>1, <2>2, <2>4, <2>5 DEF CopiesHeld, Index!Bulk
<1>6. CASE Index!MarkProcessed(r)
  <2>1. /\ queue' \in Seq(Entries)
        /\ DOMAIN queue' = DOMAIN queue
        /\ drain' = [drain EXCEPT ![r] = Index!NoDrain]
        /\ UNCHANGED <<version, indices, docs, alias, build, faults>>
    BY <1>6, MarkFacts
  <2>2. /\ drain' \in [Replicas -> Drains]
        /\ \A s \in Replicas : drain'[s].rows \subseteq drain[s].rows
    BY <2>1, DrainEnds
  <2>3. \A s \in Replicas : drain'[s].rows \subseteq DOMAIN queue'
    BY <1>2, <2>1, <2>2
  <2> QED
    BY <2>1, <2>2, <2>3 DEF CopiesHeld
<1> QED
  BY <1>3, <1>4, <1>5, <1>6 DEF Index!Drain

\* A worker that fails, and a process that dies.
LEMMA FaultHeld ==
    ASSUME Index!IndexAssumption, CopiesHeld, NEW r \in Replicas,
           Index!DrainFails(r) \/ Index!Crash(r)
    PROVE  CopiesHeld'
<1>1. /\ drain' = [drain EXCEPT ![r] = Index!NoDrain]
      /\ faults < MaxFaults /\ faults' = faults + 1
      /\ UNCHANGED <<version, queue, indices, docs, alias>>
  BY DEF Index!DrainFails, Index!Crash, Index!catalogue
<1>2. /\ drain' \in [Replicas -> Drains]
      /\ \A s \in Replicas : drain'[s].rows \subseteq drain[s].rows
  BY <1>1, DrainEnds
<1>3. build' \in [Index!Builders -> Builds]
  <2>1. build \in [Index!Builders -> Builds] /\ Index!Rest("down") \in Builds
    BY EmptyDocument DEF CopiesHeld
  <2>2. build' = build \/ build' = [build EXCEPT ![r] = Index!Rest("down")]
    BY DEF Index!DrainFails, Index!Crash
  <2> QED
    BY <2>1, <2>2
<1>4. faults' \in 0 .. MaxFaults
  BY <1>1 DEF CopiesHeld, Index!IndexAssumption
<1> QED
  BY <1>1, <1>2, <1>3, <1>4 DEF CopiesHeld

\* The entries of the builds that a step leaves are of their kind.
LEMMA BuildHeld ==
    ASSUME Index!IndexAssumption, CopiesHeld, NEW b \in Index!Builders,
           NEW w \in Builds, build' = [build EXCEPT ![b] = w]
    PROVE  build' \in [Index!Builders -> Builds]
BY DEF CopiesHeld

\* A rebuild has every product ahead of it.
LEMMA ScanFacts ==
    ASSUME Index!IndexAssumption, NEW on \in {"old", "new"}
    PROVE  [Index!Rest("read") EXCEPT !.live = on, !.todo = Indexed] \in Builds
BY EmptyDocument DEF Builds, Index!Rest

\* A deleted index is gone, the other is as it was.
LEMMA DeleteFacts ==
    ASSUME Index!IndexAssumption, CopiesHeld, NEW n \in {"old", "new"},
           Index!Delete(n)
    PROVE  /\ indices' \subseteq {"old", "new"}
           /\ docs' \in [{"old", "new"} -> Index!Documents]
           /\ \A m \in {"old", "new"} :
                  m # n => /\ docs'[m] = docs[m]
                           /\ (m \in indices' <=> m \in indices)
BY EmptyDocument DEF Index!Delete, CopiesHeld

\* The pages of a rebuild.
LEMMA ReindexHeld ==
    ASSUME Index!IndexAssumption, CopiesHeld, NEW b \in Index!Builders,
           Index!Reindex(b) \/ Index!BuildFails(b)
    PROVE  CopiesHeld'
<1> USE DEF Index!catalogue
<1>1. build[b] \in Builds /\ version \in Index!Documents
  BY DEF CopiesHeld
<1>2. CASE Index!ReadPage(b)
  <2>1. PICK chunk \in SUBSET build[b].todo :
            build' = [build EXCEPT ![b] = [build[b] EXCEPT !.at = "write",
                         !.page = chunk, !.todo = @ \ chunk, !.doc = version]]
    <3>1. PICK chunk \in SUBSET build[b].todo \ {{}} :
              build' = [build EXCEPT ![b].at = "write", ![b].page = chunk,
                           ![b].todo = @ \ chunk, ![b].doc = version]
      BY <1>2 DEF Index!ReadPage
    <3>2. build \in [Index!Builders -> Builds]
      BY DEF CopiesHeld
    <3> WITNESS chunk \in SUBSET build[b].todo
    <3> QED
      BY <1>1, <3>1, <3>2
  <2>2. [build[b] EXCEPT !.at = "write", !.page = chunk,
                         !.todo = @ \ chunk, !.doc = version] \in Builds
    BY <1>1 DEF Builds
  <2>3. build' \in [Index!Builders -> Builds]
    BY <2>1, <2>2, BuildHeld
  <2> QED
    BY <1>2, <2>3 DEF CopiesHeld, Index!ReadPage
<1>3. CASE Index!WritePage(b)
  <2>1. [build[b] EXCEPT !.page = {}, !.doc = Index!Empty,
            !.at = IF build[b].todo = {} THEN "written" ELSE "read"] \in Builds
    BY <1>1, EmptyDocument DEF Builds
  <2>2. build' \in [Index!Builders -> Builds]
    BY <1>3, <2>1, BuildHeld, PageFacts
  <2> QED
    BY <1>3, <2>2, PageFacts DEF CopiesHeld, Index!WritePage
<1>4. CASE Index!AdminReindex(b)
  <2>1. build' \in [Index!Builders -> Builds]
    BY <1>4, ScanFacts, BuildHeld
    DEF Index!AdminReindex, Index!Scan, CopiesHeld
  <2> QED
    BY <1>4, <2>1 DEF CopiesHeld, Index!AdminReindex
<1>5. CASE Index!AdminDone(b)
  <2>1. build' \in [Index!Builders -> Builds]
    BY <1>5, EmptyDocument, BuildHeld DEF Index!AdminDone
  <2> QED
    BY <1>5, <2>1 DEF CopiesHeld, Index!AdminDone
<1>6. CASE Index!BuildFails(b)
  <2>1. build' \in [Index!Builders -> Builds]
    BY <1>6, EmptyDocument, BuildHeld DEF Index!BuildFails
  <2>2. /\ indices' \subseteq {"old", "new"}
        /\ docs' \in [{"old", "new"} -> Index!Documents]
    BY <1>6, DeleteFacts DEF Index!BuildFails, CopiesHeld
  <2>3. faults' \in 0 .. MaxFaults
    BY <1>6 DEF CopiesHeld, Index!IndexAssumption, Index!BuildFails
  <2> QED
    BY <1>6, <2>1, <2>2, <2>3 DEF CopiesHeld, Index!BuildFails
<1> QED
  BY <1>2, <1>3, <1>4, <1>5, <1>6 DEF Index!Reindex

\* The boot of a replica.
LEMMA EnsureHolds ==
    ASSUME Index!IndexAssumption, CopiesHeld, NEW r \in Replicas,
           Index!Ensure(r)
    PROVE  CopiesHeld'
<1> USE DEF Index!catalogue
<1>1. /\ build[r] \in Builds /\ alias \in {"old", "new"}
      /\ r \in Index!Builders /\ docs \in [{"old", "new"} -> Index!Documents]
      /\ indices \subseteq {"old", "new"}
  BY DEF CopiesHeld, Index!Builders
<1>2. build[r].live \in {"old", "new"}
  BY <1>1 DEF Builds
<1>3. CASE Index!Boot(r)
  <2>1. [Index!Rest("resolved") EXCEPT !.live = alias] \in Builds
    BY <1>1, EmptyDocument DEF Builds, Index!Rest
  <2>2. build' \in [Index!Builders -> Builds]
    BY <1>1, <1>3, <2>1, EmptyDocument, BuildHeld DEF Index!Boot
  <2> QED
    BY <1>3, <2>2 DEF CopiesHeld, Index!Boot
<1>4. CASE Index!Create(r)
  <2>1. build' \in [Index!Builders -> Builds]
    BY <1>1, <1>2, <1>4, EmptyDocument, ScanFacts, BuildHeld
    DEF Index!Create, Index!Scan
  <2>2. /\ indices' \subseteq {"old", "new"}
        /\ docs' \in [{"old", "new"} -> Index!Documents]
    BY <1>1, <1>4, EmptyDocument DEF Index!Create
  <2> QED
    BY <1>4, <2>1, <2>2 DEF CopiesHeld, Index!Create
<1>5. CASE Index!SwapAlias(r)
  <2>1. [build[r] EXCEPT !.at = "swapped"] \in Builds
    BY <1>1 DEF Builds
  <2>2. build' \in [Index!Builders -> Builds]
    BY <1>1, <1>5, <2>1, BuildHeld DEF Index!SwapAlias
  <2> QED
    BY <1>5, <2>2 DEF CopiesHeld, Index!SwapAlias
<1>6. CASE Index!DeletePrevious(r)
  <2>1. build' \in [Index!Builders -> Builds]
    BY <1>1, <1>6, EmptyDocument, BuildHeld DEF Index!DeletePrevious
  <2>2. /\ indices' \subseteq {"old", "new"}
        /\ docs' \in [{"old", "new"} -> Index!Documents]
    BY <1>2, <1>6, DeleteFacts DEF Index!DeletePrevious
  <2> QED
    BY <1>6, <2>1, <2>2 DEF CopiesHeld, Index!DeletePrevious
<1> QED
  BY <1>3, <1>4, <1>5, <1>6 DEF Index!Ensure

\* Whatever happens, each variable holds what it is for.
LEMMA HeldStep ==
    ASSUME Index!IndexAssumption, CopiesHeld, [Index!Next]_(Index!vars)
    PROVE  CopiesHeld'
<1>1. CASE UNCHANGED Index!vars
  BY <1>1 DEF Index!vars, CopiesHeld
<1>2. ASSUME NEW p \in Indexed, Index!Upsert(p) \/ Index!HardDelete(p)
      PROVE  CopiesHeld'
  BY <1>2, CatalogueHeld
<1>3. ASSUME NEW b \in Index!Builders, Index!Reindex(b) \/ Index!BuildFails(b)
      PROVE  CopiesHeld'
  BY <1>3, ReindexHeld
<1>4. ASSUME NEW r \in Replicas,
             \/ Index!Drain(r) \/ Index!Ensure(r)
             \/ Index!DrainFails(r) \/ Index!Crash(r)
      PROVE  CopiesHeld'
  BY <1>4, DrainHeld, EnsureHolds, FaultHeld
<1> QED
  BY <1>1, <1>2, <1>3, <1>4 DEF Index!Next

-----------------------------------------------------------------------------
(* A product that nobody changes is found throughout. *)

\* At first nobody builds, and the live index has every product.
LEMMA ServesInit ==
    ASSUME Index!IndexAssumption, Index!Init
    PROVE  ServesInv
<1>1. CopiesHeld
  BY HeldInit
<1>2. KeptAsWas
  BY DEF KeptAsWas, Index!Init, Index!Rest
<1>3. OneBuilder
  BY DEF OneBuilder, Index!Init, Index!Rest, Building, Index!Builders
<1>4. CopiesFilled
  <2>1. docs[alias] = version
    BY DEF Index!Init, Index!IndexAssumption
  <2>2. \A r \in Replicas : build[r].at \notin Building
    BY DEF Index!Init, Index!Rest, Building, Index!Builders
  <2> QED
    BY <2>1, <2>2 DEF CopiesFilled, Kept
<1> QED
  BY <1>1, <1>2, <1>3, <1>4 DEF ServesInv

\* What a worker does to the documents is of products that were changed.
LEMMA SkipsKept ==
    ASSUME ServesInv, NEW p \in Indexed, Kept(p), NEW r \in Replicas
    PROVE  p \notin Index!ProductsOf(drain[r].rows)
<1>1. drain[r].rows \subseteq DOMAIN queue
  BY DEF ServesInv, CopiesHeld
<1>2. \A i \in DOMAIN queue : queue[i].product # p
  BY DEF ServesInv, KeptAsWas
<1> QED
  BY <1>1, <1>2 DEF Index!ProductsOf

\* A product that is changed is none that nobody changes.
LEMMA CatalogueServes ==
    ASSUME Index!IndexAssumption, ServesInv, NEW p \in Indexed,
           Index!Upsert(p) \/ Index!HardDelete(p)
    PROVE  KeptAsWas' /\ OneBuilder' /\ CopiesFilled'
<1> USE DEF ServesInv
<1>1. PICK o \in {"upsert", "delete"} : Index!Enqueue(p, o)
  BY UpsertFacts
<1>2. UNCHANGED <<indices, docs, alias, drain, build, faults>>
  BY UpsertFacts DEF Index!elastic
<1>3. \A q \in Indexed : Kept(q)' => q # p /\ Kept(q)
  BY UpsertFacts DEF Kept
<1>4. KeptAsWas'
  <2> SUFFICES ASSUME NEW q \in Indexed, Kept(q)'
               PROVE  /\ \A i \in DOMAIN queue' : queue'[i].product # q
                      /\ \A b \in Index!Builders :
                             build'[b].at = "write" => build'[b].doc[q] = 1
    BY DEF KeptAsWas
  <2>1. q # p /\ Kept(q)
    BY <1>3
  <2>2. \A i \in DOMAIN queue' : queue'[i].product # q
    BY <1>1, <2>1, Enqueued DEF KeptAsWas
  <2> QED
    BY <1>2, <2>1, <2>2 DEF KeptAsWas
<1>5. OneBuilder'
  BY <1>2 DEF OneBuilder
<1>6. CopiesFilled'
  BY <1>2, <1>3 DEF CopiesFilled
<1> QED
  BY <1>4, <1>5, <1>6

\* The workers write what was changed, and to the index that is live.
LEMMA DrainServes ==
    ASSUME Index!IndexAssumption, ServesInv, NEW r \in Replicas,
           Index!Drain(r) \/ Index!DrainFails(r)
    PROVE  KeptAsWas' /\ OneBuilder' /\ CopiesFilled'
<1> USE DEF ServesInv, Index!catalogue
<1>1. UNCHANGED <<version, indices, alias, build>>
  BY DEF Index!Drain, Index!DrainFails, Index!SelectPending,
         Index!LoadDocuments, Index!Bulk, Index!MarkProcessed
<1>2. /\ DOMAIN queue' = DOMAIN queue
      /\ \A i \in DOMAIN queue : queue'[i].product = queue[i].product
  <2>1. CASE Index!MarkProcessed(r)
    BY <2>1, MarkFacts
  <2>2. CASE queue' = queue
    BY <2>2
  <2> QED
    BY <2>1, <2>2
    DEF Index!Drain, Index!DrainFails, Index!SelectPending,
        Index!LoadDocuments, Index!Bulk
<1>3. /\ \A n \in {"old", "new"} : n # alias => docs'[n] = docs[n]
      /\ \A p \in Indexed : Kept(p) => docs'[alias][p] = docs[alias][p]
  <2>1. CASE Index!Bulk(r)
    BY <2>1, BulkFacts, SkipsKept
  <2>2. CASE docs' = docs
    BY <2>2
  <2> QED
    BY <2>1, <2>2
    DEF Index!Drain, Index!DrainFails, Index!SelectPending,
        Index!LoadDocuments, Index!MarkProcessed
<1>4. \A p \in Indexed : Kept(p)' <=> Kept(p)
  BY <1>1 DEF Kept
<1>5. KeptAsWas'
  BY <1>1, <1>2, <1>4 DEF KeptAsWas
<1>6. OneBuilder'
  BY <1>1 DEF OneBuilder
<1>7. CopiesFilled'
  <2>1. \A p \in Indexed : Kept(p)' => docs'[alias'][p] = 1
    BY <1>1, <1>3, <1>4 DEF CopiesFilled
  <2>2. ASSUME NEW s \in Replicas, NEW p \in Indexed,
               build'[s].at \in Building, Kept(p)'
        PROVE  \/ build'[s].at # "written" /\ p \in build'[s].todo
               \/ build'[s].at = "write" /\ p \in build'[s].page
               \/ docs'["new"][p] = 1
    <3>1. alias = "old"
      BY <1>1, <2>2 DEF OneBuilder
    <3>2. docs'["new"] = docs["new"]
      BY <1>3, <3>1
    <3> QED
      BY <1>1, <1>4, <2>2, <3>2 DEF CopiesFilled
  <2> QED
    BY <2>1, <2>2 DEF CopiesFilled
<1> QED
  BY <1>5, <1>6, <1>7

\* Who dies builds no longer.
LEMMA CrashServes ==
    ASSUME Index!IndexAssumption, ServesInv, NEW r \in Replicas, Index!Crash(r)
    PROVE  KeptAsWas' /\ OneBuilder' /\ CopiesFilled'
<1> USE DEF ServesInv, Index!catalogue
<1>1. /\ UNCHANGED <<version, queue, indices, docs, alias>>
      /\ build' = [build EXCEPT ![r] = Index!Rest("down")]
  BY DEF Index!Crash
<1>2. build \in [Index!Builders -> Builds] /\ r \in Index!Builders
  BY DEF CopiesHeld, Index!Builders
<1>3. /\ build'[r].at = "down"
      /\ \A b \in Index!Builders : b # r => build'[b] = build[b]
  BY <1>1, <1>2 DEF Index!Rest
<1>4. \A b \in Index!Builders :
          build'[b].at \in Building \cup {"resolved", "swapped"} =>
              b # r /\ build'[b] = build[b]
  BY <1>3 DEF Building
<1>5. Replicas \subseteq Index!Builders
  BY DEF Index!Builders
<1>6. \A p \in Indexed : Kept(p)' <=> Kept(p)
  BY <1>1 DEF Kept
<1>7. KeptAsWas'
  BY <1>1, <1>4, <1>6 DEF KeptAsWas, Building
<1>8. OneBuilder'
  BY <1>1, <1>4, <1>5 DEF OneBuilder, Building
<1>9. CopiesFilled'
  BY <1>1, <1>4, <1>5, <1>6 DEF CopiesFilled, Building
<1> QED
  BY <1>7, <1>8, <1>9

\* A page has been read as the catalogue is.
LEMMA ReadPageServes ==
    ASSUME Index!IndexAssumption, ServesInv, NEW b \in Index!Builders,
           Index!ReadPage(b)
    PROVE  KeptAsWas' /\ OneBuilder' /\ CopiesFilled'
<1> USE DEF ServesInv, Index!catalogue
<1>1. /\ UNCHANGED <<version, queue, indices, docs, alias>>
      /\ build[b].at = "read"
  BY DEF Index!ReadPage
<1>2. PICK chunk \in SUBSET build[b].todo :
          build' = [build EXCEPT ![b] = [build[b] EXCEPT !.at = "write",
                       !.page = chunk, !.todo = @ \ chunk, !.doc = version]]
  <2>1. PICK chunk \in SUBSET build[b].todo \ {{}} :
            build' = [build EXCEPT ![b].at = "write", ![b].page = chunk,
                         ![b].todo = @ \ chunk, ![b].doc = version]
    BY DEF Index!ReadPage
  <2>2. build \in [Index!Builders -> Builds] /\ build[b] \in Builds
    BY DEF CopiesHeld
  <2> WITNESS chunk \in SUBSET build[b].todo
  <2> QED
    BY <2>1, <2>2
<1>3. build \in [Index!Builders -> Builds] /\ build[b] \in Builds
  BY DEF CopiesHeld
<1>4. /\ build'[b].at = "write"
      /\ build'[b].page = chunk
      /\ build'[b].todo = build[b].todo \ chunk
      /\ build'[b].doc = version
      /\ build'[b].live = build[b].live
      /\ \A c \in Index!Builders : c # b => build'[c] = build[c]
  BY <1>2, <1>3 DEF Builds
<1>5. Replicas \subseteq Index!Builders
  BY DEF Index!Builders
<1>6. \A p \in Indexed : Kept(p)' <=> Kept(p)
  BY <1>1 DEF Kept
<1>7. KeptAsWas'
  BY <1>1, <1>4, <1>6 DEF KeptAsWas, Kept
<1>8. OneBuilder'
  BY <1>1, <1>4, <1>5 DEF OneBuilder, Building
<1>9. CopiesFilled'
  BY <1>1, <1>2, <1>4, <1>5, <1>6 DEF CopiesFilled, Building
<1> QED
  BY <1>7, <1>8, <1>9

\* A written page is in the index that the rebuild is of.
LEMMA WritePageServes ==
    ASSUME Index!IndexAssumption, ServesInv, NEW b \in Index!Builders,
           Index!WritePage(b)
    PROVE  KeptAsWas' /\ OneBuilder' /\ CopiesFilled'
<1> USE DEF ServesInv, Index!catalogue
<1>1. UNCHANGED <<version, queue, indices, alias>>
  BY DEF Index!WritePage
<1>2. /\ build[b].at = "write"
      /\ build' = [build EXCEPT ![b] = [build[b] EXCEPT
             !.page = {}, !.doc = Index!Empty,
             !.at = IF build[b].todo = {} THEN "written" ELSE "read"]]
  BY PageFacts
<1>3. build \in [Index!Builders -> Builds] /\ build[b] \in Builds
  BY DEF CopiesHeld
<1>4. /\ build'[b].at = IF build[b].todo = {} THEN "written" ELSE "read"
      /\ build'[b].todo = build[b].todo
      /\ build'[b].live = build[b].live
      /\ \A c \in Index!Builders : c # b => build'[c] = build[c]
  BY <1>2, <1>3 DEF Builds
<1>5. Replicas \subseteq Index!Builders
  BY DEF Index!Builders
<1>6. \A p \in Indexed : Kept(p)' <=> Kept(p)
  BY <1>1 DEF Kept
<1>7. /\ \A n \in {"old", "new"} : n # Index!Target(b) => docs'[n] = docs[n]
      /\ \A p \in Indexed : Kept(p) =>
             docs'[Index!Target(b)][p] =
                 IF p \in build[b].page THEN 1 ELSE docs[Index!Target(b)][p]
  <2>1. \A p \in Indexed : Kept(p) => build[b].doc[p] = 1
    BY <1>2 DEF KeptAsWas
  <2>2. /\ \A n \in {"old", "new"} : n # Index!Target(b) => docs'[n] = docs[n]
        /\ \A p \in Indexed :
               docs'[Index!Target(b)][p] =
                   IF p \in build[b].page /\ build[b].doc[p] # Index!NoDoc
                   THEN build[b].doc[p] ELSE docs[Index!Target(b)][p]
    BY PageFacts
  <2>3. Index!NoDoc # 1
    BY DEF Index!NoDoc
  <2> QED
    BY <2>1, <2>2, <2>3
<1>8. KeptAsWas'
  BY <1>1, <1>4, <1>6 DEF KeptAsWas
<1>9. OneBuilder'
  BY <1>1, <1>2, <1>4, <1>5 DEF OneBuilder, Building
<1>10. \A p \in Indexed : Kept(p)' => docs'[alias'][p] = 1
  <2>1. alias \in {"old", "new"}
    BY DEF CopiesHeld
  <2> QED
    BY <2>1, <1>1, <1>6, <1>7 DEF CopiesFilled
<1>11. ASSUME NEW r \in Replicas, NEW p \in Indexed,
              build'[r].at \in Building, Kept(p)'
       PROVE  \/ build'[r].at # "written" /\ p \in build'[r].todo
              \/ build'[r].at = "write" /\ p \in build'[r].page
              \/ docs'["new"][p] = 1
  <2>1. build[r].at \in Building /\ Kept(p)
    BY <1>2, <1>4, <1>5, <1>6, <1>11 DEF Building
  <2>2. alias = "old"
    BY <2>1 DEF OneBuilder
  <2>3. CASE r = b
    <3>1. Index!Target(b) = "new"
      BY <2>3 DEF Index!Target, Index!IndexAssumption
    <3>2. \/ p \in build[b].todo
          \/ p \in build[b].page
          \/ docs["new"][p] = 1
      BY <2>1, <2>3 DEF CopiesFilled
    <3>3. p \in build[b].todo \/ docs'["new"][p] = 1
      BY <1>7, <2>1, <3>1, <3>2
    <3> QED
      BY <1>4, <2>3, <3>3
  <2>4. CASE r # b
    <3>1. Index!Target(b) = "old"
      <4>1. b \notin Replicas
        BY <1>2, <2>1, <2>4 DEF OneBuilder, Building
      <4> QED
        BY <2>2, <4>1 DEF Index!Target, Index!Builders
    <3>2. docs'["new"] = docs["new"] /\ build'[r] = build[r]
      BY <1>4, <1>5, <1>7, <2>4, <3>1
    <3> QED
      BY <2>1, <3>2 DEF CopiesFilled
  <2> QED
    BY <2>3, <2>4
<1>12. CopiesFilled'
  BY <1>10, <1>11 DEF CopiesFilled
<1> QED
  BY <1>8, <1>9, <1>12

\* Whoever rests, or goes for a boot with nothing to build, disturbs nothing.
LEMMA RestServes ==
    ASSUME ServesInv, NEW b \in Index!Builders,
           UNCHANGED <<version, queue, indices, docs, alias>>,
           build \in [Index!Builders -> Builds],
           NEW w, build' = [build EXCEPT ![b] = w],
           \/ w.at \in {"up", "down"}
           \/ w.at = "read" /\ b \notin Replicas
           \/ w.at = "resolved" /\ w.live = "old"
    PROVE  KeptAsWas' /\ OneBuilder' /\ CopiesFilled'
<1> USE DEF ServesInv
<1>1. /\ build'[b] = w
      /\ \A c \in Index!Builders : c # b => build'[c] = build[c]
  OBVIOUS
<1>2. w.at # "write"
  OBVIOUS
<1>3. Replicas \subseteq Index!Builders
  BY DEF Index!Builders
<1>4. \A p \in Indexed : Kept(p)' <=> Kept(p)
  BY DEF Kept
<1>5. \A r \in Replicas :
          /\ build'[r].at \in Building => build'[r] = build[r]
          /\ build'[r].at = "swapped" => build'[r] = build[r]
          /\ build'[r].at = "resolved" => \/ build'[r] = build[r]
                                          \/ build'[r].live = "old"
  BY <1>1, <1>3 DEF Building
<1>6. KeptAsWas'
  BY <1>1, <1>2, <1>4 DEF KeptAsWas
<1>7. OneBuilder'
  BY <1>5 DEF OneBuilder
<1>8. CopiesFilled'
  BY <1>4, <1>5 DEF CopiesFilled
<1> QED
  BY <1>6, <1>7, <1>8

\* The rebuild of an administrator begins and ends.
LEMMA AdminServes ==
    ASSUME Index!IndexAssumption, ServesInv, NEW b \in Index!Builders,
           Index!AdminReindex(b) \/ Index!AdminDone(b)
    PROVE  KeptAsWas' /\ OneBuilder' /\ CopiesFilled'
<1> USE DEF Index!catalogue
<1>1. /\ UNCHANGED <<version, queue, indices, docs, alias>>
      /\ b \notin Replicas
      /\ build \in [Index!Builders -> Builds]
  BY DEF Index!AdminReindex, Index!AdminDone, Index!IndexAssumption, ServesInv,
         CopiesHeld
<1>2. CASE Index!AdminReindex(b)
  <2> DEFINE w == [Index!Rest("read") EXCEPT !.live = alias, !.todo = Indexed]
  <2>1. build' = [build EXCEPT ![b] = w]
    BY <1>2 DEF Index!AdminReindex, Index!Scan
  <2>2. w.at = "read"
    BY DEF Index!Rest
  <2> HIDE DEF w
  <2> QED
    BY <1>1, <2>1, <2>2, RestServes
<1>3. CASE Index!AdminDone(b)
  BY <1>1, <1>3, RestServes DEF Index!AdminDone, Index!Rest
<1> QED
  BY <1>2, <1>3

\* A boot looks where the alias is.
LEMMA BootServes ==
    ASSUME Index!IndexAssumption, ServesInv, NEW r \in Replicas, Index!Boot(r)
    PROVE  KeptAsWas' /\ OneBuilder' /\ CopiesFilled'
<1> USE DEF Index!catalogue
<1>1. /\ UNCHANGED <<version, queue, indices, docs, alias>>
      /\ build \in [Index!Builders -> Builds]
      /\ r \in Index!Builders /\ alias \in {"old", "new"}
  BY DEF Index!Boot, ServesInv, CopiesHeld, Index!Builders
<1> DEFINE w == IF alias = "new" THEN Index!Rest("up")
                ELSE [Index!Rest("resolved") EXCEPT !.live = alias]
<1>2. build' = [build EXCEPT ![r] = w]
  BY DEF Index!Boot
<1>3. w.at = "up" \/ (w.at = "resolved" /\ w.live = "old")
  BY <1>1 DEF Index!Rest
<1> HIDE DEF w
<1> QED
  BY <1>1, <1>2, <1>3, RestServes

\* Who creates the index is the only one to build: it is there for the next.
LEMMA CreateServes ==
    ASSUME Index!IndexAssumption, ServesInv, NEW r \in Replicas,
           Index!Create(r)
    PROVE  KeptAsWas' /\ OneBuilder' /\ CopiesFilled'
<1> USE DEF Index!catalogue
<1>1. /\ build \in [Index!Builders -> Builds] /\ r \in Index!Builders
      /\ docs \in [{"old", "new"} -> Index!Documents]
      /\ alias \in {"old", "new"}
      /\ UNCHANGED <<version, queue, alias>>
  BY DEF Index!Create, ServesInv, CopiesHeld, Index!Builders
<1>2. CASE ~Index!CreatesIndex(r)
  <2>1. /\ UNCHANGED <<indices, docs>>
        /\ build' = [build EXCEPT ![r] = Index!Rest("up")]
    BY <1>2 DEF Index!Create
  <2>2. Index!Rest("up").at = "up"
    BY DEF Index!Rest
  <2> QED
    BY <1>1, <2>1, <2>2, RestServes
<1>3. CASE Index!CreatesIndex(r)
  <2> USE DEF ServesInv
  <2> DEFINE w == [Index!Rest("read") EXCEPT !.live = build[r].live,
                                             !.todo = Indexed]
  <2>1. /\ indices' = indices \cup {"new"}
        /\ docs' = [docs EXCEPT !["new"] = Index!Empty]
        /\ build' = [build EXCEPT ![r] = w]
    BY <1>3 DEF Index!Create, Index!Scan
  <2>2. build[r].at = "resolved" /\ "new" \notin indices
    BY <1>3 DEF Index!Create, Index!CreatesIndex
  <2>3. build[r].live = "old" /\ alias = "old"
    BY <1>1, <2>2 DEF OneBuilder
  <2>4. w.at = "read" /\ w.live = "old" /\ w.todo = Indexed
    BY <2>3 DEF Index!Rest
  <2> HIDE DEF w
  <2>5. /\ build'[r] = w
        /\ \A c \in Index!Builders : c # r => build'[c] = build[c]
    BY <1>1, <2>1
  <2>6. Replicas \subseteq Index!Builders
    BY DEF Index!Builders
  <2>7. \A s \in Replicas : build[s].at \notin Building
    BY <2>2 DEF OneBuilder
  <2>8. docs'["old"] = docs["old"]
    BY <1>1, <2>1
  <2>9. \A p \in Indexed : Kept(p)' <=> Kept(p)
    BY <1>1 DEF Kept
  <2>10. KeptAsWas'
    BY <1>1, <2>4, <2>5, <2>9 DEF KeptAsWas
  <2>11. OneBuilder'
    <3>1. \A s \in Replicas : s # r =>
              build'[s] = build[s] /\ build'[s].at \notin Building
      BY <2>5, <2>6, <2>7
    <3> QED
      BY <1>1, <2>1, <2>3, <2>4, <2>5, <3>1 DEF OneBuilder, Building
  <2>12. CopiesFilled'
    BY <1>1, <2>3, <2>4, <2>5, <2>6, <2>7, <2>8, <2>9 DEF CopiesFilled
  <2> QED
    BY <2>10, <2>11, <2>12
<1> QED
  BY <1>2, <1>3

\* A rebuild that fails leaves the alias, and at most takes its own index.
LEMMA BuildFailsServes ==
    ASSUME Index!IndexAssumption, ServesInv, NEW b \in Index!Builders,
           Index!BuildFails(b)
    PROVE  KeptAsWas' /\ OneBuilder' /\ CopiesFilled'
<1> USE DEF Index!catalogue
<1>1. /\ build \in [Index!Builders -> Builds]
      /\ alias \in {"old", "new"}
      /\ UNCHANGED <<version, queue, alias>>
      /\ build[b].at \in Building
      /\ build' = [build EXCEPT ![b] = Index!Rest("up")]
  BY DEF Index!BuildFails, ServesInv, CopiesHeld, Building
<1>2. Index!Rest("up").at = "up"
  BY DEF Index!Rest
<1>3. CASE UNCHANGED <<indices, docs>>
  BY <1>1, <1>2, <1>3, RestServes
<1>4. CASE b \in Replicas /\ Index!Delete("new")
  <2> USE DEF ServesInv
  <2>1. alias = "old" /\ docs'["old"] = docs["old"]
        /\ ("old" \in indices' <=> "old" \in indices)
    BY <1>1, <1>4, DeleteFacts DEF OneBuilder
  <2>2. \A s \in Replicas : s # b => build[s].at \notin Building
    BY <1>1, <1>4 DEF OneBuilder
  <2>3. /\ build'[b] = Index!Rest("up")
        /\ \A c \in Index!Builders : c # b => build'[c] = build[c]
    BY <1>1
  <2>4. Replicas \subseteq Index!Builders
    BY DEF Index!Builders
  <2>5. \A s \in Replicas : build'[s].at \notin Building
    BY <1>2, <2>2, <2>3, <2>4 DEF Building
  <2>6. \A p \in Indexed : Kept(p)' <=> Kept(p)
    BY <1>1 DEF Kept
  <2>7. KeptAsWas'
    BY <1>1, <1>2, <2>3, <2>6 DEF KeptAsWas
  <2>8. OneBuilder'
    BY <1>1, <1>2, <2>1, <2>3, <2>4, <2>5 DEF OneBuilder, Building
  <2>9. CopiesFilled'
    BY <1>1, <2>1, <2>5, <2>6 DEF CopiesFilled
  <2> QED
    BY <2>7, <2>8, <2>9
<1> QED
  BY <1>3, <1>4 DEF Index!BuildFails

\* The alias moves to an index that has been filled.
LEMMA SwapServes ==
    ASSUME Index!IndexAssumption, ServesInv, NEW r \in Replicas,
           Index!SwapAlias(r)
    PROVE  KeptAsWas' /\ OneBuilder' /\ CopiesFilled'
<1> USE DEF Index!catalogue, ServesInv
<1>1. /\ build \in [Index!Builders -> Builds] /\ r \in Index!Builders
      /\ build[r] \in Builds
      /\ UNCHANGED <<version, queue, indices, docs>>
      /\ alias' = "new"
      /\ build[r].at = "written"
      /\ build' = [build EXCEPT ![r] = [build[r] EXCEPT !.at = "swapped"]]
  BY DEF Index!SwapAlias, CopiesHeld, Index!Builders
<1>2. /\ build'[r].at = "swapped" /\ build'[r].live = build[r].live
      /\ \A c \in Index!Builders : c # r => build'[c] = build[c]
  BY <1>1 DEF Builds
<1>3. \A s \in Replicas : s # r => build[s].at \notin Building
  BY <1>1 DEF OneBuilder, Building
<1>4. Replicas \subseteq Index!Builders
  BY DEF Index!Builders
<1>5. \A s \in Replicas : build'[s].at \notin Building
  BY <1>2, <1>3, <1>4 DEF Building
<1>6. build[r].live = "old" /\ "new" \in indices
  BY <1>1 DEF OneBuilder, Building
<1>7. \A p \in Indexed : Kept(p)' <=> Kept(p)
  BY <1>1 DEF Kept
<1>8. KeptAsWas'
  BY <1>1, <1>2, <1>7 DEF KeptAsWas
<1>9. OneBuilder'
  BY <1>1, <1>2, <1>4, <1>5, <1>6 DEF OneBuilder, Building
<1>10. CopiesFilled'
  <2>1. \A p \in Indexed : Kept(p) => docs["new"][p] = 1
    BY <1>1 DEF CopiesFilled, Building
  <2> QED
    BY <1>1, <1>5, <1>7, <2>1 DEF CopiesFilled
<1> QED
  BY <1>8, <1>9, <1>10

\* The index the alias was on goes, once it is on the other.
LEMMA DeletePreviousServes ==
    ASSUME Index!IndexAssumption, ServesInv, NEW r \in Replicas,
           Index!DeletePrevious(r)
    PROVE  KeptAsWas' /\ OneBuilder' /\ CopiesFilled'
<1> USE DEF Index!catalogue, ServesInv
<1>1. /\ build \in [Index!Builders -> Builds] /\ r \in Index!Builders
      /\ UNCHANGED <<version, queue, alias>>
      /\ build[r].at = "swapped"
      /\ build' = [build EXCEPT ![r] = Index!Rest("up")]
  BY DEF Index!DeletePrevious, CopiesHeld, Index!Builders
<1>2. alias = "new" /\ build[r].live = "old"
  BY <1>1 DEF OneBuilder, Building
<1>3. docs'["new"] = docs["new"] /\ ("new" \in indices' <=> "new" \in indices)
  BY <1>2, DeleteFacts DEF Index!DeletePrevious
<1>4. Index!Rest("up").at = "up"
  BY DEF Index!Rest
<1>5. /\ build'[r] = Index!Rest("up")
      /\ \A c \in Index!Builders : c # r => build'[c] = build[c]
  BY <1>1
<1>6. Replicas \subseteq Index!Builders
  BY DEF Index!Builders
<1>7. \A s \in Replicas : build'[s].at \notin Building
  BY <1>2, <1>4, <1>5, <1>6 DEF OneBuilder, Building
<1>8. \A p \in Indexed : Kept(p)' <=> Kept(p)
  BY <1>1 DEF Kept
<1>9. KeptAsWas'
  BY <1>1, <1>4, <1>5, <1>8 DEF KeptAsWas
<1>10. OneBuilder'
  BY <1>1, <1>2, <1>3, <1>4, <1>5, <1>6, <1>7 DEF OneBuilder, Building
<1>11. CopiesFilled'
  BY <1>1, <1>2, <1>3, <1>7, <1>8 DEF CopiesFilled
<1> QED
  BY <1>9, <1>10, <1>11

\* Whatever happens, what nobody changes stays where it is found.
LEMMA ServesStep ==
    ASSUME Index!IndexAssumption, ServesInv, [Index!Next]_(Index!vars)
    PROVE  ServesInv'
<1>1. CopiesHeld'
  BY HeldStep DEF ServesInv
<1>2. KeptAsWas' /\ OneBuilder' /\ CopiesFilled'
  <2>1. CASE UNCHANGED Index!vars
    BY <2>1
    DEF Index!vars, ServesInv, KeptAsWas, OneBuilder, CopiesFilled, Kept
  <2>2. ASSUME NEW p \in Indexed, Index!Upsert(p) \/ Index!HardDelete(p)
        PROVE  KeptAsWas' /\ OneBuilder' /\ CopiesFilled'
    BY <2>2, CatalogueServes
  <2>3. ASSUME NEW b \in Index!Builders,
               Index!Reindex(b) \/ Index!BuildFails(b)
        PROVE  KeptAsWas' /\ OneBuilder' /\ CopiesFilled'
    BY <2>3, ReadPageServes, WritePageServes, AdminServes, BuildFailsServes
    DEF Index!Reindex
  <2>4. ASSUME NEW r \in Replicas,
               \/ Index!Drain(r) \/ Index!Ensure(r)
               \/ Index!DrainFails(r) \/ Index!Crash(r)
        PROVE  KeptAsWas' /\ OneBuilder' /\ CopiesFilled'
    BY <2>4, DrainServes, CrashServes, BootServes, CreateServes, SwapServes,
       DeletePreviousServes
    DEF Index!Ensure
  <2> QED
    BY <2>1, <2>2, <2>3, <2>4 DEF Index!Next
<1> QED
  BY <1>1, <1>2 DEF ServesInv

\* "The alias never points at an empty index", a half-filled or a deleted one:
\* however many replicas boot, die and fail while administrators rebuild, a
\* product that nobody changes is found.
THEOREM AlwaysServes ==
    ASSUME Index!IndexAssumption
    PROVE  Index!Spec => []Index!ServesCatalogue
<1>1. Index!Init => ServesInv
  BY ServesInit
<1>2. ServesInv /\ [Index!Next]_(Index!vars) => ServesInv'
  BY ServesStep
<1>3. ServesInv => Index!ServesCatalogue
  BY DEF ServesInv, Index!ServesCatalogue, OneBuilder, CopiesFilled, Kept
<1> QED
  BY <1>1, <1>2, <1>3, PTL DEF Index!Spec

-----------------------------------------------------------------------------
(* One worker, whose boots find the alias where it belongs and whose        *)
(* failures leave every row of the outbox an attempt.                       *)

OneWorker ==
    /\ \A r, s \in Replicas : r = s
    /\ Admins = {}
    /\ Live = "new"
    /\ MaxFaults < MAX_ATTEMPTS

\* The worker's boots never build, so the alias and its index stay.
NoBuild ==
    /\ alias = "new"
    /\ \A b \in Index!Builders : build[b].at \in {"down", "up"}

\* Its batch is of rows not processed.
BatchTaken ==
    \A r \in Replicas :
        /\ \A i \in drain[r].rows : ~queue[i].processed
        /\ drain[r].at = "idle" => drain[r].rows = {}

\* An attempt is used up by a failure each.
RefusedNow(i) ==
    \E r \in Replicas : /\ drain[r].at = "sent" /\ i \in drain[r].rows
                        /\ queue[i].product \in drain[r].failed
AttemptsSpent ==
    \A i \in DOMAIN queue :
        queue[i].attempts + (IF RefusedNow(i) THEN 1 ELSE 0) <= faults

\* A row of the outbox that will bring its product up to date: it is not in
\* the batch, or the batch has yet to read the product, has it as it is now,
\* or will leave the row pending.
Brings(i, p) ==
    /\ queue[i].product = p /\ ~queue[i].processed
    /\ \A r \in Replicas :
           \/ i \notin drain[r].rows
           \/ drain[r].at = "selected"
           \/ drain[r].at = "loaded" /\ drain[r].doc[p] = version[p]
           \/ drain[r].at = "sent" /\ p \in drain[r].failed
Owed ==
    \A p \in Indexed :
        docs["new"][p] # version[p] => \E i \in DOMAIN queue : Brings(i, p)

\* What the batch has read too early, a later row brings.
Overtaken ==
    \A r \in Replicas, p \in Indexed :
        /\ drain[r].at = "loaded" /\ p \in Index!ProductsOf(drain[r].rows)
        /\ drain[r].doc[p] # version[p]
        => \E i \in DOMAIN queue :
               /\ queue[i].product = p /\ ~queue[i].processed
               /\ i \notin drain[r].rows

CatchesUp == NoBuild /\ BatchTaken /\ AttemptsSpent /\ Owed /\ Overtaken
CaughtInv == CopiesHeld /\ CatchesUp

\* At first nothing is owed.
LEMMA CaughtInit ==
    ASSUME Index!IndexAssumption, OneWorker, Index!Init
    PROVE  CaughtInv
<1>1. CopiesHeld
  BY HeldInit
<1>2. NoBuild
  BY DEF NoBuild, Index!Init, OneWorker, Index!Rest
<1>3. DOMAIN queue = {}
  BY DEF Index!Init
<1>4. BatchTaken /\ AttemptsSpent /\ Overtaken
  BY <1>3 DEF BatchTaken, AttemptsSpent, Overtaken, Index!Init, Index!NoDrain
<1>5. Owed
  BY DEF Owed, Index!Init, OneWorker
<1> QED
  BY <1>1, <1>2, <1>4, <1>5 DEF CaughtInv, CatchesUp

\* The row of a change brings it.
LEMMA CatalogueCatchesUp ==
    ASSUME Index!IndexAssumption, OneWorker, CaughtInv, NEW p \in Indexed,
           Index!Upsert(p) \/ Index!HardDelete(p)
    PROVE  CatchesUp'
<1> USE DEF CaughtInv, CatchesUp
<1>1. PICK o \in {"upsert", "delete"} : Index!Enqueue(p, o)
  BY UpsertFacts
<1>2. UNCHANGED <<indices, docs, alias, drain, build, faults>>
  BY UpsertFacts DEF Index!elastic
<1>3. \A q \in Indexed : q # p => version'[q] = version[q]
  BY UpsertFacts
<1>4. PICK n :
          /\ DOMAIN queue' = DOMAIN queue \cup {n}
          /\ n \notin DOMAIN queue
          /\ \A i \in DOMAIN queue : queue'[i] = queue[i]
          /\ queue'[n].product = p
          /\ ~queue'[n].processed
          /\ queue'[n].attempts = 0
  BY <1>1, Enqueued
<1>5. \A r \in Replicas : drain[r].rows \subseteq DOMAIN queue
  BY DEF CopiesHeld
<1>6. NoBuild'
  BY <1>2 DEF NoBuild
<1>7. BatchTaken'
  BY <1>2, <1>4, <1>5 DEF BatchTaken
<1>8. AttemptsSpent'
  <2> SUFFICES ASSUME NEW i \in DOMAIN queue'
               PROVE  queue'[i].attempts + (IF RefusedNow(i)' THEN 1 ELSE 0)
                          <= faults'
    BY DEF AttemptsSpent
  <2>1. CASE i = n
    <3>1. ~RefusedNow(i)'
      BY <1>2, <1>4, <1>5, <2>1 DEF RefusedNow
    <3>2. faults \in Nat
      BY DEF CopiesHeld, Index!IndexAssumption
    <3> QED
      BY <1>2, <1>4, <2>1, <3>1, <3>2
  <2>2. CASE i \in DOMAIN queue
    <3>1. RefusedNow(i)' => RefusedNow(i)
      BY <1>2, <1>4, <2>2 DEF RefusedNow
    <3>2. /\ queue'[i].attempts = queue[i].attempts
          /\ queue[i].attempts \in Nat
          /\ faults' = faults /\ faults \in Nat
      <4>1. queue[i] \in Entries
        BY <2>2 DEF CopiesHeld
      <4> QED
        BY <1>2, <1>4, <2>2, <4>1
        DEF Entries, CopiesHeld, Index!IndexAssumption
    <3>3. queue[i].attempts + (IF RefusedNow(i) THEN 1 ELSE 0) <= faults
      BY <2>2 DEF AttemptsSpent
    <3> QED
      BY <3>1, <3>2, <3>3
  <2> QED
    BY <1>4, <2>1, <2>2
<1>9. Owed'
  <2> SUFFICES ASSUME NEW q \in Indexed, docs'["new"][q] # version'[q]
               PROVE  \E i \in DOMAIN queue' : Brings(i, q)'
    BY DEF Owed
  <2>1. CASE q = p
    <3>1. Brings(n, q)'
      BY <1>2, <1>4, <1>5, <2>1 DEF Brings
    <3> QED
      BY <1>4, <3>1
  <2>2. CASE q # p
    <3>1. PICK i \in DOMAIN queue : Brings(i, q)
      BY <1>2, <1>3, <2>2 DEF Owed
    <3>2. Brings(i, q)'
      BY <1>2, <1>3, <1>4, <2>2, <3>1 DEF Brings
    <3> QED
      BY <1>4, <3>2
  <2> QED
    BY <2>1, <2>2
<1>10. Overtaken'
  <2> SUFFICES ASSUME NEW r \in Replicas, NEW q \in Indexed,
                      drain'[r].at = "loaded",
                      q \in Index!ProductsOf(drain[r].rows)',
                      drain'[r].doc[q] # version'[q]
               PROVE  \E i \in DOMAIN queue' :
                          /\ queue'[i].product = q /\ ~queue'[i].processed
                          /\ i \notin drain'[r].rows
    BY DEF Overtaken
  <2>1. CASE q = p
    BY <1>2, <1>4, <1>5, <2>1
  <2>2. CASE q # p
    <3>1. q \in Index!ProductsOf(drain[r].rows)
      BY <1>2, <1>4, <1>5 DEF Index!ProductsOf
    <3> QED
      BY <1>2, <1>3, <1>4, <2>2, <3>1 DEF Overtaken
  <2> QED
    BY <2>1, <2>2
<1> QED
  BY <1>6, <1>7, <1>8, <1>9, <1>10

\* What is read into a batch is as the catalogue has it at that moment.
LEMMA SelectCatchesUp ==
    ASSUME Index!IndexAssumption, OneWorker, CaughtInv, NEW r \in Replicas,
           Index!SelectPending(r) \/ Index!LoadDocuments(r)
    PROVE  CatchesUp'
<1> USE DEF CaughtInv, CatchesUp, Index!catalogue
<1>1. /\ drain \in [Replicas -> Drains] /\ drain[r] \in Drains
      /\ Replicas = {r}
  BY DEF CopiesHeld, OneWorker
<1>2. UNCHANGED <<version, queue, indices, docs, alias, build, faults>>
  BY DEF Index!SelectPending, Index!LoadDocuments
<1>3. NoBuild'
  BY <1>2 DEF NoBuild
<1>4. CASE Index!SelectPending(r)
  <2>1. drain' = [drain EXCEPT ![r] =
            [drain[r] EXCEPT !.at = "selected", !.rows = Index!Batch]]
    BY <1>4 DEF Index!SelectPending
  <2>2. drain'[r].at = "selected" /\ drain'[r].rows = Index!Batch
    BY <1>1, <2>1 DEF Drains
  <2>3. BatchTaken'
    BY <1>1, <1>2, <2>2, BatchPending DEF BatchTaken, Index!Pending
  <2>4. AttemptsSpent'
    <3> SUFFICES ASSUME NEW i \in DOMAIN queue
                 PROVE  queue[i].attempts + (IF RefusedNow(i)' THEN 1 ELSE 0)
                            <= faults
      BY <1>2 DEF AttemptsSpent
    <3>1. ~RefusedNow(i)'
      BY <1>1, <2>2 DEF RefusedNow
    <3>2. queue[i].attempts \in Nat /\ faults \in Nat
      <4>1. queue[i] \in Entries
        BY DEF CopiesHeld
      <4> QED
        BY <4>1 DEF Entries, CopiesHeld, Index!IndexAssumption
    <3> QED
      BY <3>1, <3>2 DEF AttemptsSpent
  <2>5. Owed'
    BY <1>1, <1>2, <2>2 DEF Owed, Brings
  <2>6. Overtaken'
    BY <1>1, <2>2 DEF Overtaken
  <2> QED
    BY <1>3, <2>3, <2>4, <2>5, <2>6
<1>5. CASE Index!LoadDocuments(r)
  <2> DEFINE d == [p \in Indexed |->
                  IF p \in Index!ProductsOf(drain[r].rows)
                  THEN version[p] ELSE Index!NoDoc]
  <2>1. drain' = [drain EXCEPT ![r] =
            [drain[r] EXCEPT !.at = "loaded", !.doc = d]]
    BY <1>5 DEF Index!LoadDocuments
  <2>2. \A p \in Index!ProductsOf(drain[r].rows) :
            p \in Indexed => d[p] = version[p]
    OBVIOUS
  <2> HIDE DEF d
  <2>3. /\ drain'[r].at = "loaded" /\ drain'[r].rows = drain[r].rows
        /\ drain'[r].doc = d
        /\ drain[r].at = "selected"
    BY <1>1, <1>5, <2>1 DEF Drains, Index!LoadDocuments
  <2>4. BatchTaken'
    BY <1>1, <1>2, <2>3 DEF BatchTaken
  <2>5. AttemptsSpent'
    <3> SUFFICES ASSUME NEW i \in DOMAIN queue
                 PROVE  queue[i].attempts + (IF RefusedNow(i)' THEN 1 ELSE 0)
                            <= faults
      BY <1>2 DEF AttemptsSpent
    <3>1. ~RefusedNow(i)'
      BY <1>1, <2>3 DEF RefusedNow
    <3>2. queue[i].attempts \in Nat /\ faults \in Nat
      <4>1. queue[i] \in Entries
        BY DEF CopiesHeld
      <4> QED
        BY <4>1 DEF Entries, CopiesHeld, Index!IndexAssumption
    <3> QED
      BY <3>1, <3>2 DEF AttemptsSpent
  <2>6. Owed'
    <3> SUFFICES ASSUME NEW p \in Indexed, docs'["new"][p] # version'[p]
                 PROVE  \E i \in DOMAIN queue' : Brings(i, p)'
      BY DEF Owed
    <3>1. PICK i \in DOMAIN queue : Brings(i, p)
      BY <1>2 DEF Owed
    <3>2. i \in drain[r].rows => d[p] = version[p]
      BY <2>2, <3>1 DEF Brings, Index!ProductsOf
    <3>3. Brings(i, p)'
      BY <1>1, <1>2, <2>3, <3>1, <3>2 DEF Brings
    <3> QED
      BY <1>2, <3>3
  <2>7. Overtaken'
    BY <1>1, <1>2, <2>2, <2>3 DEF Overtaken, Index!ProductsOf
  <2> QED
    BY <1>3, <2>4, <2>5, <2>6, <2>7
<1> QED
  BY <1>4, <1>5

\* Documents that were read too early are followed by a later row, those
\* refused by another attempt.
LEMMA BulkCatchesUp ==
    ASSUME Index!IndexAssumption, OneWorker, CaughtInv, NEW r \in Replicas,
           Index!Bulk(r)
    PROVE  CatchesUp'
<1> USE DEF CaughtInv, CatchesUp, Index!catalogue
<1>1. /\ drain \in [Replicas -> Drains] /\ drain[r] \in Drains
      /\ Replicas = {r} /\ alias = "new"
  BY DEF CopiesHeld, OneWorker, NoBuild
<1>2. UNCHANGED <<version, queue, indices, alias, build>>
  BY DEF Index!Bulk
<1>3. PICK failed \in SUBSET Index!ProductsOf(drain[r].rows) :
          /\ failed \subseteq Indexed
          /\ drain[r].at = "loaded"
          /\ faults' = faults + Cardinality(failed)
          /\ \A p \in Indexed :
                 docs'["new"][p] =
                     IF p \in Index!ProductsOf(drain[r].rows) \ failed
                     THEN drain[r].doc[p] ELSE docs["new"][p]
          /\ drain' = [drain EXCEPT ![r] =
                 [drain[r] EXCEPT !.at = "sent", !.failed = failed]]
  <2>1. PICK failed \in SUBSET Index!ProductsOf(drain[r].rows) :
            /\ failed \subseteq Indexed
            /\ drain[r].at = "loaded"
            /\ faults' = faults + Cardinality(failed)
            /\ \A p \in Indexed :
                   docs'[alias][p] =
                       IF p \in Index!ProductsOf(drain[r].rows) \ failed
                       THEN drain[r].doc[p] ELSE docs[alias][p]
            /\ drain' = [drain EXCEPT ![r] =
                   [drain[r] EXCEPT !.at = "sent", !.failed = failed]]
    BY BulkFacts
  <2> WITNESS failed \in SUBSET Index!ProductsOf(drain[r].rows)
  <2> QED
    BY <1>1, <2>1
<1>4. /\ drain'[r].at = "sent" /\ drain'[r].rows = drain[r].rows
      /\ drain'[r].failed = failed
  BY <1>1, <1>3 DEF Drains
<1>5. NoBuild'
  BY <1>2 DEF NoBuild
<1>6. BatchTaken'
  BY <1>1, <1>2, <1>4 DEF BatchTaken
<1>7. IsFiniteSet(failed)
  BY BatchesAreFinite, FS_Subset DEF CaughtInv
<1>8. AttemptsSpent'
  <2> SUFFICES ASSUME NEW i \in DOMAIN queue
               PROVE  queue[i].attempts + (IF RefusedNow(i)' THEN 1 ELSE 0)
                          <= faults'
    BY <1>2 DEF AttemptsSpent
  <2>1. queue[i].attempts \in Nat /\ faults \in Nat
    <3>1. queue[i] \in Entries
      BY DEF CopiesHeld
    <3> QED
      BY <3>1 DEF Entries, CopiesHeld, Index!IndexAssumption
  <2>2. queue[i].attempts <= faults
    BY <2>1 DEF AttemptsSpent
  <2>3. Cardinality(failed) \in Nat
    BY <1>7, FS_CardinalityType
  <2>4. CASE RefusedNow(i)'
    <3>1. failed # {}
      BY <1>1, <1>4, <2>4 DEF RefusedNow
    <3>2. Cardinality(failed) # 0
      BY <1>7, <3>1, FS_EmptySet
    <3> QED
      BY <1>3, <2>1, <2>2, <2>3, <2>4, <3>2
  <2>5. CASE ~RefusedNow(i)'
    BY <1>3, <2>1, <2>2, <2>3, <2>5
  <2> QED
    BY <2>4, <2>5
<1>9. Owed'
  <2> SUFFICES ASSUME NEW p \in Indexed, docs'["new"][p] # version'[p]
               PROVE  \E i \in DOMAIN queue' : Brings(i, p)'
    BY DEF Owed
  <2>1. CASE p \in Index!ProductsOf(drain[r].rows) \ failed
    <3>1. drain[r].doc[p] # version[p]
      BY <1>2, <1>3, <2>1
    <3>2. PICK i \in DOMAIN queue :
              /\ queue[i].product = p /\ ~queue[i].processed
              /\ i \notin drain[r].rows
      BY <1>3, <2>1, <3>1 DEF Overtaken
    <3>3. Brings(i, p)'
      BY <1>1, <1>2, <1>4, <3>2 DEF Brings
    <3> QED
      BY <1>2, <3>3
  <2>2. CASE p \notin Index!ProductsOf(drain[r].rows) \ failed
    <3>1. docs["new"][p] # version[p]
      BY <1>2, <1>3, <2>2
    <3>2. PICK i \in DOMAIN queue : Brings(i, p)
      BY <3>1 DEF Owed
    <3>3. i \in drain[r].rows => p \in failed
      BY <2>2, <3>2 DEF Brings, Index!ProductsOf
    <3>4. Brings(i, p)'
      BY <1>1, <1>2, <1>4, <3>2, <3>3 DEF Brings
    <3> QED
      BY <1>2, <3>4
  <2> QED
    BY <2>1, <2>2
<1>10. Overtaken'
  BY <1>1, <1>4 DEF Overtaken
<1> QED
  BY <1>5, <1>6, <1>8, <1>9, <1>10

\* Only rows whose documents were taken are retired.
LEMMA MarkCatchesUp ==
    ASSUME Index!IndexAssumption, OneWorker, CaughtInv, NEW r \in Replicas,
           Index!MarkProcessed(r)
    PROVE  CatchesUp'
<1> USE DEF CaughtInv, CatchesUp
<1>1. /\ drain \in [Replicas -> Drains] /\ Replicas = {r}
  BY DEF CopiesHeld, OneWorker
<1>2. /\ drain[r].at = "sent"
      /\ DOMAIN queue' = DOMAIN queue
      /\ \A i \in DOMAIN queue :
             /\ queue'[i].product = queue[i].product
             /\ IF i \in drain[r].rows
                THEN IF queue[i].product \in drain[r].failed
                     THEN /\ queue'[i].processed = queue[i].processed
                          /\ queue'[i].attempts = queue[i].attempts + 1
                     ELSE /\ queue'[i].processed
                          /\ queue'[i].attempts = queue[i].attempts
                ELSE queue'[i] = queue[i]
      /\ drain' = [drain EXCEPT ![r] = Index!NoDrain]
      /\ UNCHANGED <<version, indices, docs, alias, build, faults>>
  BY MarkFacts
<1>3. drain'[r].at = "idle" /\ drain'[r].rows = {}
  BY <1>1, <1>2 DEF Index!NoDrain
<1>4. NoBuild'
  BY <1>2 DEF NoBuild
<1>5. BatchTaken'
  BY <1>1, <1>3 DEF BatchTaken
<1>6. AttemptsSpent'
  <2> SUFFICES ASSUME NEW i \in DOMAIN queue
               PROVE  queue'[i].attempts + (IF RefusedNow(i)' THEN 1 ELSE 0)
                          <= faults
    BY <1>2 DEF AttemptsSpent
  <2>1. ~RefusedNow(i)'
    BY <1>1, <1>3 DEF RefusedNow
  <2>2. queue[i].attempts \in Nat /\ faults \in Nat
    <3>1. queue[i] \in Entries
      BY DEF CopiesHeld
    <3> QED
      BY <3>1 DEF Entries, CopiesHeld, Index!IndexAssumption
  <2>3. queue[i].attempts + (IF RefusedNow(i) THEN 1 ELSE 0) <= faults
    BY DEF AttemptsSpent
  <2>4. CASE i \in drain[r].rows /\ queue[i].product \in drain[r].failed
    <3>1. RefusedNow(i)
      BY <1>2, <2>4 DEF RefusedNow
    <3> QED
      BY <1>2, <2>1, <2>2, <2>3, <2>4, <3>1
  <2>5. CASE ~(i \in drain[r].rows /\ queue[i].product \in drain[r].failed)
    <3>1. queue'[i].attempts = queue[i].attempts
      BY <1>2, <2>5
    <3> QED
      BY <2>1, <2>2, <2>3, <3>1
  <2> QED
    BY <2>4, <2>5
<1>7. Owed'
  <2> SUFFICES ASSUME NEW p \in Indexed, docs'["new"][p] # version'[p]
               PROVE  \E i \in DOMAIN queue' : Brings(i, p)'
    BY DEF Owed
  <2>1. PICK i \in DOMAIN queue : Brings(i, p)
    BY <1>2 DEF Owed
  <2>2. i \in drain[r].rows => p \in drain[r].failed
    BY <1>2, <2>1 DEF Brings
  <2>3. queue'[i].product = p /\ ~queue'[i].processed
    BY <1>2, <2>1, <2>2 DEF Brings
  <2>4. Brings(i, p)'
    BY <1>1, <1>3, <2>3 DEF Brings
  <2> QED
    BY <1>2, <2>4
<1>8. Overtaken'
  BY <1>1, <1>3 DEF Overtaken
<1> QED
  BY <1>4, <1>5, <1>6, <1>7, <1>8

\* A worker that fails lets go of its rows.
LEMMA FaultCatchesUp ==
    ASSUME Index!IndexAssumption, OneWorker, CaughtInv, NEW r \in Replicas,
           Index!DrainFails(r) \/ Index!Crash(r)
    PROVE  CatchesUp'
<1> USE DEF CaughtInv, CatchesUp, Index!catalogue
<1>1. /\ drain \in [Replicas -> Drains] /\ Replicas = {r}
      /\ build \in [Index!Builders -> Builds]
  BY DEF CopiesHeld, OneWorker
<1>2. /\ drain' = [drain EXCEPT ![r] = Index!NoDrain]
      /\ faults' = faults + 1
      /\ UNCHANGED <<version, queue, indices, docs, alias>>
  BY DEF Index!DrainFails, Index!Crash
<1>3. drain'[r].at = "idle" /\ drain'[r].rows = {}
  BY <1>1, <1>2 DEF Index!NoDrain
<1>4. NoBuild'
  <2>1. build' = build \/ build' = [build EXCEPT ![r] = Index!Rest("down")]
    BY DEF Index!DrainFails, Index!Crash
  <2>2. Index!Rest("down").at = "down"
    BY DEF Index!Rest
  <2> QED
    BY <1>1, <1>2, <2>1, <2>2 DEF NoBuild
<1>5. BatchTaken'
  BY <1>1, <1>3 DEF BatchTaken
<1>6. AttemptsSpent'
  <2> SUFFICES ASSUME NEW i \in DOMAIN queue
               PROVE  queue[i].attempts + (IF RefusedNow(i)' THEN 1 ELSE 0)
                          <= faults'
    BY <1>2 DEF AttemptsSpent
  <2>1. ~RefusedNow(i)'
    BY <1>1, <1>3 DEF RefusedNow
  <2>2. queue[i].attempts \in Nat /\ faults \in Nat
    <3>1. queue[i] \in Entries
      BY DEF CopiesHeld
    <3> QED
      BY <3>1 DEF Entries, CopiesHeld, Index!IndexAssumption
  <2> QED
    BY <1>2, <2>1, <2>2 DEF AttemptsSpent
<1>7. Owed'
  BY <1>1, <1>2, <1>3 DEF Owed, Brings
<1>8. Overtaken'
  BY <1>1, <1>3 DEF Overtaken
<1> QED
  BY <1>4, <1>5, <1>6, <1>7, <1>8

\* Nothing but a boot that finds the alias in place.
LEMMA BootCatchesUp ==
    ASSUME Index!IndexAssumption, OneWorker, CaughtInv,
           NEW b \in Index!Builders,
           Index!Reindex(b) \/ Index!BuildFails(b) \/ Index!Ensure(b)
    PROVE  CatchesUp'
<1> USE DEF CaughtInv, CatchesUp, Index!catalogue
<1>1. /\ build[b].at \in {"down", "up"} /\ alias = "new"
      /\ b \notin Admins
      /\ build \in [Index!Builders -> Builds]
  BY DEF NoBuild, OneWorker, CopiesHeld
<1>2. Index!Boot(b)
  BY <1>1
  DEF Index!Reindex, Index!BuildFails, Index!Ensure, Index!ReadPage,
      Index!WritePage, Index!AdminReindex, Index!AdminDone, Index!Create,
      Index!SwapAlias, Index!DeletePrevious
<1>3. /\ build' = [build EXCEPT ![b] = Index!Rest("up")]
      /\ UNCHANGED <<version, queue, indices, docs, alias, drain, faults>>
  BY <1>1, <1>2 DEF Index!Boot
<1>4. NoBuild'
  <2>1. Index!Rest("up").at = "up"
    BY DEF Index!Rest
  <2> QED
    BY <1>1, <1>3, <2>1 DEF NoBuild
<1>5. \A i : RefusedNow(i)' <=> RefusedNow(i)
  BY <1>3 DEF RefusedNow
<1>6. BatchTaken' /\ AttemptsSpent'
  BY <1>3, <1>5 DEF BatchTaken, AttemptsSpent
<1>7. Owed' /\ Overtaken'
  BY <1>3 DEF Owed, Overtaken, Brings, Index!ProductsOf
<1> QED
  BY <1>4, <1>6, <1>7

\* Whatever happens, every difference is still to be brought.
LEMMA CaughtStep ==
    ASSUME Index!IndexAssumption, OneWorker, CaughtInv,
           [Index!Next]_(Index!vars)
    PROVE  CaughtInv'
<1>1. CopiesHeld'
  BY HeldStep DEF CaughtInv
<1>2. CatchesUp'
  <2>1. CASE UNCHANGED Index!vars
    <3>1. \A i : RefusedNow(i)' <=> RefusedNow(i)
      BY <2>1 DEF Index!vars, RefusedNow
    <3>2. NoBuild' /\ BatchTaken' /\ AttemptsSpent'
      BY <2>1, <3>1
      DEF Index!vars, CaughtInv, CatchesUp, NoBuild, BatchTaken, AttemptsSpent
    <3>3. Owed' /\ Overtaken'
      BY <2>1
      DEF Index!vars, CaughtInv, CatchesUp, Owed, Overtaken, Brings,
          Index!ProductsOf
    <3> QED
      BY <3>2, <3>3 DEF CatchesUp
  <2>2. ASSUME NEW p \in Indexed, Index!Upsert(p) \/ Index!HardDelete(p)
        PROVE  CatchesUp'
    BY <2>2, CatalogueCatchesUp
  <2>3. ASSUME NEW b \in Index!Builders,
               Index!Reindex(b) \/ Index!BuildFails(b)
        PROVE  CatchesUp'
    BY <2>3, BootCatchesUp
  <2>4. ASSUME NEW r \in Replicas,
               \/ Index!Drain(r) \/ Index!Ensure(r)
               \/ Index!DrainFails(r) \/ Index!Crash(r)
        PROVE  CatchesUp'
    <3>1. r \in Index!Builders
      BY DEF Index!Builders
    <3> QED
      BY <2>4, <3>1, SelectCatchesUp, BulkCatchesUp, MarkCatchesUp,
         FaultCatchesUp, BootCatchesUp
      DEF Index!Drain
  <2> QED
    BY <2>1, <2>2, <2>3, <2>4 DEF Index!Next
<1> QED
  BY <1>1, <1>2 DEF CaughtInv

\* With no row pending there is no difference.
LEMMA CaughtHolds ==
    ASSUME Index!IndexAssumption, OneWorker, CaughtInv
    PROVE  Index!CaughtUp
<1> USE DEF CaughtInv, CatchesUp
<1> SUFFICES ASSUME Index!Quiet PROVE Index!Matches
  BY DEF Index!CaughtUp
<1>1. /\ alias = "new"
      /\ version \in Index!Documents /\ docs["new"] \in Index!Documents
  BY DEF CopiesHeld, NoBuild
<1>2. ASSUME NEW p \in Indexed, docs["new"][p] # version[p]
      PROVE  FALSE
  <2>1. PICK i \in DOMAIN queue : Brings(i, p)
    BY <1>2 DEF Owed
  <2>2. queue[i].attempts \in Nat /\ faults \in Nat /\ faults <= MaxFaults
    <3>1. queue[i] \in Entries
      BY DEF CopiesHeld
    <3> QED
      BY <3>1 DEF Entries, CopiesHeld, Index!IndexAssumption
  <2>3. queue[i].attempts <= faults
    BY <2>2 DEF AttemptsSpent
  <2>4. queue[i].attempts < MAX_ATTEMPTS
    BY <2>2, <2>3 DEF OneWorker, Index!IndexAssumption
  <2> QED
    BY <2>1, <2>4 DEF Index!Quiet, Index!Pending, Brings
<1>3. docs["new"] = version
  BY <1>1, <1>2 DEF Index!Documents
<1> QED
  BY <1>1, <1>3 DEF Index!Matches

\* "The index catches up": with one worker, an alias that is in place and fewer
\* failures than a row has attempts, a quiet index is the catalogue, whatever
\* was changed while its documents were on their way.
THEOREM AlwaysCatchesUp ==
    ASSUME Index!IndexAssumption, OneWorker
    PROVE  Index!Spec => []Index!CaughtUp
<1>1. Index!Init => CaughtInv
  BY CaughtInit
<1>2. CaughtInv /\ [Index!Next]_(Index!vars) => CaughtInv'
  BY CaughtStep
<1>3. CaughtInv => Index!CaughtUp
  BY CaughtHolds
<1> QED
  BY <1>1, <1>2, <1>3, PTL DEF Index!Spec

-----------------------------------------------------------------------------
(* The cart of a user (Cart) *)

\* The library's operators are the same there and here.
LEMMA CartLibrary == \A S : Cart!Cardinality(S) = Cardinality(S)
BY DEF Cart!Cardinality, Cardinality, Cart!IsFiniteSet, IsFiniteSet

\* What is stored, and what the requests have read of it, are carts within the
\* limits; a quantity that is asked for is one that a line may have.
CartsTyped ==
    /\ cart \in Cart!Carts
    /\ Cardinality(Cart!Lines(cart)) <= MAX_LINE_ITEMS
    /\ available \in [Products -> 0..Stock] /\ active \subseteq Products
    /\ shown.stored \in Cart!Carts /\ shown.items \in Cart!Carts
    /\ request \in [Requests -> [
           at : {"idle", "sent", "looked", "read", "written", "ok", "failed"},
           kind : {"add", "set", "remove", "clear", "merge", "fetch"},
           product : Products, quantity : 0..MAX_QUANTITY_PER_ITEM,
           items : Cart!Carts, raw : Cart!Carts,
           found : [sold : BOOLEAN, available : 0..Stock]]]
    /\ \A r \in Requests :
           /\ Cardinality(Cart!Lines(request[r].raw)) <= MAX_LINE_ITEMS
           /\ request[r].kind = "set" /\ request[r].at = "looked" =>
                  request[r].raw[request[r].product] > 0

LEMMA LeastNumber ==
    ASSUME NEW T, T \subseteq Nat, T # {}
    PROVE  \E n \in T : \A m \in T : n <= m
<1> SUFFICES ASSUME \A n \in T : \E m \in T : m < n
             PROVE  FALSE
  OBVIOUS
<1>1. Nat \subseteq Nat \ T
  BY AllNumbers
<1> QED
  BY <1>1

LEMMA SmallerOfTwo ==
    ASSUME NEW m \in Nat, NEW n \in Nat
    PROVE  Cart!Min({m, n}) = IF m <= n THEN m ELSE n
<1> DEFINE IsMin(x) == x \in {m, n} /\ \A y \in {m, n} : x =< y
<1>1. IsMin(IF m <= n THEN m ELSE n)
  OBVIOUS
<1>2. \A x : IsMin(x) => x = IF m <= n THEN m ELSE n
  OBVIOUS
<1>3. Cart!Min({m, n}) = CHOOSE x : IsMin(x)
  BY DEF Cart!Min
<1> HIDE DEF IsMin
<1>4. IsMin(CHOOSE x : IsMin(x))
  BY <1>1
<1> QED
  BY <1>2, <1>3, <1>4

LEMMA LargerOfTwo ==
    ASSUME NEW m \in Nat, NEW n \in Nat
    PROVE  Cart!Max({m, n}) = IF m >= n THEN m ELSE n
<1> DEFINE IsMax(x) == x \in {m, n} /\ \A y \in {m, n} : x >= y
<1>1. IsMax(IF m >= n THEN m ELSE n)
  OBVIOUS
<1>2. \A x : IsMax(x) => x = IF m >= n THEN m ELSE n
  OBVIOUS
<1>3. Cart!Max({m, n}) = CHOOSE x : IsMax(x)
  BY DEF Cart!Max
<1> HIDE DEF IsMax
<1>4. IsMax(CHOOSE x : IsMax(x))
  BY <1>1
<1> QED
  BY <1>2, <1>3, <1>4

\* A merged line takes the larger quantity, which is within the limit.
LEMMA MergedLine ==
    ASSUME NEW m \in 0..MAX_QUANTITY_PER_ITEM,
           NEW n \in 0..MAX_QUANTITY_PER_ITEM, MAX_QUANTITY_PER_ITEM \in Nat
    PROVE  Cart!Larger(m, n) = IF m >= n THEN m ELSE n
BY SmallerOfTwo, LargerOfTwo, m \in Nat, n \in Nat DEF Cart!Larger

\* As many of the guest's lines as there is room for, in their order.
FirstOf(N, nth, room) ==
    {p \in N : Cardinality({s \in N : nth[s] < nth[p]}) < room}

LEMMA MergeLets ==
    ASSUME NEW c, NEW guest, NEW nth
    PROVE  Cart!MergeInto(c, guest, nth) = [p \in Products |->
               IF \/ p \in Cart!Lines(c) \cap Cart!Lines(guest)
                  \/ p \in FirstOf(Cart!Lines(guest) \ Cart!Lines(c), nth,
                               MAX_LINE_ITEMS - Cardinality(Cart!Lines(c)))
               THEN Cart!Larger(c[p], guest[p]) ELSE c[p]]
<1> DEFINE N == Cart!Lines(guest) \ Cart!Lines(c)
           room == MAX_LINE_ITEMS - Cardinality(Cart!Lines(c))
           new == {p \in N : Cardinality({s \in N : nth[s] < nth[p]})
                                 < room}
<1>1. Cart!MergeInto(c, guest, nth) = [p \in Products |->
          IF p \in Cart!Lines(c) \cap Cart!Lines(guest) \/ p \in new
          THEN Cart!Larger(c[p], guest[p]) ELSE c[p]]
  BY DEF Cart!MergeInto, Cart!Cardinality, Cardinality, Cart!IsFiniteSet,
         IsFiniteSet
<1>2. FirstOf(N, nth, room) = new
  BY DEF FirstOf
<1> HIDE DEF new
<1> QED
  BY <1>1, <1>2

\* They are no more than there is room for, and no fewer unless all are in.
LEMMA FirstOnes ==
    ASSUME NEW N, IsFiniteSet(N), NEW nth, NEW room \in Int,
           \A p \in N : nth[p] \in Nat,
           \A p, s \in N : p # s => nth[p] # nth[s]
    PROVE  LET new == FirstOf(N, nth, room)
           IN  /\ IsFiniteSet(new)
               /\ room >= 0 => Cardinality(new) <= room
               /\ new # N => Cardinality(new) >= room
<1> DEFINE before(p) == {s \in N : nth[s] < nth[p]}
           new == {p \in N : Cardinality(before(p)) < room}
<1>1. IsFiniteSet(new) /\ Cardinality(new) \in Nat
  BY FS_Subset, FS_CardinalityType
<1>2. \A p \in N : IsFiniteSet(before(p)) /\ Cardinality(before(p)) \in Nat
  BY FS_Subset, FS_CardinalityType
<1>4. ASSUME new # N
      PROVE  Cardinality(new) >= room
  <2> DEFINE left == {nth[p] : p \in N \ new}
  <2>1. left \in SUBSET Nat /\ left # {}
    BY <1>4
  <2>2. PICK n \in left : \A m \in left : n <= m
    BY <2>1, LeastNumber
  <2>3. PICK q \in N \ new : n = nth[q]
    BY <2>2
  <2>4. before(q) \subseteq new
    <3> SUFFICES ASSUME NEW s \in N, nth[s] < nth[q], s \notin new
                 PROVE  FALSE
      OBVIOUS
    <3>1. nth[s] \in left
      OBVIOUS
    <3>2. nth[q] <= nth[s]
      BY <2>2, <2>3, <3>1
    <3> QED
      BY <3>2
  <2>5. Cardinality(before(q)) <= Cardinality(new)
    BY <1>1, <2>4, FS_Subset
  <2>6. ~(Cardinality(before(q)) < room)
    BY <2>3
  <2>7. Cardinality(before(q)) \in Nat
    BY <1>2, <2>3
  <2> QED
    BY <1>1, <2>5, <2>6, <2>7
<1>5. ASSUME room >= 0
      PROVE  Cardinality(new) <= room
  <2>2. CASE Cardinality(new) > room
    <3> DEFINE rank == [p \in new |-> Cardinality(before(p))]
    <3>1. rank \in [new -> 0..(room - 1)]
      BY <1>2
    <3>2. IsFiniteSet(0..(room - 1)) /\ Cardinality(0..(room - 1)) = room
      BY <1>5, FS_Interval
    <3>3. \E p \in new, s \in new : p # s /\ rank[p] = rank[s]
      <4> HIDE DEF rank, new
      <4> QED
        BY <1>1, <1>5, <2>2, <3>1, <3>2, FS_PigeonHole
    <3>6. PICK p \in new, s \in new : p # s /\ rank[p] = rank[s]
      BY <3>3
    <3>4. \A a, b \in N : nth[a] < nth[b] =>
              Cardinality(before(a)) # Cardinality(before(b))
      <4> SUFFICES ASSUME NEW a \in N, NEW b \in N, nth[a] < nth[b]
                   PROVE  Cardinality(before(a)) # Cardinality(before(b))
        OBVIOUS
      <4>1. before(a) \subseteq before(b) /\ a \in before(b) \ before(a)
        OBVIOUS
      <4> QED
        BY <1>2, <4>1, FS_Subset
    <3>5. nth[p] < nth[s] \/ nth[s] < nth[p]
      BY <3>6
    <3> QED
      BY <3>4, <3>5, <3>6
  <2> QED
    BY <1>1, <1>5, <2>2
<1> QED
  BY <1>1, <1>4, <1>5 DEF FirstOf

\* What a merge leaves: a cart within the limits, that has lost nothing and on
\* which the same merge changes nothing.
LEMMA Merged ==
    ASSUME Cart!CartAssumption, IsFiniteSet(Products),
           NEW c \in Cart!Carts, NEW guest \in Cart!Carts,
           NEW nth \in Cart!Orders
    PROVE  LET once == Cart!MergeInto(c, guest, nth) IN
           /\ once \in Cart!Carts
           /\ Cardinality(Cart!Lines(c)) <= MAX_LINE_ITEMS =>
                  Cardinality(Cart!Lines(once)) <= MAX_LINE_ITEMS
           /\ \A p \in Products : once[p] >= c[p]
           /\ Cart!MergeInto(once, guest, nth) = once
<1> DEFINE once == Cart!MergeInto(c, guest, nth)
           N == Cart!Lines(guest) \ Cart!Lines(c)
           room == MAX_LINE_ITEMS - Cardinality(Cart!Lines(c))
           new == FirstOf(N, nth, room)
           both == Cart!Lines(c) \cap Cart!Lines(guest)
<1>1. /\ MAX_LINE_ITEMS \in Nat /\ MAX_QUANTITY_PER_ITEM \in Nat
      /\ \A p \in Products : /\ c[p] \in 0..MAX_QUANTITY_PER_ITEM
                             /\ guest[p] \in 0..MAX_QUANTITY_PER_ITEM
  BY DEF Cart!CartAssumption, Cart!Carts
<1>2. /\ Cart!Lines(c) \subseteq Products
      /\ Cart!Lines(guest) \subseteq Products
      /\ IsFiniteSet(Cart!Lines(c)) /\ IsFiniteSet(N)
  BY FS_Subset DEF Cart!Lines
<1>3. Cardinality(Cart!Lines(c)) \in Nat /\ room \in Int
  BY <1>1, <1>2, FS_CardinalityType
<1>4. \A S \in SUBSET Products : (\A p \in S : nth[p] \in Nat) /\
          (\A p, s \in S : p # s => nth[p] # nth[s])
  <2>1. Cardinality(Products) \in Nat
    BY FS_CardinalityType
  <2> QED
    BY <2>1 DEF Cart!Orders
<1>5. /\ IsFiniteSet(new) /\ Cardinality(new) \in Nat
      /\ room >= 0 => Cardinality(new) <= room
      /\ new # N => Cardinality(new) >= room
  <2>1. N \in SUBSET Products
    BY <1>2
  <2>2. /\ \A p \in N : nth[p] \in Nat
        /\ \A p, s \in N : p # s => nth[p] # nth[s]
    BY <1>4, <2>1
  <2> HIDE DEF N, room
  <2>3. /\ IsFiniteSet(new)
        /\ room >= 0 => Cardinality(new) <= room
        /\ new # N => Cardinality(new) >= room
    BY <1>2, <1>3, <2>2, FirstOnes
  <2> QED
    BY <2>3, FS_CardinalityType
<1>6. once = [p \in Products |-> IF p \in both \/ p \in new
                                 THEN Cart!Larger(c[p], guest[p]) ELSE c[p]]
  BY MergeLets
<1> HIDE DEF once
<1>7. \A p \in Products :
          once[p] = IF (p \in both \/ p \in new) /\ c[p] < guest[p]
                    THEN guest[p] ELSE c[p]
  <2> SUFFICES ASSUME NEW p \in Products
               PROVE  once[p] = IF (p \in both \/ p \in new) /\ c[p] < guest[p]
                                THEN guest[p] ELSE c[p]
    OBVIOUS
  <2>1. Cart!Larger(c[p], guest[p]) =
            IF c[p] >= guest[p] THEN c[p] ELSE guest[p]
    BY <1>1, MergedLine
  <2> HIDE DEF new, both
  <2>2. once[p] = IF p \in both \/ p \in new
                  THEN Cart!Larger(c[p], guest[p]) ELSE c[p]
    BY <1>6
  <2> QED
    BY <1>1, <2>1, <2>2
<1>8. once \in Cart!Carts
  <2> HIDE DEF new, both
  <2>1. once \in [Products -> 0..MAX_QUANTITY_PER_ITEM]
    <3>1. \A p \in Products : once[p] \in 0..MAX_QUANTITY_PER_ITEM
      BY <1>1, <1>7
    <3> QED
      BY <1>6, <3>1
  <2> QED
    BY <2>1 DEF Cart!Carts
<1>9. \A p \in Products : once[p] >= c[p]
  <2> HIDE DEF new, both
  <2> QED
    BY <1>1, <1>7
<1>10. new \subseteq N
  BY DEF FirstOf
<1> HIDE DEF new
<1>11. Cart!Lines(once) = Cart!Lines(c) \cup new
  BY <1>1, <1>2, <1>7, <1>10 DEF Cart!Lines
<1>12. Cardinality(Cart!Lines(once)) =
           Cardinality(Cart!Lines(c)) + Cardinality(new)
  <2>1. Cart!Lines(c) \cap new = {}
    BY <1>10
  <2> QED
    BY <1>2, <1>3, <1>5, <1>11, <2>1, FS_Union, FS_EmptySet
<1>13. Cardinality(Cart!Lines(c)) <= MAX_LINE_ITEMS =>
           Cardinality(Cart!Lines(once)) <= MAX_LINE_ITEMS
  BY <1>1, <1>3, <1>5, <1>12
<1>14. Cart!MergeInto(once, guest, nth) = once
  <2> DEFINE N2 == Cart!Lines(guest) \ Cart!Lines(once)
             room2 == MAX_LINE_ITEMS - Cardinality(Cart!Lines(once))
             new2 == FirstOf(N2, nth, room2)
             both2 == Cart!Lines(once) \cap Cart!Lines(guest)
  <2>1. new2 = {}
    <3>1. CASE new = N
      BY <1>11, <3>1 DEF FirstOf
    <3>2. CASE new # N
      <4>1. room2 <= 0 /\ room2 \in Int
        BY <1>1, <1>3, <1>5, <1>12, <3>2
      <4>2. IsFiniteSet(N2)
        BY <1>2, <1>11, FS_Subset
      <4>3. \A p \in N2 : Cardinality({s \in N2 : nth[s] < nth[p]}) \in Nat
        BY <4>2, FS_Subset, FS_CardinalityType
      <4> HIDE DEF N2, room2
      <4> QED
        BY <4>1, <4>3 DEF FirstOf
    <3> QED
      BY <3>1, <3>2
  <2>2. Cart!MergeInto(once, guest, nth) =
            [p \in Products |-> IF p \in both2 \/ p \in new2
                THEN Cart!Larger(once[p], guest[p]) ELSE once[p]]
    BY MergeLets
  <2> HIDE DEF new2
  <2>3. ASSUME NEW p \in both2
        PROVE  Cart!Larger(once[p], guest[p]) = once[p]
    <3>1. p \in Products /\ once[p] \in 0..MAX_QUANTITY_PER_ITEM
      BY <1>2, <1>8 DEF Cart!Carts
    <3>2. p \in both \/ p \in new
      BY <1>11
    <3>3. once[p] >= guest[p]
      BY <1>1, <1>7, <3>1, <3>2
    <3> QED
      BY <1>1, <3>1, <3>3, MergedLine
  <2>4. \A p \in Products : (IF p \in both2 \/ p \in new2
                THEN Cart!Larger(once[p], guest[p]) ELSE once[p]) = once[p]
    BY <2>1, <2>3
  <2>5. once = [p \in Products |-> once[p]]
    BY <1>8 DEF Cart!Carts
  <2> HIDE DEF both2
  <2> QED
    BY <2>2, <2>4, <2>5
<1> QED
  BY <1>8, <1>9, <1>13, <1>14 DEF once

\* A cart without a line has none, and one line more or less is one more or
\* less.
LEMMA LinesOf ==
    ASSUME Cart!CartAssumption, IsFiniteSet(Products)
    PROVE  /\ Cart!EmptyCart \in Cart!Carts
           /\ Cardinality(Cart!Lines(Cart!EmptyCart)) = 0
           /\ \A c \in Cart!Carts, p \in Products,
                 n \in 0..MAX_QUANTITY_PER_ITEM :
                  /\ [c EXCEPT ![p] = n] \in Cart!Carts
                  /\ Cardinality(Cart!Lines(c)) \in Nat
                  /\ Cardinality(Cart!Lines([c EXCEPT ![p] = n])) <=
                         IF c[p] > 0 \/ n = 0
                         THEN Cardinality(Cart!Lines(c))
                         ELSE Cardinality(Cart!Lines(c)) + 1
<1>1. Cart!EmptyCart \in Cart!Carts /\ Cart!Lines(Cart!EmptyCart) = {}
  BY DEF Cart!EmptyCart, Cart!Carts, Cart!Lines, Cart!CartAssumption
<1>2. ASSUME NEW c \in Cart!Carts, NEW p \in Products,
             NEW n \in 0..MAX_QUANTITY_PER_ITEM
      PROVE  /\ [c EXCEPT ![p] = n] \in Cart!Carts
             /\ Cardinality(Cart!Lines(c)) \in Nat
             /\ Cardinality(Cart!Lines([c EXCEPT ![p] = n])) <=
                    IF c[p] > 0 \/ n = 0
                    THEN Cardinality(Cart!Lines(c))
                    ELSE Cardinality(Cart!Lines(c)) + 1
  <2> DEFINE d == [c EXCEPT ![p] = n]
             with == IF c[p] > 0 \/ n = 0 THEN Cart!Lines(c)
                     ELSE Cart!Lines(c) \cup {p}
  <2>1. d \in Cart!Carts
    BY DEF Cart!Carts
  <2>2. IsFiniteSet(Cart!Lines(c)) /\ Cardinality(Cart!Lines(c)) \in Nat
    BY FS_Subset, FS_CardinalityType DEF Cart!Lines
  <2>3. Cart!Lines(d) \subseteq with
    BY DEF Cart!Lines, Cart!Carts
  <2>4. /\ IsFiniteSet(with)
        /\ Cardinality(with) <= IF c[p] > 0 \/ n = 0
                                THEN Cardinality(Cart!Lines(c))
                                ELSE Cardinality(Cart!Lines(c)) + 1
    <3>1. CASE c[p] > 0 \/ n = 0
      BY <2>2, <3>1
    <3>2. CASE ~(c[p] > 0 \/ n = 0)
      <4>1. p \notin Cart!Lines(c)
        BY <3>2 DEF Cart!Lines
      <4>2. with = Cart!Lines(c) \cup {p}
        BY <3>2
      <4>3. /\ IsFiniteSet(Cart!Lines(c) \cup {p})
            /\ Cardinality(Cart!Lines(c) \cup {p}) =
                   Cardinality(Cart!Lines(c)) + 1
        BY <2>2, <4>1, FS_AddElement
      <4> HIDE DEF with
      <4> QED
        BY <2>2, <3>2, <4>2, <4>3
    <3> QED
      BY <3>1, <3>2
  <2>5. Cardinality(Cart!Lines(d)) <= Cardinality(with)
    BY <2>3, <2>4, FS_Subset
  <2>6. Cardinality(Cart!Lines(d)) \in Nat /\ Cardinality(with) \in Nat
    BY <2>3, <2>4, FS_Subset, FS_CardinalityType
  <2> HIDE DEF with
  <2> QED
    BY <2>1, <2>2, <2>4, <2>5, <2>6
<1> QED
  BY <1>1, <1>2, FS_EmptySet

LEMMA ViewIsACart ==
    ASSUME Cart!CartAssumption, NEW c \in Cart!Carts,
           available \in [Products -> 0..Stock]
    PROVE  Cart!View(c) \in Cart!Carts
<1> SUFFICES ASSUME NEW p \in Products
             PROVE  Cart!Min({c[p], available[p]}) \in 0..MAX_QUANTITY_PER_ITEM
  BY DEF Cart!View, Cart!Carts, Cart!CartAssumption
<1>1. c[p] \in 0..MAX_QUANTITY_PER_ITEM /\ available[p] \in 0..Stock
  BY DEF Cart!Carts
<1>2. c[p] \in Nat /\ available[p] \in Nat
  BY <1>1 DEF Cart!CartAssumption
<1> QED
  BY <1>1, <1>2, SmallerOfTwo DEF Cart!CartAssumption

LEMMA CartInit ==
    ASSUME Cart!CartAssumption, IsFiniteSet(Products), Products # {}, Cart!Init
    PROVE  CartsTyped
<1>1. /\ cart \in Cart!Carts
      /\ Cardinality(Cart!Lines(cart)) <= MAX_LINE_ITEMS
      /\ available \in [Products -> 0..Stock] /\ active \subseteq Products
  BY CartLibrary DEF Cart!Init, Cart!CartAssumption
<1>2. Cart!EmptyCart \in Cart!Carts /\
          Cardinality(Cart!Lines(Cart!EmptyCart)) <= MAX_LINE_ITEMS
  BY LinesOf DEF Cart!CartAssumption
<1>3. Cart!NoProduct \in Products
  BY DEF Cart!NoProduct
<1>4. Cart!View(cart) \in Cart!Carts
  BY <1>1, ViewIsACart
<1> QED
  BY <1>1, <1>2, <1>3, <1>4
  DEF Cart!Init, CartsTyped, Cart!Idle, Cart!CartAssumption

\* What a request becomes and what it writes, if it is of the right kind, is
\* all that matters of a step.
Typed(q) ==
    /\ q \in [
           at : {"idle", "sent", "looked", "read", "written", "ok", "failed"},
           kind : {"add", "set", "remove", "clear", "merge", "fetch"},
           product : Products, quantity : 0..MAX_QUANTITY_PER_ITEM,
           items : Cart!Carts, raw : Cart!Carts,
           found : [sold : BOOLEAN, available : 0..Stock]]
    /\ Cardinality(Cart!Lines(q.raw)) <= MAX_LINE_ITEMS
    /\ q.kind = "set" /\ q.at = "looked" => q.raw[q.product] > 0

LEMMA OneRequest ==
    ASSUME CartsTyped, NEW r \in Requests, NEW q, Typed(q),
           request' = [request EXCEPT ![r] = q],
           cart' \in Cart!Carts,
           Cardinality(Cart!Lines(cart')) <= MAX_LINE_ITEMS,
           available' = available, active' = active,
           shown'.stored \in Cart!Carts, shown'.items \in Cart!Carts
    PROVE  CartsTyped'
<1>1. \A s \in Requests : Typed(request'[s])
  BY DEF CartsTyped, Typed
<1> QED
  BY <1>1 DEF CartsTyped, Typed, Cart!Carts, Cart!Lines

LEMMA IdleTyped ==
    ASSUME Cart!CartAssumption, IsFiniteSet(Products), Products # {}
    PROVE  Typed(Cart!Idle) /\ Typed([Cart!Idle EXCEPT !.at = "sent"])
<1>1. Cart!EmptyCart \in Cart!Carts /\
          Cardinality(Cart!Lines(Cart!EmptyCart)) <= MAX_LINE_ITEMS
  BY LinesOf DEF Cart!CartAssumption
<1>2. Cart!NoProduct \in Products
  BY DEF Cart!NoProduct
<1>3. 0 \in 0..Stock /\ 0 \in 0..MAX_QUANTITY_PER_ITEM
  BY DEF Cart!CartAssumption
<1>4. Typed(Cart!Idle)
  BY <1>1, <1>2, <1>3 DEF Typed, Cart!Idle
<1> QED
  BY <1>4 DEF Typed

LEMMA SendTyped ==
    ASSUME CartsTyped, Cart!CartAssumption, IsFiniteSet(Products),
           Products # {}, NEW r \in Requests, NEW k \in Kinds,
           NEW p \in Products, NEW guest \in Cart!Carts,
           NEW n \in 0..MAX_QUANTITY_PER_ITEM, Cart!Send(r, k, p, n, guest)
    PROVE  CartsTyped'
<1> DEFINE q == [Cart!Idle EXCEPT !.at = "sent", !.kind = k, !.product = p,
                     !.quantity = n, !.items = guest]
<1>1. Cart!EmptyCart \in Cart!Carts /\
          Cardinality(Cart!Lines(Cart!EmptyCart)) <= MAX_LINE_ITEMS
  BY LinesOf DEF Cart!CartAssumption
<1>2. Typed(q)
  <2>1. k \in {"add", "set", "remove", "clear", "merge", "fetch"}
    BY DEF Cart!CartAssumption
  <2>2. Typed(Cart!Idle)
    BY IdleTyped
  <2>3. q \in [
           at : {"idle", "sent", "looked", "read", "written", "ok", "failed"},
           kind : {"add", "set", "remove", "clear", "merge", "fetch"},
           product : Products, quantity : 0..MAX_QUANTITY_PER_ITEM,
           items : Cart!Carts, raw : Cart!Carts,
           found : [sold : BOOLEAN, available : 0..Stock]]
    BY <2>1, <2>2 DEF Typed
  <2>4. q.raw = Cart!Idle.raw /\ q.at = "sent"
    BY <2>2 DEF Typed
  <2> HIDE DEF q
  <2> QED
    BY <2>2, <2>3, <2>4 DEF Typed
<1>3. request' = [request EXCEPT ![r] = q]
  BY DEF Cart!Send
<1> HIDE DEF q
<1> QED
  BY <1>2, <1>3, OneRequest DEF Cart!Send, Cart!catalogue, CartsTyped

LEMMA ReadTyped ==
    ASSUME CartsTyped, Cart!CartAssumption, IsFiniteSet(Products),
           Products # {}, NEW r \in Requests,
           \/ Cart!Receive(r) \/ Cart!Lookup(r) \/ Cart!ReadRaw(r)
           \/ Cart!GetCart(r) \/ Cart!ClearCart(r)
    PROVE  CartsTyped'
<1>1. Typed(request[r]) /\ request \in [Requests -> [
           at : {"idle", "sent", "looked", "read", "written", "ok", "failed"},
           kind : {"add", "set", "remove", "clear", "merge", "fetch"},
           product : Products, quantity : 0..MAX_QUANTITY_PER_ITEM,
           items : Cart!Carts, raw : Cart!Carts,
           found : [sold : BOOLEAN, available : 0..Stock]]]
  BY DEF CartsTyped, Typed
<1>2. CASE Cart!Receive(r)
  BY <1>1, <1>2, IdleTyped, OneRequest
  DEF Cart!Receive, Cart!catalogue, CartsTyped, Typed
<1>3. CASE Cart!Lookup(r)
  <2> DEFINE q == [request[r] EXCEPT !.at = "looked", !.found =
                      [sold |-> request[r].product \in active,
                       available |-> available[request[r].product]]]
  <2>1. available[request[r].product] \in 0..Stock
    BY <1>1 DEF CartsTyped, Typed
  <2>2. Typed(q)
    <3> DEFINE f == [sold |-> request[r].product \in active,
                     available |-> available[request[r].product]]
    <3>1. f \in [sold : BOOLEAN, available : 0..Stock]
      BY <2>1
    <3> HIDE DEF f
    <3>2. Typed(request[r])
      BY <1>1
    <3>3. q = [request[r] EXCEPT !.at = "looked", !.found = f]
      BY DEF f
    <3> HIDE DEF q
    <3>4. q \in [
           at : {"idle", "sent", "looked", "read", "written", "ok", "failed"},
           kind : {"add", "set", "remove", "clear", "merge", "fetch"},
           product : Products, quantity : 0..MAX_QUANTITY_PER_ITEM,
           items : Cart!Carts, raw : Cart!Carts,
           found : [sold : BOOLEAN, available : 0..Stock]]
      BY <3>1, <3>2, <3>3 DEF Typed
    <3>5. /\ q.raw = request[r].raw /\ q.kind = request[r].kind
          /\ q.product = request[r].product
      BY <3>2, <3>3 DEF Typed
    <3>6. q.kind = "set" => q.raw[q.product] > 0
      BY <1>3, <3>5 DEF Cart!Lookup, Cart!At
    <3> QED
      BY <3>2, <3>4, <3>5, <3>6 DEF Typed
  <2>3. request' = [request EXCEPT ![r] = q]
    BY <1>1, <1>3 DEF Cart!Lookup
  <2> HIDE DEF q
  <2> QED
    BY <1>3, <2>2, <2>3, OneRequest
    DEF Cart!Lookup, Cart!catalogue, CartsTyped
<1>4. CASE Cart!ReadRaw(r)
  <2> DEFINE q == [request[r] EXCEPT !.at = "read", !.raw = cart]
  <2>2. Typed(q)
    BY <1>1 DEF Typed, CartsTyped
  <2>3. request' = [request EXCEPT ![r] = q]
    BY <1>1, <1>4 DEF Cart!ReadRaw
  <2> HIDE DEF q
  <2> QED
    BY <1>4, <2>2, <2>3, OneRequest
    DEF Cart!ReadRaw, Cart!catalogue, CartsTyped
<1>5. CASE Cart!GetCart(r)
  <2> DEFINE q == [request[r] EXCEPT !.at = "ok", !.raw = cart,
                                     !.items = Cart!View(cart)]
  <2>1. Cart!View(cart) \in Cart!Carts
    BY ViewIsACart DEF CartsTyped
  <2>2. Typed(q)
    BY <1>1, <2>1 DEF Typed, CartsTyped
  <2>3. request' = [request EXCEPT ![r] = q]
    BY <1>1, <1>5 DEF Cart!GetCart
  <2> HIDE DEF q
  <2> QED
    BY <1>5, <2>2, <2>3, OneRequest
    DEF Cart!GetCart, Cart!catalogue, CartsTyped
<1>6. CASE Cart!ClearCart(r)
  <2>1. Cart!EmptyCart \in Cart!Carts /\
            Cardinality(Cart!Lines(Cart!EmptyCart)) <= MAX_LINE_ITEMS
    BY LinesOf DEF Cart!CartAssumption
  <2> QED
    BY <1>6, <2>1, IdleTyped, OneRequest
    DEF Cart!ClearCart, Cart!catalogue, CartsTyped
<1> QED
  BY <1>2, <1>3, <1>4, <1>5, <1>6

\* A handler that writes: a cart within the limits, and its own request goes
\* on to "written"; or it fails.
LEMMA WriteOrFail ==
    ASSUME CartsTyped, NEW r \in Requests, NEW c \in Cart!Carts,
           Cardinality(Cart!Lines(c)) <= MAX_LINE_ITEMS,
           NEW to \in {"written", "failed"}, cart' \in {c, cart},
           request' = [request EXCEPT ![r].at = to],
           UNCHANGED <<Cart!catalogue, shown>>
    PROVE  CartsTyped'
<1> DEFINE q == [request[r] EXCEPT !.at = to]
<1>1. Typed(q) /\ request' = [request EXCEPT ![r] = q]
  BY DEF CartsTyped, Typed
<1> HIDE DEF q
<1> QED
  BY <1>1, OneRequest DEF Cart!catalogue, CartsTyped

LEMMA WriteTyped ==
    ASSUME CartsTyped, Cart!CartAssumption, IsFiniteSet(Products),
           NEW r \in Requests,
           \/ Cart!AddItem(r) \/ Cart!SetItemQuantity(r) \/ Cart!RemoveItem(r)
           \/ Cart!MergeCart(r)
    PROVE  CartsTyped'
<1> DEFINE q == request[r]
           p == q.product
           Legal(c) == c \in Cart!Carts /\
                           Cardinality(Cart!Lines(c)) <= MAX_LINE_ITEMS
<1>1. /\ p \in Products /\ q.quantity \in 0..MAX_QUANTITY_PER_ITEM
      /\ q.items \in Cart!Carts /\ Legal(q.raw) /\ Legal(cart)
      /\ q.found.available \in 0..Stock
      /\ q.raw[p] \in 0..MAX_QUANTITY_PER_ITEM
  BY DEF CartsTyped, Cart!Carts
<1>2. MAX_QUANTITY_PER_ITEM \in Nat /\ MAX_LINE_ITEMS \in Nat /\ Stock \in Nat
  BY DEF Cart!CartAssumption
<1>3. \A c : Cart!WriteRaw(r, c) <=>
          cart' = c /\ request' = [request EXCEPT ![r].at = "written"]
  BY DEF Cart!WriteRaw
<1>4. Cart!Fail(r) <=>
          cart' = cart /\ request' = [request EXCEPT ![r].at = "failed"]
  BY DEF Cart!Fail
<1>5. Legal(Cart!Without(q.raw, p))
  <2>1. 0 \in 0..MAX_QUANTITY_PER_ITEM
    BY <1>2
  <2> QED
    BY <1>1, <1>2, <2>1, LinesOf DEF Cart!Without
<1>6. ASSUME NEW c, Legal(c), Cart!WriteRaw(r, c),
             UNCHANGED <<Cart!catalogue, shown>>
      PROVE  CartsTyped'
  BY <1>3, <1>6, WriteOrFail
<1>7. ASSUME Cart!Fail(r), UNCHANGED <<Cart!catalogue, shown>>
      PROVE  CartsTyped'
  BY <1>1, <1>4, <1>7, WriteOrFail
<1>8. CASE Cart!AddItem(r)
  <2> DEFINE desired == q.raw[p] + q.quantity
             c == [q.raw EXCEPT ![p] = desired]
  <2>1. CASE Cart!Fail(r)
    BY <1>7, <1>8, <2>1 DEF Cart!AddItem
  <2>2. CASE ~Cart!Fail(r)
    <3>1. /\ Cart!WriteRaw(r, c) /\ Cart!LineFits(q)
          /\ desired <= Cart!Min({MAX_QUANTITY_PER_ITEM, q.found.available})
          /\ UNCHANGED <<Cart!catalogue, shown>>
      BY <1>8, <2>2 DEF Cart!AddItem
    <3>2. desired \in 0..MAX_QUANTITY_PER_ITEM
      <4>1. q.found.available \in Nat /\ desired \in Nat
        BY <1>1, <1>2
      <4>2. \A n \in Nat :
                /\ Cart!Min({MAX_QUANTITY_PER_ITEM, n}) <=
                       MAX_QUANTITY_PER_ITEM
                /\ Cart!Min({MAX_QUANTITY_PER_ITEM, n}) \in Nat
        BY <1>2, SmallerOfTwo
      <4>3. /\ Cart!Min({MAX_QUANTITY_PER_ITEM, q.found.available}) <=
                   MAX_QUANTITY_PER_ITEM
            /\ Cart!Min({MAX_QUANTITY_PER_ITEM, q.found.available}) \in Nat
        BY <4>1, <4>2
      <4> HIDE DEF desired, q
      <4> QED
        BY <1>2, <3>1, <4>1, <4>2, <4>3
    <3>3. q.raw[p] > 0 \/ Cardinality(Cart!Lines(q.raw)) < MAX_LINE_ITEMS
      BY <3>1, CartLibrary DEF Cart!LineFits
    <3> HIDE DEF q, p
    <3>4. /\ c \in Cart!Carts /\ Cardinality(Cart!Lines(q.raw)) \in Nat
          /\ Cardinality(Cart!Lines(c)) <=
                 IF q.raw[p] > 0 \/ desired = 0
                 THEN Cardinality(Cart!Lines(q.raw))
                 ELSE Cardinality(Cart!Lines(q.raw)) + 1
      BY <1>1, <3>2, LinesOf
    <3>5. Cardinality(Cart!Lines(c)) \in Nat
      <4>1. 0 \in 0..MAX_QUANTITY_PER_ITEM
        BY <1>2
      <4> QED
        BY <1>1, <3>4, <4>1, LinesOf
    <3>6. Legal(c)
      <4> HIDE DEF c, desired
      <4> QED
        BY <1>1, <1>2, <3>3, <3>4, <3>5
    <3> QED
      BY <1>6, <3>1, <3>6
  <2> QED
    BY <2>1, <2>2
<1>9. CASE Cart!SetItemQuantity(r)
  <2>1. CASE Cart!Fail(r)
    BY <1>7, <1>9, <2>1 DEF Cart!SetItemQuantity
  <2>2. CASE Cart!WriteRaw(r, Cart!Without(q.raw, p))
    BY <1>5, <1>6, <1>9, <2>2 DEF Cart!SetItemQuantity
  <2>3. CASE /\ cart' = Cart!Without(q.raw, p)
             /\ request' = [request EXCEPT ![r].at = "failed"]
    <3>1. UNCHANGED <<Cart!catalogue, shown>>
      BY <1>9 DEF Cart!SetItemQuantity
    <3> QED
      BY <1>5, <2>3, <3>1, WriteOrFail
  <2>4. CASE /\ Cart!WriteRaw(r, [q.raw EXCEPT ![p] = q.quantity])
             /\ q.raw[p] > 0
    <3>1. Legal([q.raw EXCEPT ![p] = q.quantity])
      <4> HIDE DEF q, p
      <4>1. /\ [q.raw EXCEPT ![p] = q.quantity] \in Cart!Carts
            /\ Cardinality(Cart!Lines([q.raw EXCEPT ![p] = q.quantity])) <=
                   Cardinality(Cart!Lines(q.raw))
        BY <1>1, <2>4, LinesOf
      <4>2. \A c \in Cart!Carts : Cardinality(Cart!Lines(c)) \in Nat
        <5>1. 0 \in 0..MAX_QUANTITY_PER_ITEM
          BY <1>2
        <5> QED
          BY <1>1, <5>1, LinesOf
      <4> QED
        BY <1>1, <1>2, <4>1, <4>2
    <3> QED
      BY <1>6, <1>9, <2>4, <3>1 DEF Cart!SetItemQuantity
  <2>5. Cart!At(r, "set", "looked") => q.raw[p] > 0
    BY DEF CartsTyped, Cart!At
  <2> QED
    BY <1>9, <2>1, <2>2, <2>3, <2>4, <2>5 DEF Cart!SetItemQuantity
<1>10. CASE Cart!RemoveItem(r)
  <2>1. CASE Cart!Fail(r)
    BY <1>7, <1>10, <2>1 DEF Cart!RemoveItem
  <2>2. CASE Cart!WriteRaw(r, Cart!Without(q.raw, p))
    BY <1>5, <1>6, <1>10, <2>2 DEF Cart!RemoveItem
  <2> QED
    BY <1>10, <2>1, <2>2 DEF Cart!RemoveItem
<1>11. CASE Cart!MergeCart(r)
  <2>1. PICK nth \in Cart!Orders :
            Cart!WriteRaw(r, Cart!MergeInto(q.raw, q.items, nth))
    BY <1>11 DEF Cart!MergeCart
  <2>2. Legal(Cart!MergeInto(q.raw, q.items, nth))
    BY <1>1, Merged
  <2> QED
    BY <1>6, <1>11, <2>1, <2>2 DEF Cart!MergeCart
<1> QED
  BY <1>8, <1>9, <1>10, <1>11

LEMMA CartStep ==
    ASSUME CartsTyped, Cart!CartAssumption, IsFiniteSet(Products),
           Products # {}, [Cart!Next]_(Cart!vars)
    PROVE  CartsTyped'
<1>1. ASSUME NEW p \in Products, Cart!Sell(p)
      PROVE  CartsTyped'
  BY <1>1 DEF CartsTyped, Cart!Sell, Cart!Carts, Cart!Lines
<1>2. ASSUME NEW r \in Requests, Cart!Handle(r)
      PROVE  CartsTyped'
  BY <1>2, ReadTyped, WriteTyped DEF Cart!Handle
<1>3. CASE UNCHANGED Cart!vars
  BY <1>3 DEF Cart!vars, CartsTyped, Cart!Carts, Cart!Lines
<1> QED
  BY <1>1, <1>2, <1>3, ReadTyped, SendTyped DEF Cart!Next

\* A cart never has more lines or units than the limits of the service allow,
\* whichever requests read, look up and write it at the same time, and two
\* requests that merge the same guest's cart merge it once and lose nothing.
THEOREM CartStaysLegal ==
    ASSUME Cart!CartAssumption, IsFiniteSet(Products), Products # {}
    PROVE  Cart!Spec => [](Cart!TypeOK /\ Cart!MergeIsIdempotent)
<1>1. CartsTyped => Cart!TypeOK
  BY CartLibrary DEF CartsTyped, Cart!TypeOK
<1>2. CartsTyped => Cart!MergeIsIdempotent
  BY Merged DEF CartsTyped, Cart!MergeIsIdempotent
<1> QED
  BY <1>1, <1>2, CartInit, CartStep, PTL DEF Cart!Spec

\* The page offers one kind of change of a line.
OneKind == \E k \in {"set", "remove"} : Kinds \subseteq {k, "fetch"}

\* Of the requests that change a line one is under way, and what it has read is
\* what is stored.
OneChange ==
    /\ \A r \in Requests : request[r].kind \in Kinds \cup {"fetch"}
    /\ \A r \in Requests : /\ request[r].kind # "fetch"
                           /\ request[r].at \in {"read", "looked"}
                           => request[r].raw = cart
    /\ \A r, s \in Requests :
           r # s /\ request[r].at # "idle" /\ request[s].at # "idle" =>
               request[r].kind = "fetch" \/ request[s].kind = "fetch"

LEMMA OneChangeStep ==
    ASSUME CartsTyped, OneKind, OneChange, [Cart!Next]_(Cart!vars)
    PROVE  OneChange'
<1>1. PICK k \in {"set", "remove"} : Kinds \subseteq {k, "fetch"}
  BY DEF OneKind
<1>2. ASSUME NEW r \in Requests, NEW kind \in Kinds, NEW p \in Products,
             NEW guest \in Cart!Carts, NEW n \in 0..MAX_QUANTITY_PER_ITEM,
             Cart!Send(r, kind, p, n, guest)
      PROVE  OneChange'
  <2>1. /\ request[r].at = "idle" /\ cart' = cart
        /\ request'[r].kind = kind /\ request'[r].at = "sent"
        /\ \A s \in Requests \ {r} : request'[s] = request[s]
    BY <1>2 DEF Cart!Send, Cart!Idle, CartsTyped
  <2>2. kind # "fetch" => \A s \in Requests :
            request[s].at # "idle" => request[s].kind = "fetch"
    BY <1>1, <1>2 DEF Cart!Send, Cart!NotPending, OneChange
  <2> QED
    BY <2>1, <2>2 DEF OneChange
<1>3. ASSUME NEW r \in Requests, Cart!Receive(r)
      PROVE  OneChange'
  <2>1. /\ cart' = cart /\ request'[r].kind = "fetch"
        /\ \A s \in Requests \ {r} : request'[s] = request[s]
    BY <1>3 DEF Cart!Receive, Cart!Idle, CartsTyped
  <2> QED
    BY <2>1 DEF OneChange
<1>4. ASSUME NEW r \in Requests, Cart!Handle(r)
      PROVE  OneChange'
  <2>1. request[r].kind \in {k, "fetch"} /\ request[r].at # "idle"
    BY <1>1, <1>4 DEF OneChange, Cart!Handle, Cart!Lookup, Cart!ReadRaw,
        Cart!AddItem, Cart!SetItemQuantity, Cart!RemoveItem, Cart!ClearCart,
        Cart!MergeCart, Cart!GetCart, Cart!At
  <2>2. /\ \A s \in Requests \ {r} : request'[s] = request[s]
        /\ request'[r].kind = request[r].kind
    <3>1. ~Cart!ClearCart(r)
      BY <2>1 DEF Cart!ClearCart, Cart!At
    <3> QED
      BY <1>4, <3>1 DEF Cart!Handle, Cart!Lookup, Cart!ReadRaw, CartsTyped,
          Cart!AddItem, Cart!SetItemQuantity, Cart!RemoveItem, Cart!WriteRaw,
          Cart!Fail, Cart!MergeCart, Cart!GetCart
  <2>3. CASE cart' = cart
    <3>1. request'[r].at \in {"read", "looked"} /\ request[r].kind # "fetch"
              => request'[r].raw = cart
      BY <1>4, <2>1 DEF Cart!Handle, Cart!Lookup, Cart!ReadRaw, CartsTyped,
          Cart!AddItem, Cart!SetItemQuantity, Cart!RemoveItem, Cart!WriteRaw,
          Cart!Fail, Cart!MergeCart, Cart!GetCart, Cart!ClearCart, Cart!At,
          OneChange
    <3> QED
      BY <2>1, <2>2, <2>3, <3>1 DEF OneChange
  <2>4. CASE cart' # cart
    <3>1. /\ request[r].kind # "fetch"
          /\ request'[r].at \in {"written", "failed"}
      BY <1>4, <2>1, <2>4 DEF Cart!Handle, Cart!Lookup, Cart!ReadRaw,
          CartsTyped, Cart!AddItem, Cart!SetItemQuantity, Cart!RemoveItem,
          Cart!WriteRaw, Cart!Fail, Cart!MergeCart, Cart!GetCart,
          Cart!ClearCart, Cart!At
    <3>2. \A s \in Requests \ {r} :
              request[s].at # "idle" => request[s].kind = "fetch"
      BY <2>1, <3>1 DEF OneChange
    <3> QED
      BY <2>1, <2>2, <3>1, <3>2 DEF OneChange
  <2> QED
    BY <2>3, <2>4
<1>5. ASSUME NEW p \in Products, Cart!Sell(p)
      PROVE  OneChange'
  BY <1>5 DEF OneChange, Cart!Sell
<1>6. CASE UNCHANGED Cart!vars
  BY <1>6 DEF OneChange, Cart!vars
<1> QED
  BY <1>2, <1>3, <1>4, <1>5, <1>6 DEF Cart!Next

\* Each handler writes the whole cart as it read it some steps ago: that a
\* change leaves the other lines alone is for the page to see to, whose selects
\* wait for each other.
THEOREM LinesStay ==
    ASSUME Cart!CartAssumption, IsFiniteSet(Products), Products # {}, OneKind
    PROVE  Cart!Spec => [][Cart!OneLineChanges]_(Cart!vars)
<1>1. Cart!Init => OneChange
  BY DEF Cart!Init, Cart!Idle, OneChange
<1>2. ASSUME CartsTyped, OneChange, [Cart!Next]_(Cart!vars),
             NEW r \in Requests,
             request[r].kind \in {"add", "set", "remove"}, Cart!Handle(r),
             NEW p \in Products \ {request[r].product}
      PROVE  cart'[p] = cart[p]
  <2>1. request[r].kind \in {"set", "remove"}
    BY <1>2 DEF OneKind, OneChange
  <2>2. CASE cart' = cart
    BY <2>2
  <2>3. CASE cart' # cart
    <3>1. /\ request[r].at \in {"read", "looked"}
          /\ \E n : cart' = [request[r].raw EXCEPT ![request[r].product] = n]
      BY <1>2, <2>1, <2>3 DEF Cart!Handle, Cart!Lookup, Cart!ReadRaw,
          Cart!AddItem, Cart!SetItemQuantity, Cart!RemoveItem, Cart!WriteRaw,
          Cart!Fail, Cart!MergeCart, Cart!GetCart, Cart!ClearCart, Cart!At,
          Cart!Without
    <3>2. request[r].raw = cart
      BY <1>2, <2>1, <3>1 DEF OneChange
    <3> QED
      BY <1>2, <3>1, <3>2 DEF CartsTyped, Cart!Carts
  <2> QED
    BY <2>2, <2>3
<1>3. CartsTyped /\ OneChange /\ [Cart!Next]_(Cart!vars) =>
          [Cart!OneLineChanges]_(Cart!vars)
  BY <1>2 DEF Cart!OneLineChanges
<1> QED
  BY <1>1, <1>3, CartInit, CartStep, OneChangeStep, PTL DEF Cart!Spec
=============================================================================
