--------------------------- MODULE InventoryProofs ---------------------------
(***************************************************************************)
(* Proofs about Inventory, for any sets of products, reservations and      *)
(* overlapping sweeps, and any bounds.                                     *)
(***************************************************************************)
EXTENDS Inventory, FiniteSetTheorems, TLAPS

-----------------------------------------------------------------------------
(* The shape of the values the operators build. *)

LEMMA QuantitiesAreNat ==
    ASSUME NEW q \in Quantities
    PROVE  q \in [Products -> Nat]
BY BoundsAssumption DEF Quantities

LEMMA NoItemsIsQuantity == NoItems \in Quantities
BY BoundsAssumption DEF NoItems, Quantities

LEMMA PostType ==
    ASSUME ledger \in [Reasons -> [Products -> Int]],
           NEW k \in Reasons, NEW d \in [Products -> Int]
    PROVE  /\ Post(k, d) \in [Reasons -> [Products -> Int]]
           /\ \A j \in Reasons, p \in Products :
                 Post(k, d)[j][p] =
                     IF j = k THEN ledger[j][p] + d[p] ELSE ledger[j][p]
BY DEF Post, Plus

-----------------------------------------------------------------------------
(* Type correctness *)

LEMMA InitTypeOK == Init => TypeOK
BY NoItemsIsQuantity, InitialStockAssumption, BoundsAssumption
   DEF Init, TypeOK, NoItems, Statuses, Quantities

LEMMA ReserveTypeOK ==
    ASSUME TypeOK, NEW r \in Reservations, NEW req \in Requests,
           Reserve(r, req)
    PROVE  TypeOK'
<1>1. req \in Quantities /\ req \in [Products -> Nat]
  BY QuantitiesAreNat DEF Requests
<1>2. available' \in [Products -> Nat]
  <2>1. ASSUME NEW p \in Products
        PROVE  available[p] - req[p] \in Nat
    BY <1>1 DEF Reserve, CanReserve, ItemsOf, TypeOK
  <2> QED
    BY <2>1 DEF Reserve, Minus
<1>3. reserved' \in [Products -> Nat]
  BY <1>1 DEF Reserve, Plus, TypeOK
<1>4. ledger' \in [Reasons -> [Products -> Int]]
  <2>1. Minus(NoItems, req) \in [Products -> Int]
    BY <1>1 DEF Minus, NoItems
  <2> QED
    BY <2>1, PostType DEF Reserve, TypeOK, Reasons
<1>5. /\ status' \in [Reservations -> Statuses]
      /\ items' \in [Reservations -> Quantities]
      /\ overdue' \subseteq Reservations
      /\ enqueued' \subseteq Products
      /\ sweep' \in [Sweeps -> SUBSET Reservations]
  BY <1>1 DEF Reserve, TypeOK, Statuses, ReserveReindex, ItemsOf
<1> QED
  BY <1>2, <1>3, <1>4, <1>5 DEF TypeOK

LEMMA CommitTypeOK ==
    ASSUME TypeOK, NEW r \in Reservations, Commit(r)
    PROVE  TypeOK'
<1>1. items[r] \in [Products -> Nat]
  BY QuantitiesAreNat DEF TypeOK
<1>2. reserved' \in [Products -> Nat]
  BY <1>1 DEF Commit, Minus, TypeOK
<1>3. ledger' \in [Reasons -> [Products -> Int]]
  <2>1. CommitDelta(r) \in [Products -> Int]
    BY DEF CommitDelta, NoItems
  <2> QED
    BY <2>1, PostType DEF Commit, TypeOK, Reasons
<1> QED
  BY <1>2, <1>3 DEF Commit, TypeOK, Statuses

LEMMA FreeTypeOK ==
    ASSUME TypeOK, NEW r \in Reservations, NEW k \in {"released", "expired"},
           Free(r, k), sweep' \in [Sweeps -> SUBSET Reservations]
    PROVE  TypeOK'
<1>1. items[r] \in [Products -> Nat]
  BY QuantitiesAreNat DEF TypeOK
<1>2. available' \in [Products -> Nat]
  BY <1>1 DEF Free, Plus, TypeOK
<1>3. reserved' \in [Products -> Nat]
  <2>1. ASSUME NEW p \in Products
        PROVE  ReservedAfterRelease(r)[p] \in Nat
    BY <1>1 DEF ReservedAfterRelease, TypeOK
  <2> QED
    BY <2>1 DEF Free, ReservedAfterRelease
<1>4. ledger' \in [Reasons -> [Products -> Int]]
  <2>1. items[r] \in [Products -> Int] /\ k \in Reasons
    BY <1>1 DEF Reasons
  <2> QED
    BY <2>1, PostType DEF Free, TypeOK
<1>5. k \in Statuses
  BY DEF Statuses
<1> QED
  BY <1>2, <1>3, <1>4, <1>5 DEF Free, TypeOK, ItemsOf

LEMMA AdjustTypeOK ==
    ASSUME TypeOK, NEW p \in Products, NEW d \in Int, AdjustStock(p, d)
    PROVE  TypeOK'
<1>1. available' \in [Products -> Nat]
  BY DEF AdjustStock, TypeOK
<1>2. ledger' \in [Reasons -> [Products -> Int]]
  <2>1. One(p, d) \in [Products -> Int]
    BY DEF One, NoItems
  <2> QED
    BY <2>1, PostType DEF AdjustStock, TypeOK, Reasons
<1>3. enqueued' \subseteq Products
  BY DEF AdjustStock, AdjustReindex
<1> QED
  BY <1>1, <1>2, <1>3 DEF AdjustStock, TypeOK

LEMMA RestockTypeOK ==
    ASSUME TypeOK, NEW req \in Requests, Restock(req)
    PROVE  TypeOK'
<1>1. req \in [Products -> Nat]
  BY QuantitiesAreNat DEF Requests
<1>2. available' \in [Products -> Nat]
  BY <1>1 DEF Restock, TypeOK
<1>3. ledger' \in [Reasons -> [Products -> Int]]
  <2>1. Restocked(req) \in [Products -> Int]
    BY <1>1 DEF Restocked
  <2> QED
    BY <2>1, PostType DEF Restock, TypeOK, Reasons
<1>4. enqueued' \subseteq Products
  BY DEF Restock, ItemsOf
<1> QED
  BY <1>2, <1>3, <1>4 DEF Restock, TypeOK

LEMMA ClockTypeOK ==
    ASSUME TypeOK, NEW r \in Reservations, Expire(r)
    PROVE  TypeOK'
BY DEF Expire, stockVars, TypeOK

\* The steps of a sweep other than the release leave the stock alone.
SweepBookkeeping(w) ==
    \/ SweepSelect(w)
    \/ \E r \in sweep[w] : SweepSkip(w, r)
    \/ SweepCrash(w)

LEMMA SweepTypeOK ==
    ASSUME TypeOK, NEW w \in Sweeps, SweepBookkeeping(w)
    PROVE  TypeOK'
<1>1. UNCHANGED <<stockVars, overdue>>
  BY DEF SweepBookkeeping, SweepSelect, SweepSkip, SweepCrash
<1>2. sweep' \in [Sweeps -> SUBSET Reservations]
  <2>1. CASE SweepSelect(w)
    BY <2>1 DEF SweepSelect, Sweepable, TypeOK
  <2>2. CASE \E r \in sweep[w] : SweepSkip(w, r)
    BY <2>2 DEF SweepSkip, Passed, TypeOK
  <2>3. CASE SweepCrash(w)
    BY <2>3 DEF SweepCrash, TypeOK
  <2> QED
    BY <2>1, <2>2, <2>3 DEF SweepBookkeeping
<1> QED
  BY <1>1, <1>2 DEF stockVars, TypeOK

\* Next by what it does to the stock: the release of the checkout and that of
\* the sweeper are both Free.
LEMMA NextCases ==
    ASSUME TypeOK, Next
    PROVE  \/ \E r \in Reservations, req \in Requests : Reserve(r, req)
           \/ \E r \in Reservations : Commit(r)
           \/ \E r \in Reservations, k \in {"released", "expired"} :
                 Free(r, k) /\ sweep' \in [Sweeps -> SUBSET Reservations]
           \/ \E r \in Reservations : Expire(r)
           \/ \E p \in Products, d \in Int : AdjustStock(p, d)
           \/ \E req \in Requests : Restock(req)
           \/ \E w \in Sweeps : SweepBookkeeping(w)
<1>1. CASE \E r \in Reservations :
              \/ \E req \in Requests : Reserve(r, req)
              \/ Commit(r)
              \/ Expire(r)
  BY <1>1
<1>2. CASE \E r \in Reservations : Release(r)
  BY <1>2 DEF Release, TypeOK
<1>3. CASE \E p \in Products :
              \E delta \in -MaxCorrection..MaxCorrection :
                 delta # 0 /\ AdjustStock(p, delta)
  BY <1>3, BoundsAssumption
<1>4. CASE \E req \in Requests : Restock(req)
  BY <1>4
<1>5. CASE \E w \in Sweeps : Sweeper(w)
  <2>1. PICK w \in Sweeps : Sweeper(w)
    BY <1>5
  <2>2. CASE SweepBookkeeping(w)
    BY <2>2
  <2>3. CASE \E r \in sweep[w] : SweepRelease(w, r)
    <3>1. PICK r \in sweep[w] : SweepRelease(w, r)
      BY <2>3
    <3>2. r \in Reservations
      BY DEF TypeOK
    <3>3. Free(r, "expired") /\ sweep' \in [Sweeps -> SUBSET Reservations]
      BY <3>1 DEF SweepRelease, Passed, TypeOK
    <3> QED
      BY <3>2, <3>3
  <2> QED
    BY <2>1, <2>2, <2>3 DEF Sweeper, SweepLoop, SweepBookkeeping
<1> QED
  BY <1>1, <1>2, <1>3, <1>4, <1>5 DEF Next

LEMMA StutterTypeOK == TypeOK /\ UNCHANGED vars => TypeOK'
BY DEF vars, TypeOK

LEMMA NextTypeOK == TypeOK /\ [Next]_vars => TypeOK'
<1>1. ASSUME TypeOK, Next PROVE TypeOK'
  BY <1>1, NextCases, ReserveTypeOK, CommitTypeOK, FreeTypeOK, ClockTypeOK,
     AdjustTypeOK, RestockTypeOK, SweepTypeOK
<1> QED
  BY <1>1, StutterTypeOK

\* The services keep every column in its type: in particular neither CHECK
\* (available >= 0) nor CHECK (reserved >= 0) is ever violated.
THEOREM TypeCorrect == Spec => []TypeOK
<1>1. Init => TypeOK
  BY InitTypeOK
<1>2. TypeOK /\ [Next]_vars => TypeOK'
  BY NextTypeOK
<1> QED
  BY <1>1, <1>2, PTL DEF Spec

-----------------------------------------------------------------------------
(* Counting units *)

\* The n units of one line of reservation r.
Line(r, n) == {r} \X (1..n)

LEMMA LineSize ==
    ASSUME NEW r, NEW n \in Nat
    PROVE  IsFiniteSet(Line(r, n)) /\ Cardinality(Line(r, n)) = n
<1>1. IsFiniteSet(1..n) /\ Cardinality(1..n) = n
  BY FS_Interval
<1>2. IsFiniteSet({r}) /\ Cardinality({r}) = 1
  BY FS_Singleton
<1>3. Cardinality(Line(r, n)) = 1 * n /\ IsFiniteSet(Line(r, n))
  BY <1>1, <1>2, FS_Product DEF Line
<1> QED
  BY <1>3

LEMMA UnitsFinite ==
    ASSUME NEW S, NEW p \in Products
    PROVE  /\ IsFiniteSet(Units(S, p))
           /\ Cardinality(Units(S, p)) \in Nat
<1>1. IsFiniteSet(Reservations \X (1..MaxQty))
  <2>1. IsFiniteSet(1..MaxQty)
    BY FS_Interval, BoundsAssumption
  <2> QED
    BY <2>1, FS_Product, ReservationsAssumption
<1>2. Units(S, p) \subseteq Reservations \X (1..MaxQty)
  BY DEF Units
<1> QED
  BY <1>1, <1>2, FS_Subset, FS_CardinalityType

LEMMA AddLine ==
    ASSUME NEW U, IsFiniteSet(U), NEW r, NEW n \in Nat,
           U \cap Line(r, n) = {}
    PROVE  Cardinality(U \cup Line(r, n)) = Cardinality(U) + n
<1>1. Cardinality(U \cap Line(r, n)) = 0
  BY FS_EmptySet
<1>2. Cardinality(U) \in Nat
  BY FS_CardinalityType
<1>3. IsFiniteSet(Line(r, n)) /\ Cardinality(Line(r, n)) = n
  BY LineSize
<1>4. Cardinality(U \cup Line(r, n))
        = Cardinality(U) + Cardinality(Line(r, n)) - Cardinality(U \cap Line(r, n))
  BY <1>3, FS_Union
<1> QED
  BY <1>1, <1>2, <1>3, <1>4

\* Units of p under another assignment of statuses and items.
UnitsWith(S, p, st, it) ==
    {x \in Reservations \X (1..MaxQty) :
        st[x[1]] \in S /\ x[2] <= it[x[1]][p]}

\* A reservation that enters S brings its line.
LEMMA UnitsEnter ==
    ASSUME NEW S, NEW p \in Products, NEW r \in Reservations,
           NEW q \in Quantities, NEW t,
           TypeOK, status[r] \notin S, t \in S
    PROVE  Cardinality(UnitsWith(S, p, [status EXCEPT ![r] = t],
                                       [items EXCEPT ![r] = q]))
             = Cardinality(Units(S, p)) + q[p]
<1> DEFINE new == UnitsWith(S, p, [status EXCEPT ![r] = t],
                                  [items EXCEPT ![r] = q])
<1>1. q[p] \in Nat /\ q[p] <= MaxQty
  BY BoundsAssumption DEF Quantities
<1>2. new = Units(S, p) \cup Line(r, q[p])
  BY <1>1, BoundsAssumption DEF UnitsWith, Units, Line, TypeOK
<1>3. Units(S, p) \cap Line(r, q[p]) = {}
  BY DEF Units, Line
<1> QED
  BY <1>1, <1>2, <1>3, UnitsFinite, AddLine

\* A reservation that leaves S takes its line with it.
LEMMA UnitsLeave ==
    ASSUME NEW S, NEW p \in Products, NEW r \in Reservations, NEW t,
           TypeOK, status[r] \in S, t \notin S
    PROVE  Cardinality(Units(S, p))
             = Cardinality(UnitsWith(S, p, [status EXCEPT ![r] = t], items))
                 + items[r][p]
<1> DEFINE new == UnitsWith(S, p, [status EXCEPT ![r] = t], items)
<1>1. items[r][p] \in Nat /\ items[r][p] <= MaxQty
  BY BoundsAssumption DEF Quantities, TypeOK
<1>2. Units(S, p) = new \cup Line(r, items[r][p])
  BY <1>1, BoundsAssumption DEF UnitsWith, Units, Line, TypeOK
<1>3. new \cap Line(r, items[r][p]) = {}
  BY DEF UnitsWith, Line, TypeOK
<1>4. IsFiniteSet(new)
  BY <1>2, UnitsFinite, FS_Subset
<1> QED
  BY <1>1, <1>2, <1>3, <1>4, AddLine

\* A reservation that stays in S changes nothing.
LEMMA UnitsStay ==
    ASSUME NEW S, NEW p \in Products, NEW r \in Reservations, NEW t,
           TypeOK, status[r] \in S <=> t \in S
    PROVE  UnitsWith(S, p, [status EXCEPT ![r] = t], items) = Units(S, p)
BY DEF UnitsWith, Units, TypeOK

\* Units' in terms of UnitsWith, so that the lemmas above apply to a step.
LEMMA UnitsPrime ==
    ASSUME NEW S, NEW p
    PROVE  Units(S, p)' = UnitsWith(S, p, status', items')
BY DEF Units, UnitsWith

-----------------------------------------------------------------------------
(* The reserved column counts the held units, and no unit is lost or sold  *)
(* twice.  Together they are inductive given TypeOK.                       *)

HeldUnits(p) == Cardinality(Units({"held"}, p))
TakenUnits(p) == Cardinality(Units({"held", "committed"}, p))

StockInv == TypeOK /\ ReservedMatchesHeld /\ StockConserved

LEMMA InitStockInv == Init => StockInv
<1> SUFFICES ASSUME Init PROVE StockInv
  OBVIOUS
<1>1. TypeOK
  BY InitTypeOK
<1>2. ASSUME NEW p \in Products
      PROVE  /\ Cardinality(Units({"held"}, p)) = 0
             /\ Cardinality(Units({"held", "committed"}, p)) = 0
  <2>1. Units({"held"}, p) = {} /\ Units({"held", "committed"}, p) = {}
    BY DEF Init, Units
  <2> QED
    BY <2>1, FS_EmptySet
<1>3. ReservedMatchesHeld
  BY <1>2 DEF Init, NoItems, ReservedMatchesHeld
<1>4. StockConserved
  BY <1>2, InitialStockAssumption DEF Init, NoItems, Reasons, StockConserved
<1> QED
  BY <1>1, <1>3, <1>4 DEF StockInv

LEMMA ReserveStockInv ==
    ASSUME StockInv, NEW r \in Reservations, NEW req \in Requests,
           Reserve(r, req)
    PROVE  ReservedMatchesHeld' /\ StockConserved'
<1> USE DEF StockInv
<1>1. req \in Quantities /\ req \in [Products -> Nat]
  BY QuantitiesAreNat DEF Requests
<1>2. ASSUME NEW p \in Products
      PROVE  /\ HeldUnits(p)' = HeldUnits(p) + req[p]
             /\ TakenUnits(p)' = TakenUnits(p) + req[p]
  <2>1. status[r] \notin {"held"} /\ status[r] \notin {"held", "committed"}
    BY DEF Reserve
  <2> QED
    BY <1>1, <2>1, UnitsEnter, UnitsPrime DEF Reserve, HeldUnits, TakenUnits
<1>3. ASSUME NEW p \in Products, NEW k \in {"adjust", "restock"}
      PROVE  ledger'[k][p] = ledger[k][p]
  <2>1. Minus(NoItems, req) \in [Products -> Int]
    BY <1>1 DEF Minus, NoItems
  <2> QED
    BY <2>1, PostType DEF Reserve, TypeOK, Reasons
<1>4. ASSUME NEW p \in Products
      PROVE  HeldUnits(p) \in Nat /\ TakenUnits(p) \in Nat
  BY UnitsFinite DEF HeldUnits, TakenUnits
<1>5. ASSUME NEW p \in Products
      PROVE  /\ available'[p] = available[p] - req[p]
             /\ reserved'[p] = reserved[p] + req[p]
  BY DEF Reserve, Minus, Plus
<1>6. ReservedMatchesHeld'
  BY <1>2, <1>5 DEF ReservedMatchesHeld, HeldUnits
<1>7. StockConserved'
  <2>1. ASSUME NEW p \in Products
        PROVE  /\ available[p] \in Nat /\ req[p] \in Nat
               /\ ledger["adjust"][p] \in Int /\ ledger["restock"][p] \in Int
               /\ InitialStock[p] \in Nat
    BY <1>1, InitialStockAssumption DEF TypeOK, Reasons
  <2> QED
    BY <1>2, <1>3, <1>4, <1>5, <2>1 DEF StockConserved, TakenUnits
<1> QED
  BY <1>6, <1>7

\* What the arithmetic below needs to know of a product's numbers.
LEMMA Numbers ==
    ASSUME TypeOK, NEW p \in Products
    PROVE  /\ available[p] \in Nat
           /\ reserved[p] \in Nat
           /\ InitialStock[p] \in Nat
           /\ \A k \in Reasons : ledger[k][p] \in Int
           /\ \A r \in Reservations : items[r][p] \in Nat
           /\ HeldUnits(p) \in Nat
           /\ TakenUnits(p) \in Nat
<1>1. \A r \in Reservations : items[r][p] \in Nat
  BY QuantitiesAreNat DEF TypeOK
<1>2. HeldUnits(p) \in Nat /\ TakenUnits(p) \in Nat
  BY UnitsFinite DEF HeldUnits, TakenUnits
<1> QED
  BY <1>1, <1>2, InitialStockAssumption DEF TypeOK

LEMMA CommitStockInv ==
    ASSUME StockInv, NEW r \in Reservations, Commit(r)
    PROVE  ReservedMatchesHeld' /\ StockConserved'
<1> USE DEF StockInv
<1>1. ASSUME NEW p \in Products
      PROVE  /\ HeldUnits(p) = HeldUnits(p)' + items[r][p]
             /\ TakenUnits(p)' = TakenUnits(p)
  <2>1. status[r] = "held"
    BY DEF Commit, CanCommit
  <2>2. status' = [status EXCEPT ![r] = "committed"] /\ items' = items
    BY DEF Commit
  <2>3. Cardinality(Units({"held"}, p))
          = Cardinality(UnitsWith({"held"}, p, status', items)) + items[r][p]
    BY <2>1, <2>2, UnitsLeave
  <2>4. UnitsWith({"held", "committed"}, p, status', items)
          = Units({"held", "committed"}, p)
    BY <2>1, <2>2, UnitsStay
  <2> QED
    BY <2>2, <2>3, <2>4, UnitsPrime DEF HeldUnits, TakenUnits
<1>2. ASSUME NEW p \in Products, NEW k \in {"adjust", "restock"}
      PROVE  ledger'[k][p] = ledger[k][p]
  <2>1. CommitDelta(r) \in [Products -> Int]
    BY DEF CommitDelta, NoItems
  <2> QED
    BY <2>1, PostType DEF Commit, TypeOK, Reasons
<1>3. ASSUME NEW p \in Products
      PROVE  HeldUnits(p)' \in Nat
  <2>1. IsFiniteSet(Units({"held"}, p)')
    <3>1. Units({"held"}, p)' \subseteq Units({"held"}, p)
      BY DEF Units, Commit, CanCommit, TypeOK
    <3> QED
      BY <3>1, UnitsFinite, FS_Subset
  <2> QED
    BY <2>1, FS_CardinalityType DEF HeldUnits
<1>4. ASSUME NEW p \in Products
      PROVE  /\ reserved'[p] = reserved[p] - items[r][p]
             /\ available'[p] = available[p]
  BY DEF Commit, Minus
<1>5. ReservedMatchesHeld'
  BY <1>1, <1>3, <1>4, Numbers DEF ReservedMatchesHeld, HeldUnits
<1>6. StockConserved'
  BY <1>1, <1>2, <1>4 DEF StockConserved, TakenUnits
<1> QED
  BY <1>5, <1>6

LEMMA FreeStockInv ==
    ASSUME StockInv, NEW r \in Reservations, NEW k \in {"released", "expired"},
           Free(r, k)
    PROVE  ReservedMatchesHeld' /\ StockConserved'
<1> USE DEF StockInv
<1>1. status[r] = "held" /\ status' = [status EXCEPT ![r] = k] /\ items' = items
  BY DEF Free, CanRelease
<1>2. ASSUME NEW p \in Products
      PROVE  /\ HeldUnits(p) = HeldUnits(p)' + items[r][p]
             /\ TakenUnits(p) = TakenUnits(p)' + items[r][p]
             /\ HeldUnits(p)' \in Nat
             /\ TakenUnits(p)' \in Nat
  <2>1. ASSUME NEW S \in {{"held"}, {"held", "committed"}}
        PROVE  /\ Cardinality(Units(S, p))
                    = Cardinality(Units(S, p)') + items[r][p]
               /\ Cardinality(Units(S, p)') \in Nat
    <3>1. status[r] \in S /\ k \notin S
      BY <1>1
    <3>2. Cardinality(Units(S, p))
            = Cardinality(UnitsWith(S, p, status', items)) + items[r][p]
      BY <1>1, <3>1, UnitsLeave
    <3>3. Units(S, p)' \subseteq Units(S, p)
      BY <1>1, <3>1 DEF Units, TypeOK
    <3>4. IsFiniteSet(Units(S, p)')
      BY <3>3, UnitsFinite, FS_Subset
    <3>5. UnitsWith(S, p, status', items) = Units(S, p)'
      BY <1>1, UnitsPrime
    <3> QED
      BY <3>2, <3>4, <3>5, FS_CardinalityType
  <2> QED
    BY <2>1 DEF HeldUnits, TakenUnits
<1>3. ASSUME NEW p \in Products, NEW j \in {"adjust", "restock"}
      PROVE  ledger'[j][p] = ledger[j][p]
  <2>1. items[r] \in [Products -> Int]
    BY QuantitiesAreNat DEF TypeOK
  <2>2. k \in Reasons /\ j \in Reasons /\ j # k
    BY DEF Reasons
  <2> QED
    BY <2>1, <2>2, PostType DEF Free, TypeOK
<1>4. ASSUME NEW p \in Products
      PROVE  /\ reserved'[p] = reserved[p] - items[r][p]
             /\ available'[p] = available[p] + items[r][p]
  <2>1. reserved[p] >= items[r][p]
    BY <1>2, Numbers DEF ReservedMatchesHeld, HeldUnits
  <2> QED
    BY <2>1 DEF Free, ReservedAfterRelease, Plus
<1>5. ReservedMatchesHeld'
  BY <1>2, <1>4, Numbers DEF ReservedMatchesHeld, HeldUnits
<1>6. StockConserved'
  <2>1. ASSUME NEW p \in Products
        PROVE  ledger["adjust"][p] \in Int /\ ledger["restock"][p] \in Int
    BY DEF TypeOK, Reasons
  <2> QED
    BY <1>2, <1>3, <1>4, <2>1, Numbers DEF StockConserved, TakenUnits
<1> QED
  BY <1>5, <1>6

LEMMA AdjustStockInv ==
    ASSUME StockInv, NEW q \in Products, NEW d \in Int, AdjustStock(q, d)
    PROVE  ReservedMatchesHeld' /\ StockConserved'
<1> USE DEF StockInv
<1>1. \A S : \A p \in Products : Units(S, p)' = Units(S, p)
  BY DEF Units, AdjustStock
<1>2. ASSUME NEW p \in Products
      PROVE  /\ ledger'["adjust"][p] = ledger["adjust"][p] + One(q, d)[p]
             /\ ledger'["restock"][p] = ledger["restock"][p]
             /\ One(q, d)[p] = IF p = q THEN d ELSE 0
  <2>1. One(q, d) \in [Products -> Int]
    BY DEF One, NoItems
  <2> QED
    BY <2>1, PostType DEF AdjustStock, TypeOK, Reasons, One, NoItems
<1>3. ASSUME NEW p \in Products
      PROVE  available'[p] = available[p] + One(q, d)[p]
  BY <1>2 DEF AdjustStock, TypeOK
<1>4. ReservedMatchesHeld'
  BY <1>1 DEF AdjustStock, ReservedMatchesHeld
<1>5. StockConserved'
  <2>1. ASSUME NEW p \in Products
        PROVE  /\ ledger["adjust"][p] \in Int /\ ledger["restock"][p] \in Int
               /\ One(q, d)[p] \in Int
    BY <1>2 DEF TypeOK, Reasons
  <2>2. ASSUME NEW p \in Products
        PROVE  TakenUnits(p)' = TakenUnits(p)
    BY <1>1 DEF TakenUnits
  <2>3. ASSUME NEW p \in Products
        PROVE  (available[p] + TakenUnits(p)
                   = InitialStock[p] + ledger["adjust"][p] + ledger["restock"][p])'
    <3>1. available[p] + TakenUnits(p)
            = InitialStock[p] + ledger["adjust"][p] + ledger["restock"][p]
      BY DEF StockConserved, TakenUnits
    <3> QED
      BY <1>2, <1>3, <2>1, <2>2, <3>1, Numbers
  <2> QED
    BY <2>3 DEF StockConserved, TakenUnits
<1> QED
  BY <1>4, <1>5

LEMMA RestockStockInv ==
    ASSUME StockInv, NEW req \in Requests, Restock(req)
    PROVE  ReservedMatchesHeld' /\ StockConserved'
<1> USE DEF StockInv
<1>1. \A S : \A p \in Products : Units(S, p)' = Units(S, p)
  BY DEF Units, Restock
<1>2. ASSUME NEW p \in Products
      PROVE  /\ ledger'["restock"][p] = ledger["restock"][p] + Restocked(req)[p]
             /\ ledger'["adjust"][p] = ledger["adjust"][p]
             /\ Restocked(req)[p] \in Int
  <2>1. Restocked(req) \in [Products -> Int]
    BY QuantitiesAreNat DEF Requests, Restocked
  <2> QED
    BY <2>1, PostType DEF Restock, TypeOK, Reasons
<1>3. ASSUME NEW p \in Products
      PROVE  available'[p] = available[p] + Restocked(req)[p]
  BY DEF Restock, Restocked, TypeOK
<1>4. ReservedMatchesHeld'
  BY <1>1 DEF Restock, ReservedMatchesHeld
<1>5. StockConserved'
  <2>1. ASSUME NEW p \in Products
        PROVE  ledger["adjust"][p] \in Int /\ ledger["restock"][p] \in Int
    BY DEF TypeOK, Reasons
  <2> QED
    BY <1>1, <1>2, <1>3, <2>1, Numbers DEF StockConserved, TakenUnits
<1> QED
  BY <1>4, <1>5

\* CHECK (reserved >= 0) never stops a commit.
LEMMA HeldIsReserved ==
    ASSUME StockInv, NEW r \in Reservations, status[r] = "held",
           NEW p \in Products
    PROVE  items[r][p] <= reserved[p]
<1> DEFINE rest == UnitsWith({"held"}, p, [status EXCEPT ![r] = "none"], items)
<1>1. Cardinality(Units({"held"}, p)) = Cardinality(rest) + items[r][p]
  BY UnitsLeave DEF StockInv
<1>2. Cardinality(rest) \in Nat
  <2>1. rest \subseteq Units({"held"}, p)
    BY DEF UnitsWith, Units, StockInv, TypeOK
  <2> QED
    BY <2>1, UnitsFinite, FS_Subset, FS_CardinalityType
<1>3. reserved[p] = Cardinality(Units({"held"}, p)) /\ items[r][p] \in Nat
  BY QuantitiesAreNat DEF StockInv, TypeOK, ReservedMatchesHeld
<1> QED
  BY <1>1, <1>2, <1>3

\* Steps that leave the stock rows alone.
LEMMA QuietStockInv ==
    ASSUME StockInv, UNCHANGED stockVars
    PROVE  ReservedMatchesHeld' /\ StockConserved'
<1>1. \A S : \A p \in Products : Units(S, p)' = Units(S, p)
  BY DEF Units, stockVars
<1> QED
  BY <1>1 DEF StockInv, stockVars, ReservedMatchesHeld, StockConserved

LEMMA NextStockInv == StockInv /\ [Next]_vars => StockInv'
<1>1. StockInv /\ [Next]_vars => TypeOK'
  BY NextTypeOK DEF StockInv
<1>2. ASSUME StockInv, Next
      PROVE  ReservedMatchesHeld' /\ StockConserved'
  <2>1. CASE \E r \in Reservations, req \in Requests : Reserve(r, req)
    BY <1>2, <2>1, ReserveStockInv
  <2>2. CASE \E r \in Reservations : Commit(r)
    BY <1>2, <2>2, CommitStockInv
  <2>3. CASE \E r \in Reservations, k \in {"released", "expired"} : Free(r, k)
    BY <1>2, <2>3, FreeStockInv
  <2>4. CASE \E p \in Products, d \in Int : AdjustStock(p, d)
    BY <1>2, <2>4, AdjustStockInv
  <2>5. CASE \E req \in Requests : Restock(req)
    BY <1>2, <2>5, RestockStockInv
  <2>6. CASE \/ \E r \in Reservations : Expire(r)
             \/ \E w \in Sweeps : SweepBookkeeping(w)
    <3>1. UNCHANGED stockVars
      BY <2>6 DEF Expire, SweepBookkeeping, SweepSelect, SweepSkip, SweepCrash
    <3> QED
      BY <1>2, <3>1, QuietStockInv
  <2> QED
    BY <1>2, <2>1, <2>2, <2>3, <2>4, <2>5, <2>6, NextCases DEF StockInv
<1>3. ASSUME StockInv, UNCHANGED vars
      PROVE  ReservedMatchesHeld' /\ StockConserved'
  BY <1>3, QuietStockInv DEF vars, stockVars
<1> QED
  BY <1>1, <1>2, <1>3 DEF StockInv

\* No interleaving of checkouts, releases, sweeps from stale lists and manual
\* corrections loses a unit, sells it twice or returns it twice, and the
\* reserved counter always counts the held units.
THEOREM StockCorrect == Spec => [](ReservedMatchesHeld /\ StockConserved)
<1>1. Init => StockInv
  BY InitStockInv
<1>2. StockInv /\ [Next]_vars => StockInv'
  BY NextStockInv
<1>3. StockInv => ReservedMatchesHeld /\ StockConserved
  BY DEF StockInv
<1> QED
  BY <1>1, <1>2, <1>3, PTL DEF Spec

\* The counter that every availability check subtracts is exactly what the held
\* reservations add up to, after any number of overlapping requests.
THEOREM ReservedCorrect == Spec => []ReservedMatchesHeld
<1> QED
  BY StockCorrect, PTL

-----------------------------------------------------------------------------
(* The outcome of a reservation is final. *)

LEMMA NextResolvedOnce ==
    ASSUME TypeOK, [Next]_vars, NEW r \in Reservations,
           status[r] \in {"committed", "released", "expired"}
    PROVE  status'[r] = status[r]
<1>1. CASE Next
  <2>1. CASE \E q \in Reservations, req \in Requests : Reserve(q, req)
    BY <2>1 DEF Reserve, TypeOK
  <2>2. CASE \E q \in Reservations : Commit(q)
    BY <2>2 DEF Commit, CanCommit, TypeOK
  <2>3. CASE \E q \in Reservations, k \in {"released", "expired"} : Free(q, k)
    BY <2>3 DEF Free, CanRelease, TypeOK
  <2>4. CASE \/ \E p \in Products, d \in Int : AdjustStock(p, d)
             \/ \E req \in Requests : Restock(req)
    BY <2>4 DEF AdjustStock, Restock
  <2>5. CASE \/ \E q \in Reservations : Expire(q)
             \/ \E w \in Sweeps : SweepBookkeeping(w)
    BY <2>5 DEF Expire, SweepBookkeeping, SweepSelect, SweepSkip, SweepCrash,
                stockVars
  <2> QED
    BY <1>1, <2>1, <2>2, <2>3, <2>4, <2>5, NextCases
<1>2. CASE UNCHANGED vars
  BY <1>2 DEF vars
<1> QED
  BY <1>1, <1>2

\* A commit, a compensating release and the sweeper race for a reservation:
\* the first one decides, and nothing overwrites its outcome.
THEOREM OutcomeFinal == Spec => ResolvedOnce
<1>1. TypeOK /\ [Next]_vars
        => [\A r \in Reservations :
               status[r] \in {"committed", "released", "expired"}
                   => status'[r] = status[r]]_vars
  BY NextResolvedOnce
<1> QED
  BY <1>1, TypeCorrect, PTL DEF Spec, ResolvedOnce

-----------------------------------------------------------------------------
(* The ledger explains the available column. *)

\* One row for each product, of any reason, moves the sum by its delta.
LEMMA PostMovesSum ==
    ASSUME TypeOK, NEW k \in Reasons, NEW d \in [Products -> Int],
           ledger' = Post(k, d), NEW p \in Products
    PROVE  LedgerSum(p)' = LedgerSum(p) + d[p] /\ LedgerSum(p) \in Int
<1>1. \A j \in Reasons :
         /\ ledger'[j][p] = IF j = k THEN ledger[j][p] + d[p] ELSE ledger[j][p]
         /\ ledger[j][p] \in Int
  BY PostType DEF TypeOK
<1>2. d[p] \in Int
  OBVIOUS
<1> QED
  BY <1>1, <1>2 DEF LedgerSum, Reasons

\* A transaction whose ledger rows say what it did to `available`.
LEMMA PostKeepsLedger ==
    ASSUME TypeOK, LedgerExplainsAvailable,
           NEW k \in Reasons, NEW d \in [Products -> Int],
           ledger' = Post(k, d),
           \A p \in Products : available'[p] = available[p] + d[p]
    PROVE  LedgerExplainsAvailable'
<1>1. ASSUME NEW p \in Products
      PROVE  available'[p] = InitialStock[p] + LedgerSum(p)'
  <2>1. InitialStock[p] \in Int /\ d[p] \in Int
    BY InitialStockAssumption
  <2> QED
    BY <2>1, PostMovesSum DEF LedgerExplainsAvailable
<1> QED
  BY <1>1 DEF LedgerExplainsAvailable

LEMMA NextLedger ==
    ASSUME TypeOK, LedgerExplainsAvailable, [Next]_vars
    PROVE  LedgerExplainsAvailable'
<1>1. CASE Next
  <2>1. ASSUME NEW r \in Reservations, NEW req \in Requests, Reserve(r, req)
        PROVE  LedgerExplainsAvailable'
    <3>1. req \in [Products -> Nat] /\ Minus(NoItems, req) \in [Products -> Int]
      BY QuantitiesAreNat DEF Requests, Minus, NoItems
    <3>2. \A p \in Products :
             available'[p] = available[p] + Minus(NoItems, req)[p]
      BY <2>1, <3>1 DEF Reserve, Minus, NoItems, TypeOK
    <3> QED
      BY <2>1, <3>1, <3>2, PostKeepsLedger DEF Reserve, Reasons
  <2>2. ASSUME NEW r \in Reservations, Commit(r)
        PROVE  LedgerExplainsAvailable'
    <3>1. CommitDelta(r) \in [Products -> Int]
      BY DEF CommitDelta, NoItems
    <3>2. \A p \in Products : available'[p] = available[p] + CommitDelta(r)[p]
      BY <2>2 DEF Commit, CommitDelta, NoItems, TypeOK
    <3> QED
      BY <2>2, <3>1, <3>2, PostKeepsLedger DEF Commit, Reasons
  <2>3. ASSUME NEW r \in Reservations, NEW k \in {"released", "expired"},
               Free(r, k)
        PROVE  LedgerExplainsAvailable'
    <3>1. items[r] \in [Products -> Int] /\ k \in Reasons
      BY QuantitiesAreNat DEF TypeOK, Reasons
    <3>2. \A p \in Products : available'[p] = available[p] + items[r][p]
      BY <2>3 DEF Free, Plus
    <3> QED
      BY <2>3, <3>1, <3>2, PostKeepsLedger DEF Free
  <2>4. ASSUME NEW q \in Products, NEW d \in Int, AdjustStock(q, d)
        PROVE  LedgerExplainsAvailable'
    <3>1. One(q, d) \in [Products -> Int]
      BY DEF One, NoItems
    <3>2. \A p \in Products : available'[p] = available[p] + One(q, d)[p]
      BY <2>4 DEF AdjustStock, One, NoItems, TypeOK
    <3> QED
      BY <2>4, <3>1, <3>2, PostKeepsLedger DEF AdjustStock, Reasons
  <2>5. ASSUME NEW req \in Requests, Restock(req)
        PROVE  LedgerExplainsAvailable'
    <3>1. Restocked(req) \in [Products -> Int]
      BY QuantitiesAreNat DEF Requests, Restocked
    <3>2. \A p \in Products : available'[p] = available[p] + Restocked(req)[p]
      BY <2>5 DEF Restock, Restocked, TypeOK
    <3> QED
      BY <2>5, <3>1, <3>2, PostKeepsLedger DEF Restock, Reasons
  <2>6. CASE \/ \E r \in Reservations : Expire(r)
             \/ \E w \in Sweeps : SweepBookkeeping(w)
    BY <2>6 DEF Expire, SweepBookkeeping, SweepSelect, SweepSkip, SweepCrash,
                stockVars, LedgerExplainsAvailable, LedgerSum
  <2> QED
    BY <1>1, <2>1, <2>2, <2>3, <2>4, <2>5, <2>6, NextCases
<1>2. CASE UNCHANGED vars
  BY <1>2 DEF vars, LedgerExplainsAvailable, LedgerSum
<1> QED
  BY <1>1, <1>2

\* The ledger is a complete audit: with the initial stock it determines the
\* available units of every product after any history.
THEOREM LedgerCorrect == Spec => []LedgerExplainsAvailable
<1>1. Init => LedgerExplainsAvailable
  BY InitialStockAssumption DEF Init, NoItems, Reasons, LedgerExplainsAvailable, LedgerSum
<1>2. TypeOK /\ LedgerExplainsAvailable /\ [Next]_vars
        => LedgerExplainsAvailable'
  BY NextLedger
<1> QED
  BY <1>1, <1>2, TypeCorrect, PTL DEF Spec

-----------------------------------------------------------------------------
(* The search index is told of every change of the inStock facet. *)

LEMMA NextFacet ==
    ASSUME TypeOK, [Next]_vars, NEW p \in Products,
           (available[p] > 0) # (available'[p] > 0)
    PROVE  p \in enqueued'
<1>1. CASE Next
  <2>1. ASSUME NEW r \in Reservations, NEW req \in Requests, Reserve(r, req)
        PROVE  p \in enqueued'
    <3>1. req[p] \in Nat
      BY QuantitiesAreNat DEF Requests
    <3> QED
      BY <2>1, <3>1 DEF Reserve, Minus, ReserveReindex, ItemsOf, TypeOK
  <2>2. ASSUME NEW r \in Reservations, NEW k \in {"released", "expired"},
               Free(r, k)
        PROVE  p \in enqueued'
    <3>1. items[r][p] \in Nat
      BY QuantitiesAreNat DEF TypeOK
    <3> QED
      BY <2>2, <3>1 DEF Free, Plus, ItemsOf, TypeOK
  <2>3. ASSUME NEW q \in Products, NEW d \in Int, AdjustStock(q, d)
        PROVE  p \in enqueued'
    BY <2>3 DEF AdjustStock, AdjustReindex, TypeOK
  <2>4. ASSUME NEW req \in Requests, Restock(req)
        PROVE  p \in enqueued'
    <3>1. req[p] \in Nat
      BY QuantitiesAreNat DEF Requests
    <3>2. available'[p] = IF p \in Stocked THEN available[p] + req[p]
                                           ELSE available[p]
      BY <2>4 DEF Restock
    <3>3. available[p] = 0 /\ req[p] > 0 /\ p \in Stocked
      BY <3>1, <3>2 DEF TypeOK
    <3> QED
      BY <2>4, <3>1, <3>2, <3>3 DEF Restock, ItemsOf
  <2>5. CASE \/ \E r \in Reservations : Commit(r) \/ Expire(r)
             \/ \E w \in Sweeps : SweepBookkeeping(w)
    BY <2>5 DEF Commit, Expire, SweepBookkeeping, SweepSelect, SweepSkip,
                SweepCrash, stockVars
  <2> QED
    BY <1>1, <2>1, <2>2, <2>3, <2>4, <2>5, NextCases
<1>2. CASE UNCHANGED vars
  BY <1>2 DEF vars
<1> QED
  BY <1>1, <1>2

\* Every transaction that moves a product to or from zero available units
\* queues it for indexing in the same transaction.
THEOREM FacetCorrect == Spec => FacetChangeIsQueued
<1>1. TypeOK /\ [Next]_vars
        => [\A p \in Products :
               (available[p] > 0) # (available'[p] > 0) => p \in enqueued']_vars
  BY NextFacet
<1> QED
  BY <1>1, TypeCorrect, PTL DEF Spec, FacetChangeIsQueued
=============================================================================
