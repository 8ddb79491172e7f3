--------------------------- MODULE AccountsProofs ---------------------------
(***************************************************************************)
(* Proofs about Accounts, for any sign-ups, profile changes and deletions  *)
(* that race each other, and any crashes, and about MCUsers, which puts    *)
(* what a user has side by side.                                           *)
(***************************************************************************)
EXTENDS MCUsers, TLAPS

-----------------------------------------------------------------------------
\* The address book and the cart as StorePartsProofs has them, with the
\* constants they have in the run "users"; its other parts are not there.
Parts == INSTANCE StorePartsProofs WITH
    Txs <- Tx,
    Operations <- {"create", "createDefault", "unset", "setDefault", "delete"},
    MAX_ADDRESSES_PER_USER <- 3, MaxOpen <- 3, MaxRows <- 4, row <- x1,
    draft <- x2, place <- x3, op <- x4, count <- x5, found <- x6, locks <- x7,
    Requests <- {"r1"}, Products <- {"hat", "mug"}, Stock <- 2, request <- x5,
    available <- x2, cart <- x1,
    Kinds <- {"add", "set", "remove", "clear", "merge", "fetch"},
    MAX_QUANTITY_PER_ITEM <- 2, MAX_LINE_ITEMS <- 1, MaxSales <- 1,
    active <- x3, sales <- x4, shown <- x6,
    MaxFaults <- {}, Users <- {}, Keys <- {}, Faults <- {}, Prices <- {},
    at <- part, answer <- part, faults <- part, holder <- part, page <- part,
    outbox <- part, indexed <- part, payment <- part, seen <- part,
    orders <- part, price <- part, MaxStock <- {}, ServiceLevels <- {},
    TAX_RATE <- {}, TiesDown <- {}, FREE_SHIPPING_THRESHOLD_CENTS <- {},
    FLAT_SHIPPING_CENTS <- {}, Ratings <- {}, Buyers <- {},
    REQUIRE_VERIFIED_PURCHASE <- {}, Crashes <- {}, MaxVotes <- {},
    Baskets <- {}, Shoppers <- {}, MIN_CO_OCCURRENCES <- {},
    AFFINITY_PER_PRODUCT <- {}, RECOMMENDATIONS_PER_USER <- {}, Limits <- {},
    Fragile <- {}, Cancels <- {}, Stocks <- {}, Dies <- {}, MaxOrders <- {},
    MaxFails <- {}, Catalogues <- {}, Searches <- {}, Toggles <- {},
    WINDOW <- {}, Charges <- {}, Refunds <- {}, Orders <- {}, KeyOf <- {},
    OrderOf <- {}, UserOf <- {}, AmountOf <- {}, OwnerOf <- {}, TotalOf <- {},
    lines <- part, stock <- part, level <- part, placed <- part,
    review <- part, rating <- part, rowOf <- part, productOf <- part,
    req <- part, inStock <- part, viewed <- part, running <- part,
    next <- part, affinity <- part, recs <- part, fails <- part,
    products <- part, up <- part, toggles <- part, pc <- part, order <- part,
    taken <- part, returned <- part, refund <- part, target <- part,
    Indexed <- {}, Replicas <- {}, Admins <- {}, Live <- {}, BatchSize <- {},
    MAX_ATTEMPTS <- {}, MaxChanges <- {}, version <- part, queue <- part,
    indices <- part, docs <- part, alias <- part, drain <- part, build <- part

\* The cart's page, whose requests are two and change the quantity of a line.
Second == INSTANCE StorePartsProofs WITH
    Requests <- {"r1", "r2"}, Products <- {"hat", "mug"}, Stock <- 2,
    request <- x5, available <- x2, cart <- x1, Kinds <- {"set", "fetch"},
    MAX_QUANTITY_PER_ITEM <- 2, MAX_LINE_ITEMS <- 2, MaxSales <- 0,
    active <- x3, sales <- x4, shown <- x6,
    Operations <- {}, MAX_ADDRESSES_PER_USER <- {}, MaxOpen <- {},
    MaxRows <- {}, row <- part, draft <- part, place <- part, op <- part,
    count <- part, found <- part, MaxFaults <- {}, Users <- {}, Keys <- {},
    Faults <- {}, Prices <- {}, at <- part, answer <- part, faults <- part,
    holder <- part, page <- part, outbox <- part, indexed <- part,
    payment <- part, seen <- part, orders <- part, price <- part,
    MaxStock <- {}, ServiceLevels <- {}, TAX_RATE <- {}, TiesDown <- {},
    FREE_SHIPPING_THRESHOLD_CENTS <- {}, FLAT_SHIPPING_CENTS <- {},
    Ratings <- {}, Buyers <- {}, REQUIRE_VERIFIED_PURCHASE <- {},
    Crashes <- {}, MaxVotes <- {}, Baskets <- {}, Shoppers <- {},
    MIN_CO_OCCURRENCES <- {}, AFFINITY_PER_PRODUCT <- {},
    RECOMMENDATIONS_PER_USER <- {}, Limits <- {}, Fragile <- {}, Cancels <- {},
    Stocks <- {}, Dies <- {}, MaxOrders <- {}, MaxFails <- {},
    Catalogues <- {}, Searches <- {}, Toggles <- {}, WINDOW <- {},
    Charges <- {}, Refunds <- {}, Orders <- {}, KeyOf <- {}, OrderOf <- {},
    UserOf <- {}, AmountOf <- {}, OwnerOf <- {}, TotalOf <- {}, lines <- part,
    stock <- part, level <- part, placed <- part, review <- part,
    rating <- part, rowOf <- part, productOf <- part, req <- part,
    inStock <- part, viewed <- part, running <- part, next <- part,
    affinity <- part, recs <- part, fails <- part, products <- part,
    up <- part, toggles <- part, pc <- part, order <- part, taken <- part,
    returned <- part, refund <- part, target <- part, Indexed <- {},
    Replicas <- {}, Admins <- {}, Live <- {}, BatchSize <- {},
    MAX_ATTEMPTS <- {}, MaxChanges <- {}, version <- part, queue <- part,
    indices <- part, docs <- part, alias <- part, drain <- part, build <- part

\* The row locks are those of StorePartsProofs, which has the facts about them.
LEMMA SameLocks ==
    /\ \A m, n : Conflict(m, n) <=> Second!Book!Conflict(m, n)
    /\ \A t, id, m : /\ CanLock(t, id, m) <=> Second!Book!CanLock(t, id, m)
                     /\ Lock(t, id, m) <=> Second!Book!Lock(t, id, m)
    /\ LocksExclude <=> Second!Book!LocksExclude
    /\ LocksExclude' <=> Second!Book!LocksExclude'
BY DEF Conflict, CanLock, Lock, LocksExclude, Second!Book!Conflict,
    Second!Book!CanLock, Second!Book!Lock, Second!Book!LocksExclude

LEMMA ConflictFacts ==
    /\ \A m : Conflict("update", m) /\ Conflict(m, "update")
    /\ Conflict("no key update", "no key update")
    /\ \A m, n : Conflict(m, n) <=> Conflict(n, m)
BY SameLocks, Second!ConflictFacts

LEMMA HeldIsNotLockable ==
    ASSUME NEW t \in Txs, NEW u \in Txs, NEW id, NEW m, NEW n,
           <<id, m>> \in locks[u], Conflict(m, n), CanLock(t, id, n)
    PROVE  t = u
BY SameLocks, Second!HeldIsNotLockable

-----------------------------------------------------------------------------
\* From SELECT FOR UPDATE, or the start of a sign-up, to the answer.
Open(t) == pc[t] \in {"check", "write", "name", "email", "commit"}

\* A request is about an account, a sign-up about the one it makes, and that
\* has its names from COMMIT on.
AboutAccounts ==
    /\ \A t \in Txs : pc[t] # "idle" => who[t] \in Accounts
    /\ \A s \in SignUps :
           /\ pc[s] # "begun"
           /\ pc[s] # "idle" => who[s] = s /\ wants[s] \in Identities
           /\ Active(s) => pc[s] = "done"
    /\ \A t \in Updates \cup Deletes :
           pc[t] # "idle" /\ who[t] \in SignUps => pc[who[t]] = "done"

\* updateUser and deleteUser hold the row of a user who is there.
UserHeld ==
    \A t \in Updates \cup Deletes :
        Open(t) => Active(who[t]) /\ <<who[t], "update">> \in locks[t]

\* No two open transactions are about the same account.
Apart == \A t, u \in Txs : Open(t) /\ Open(u) /\ t # u => who[t] # who[u]

\* What a transaction has its entry for in the unique index.
NameIn(t) == /\ t \in Writes /\ wants[t].name # None
             /\ pc[t] \in {"email", "commit"}
EmailIn(t) == t \in Writes /\ wants[t].email # None /\ pc[t] = "commit"

\* An entry that is in the index is nobody else's, and is locked.
EntriesHeld ==
    \A t \in Writes :
        /\ NameIn(t) =>
               ~HasName(t) /\ <<wants[t].name, "update">> \in locks[t]
        /\ EmailIn(t) =>
               ~HasEmail(t) /\ <<wants[t].email, "update">> \in locks[t]

\* Two transactions have no entry in common.
EntriesApart ==
    \A t, u \in Writes :
        t # u =>
            /\ NameIn(t) /\ NameIn(u) => wants[t].name # wants[u].name
            /\ EmailIn(t) /\ EmailIn(u) => wants[t].email # wants[u].email

AccountsInv ==
    /\ TypeOK
    /\ AboutAccounts
    /\ UserHeld
    /\ Apart
    /\ EntriesHeld
    /\ EntriesApart
    /\ OneOwner
    /\ DeletedStaysAnonymous

-----------------------------------------------------------------------------
(* What the definitions say *)

LEMMA Kinds ==
    ASSUME AccountsAssumption, NEW t \in Txs
    PROVE  /\ t \in SignUps => t \notin Updates \cup Deletes
           /\ t \in Writes <=> t \notin Deletes
           /\ t \in Writes \/ t \in Deletes
           /\ t \notin SignUps => t \in Updates \cup Deletes
BY DEF AccountsAssumption, Txs, Writes

LEMMA Fields ==
    ASSUME AccountsAssumption, TypeOK
    PROVE  /\ \A a \in Accounts :
                  /\ Active(a) => /\ owns[a] \in Identities
                                  /\ owns[a].email \in Emails
                                  /\ owns[a].name \in Names
                  /\ ~Active(a) => owns[a].email = None /\ owns[a].name = None
           /\ \A t \in Txs : /\ wants[t].email \in Emails \cup {None}
                             /\ wants[t].name \in Names \cup {None}
           /\ None \notin Emails \cup Names
           /\ Nobody \notin Identities
<1>1. Nobody.email = None /\ Nobody.name = None
  BY DEF Nobody
<1>2. \A i \in Identities : i.email \in Emails /\ i.name \in Names
  BY DEF Identities
<1>3. None \notin Emails \cup Names
  BY DEF AccountsAssumption, None
<1>4. \A a \in Accounts : owns[a] \in Identities \/ owns[a] = Nobody
  BY DEF TypeOK
<1>5. \A w \in [email : Emails \cup {None}, name : Names \cup {None}] :
          w.email \in Emails \cup {None} /\ w.name \in Names \cup {None}
  OBVIOUS
<1>6. \A t \in Txs :
          wants[t] \in [email : Emails \cup {None}, name : Names \cup {None}]
  BY DEF TypeOK
<1>7. Nobody \notin Identities
  BY <1>1, <1>2, <1>3
<1> QED
  BY <1>1, <1>2, <1>3, <1>4, <1>5, <1>6, <1>7 DEF Active

\* A value that can be locked is in no other transaction's entries.
LEMMA SettledIsFree ==
    ASSUME TypeOK, EntriesHeld, NEW t \in Writes, NEW u \in Writes, t # u
    PROVE  /\ Settled(t, wants[t].name) /\ NameIn(u) =>
                  wants[t].name # wants[u].name
           /\ Settled(t, wants[t].email) /\ EmailIn(u) =>
                  wants[t].email # wants[u].email
<1>1. t \in Txs /\ u \in Txs /\ Conflict("update", "update")
  BY ConflictFacts DEF Txs
<1>2. ASSUME NEW v, <<v, "update">> \in locks[u]
      PROVE  ~Settled(t, v)
  BY <1>1, <1>2, HeldIsNotLockable DEF Settled
<1>3. /\ NameIn(u) => <<wants[u].name, "update">> \in locks[u]
      /\ EmailIn(u) => <<wants[u].email, "update">> \in locks[u]
  BY DEF EntriesHeld
<1>4. NameIn(u) => ~Settled(t, wants[u].name)
  BY <1>2, <1>3
<1>5. EmailIn(u) => ~Settled(t, wants[u].email)
  BY <1>2, <1>3
<1> QED
  BY <1>4, <1>5

-----------------------------------------------------------------------------
(* Steps that leave the users table alone *)

\* A request that is refused, fails or dies takes nothing with it.
LEMMA EndKeeps ==
    ASSUME AccountsAssumption, AccountsInv, NEW t \in Txs,
           NEW l \in Answers \ {"done"}, End(t, l),
           pc[t] \notin Answers \cup {"idle"}, UNCHANGED <<owns, who, wants>>
    PROVE  AccountsInv'
<1>1. TypeOK
  BY DEF AccountsInv
<1>2. /\ pc' = [pc EXCEPT ![t] = l] /\ locks' = [locks EXCEPT ![t] = {}]
      /\ l \notin {"idle", "begun", "check", "write", "name", "email",
                   "commit", "done"}
  BY DEF End, Goto, Answers
<1>3. /\ pc'[t] = l /\ \A u \in Txs : u # t => pc'[u] = pc[u]
      /\ \A u \in Txs : u # t => locks'[u] = locks[u]
  BY <1>1, <1>2 DEF TypeOK
<1>4. TypeOK'
  BY <1>1, <1>2 DEF TypeOK
<1>5. \A u \in Txs : Open(u)' => u # t /\ Open(u)
  BY <1>2, <1>3 DEF Open
<1>6. /\ \A u \in Writes : NameIn(u)' => u # t /\ NameIn(u)
      /\ \A u \in Writes : EmailIn(u)' => u # t /\ EmailIn(u)
  BY <1>2, <1>3 DEF NameIn, EmailIn, Txs
<1>7. \A a : Active(a)' <=> Active(a)
  BY DEF Active
<1>8. pc[t] # "done" /\ pc[t] # "idle"
  BY DEF Answers
<1>9. AboutAccounts'
  <2>1. \A u \in Txs : pc'[u] # "idle" => who[u] \in Accounts
    BY <1>3, <1>8 DEF AccountsInv, AboutAccounts
  <2>2. \A s \in SignUps :
            /\ pc'[s] # "begun"
            /\ pc'[s] # "idle" => who[s] = s /\ wants[s] \in Identities
            /\ Active(s)' => pc'[s] = "done"
    BY <1>2, <1>3, <1>7, <1>8
       DEF AccountsInv, AboutAccounts, Txs, Writes
  <2>3. \A u \in Updates \cup Deletes :
            pc'[u] # "idle" /\ who[u] \in SignUps => pc'[who[u]] = "done"
    BY <1>3, <1>8 DEF AccountsInv, AboutAccounts, Txs, Writes
  <2> QED
    BY <2>1, <2>2, <2>3 DEF AboutAccounts
<1>10. UserHeld'
  BY <1>3, <1>5, <1>7 DEF AccountsInv, UserHeld, Txs, Writes
<1>11. Apart'
  BY <1>5 DEF AccountsInv, Apart
<1>12. EntriesHeld'
  <2>1. \A u \in Writes : (HasName(u)' <=> HasName(u))
                          /\ (HasEmail(u)' <=> HasEmail(u))
    BY DEF HasName, HasEmail, Others
  <2> QED
    BY <1>3, <1>6, <2>1 DEF AccountsInv, EntriesHeld, Txs
<1>13. EntriesApart'
  BY <1>6 DEF AccountsInv, EntriesApart
<1>14. OneOwner'
  BY <1>7 DEF AccountsInv, OneOwner
<1>15. DeletedStaysAnonymous'
  BY <1>2, <1>3, <1>7 DEF AccountsInv, DeletedStaysAnonymous, Txs
<1> QED
  BY <1>4, <1>9, <1>10, <1>11, <1>12, <1>13, <1>14, <1>15 DEF AccountsInv

\* A transaction goes on to its next statement: it keeps its locks, and what
\* it now has in an index was free, and is locked.
LEMMA AdvanceKeeps ==
    ASSUME AccountsAssumption, AccountsInv, NEW t \in Txs, Open(t),
           NEW l \in {"write", "name", "email", "commit"}, Goto(t, l), TypeOK',
           locks[t] \subseteq locks'[t],
           \A u \in Txs : u # t => locks'[u] = locks[u],
           NameIn(t)' => \/ NameIn(t)
                         \/ /\ Settled(t, wants[t].name) /\ ~HasName(t)
                            /\ <<wants[t].name, "update">> \in locks'[t],
           EmailIn(t)' => \/ EmailIn(t)
                          \/ /\ Settled(t, wants[t].email) /\ ~HasEmail(t)
                             /\ <<wants[t].email, "update">> \in locks'[t],
           UNCHANGED <<owns, who, wants>>
    PROVE  AccountsInv'
<1>1. TypeOK
  BY DEF AccountsInv
<1>2. pc' = [pc EXCEPT ![t] = l]
  BY DEF Goto
<1>3. /\ pc'[t] = l /\ \A u \in Txs : u # t => pc'[u] = pc[u]
      /\ pc[t] \notin {"idle", "begun", "done"}
  BY <1>1, <1>2 DEF TypeOK, Open
<1>4. \A u \in Txs : locks[u] \subseteq locks'[u]
  OBVIOUS
<1>5. \A u \in Txs : Open(u)' => Open(u)
  BY <1>3 DEF Open
<1>6. \A u \in Writes : u # t => /\ NameIn(u)' => NameIn(u)
                                 /\ EmailIn(u)' => EmailIn(u)
  BY <1>3 DEF NameIn, EmailIn, Txs
<1>7. \A a : Active(a)' <=> Active(a)
  BY DEF Active
<1>8. AboutAccounts'
  <2>1. \A u \in Txs : pc'[u] # "idle" => who[u] \in Accounts
    BY <1>3 DEF AccountsInv, AboutAccounts
  <2>2. \A s \in SignUps :
            /\ pc'[s] # "begun"
            /\ pc'[s] # "idle" => who[s] = s /\ wants[s] \in Identities
            /\ Active(s)' => pc'[s] = "done"
    BY <1>3, <1>7 DEF AccountsInv, AboutAccounts, Txs, Writes
  <2>3. \A u \in Updates \cup Deletes :
            pc'[u] # "idle" /\ who[u] \in SignUps => pc'[who[u]] = "done"
    BY <1>3 DEF AccountsInv, AboutAccounts, Txs, Writes
  <2> QED
    BY <2>1, <2>2, <2>3 DEF AboutAccounts
<1>9. UserHeld'
  BY <1>4, <1>5, <1>7 DEF AccountsInv, UserHeld, Txs, Writes
<1>10. Apart'
  BY <1>5 DEF AccountsInv, Apart
<1>11. EntriesHeld'
  <2>1. \A u \in Writes : (HasName(u)' <=> HasName(u))
                          /\ (HasEmail(u)' <=> HasEmail(u))
    BY DEF HasName, HasEmail, Others
  <2>2. SUFFICES ASSUME NEW u \in Writes
                 PROVE  /\ NameIn(u)' =>
                              /\ ~HasName(u)
                              /\ <<wants[u].name, "update">> \in locks'[u]
                        /\ EmailIn(u)' =>
                              /\ ~HasEmail(u)
                              /\ <<wants[u].email, "update">> \in locks'[u]
    BY <2>1 DEF EntriesHeld
  <2>3. CASE u = t
    BY <1>4, <2>2, <2>3 DEF AccountsInv, EntriesHeld
  <2>4. CASE u # t
    BY <1>4, <1>6, <2>2, <2>4 DEF AccountsInv, EntriesHeld, Txs
  <2> QED
    BY <2>3, <2>4
<1>12. EntriesApart'
  <2>1. ASSUME NEW u \in Writes, NEW w \in Writes, u # w, w # t
        PROVE  /\ NameIn(u)' /\ NameIn(w)' => wants[u].name # wants[w].name
               /\ EmailIn(u)' /\ EmailIn(w)' => wants[u].email # wants[w].email
    <3>1. /\ NameIn(w)' => NameIn(w)
          /\ EmailIn(w)' => EmailIn(w)
      BY <1>6, <2>1
    <3>2. /\ NameIn(u)' => NameIn(u) \/ Settled(u, wants[u].name)
          /\ EmailIn(u)' => EmailIn(u) \/ Settled(u, wants[u].email)
      BY <1>6
    <3> QED
      BY <1>1, <2>1, <3>1, <3>2, SettledIsFree DEF AccountsInv, EntriesApart
  <2>2. SUFFICES ASSUME NEW u \in Writes, NEW w \in Writes, u # w
                 PROVE  /\ NameIn(u)' /\ NameIn(w)' =>
                              wants[u].name # wants[w].name
                        /\ EmailIn(u)' /\ EmailIn(w)' =>
                              wants[u].email # wants[w].email
    BY DEF EntriesApart
  <2>3. CASE w # t
    BY <2>1, <2>2, <2>3
  <2>4. CASE u # t
    BY <2>1, <2>2, <2>4
  <2> QED
    BY <2>2, <2>3, <2>4
<1>13. OneOwner'
  BY <1>7 DEF AccountsInv, OneOwner
<1>14. DeletedStaysAnonymous'
  BY <1>3, <1>7 DEF AccountsInv, DeletedStaysAnonymous, Txs
<1> QED
  BY <1>8, <1>9, <1>10, <1>11, <1>12, <1>13, <1>14 DEF AccountsInv

LEMMA InitAccounts ==
    ASSUME AccountsAssumption, Init
    PROVE  AccountsInv
<1>1. Nobody \notin Identities
  <2>1. Nobody.email = None /\ \A i \in Identities : i.email \in Emails
    BY DEF Nobody, Identities
  <2> QED
    BY <2>1 DEF AccountsAssumption, None
<1>2. TypeOK
  BY DEF Init, TypeOK, Accounts, AccountsAssumption, Answers, Nobody
<1>3. AboutAccounts /\ UserHeld /\ Apart /\ EntriesHeld /\ EntriesApart
  BY DEF Init, AboutAccounts, UserHeld, Apart, EntriesHeld, EntriesApart,
         Open, NameIn, EmailIn, Txs, Writes, Active, Accounts,
         AccountsAssumption
<1>4. \A a \in Accounts : Active(a) => a \in Members /\ owns[a] = First[a]
  BY DEF Init, Active, Accounts
<1>5. OneOwner
  BY <1>4 DEF OneOwner, AccountsAssumption
<1>6. DeletedStaysAnonymous
  BY DEF Init, DeletedStaysAnonymous, Txs
<1> QED
  BY <1>2, <1>3, <1>5, <1>6 DEF AccountsInv

\* A request begins: of an account that is there, or of the one it makes.
LEMMA BeginKeeps ==
    ASSUME AccountsAssumption, AccountsInv, NEW t \in Txs, Begin(t)
    PROVE  AccountsInv'
<1>1. TypeOK /\ pc[t] = "idle" /\ UNCHANGED <<owns, locks>>
  BY DEF AccountsInv, Begin
<1>2. /\ pc'[t] \in {"begun", "check"} /\ who'[t] \in Accounts
      /\ pc' = [pc EXCEPT ![t] = pc'[t]] /\ who' = [who EXCEPT ![t] = who'[t]]
  BY <1>1 DEF Begin, Goto, TypeOK, Accounts
<1>3. /\ wants' = [wants EXCEPT ![t] = wants'[t]]
      /\ wants'[t] \in [email : Emails \cup {None}, name : Names \cup {None}]
  <2> DEFINE Asked == [email : Emails \cup {None}, name : Names \cup {None}]
  <2>1. wants \in [Txs -> Asked] /\ Identities \subseteq Asked
    BY <1>1 DEF TypeOK, Identities
  <2>2. UNCHANGED wants \/ \E w \in Asked : wants' = [wants EXCEPT ![t] = w]
    BY <2>1 DEF Begin
  <2> QED
    BY <2>1, <2>2
<1>4. \A u \in Txs : u # t => /\ pc'[u] = pc[u] /\ who'[u] = who[u]
                              /\ wants'[u] = wants[u]
  BY <1>1, <1>2, <1>3 DEF TypeOK
<1>5. TypeOK'
  BY <1>1, <1>2, <1>3 DEF TypeOK
<1>6. /\ t \in SignUps => /\ who'[t] = t /\ pc'[t] = "check"
                          /\ wants'[t] \in Identities
      /\ t \notin SignUps => pc'[t] = "begun" /\ Active(who'[t])
  BY <1>1, Kinds DEF Begin, Goto, TypeOK
<1>7. \A a : Active(a)' <=> Active(a)
  BY <1>1 DEF Active
<1>8. \A u \in Txs : Open(u)' => Open(u) \/ (u = t /\ t \in SignUps)
  BY <1>4, <1>6 DEF Open
<1>9. /\ ~NameIn(t)' /\ ~EmailIn(t)'
      /\ \A u \in Txs : u # t => /\ NameIn(u)' <=> NameIn(u)
                                 /\ EmailIn(u)' <=> EmailIn(u)
                                 /\ HasName(u)' <=> HasName(u)
                                 /\ HasEmail(u)' <=> HasEmail(u)
  BY <1>1, <1>2, <1>4 DEF NameIn, EmailIn, HasName, HasEmail, Others
<1>10. AboutAccounts'
  <2>1. \A u \in Txs : pc'[u] # "idle" => who'[u] \in Accounts
    BY <1>2, <1>4 DEF AccountsInv, AboutAccounts
  <2>2. \A s \in SignUps :
            /\ pc'[s] # "begun"
            /\ pc'[s] # "idle" => who'[s] = s /\ wants'[s] \in Identities
            /\ Active(s)' => pc'[s] = "done"
    BY <1>1, <1>4, <1>6, <1>7 DEF AccountsInv, AboutAccounts, Txs, Writes
  <2>3. ASSUME NEW u \in Updates \cup Deletes, pc'[u] # "idle",
               who'[u] \in SignUps
        PROVE  pc'[who'[u]] = "done"
    <3>1. who'[u] \in Txs /\ u \in Txs
      BY <2>3 DEF Txs, Writes
    <3>2. CASE u = t
      <4>1. Active(who'[t])
        BY <1>6, <3>1, <3>2, Kinds
      <4> QED
        BY <1>1, <1>4, <2>3, <3>1, <3>2, <4>1 DEF AccountsInv, AboutAccounts
    <3>3. CASE u # t
      BY <1>1, <1>4, <2>3, <3>1, <3>3 DEF AccountsInv, AboutAccounts
    <3> QED
      BY <3>2, <3>3
  <2> QED
    BY <2>1, <2>2, <2>3 DEF AboutAccounts
<1>11. UserHeld'
  <2>1. \A u \in Updates \cup Deletes : Open(u)' => u # t /\ Open(u)
    BY <1>6, <1>8, Kinds DEF Open, Txs, Writes
  <2> QED
    BY <1>1, <1>4, <1>7, <2>1 DEF AccountsInv, UserHeld, Txs, Writes
<1>12. Apart'
  <2>1. ASSUME NEW u \in Txs, u # t, Open(u), t \in SignUps
        PROVE  who'[u] # t
    <3>1. CASE u \in SignUps
      BY <1>4, <2>1, <3>1 DEF AccountsInv, AboutAccounts, Open
    <3>2. CASE u \in Updates \cup Deletes
      BY <1>1, <1>4, <2>1, <3>2 DEF AccountsInv, AboutAccounts, Open
    <3> QED
      BY <2>1, <3>1, <3>2, Kinds
  <2> SUFFICES ASSUME NEW u \in Txs, NEW w \in Txs, Open(u)', Open(w)', u # w
               PROVE  who'[u] # who'[w]
    BY DEF Apart
  <2>2. CASE u # t /\ w # t
    BY <1>4, <1>8, <2>2 DEF AccountsInv, Apart
  <2>3. CASE u = t
    BY <1>6, <1>8, <2>1, <2>3 DEF Open
  <2>4. CASE w = t
    BY <1>6, <1>8, <2>1, <2>4 DEF Open
  <2> QED
    BY <2>2, <2>3, <2>4
<1>13. EntriesHeld'
  BY <1>1, <1>4, <1>9 DEF AccountsInv, EntriesHeld, Txs
<1>14. EntriesApart'
  BY <1>4, <1>9 DEF AccountsInv, EntriesApart, Txs
<1>15. OneOwner'
  BY <1>1, <1>7 DEF AccountsInv, OneOwner
<1>16. DeletedStaysAnonymous'
  BY <1>2, <1>4, <1>7 DEF AccountsInv, DeletedStaysAnonymous, Txs
<1> QED
  BY <1>5, <1>10, <1>11, <1>12, <1>13, <1>14, <1>15, <1>16 DEF AccountsInv

\* SELECT FOR UPDATE waits for whoever holds the user, and finds a user who
\* was deleted meanwhile gone.
LEMMA SelectKeeps ==
    ASSUME AccountsAssumption, AccountsInv, NEW t \in Txs, Select(t)
    PROVE  AccountsInv'
<1>1. /\ TypeOK /\ pc[t] = "begun" /\ UNCHANGED <<owns, who, wants>>
      /\ CanLock(t, who[t], "update")
  BY DEF AccountsInv, Select
<1>2. CASE End(t, "not found")
  BY <1>1, <1>2, EndKeeps DEF Answers
<1>3. CASE /\ Active(who[t]) /\ SelectUser(t)
           /\ Goto(t, IF t \in Deletes THEN "write" ELSE "check")
  <2>1. /\ t \in Updates \cup Deletes /\ who[t] \in Accounts
        /\ who[t] \in SignUps => pc[who[t]] = "done"
    BY <1>1, Kinds DEF AccountsInv, AboutAccounts
  <2>2. locks' = [locks EXCEPT ![t] = @ \cup {<<who[t], "update">>}]
    BY <1>3 DEF SelectUser, Lock
  <2>3. PICK l \in {"write", "check"} : pc' = [pc EXCEPT ![t] = l]
    BY <1>3 DEF Goto
  <2>4. TypeOK'
    <3>1. <<who[t], "update">> \in (Emails \cup Names \cup Accounts) \X Modes
      BY <2>1 DEF Modes
    <3> QED
      BY <1>1, <2>2, <2>3, <3>1 DEF TypeOK
  <2>5. /\ pc'[t] = l /\ \A u \in Txs : u # t => pc'[u] = pc[u]
        /\ locks'[t] = locks[t] \cup {<<who[t], "update">>}
        /\ \A u \in Txs : u # t => locks'[u] = locks[u]
    BY <1>1, <2>2, <2>3 DEF TypeOK
  <2>6. \A u \in Txs : Open(u)' => Open(u) \/ u = t
    BY <2>5 DEF Open
  <2>7. \A a : Active(a)' <=> Active(a)
    BY <1>1 DEF Active
  <2>8. \A u \in Txs : /\ NameIn(u)' <=> NameIn(u)
                       /\ EmailIn(u)' <=> EmailIn(u)
                       /\ HasName(u)' <=> HasName(u)
                       /\ HasEmail(u)' <=> HasEmail(u)
    <3>1. \A u \in Txs : HasName(u)' <=> HasName(u)
      BY <1>1 DEF HasName, Others
    <3>2. \A u \in Txs : HasEmail(u)' <=> HasEmail(u)
      BY <1>1 DEF HasEmail, Others
    <3>3. \A u \in Txs : /\ NameIn(u)' <=> NameIn(u)
                         /\ EmailIn(u)' <=> EmailIn(u)
      BY <1>1, <2>5 DEF NameIn, EmailIn
    <3> QED
      BY <3>1, <3>2, <3>3
  <2>9. AboutAccounts'
    <3>1. t \notin SignUps
      BY <2>1, Kinds
    <3>2. \A s \in SignUps : s \in Txs /\ s # t
      BY <3>1 DEF Txs, Writes
    <3>3. \A s \in SignUps :
              /\ pc'[s] # "begun"
              /\ pc'[s] # "idle" => who'[s] = s /\ wants'[s] \in Identities
              /\ Active(s)' => pc'[s] = "done"
      BY <1>1, <2>5, <2>7, <3>2 DEF AccountsInv, AboutAccounts
    <3>4. \A u \in Txs : pc'[u] # "idle" => who'[u] \in Accounts
      BY <1>1, <2>1, <2>5 DEF AccountsInv, AboutAccounts
    <3>5. ASSUME NEW u \in Updates \cup Deletes, pc'[u] # "idle",
                 who'[u] \in SignUps
          PROVE  pc'[who'[u]] = "done"
      <4>1. u \in Txs /\ who[u] \in Txs /\ who[u] # t
        BY <1>1, <3>2, <3>5 DEF Txs, Writes
      <4>2. pc[who[u]] = "done"
        BY <1>1, <2>1, <2>5, <3>5, <4>1 DEF AccountsInv, AboutAccounts
      <4> QED
        BY <1>1, <2>5, <4>1, <4>2
    <3> QED
      BY <3>3, <3>4, <3>5 DEF AboutAccounts
  <2>10. UserHeld'
    BY <1>1, <1>3, <2>5, <2>6, <2>7 DEF AccountsInv, UserHeld, Txs, Writes
  <2>11. Apart'
    <3>1. ASSUME NEW u \in Txs, u # t, Open(u)
          PROVE  who[u] # who[t]
      <4>1. CASE u \in SignUps
        <5>1. who[u] = u /\ pc[u] # "done" /\ ~Active(u)
          BY <3>1, <4>1 DEF AccountsInv, AboutAccounts, Open
        <5> QED
          BY <1>3, <5>1
      <4>2. CASE u \in Updates \cup Deletes
        <5>1. <<who[u], "update">> \in locks[u]
          BY <3>1, <4>2 DEF AccountsInv, UserHeld
        <5>2. Conflict("update", "update")
          BY ConflictFacts
        <5>3. ~CanLock(t, who[u], "update")
          BY <3>1, <5>1, <5>2, HeldIsNotLockable
        <5> QED
          BY <1>1, <5>3
      <4> QED
        BY <4>1, <4>2, Kinds
    <3> QED
      BY <1>1, <2>6, <3>1 DEF AccountsInv, Apart
  <2>12. EntriesHeld'
    BY <1>1, <2>5, <2>8 DEF AccountsInv, EntriesHeld, Txs
  <2>13. EntriesApart'
    BY <1>1, <2>8 DEF AccountsInv, EntriesApart, Txs
  <2>14. OneOwner'
    BY <1>1, <2>7 DEF AccountsInv, OneOwner
  <2>15. DeletedStaysAnonymous'
    BY <1>1, <2>5, <2>7 DEF AccountsInv, DeletedStaysAnonymous, Txs
  <2> QED
    BY <2>4, <2>9, <2>10, <2>11, <2>12, <2>13, <2>14, <2>15
       DEF AccountsInv
<1> QED
  BY <1>2, <1>3 DEF Select

\* The answer to a clash, and otherwise the next statement.
LEMMA CheckKeeps ==
    ASSUME AccountsAssumption, AccountsInv, NEW t \in Txs, Check(t)
    PROVE  AccountsInv'
<1>1. TypeOK /\ pc[t] = "check" /\ UNCHANGED <<owns, who, wants>>
  BY DEF AccountsInv, Check
<1>2. CASE End(t, "email taken") \/ End(t, "name taken")
  BY <1>1, <1>2, EndKeeps DEF Answers
<1>3. CASE Goto(t, "write") /\ UNCHANGED locks
  <2>1. TypeOK'
    BY <1>1, <1>3 DEF TypeOK, Goto
  <2>2. ~NameIn(t)' /\ ~EmailIn(t)'
    BY <1>1, <1>3 DEF NameIn, EmailIn, Goto, TypeOK
  <2> QED
    BY <1>1, <1>3, <2>1, <2>2, AdvanceKeeps DEF Open
<1> QED
  BY <1>2, <1>3 DEF Check

\* The old entries are locked before the new ones are written.
LEMMA WriteKeeps ==
    ASSUME AccountsAssumption, AccountsInv, NEW t \in Txs, Write(t)
    PROVE  AccountsInv'
<1>1. /\ TypeOK /\ pc[t] = "write" /\ UNCHANGED <<owns, who, wants>>
      /\ locks' = [locks EXCEPT ![t] = @ \cup (Overwritten(t) \X {"update"})]
      /\ Goto(t, IF t \in Deletes THEN "commit" ELSE "name")
  BY DEF AccountsInv, Write
<1>2. who[t] \in Accounts
  BY <1>1 DEF AccountsInv, AboutAccounts
<1>3. Overwritten(t) \subseteq Emails \cup Names
  BY <1>1, <1>2, Fields DEF Overwritten
<1>4. Overwritten(t) \X {"update"}
          \subseteq (Emails \cup Names \cup Accounts) \X Modes
  BY <1>3 DEF Modes
<1>5. TypeOK'
  BY <1>1, <1>4 DEF TypeOK, Goto
<1>6. /\ locks[t] \subseteq locks'[t]
      /\ \A u \in Txs : u # t => locks'[u] = locks[u]
  BY <1>1 DEF TypeOK
<1>7. ~NameIn(t)' /\ ~EmailIn(t)'
  <2>1. CASE t \in Deletes
    BY <2>1, Kinds DEF NameIn, EmailIn
  <2>2. CASE t \notin Deletes
    BY <1>1, <2>2 DEF NameIn, EmailIn, Goto, TypeOK
  <2> QED
    BY <2>1, <2>2
<1>8. PICK l \in {"commit", "name"} : Goto(t, l)
  BY <1>1
<1> QED
  BY <1>1, <1>5, <1>6, <1>7, <1>8, AdvanceKeeps DEF Open

\* The username goes into its index, unless an account has it.
LEMMA InsertNameKeeps ==
    ASSUME AccountsAssumption, AccountsInv, NEW t \in Txs, InsertName(t)
    PROVE  AccountsInv'
<1>1. TypeOK /\ pc[t] = "name" /\ UNCHANGED <<owns, who, wants>>
  BY DEF AccountsInv, InsertName, Insert
<1>2. CASE End(t, Violation(t, "name taken"))
  <2>1. Violation(t, "name taken") \in Answers \ {"done"}
    BY DEF Violation, Answers
  <2> QED
    BY <1>1, <1>2, <2>1, EndKeeps DEF Answers
<1>3. CASE /\ Goto(t, "email")
           /\ \/ wants[t].name = None /\ UNCHANGED locks
              \/ /\ wants[t].name # None
                 /\ Settled(t, wants[t].name) /\ ~NameTaken(t)
                 /\ locks' = [locks EXCEPT
                                  ![t] = @ \cup {<<wants[t].name, "update">>}]
  <2>1. TypeOK'
    <3>1. wants[t].name # None =>
              <<wants[t].name, "update">>
                  \in (Emails \cup Names \cup Accounts) \X Modes
      BY <1>1, Fields DEF Modes
    <3> QED
      BY <1>1, <1>3, <3>1 DEF TypeOK, Goto
  <2>2. /\ locks[t] \subseteq locks'[t]
        /\ \A u \in Txs : u # t => locks'[u] = locks[u]
        /\ wants[t].name # None => <<wants[t].name, "update">> \in locks'[t]
    BY <1>1, <1>3 DEF TypeOK
  <2>3. NameIn(t)' => /\ Settled(t, wants[t].name) /\ ~HasName(t)
                      /\ <<wants[t].name, "update">> \in locks'[t]
    BY <1>1, <1>3, <2>2 DEF NameIn, NameTaken
  <2>4. ~EmailIn(t)'
    BY <1>1, <1>3 DEF EmailIn, Goto, TypeOK
  <2> QED
    BY <1>1, <1>3, <2>1, <2>2, <2>3, <2>4, AdvanceKeeps DEF Open
<1> QED
  BY <1>1, <1>2, <1>3 DEF InsertName, Insert

\* The email address goes into its index; the username stays in its own.
LEMMA InsertEmailKeeps ==
    ASSUME AccountsAssumption, AccountsInv, NEW t \in Txs, InsertEmail(t)
    PROVE  AccountsInv'
<1>1. TypeOK /\ pc[t] = "email" /\ UNCHANGED <<owns, who, wants>>
  BY DEF AccountsInv, InsertEmail, Insert
<1>2. CASE End(t, Violation(t, "email taken"))
  <2>1. Violation(t, "email taken") \in Answers \ {"done"}
    BY DEF Violation, Answers
  <2> QED
    BY <1>1, <1>2, <2>1, EndKeeps DEF Answers
<1>3. CASE /\ Goto(t, "commit")
           /\ \/ wants[t].email = None /\ UNCHANGED locks
              \/ /\ wants[t].email # None
                 /\ Settled(t, wants[t].email) /\ ~EmailTaken(t)
                 /\ locks' = [locks EXCEPT
                                  ![t] = @ \cup {<<wants[t].email, "update">>}]
  <2>1. TypeOK'
    <3>1. wants[t].email # None =>
              <<wants[t].email, "update">>
                  \in (Emails \cup Names \cup Accounts) \X Modes
      BY <1>1, Fields DEF Modes
    <3> QED
      BY <1>1, <1>3, <3>1 DEF TypeOK, Goto
  <2>2. /\ locks[t] \subseteq locks'[t]
        /\ \A u \in Txs : u # t => locks'[u] = locks[u]
        /\ wants[t].email # None => <<wants[t].email, "update">> \in locks'[t]
    BY <1>1, <1>3 DEF TypeOK
  <2>3. EmailIn(t)' => /\ Settled(t, wants[t].email) /\ ~HasEmail(t)
                       /\ <<wants[t].email, "update">> \in locks'[t]
    BY <1>1, <1>3, <2>2 DEF EmailIn, EmailTaken
  <2>4. NameIn(t)' => NameIn(t)
    BY <1>1 DEF NameIn
  <2> QED
    BY <1>1, <1>3, <2>1, <2>2, <2>3, <2>4, AdvanceKeeps DEF Open
<1> QED
  BY <1>1, <1>2, <1>3 DEF InsertEmail, Insert

LEMMA WaitFailsKeeps ==
    ASSUME AccountsAssumption, AccountsInv, NEW t \in Txs, WaitFails(t)
    PROVE  AccountsInv'
<1>1. pc[t] \in {"begun", "name", "email"} /\ UNCHANGED <<owns, who, wants>>
  BY DEF WaitFails, WaitEnds
<1>2. PICK l \in {"conflict", "lost"} : End(t, l)
  BY DEF WaitFails
<1> QED
  BY <1>1, <1>2, EndKeeps DEF Answers

LEMMA CrashKeeps ==
    ASSUME AccountsAssumption, AccountsInv, NEW t \in Txs, Crash(t)
    PROVE  AccountsInv'
BY EndKeeps DEF Crash, Ended, Answers

-----------------------------------------------------------------------------
(* COMMIT *)

\* What an account has after COMMIT: what was asked for, and otherwise what it
\* had.
LEMMA CommitWrites ==
    ASSUME AccountsAssumption, AccountsInv, NEW t \in Txs, Commit(t)
    PROVE  /\ t \in Deletes => owns'[who[t]] = Nobody
           /\ t \in Writes =>
                  /\ owns'[who[t]] \in Identities
                  /\ owns'[who[t]].name =
                         IF NameIn(t) THEN wants[t].name
                                      ELSE owns[who[t]].name
                  /\ owns'[who[t]].email =
                         IF EmailIn(t) THEN wants[t].email
                                       ELSE owns[who[t]].email
                  /\ Active(who[t]) \/ (NameIn(t) /\ EmailIn(t))
<1>1. TypeOK /\ pc[t] = "commit" /\ who[t] \in Accounts
  BY DEF AccountsInv, Commit, AboutAccounts
<1>2. owns'[who[t]] = IF t \in Deletes THEN Nobody
                      ELSE Patched(owns[who[t]], wants[t])
  BY <1>1 DEF Commit, TypeOK
<1>3. CASE t \in Writes
  <2>1. /\ NameIn(t) <=> wants[t].name # None
        /\ EmailIn(t) <=> wants[t].email # None
    BY <1>1, <1>3 DEF NameIn, EmailIn
  <2>2. owns'[who[t]] = Patched(owns[who[t]], wants[t])
    BY <1>2, <1>3, Kinds
  <2>3. /\ owns'[who[t]].name = IF NameIn(t) THEN wants[t].name
                                             ELSE owns[who[t]].name
        /\ owns'[who[t]].email = IF EmailIn(t) THEN wants[t].email
                                               ELSE owns[who[t]].email
    BY <2>1, <2>2 DEF Patched
  <2>4. Active(who[t]) \/ (NameIn(t) /\ EmailIn(t))
    <3>1. CASE t \in SignUps
      <4>1. wants[t] \in Identities
        BY <1>1, <3>1 DEF AccountsInv, AboutAccounts
      <4>2. wants[t].name \in Names /\ wants[t].email \in Emails
        BY <4>1 DEF Identities
      <4> QED
        BY <1>1, <2>1, <4>2, Fields
    <3>2. CASE t \in Updates \cup Deletes
      BY <1>1, <3>2 DEF AccountsInv, UserHeld, Open
    <3> QED
      BY <3>1, <3>2, Kinds
  <2>5. owns'[who[t]] \in Identities
    <3>1. /\ Active(who[t]) => /\ owns[who[t]].email \in Emails
                               /\ owns[who[t]].name \in Names
          /\ wants[t].email \in Emails \cup {None}
          /\ wants[t].name \in Names \cup {None}
      BY <1>1, Fields
    <3> QED
      BY <2>1, <2>2, <2>4, <3>1 DEF Patched, Identities
  <2> QED
    BY <1>3, <2>3, <2>4, <2>5, Kinds
<1> QED
  BY <1>2, <1>3, Kinds

\* What it has then, no other account has.
LEMMA CommitIsAlone ==
    ASSUME AccountsAssumption, AccountsInv, NEW t \in Writes, Commit(t),
           NEW a \in Accounts, a # who[t], Active(a)
    PROVE  /\ owns[a].name # owns'[who[t]].name
           /\ owns[a].email # owns'[who[t]].email
<1>1. t \in Txs /\ who[t] \in Accounts /\ a \in Others(t)
  BY DEF AccountsInv, Commit, AboutAccounts, Others, Txs
<1>2. owns[a].name # owns'[who[t]].name
  <2>1. CASE NameIn(t)
    BY <1>1, <2>1, CommitWrites DEF AccountsInv, EntriesHeld, HasName
  <2>2. CASE ~NameIn(t)
    BY <1>1, <2>2, CommitWrites DEF AccountsInv, OneOwner
  <2> QED
    BY <2>1, <2>2
<1>3. owns[a].email # owns'[who[t]].email
  <2>1. CASE EmailIn(t)
    BY <1>1, <2>1, CommitWrites DEF AccountsInv, EntriesHeld, HasEmail
  <2>2. CASE ~EmailIn(t)
    BY <1>1, <2>2, CommitWrites DEF AccountsInv, OneOwner
  <2> QED
    BY <2>1, <2>2
<1> QED
  BY <1>2, <1>3

\* What another transaction has in an index stays free for it.
LEMMA CommitLeavesEntries ==
    ASSUME AccountsAssumption, AccountsInv, NEW t \in Txs, Commit(t),
           NEW u \in Writes, u # t
    PROVE  /\ NameIn(u) => ~HasName(u)'
           /\ EmailIn(u) => ~HasEmail(u)'
<1>1. /\ TypeOK /\ pc[t] = "commit" /\ UNCHANGED <<who, wants>>
      /\ u \in Txs /\ who[t] \in Accounts
      /\ \A a \in Accounts : a # who[t] => owns'[a] = owns[a]
  BY DEF AccountsInv, Commit, AboutAccounts, TypeOK, Txs
<1>2. NameIn(u) \/ EmailIn(u) => who[u] # who[t]
  BY <1>1 DEF AccountsInv, Apart, Open, NameIn, EmailIn
<1>3. Nobody.name = None /\ Nobody.email = None
  BY DEF Nobody
<1>4. ASSUME NameIn(u)
      PROVE  ~HasName(u)'
  <2>1. \A a \in Others(u) : owns[a].name # wants[u].name
    BY <1>4 DEF AccountsInv, EntriesHeld, HasName
  <2>2. wants[u].name # None /\ who[t] \in Others(u)
    BY <1>1, <1>2, <1>4 DEF NameIn, Others
  <2>3. owns'[who[t]].name # wants[u].name
    <3>1. CASE t \in Deletes
      BY <1>3, <2>2, <3>1, CommitWrites
    <3>2. CASE t \in Writes /\ NameIn(t)
      BY <1>1, <1>4, <3>2, CommitWrites DEF AccountsInv, EntriesApart
    <3>3. CASE t \in Writes /\ ~NameIn(t)
      BY <2>1, <2>2, <3>3, CommitWrites
    <3> QED
      BY <3>1, <3>2, <3>3, Kinds
  <2>4. \A a \in Others(u) : owns'[a].name # wants[u].name
    BY <1>1, <2>1, <2>3 DEF Others
  <2> QED
    BY <1>1, <2>4 DEF HasName, Others
<1>5. ASSUME EmailIn(u)
      PROVE  ~HasEmail(u)'
  <2>1. \A a \in Others(u) : owns[a].email # wants[u].email
    BY <1>5 DEF AccountsInv, EntriesHeld, HasEmail
  <2>2. wants[u].email # None /\ who[t] \in Others(u)
    BY <1>1, <1>2, <1>5 DEF EmailIn, Others
  <2>3. owns'[who[t]].email # wants[u].email
    <3>1. CASE t \in Deletes
      BY <1>3, <2>2, <3>1, CommitWrites
    <3>2. CASE t \in Writes /\ EmailIn(t)
      BY <1>1, <1>5, <3>2, CommitWrites DEF AccountsInv, EntriesApart
    <3>3. CASE t \in Writes /\ ~EmailIn(t)
      BY <2>1, <2>2, <3>3, CommitWrites
    <3> QED
      BY <3>1, <3>2, <3>3, Kinds
  <2>4. \A a \in Others(u) : owns'[a].email # wants[u].email
    BY <1>1, <2>1, <2>3 DEF Others
  <2> QED
    BY <1>1, <2>4 DEF HasEmail, Others
<1> QED
  BY <1>4, <1>5

LEMMA CommitKeeps ==
    ASSUME AccountsAssumption, AccountsInv, NEW t \in Txs, Commit(t)
    PROVE  AccountsInv'
<1>1. /\ TypeOK /\ pc[t] = "commit" /\ UNCHANGED <<who, wants>>
      /\ who[t] \in Accounts
      /\ pc' = [pc EXCEPT ![t] = "done"] /\ locks' = [locks EXCEPT ![t] = {}]
  BY DEF AccountsInv, Commit, AboutAccounts, End, Goto
<1>2. /\ pc'[t] = "done" /\ \A u \in Txs : u # t => pc'[u] = pc[u]
      /\ \A u \in Txs : u # t => locks'[u] = locks[u]
      /\ \A a \in Accounts : a # who[t] => owns'[a] = owns[a]
  BY <1>1 DEF TypeOK, Commit
<1>3. /\ owns'[who[t]] \in Identities \cup {Nobody}
      /\ t \in Deletes => ~Active(who[t])'
  BY <1>1, CommitWrites, Kinds DEF Active
<1>4. TypeOK'
  <2>1. owns' = [owns EXCEPT ![who[t]] = owns'[who[t]]]
    BY <1>1 DEF Commit, TypeOK
  <2> QED
    BY <1>1, <1>3, <2>1 DEF TypeOK, Answers
<1>5. \A a \in Accounts : a # who[t] => (Active(a)' <=> Active(a))
  BY <1>2 DEF Active
<1>6. /\ \A u \in Txs : Open(u)' => u # t /\ Open(u) /\ who[u] # who[t]
      /\ \A u \in Writes : NameIn(u)' => u # t /\ NameIn(u)
      /\ \A u \in Writes : EmailIn(u)' => u # t /\ EmailIn(u)
  <2>1. Open(t)
    BY <1>1 DEF Open
  <2>2. \A u \in Txs : Open(u)' => u # t /\ Open(u)
    BY <1>2 DEF Open
  <2>3. \A u \in Writes : NameIn(u)' => u # t /\ NameIn(u)
    BY <1>1, <1>2 DEF NameIn, Txs
  <2>4. \A u \in Writes : EmailIn(u)' => u # t /\ EmailIn(u)
    BY <1>1, <1>2 DEF EmailIn, Txs
  <2> QED
    BY <2>1, <2>2, <2>3, <2>4 DEF AccountsInv, Apart
<1>7. AboutAccounts'
  <2>1. \A u \in Txs : pc'[u] # "idle" => who'[u] \in Accounts
    BY <1>1, <1>2 DEF AccountsInv, AboutAccounts
  <2>2. ASSUME NEW s \in SignUps
        PROVE  /\ pc'[s] # "begun"
               /\ pc'[s] # "idle" => who'[s] = s /\ wants'[s] \in Identities
               /\ Active(s)' => pc'[s] = "done"
    <3>1. s \in Txs /\ s \in Accounts
      BY DEF Txs, Writes, Accounts
    <3>2. CASE s = t
      BY <1>1, <1>2, <3>1, <3>2 DEF AccountsInv, AboutAccounts
    <3>3. CASE s # t
      <4>1. s = who[t] => pc[s] = "done"
        BY <1>1, <3>3, Kinds DEF AccountsInv, AboutAccounts
      <4>2. Active(s)' => pc[s] = "done"
        BY <1>5, <3>1, <4>1 DEF AccountsInv, AboutAccounts
      <4> QED
        BY <1>1, <1>2, <3>1, <3>3, <4>2 DEF AccountsInv, AboutAccounts
    <3> QED
      BY <3>2, <3>3
  <2>3. ASSUME NEW u \in Updates \cup Deletes, pc'[u] # "idle",
               who'[u] \in SignUps
        PROVE  pc'[who'[u]] = "done"
    <3>1. who[u] \in Txs /\ u \in Txs /\ pc[u] # "idle"
      BY <1>1, <1>2, <2>3 DEF Txs, Writes
    <3> QED
      BY <1>1, <1>2, <2>3, <3>1 DEF AccountsInv, AboutAccounts
  <2> QED
    BY <2>1, <2>2, <2>3 DEF AboutAccounts
<1>8. UserHeld'
  <2>1. SUFFICES ASSUME NEW u \in Updates \cup Deletes, Open(u)'
                 PROVE  Active(who[u])' /\ <<who[u], "update">> \in locks'[u]
    BY <1>1 DEF UserHeld
  <2>2. u \in Txs /\ u # t /\ Open(u) /\ who[u] # who[t]
    BY <1>6, <2>1 DEF Txs, Writes
  <2>3. Active(who[u]) /\ <<who[u], "update">> \in locks[u]
    BY <2>2 DEF AccountsInv, UserHeld
  <2>4. who[u] \in Accounts
    BY <2>2 DEF AccountsInv, AboutAccounts, Open
  <2> QED
    BY <1>1, <1>2, <1>5, <2>2, <2>3, <2>4 DEF Active
<1>9. Apart'
  BY <1>1, <1>6 DEF AccountsInv, Apart
<1>10. EntriesHeld'
  BY <1>1, <1>2, <1>6, CommitLeavesEntries DEF AccountsInv, EntriesHeld, Txs
<1>11. EntriesApart'
  BY <1>1, <1>6 DEF AccountsInv, EntriesApart
<1>12. OneOwner'
  <2>1. ASSUME NEW a \in Accounts, NEW b \in Accounts, a # b, a # who[t],
               Active(a)', Active(b)'
        PROVE  /\ owns'[a].email # owns'[b].email
               /\ owns'[a].name # owns'[b].name
    <3>1. Active(a) /\ owns'[a] = owns[a]
      BY <1>2, <1>5, <2>1
    <3>2. CASE b = who[t]
      <4>1. t \in Writes
        BY <1>1, <1>3, <2>1, <3>2, Kinds DEF Active
      <4> QED
        BY <2>1, <3>1, <3>2, <4>1, CommitIsAlone
    <3>3. CASE b # who[t]
      BY <1>2, <1>5, <2>1, <3>1, <3>3 DEF AccountsInv, OneOwner
    <3> QED
      BY <3>2, <3>3
  <2> SUFFICES ASSUME NEW a \in Accounts, NEW b \in Accounts, a # b,
                      Active(a)', Active(b)'
               PROVE  /\ owns'[a].email # owns'[b].email
                      /\ owns'[a].name # owns'[b].name
    BY DEF OneOwner
  <2>2. CASE a # who[t]
    BY <2>1, <2>2
  <2>3. CASE b # who[t]
    BY <2>1, <2>3
  <2> QED
    BY <2>2, <2>3
<1>13. DeletedStaysAnonymous'
  <2> SUFFICES ASSUME NEW d \in Deletes, pc'[d] = "done"
               PROVE  ~Active(who[d])'
    BY DEF DeletedStaysAnonymous
  <2>1. CASE d = t
    BY <1>3, <2>1
  <2>2. CASE d # t
    <3>1. d \in Txs /\ pc[d] = "done" /\ ~Active(who[d]) /\ who[d] \in Accounts
      BY <1>2, <2>2 DEF AccountsInv, DeletedStaysAnonymous, AboutAccounts, Txs
    <3>2. CASE t \in Deletes
      BY <1>1, <1>3, <1>5, <3>1, <3>2 DEF Active
    <3>3. CASE t \in Updates
      <4>1. Active(who[t])
        BY <1>1, <3>3 DEF AccountsInv, UserHeld, Open
      <4> QED
        BY <1>1, <1>5, <3>1, <4>1 DEF Active
    <3>4. CASE t \in SignUps
      <4>1. who[t] = t /\ who[d] # t
        BY <1>1, <3>1, <3>4 DEF AccountsInv, AboutAccounts
      <4> QED
        BY <1>1, <1>5, <3>1, <4>1 DEF Active
    <3> QED
      BY <3>2, <3>3, <3>4 DEF Txs, Writes
  <2> QED
    BY <2>1, <2>2
<1> QED
  BY <1>4, <1>7, <1>8, <1>9, <1>10, <1>11, <1>12, <1>13 DEF AccountsInv

-----------------------------------------------------------------------------
(* Theorems *)

LEMMA AccountsStep ==
    ASSUME AccountsAssumption, AccountsInv, [Next]_vars
    PROVE  AccountsInv'
<1>1. CASE Next
  <2>1. PICK t \in Txs : Begin(t) \/ Step(t) \/ Crash(t)
    BY <1>1 DEF Next
  <2>2. CASE Begin(t)
    BY <2>2, BeginKeeps
  <2>3. CASE Step(t)
    BY <2>3, SelectKeeps, CheckKeeps, WriteKeeps, InsertNameKeeps,
       InsertEmailKeeps, CommitKeeps, WaitFailsKeeps DEF Step
  <2>4. CASE Crash(t)
    BY <2>4, CrashKeeps
  <2> QED
    BY <2>1, <2>2, <2>3, <2>4
<1>2. CASE UNCHANGED vars
  <2>1. UNCHANGED <<owns, pc, who, wants, locks>>
    BY <1>2 DEF vars
  <2>2. /\ \A a : Active(a)' <=> Active(a)
        /\ \A t : Open(t)' <=> Open(t)
        /\ \A t : NameIn(t)' <=> NameIn(t)
        /\ \A t : EmailIn(t)' <=> EmailIn(t)
        /\ \A t : HasName(t)' <=> HasName(t)
        /\ \A t : HasEmail(t)' <=> HasEmail(t)
    BY <2>1 DEF Active, Open, NameIn, EmailIn, HasName, HasEmail, Others
  <2>3. TypeOK'
    BY <2>1 DEF AccountsInv, TypeOK
  <2>4. AboutAccounts' /\ UserHeld' /\ Apart'
    BY <2>1, <2>2 DEF AccountsInv, AboutAccounts, UserHeld, Apart
  <2>5. EntriesHeld' /\ EntriesApart'
    BY <2>1, <2>2 DEF AccountsInv, EntriesHeld, EntriesApart
  <2>6. OneOwner' /\ DeletedStaysAnonymous'
    BY <2>1, <2>2 DEF AccountsInv, OneOwner, DeletedStaysAnonymous
  <2> QED
    BY <2>3, <2>4, <2>5, <2>6 DEF AccountsInv
<1> QED
  BY <1>1, <1>2

\* Sign-ups, profile changes and deletions keep the types, whatever dies.
THEOREM AccountsTypeCorrect ==
    ASSUME AccountsAssumption
    PROVE  Spec => []TypeOK
<1>1. Init => AccountsInv
  BY InitAccounts
<1>2. AccountsInv /\ [Next]_vars => AccountsInv'
  BY AccountsStep
<1>3. AccountsInv => TypeOK
  BY DEF AccountsInv
<1> QED
  BY <1>1, <1>2, <1>3, PTL DEF Spec

\* However many requests look for a clash before they write, no two accounts
\* ever have the same email address or username, and a deleted account gets
\* none back from a change that was under way.
THEOREM AccountsOwned ==
    ASSUME AccountsAssumption
    PROVE  Spec => []IdentitiesAreOwned
<1>1. Init => AccountsInv
  BY InitAccounts
<1>2. AccountsInv /\ [Next]_vars => AccountsInv'
  BY AccountsStep
<1>3. AccountsInv => IdentitiesAreOwned
  BY DEF AccountsInv, IdentitiesAreOwned
<1> QED
  BY <1>1, <1>2, <1>3, PTL DEF Spec
-----------------------------------------------------------------------------
(* Side by side (MCUsers) *)

LEMMA SameBook ==
    /\ Book!Init <=> Parts!Book!Init
    /\ Book!Next <=> Parts!Book!Next
    /\ Book!BookAssumption <=> Parts!Book!BookAssumption
    /\ Book!TypeOK <=> Parts!Book!TypeOK
    /\ Book!HasDefault <=> Parts!Book!HasDefault
    /\ Book!BookIsLegal <=> Parts!Book!BookIsLegal
    /\ Book!OnlyAdds <=> Parts!Book!OnlyAdds
    /\ Book!NoneUnset <=> Parts!Book!NoneUnset
    /\ Book!OneAtATime <=> Parts!Book!OneAtATime
    /\ Book!OnlyAdds' <=> Parts!Book!OnlyAdds'
    /\ Book!NoneUnset' <=> Parts!Book!NoneUnset'
    /\ Book!OneAtATime' <=> Parts!Book!OneAtATime'
BY DEF Book!BookAssumption, Parts!Book!BookAssumption, Book!Ids,
    Parts!Book!Ids, Book!Written, Parts!Book!Written, Book!Kept,
    Parts!Book!Kept, Book!TypeOK, Parts!Book!TypeOK, Book!Init,
    Parts!Book!Init, Book!Sees, Parts!Book!Sees, Book!Book, Parts!Book!Book,
    Book!Used, Parts!Book!Used, Book!Goto, Parts!Book!Goto, Book!Write,
    Parts!Book!Write, Book!LockRow, Parts!Book!LockRow, Book!Abort,
    Parts!Book!Abort, Book!IndexWaits, Parts!Book!IndexWaits,
    Book!IndexRefuses, Parts!Book!IndexRefuses, Book!WriteDefault,
    Parts!Book!WriteDefault, Book!Open, Parts!Book!Open, Book!Begin,
    Parts!Book!Begin, Book!Creates, Parts!Book!Creates, Book!ShouldBeDefault,
    Parts!Book!ShouldBeDefault, Book!LimitReached, Parts!Book!LimitReached,
    Book!CountAddresses, Parts!Book!CountAddresses, Book!SelectOwned,
    Parts!Book!SelectOwned, Book!Defaults, Parts!Book!Defaults,
    Book!ClearSelect, Parts!Book!ClearSelect, Book!ClearDefault,
    Parts!Book!ClearDefault, Book!Insert, Parts!Book!Insert, Book!UpdateRow,
    Parts!Book!UpdateRow, Book!Promotes, Parts!Book!Promotes, Book!DeleteRow,
    Parts!Book!DeleteRow, Book!MostRecent, Parts!Book!MostRecent,
    Book!PromoteSelect, Parts!Book!PromoteSelect, Book!Promote,
    Parts!Book!Promote, Book!Commit, Parts!Book!Commit, Book!WaitFails,
    Parts!Book!WaitFails, Book!Step, Parts!Book!Step, Book!Next,
    Parts!Book!Next, Book!Saved, Parts!Book!Saved, Book!HasDefault,
    Parts!Book!HasDefault, Book!WithinLimit, Parts!Book!WithinLimit,
    Book!SwapIsLegal, Parts!Book!SwapIsLegal, Book!OnlyAdds,
    Parts!Book!OnlyAdds, Book!NoneUnset, Parts!Book!NoneUnset, Book!OneAtATime,
    Parts!Book!OneAtATime, Book!BookIsLegal, Parts!Book!BookIsLegal,
    Book!Conflict, Parts!Book!Conflict, Book!CanLock, Parts!Book!CanLock,
    Book!Lock, Parts!Book!Lock, Book!Cardinality, Parts!Book!Cardinality

LEMMA BookStarts ==
    MCInit /\ part \in {"edits", "additions", "turns"} =>
        /\ Parts!Book!Init
        /\ Parts!Book!OnlyAdds
        /\ Parts!Book!OneAtATime
        /\ Parts!Book!NoneUnset
<1>1. MCInit /\ part \in {"edits", "additions", "turns"} => Book!Init
  BY DEF MCInit
<1>2. Book!Init => Book!OnlyAdds /\ Book!OneAtATime /\ Book!NoneUnset
  BY DEF Book!Init, Book!OnlyAdds, Book!OneAtATime, Book!Open, Book!NoneUnset
<1> QED
  BY <1>1, <1>2, SameBook

\* A step of the run leaves the address book, and what its requests may do at
\* once, as they are, or is a step of the address book.
LEMMA BookRests ==
    ASSUME UNCHANGED state
    PROVE  /\ part' = part
           /\ UNCHANGED Parts!Book!vars
           /\ Parts!Book!OnlyAdds' <=> Parts!Book!OnlyAdds
           /\ Parts!Book!OneAtATime' <=> Parts!Book!OneAtATime
           /\ Parts!Book!NoneUnset' <=> Parts!Book!NoneUnset
<1>1. part' = part /\ UNCHANGED Parts!Book!vars
  BY DEF state, Parts!Book!vars
<1> QED
  BY <1>1 DEF Parts!Book!vars, Parts!Book!OnlyAdds, Parts!Book!OneAtATime,
              Parts!Book!NoneUnset, Parts!Book!Open

LEMMA EditsAlone == MCSpec => [](part = "edits" => Book!TypeOK)
<1> DEFINE Runs == part = "edits"
<1>1. MCInit /\ Runs => Parts!Book!Init
  BY BookStarts
<1>2. ASSUME [MCNext]_state, Runs
      PROVE  Runs' /\ [Parts!Book!Next]_(Parts!Book!vars)
  <2>1. CASE MCNext
    <3>1. part' = part /\ Book!Next
      BY <1>2, <2>1 DEF MCNext
    <3> QED
      BY <1>2, <3>1, SameBook
  <2>2. CASE UNCHANGED state
    BY <1>2, <2>2, BookRests
  <2> QED
    BY <1>2, <2>1, <2>2
<1>3. [MCNext]_state /\ ~Runs => ~Runs'
  BY DEF MCNext, state
<1>4. Parts!Book!BookAssumption
  BY BookHolds, SameBook
<1>5. Parts!Book!Spec => []Parts!Book!TypeOK
  BY <1>4, Parts!OneDefaultOnly
<1>6. Parts!Book!TypeOK => Book!TypeOK
  BY SameBook
<1> QED
  BY <1>1, <1>2, <1>3, <1>5, <1>6, PTL DEF MCSpec, Parts!Book!Spec

LEMMA AdditionsAlone == MCSpec => [](part = "additions" => Book!HasDefault)
<1> DEFINE Runs == part = "additions"
           May == Parts!Book!OnlyAdds
<1>1. MCInit /\ Runs => Parts!Book!Init /\ May
  BY BookStarts
<1>2. ASSUME [MCNext]_state, Runs, May
      PROVE  Runs' /\ [Parts!Book!Next]_(Parts!Book!vars) /\ May'
  <2>1. CASE MCNext
    <3>1. part' = part /\ Book!Next /\ Book!OnlyAdds'
      BY <1>2, <2>1 DEF MCNext
    <3> QED
      BY <1>2, <3>1, SameBook
  <2>2. CASE UNCHANGED state
    BY <1>2, <2>2, BookRests
  <2> QED
    BY <1>2, <2>1, <2>2
<1>3. [MCNext]_state /\ ~Runs => ~Runs'
  BY DEF MCNext, state
<1>4. Parts!Book!BookAssumption
  BY BookHolds, SameBook
<1>5. Parts!Book!Spec /\ []May => []Parts!Book!HasDefault
  BY <1>4, Parts!AlwaysADefault
<1>6. Parts!Book!HasDefault => Book!HasDefault
  BY SameBook
<1> HIDE DEF May
<1> QED
  BY <1>1, <1>2, <1>3, <1>5, <1>6, PTL DEF MCSpec, Parts!Book!Spec

LEMMA TurnsAlone == MCSpec => [](part = "turns" => Book!BookIsLegal)
<1> DEFINE Runs == part = "turns"
           One == Parts!Book!OneAtATime
           Set == Parts!Book!NoneUnset
<1>1. MCInit /\ Runs => Parts!Book!Init /\ One /\ Set
  BY BookStarts
<1>2. ASSUME [MCNext]_state, Runs, One, Set
      PROVE  Runs' /\ [Parts!Book!Next]_(Parts!Book!vars) /\ One' /\ Set'
  <2>1. CASE MCNext
    <3>1. /\ part' = part /\ Book!Next
          /\ Book!OneAtATime' /\ Book!NoneUnset'
      BY <1>2, <2>1 DEF MCNext
    <3> QED
      BY <1>2, <3>1, SameBook
  <2>2. CASE UNCHANGED state
    BY <1>2, <2>2, BookRests
  <2> QED
    BY <1>2, <2>1, <2>2
<1>3. [MCNext]_state /\ ~Runs => ~Runs'
  BY DEF MCNext, state
<1>4. Parts!Book!BookAssumption
  BY BookHolds, SameBook
<1>5. Parts!Book!Spec /\ []One /\ []Set => []Parts!Book!BookIsLegal
  BY <1>4, Parts!BookIsLegalAlone
<1>6. Parts!Book!BookIsLegal => Book!BookIsLegal
  BY SameBook
<1> HIDE DEF One, Set
<1> QED
  BY <1>1, <1>2, <1>3, <1>5, <1>6, PTL DEF MCSpec, Parts!Book!Spec

\* "The user always has a default to check out with": of the requests of the
\* run, those that add addresses concurrently and those that follow one
\* another leave one, and the latter keep the limit and the unique index.
THEOREM BookStaysLegal == MCSpec => []BookIsLegal
<1>1. /\ part = "edits" => Book!TypeOK
      /\ part = "additions" => Book!HasDefault
      /\ part = "turns" => Book!BookIsLegal
      <=> BookIsLegal
  BY DEF BookIsLegal
<1> QED
  BY <1>1, EditsAlone, AdditionsAlone, TurnsAlone, PTL

LEMMA SameCart ==
    /\ Cart!Init <=> Parts!Cart!Init
    /\ Cart!Next <=> Parts!Cart!Next
    /\ Cart!CartAssumption <=> Parts!Cart!CartAssumption
    /\ Cart!MergeIsIdempotent <=> Parts!Cart!MergeIsIdempotent
    /\ Cart!OneLineChanges <=> Parts!Cart!OneLineChanges
    /\ Cart!vars = Parts!Cart!vars
BY DEF Cart!CartAssumption, Parts!Cart!CartAssumption, Cart!vars,
    Parts!Cart!vars, Cart!catalogue, Parts!Cart!catalogue, Cart!Carts,
    Parts!Cart!Carts, Cart!EmptyCart, Parts!Cart!EmptyCart, Cart!Lines,
    Parts!Cart!Lines, Cart!View, Parts!Cart!View, Cart!NoProduct,
    Parts!Cart!NoProduct, Cart!Idle, Parts!Cart!Idle, Cart!TypeOK,
    Parts!Cart!TypeOK, Cart!Init, Parts!Cart!Init, Cart!NotPending,
    Parts!Cart!NotPending, Cart!Quantities, Parts!Cart!Quantities, Cart!Send,
    Parts!Cart!Send, Cart!Receive, Parts!Cart!Receive, Cart!At, Parts!Cart!At,
    Cart!Fail, Parts!Cart!Fail, Cart!WriteRaw, Parts!Cart!WriteRaw,
    Cart!Without, Parts!Cart!Without, Cart!Lookup, Parts!Cart!Lookup,
    Cart!ReadRaw, Parts!Cart!ReadRaw, Cart!LineFits, Parts!Cart!LineFits,
    Cart!AddItem, Parts!Cart!AddItem, Cart!SetItemQuantity,
    Parts!Cart!SetItemQuantity, Cart!RemoveItem, Parts!Cart!RemoveItem,
    Cart!ClearCart, Parts!Cart!ClearCart, Cart!Sum, Parts!Cart!Sum,
    Cart!Larger, Parts!Cart!Larger, Cart!MergeInto, Parts!Cart!MergeInto,
    Cart!Orders, Parts!Cart!Orders, Cart!MergeCart, Parts!Cart!MergeCart,
    Cart!GetCart, Parts!Cart!GetCart, Cart!Sell, Parts!Cart!Sell, Cart!Handle,
    Parts!Cart!Handle, Cart!Next, Parts!Cart!Next, Cart!OneLineChanges,
    Parts!Cart!OneLineChanges, Cart!MergeIsIdempotent,
    Parts!Cart!MergeIsIdempotent, Cart!Min, Parts!Cart!Min, Cart!Max,
    Parts!Cart!Max, Cart!Cardinality, Parts!Cart!Cardinality, Cart!IsFiniteSet,
    Parts!Cart!IsFiniteSet

LEMMA SamePage ==
    /\ Page!Init <=> Second!Cart!Init
    /\ Page!Next <=> Second!Cart!Next
    /\ Page!CartAssumption <=> Second!Cart!CartAssumption
    /\ Page!MergeIsIdempotent <=> Second!Cart!MergeIsIdempotent
    /\ Page!OneLineChanges <=> Second!Cart!OneLineChanges
    /\ Page!vars = Second!Cart!vars
BY DEF Page!CartAssumption, Second!Cart!CartAssumption, Page!vars,
    Second!Cart!vars, Page!catalogue, Second!Cart!catalogue, Page!Carts,
    Second!Cart!Carts, Page!EmptyCart, Second!Cart!EmptyCart, Page!Lines,
    Second!Cart!Lines, Page!View, Second!Cart!View, Page!NoProduct,
    Second!Cart!NoProduct, Page!Idle, Second!Cart!Idle, Page!TypeOK,
    Second!Cart!TypeOK, Page!Init, Second!Cart!Init, Page!NotPending,
    Second!Cart!NotPending, Page!Quantities, Second!Cart!Quantities, Page!Send,
    Second!Cart!Send, Page!Receive, Second!Cart!Receive, Page!At,
    Second!Cart!At, Page!Fail, Second!Cart!Fail, Page!WriteRaw,
    Second!Cart!WriteRaw, Page!Without, Second!Cart!Without, Page!Lookup,
    Second!Cart!Lookup, Page!ReadRaw, Second!Cart!ReadRaw, Page!LineFits,
    Second!Cart!LineFits, Page!AddItem, Second!Cart!AddItem,
    Page!SetItemQuantity, Second!Cart!SetItemQuantity, Page!RemoveItem,
    Second!Cart!RemoveItem, Page!ClearCart, Second!Cart!ClearCart, Page!Sum,
    Second!Cart!Sum, Page!Larger, Second!Cart!Larger, Page!MergeInto,
    Second!Cart!MergeInto, Page!Orders, Second!Cart!Orders, Page!MergeCart,
    Second!Cart!MergeCart, Page!GetCart, Second!Cart!GetCart, Page!Sell,
    Second!Cart!Sell, Page!Handle, Second!Cart!Handle, Page!Next,
    Second!Cart!Next, Page!OneLineChanges, Second!Cart!OneLineChanges,
    Page!MergeIsIdempotent, Second!Cart!MergeIsIdempotent, Page!Min,
    Second!Cart!Min, Page!Max, Second!Cart!Max, Page!Cardinality,
    Second!Cart!Cardinality, Page!IsFiniteSet, Second!Cart!IsFiniteSet

\* A merge that is sent twice, of every cart and every guest's cart.
LEMMA MergesAlone ==
    MCSpec => [](part = "cart" => Cart!MergeIsIdempotent)
<1> DEFINE Runs == part = "cart"
<1>1. MCInit /\ Runs => Parts!Cart!Init
  BY SameCart DEF MCInit
<1>2. ASSUME [MCNext]_state, Runs
      PROVE  Runs' /\ [Parts!Cart!Next]_(Parts!Cart!vars)
  <2>1. CASE MCNext
    <3>1. part' = part /\ Cart!Next
      BY <1>2, <2>1 DEF MCNext
    <3> QED
      BY <1>2, <3>1, SameCart
  <2>2. CASE UNCHANGED state
    BY <1>2, <2>2 DEF state, Parts!Cart!vars
  <2> QED
    BY <1>2, <2>1, <2>2
<1>3. [MCNext]_state /\ ~Runs => ~Runs'
  BY DEF MCNext, state
<1>4. Parts!Cart!CartAssumption
  BY CartHolds, SameCart
<1>5. Parts!Cart!Spec => []Parts!Cart!MergeIsIdempotent
  <2>1. Parts!IsFiniteSet({"hat", "mug"})
    <3>1. {"hat", "mug"} = ({} \cup {"hat"}) \cup {"mug"}
      OBVIOUS
    <3> QED
      BY <3>1, Parts!FS_EmptySet, Parts!FS_AddElement
  <2>2. Parts!Cart!Spec =>
            [](Parts!Cart!TypeOK /\ Parts!Cart!MergeIsIdempotent)
    BY <1>4, <2>1, Parts!CartStaysLegal
  <2> QED
    BY <2>2, PTL
<1>6. Parts!Cart!MergeIsIdempotent => Cart!MergeIsIdempotent
  BY SameCart
<1> QED
  BY <1>1, <1>2, <1>3, <1>5, <1>6, PTL DEF MCSpec, Parts!Cart!Spec

\* What the page sends while it waits for its own.
LEMMA PageAct ==
    MCSpec => [][part = "page" => Page!OneLineChanges]_state
<1> DEFINE Runs == part = "page"
<1>1. MCInit /\ Runs => Second!Cart!Init
  BY SamePage DEF MCInit
<1>2. ASSUME [MCNext]_state, Runs
      PROVE  Runs' /\ [Second!Cart!Next]_(Second!Cart!vars)
  <2>1. CASE MCNext
    <3>1. part' = part /\ Page!Next
      BY <1>2, <2>1 DEF MCNext
    <3> QED
      BY <1>2, <3>1, SamePage
  <2>2. CASE UNCHANGED state
    BY <1>2, <2>2 DEF state, Second!Cart!vars
  <2> QED
    BY <1>2, <2>1, <2>2
<1>3. [MCNext]_state /\ ~Runs => ~Runs'
  BY DEF MCNext, state
<1>4. Second!Cart!CartAssumption
  BY PageHolds, SamePage
<1>5. Second!Cart!Spec => [][Second!Cart!OneLineChanges]_(Second!Cart!vars)
  <2>1. Second!IsFiniteSet({"hat", "mug"})
    <3>1. {"hat", "mug"} = ({} \cup {"hat"}) \cup {"mug"}
      OBVIOUS
    <3> QED
      BY <3>1, Second!FS_EmptySet, Second!FS_AddElement
  <2>2. Second!OneKind
    BY DEF Second!OneKind
  <2> QED
    BY <1>4, <2>1, <2>2, Second!LinesStay
<1>6. [Second!Cart!OneLineChanges]_(Second!Cart!vars) =>
        [Page!OneLineChanges]_state
  <2>1. Second!Cart!OneLineChanges => Page!OneLineChanges
    BY SamePage
  <2>2. UNCHANGED Second!Cart!vars => Page!OneLineChanges
    BY DEF Second!Cart!vars, Page!OneLineChanges
  <2> QED
    BY <2>1, <2>2
<1>7. ~Runs => [Runs => Page!OneLineChanges]_state
  OBVIOUS
<1> QED
  BY <1>1, <1>2, <1>3, <1>5, <1>6, <1>7, PTL DEF MCSpec, Second!Cart!Spec

\* Requests to a cart keep what they are not about: a merge that is sent twice
\* adds nothing, and the page's changes of one line leave the others alone.
THEOREM CartKeepsLines == MCSpec => CartKeepsItsLines
<1> DEFINE Merges == part = "cart" => Cart!MergeIsIdempotent
           Changes == part = "page" => Page!OneLineChanges
           Both == /\ part = "cart" => Cart!MergeIsIdempotent
                   /\ part = "page" => Page!OneLineChanges
<1>1. Merges /\ [Changes]_state => [Both]_state
  OBVIOUS
<1>2. MCSpec => []Merges /\ [][Changes]_state
  BY MergesAlone, PageAct, PTL
<1>3. MCSpec => [][Both]_state
  BY <1>1, <1>2, PTL
<1> QED
  BY <1>3, PTL DEF CartKeepsItsLines
=============================================================================
