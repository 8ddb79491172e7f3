----------------------------- MODULE WebProofs ------------------------------
(***************************************************************************)
(* Proofs about Sessions, for any requests and any crashes, and about      *)
(* MCWeb, which puts the parts of the web side by side.                    *)
(***************************************************************************)
EXTENDS MCWeb, TLAPS

-----------------------------------------------------------------------------
(* What makes rotation safe: who may write a row holds a lock on it.        *)

\* A request names its token when it ends well, and comes with one that was
\* issued.
TokensOfRequests ==
    /\ \A t \in SignIns \cup Refreshes : pc[t] # "ended" => token[t] = None
    /\ \A t \in Refreshes \cup SignOuts : pc[t] # "idle" => card[t] \in Exists

\* A sign-in is the root of its own token and of what that is exchanged for.
RootsExist ==
    \A i \in Issued :
        /\ token[i] # None => root[i] # None
        /\ root[i] \in SignIns => token[root[i]] # None

\* From the time it has found its token good, a refresh holds it and the user
\* is there.
RefreshHolds ==
    \A r \in Refreshes :
        pc[r] \in {"issue", "issued"} =>
            /\ token[card[r]] = "live" /\ successor[card[r]] = None
            /\ <<card[r], "update">> \in locks[r]
            /\ active

\* Who inserts a token holds the user, in its way.
InsertHolds ==
    /\ \A s \in SignIns :
           pc[s] = "issued" => <<"user", "no key update">> \in locks[s]
    /\ \A r \in Refreshes :
           pc[r] = "issued" => <<"user", "key share">> \in locks[r]

\* An UPDATE locks tokens that exist; that of a password change or a deletion
\* comes after the lock on the user and reaches every live token.
RevokeHolds ==
    /\ \A t \in Txs, i \in Issued :
           <<i, "no key update">> \in locks[t] => token[i] # None
    /\ \A t \in Txs : pc[t] = "commit" => todo[t] = {}
    /\ \A t \in Passwords \cup Deletes :
           /\ pc[t] \in {"select", "mark", "commit"} =>
                  <<"user", "update">> \in locks[t]
           /\ pc[t] \in {"mark", "commit"} =>
                  \A i \in Live : \/ i \in todo[t]
                                  \/ <<i, "no key update">> \in locks[t]

SessionsInv ==
    /\ TypeOK
    /\ LocksExclude
    /\ TokensOfRequests
    /\ RootsExist
    /\ RefreshHolds
    /\ InsertHolds
    /\ RevokeHolds
    /\ OneLivePerSession

-----------------------------------------------------------------------------
(* Row locks *)

\* The other parts of StorePartsProofs are not there.
Locks == INSTANCE StorePartsProofs WITH
    Operations <- {}, MAX_ADDRESSES_PER_USER <- {}, MaxOpen <- {},
    MaxRows <- {}, Products <- {}, Prices <- {}, MaxStock <- {},
    ServiceLevels <- {}, TAX_RATE <- {}, TiesDown <- {},
    FREE_SHIPPING_THRESHOLD_CENTS <- {},
    FLAT_SHIPPING_CENTS <- {}, Users <- {}, Ratings <- {}, Requests <- {},
    Buyers <- {}, REQUIRE_VERIFIED_PURCHASE <- {}, Crashes <- {},
    MaxVotes <- {}, Shoppers <- {}, Baskets <- {}, MIN_CO_OCCURRENCES <- {},
    AFFINITY_PER_PRODUCT <- {}, RECOMMENDATIONS_PER_USER <- {}, Limits <- {},
    Fragile <- {}, Cancels <- {}, Stocks <- {}, Dies <- {}, MaxOrders <- {},
    MaxFails <- {}, Catalogues <- {}, Searches <- {}, Toggles <- {},
    WINDOW <- {}, Charges <- {}, Refunds <- {}, Keys <- {}, Orders <- {},
    KeyOf <- {}, OrderOf <- {}, UserOf <- {}, AmountOf <- {}, OwnerOf <- {},
    TotalOf <- {}, Faults <- {}, Indexed <- {}, Replicas <- {}, Admins <- {},
    Live <- {}, BatchSize <- {}, MAX_ATTEMPTS <- {}, MaxChanges <- {},
    MaxFaults <- {}, Kinds <- {}, MAX_QUANTITY_PER_ITEM <- {},
    MAX_LINE_ITEMS <- {}, Stock <- {}, MaxSales <- {}, row <- part,
    draft <- part, place <- part, op <- part, count <- part, found <- part,
    lines <- part, price <- part, stock <- part, seen <- part, level <- part,
    placed <- part, review <- part, rating <- part, rowOf <- part,
    productOf <- part, req <- part, outbox <- part, indexed <- part,
    orders <- part, inStock <- part, viewed <- part, running <- part,
    at <- part, next <- part, affinity <- part, recs <- part, fails <- part,
    products <- part, request <- part, up <- part, page <- part,
    answer <- part, toggles <- part, pc <- part, payment <- part,
    order <- part, taken <- part, returned <- part, refund <- part,
    target <- part, holder <- part, version <- part, queue <- part,
    indices <- part, docs <- part, alias <- part, drain <- part, build <- part,
    faults <- part, cart <- part, available <- part, active <- part,
    sales <- part, shown <- part

\* The row locks are those of StorePartsProofs, which has the facts about them.
LEMMA SameLocks ==
    /\ \A m, n : Conflict(m, n) <=> Locks!Book!Conflict(m, n)
    /\ \A t, id, m : /\ CanLock(t, id, m) <=> Locks!Book!CanLock(t, id, m)
                     /\ Lock(t, id, m) <=> Locks!Book!Lock(t, id, m)
    /\ LocksExclude <=> Locks!Book!LocksExclude
    /\ LocksExclude' <=> Locks!Book!LocksExclude'
BY DEF Conflict, CanLock, Lock, LocksExclude, Locks!Book!Conflict,
    Locks!Book!CanLock, Locks!Book!Lock, Locks!Book!LocksExclude

LEMMA ConflictFacts ==
    /\ \A m : Conflict("update", m) /\ Conflict(m, "update")
    /\ Conflict("no key update", "no key update")
    /\ \A m, n : Conflict(m, n) <=> Conflict(n, m)
BY SameLocks, Locks!ConflictFacts

LEMMA LockKeepsExclusion ==
    ASSUME NEW S, locks \in [Txs -> S], LocksExclude,
           NEW t \in Txs, NEW id, NEW mode, Lock(t, id, mode)
    PROVE  LocksExclude'
<1>1. Locks!Book!LocksExclude /\ Locks!Book!Lock(t, id, mode)
  BY SameLocks
<1>2. Locks!Book!LocksExclude'
  BY <1>1, Locks!LockKeepsExclusion
<1> QED
  BY <1>2, SameLocks

LEMMA ReleaseKeepsExclusion ==
    ASSUME NEW S, locks \in [Txs -> S], LocksExclude, NEW t \in Txs,
           locks' = [locks EXCEPT ![t] = {}]
    PROVE  LocksExclude'
<1>1. Locks!Book!LocksExclude
  BY SameLocks
<1>2. Locks!Book!LocksExclude'
  BY <1>1, Locks!ReleaseKeepsExclusion
<1> QED
  BY <1>2, SameLocks

LEMMA HoldersExclude ==
    ASSUME LocksExclude, NEW t \in Txs, NEW u \in Txs, NEW id, NEW m, NEW n,
           <<id, m>> \in locks[t], <<id, n>> \in locks[u], Conflict(m, n)
    PROVE  t = u
BY SameLocks, Locks!HoldersExclude

LEMMA HeldIsNotLockable ==
    ASSUME NEW t \in Txs, NEW u \in Txs, NEW id, NEW m, NEW n,
           <<id, m>> \in locks[u], Conflict(m, n), CanLock(t, id, n)
    PROVE  t = u
BY SameLocks, Locks!HeldIsNotLockable

LEMMA LockLeavesExclusion ==
    ASSUME TypeOK, LocksExclude, NEW t \in Txs, NEW row, NEW mode,
           Lock(t, row, mode)
    PROVE  LocksExclude'
BY LockKeepsExclusion DEF TypeOK

LEMMA EndLeavesExclusion ==
    ASSUME TypeOK, LocksExclude, NEW t \in Txs, NEW l, End(t, l)
    PROVE  LocksExclude'
BY ReleaseKeepsExclusion DEF TypeOK, End

\* A step locks one row more, or ends one request, or leaves the locks alone.
LEMMA LocksStep ==
    ASSUME TypeOK, LocksExclude, [Next]_vars
    PROVE  LocksExclude'
<1>1. ASSUME NEW t \in Txs, Step(t)
      PROVE  \/ locks' = locks
             \/ \E row, mode : Lock(t, row, mode)
             \/ \E l : End(t, l)
  BY <1>1 DEF Step, SignInCheck, SignInIssue, SignInCommit, RefreshSelect,
              SelectForUpdate, RefreshIssue, RefreshCommit, SignOut,
              AccountLock, RevokeSelect, RevokeMark, RevokeCommit
<1>2. ASSUME NEW t \in Txs, Begin(t) \/ WaitFails(t) \/ Crash(t)
      PROVE  locks' = locks \/ \E l : End(t, l)
  BY <1>2 DEF Begin, WaitFails, Crash
<1>3. CASE locks' = locks
  BY <1>3 DEF LocksExclude
<1>4. CASE UNCHANGED vars
  BY <1>3, <1>4 DEF vars
<1> QED
  BY <1>1, <1>2, <1>3, <1>4, LockLeavesExclusion, EndLeavesExclusion DEF Next

-----------------------------------------------------------------------------
(* Type correctness *)

LEMMA InitTypeOK == Init => TypeOK
BY DEF Init, TypeOK, Issued, None, Modes

LEMMA GotoType ==
    ASSUME TypeOK, NEW t \in Txs, NEW l, Goto(t, l),
           l \in {"idle", "begun", "issue", "issued", "select", "mark",
                  "commit", "ended", "aborted"}
    PROVE  pc' \in [Txs -> {"idle", "begun", "issue", "issued", "select",
                            "mark", "commit", "ended", "aborted"}]
BY DEF Goto, TypeOK

LEMMA LockType ==
    ASSUME TypeOK, NEW t \in Txs, NEW row \in Issued \cup {"user"},
           NEW mode \in Modes, Lock(t, row, mode)
    PROVE  locks' \in [Txs -> SUBSET ((Issued \cup {"user"}) \X Modes)]
BY DEF Lock, TypeOK

LEMMA EndType ==
    ASSUME TypeOK, NEW t \in Txs, NEW l \in {"ended", "aborted"}, End(t, l)
    PROVE  /\ pc' \in [Txs -> {"idle", "begun", "issue", "issued", "select",
                               "mark", "commit", "ended", "aborted"}]
           /\ locks' \in [Txs -> SUBSET ((Issued \cup {"user"}) \X Modes)]
           /\ todo' \in [Txs -> SUBSET Issued]
BY DEF End, Goto, TypeOK

LEMMA CardsAreIssued ==
    ASSUME TypeOK, TokensOfRequests, NEW t \in Refreshes \cup SignOuts,
           pc[t] # "idle"
    PROVE  card[t] \in Issued /\ token[card[t]] # None
BY DEF TokensOfRequests, Exists

LEMMA TypeStep ==
    ASSUME TypeOK, TokensOfRequests, [Next]_vars
    PROVE  TypeOK'
<1>1. ASSUME NEW t \in Txs, Begin(t)
      PROVE  TypeOK'
  <2>1. card' \in [Txs -> Issued \cup {None}]
    BY <1>1 DEF Begin, Exists, TypeOK
  <2> QED
    BY <1>1, <2>1, GotoType DEF Begin, TypeOK, tokens, user
<1>2. ASSUME NEW t \in Txs, SignInCheck(t)
      PROVE  TypeOK'
  BY <1>2, GotoType DEF SignInCheck, Changes, TypeOK, tokens, user
<1>3. ASSUME NEW t \in Txs, SignInIssue(t) \/ RefreshIssue(t)
      PROVE  TypeOK'
  <2>1. \E mode \in Modes : Lock(t, "user", mode)
    BY <1>3 DEF SignInIssue, RefreshIssue, Modes
  <2>2. /\ Goto(t, "issued")
        /\ UNCHANGED <<tokens, user, card, proof, todo>>
    BY <1>3 DEF SignInIssue, RefreshIssue
  <2> QED
    BY <2>1, <2>2, GotoType, LockType DEF TypeOK, tokens, user
<1>4. ASSUME NEW t \in Txs, SignInCommit(t)
      PROVE  TypeOK'
  <2>1. /\ token' \in [Issued -> {None, "live", "revoked"}]
        /\ root' \in [Issued -> {First, None} \cup SignIns]
    BY <1>4 DEF SignInCommit, TypeOK
  <2> QED
    BY <1>4, <2>1, EndType DEF SignInCommit, TypeOK, user
<1>5. ASSUME NEW t \in Txs, RefreshSelect(t)
      PROVE  TypeOK'
  <2>1. card[t] \in Issued
    BY <1>5, CardsAreIssued DEF RefreshSelect
  <2>2. UNCHANGED <<tokens, user, card, proof>>
    BY <1>5 DEF RefreshSelect
  <2>3. CASE Goto(t, "select") /\ UNCHANGED <<locks, todo>>
    BY <2>2, <2>3, GotoType DEF TypeOK, tokens, user
  <2>4. CASE SelectForUpdate(t) /\ Goto(t, "issue") /\ UNCHANGED todo
    BY <2>1, <2>2, <2>4, GotoType, LockType
       DEF SelectForUpdate, Modes, TypeOK, tokens, user
  <2>5. CASE End(t, "ended")
    BY <2>2, <2>5, EndType DEF TypeOK, tokens, user
  <2> QED
    BY <1>5, <2>3, <2>4, <2>5 DEF RefreshSelect
<1>6. ASSUME NEW t \in Txs, RefreshCommit(t)
      PROVE  TypeOK'
  <2>1. card[t] \in Issued /\ t \in Issued
    BY <1>6, CardsAreIssued DEF RefreshCommit, Issued
  <2>2. /\ token' \in [Issued -> {None, "live", "revoked"}]
        /\ successor' \in [Issued -> Refreshes \cup {None}]
        /\ root' \in [Issued -> {First, None} \cup SignIns]
    BY <1>6, <2>1 DEF RefreshCommit, RootOf, TypeOK
  <2> QED
    BY <1>6, <2>2, EndType DEF RefreshCommit, TypeOK, user
<1>7. ASSUME NEW t \in Txs, SignOut(t)
      PROVE  TypeOK'
  <2>1. token' \in [Issued -> {None, "live", "revoked"}]
    BY <1>7 DEF SignOut, TypeOK
  <2> QED
    BY <1>7, <2>1, EndType DEF SignOut, TypeOK, user
<1>8. ASSUME NEW t \in Txs, AccountLock(t)
      PROVE  TypeOK'
  <2>1. UNCHANGED <<tokens, user, card, proof>>
    BY <1>8 DEF AccountLock
  <2>2. CASE Lock(t, "user", "update") /\ Goto(t, "select") /\ UNCHANGED todo
    BY <2>1, <2>2, GotoType, LockType DEF Modes, TypeOK, tokens, user
  <2>3. CASE End(t, "ended")
    BY <2>1, <2>3, EndType DEF TypeOK, tokens, user
  <2> QED
    BY <1>8, <2>2, <2>3 DEF AccountLock, UserLockMode
<1>9. ASSUME NEW t \in Txs, RevokeSelect(t)
      PROVE  TypeOK'
  <2>1. todo' \in [Txs -> SUBSET Issued]
    BY <1>9 DEF RevokeSelect, Revocable, Exists, Live, TypeOK
  <2> QED
    BY <1>9, <2>1, GotoType DEF RevokeSelect, TypeOK, tokens, user
<1>10. ASSUME NEW t \in Txs, RevokeMark(t)
       PROVE  TypeOK'
  <2>1. UNCHANGED <<tokens, user, card, proof>>
    BY <1>10 DEF RevokeMark
  <2>2. ASSUME NEW i \in todo[t],
               \/ Lock(t, i, "no key update")
               \/ UNCHANGED locks,
               todo' = [todo EXCEPT ![t] = @ \ {i}], UNCHANGED pc
        PROVE  TypeOK'
    <3>1. i \in Issued
      BY DEF TypeOK
    <3>2. locks' \in [Txs -> SUBSET ((Issued \cup {"user"}) \X Modes)]
      BY <2>2, <3>1, LockType DEF Modes, TypeOK
    <3>3. todo' \in [Txs -> SUBSET Issued]
      BY <2>2 DEF TypeOK
    <3> QED
      BY <2>1, <2>2, <3>2, <3>3 DEF TypeOK, tokens, user
  <2>3. CASE Goto(t, "commit") /\ UNCHANGED <<locks, todo>>
    BY <2>1, <2>3, GotoType DEF TypeOK, tokens, user
  <2> QED
    BY <1>10, <2>2, <2>3 DEF RevokeMark
<1>11. ASSUME NEW t \in Txs, RevokeCommit(t)
       PROVE  TypeOK'
  <2>1. /\ token' \in [Issued -> {None, "live", "revoked"}]
        /\ password' \in [Passwords -> BOOLEAN]
        /\ active' \in BOOLEAN
    BY <1>11 DEF RevokeCommit, TypeOK
  <2> QED
    BY <1>11, <2>1, EndType DEF RevokeCommit, TypeOK
<1>12. ASSUME NEW t \in Txs, WaitFails(t) \/ Crash(t)
       PROVE  TypeOK'
  BY <1>12, EndType DEF WaitFails, Crash, TypeOK, tokens, user
<1>13. CASE UNCHANGED vars
  BY <1>13 DEF vars, tokens, user, TypeOK
<1> QED
  BY <1>1, <1>2, <1>3, <1>4, <1>5, <1>6, <1>7, <1>8, <1>9, <1>10, <1>11,
     <1>12, <1>13 DEF Next, Step

-----------------------------------------------------------------------------
(* What a step does to the handlers and the tokens *)

LEMMA KindsAreDisjoint ==
    /\ None \notin Issued /\ None \notin Txs
    /\ "user" \notin Issued
    /\ \A t \in SignIns : t \notin Refreshes /\ t \notin SignOuts
    /\ \A t \in Refreshes : t \notin SignOuts
    /\ \A t \in SignIns \cup Refreshes \cup SignOuts :
           /\ t \notin SignOutAlls /\ t \notin Passwords /\ t \notin Deletes
           /\ t # First
BY NamesAssumption DEF None, Txs

LEMMA InitSessions == Init => SessionsInv
<1> SUFFICES ASSUME Init
             PROVE  SessionsInv
  OBVIOUS
<1>1. TypeOK
  BY InitTypeOK
<1>2. Live = {First} /\ First \in Issued
  BY DEF Init, Live, Issued, None
<1>3. \A t \in Txs : pc[t] = "idle" /\ locks[t] = {} /\ todo[t] = {}
  BY DEF Init
<1>4. \A t \in SignIns \cup Refreshes : t \in Issued /\ t \in Txs /\ t # First
  BY KindsAreDisjoint DEF Issued, Txs
<1>5. TokensOfRequests
  BY <1>3, <1>4 DEF Init, TokensOfRequests, Txs
<1>6. RootsExist
  <2>1. First \notin SignIns /\ None \notin SignIns /\ First # None
    BY <1>2, <1>4, KindsAreDisjoint DEF Issued
  <2> QED
    BY <2>1 DEF Init, RootsExist
<1>7. LocksExclude /\ RefreshHolds /\ InsertHolds /\ RevokeHolds
  BY <1>3 DEF LocksExclude, RefreshHolds, InsertHolds, RevokeHolds, Txs
<1>8. OneLivePerSession
  BY <1>2 DEF OneLivePerSession
<1> QED
  BY <1>1, <1>5, <1>6, <1>7, <1>8 DEF SessionsInv

\* One request moves at a time; the first step is Begin, and there is none
\* after the last.
LEMMA PcStep ==
    ASSUME TypeOK, [Next]_vars
    PROVE  \/ pc' = pc
           \/ \E t \in Txs :
                  /\ pc[t] \notin {"ended", "aborted"}
                  /\ pc[t] = "idle" => Begin(t)
                  /\ pc'[t] # "idle"
                  /\ \A u \in Txs : u # t => pc'[u] = pc[u]
<1>1. ASSUME NEW t \in Txs, NEW l, Goto(t, l) \/ End(t, l)
      PROVE  pc'[t] = l /\ \A u \in Txs : u # t => pc'[u] = pc[u]
  BY <1>1 DEF Goto, End, TypeOK
<1>2. ASSUME NEW t \in Txs, Step(t) \/ Crash(t)
      PROVE  /\ pc[t] \notin {"idle", "ended", "aborted"}
             /\ \/ pc' = pc
                \/ \E l : l # "idle" /\ (Goto(t, l) \/ End(t, l))
  BY <1>2 DEF Step, SignInCheck, SignInIssue, SignInCommit, RefreshSelect,
              RefreshIssue, RefreshCommit, SignOut, AccountLock,
              RevokeSelect, Selects, RevokeMark, RevokeCommit, Crash
<1>3. ASSUME NEW t \in Txs, WaitFails(t)
      PROVE  pc[t] \notin {"idle", "ended", "aborted"} /\ End(t, "aborted")
  BY <1>3 DEF WaitFails, Waits, Wants
<1>4. ASSUME NEW t \in Txs, Begin(t)
      PROVE  pc[t] = "idle" /\ Goto(t, "begun")
  BY <1>4 DEF Begin
<1>5. CASE UNCHANGED vars
  BY <1>5 DEF vars
<1> QED
  BY <1>1, <1>2, <1>3, <1>4, <1>5 DEF Next

LEMMA EndedStays ==
    ASSUME TypeOK, [Next]_vars, NEW t \in Txs, pc[t] = "ended"
    PROVE  pc'[t] = "ended"
BY PcStep

\* Only these four write the tables.
LEMMA Writers ==
    ASSUME [Next]_vars
    PROVE  \/ UNCHANGED <<tokens, user>>
           \/ \E t \in Txs : \/ SignInCommit(t) \/ RefreshCommit(t)
                             \/ SignOut(t) \/ RevokeCommit(t)
<1>1. ASSUME NEW t \in Txs,
             \/ Begin(t) \/ SignInCheck(t) \/ SignInIssue(t)
             \/ RefreshSelect(t) \/ RefreshIssue(t) \/ AccountLock(t)
             \/ RevokeSelect(t) \/ RevokeMark(t) \/ WaitFails(t) \/ Crash(t)
      PROVE  UNCHANGED <<tokens, user>>
  BY <1>1 DEF Begin, SignInCheck, SignInIssue, RefreshSelect, RefreshIssue,
              AccountLock, RevokeSelect, RevokeMark, WaitFails, Crash
<1>2. CASE UNCHANGED vars
  BY <1>2 DEF vars
<1> QED
  BY <1>1, <1>2 DEF Next, Step

LEMMA SignInEffect ==
    ASSUME SessionsInv, NEW t \in Txs, SignInCommit(t)
    PROVE  /\ t \in SignIns /\ t \in Issued
           /\ pc[t] = "issued" /\ pc'[t] = "ended"
           /\ token[t] = None /\ token' = [token EXCEPT ![t] = "live"]
           /\ root' = [root EXCEPT ![t] = t]
           /\ UNCHANGED <<successor, user, card>>
BY DEF SignInCommit, End, Goto, SessionsInv, TokensOfRequests, TypeOK, Issued

LEMMA RefreshEffect ==
    ASSUME SessionsInv, NEW t \in Txs, RefreshCommit(t)
    PROVE  /\ t \in Refreshes /\ t \in Issued
           /\ pc[t] = "issued" /\ pc'[t] = "ended"
           /\ card[t] \in Issued /\ card[t] # t
           /\ token[t] = None /\ token[card[t]] = "live"
           /\ successor[card[t]] = None
           /\ <<card[t], "update">> \in locks[t]
           /\ active
           /\ token'[t] = "live" /\ token'[card[t]] = "revoked"
           /\ \A i \in Issued : i # t /\ i # card[t] => token'[i] = token[i]
           /\ successor' = [successor EXCEPT ![card[t]] = t]
           /\ root' = [root EXCEPT ![t] = root[card[t]]]
           /\ UNCHANGED <<user, card>>
<1>1. t \in Refreshes /\ t \in Issued /\ pc[t] = "issued"
  BY DEF RefreshCommit, Issued
<1>2. card[t] \in Issued /\ token[t] = None
  BY <1>1 DEF SessionsInv, TokensOfRequests, Exists
<1>3. /\ token[card[t]] = "live" /\ successor[card[t]] = None
      /\ <<card[t], "update">> \in locks[t] /\ active
  BY <1>1 DEF SessionsInv, RefreshHolds
<1>4. card[t] # t
  BY <1>2, <1>3 DEF None
<1>5. /\ token \in [Issued -> {None, "live", "revoked"}]
      /\ token' = [token EXCEPT ![t] = "live", ![card[t]] = "revoked"]
  BY DEF RefreshCommit, SessionsInv, TypeOK
<1>6. /\ token'[t] = "live" /\ token'[card[t]] = "revoked"
      /\ \A i \in Issued : i # t /\ i # card[t] => token'[i] = token[i]
  BY <1>1, <1>2, <1>4, <1>5
<1> QED
  BY <1>1, <1>2, <1>3, <1>4, <1>6
     DEF RefreshCommit, RootOf, End, Goto, SessionsInv, TypeOK

LEMMA SignOutEffect ==
    ASSUME SessionsInv, NEW t \in Txs, SignOut(t)
    PROVE  /\ card[t] \in Issued /\ token[card[t]] # None
           /\ CanLock(t, card[t], "no key update")
           /\ token' = [token EXCEPT ![card[t]] = "revoked"]
           /\ UNCHANGED <<successor, root, user, card>>
<1>1. t \in SignOuts /\ pc[t] = "begun"
  BY DEF SignOut
<1>2. card[t] \in Issued /\ token[card[t]] # None
  BY <1>1 DEF SessionsInv, TokensOfRequests, Exists
<1> QED
  BY <1>2 DEF SignOut

LEMMA RevokeEffect ==
    ASSUME SessionsInv, NEW t \in Txs, RevokeCommit(t)
    PROVE  /\ pc[t] = "commit"
           /\ \A i \in Issued :
                  \/ token'[i] = token[i] /\ <<i, "no key update">> \notin locks[t]
                  \/ /\ token'[i] = "revoked" /\ token[i] # None
                     /\ <<i, "no key update">> \in locks[t]
           /\ active' = (active /\ t \notin Deletes)
           /\ UNCHANGED <<successor, root, card>>
BY DEF RevokeCommit, SessionsInv, RevokeHolds

\* Tokens are issued by requests that end, and neither forgotten nor revived.
LEMMA TokenStep ==
    ASSUME SessionsInv, [Next]_vars, NEW i \in Issued
    PROVE  /\ token[i] # None => token'[i] # None
           /\ token[i] = "revoked" => token'[i] = "revoked"
           /\ token[i] = None /\ token'[i] # None =>
                  /\ i \in SignIns \cup Refreshes
                  /\ pc[i] = "issued" /\ pc'[i] = "ended"
<1>1. CASE UNCHANGED <<tokens, user>>
  BY <1>1 DEF tokens
<1>2. CASE \E t \in Txs : SignInCommit(t)
  BY <1>2, SignInEffect DEF SessionsInv, TypeOK, None
<1>3. CASE \E t \in Txs : RefreshCommit(t)
  <2> PICK t \in Txs : RefreshCommit(t)
    BY <1>3
  <2>1. CASE i = t
    BY <2>1, RefreshEffect DEF None
  <2>2. CASE i = card[t]
    BY <2>2, RefreshEffect DEF None
  <2>3. CASE i # t /\ i # card[t]
    <3>1. token'[i] = token[i]
      BY <2>3, RefreshEffect
    <3> QED
      BY <3>1
  <2> QED
    BY <2>1, <2>2, <2>3
<1>4. CASE \E t \in Txs : SignOut(t)
  BY <1>4, SignOutEffect DEF SessionsInv, TypeOK, None
<1>5. CASE \E t \in Txs : RevokeCommit(t)
  BY <1>5, RevokeEffect DEF None
<1> QED
  BY <1>1, <1>2, <1>3, <1>4, <1>5, Writers

\* One request moves, and the others stay where they are.
LEMMA OthersStay ==
    ASSUME TypeOK, NEW t \in Txs,
           Begin(t) \/ Step(t) \/ WaitFails(t) \/ Crash(t),
           NEW u \in Txs, u # t
    PROVE  /\ pc'[u] = pc[u] /\ locks'[u] = locks[u]
           /\ todo'[u] = todo[u] /\ card'[u] = card[u]
<1>1. pc' = pc \/ \E l : Goto(t, l) \/ End(t, l)
  BY DEF Begin, Step, SignInCheck, SignInIssue, SignInCommit, RefreshSelect,
         RefreshIssue, RefreshCommit, SignOut, AccountLock, RevokeSelect,
         RevokeMark, RevokeCommit, WaitFails, Crash
<1>2. \/ locks' = locks
      \/ \E row, mode : Lock(t, row, mode)
      \/ \E l : End(t, l)
  BY DEF Begin, Step, SignInCheck, SignInIssue, SignInCommit, RefreshSelect,
         SelectForUpdate, RefreshIssue, RefreshCommit, SignOut, AccountLock,
         RevokeSelect, RevokeMark, RevokeCommit, WaitFails, Crash
<1>3. \/ todo' = todo
      \/ \E S : todo' = [todo EXCEPT ![t] = S]
      \/ \E l : End(t, l)
  BY DEF Begin, Step, SignInCheck, SignInIssue, SignInCommit, RefreshSelect,
         RefreshIssue, RefreshCommit, SignOut, AccountLock, RevokeSelect,
         RevokeMark, RevokeCommit, WaitFails, Crash
<1>4. card' = card \/ \E i : card' = [card EXCEPT ![t] = i]
  BY DEF Begin, Step, SignInCheck, SignInIssue, SignInCommit, RefreshSelect,
         RefreshIssue, RefreshCommit, SignOut, AccountLock, RevokeSelect,
         RevokeMark, RevokeCommit, WaitFails, Crash
<1> QED
  BY <1>1, <1>2, <1>3, <1>4 DEF Goto, End, Lock, TypeOK

\* A cookie is presented once.
LEMMA CardStays ==
    ASSUME TypeOK, [Next]_vars, NEW t \in Txs, pc[t] # "idle"
    PROVE  card'[t] = card[t]
<1>1. CASE UNCHANGED vars
  BY <1>1 DEF vars
<1>2. ASSUME NEW u \in Txs, Begin(u)
      PROVE  card'[t] = card[t]
  <2>1. u # t
    BY <1>2 DEF Begin
  <2> QED
    BY <1>2, <2>1, OthersStay
<1>3. ASSUME NEW u \in Txs, Step(u) \/ WaitFails(u) \/ Crash(u)
      PROVE  card' = card
  BY <1>3 DEF Step, SignInCheck, SignInIssue, SignInCommit, RefreshSelect,
              RefreshIssue, RefreshCommit, SignOut, AccountLock, RevokeSelect,
              RevokeMark, RevokeCommit, WaitFails, Crash
<1> QED
  BY <1>1, <1>2, <1>3 DEF Next

-----------------------------------------------------------------------------
(* Each part of the invariant *)

LEMMA TokensOfRequestsStep ==
    ASSUME SessionsInv, [Next]_vars
    PROVE  TokensOfRequests'
<1>1. TypeOK /\ TokensOfRequests
  BY DEF SessionsInv
<1>2. ASSUME NEW t \in SignIns \cup Refreshes, pc'[t] # "ended"
      PROVE  token'[t] = None
  <2>1. t \in Txs /\ t \in Issued
    BY DEF Txs, Issued
  <2>2. pc[t] # "ended"
    BY <1>1, <1>2, <2>1, EndedStays
  <2>3. token[t] = None
    BY <1>1, <2>2 DEF TokensOfRequests
  <2> QED
    BY <1>2, <2>1, <2>3, TokenStep
<1>3. ASSUME NEW t \in Refreshes \cup SignOuts, pc'[t] # "idle"
      PROVE  card'[t] \in Exists'
  <2>1. t \in Txs
    BY DEF Txs
  <2>2. CASE pc[t] = "idle"
    <3>1. Begin(t)
      BY <1>1, <1>3, <2>1, <2>2, PcStep
    <3>2. PICK i \in Exists : card' = [card EXCEPT ![t] = i]
      BY <3>1 DEF Begin
    <3> QED
      BY <1>1, <2>1, <3>1, <3>2 DEF Begin, Exists, TypeOK, tokens
  <2>3. CASE pc[t] # "idle"
    <3>1. card'[t] = card[t]
      BY <1>1, <2>1, <2>3, CardStays
    <3>2. card[t] \in Issued /\ token[card[t]] # None
      BY <1>1, <2>3, CardsAreIssued
    <3>3. token'[card[t]] # None
      BY <3>2, TokenStep
    <3> QED
      BY <3>1, <3>2, <3>3 DEF Exists
  <2> QED
    BY <2>2, <2>3
<1> QED
  BY <1>2, <1>3 DEF TokensOfRequests

LEMMA RootsExistStep ==
    ASSUME SessionsInv, [Next]_vars
    PROVE  RootsExist'
<1>1. TypeOK /\ RootsExist
  BY DEF SessionsInv
<1> SUFFICES ASSUME NEW i \in Issued
             PROVE  /\ token'[i] # None => root'[i] # None
                    /\ root'[i] \in SignIns => token'[root'[i]] # None
  BY DEF RootsExist
<1>2. ASSUME NEW j \in Issued, root'[i] = root[j],
             token'[i] # None => token[j] # None
      PROVE  /\ token'[i] # None => root'[i] # None
             /\ root'[i] \in SignIns => token'[root'[i]] # None
  <2>1. token'[i] # None => root'[i] # None
    BY <1>1, <1>2 DEF RootsExist
  <2>2. ASSUME root[j] \in SignIns
        PROVE  token'[root[j]] # None
    <3>1. root[j] \in Issued /\ token[root[j]] # None
      BY <1>1, <2>2 DEF RootsExist, Issued
    <3> QED
      BY <3>1, TokenStep
  <2> QED
    BY <1>2, <2>1, <2>2
<1>3. CASE UNCHANGED <<tokens, user>>
  BY <1>2, <1>3 DEF tokens
<1>4. ASSUME NEW t \in Txs, SignInCommit(t)
      PROVE  /\ token'[i] # None => root'[i] # None
             /\ root'[i] \in SignIns => token'[root'[i]] # None
  <2>1. CASE i = t
    <3>1. root'[i] = t /\ token'[t] # None /\ t # None
      BY <1>1, <1>4, <2>1, SignInEffect, KindsAreDisjoint DEF TypeOK, None
    <3> QED
      BY <3>1
  <2>2. CASE i # t
    <3>1. root'[i] = root[i] /\ token'[i] = token[i]
      BY <1>1, <1>4, <2>2, SignInEffect DEF TypeOK
    <3> QED
      BY <1>2, <3>1
  <2> QED
    BY <2>1, <2>2
<1>5. ASSUME NEW t \in Txs, RefreshCommit(t)
      PROVE  /\ token'[i] # None => root'[i] # None
             /\ root'[i] \in SignIns => token'[root'[i]] # None
  <2>1. /\ card[t] \in Issued /\ token[card[t]] = "live" /\ t \in Issued
        /\ root' = [root EXCEPT ![t] = root[card[t]]]
        /\ \A k \in Issued : k # t /\ k # card[t] => token'[k] = token[k]
    BY <1>5, RefreshEffect
  <2>2. CASE i = t
    <3>1. root'[i] = root[card[t]]
      BY <1>1, <2>1, <2>2 DEF TypeOK
    <3> QED
      BY <1>2, <2>1, <3>1 DEF None
  <2>3. CASE i # t
    <3>1. root'[i] = root[i]
      BY <1>1, <2>1, <2>3 DEF TypeOK
    <3>2. token'[i] # None => token[i] # None
      BY <2>1, <2>3 DEF None
    <3> QED
      BY <1>2, <3>1, <3>2
  <2> QED
    BY <2>2, <2>3
<1>6. ASSUME NEW t \in Txs, SignOut(t)
      PROVE  root' = root /\ (token'[i] # None => token[i] # None)
  BY <1>1, <1>6, SignOutEffect DEF TypeOK
<1>7. ASSUME NEW t \in Txs, RevokeCommit(t)
      PROVE  root' = root /\ (token'[i] # None => token[i] # None)
  BY <1>7, RevokeEffect
<1> QED
  BY <1>2, <1>3, <1>4, <1>5, <1>6, <1>7, Writers

LEMMA RefreshHoldsStep ==
    ASSUME SessionsInv, [Next]_vars
    PROVE  RefreshHolds'
<1>1. TypeOK /\ LocksExclude /\ TokensOfRequests /\ RefreshHolds /\ RevokeHolds
  BY DEF SessionsInv
<1> SUFFICES ASSUME NEW r \in Refreshes, pc'[r] \in {"issue", "issued"}
             PROVE  /\ token'[card'[r]] = "live"
                    /\ successor'[card'[r]] = None
                    /\ <<card'[r], "update">> \in locks'[r]
                    /\ active'
  BY DEF RefreshHolds
<1>2. /\ r \in Txs /\ r \in Issued
      /\ r \notin SignIns /\ r \notin SignOuts
      /\ r \notin Passwords \cup Deletes
  BY KindsAreDisjoint DEF Txs, Issued
<1> DEFINE Held == /\ pc[r] \in {"issue", "issued"}
                   /\ card[r] \in Issued
                   /\ token[card[r]] = "live" /\ successor[card[r]] = None
                   /\ <<card[r], "update">> \in locks[r]
                   /\ active
<1>3. ASSUME pc[r] \in {"issue", "issued"}
      PROVE  Held
  <2>1. card[r] \in Issued
    BY <1>1, <1>3, CardsAreIssued
  <2> QED
    BY <1>1, <1>3, <2>1 DEF RefreshHolds
\* What this refresh does itself.
<1>4. ASSUME RefreshSelect(r)
      PROVE  /\ UNCHANGED <<tokens, user, card>>
             /\ token[card[r]] = "live" /\ successor[card[r]] = None
             /\ <<card[r], "update">> \in locks'[r] /\ active
  <2>1. ~Rotated(card[r]) /\ active /\ Lock(r, card[r], "update")
    BY <1>1, <1>2, <1>4
       DEF RefreshSelect, Goto, End, SelectForUpdate, UserIsActive, TypeOK
  <2>2. card[r] \in Issued /\ token[card[r]] # None
    BY <1>1, <1>4, CardsAreIssued DEF RefreshSelect
  <2>3. token[card[r]] = "live" /\ successor[card[r]] = None
    BY <1>1, <2>1, <2>2 DEF Rotated, TypeOK
  <2>4. <<card[r], "update">> \in locks'[r]
    BY <1>1, <1>2, <2>1 DEF Lock, TypeOK
  <2> QED
    BY <1>4, <2>1, <2>3, <2>4 DEF RefreshSelect
<1>5. ASSUME RefreshIssue(r)
      PROVE  /\ UNCHANGED <<tokens, user, card>> /\ Held
             /\ locks[r] \subseteq locks'[r]
  <2>1. Held
    BY <1>3, <1>5 DEF RefreshIssue
  <2>2. locks[r] \subseteq locks'[r]
    BY <1>1, <1>2, <1>5 DEF RefreshIssue, Lock, TypeOK
  <2> QED
    BY <1>5, <2>1, <2>2 DEF RefreshIssue
\* What the others may do meanwhile.
<1>6. ASSUME NEW t \in Txs, t # r, Held, SignInCommit(t)
      PROVE  token'[card[r]] = "live" /\ successor' = successor /\ active'
  <2>1. token[t] = None /\ card[r] # t
    BY <1>6, SignInEffect DEF None
  <2> QED
    BY <1>1, <1>6, <2>1, SignInEffect DEF TypeOK, user
<1>7. ASSUME NEW t \in Txs, t # r, Held, RefreshCommit(t)
      PROVE  /\ token'[card[r]] = "live" /\ successor'[card[r]] = None
             /\ active'
  <2>1. card[r] # t
    BY <1>7, RefreshEffect DEF None
  <2>2. card[r] # card[t]
    BY <1>1, <1>2, <1>7, RefreshEffect, HoldersExclude, ConflictFacts
  <2>3. token'[card[r]] = token[card[r]]
    BY <1>7, <2>1, <2>2, RefreshEffect
  <2>4. successor'[card[r]] = successor[card[r]]
    <3>1. successor' = [successor EXCEPT ![card[t]] = t]
      BY <1>7, RefreshEffect
    <3>2. successor \in [Issued -> Refreshes \cup {None}]
      BY <1>1 DEF TypeOK
    <3> QED
      BY <1>7, <2>2, <3>1, <3>2
  <2>5. active' = active
    BY <1>7, RefreshEffect DEF user
  <2> QED
    BY <1>7, <2>3, <2>4, <2>5
<1>8. ASSUME NEW t \in Txs, t # r, Held, SignOut(t)
      PROVE  token'[card[r]] = "live" /\ successor' = successor /\ active'
  <2>1. CanLock(t, card[t], "no key update")
    BY <1>8, SignOutEffect
  <2>2. card[r] # card[t]
    BY <1>2, <1>8, <2>1, HeldIsNotLockable, ConflictFacts
  <2> QED
    BY <1>1, <1>8, <2>2, SignOutEffect DEF TypeOK, user
<1>9. ASSUME NEW t \in Txs, t # r, Held, RevokeCommit(t)
      PROVE  token'[card[r]] = "live" /\ successor' = successor /\ active'
  <2>1. <<card[r], "no key update">> \notin locks[t]
    BY <1>1, <1>2, <1>9, HoldersExclude, ConflictFacts
  <2>2. token'[card[r]] = token[card[r]] /\ successor' = successor
    BY <1>9, <2>1, RevokeEffect
  <2>3. t \notin Deletes
    <3>1. pc[t] = "commit" /\ card[r] \in Live
      BY <1>9, RevokeEffect DEF Live
    <3> QED
      BY <1>1, <2>1, <3>1 DEF RevokeHolds
  <2> QED
    BY <1>9, <2>2, <2>3, RevokeEffect
<1>10. ASSUME NEW t \in Txs, t # r, Held
       PROVE  SignInCommit(t) \/ RefreshCommit(t) \/ SignOut(t)
                  \/ RevokeCommit(t)
              => /\ token'[card[r]] = "live" /\ successor'[card[r]] = None
                 /\ active'
  BY <1>6, <1>7, <1>8, <1>9, <1>10
<1>11. CASE UNCHANGED vars
  BY <1>1, <1>11 DEF vars, tokens, user, RefreshHolds
<1>12. ASSUME NEW t \in Txs, t # r,
              Begin(t) \/ Step(t) \/ WaitFails(t) \/ Crash(t)
       PROVE  /\ token'[card'[r]] = "live"
              /\ successor'[card'[r]] = None
              /\ <<card'[r], "update">> \in locks'[r]
              /\ active'
  <2>1. /\ pc'[r] = pc[r] /\ locks'[r] = locks[r] /\ card'[r] = card[r]
    BY <1>1, <1>2, <1>12, OthersStay
  <2>2. Held
    BY <1>3, <2>1
  <2>3. CASE SignInCommit(t) \/ RefreshCommit(t) \/ SignOut(t)
                 \/ RevokeCommit(t)
    BY <1>10, <1>12, <2>1, <2>2, <2>3
  <2>4. CASE UNCHANGED <<tokens, user>>
    BY <2>1, <2>2, <2>4 DEF tokens, user
  <2>5. \/ SignInCommit(t) \/ RefreshCommit(t) \/ SignOut(t)
        \/ RevokeCommit(t) \/ UNCHANGED <<tokens, user>>
    BY <1>12 DEF Begin, Step, SignInCheck, SignInIssue, RefreshSelect,
                 RefreshIssue, AccountLock, RevokeSelect, RevokeMark,
                 WaitFails, Crash
  <2> QED
    BY <2>3, <2>4, <2>5
<1>13. ASSUME Begin(r) \/ Step(r) \/ WaitFails(r) \/ Crash(r)
       PROVE  RefreshSelect(r) \/ RefreshIssue(r)
  <2>1. pc'[r] \notin {"begun", "select", "mark", "commit", "ended", "aborted"}
    OBVIOUS
  <2>2. ASSUME NEW l, Goto(r, l) \/ End(r, l)
        PROVE  pc'[r] = l
    BY <1>1, <1>2, <2>2 DEF Goto, End, TypeOK
  <2>3. ~Begin(r) /\ ~WaitFails(r) /\ ~Crash(r)
    BY <2>1, <2>2 DEF Begin, WaitFails, Crash
  <2>4. ~RefreshCommit(r) /\ ~RevokeCommit(r) /\ ~RevokeSelect(r)
    BY <2>1, <2>2 DEF RefreshCommit, RevokeCommit, RevokeSelect
  <2>5. ~RevokeMark(r)
    BY <2>1, <2>2 DEF RevokeMark
  <2> QED
    BY <1>2, <1>13, <2>3, <2>4, <2>5
       DEF Step, SignInCheck, SignInIssue, SignInCommit, SignOut, AccountLock
<1>14. ASSUME RefreshSelect(r) \/ RefreshIssue(r)
       PROVE  /\ token'[card'[r]] = "live"
              /\ successor'[card'[r]] = None
              /\ <<card'[r], "update">> \in locks'[r]
              /\ active'
  BY <1>4, <1>5, <1>14 DEF tokens, user
<1> QED
  BY <1>11, <1>12, <1>13, <1>14 DEF Next

LEMMA InsertHoldsStep ==
    ASSUME SessionsInv, [Next]_vars
    PROVE  InsertHolds'
<1>1. TypeOK /\ InsertHolds
  BY DEF SessionsInv
<1>2. CASE UNCHANGED vars
  BY <1>1, <1>2 DEF vars, InsertHolds
<1>3. ASSUME NEW t \in Txs, NEW u \in Txs, u # t,
             Begin(t) \/ Step(t) \/ WaitFails(t) \/ Crash(t)
      PROVE  pc'[u] = pc[u] /\ locks'[u] = locks[u]
  BY <1>1, <1>3, OthersStay
<1>4. ASSUME NEW t \in Txs, pc'[t] = "issued",
             Begin(t) \/ Step(t) \/ WaitFails(t) \/ Crash(t)
      PROVE  SignInIssue(t) \/ RefreshIssue(t)
  <2>1. ASSUME NEW l, Goto(t, l) \/ End(t, l)
        PROVE  l = "issued"
    BY <1>1, <1>4, <2>1 DEF Goto, End, TypeOK
  <2>2. ~RevokeMark(t)
    BY <1>4, <2>1 DEF RevokeMark
  <2> QED
    BY <1>4, <2>1, <2>2
       DEF Begin, Step, SignInCheck, SignInCommit, RefreshSelect,
           RefreshCommit, SignOut, AccountLock, RevokeSelect, RevokeCommit,
           WaitFails, Crash
<1>5. ASSUME NEW t \in Txs, SignInIssue(t) \/ RefreshIssue(t)
      PROVE  /\ t \in SignIns => <<"user", "no key update">> \in locks'[t]
             /\ t \in Refreshes => <<"user", "key share">> \in locks'[t]
  <2>1. CASE SignInIssue(t)
    BY <1>1, <2>1, KindsAreDisjoint DEF SignInIssue, Lock, TypeOK
  <2>2. CASE RefreshIssue(t)
    BY <1>1, <2>2, KindsAreDisjoint DEF RefreshIssue, Lock, TypeOK
  <2> QED
    BY <1>5, <2>1, <2>2
<1>6. \A t \in SignIns \cup Refreshes : t \in Txs
  BY DEF Txs
<1> QED
  BY <1>1, <1>2, <1>3, <1>4, <1>5, <1>6 DEF InsertHolds, Next

\* A password change or a deletion has the user to itself.
LEMMA NobodyInserts ==
    ASSUME SessionsInv, NEW t \in Passwords \cup Deletes, NEW u \in Txs,
           <<"user", "update">> \in locks[t]
    PROVE  ~SignInCommit(u) /\ ~RefreshCommit(u)
<1>1. t \in Txs /\ LocksExclude /\ InsertHolds
  BY DEF SessionsInv, Txs
<1>2. ASSUME SignInCommit(u)
      PROVE  FALSE
  <2>1. u \in SignIns /\ <<"user", "no key update">> \in locks[u]
    BY <1>1, <1>2 DEF SignInCommit, InsertHolds
  <2>2. t = u
    BY <1>1, <2>1, HoldersExclude, ConflictFacts
  <2> QED
    BY <2>1, <2>2, KindsAreDisjoint
<1>3. ASSUME RefreshCommit(u)
      PROVE  FALSE
  <2>1. u \in Refreshes /\ <<"user", "key share">> \in locks[u]
    BY <1>1, <1>3 DEF RefreshCommit, InsertHolds
  <2>2. t = u
    BY <1>1, <2>1, HoldersExclude, ConflictFacts
  <2> QED
    BY <2>1, <2>2, KindsAreDisjoint
<1> QED
  BY <1>2, <1>3

\* A token is live after a step only if it was live before or the step issued
\* it.
LEMMA LiveStep ==
    ASSUME SessionsInv, [Next]_vars, NEW i \in Live',
           \A u \in Txs : ~SignInCommit(u) /\ ~RefreshCommit(u)
    PROVE  i \in Live
<1>1. i \in Issued /\ token'[i] = "live"
  BY DEF Live
<1>2. CASE UNCHANGED <<tokens, user>>
  BY <1>1, <1>2 DEF tokens, Live
<1>3. ASSUME NEW t \in Txs, SignOut(t)
      PROVE  token[i] = "live"
  BY <1>1, <1>3, SignOutEffect DEF SessionsInv, TypeOK
<1>4. ASSUME NEW t \in Txs, RevokeCommit(t)
      PROVE  token[i] = "live"
  BY <1>1, <1>4, RevokeEffect
<1> QED
  BY <1>1, <1>2, <1>3, <1>4, Writers DEF Live

LEMMA RevokeHoldsStep ==
    ASSUME SessionsInv, [Next]_vars
    PROVE  RevokeHolds'
<1>1. TypeOK /\ RevokeHolds
  BY DEF SessionsInv
<1>2. CASE UNCHANGED vars
  BY <1>1, <1>2 DEF vars, tokens, RevokeHolds, Live
<1>3. ASSUME NEW t \in Txs,
             Begin(t) \/ Step(t) \/ WaitFails(t) \/ Crash(t)
      PROVE  RevokeHolds'
  <2>1. ASSUME NEW u \in Txs, u # t
        PROVE  /\ pc'[u] = pc[u] /\ locks'[u] = locks[u]
               /\ todo'[u] = todo[u]
    BY <1>1, <1>3, <2>1, OthersStay
  \* What the request does that moves.
  <2>2. \/ locks' = locks
        \/ Lock(t, "user", "no key update") \/ Lock(t, "user", "key share")
        \/ Lock(t, "user", "update") \/ Lock(t, card[t], "update")
        \/ \E l : End(t, l)
        \/ \E i \in Live : Lock(t, i, "no key update")
    BY <1>3 DEF Begin, Step, SignInCheck, SignInIssue, SignInCommit,
                RefreshSelect, SelectForUpdate, RefreshIssue, RefreshCommit,
                SignOut, AccountLock, UserLockMode, RevokeSelect, RevokeMark,
                RevokeCommit, WaitFails, Crash
  <2>3. ASSUME NEW l, Goto(t, l) \/ End(t, l)
        PROVE  pc'[t] = l
    BY <1>1, <2>3 DEF Goto, End, TypeOK
  <2>4. ASSUME NEW i \in Issued, <<i, "no key update">> \in locks'[t]
        PROVE  token[i] # None
    <3>1. i # "user"
      BY KindsAreDisjoint
    <3>2. ASSUME NEW row, NEW mode, Lock(t, row, mode)
          PROVE  \/ <<i, "no key update">> \in locks[t]
                 \/ i = row /\ mode = "no key update"
      BY <1>1, <2>4, <3>2 DEF Lock, TypeOK
    <3>3. \A l : End(t, l) => locks'[t] = {}
      BY <1>1 DEF End, TypeOK
    <3>4. <<i, "no key update">> \in locks[t] \/ i \in Live
      <4>1. CASE locks' = locks
        BY <2>4, <4>1
      <4>2. CASE \E l : End(t, l)
        BY <2>4, <3>3, <4>2
      <4>3. CASE \/ Lock(t, "user", "no key update")
                 \/ Lock(t, "user", "key share")
                 \/ Lock(t, "user", "update")
        <5>1. PICK mode : Lock(t, "user", mode)
          BY <4>3
        <5> QED
          BY <3>1, <3>2, <5>1
      <4>4. CASE Lock(t, card[t], "update")
        BY <1>1, <2>4, <4>4 DEF Lock, TypeOK
      <4>5. CASE \E j \in Live : Lock(t, j, "no key update")
        BY <3>2, <4>5
      <4> QED
        BY <2>2, <4>1, <4>2, <4>3, <4>4, <4>5
    <3> QED
      BY <1>1, <3>4 DEF RevokeHolds, Live, None
  <2>5. ASSUME NEW u \in Txs, NEW i \in Issued,
               <<i, "no key update">> \in locks'[u]
        PROVE  token'[i] # None
    <3>1. token[i] # None
      BY <1>1, <2>1, <2>4, <2>5 DEF RevokeHolds
    <3> QED
      BY <3>1, TokenStep
  <2>6. ASSUME NEW u \in Txs, pc'[u] = "commit"
        PROVE  todo'[u] = {}
    <3>1. CASE u # t
      BY <1>1, <2>1, <2>6, <3>1 DEF RevokeHolds
    <3>2. CASE u = t
      <4>1. RevokeMark(t)
        BY <1>3, <2>3, <2>6, <3>2
           DEF Begin, Step, SignInCheck, SignInIssue, SignInCommit,
               RefreshSelect, RefreshIssue, RefreshCommit, SignOut,
               AccountLock, RevokeSelect, RevokeCommit, WaitFails, Crash
      <4> QED
        BY <2>6, <3>2, <4>1 DEF RevokeMark
    <3> QED
      BY <3>1, <3>2
  <2>7. ASSUME t \in Passwords \cup Deletes,
               pc'[t] \in {"select", "mark", "commit"}
        PROVE  AccountLock(t) \/ RevokeSelect(t) \/ RevokeMark(t)
    BY <1>3, <2>3, <2>7, KindsAreDisjoint
       DEF Begin, Step, SignInCheck, SignInIssue, SignInCommit,
           RefreshSelect, RefreshIssue, RefreshCommit, SignOut, RevokeCommit,
           WaitFails, Crash
  <2>8. ASSUME t \in Passwords \cup Deletes,
               pc'[t] \in {"select", "mark", "commit"}
        PROVE  <<"user", "update">> \in locks'[t]
    <3>1. CASE AccountLock(t)
      <4>1. Lock(t, "user", "update")
        BY <2>3, <2>8, <3>1 DEF AccountLock, UserLockMode
      <4> QED
        BY <1>1, <4>1 DEF Lock, TypeOK
    <3>2. CASE RevokeSelect(t)
      <4>1. pc[t] = "select" /\ locks' = locks
        BY <2>8, <3>2, NamesAssumption DEF RevokeSelect, Selects
      <4> QED
        BY <1>1, <2>8, <4>1 DEF RevokeHolds
    <3>3. CASE RevokeMark(t)
      <4>1. ASSUME NEW i, Lock(t, i, "no key update")
            PROVE  locks[t] \subseteq locks'[t]
        BY <1>1, <4>1 DEF Lock, TypeOK
      <4>2. pc[t] = "mark" /\ locks[t] \subseteq locks'[t]
        BY <3>3, <4>1 DEF RevokeMark
      <4> QED
        BY <1>1, <2>8, <4>2 DEF RevokeHolds
    <3> QED
      BY <2>7, <2>8, <3>1, <3>2, <3>3
  <2>9. ASSUME NEW u \in Passwords \cup Deletes,
               pc'[u] \in {"select", "mark", "commit"}
        PROVE  <<"user", "update">> \in locks'[u]
    <3>1. u \in Txs
      BY DEF Txs
    <3> QED
      BY <1>1, <2>1, <2>8, <2>9, <3>1 DEF RevokeHolds
  <2>10. ASSUME NEW u \in Passwords \cup Deletes,
                pc'[u] \in {"mark", "commit"}, NEW i \in Live'
         PROVE  i \in todo'[u] \/ <<i, "no key update">> \in locks'[u]
    <3>1. u \in Txs
      BY DEF Txs
    <3>2. CASE u # t
      <4>1. /\ pc[u] \in {"mark", "commit"}
            /\ <<"user", "update">> \in locks[u]
        BY <1>1, <2>1, <2>10, <3>1, <3>2 DEF RevokeHolds
      <4>2. i \in Live
        BY <4>1, NobodyInserts, LiveStep
      <4> QED
        BY <1>1, <2>1, <3>1, <3>2, <4>1, <4>2 DEF RevokeHolds
    <3>3. CASE u = t
      <4>1. AccountLock(t) \/ RevokeSelect(t) \/ RevokeMark(t)
        BY <2>7, <2>10, <3>3
      <4>2. ~AccountLock(t)
        BY <2>3, <2>10, <3>3 DEF AccountLock
      <4>3. i \in Live
        BY <4>1 DEF AccountLock, RevokeSelect, RevokeMark, tokens, Live
      <4>4. CASE RevokeSelect(t)
        BY <1>1, <3>3, <4>3, <4>4
           DEF RevokeSelect, Revocable, Exists, Live, TypeOK, None
      <4>5. CASE RevokeMark(t)
        <5>1. \/ i \in todo[t]
              \/ <<i, "no key update">> \in locks[t]
          BY <1>1, <3>3, <4>3, <4>5 DEF RevokeMark, RevokeHolds
        <5>2. ASSUME NEW j \in todo[t],
                     IF j \in Live THEN Lock(t, j, "no key update")
                                   ELSE UNCHANGED locks,
                     todo' = [todo EXCEPT ![t] = @ \ {j}]
              PROVE  i \in todo'[u] \/ <<i, "no key update">> \in locks'[u]
          BY <1>1, <3>3, <4>3, <5>1, <5>2 DEF Lock, TypeOK
        <5> QED
          BY <3>3, <4>5, <5>1, <5>2 DEF RevokeMark
      <4> QED
        BY <4>1, <4>2, <4>4, <4>5
    <3> QED
      BY <3>2, <3>3
  <2> QED
    BY <2>5, <2>6, <2>9, <2>10 DEF RevokeHolds
<1> QED
  BY <1>2, <1>3 DEF Next

LEMMA OneLiveStep ==
    ASSUME SessionsInv, [Next]_vars
    PROVE  OneLivePerSession'
<1>1. TypeOK /\ RootsExist /\ OneLivePerSession
  BY DEF SessionsInv
<1> SUFFICES ASSUME NEW i \in Live', NEW j \in Live', root'[i] = root'[j]
             PROVE  i = j
  BY DEF OneLivePerSession
<1>2. i \in Issued /\ j \in Issued
  BY DEF Live
<1>3. ASSUME NEW t \in Txs, SignInCommit(t)
      PROVE  i = j
  <2>1. ASSUME NEW k \in Live', k # t
        PROVE  k \in Live /\ root'[k] = root[k] /\ root[k] # t
    <3>1. k \in Issued /\ token[k] = "live" /\ root'[k] = root[k]
      BY <1>1, <1>3, <2>1, SignInEffect DEF Live, TypeOK
    <3>2. root[k] # t
      BY <1>1, <1>3, <3>1, SignInEffect DEF RootsExist
    <3> QED
      BY <3>1, <3>2 DEF Live
  <2>2. root'[t] = t
    BY <1>1, <1>3, SignInEffect DEF TypeOK
  <2> QED
    BY <1>1, <2>1, <2>2 DEF OneLivePerSession
<1>4. ASSUME NEW t \in Txs, RefreshCommit(t)
      PROVE  i = j
  <2>1. /\ t \in Issued /\ card[t] \in Issued /\ card[t] \in Live
        /\ token'[card[t]] = "revoked"
        /\ root' = [root EXCEPT ![t] = root[card[t]]]
        /\ \A k \in Issued : k # t /\ k # card[t] => token'[k] = token[k]
    BY <1>4, RefreshEffect DEF Live
  <2>2. ASSUME NEW k \in Live', k # t
        PROVE  k \in Live /\ root'[k] = root[k] /\ k # card[t]
    <3>1. k \in Issued /\ token'[k] = "live" /\ k # card[t]
      BY <2>1 DEF Live
    <3>2. token[k] = "live" /\ root'[k] = root[k]
      BY <1>1, <2>1, <2>2, <3>1 DEF TypeOK
    <3> QED
      BY <3>1, <3>2 DEF Live
  <2>3. root'[t] = root[card[t]]
    BY <1>1, <2>1 DEF TypeOK
  <2> QED
    BY <1>1, <2>1, <2>2, <2>3 DEF OneLivePerSession
<1>5. CASE \A t \in Txs : ~SignInCommit(t) /\ ~RefreshCommit(t)
  <2>1. i \in Live /\ j \in Live
    BY <1>5, LiveStep
  <2>2. ASSUME NEW t \in Txs, SignOut(t) \/ RevokeCommit(t)
        PROVE  root' = root
    BY <2>2 DEF SignOut, RevokeCommit
  <2>3. root' = root
    BY <1>5, <2>2, Writers DEF tokens
  <2> QED
    BY <1>1, <2>1, <2>3 DEF OneLivePerSession
<1> QED
  BY <1>3, <1>4, <1>5

LEMMA SessionsStep ==
    ASSUME SessionsInv, [Next]_vars
    PROVE  SessionsInv'
<1>1. TypeOK' /\ LocksExclude'
  BY TypeStep, LocksStep DEF SessionsInv
<1> QED
  BY <1>1, TokensOfRequestsStep, RootsExistStep, RefreshHoldsStep,
     InsertHoldsStep, RevokeHoldsStep, OneLiveStep DEF SessionsInv

-----------------------------------------------------------------------------
(* Theorems *)

\* The locks of the transactions, the tokens they stand for and the one live
\* token of each session hold together in every reachable state.
THEOREM SessionsCorrect == Spec => []SessionsInv
<1>1. Init => SessionsInv
  BY InitSessions
<1>2. SessionsInv /\ [Next]_vars => SessionsInv'
  BY SessionsStep
<1> QED
  BY <1>1, <1>2, PTL DEF Spec

\* refresh, signIn, signOut and the revoking transactions keep the types of
\* what they read and write.
THEOREM SessionsTypeCorrect == Spec => []TypeOK
<1>1. SessionsInv => TypeOK
  BY DEF SessionsInv
<1> QED
  BY <1>1, SessionsCorrect, PTL

\* However many requests present one cookie, and whoever signs in or out
\* meanwhile, a session has at most one live refresh token: FOR UPDATE OF rt
\* in refresh lets one of them exchange it.
THEOREM SessionsOneLive == Spec => []OneLivePerSession
<1>1. SessionsInv => OneLivePerSession
  BY DEF SessionsInv
<1> QED
  BY <1>1, SessionsCorrect, PTL

\* A password change changes the password when it commits, and its UPDATE has
\* then locked all the live tokens.
LEMMA PasswordEndsAll ==
    ASSUME SessionsInv, [Next]_vars, password' # password
    PROVE  Live' = {}
<1>1. PICK t \in Txs : RevokeCommit(t)
  BY Writers DEF SignInCommit, RefreshCommit, SignOut, user
<1>2. t \in Passwords
  <2>1. password' = [p \in Passwords |-> password[p] \/ p = t]
    BY <1>1 DEF RevokeCommit
  <2>2. password \in [Passwords -> BOOLEAN]
    BY DEF SessionsInv, TypeOK
  <2> SUFFICES ASSUME t \notin Passwords
               PROVE  FALSE
    OBVIOUS
  <2>3. \A p \in Passwords : (password[p] \/ p = t) = password[p]
    BY <2>2
  <2>4. password' = [p \in Passwords |-> password[p]]
    BY <2>1, <2>3
  <2> QED
    BY <2>2, <2>4
<1>3. \A i \in Live : <<i, "no key update">> \in locks[t]
  BY <1>1, <1>2, RevokeEffect DEF SessionsInv, RevokeHolds
<1>4. \A u \in Txs : ~SignInCommit(u) /\ ~RefreshCommit(u)
  BY <1>1, <1>2, NobodyInserts, RevokeEffect DEF SessionsInv, RevokeHolds
<1> SUFFICES ASSUME NEW i \in Live'
             PROVE  FALSE
  OBVIOUS
<1>5. i \in Live /\ i \in Issued /\ token'[i] = "live"
  BY <1>4, LiveStep DEF Live
<1> QED
  BY <1>1, <1>3, <1>5, RevokeEffect

LEMMA RevocationStep ==
    ASSUME SessionsInv, [Next]_vars
    PROVE  RevocationHolds
<1>1. ASSUME NEW r \in Refreshes, token[r] = None, token'[r] = "live"
      PROVE  active
  <2>1. r \in Issued /\ r \notin SignIns
    BY KindsAreDisjoint DEF Issued
  <2>2. \E t \in Txs : RefreshCommit(t)
    <3>1. ASSUME NEW t \in Txs, SignInCommit(t)
          PROVE  token'[r] = token[r]
      BY <2>1, <3>1, SignInEffect DEF SessionsInv, TypeOK
    <3>2. ASSUME \A t \in Txs : ~SignInCommit(t) /\ ~RefreshCommit(t)
          PROVE  token[r] = "live"
      BY <1>1, <2>1, <3>2, LiveStep DEF Live
    <3> QED
      BY <1>1, <3>1, <3>2 DEF None
  <2> QED
    BY <2>2, RefreshEffect
<1>2. ASSUME NEW i \in Issued, successor[i] # None
      PROVE  successor'[i] = successor[i]
  <2>1. ASSUME NEW t \in Txs, RefreshCommit(t)
        PROVE  successor'[i] = successor[i]
    <3>1. /\ successor[card[t]] = None
          /\ successor' = [successor EXCEPT ![card[t]] = t]
      BY <2>1, RefreshEffect
    <3>2. successor \in [Issued -> Refreshes \cup {None}]
      BY DEF SessionsInv, TypeOK
    <3> QED
      BY <1>2, <3>1, <3>2
  <2> QED
    BY <2>1, Writers DEF SignInCommit, SignOut, RevokeCommit, tokens
<1> QED
  BY <1>1, <1>2, PasswordEndsAll, TokenStep DEF RevocationHolds

\* Once changePassword has committed no session is left, whatever was being
\* exchanged meanwhile; no refresh issues a token to a user who is not active;
\* and a token that was revoked or exchanged stays so.
THEOREM SessionsRevoked == Spec => RevokedForGood
<1>1. SessionsInv /\ [Next]_vars => [RevocationHolds]_vars
  BY RevocationStep
<1> QED
  BY <1>1, SessionsCorrect, PTL DEF Spec, RevokedForGood

-----------------------------------------------------------------------------
(* Side by side (MCWeb) *)

\* The parts as WebPartsProofs has them, with the constants they have in the
\* run "web".
P == INSTANCE WebPartsProofs WITH
    Requests <- Pair, Routes <- {"account"}, Callers <- {"customer"},
    Attempts <- 3, MaxFaults <- 2, Connections <- {q1, q2, q3},
    Runners <- {q1, q2, q3}, Checksums <- {"a", "b"},
    Releases <- {<<"a">>, <<"a", "a">>, <<"b", "a">>}, MaxFailures <- 1,
    Resets <- FALSE, Users <- {"ann", "bob"}, Keys <- {"orders"},
    Hooks <- Pair, MoreTabs <- FALSE, MaxVersion <- 2, Tabs <- {"t1"},
    Refreshers <- Pair, MaxTokens <- 50, Products <- Pair, Stock <- 2,
    MaxRuns <- 3, MaxErrors <- 1, Renames <- TRUE, Addresses <- Pair,
    Prices <- {1, 2}, MaxMounts <- 2, MaxRequests <- 2, Losses <- TRUE,
    ask <- x1, at <- x2, attempt <- x3, copies <- x4, answer <- x5,
    effects <- x6, exists <- x7, faults <- x8, listener <- x1, request <- x2,
    timer <- x3, worker <- x4, pool <- x5, hook <- x6, deadline <- x7,
    exit <- x8, schema <- x1, recorded <- x2, run <- x3, failures <- x4,
    user <- x1, bearer <- x2, holder <- x3, data <- x4, cache <- x5,
    query <- x6, write <- x7, own <- x8, cookie <- x1, live <- x2,
    issued <- x3, page <- x4, access <- x5, promise <- x6, flight <- x7,
    account <- x1, addresses <- x2, hasDefault <- x3, listed <- x4,
    available <- x5, reserved <- x6, sold <- x7, reviews <- x8, outbox <- x9,
    indexed <- x10, job <- x11, runs <- x12, crashes <- x13, quiet <- x14,
    step <- x1, address <- x2, payment <- x3, mount <- x4, seen <- x5,
    preview <- x6, waiting <- x7, told <- x8, requests <- x9, store <- x10,
    used <- x11, orders <- x12, cart <- x13, price <- x14,
    WriteThrough <- {}, Signs <- {}, Faults <- {}

Other == INSTANCE WebPartsProofs WITH
    Requests <- {q1}, Routes <- Relay!AllRoutes,
    Callers <- {"anonymous", "customer", "admin"}, Attempts <- 3,
    MaxFaults <- 1, Connections <- {q1, q2, q3}, Runners <- {q1, q2},
    Checksums <- {"a", "b"}, Releases <- {<<"a">>, <<"a", "a">>, <<"b", "a">>},
    MaxFailures <- 1, Resets <- TRUE, Users <- {"ann", "bob"},
    Keys <- {"orders"}, Hooks <- {q1}, MoreTabs <- TRUE, MaxVersion <- 2,
    Tabs <- {"t1"}, Refreshers <- Pair, MaxTokens <- 50, Products <- Pair,
    Stock <- 2, MaxRuns <- 3, MaxErrors <- 1, Renames <- TRUE,
    Addresses <- Pair, Prices <- {1, 2}, MaxMounts <- 2, MaxRequests <- 2,
    Losses <- TRUE, ask <- x1, at <- x2, attempt <- x3, copies <- x4,
    answer <- x5, effects <- x6, exists <- x7, faults <- x8, listener <- x1,
    request <- x2, timer <- x3, worker <- x4, pool <- x5, hook <- x6,
    deadline <- x7, exit <- x8, schema <- x1, recorded <- x2, run <- x3,
    failures <- x4, user <- x1, bearer <- x2, holder <- x3, data <- x4,
    cache <- x5, query <- x6, write <- x7, own <- x8, cookie <- x1, live <- x2,
    issued <- x3, page <- x4, access <- x5, promise <- x6, flight <- x7,
    account <- x1, addresses <- x2, hasDefault <- x3, listed <- x4,
    available <- x5, reserved <- x6, sold <- x7, reviews <- x8, outbox <- x9,
    indexed <- x10, job <- x11, runs <- x12, crashes <- x13, quiet <- x14,
    step <- x1, address <- x2, payment <- x3, mount <- x4, seen <- x5,
    preview <- x6, waiting <- x7, told <- x8, requests <- x9, store <- x10,
    used <- x11, orders <- x12, cart <- x13, price <- x14,
    WriteThrough <- {}, Signs <- {}, Faults <- {}

\* The part that runs is the one that began.
LEMMA PartStays == [MCNext]_state => part' = part
BY DEF MCNext, Unused, state

\* Part "relay" of the run is the Relay of WebPartsProofs.
LEMMA SameRelay ==
    /\ Relay!Init <=> P!Relay!Init
    /\ Relay!Next <=> P!Relay!Next
    /\ Relay!RelayAssumption <=> P!Relay!RelayAssumption
    /\ Relay!WriteOnce <=> P!Relay!WriteOnce
    /\ Relay!AnswerIsTrue <=> P!Relay!AnswerIsTrue
BY DEF Relay!Methods, P!Relay!Methods, Relay!AllRoutes, P!Relay!AllRoutes,
    Relay!RelayAssumption, P!Relay!RelayAssumption, Relay!NoAsk, P!Relay!NoAsk,
    Relay!Unanswered, P!Relay!Unanswered, Relay!Unsent, P!Relay!Unsent,
    Relay!Sent, P!Relay!Sent, Relay!Refused, P!Relay!Refused, Relay!Statuses,
    P!Relay!Statuses, Relay!Init, P!Relay!Init, Relay!Goto, P!Relay!Goto,
    Relay!Answer, P!Relay!Answer, Relay!Ask, P!Relay!Ask, Relay!RouteAuth,
    P!Relay!RouteAuth, Relay!MethodAuth, P!Relay!MethodAuth, Relay!Policy,
    P!Relay!Policy, Relay!Admitted, P!Relay!Admitted, Relay!Guard,
    P!Relay!Guard, Relay!Retryable, P!Relay!Retryable, Relay!CanRetry,
    P!Relay!CanRetry, Relay!Send, P!Relay!Send, Relay!Status, P!Relay!Status,
    Relay!Relayed, P!Relay!Relayed, Relay!Receive, P!Relay!Receive,
    Relay!TimesOut, P!Relay!TimesOut, Relay!GiveUp, P!Relay!GiveUp,
    Relay!Timeout, P!Relay!Timeout, Relay!Reset, P!Relay!Reset, Relay!Refuse,
    P!Relay!Refuse, Relay!Backoff, P!Relay!Backoff, Relay!Done, P!Relay!Done,
    Relay!Handle, P!Relay!Handle, Relay!HandlerFails, P!Relay!HandlerFails,
    Relay!Gateway, P!Relay!Gateway, Relay!Next, P!Relay!Next, Relay!WriteOnce,
    P!Relay!WriteOnce, Relay!AnswerIsTrue, P!Relay!AnswerIsTrue

\* So what is proved of it holds of the run.
LEMMA RelayAlone ==
    MCSpec => [](part = "relay" => Relay!WriteOnce /\ Relay!AnswerIsTrue)
<1> DEFINE Runs == part = "relay"
<1>1. MCInit /\ Runs => P!Relay!Init
  BY SameRelay DEF MCInit
<1>2. ASSUME [MCNext]_state, Runs
      PROVE  Runs' /\ [P!Relay!Next]_(P!Relay!vars)
  <2>1. CASE MCNext
    <3>1. Relay!Next
      BY <1>2, <2>1 DEF MCNext
    <3> QED
      BY <1>2, <3>1, SameRelay, PartStays
  <2>2. CASE UNCHANGED state
    <3>1. UNCHANGED P!Relay!vars
      BY <2>2 DEF state, P!Relay!vars
    <3> QED
      BY <1>2, <3>1, PartStays
  <2> QED
    BY <1>2, <2>1, <2>2
<1>3. [MCNext]_state /\ ~Runs => ~Runs'
  BY PartStays
<1>4. P!Relay!RelayAssumption
  BY RelayHolds, SameRelay
<1>5. P!Relay!Spec => [](P!Relay!WriteOnce /\ P!Relay!AnswerIsTrue)
  <2>1. P!Relay!Spec =>
            [](P!Relay!WriteOnce /\ P!Relay!AnswerIsTrue /\
                P!Relay!WritesAreGuarded)
    BY <1>4, P!RelayIsSafe
  <2> QED
    BY <2>1, PTL
<1>6. P!Relay!WriteOnce /\ P!Relay!AnswerIsTrue =>
          Relay!WriteOnce /\ Relay!AnswerIsTrue
  BY SameRelay
<1> QED
  BY <1>1, <1>2, <1>3, <1>5, <1>6, PTL DEF MCSpec, P!Relay!Spec

\* Part "routing" of the run is the Relay of WebPartsProofs.
LEMMA SameRouting ==
    /\ Routing!Init <=> Other!Relay!Init
    /\ Routing!Next <=> Other!Relay!Next
    /\ Routing!RelayAssumption <=> Other!Relay!RelayAssumption
    /\ Routing!WritesAreGuarded <=> Other!Relay!WritesAreGuarded
BY DEF Routing!Methods, Other!Relay!Methods, Routing!AllRoutes,
    Other!Relay!AllRoutes, Routing!RelayAssumption,
    Other!Relay!RelayAssumption, Routing!NoAsk, Other!Relay!NoAsk,
    Routing!Unanswered, Other!Relay!Unanswered, Routing!Unsent,
    Other!Relay!Unsent, Routing!Sent, Other!Relay!Sent, Routing!Refused,
    Other!Relay!Refused, Routing!Statuses, Other!Relay!Statuses, Routing!Init,
    Other!Relay!Init, Routing!Goto, Other!Relay!Goto, Routing!Answer,
    Other!Relay!Answer, Routing!Ask, Other!Relay!Ask, Routing!RouteAuth,
    Other!Relay!RouteAuth, Routing!MethodAuth, Other!Relay!MethodAuth,
    Routing!Policy, Other!Relay!Policy, Routing!Admitted, Other!Relay!Admitted,
    Routing!Guard, Other!Relay!Guard, Routing!Retryable, Other!Relay!Retryable,
    Routing!CanRetry, Other!Relay!CanRetry, Routing!Send, Other!Relay!Send,
    Routing!Status, Other!Relay!Status, Routing!Relayed, Other!Relay!Relayed,
    Routing!Receive, Other!Relay!Receive, Routing!TimesOut,
    Other!Relay!TimesOut, Routing!GiveUp, Other!Relay!GiveUp, Routing!Timeout,
    Other!Relay!Timeout, Routing!Reset, Other!Relay!Reset, Routing!Refuse,
    Other!Relay!Refuse, Routing!Backoff, Other!Relay!Backoff, Routing!Done,
    Other!Relay!Done, Routing!Handle, Other!Relay!Handle, Routing!HandlerFails,
    Other!Relay!HandlerFails, Routing!Gateway, Other!Relay!Gateway,
    Routing!Next, Other!Relay!Next, Routing!WritesAreGuarded,
    Other!Relay!WritesAreGuarded

\* So what is proved of it holds of the run.
LEMMA RoutingAlone ==
    MCSpec => [](part = "routing" => Routing!WritesAreGuarded)
<1> DEFINE Runs == part = "routing"
<1>1. MCInit /\ Runs => Other!Relay!Init
  BY SameRouting DEF MCInit
<1>2. ASSUME [MCNext]_state, Runs
      PROVE  Runs' /\ [Other!Relay!Next]_(Other!Relay!vars)
  <2>1. CASE MCNext
    <3>1. Routing!Next
      BY <1>2, <2>1 DEF MCNext
    <3> QED
      BY <1>2, <3>1, SameRouting, PartStays
  <2>2. CASE UNCHANGED state
    <3>1. UNCHANGED Other!Relay!vars
      BY <2>2 DEF state, Other!Relay!vars
    <3> QED
      BY <1>2, <3>1, PartStays
  <2> QED
    BY <1>2, <2>1, <2>2
<1>3. [MCNext]_state /\ ~Runs => ~Runs'
  BY PartStays
<1>4. Other!Relay!RelayAssumption
  BY RoutingHolds, SameRouting
<1>5. Other!Relay!Spec => [](Other!Relay!WritesAreGuarded)
  <2>1. Other!Relay!Spec =>
            [](Other!Relay!WriteOnce /\ Other!Relay!AnswerIsTrue /\
                Other!Relay!WritesAreGuarded)
    BY <1>4, Other!RelayIsSafe
  <2> QED
    BY <2>1, PTL
<1>6. Other!Relay!WritesAreGuarded => Routing!WritesAreGuarded
  BY SameRouting
<1> QED
  BY <1>1, <1>2, <1>3, <1>5, <1>6, PTL DEF MCSpec, Other!Relay!Spec

\* Part "browserSession" of the run is the Page of WebPartsProofs.
LEMMA SamePage ==
    /\ BrowserSession!Init <=> P!Page!Init
    /\ BrowserSession!Next <=> P!Page!Next
    /\ BrowserSession!BoundAssumption <=> P!Page!BoundAssumption
    /\ BrowserSession!NotThrownOut <=> P!Page!NotThrownOut
BY DEF BrowserSession!BoundAssumption, P!Page!BoundAssumption,
    BrowserSession!server, P!Page!server, BrowserSession!None, P!Page!None,
    BrowserSession!Kinds, P!Page!Kinds, BrowserSession!Idle, P!Page!Idle,
    BrowserSession!Init, P!Page!Init, BrowserSession!Put, P!Page!Put,
    BrowserSession!Send, P!Page!Send, BrowserSession!Close, P!Page!Close,
    BrowserSession!At, P!Page!At, BrowserSession!ServeRefresh,
    P!Page!ServeRefresh, BrowserSession!ServeSign, P!Page!ServeSign,
    BrowserSession!Lose, P!Page!Lose, BrowserSession!Refused, P!Page!Refused,
    BrowserSession!Settled, P!Page!Settled, BrowserSession!SetCookie,
    P!Page!SetCookie, BrowserSession!Show, P!Page!Show, BrowserSession!Token,
    P!Page!Token, BrowserSession!Mount, P!Page!Mount,
    BrowserSession!HydrateSettles, P!Page!HydrateSettles,
    BrowserSession!Hydrated, P!Page!Hydrated, BrowserSession!NoRefreshYet,
    P!Page!NoRefreshYet, BrowserSession!StartRefresh, P!Page!StartRefresh,
    BrowserSession!Refreshed, P!Page!Refreshed, BrowserSession!SignIn,
    P!Page!SignIn, BrowserSession!SignedIn, P!Page!SignedIn,
    BrowserSession!SignOut, P!Page!SignOut, BrowserSession!SignedOut,
    P!Page!SignedOut, BrowserSession!Reload, P!Page!Reload,
    BrowserSession!Answer, P!Page!Answer, BrowserSession!Gateway,
    P!Page!Gateway, BrowserSession!User, P!Page!User, BrowserSession!Next,
    P!Page!Next, BrowserSession!NotThrownOut, P!Page!NotThrownOut

\* So what is proved of it holds of the run.
LEMMA PageAlone ==
    MCSpec => [](part = "browserSession" => BrowserSession!NotThrownOut)
<1> DEFINE Runs == part = "browserSession"
<1>1. MCInit /\ Runs => P!Page!Init
  BY SamePage DEF MCInit
<1>2. ASSUME [MCNext]_state, Runs
      PROVE  Runs' /\ [P!Page!Next]_(P!Page!vars)
  <2>1. CASE MCNext
    <3>1. BrowserSession!Next
      BY <1>2, <2>1 DEF MCNext
    <3> QED
      BY <1>2, <3>1, SamePage, PartStays
  <2>2. CASE UNCHANGED state
    <3>1. UNCHANGED P!Page!vars
      BY <2>2 DEF state, P!Page!vars
    <3> QED
      BY <1>2, <3>1, PartStays
  <2> QED
    BY <1>2, <2>1, <2>2
<1>3. [MCNext]_state /\ ~Runs => ~Runs'
  BY PartStays
<1>4. P!Page!BoundAssumption
  BY BrowserSessionHolds, SamePage
<1>5. P!Page!Spec => [](P!Page!NotThrownOut)
  BY <1>4, P!NotThrownOutOfOneTab
<1>6. P!Page!NotThrownOut => BrowserSession!NotThrownOut
  BY SamePage
<1> QED
  BY <1>1, <1>2, <1>3, <1>5, <1>6, PTL DEF MCSpec, P!Page!Spec

\* Part "queryCache" of the run is the Cache of WebPartsProofs.
LEMMA SameCache ==
    /\ QueryCache!Init <=> P!Cache!Init
    /\ QueryCache!Next <=> P!Cache!Next
    /\ QueryCache!QueryCacheAssumption <=> P!Cache!QueryCacheAssumption
    /\ QueryCache!NotAnothers <=> P!Cache!NotAnothers
    /\ QueryCache!ReadsItsWrites <=> P!Cache!ReadsItsWrites
BY DEF QueryCache!QueryCacheAssumption, P!Cache!QueryCacheAssumption,
    QueryCache!None, P!Cache!None, QueryCache!Empty, P!Cache!Empty,
    QueryCache!Idle, P!Cache!Idle, QueryCache!Sent, P!Cache!Sent,
    QueryCache!Init, P!Cache!Init, QueryCache!SignIn, P!Cache!SignIn,
    QueryCache!Left, P!Cache!Left, QueryCache!Cleared, P!Cache!Cleared,
    QueryCache!SignOut, P!Cache!SignOut, QueryCache!Refresh, P!Cache!Refresh,
    QueryCache!OtherSignIn, P!Cache!OtherSignIn, QueryCache!Refetch,
    P!Cache!Refetch, QueryCache!Served, P!Cache!Served, QueryCache!ServeQuery,
    P!Cache!ServeQuery, QueryCache!Shown, P!Cache!Shown,
    QueryCache!QueryAnswered, P!Cache!QueryAnswered, QueryCache!Loaded,
    P!Cache!Loaded, QueryCache!Mutate, P!Cache!Mutate, QueryCache!ServeWrite,
    P!Cache!ServeWrite, QueryCache!Joined, P!Cache!Joined,
    QueryCache!Invalidated, P!Cache!Invalidated, QueryCache!WriteAnswered,
    P!Cache!WriteAnswered, QueryCache!Next, P!Cache!Next,
    QueryCache!NotAnothers, P!Cache!NotAnothers, QueryCache!ReadsItsWrites,
    P!Cache!ReadsItsWrites, QueryCache!Fetched, P!Cache!Fetched

\* So what is proved of it holds of the run.
LEMMA CacheAlone ==
    MCSpec =>
        [](part = "queryCache" =>
            QueryCache!NotAnothers /\ QueryCache!ReadsItsWrites)
<1> DEFINE Runs == part = "queryCache"
<1>1. MCInit /\ Runs => P!Cache!Init
  BY SameCache DEF MCInit
<1>2. ASSUME [MCNext]_state, Runs
      PROVE  Runs' /\ [P!Cache!Next]_(P!Cache!vars)
  <2>1. CASE MCNext
    <3>1. QueryCache!Next
      BY <1>2, <2>1 DEF MCNext
    <3> QED
      BY <1>2, <3>1, SameCache, PartStays
  <2>2. CASE UNCHANGED state
    <3>1. UNCHANGED P!Cache!vars
      BY <2>2 DEF state, P!Cache!vars
    <3> QED
      BY <1>2, <3>1, PartStays
  <2> QED
    BY <1>2, <2>1, <2>2
<1>3. [MCNext]_state /\ ~Runs => ~Runs'
  BY PartStays
<1>4. P!Cache!QueryCacheAssumption
  BY QueryCacheHolds, SameCache
<1>5. P!Cache!Spec => [](P!Cache!NotAnothers /\ P!Cache!ReadsItsWrites)
  <2>1. P!Cache!Spec => [](P!Cache!NotAnothers /\ P!Cache!ReadsItsWrites)
    BY <1>4, P!ShowsOwn
  <2> QED
    BY <2>1, PTL
<1>6. P!Cache!NotAnothers /\ P!Cache!ReadsItsWrites =>
          QueryCache!NotAnothers /\ QueryCache!ReadsItsWrites
  BY SameCache
<1> QED
  BY <1>1, <1>2, <1>3, <1>5, <1>6, PTL DEF MCSpec, P!Cache!Spec

\* Part "otherTab" of the run is the Cache of WebPartsProofs.
LEMMA SameOtherTab ==
    /\ OtherTab!Init <=> Other!Cache!Init
    /\ OtherTab!Next <=> Other!Cache!Next
    /\ OtherTab!QueryCacheAssumption <=> Other!Cache!QueryCacheAssumption
    /\ OtherTab!NothingLeft <=> Other!Cache!NothingLeft
BY DEF OtherTab!QueryCacheAssumption, Other!Cache!QueryCacheAssumption,
    OtherTab!None, Other!Cache!None, OtherTab!Empty, Other!Cache!Empty,
    OtherTab!Idle, Other!Cache!Idle, OtherTab!Sent, Other!Cache!Sent,
    OtherTab!Init, Other!Cache!Init, OtherTab!SignIn, Other!Cache!SignIn,
    OtherTab!Left, Other!Cache!Left, OtherTab!Cleared, Other!Cache!Cleared,
    OtherTab!SignOut, Other!Cache!SignOut, OtherTab!Refresh,
    Other!Cache!Refresh, OtherTab!OtherSignIn, Other!Cache!OtherSignIn,
    OtherTab!Refetch, Other!Cache!Refetch, OtherTab!Served, Other!Cache!Served,
    OtherTab!ServeQuery, Other!Cache!ServeQuery, OtherTab!Shown,
    Other!Cache!Shown, OtherTab!QueryAnswered, Other!Cache!QueryAnswered,
    OtherTab!Loaded, Other!Cache!Loaded, OtherTab!Mutate, Other!Cache!Mutate,
    OtherTab!ServeWrite, Other!Cache!ServeWrite, OtherTab!Joined,
    Other!Cache!Joined, OtherTab!Invalidated, Other!Cache!Invalidated,
    OtherTab!WriteAnswered, Other!Cache!WriteAnswered, OtherTab!Next,
    Other!Cache!Next, OtherTab!NothingLeft, Other!Cache!NothingLeft,
    OtherTab!Fetched, Other!Cache!Fetched

\* So what is proved of it holds of the run.
LEMMA OtherTabAlone ==
    MCSpec => [](part = "otherTab" => OtherTab!NothingLeft)
<1> DEFINE Runs == part = "otherTab"
<1>1. MCInit /\ Runs => Other!Cache!Init
  BY SameOtherTab DEF MCInit
<1>2. ASSUME [MCNext]_state, Runs
      PROVE  Runs' /\ [Other!Cache!Next]_(Other!Cache!vars)
  <2>1. CASE MCNext
    <3>1. OtherTab!Next
      BY <1>2, <2>1 DEF MCNext
    <3> QED
      BY <1>2, <3>1, SameOtherTab, PartStays
  <2>2. CASE UNCHANGED state
    <3>1. UNCHANGED Other!Cache!vars
      BY <2>2 DEF state, Other!Cache!vars
    <3> QED
      BY <1>2, <3>1, PartStays
  <2> QED
    BY <1>2, <2>1, <2>2
<1>3. [MCNext]_state /\ ~Runs => ~Runs'
  BY PartStays
<1>4. Other!Cache!QueryCacheAssumption
  BY OtherTabHolds, SameOtherTab
<1>5. Other!Cache!Spec => [](Other!Cache!NothingLeft)
  <2>1. Other!Cache!Spec => [](Other!Cache!TypeOK /\ Other!Cache!NothingLeft)
    BY <1>4, Other!NothingIsLeft
  <2> QED
    BY <2>1, PTL
<1>6. Other!Cache!NothingLeft => OtherTab!NothingLeft
  BY SameOtherTab
<1> QED
  BY <1>1, <1>2, <1>3, <1>5, <1>6, PTL DEF MCSpec, Other!Cache!Spec

\* Part "migrations" of the run is the Migrations of WebPartsProofs.
LEMMA SameMigrations ==
    /\ Migrations!Init <=> P!Migrations!Init
    /\ Migrations!Next <=> P!Migrations!Next
    /\ Migrations!MigrationsAssumption <=> P!Migrations!MigrationsAssumption
    /\ Migrations!RecordedOnce <=> P!Migrations!RecordedOnce
    /\ Migrations!InOrder <=> P!Migrations!InOrder
    /\ Migrations!NoDivergence <=> P!Migrations!NoDivergence
BY DEF Migrations!MigrationsAssumption, P!Migrations!MigrationsAssumption,
    Migrations!Row, P!Migrations!Row, Migrations!NoRun, P!Migrations!NoRun,
    Migrations!Init, P!Migrations!Init, Migrations!Version,
    P!Migrations!Version, Migrations!File, P!Migrations!File, Migrations!Seen,
    P!Migrations!Seen, Migrations!Known, P!Migrations!Known, Migrations!Start,
    P!Migrations!Start, Migrations!Looping, P!Migrations!Looping,
    Migrations!SameSum, P!Migrations!SameSum, Migrations!Skip,
    P!Migrations!Skip, Migrations!Refuse, P!Migrations!Refuse,
    Migrations!Begin, P!Migrations!Begin, Migrations!Exists,
    P!Migrations!Exists, Migrations!NextFile, P!Migrations!NextFile,
    Migrations!Throw, P!Migrations!Throw, Migrations!Commit,
    P!Migrations!Commit, Migrations!Fail, P!Migrations!Fail, Migrations!Finish,
    P!Migrations!Finish, Migrations!Down, P!Migrations!Down, Migrations!Step,
    P!Migrations!Step, Migrations!Next, P!Migrations!Next,
    Migrations!RecordedOnce, P!Migrations!RecordedOnce, Migrations!InOrder,
    P!Migrations!InOrder, Migrations!NoDivergence, P!Migrations!NoDivergence,
    Migrations!ToSet, P!Migrations!ToSet

\* So what is proved of it holds of the run.
LEMMA MigrationsAlone ==
    MCSpec =>
        [](part = "migrations" =>
            Migrations!RecordedOnce /\ Migrations!InOrder /\
                Migrations!NoDivergence)
<1> DEFINE Runs == part = "migrations"
<1>1. MCInit /\ Runs => P!Migrations!Init
  BY SameMigrations DEF MCInit
<1>2. ASSUME [MCNext]_state, Runs
      PROVE  Runs' /\ [P!Migrations!Next]_(P!Migrations!vars)
  <2>1. CASE MCNext
    <3>1. Migrations!Next
      BY <1>2, <2>1 DEF MCNext
    <3> QED
      BY <1>2, <3>1, SameMigrations, PartStays
  <2>2. CASE UNCHANGED state
    <3>1. UNCHANGED P!Migrations!vars
      BY <2>2 DEF state, P!Migrations!vars
    <3> QED
      BY <1>2, <3>1, PartStays
  <2> QED
    BY <1>2, <2>1, <2>2
<1>3. [MCNext]_state /\ ~Runs => ~Runs'
  BY PartStays
<1>4. P!Migrations!MigrationsAssumption
  BY MigrationsHold, SameMigrations
<1>5. P!Migrations!Spec =>
          [](P!Migrations!RecordedOnce /\ P!Migrations!InOrder /\
              P!Migrations!NoDivergence)
  <2>1. P!Migrations!Spec =>
            [](P!Migrations!TypeOK /\ P!Migrations!RecordedOnce)
    BY <1>4, P!MigratedOnce
  <2>2. P!Migrations!Spec =>
            [](P!Migrations!InOrder /\ P!Migrations!NoDivergence)
    BY <1>4, P!MigratedInOrder
  <2> QED
    BY <2>1, <2>2, PTL
<1>6. P!Migrations!RecordedOnce /\ P!Migrations!InOrder /\
          P!Migrations!NoDivergence =>
              Migrations!RecordedOnce /\ Migrations!InOrder /\
                  Migrations!NoDivergence
  BY SameMigrations
<1> QED
  BY <1>1, <1>2, <1>3, <1>5, <1>6, PTL DEF MCSpec, P!Migrations!Spec

\* Part "emptied" of the run is the Migrations of WebPartsProofs.
LEMMA SameEmptied ==
    /\ Emptied!Init <=> Other!Migrations!Init
    /\ Emptied!Next <=> Other!Migrations!Next
    /\ Emptied!MigrationsAssumption <=> Other!Migrations!MigrationsAssumption
    /\ Emptied!RecordedOnce <=> Other!Migrations!RecordedOnce
BY DEF Emptied!MigrationsAssumption, Other!Migrations!MigrationsAssumption,
    Emptied!Row, Other!Migrations!Row, Emptied!NoRun, Other!Migrations!NoRun,
    Emptied!Init, Other!Migrations!Init, Emptied!Version,
    Other!Migrations!Version, Emptied!File, Other!Migrations!File,
    Emptied!Seen, Other!Migrations!Seen, Emptied!Known, Other!Migrations!Known,
    Emptied!Start, Other!Migrations!Start, Emptied!Looping,
    Other!Migrations!Looping, Emptied!SameSum, Other!Migrations!SameSum,
    Emptied!Skip, Other!Migrations!Skip, Emptied!Refuse,
    Other!Migrations!Refuse, Emptied!Begin, Other!Migrations!Begin,
    Emptied!Exists, Other!Migrations!Exists, Emptied!NextFile,
    Other!Migrations!NextFile, Emptied!Throw, Other!Migrations!Throw,
    Emptied!Commit, Other!Migrations!Commit, Emptied!Fail,
    Other!Migrations!Fail, Emptied!Finish, Other!Migrations!Finish,
    Emptied!Down, Other!Migrations!Down, Emptied!Step, Other!Migrations!Step,
    Emptied!Next, Other!Migrations!Next, Emptied!RecordedOnce,
    Other!Migrations!RecordedOnce, Emptied!ToSet, Other!Migrations!ToSet

\* So what is proved of it holds of the run.
LEMMA EmptiedAlone ==
    MCSpec => [](part = "emptied" => Emptied!RecordedOnce)
<1> DEFINE Runs == part = "emptied"
<1>1. MCInit /\ Runs => Other!Migrations!Init
  BY SameEmptied DEF MCInit
<1>2. ASSUME [MCNext]_state, Runs
      PROVE  Runs' /\ [Other!Migrations!Next]_(Other!Migrations!vars)
  <2>1. CASE MCNext
    <3>1. Emptied!Next
      BY <1>2, <2>1 DEF MCNext
    <3> QED
      BY <1>2, <3>1, SameEmptied, PartStays
  <2>2. CASE UNCHANGED state
    <3>1. UNCHANGED Other!Migrations!vars
      BY <2>2 DEF state, Other!Migrations!vars
    <3> QED
      BY <1>2, <3>1, PartStays
  <2> QED
    BY <1>2, <2>1, <2>2
<1>3. [MCNext]_state /\ ~Runs => ~Runs'
  BY PartStays
<1>4. Other!Migrations!MigrationsAssumption
  BY EmptiedHolds, SameEmptied
<1>5. Other!Migrations!Spec => [](Other!Migrations!RecordedOnce)
  <2>1. Other!Migrations!Spec =>
            [](Other!Migrations!TypeOK /\ Other!Migrations!RecordedOnce)
    BY <1>4, Other!MigratedOnce
  <2> QED
    BY <2>1, PTL
<1>6. Other!Migrations!RecordedOnce => Emptied!RecordedOnce
  BY SameEmptied
<1> QED
  BY <1>1, <1>2, <1>3, <1>5, <1>6, PTL DEF MCSpec, Other!Migrations!Spec

\* Part "shutdown" of the run is the Shutdown of WebPartsProofs.
LEMMA SameShutdown ==
    /\ Shutdown!Init <=> P!Shutdown!Init
    /\ Shutdown!Next <=> P!Shutdown!Next
    /\ Shutdown!DrainedFirst <=> P!Shutdown!DrainedFirst
    /\ Shutdown!CleanExit <=> P!Shutdown!CleanExit
BY DEF Shutdown!Running, P!Shutdown!Running, Shutdown!InFlight,
    P!Shutdown!InFlight, Shutdown!Init, P!Shutdown!Init, Shutdown!Accept,
    P!Shutdown!Accept, Shutdown!Respond, P!Shutdown!Respond, Shutdown!Tick,
    P!Shutdown!Tick, Shutdown!TickEnds, P!Shutdown!TickEnds, Shutdown!Armed,
    P!Shutdown!Armed, Shutdown!Shutdown, P!Shutdown!Shutdown, Shutdown!Drained,
    P!Shutdown!Drained, Shutdown!Closed, P!Shutdown!Closed,
    Shutdown!StopWorker, P!Shutdown!StopWorker, Shutdown!EndPool,
    P!Shutdown!EndPool, Shutdown!ClientsBack, P!Shutdown!ClientsBack,
    Shutdown!PoolEnded, P!Shutdown!PoolEnded, Shutdown!Exit, P!Shutdown!Exit,
    Shutdown!ForceExit, P!Shutdown!ForceExit, Shutdown!Process,
    P!Shutdown!Process, Shutdown!Next, P!Shutdown!Next, Shutdown!DrainedFirst,
    P!Shutdown!DrainedFirst, Shutdown!CleanExit, P!Shutdown!CleanExit

\* So what is proved of it holds of the run.
LEMMA ShutdownAlone ==
    MCSpec =>
        [](part = "shutdown" => Shutdown!DrainedFirst /\ Shutdown!CleanExit)
<1> DEFINE Runs == part = "shutdown"
<1>1. MCInit /\ Runs => P!Shutdown!Init
  BY SameShutdown DEF MCInit
<1>2. ASSUME [MCNext]_state, Runs
      PROVE  Runs' /\ [P!Shutdown!Next]_(P!Shutdown!vars)
  <2>1. CASE MCNext
    <3>1. Shutdown!Next
      BY <1>2, <2>1 DEF MCNext
    <3> QED
      BY <1>2, <3>1, SameShutdown, PartStays
  <2>2. CASE UNCHANGED state
    <3>1. UNCHANGED P!Shutdown!vars
      BY <2>2 DEF state, P!Shutdown!vars
    <3> QED
      BY <1>2, <3>1, PartStays
  <2> QED
    BY <1>2, <2>1, <2>2
<1>3. [MCNext]_state /\ ~Runs => ~Runs'
  BY PartStays
<1>5. P!Shutdown!Spec => [](P!Shutdown!DrainedFirst /\ P!Shutdown!CleanExit)
  BY P!ShutdownDrainsFirst, PTL
<1>6. P!Shutdown!DrainedFirst /\ P!Shutdown!CleanExit =>
          Shutdown!DrainedFirst /\ Shutdown!CleanExit
  BY SameShutdown
<1> QED
  BY <1>1, <1>2, <1>3, <1>5, <1>6, PTL DEF MCSpec, P!Shutdown!Spec

\* Part "seeding" of the run is the Seeding of WebPartsProofs.
LEMMA SameSeeding ==
    /\ Seeding!Init <=> P!Seeding!Init
    /\ Seeding!Next <=> P!Seeding!Next
    /\ Seeding!SeedingAssumption <=> P!Seeding!SeedingAssumption
    /\ Seeding!WholeCatalogue <=> P!Seeding!WholeCatalogue
    /\ Seeding!NothingMissed <=> P!Seeding!NothingMissed
    /\ Seeding!RerunChangesNothing <=> P!Seeding!RerunChangesNothing
BY DEF Seeding!SeedingAssumption, P!Seeding!SeedingAssumption,
    Seeding!inventory,
    P!Seeding!inventory, Seeding!customer, P!Seeding!customer, Seeding!catalog,
    P!Seeding!catalog, Seeding!counts, P!Seeding!counts, Seeding!At,
    P!Seeding!At, Seeding!Init, P!Seeding!Init, Seeding!Apply, P!Seeding!Apply,
    Seeding!Restart, P!Seeding!Restart, Seeding!UpsertUsers,
    P!Seeding!UpsertUsers, Seeding!AddressIsNew, P!Seeding!AddressIsNew,
    Seeding!InsertAddress, P!Seeding!InsertAddress, Seeding!UpsertProduct,
    P!Seeding!UpsertProduct, Seeding!InsertReviews, P!Seeding!InsertReviews,
    Seeding!SetTo, P!Seeding!SetTo, Seeding!Queue, P!Seeding!Queue,
    Seeding!Commit, P!Seeding!Commit, Seeding!Rollback, P!Seeding!Rollback,
    Seeding!Fail, P!Seeding!Fail, Seeding!Free, P!Seeding!Free,
    Seeding!Reserve, P!Seeding!Reserve, Seeding!Held, P!Seeding!Held,
    Seeding!Sell, P!Seeding!Sell, Seeding!Release, P!Seeding!Release,
    Seeding!UserFree, P!Seeding!UserFree, Seeding!Rename, P!Seeding!Rename,
    Seeding!UnsetDefault, P!Seeding!UnsetDefault, Seeding!Drain,
    P!Seeding!Drain, Seeding!Job, P!Seeding!Job, Seeding!Shop, P!Seeding!Shop,
    Seeding!Next, P!Seeding!Next, Seeding!WholeCatalogue,
    P!Seeding!WholeCatalogue, Seeding!NothingMissed, P!Seeding!NothingMissed,
    Seeding!RerunChangesNothing, P!Seeding!RerunChangesNothing

\* So what is proved of it holds of the run.
LEMMA SeedingAlone ==
    MCSpec =>
        [](part = "seeding" => Seeding!WholeCatalogue /\ Seeding!NothingMissed)
<1> DEFINE Runs == part = "seeding"
<1>1. MCInit /\ Runs => P!Seeding!Init
  BY SameSeeding DEF MCInit
<1>2. ASSUME [MCNext]_state, Runs
      PROVE  Runs' /\ [P!Seeding!Next]_(P!Seeding!vars)
  <2>1. CASE MCNext
    <3>1. Seeding!Next
      BY <1>2, <2>1 DEF MCNext
    <3> QED
      BY <1>2, <3>1, SameSeeding, PartStays
  <2>2. CASE UNCHANGED state
    <3>1. UNCHANGED P!Seeding!vars
      BY <2>2
      DEF state, P!Seeding!vars, P!Seeding!customer, P!Seeding!catalog,
          P!Seeding!inventory, P!Seeding!counts
    <3> QED
      BY <1>2, <3>1, PartStays
  <2> QED
    BY <1>2, <2>1, <2>2
<1>3. [MCNext]_state /\ ~Runs => ~Runs'
  BY PartStays
<1>4. P!Seeding!SeedingAssumption
  BY SeedingHolds, SameSeeding
<1>5. P!Seeding!Spec => [](P!Seeding!WholeCatalogue /\ P!Seeding!NothingMissed)
  <2>1. P!Seeding!Spec =>
            [](P!Seeding!TypeOK /\ P!Seeding!WholeCatalogue /\
                P!Seeding!NothingMissed)
    BY <1>4, P!SeededWhole
  <2> QED
    BY <2>1, PTL
<1>6. P!Seeding!WholeCatalogue /\ P!Seeding!NothingMissed =>
          Seeding!WholeCatalogue /\ Seeding!NothingMissed
  BY SameSeeding
<1> QED
  BY <1>1, <1>2, <1>3, <1>5, <1>6, PTL DEF MCSpec, P!Seeding!Spec

\* A run of the seed over a shop as it left it changes nothing.
LEMMA SeedingActs ==
    MCSpec => [][part = "seeding" => Seeding!RerunChangesNothing]_state
<1> DEFINE Runs == part = "seeding"
<1>1. MCInit /\ Runs => P!Seeding!Init
  BY SameSeeding DEF MCInit
<1>2. ASSUME [MCNext]_state, Runs
      PROVE  Runs' /\ [P!Seeding!Next]_(P!Seeding!vars)
  <2>1. CASE MCNext
    <3>1. Seeding!Next
      BY <1>2, <2>1 DEF MCNext
    <3> QED
      BY <1>2, <3>1, SameSeeding, PartStays
  <2>2. CASE UNCHANGED state
    <3>1. UNCHANGED P!Seeding!vars
      BY <2>2
      DEF state, P!Seeding!vars, P!Seeding!customer, P!Seeding!catalog,
          P!Seeding!inventory, P!Seeding!counts
    <3> QED
      BY <1>2, <3>1, PartStays
  <2> QED
    BY <1>2, <2>1, <2>2
<1>3. [MCNext]_state /\ ~Runs => ~Runs'
  BY PartStays
<1>4. P!Seeding!SeedingAssumption
  BY SeedingHolds, SameSeeding
<1>5. P!Seeding!Spec => [][P!Seeding!RerunChangesNothing]_(P!Seeding!vars)
  BY <1>4, P!RerunIsSafe
<1>6. [P!Seeding!RerunChangesNothing]_(P!Seeding!vars) =>
          [Seeding!RerunChangesNothing]_state
  <2>1. P!Seeding!RerunChangesNothing => Seeding!RerunChangesNothing
    BY SameSeeding
  <2>2. UNCHANGED P!Seeding!vars => Seeding!RerunChangesNothing
    BY DEF P!Seeding!vars, P!Seeding!inventory, Seeding!RerunChangesNothing
  <2> QED
    BY <2>1, <2>2
<1>7. ~Runs => [Runs => Seeding!RerunChangesNothing]_state
  OBVIOUS
<1> QED
  BY <1>1, <1>2, <1>3, <1>5, <1>6, <1>7, PTL DEF MCSpec, P!Seeding!Spec

\* Part "webCheckout" of the run is the WebCheckout of WebPartsProofs.
LEMMA SameWebCheckout ==
    /\ WebCheckout!Init <=> P!WebCheckout!Init
    /\ WebCheckout!Next <=> P!WebCheckout!Next
    /\ WebCheckout!WebCheckoutAssumption <=>
           P!WebCheckout!WebCheckoutAssumption
    /\ WebCheckout!OneOrderPerMount <=> P!WebCheckout!OneOrderPerMount
    /\ WebCheckout!PlacedAsChosen <=> P!WebCheckout!PlacedAsChosen
BY DEF WebCheckout!WebCheckoutAssumption, P!WebCheckout!WebCheckoutAssumption,
    WebCheckout!page, P!WebCheckout!page, WebCheckout!service,
    P!WebCheckout!service, WebCheckout!Keys, P!WebCheckout!Keys,
    WebCheckout!Payments, P!WebCheckout!Payments, WebCheckout!None,
    P!WebCheckout!None, WebCheckout!Fresh, P!WebCheckout!Fresh,
    WebCheckout!Init, P!WebCheckout!Init, WebCheckout!Pending,
    P!WebCheckout!Pending, WebCheckout!Mount, P!WebCheckout!Mount,
    WebCheckout!ChooseAddress, P!WebCheckout!ChooseAddress,
    WebCheckout!ChoosePayment, P!WebCheckout!ChoosePayment, WebCheckout!Show,
    P!WebCheckout!Show, WebCheckout!Disabled, P!WebCheckout!Disabled,
    WebCheckout!Walk, P!WebCheckout!Walk, WebCheckout!Load, P!WebCheckout!Load,
    WebCheckout!Reload, P!WebCheckout!Reload, WebCheckout!KeyFor,
    P!WebCheckout!KeyFor, WebCheckout!Body0, P!WebCheckout!Body0,
    WebCheckout!Submit, P!WebCheckout!Submit, WebCheckout!Refetches,
    P!WebCheckout!Refetches, WebCheckout!Receive, P!WebCheckout!Receive,
    WebCheckout!Lose, P!WebCheckout!Lose, WebCheckout!Reprice,
    P!WebCheckout!Reprice, WebCheckout!At, P!WebCheckout!At,
    WebCheckout!Answer, P!WebCheckout!Answer, WebCheckout!SameBody,
    P!WebCheckout!SameBody, WebCheckout!Claim, P!WebCheckout!Claim,
    WebCheckout!Fail, P!WebCheckout!Fail, WebCheckout!PriceChanged,
    P!WebCheckout!PriceChanged, WebCheckout!Check, P!WebCheckout!Check,
    WebCheckout!Place, P!WebCheckout!Place, WebCheckout!Serve,
    P!WebCheckout!Serve, WebCheckout!Next, P!WebCheckout!Next,
    WebCheckout!OneOrderPerMount, P!WebCheckout!OneOrderPerMount,
    WebCheckout!PlacedAsChosen, P!WebCheckout!PlacedAsChosen,
    WebCheckout!Cardinality, P!WebCheckout!Cardinality

\* So what is proved of it holds of the run.
LEMMA WebCheckoutAlone ==
    MCSpec => [](part = "webCheckout" => WebCheckout!OneOrderPerMount)
<1> DEFINE Runs == part = "webCheckout"
<1>1. MCInit /\ Runs => P!WebCheckout!Init
  BY SameWebCheckout DEF MCInit
<1>2. ASSUME [MCNext]_state, Runs
      PROVE  Runs' /\ [P!WebCheckout!Next]_(P!WebCheckout!vars)
  <2>1. CASE MCNext
    <3>1. WebCheckout!Next
      BY <1>2, <2>1 DEF MCNext
    <3> QED
      BY <1>2, <3>1, SameWebCheckout, PartStays
  <2>2. CASE UNCHANGED state
    <3>1. UNCHANGED P!WebCheckout!vars
      BY <2>2 DEF state, P!WebCheckout!vars, P!WebCheckout!page
    <3> QED
      BY <1>2, <3>1, PartStays
  <2> QED
    BY <1>2, <2>1, <2>2
<1>3. [MCNext]_state /\ ~Runs => ~Runs'
  BY PartStays
<1>4. P!WebCheckout!WebCheckoutAssumption
  BY WebCheckoutHolds, SameWebCheckout
<1>5. P!WebCheckout!Spec => [](P!WebCheckout!OneOrderPerMount)
  <2>1. P!WebCheckout!Spec =>
            [](P!WebCheckout!TypeOK /\ P!WebCheckout!OneOrderPerMount)
    BY <1>4, P!OneOrderEachMount
  <2> QED
    BY <2>1, PTL
<1>6. P!WebCheckout!OneOrderPerMount => WebCheckout!OneOrderPerMount
  BY SameWebCheckout
<1> QED
  BY <1>1, <1>2, <1>3, <1>5, <1>6, PTL DEF MCSpec, P!WebCheckout!Spec

\* The page is told of the order it asked for.
LEMMA WebCheckoutActs ==
    MCSpec => [][part = "webCheckout" => WebCheckout!PlacedAsChosen]_state
<1> DEFINE Runs == part = "webCheckout"
<1>1. MCInit /\ Runs => P!WebCheckout!Init
  BY SameWebCheckout DEF MCInit
<1>2. ASSUME [MCNext]_state, Runs
      PROVE  Runs' /\ [P!WebCheckout!Next]_(P!WebCheckout!vars)
  <2>1. CASE MCNext
    <3>1. WebCheckout!Next
      BY <1>2, <2>1 DEF MCNext
    <3> QED
      BY <1>2, <3>1, SameWebCheckout, PartStays
  <2>2. CASE UNCHANGED state
    <3>1. UNCHANGED P!WebCheckout!vars
      BY <2>2 DEF state, P!WebCheckout!vars, P!WebCheckout!page
    <3> QED
      BY <1>2, <3>1, PartStays
  <2> QED
    BY <1>2, <2>1, <2>2
<1>3. [MCNext]_state /\ ~Runs => ~Runs'
  BY PartStays
<1>4. P!WebCheckout!WebCheckoutAssumption
  BY WebCheckoutHolds, SameWebCheckout
<1>5. P!WebCheckout!Spec =>
          [][P!WebCheckout!PlacedAsChosen]_(P!WebCheckout!vars)
  BY <1>4, P!PlacedIsWhatWasChosen
<1>6. [P!WebCheckout!PlacedAsChosen]_(P!WebCheckout!vars) =>
          [WebCheckout!PlacedAsChosen]_state
  <2>1. P!WebCheckout!PlacedAsChosen => WebCheckout!PlacedAsChosen
    BY SameWebCheckout
  <2>2. UNCHANGED P!WebCheckout!vars => WebCheckout!PlacedAsChosen
    BY DEF P!WebCheckout!vars, P!WebCheckout!page, WebCheckout!PlacedAsChosen
  <2> QED
    BY <2>1, <2>2
<1>7. ~Runs => [Runs => WebCheckout!PlacedAsChosen]_state
  OBVIOUS
<1> QED
  BY <1>1, <1>2, <1>3, <1>5, <1>6, <1>7, PTL DEF MCSpec, P!WebCheckout!Spec

\* What the run "web" checks of requests that are sent again.
THEOREM RelayedSafely == MCSpec => []RetriesAreSafe
<1>1. /\ (part = "relay" => Relay!WriteOnce /\ Relay!AnswerIsTrue)
      /\ (part = "routing" => Routing!WritesAreGuarded)
      => RetriesAreSafe
  BY DEF RetriesAreSafe
<1> QED
  BY <1>1, RelayAlone, RoutingAlone, PTL

\* What it checks of a page that refreshes its token.
THEOREM PageIsNotThrownOut == MCSpec => []NotThrownOut
<1>1. (part = "browserSession" => BrowserSession!NotThrownOut) => NotThrownOut
  BY DEF NotThrownOut
<1> QED
  BY <1>1, PageAlone, PTL

\* What it checks of the data that a page shows.
THEOREM PageShowsOwnData == MCSpec => []ShowsOwnData
<1>1. /\ (part = "queryCache" =>
              QueryCache!NotAnothers /\ QueryCache!ReadsItsWrites)
      /\ (part = "otherTab" => OtherTab!NothingLeft)
      => ShowsOwnData
  BY DEF ShowsOwnData
<1> QED
  BY <1>1, CacheAlone, OtherTabAlone, PTL

\* What it checks of the end of a service.
THEOREM ServiceDrainsFirst == MCSpec => []DrainsFirst
<1>1. (part = "shutdown" => Shutdown!DrainedFirst /\ Shutdown!CleanExit)
      => DrainsFirst
  BY DEF DrainsFirst
<1> QED
  BY <1>1, ShutdownAlone, PTL

\* What it checks of the jobs of a release.
THEOREM DatabaseStaysWhole == MCSpec => []DatabaseIsWhole
<1>1. /\ (part = "migrations" =>
              /\ Migrations!RecordedOnce /\ Migrations!InOrder
              /\ Migrations!NoDivergence)
      /\ (part = "emptied" => Emptied!RecordedOnce)
      /\ (part = "seeding" => Seeding!WholeCatalogue /\ Seeding!NothingMissed)
      => DatabaseIsWhole
  BY DEF DatabaseIsWhole
<1> QED
  BY <1>1, MigrationsAlone, EmptiedAlone, SeedingAlone, PTL

\* What it checks of a checkout that is submitted again and of a seed that is
\* run again.
THEOREM AllRepeatedAsAsked == MCSpec => RepeatedAsAsked
<1> DEFINE OneOrder == part = "webCheckout" => WebCheckout!OneOrderPerMount
           Chosen == part = "webCheckout" => WebCheckout!PlacedAsChosen
           Rerun == part = "seeding" => Seeding!RerunChangesNothing
           Repeated == /\ part = "webCheckout" =>
                              /\ WebCheckout!OneOrderPerMount'
                              /\ WebCheckout!PlacedAsChosen
                       /\ part = "seeding" => Seeding!RerunChangesNothing
<1>1. OneOrder' /\ [MCNext]_state /\ [Chosen]_state /\ [Rerun]_state
      => [Repeated]_state
  BY PartStays
<1>2. MCSpec => []OneOrder
  BY WebCheckoutAlone
<1>3. MCSpec => [][Chosen]_state /\ [][Rerun]_state
  BY WebCheckoutActs, SeedingActs
<1>4. MCSpec => [][Repeated]_state
  BY <1>1, <1>2, <1>3, PTL DEF MCSpec
<1> QED
  BY <1>4, PTL DEF RepeatedAsAsked

=============================================================================
