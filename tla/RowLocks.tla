------------------------------ MODULE RowLocks ------------------------------
(***************************************************************************)
(* PostgreSQL's row locks, as the transactions of the services use them:   *)
(* SELECT FOR UPDATE, UPDATE, and the lock a row inserted elsewhere takes  *)
(* on the row its foreign key refers to.  All are held to COMMIT.          *)
(***************************************************************************)
CONSTANT Txs
VARIABLE locks  \* the rows each transaction has locked, and how

Modes == {"update", "no key update", "key share"}

\* A foreign key's share lock goes with itself and with an UPDATE that leaves
\* the key alone; nothing else goes together.
Conflict(m, n) == ~(\/ {m, n} = {"key share"}
                    \/ {m, n} = {"key share", "no key update"})

CanLock(t, row, mode) ==
    \A u \in Txs \ {t} : \A l \in locks[u] :
        l[1] = row => ~Conflict(l[2], mode)

Lock(t, row, mode) ==
    /\ CanLock(t, row, mode)
    /\ locks' = [locks EXCEPT ![t] = @ \cup {<<row, mode>>}]

\* What locks are for: no two transactions hold locks on one row that exclude
\* each other.
LocksExclude ==
    \A t, u \in Txs :
        t # u => \A l \in locks[t], m \in locks[u] :
                     l[1] = m[1] => ~Conflict(l[2], m[2])
=============================================================================
