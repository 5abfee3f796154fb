---------------------------- MODULE Storage_proofs ----------------------------
(***************************************************************************)
(* What storage guarantees, for any number of threads, processes, users,   *)
(* pools, connections and stores.                                          *)
(*                                                                         *)
(* The pool: there is one at a time and its slots are accounted for.  What *)
(* get_pool's double check needs of the rest of the code: whoever is       *)
(* between the lock and its release is who holds it, and _POOL stays None  *)
(* from the second look to the creation, as nobody else makes a pool.      *)
(*                                                                         *)
(* The memory: what another user stored is never shown.  Wherever a value  *)
(* is kept - a row, a layer of a cache, a store under way - it is kept     *)
(* with the user who stored it, the upgrade of a cached entry and the      *)
(* taking over of a row included.  Visibility then depends on that user    *)
(* alone.                                                                  *)
(***************************************************************************)
EXTENDS PgPool, MemoryStore, FiniteSetTheorems, TLAPS

(***************************************************************************)
(* The pool of connections                                                 *)
(***************************************************************************)

Locked == {"create", "tables", "ddl", "unlock"}

LockInv ==
    /\ at \in [Threads -> Places]
    /\ \A t \in Threads : at[t] \in Locked => lock = t
    /\ \A t \in Threads : at[t] = "create" => POOL = NoPool

(* Initially nobody is in get_pool. *)
LEMMA InitLockInv == PoolInit => LockInv
  BY DEF PoolInit, LockInv, Locked, Places

(* A step of get_pool by a thread keeps the lock's holder and the empty _POOL. *)
LEMMA GetPoolKeepsLock ==
    ASSUME LockInv, NEW t \in Threads, GetPool(t)
    PROVE  LockInv'
<1> USE DEF LockInv, Locked, Go, Places
<1>1. CASE Look(t)
  BY <1>1 DEF Look
<1>2. CASE Lock(t)
  <2>1. \A u \in Threads : at[u] \notin Locked
    BY <1>2, PoolConstants DEF Lock
  <2>2. QED
    BY <1>2, <2>1 DEF Lock
<1>3. CASE Create(t)
  <2>1. at[t] = "create" /\ lock = t /\ lock' = lock /\ at' = [at EXCEPT ![t] = "tables"]
    BY <1>3 DEF Create
  <2>2. \A u \in Threads : at'[u] # "create"
    BY <2>1
  <2>3. QED
    BY <2>1, <2>2
<1>4. CASE CreateFails(t)
  BY <1>4 DEF CreateFails
<1>5. CASE Tables(t)
  BY <1>5 DEF Tables
<1>6. CASE TablesDone(t)
  BY <1>6 DEF TablesDone
<1>7. CASE Unlock(t)
  <2>1. at[t] = "unlock" /\ lock = t /\ POOL' = POOL /\ at' = [at EXCEPT ![t] = "return"]
    BY <1>7 DEF Unlock
  <2>2. \A u \in Threads : at'[u] \notin Locked
    BY <2>1
  <2>3. QED
    BY <2>1, <2>2
<1>8. CASE Borrow(t)
  BY <1>8 DEF Borrow
<1>9. CASE Ping(t)
  BY <1>9 DEF Ping
<1>10. CASE PutBack(t)
  BY <1>10 DEF PutBack
<1>11. CASE Close(t)
  BY <1>11 DEF Close
<1>12. CASE Return(t)
  BY <1>12 DEF Return
<1>13. QED
  BY <1>1, <1>2, <1>3, <1>4, <1>5, <1>6, <1>7, <1>8, <1>9, <1>10, <1>11, <1>12
     DEF GetPool

(* The other steps neither take the lock nor touch _POOL. *)
LEMMA OthersKeepLock ==
    ASSUME LockInv,
           \/ \E r \in Requests : Ask(r) \/ Use(r)
           \/ Retry
           \/ \E c \in Checkers : CheckBorrows(c) \/ CheckReturns(c)
           \/ PgFails \/ PgReturns
    PROVE  LockInv' /\ POOL' = POOL
<1> USE DEF LockInv, Locked, Go, Places
<1>1. Requests \subseteq Threads /\ Retryer \in Threads /\ Checkers \subseteq Threads
  BY DEF Threads
<1>2. ASSUME NEW r \in Requests, Ask(r) PROVE LockInv' /\ POOL' = POOL
  BY <1>1, <1>2 DEF Ask
<1>3. ASSUME NEW r \in Requests, Use(r) PROVE LockInv' /\ POOL' = POOL
  <2>1. CASE UseBorrows(r)
    BY <1>1, <2>1 DEF UseBorrows
  <2>2. CASE UseRuns(r)
    BY <1>1, <2>2 DEF UseRuns
  <2>3. CASE UseReturns(r)
    BY <1>1, <2>3 DEF UseReturns
  <2>4. QED
    BY <1>3, <2>1, <2>2, <2>3 DEF Use
<1>4. CASE Retry
  BY <1>1, <1>4 DEF Retry
<1>5. ASSUME NEW c \in Checkers, CheckBorrows(c) PROVE LockInv' /\ POOL' = POOL
  BY <1>1, <1>5 DEF CheckBorrows
<1>6. ASSUME NEW c \in Checkers, CheckReturns(c) PROVE LockInv' /\ POOL' = POOL
  BY <1>1, <1>6 DEF CheckReturns
<1>7. CASE PgFails
  BY <1>7 DEF PgFails
<1>8. CASE PgReturns
  BY <1>8 DEF PgReturns
<1>9. QED
  BY <1>2, <1>3, <1>4, <1>5, <1>6, <1>7, <1>8

(* Who is between the lock and its release holds it, and _POOL is None when *)
(* a pool is about to be made (get_pool's second look).                     *)
THEOREM LockCorrect == PoolSpec => []LockInv
<1>1. ASSUME LockInv, [PoolNext]_poolVars PROVE LockInv'
  <2>1. ASSUME NEW t \in Requests \cup {Retryer}, GetPool(t) PROVE LockInv'
    BY <1>1, <2>1, GetPoolKeepsLock DEF Threads
  <2>2. CASE UNCHANGED poolVars
    BY <1>1, <2>2 DEF LockInv, poolVars
  <2>3. QED
    BY <1>1, <2>1, <2>2, OthersKeepLock DEF PoolNext
<1>2. QED
  BY <1>1, InitLockInv, PTL DEF PoolSpec

(* A pool that is there is never overwritten by another: of threads that   *)
(* all find none, one makes the pool (db.py, get_pool and _close_pool).    *)
THEOREM NoPoolReplaced == PoolSpec => NeverReplaced
<1>1. ASSUME LockInv, PoolNext
      PROVE  POOL' = POOL \/ POOL = NoPool \/ POOL' = NoPool
  <2>1. ASSUME NEW t \in Requests \cup {Retryer}, GetPool(t)
        PROVE  POOL' = POOL \/ POOL = NoPool \/ POOL' = NoPool
    <3>1. CASE Create(t)
      BY <1>1, <3>1 DEF Create, Go, LockInv, Threads
    <3>2. CASE Close(t)
      BY <3>2 DEF Close
    <3>3. CASE Look(t) \/ Lock(t) \/ CreateFails(t) \/ Tables(t) \/ TablesDone(t)
      BY <3>3 DEF Look, Lock, CreateFails, Tables, TablesDone
    <3>4. CASE Unlock(t) \/ Borrow(t) \/ Ping(t) \/ PutBack(t) \/ Return(t)
      BY <3>4 DEF Unlock, Borrow, Ping, PutBack, Return
    <3>5. QED
      BY <2>1, <3>1, <3>2, <3>3, <3>4 DEF GetPool
  <2>2. QED
    BY <1>1, <2>1, OthersKeepLock DEF PoolNext
<1>2. LockInv /\ [PoolNext]_poolVars
        => [POOL' = POOL \/ POOL = NoPool \/ POOL' = NoPool]_poolVars
  BY <1>1
<1>3. QED
  BY <1>2, LockCorrect, PTL DEF PoolSpec, NeverReplaced

-----------------------------------------------------------------------------
(* The slots. *)

Holders(p) == {t \in Threads : conn[t] = p}

\* Of any pool, what it takes for lent covers who has a connection of it and
\* what nobody will give back; of the pool in use it is exactly that.  The
\* pools that were dropped keep slots that TablesDone and Close left behind.
SlotsOf(p) ==
    /\ IsFiniteSet(Holders(p))
    /\ pool[p].lost + Cardinality(Holders(p)) <= pool[p].used
    /\ p = POOL => pool[p].used = pool[p].lost + Cardinality(Holders(p))

\* A pool nobody knows is as good as new.
Forgotten(p) == KnownPool(p) \/ (pool[p].used = 0 /\ pool[p].lost = 0)

Holding == {"ddl", "ping", "putback", "run", "committed", "fetched", "check"}

\* Who has a connection, and who goes on with a pool, at which place.
ThreadFits(t) ==
    /\ at[t] \in Holding => conn[t] # NoPool
    /\ conn[t] # NoPool => at[t] \in Holding \cup {"close"}
    /\ mine[t] # NoPool => at[t] = "use"

SlotInv ==
    /\ PoolTypeOK /\ LockInv
    /\ \A p \in Pools : SlotsOf(p) /\ Forgotten(p)
    /\ \A t \in Threads : ThreadFits(t)

PoolRecord == [idle : {"none", "live", "dead"}, used : Nat, lost : Nat]

SlotsKept == \A p \in Pools : SlotsOf(p) /\ Forgotten(p)

\* A step that moves no connection and forgets no pool.
LEMMA NobodyLends ==
    ASSUME SlotsKept, conn' = conn, POOL' = POOL,
           \A p \in Pools : /\ pool'[p].used = pool[p].used /\ pool'[p].lost = pool[p].lost
                            /\ KnownPool(p) => KnownPool(p)'
    PROVE  SlotsKept'
<1> SUFFICES ASSUME NEW p \in Pools PROVE SlotsOf(p)' /\ Forgotten(p)'
  BY DEF SlotsKept
<1>1. Holders(p)' = Holders(p)
  BY DEF Holders
<1>2. QED
  BY <1>1 DEF SlotsKept, SlotsOf, Forgotten

\* A pool lends: it takes one more for lent, and one more thread has one.
LEMMA LendKeepsSlots ==
    ASSUME PoolTypeOK, SlotsKept, NEW t \in Threads, NEW q \in Pools,
           conn[t] = NoPool, Lend(q, t), KnownPool(q), POOL' = POOL,
           mine' = mine \/ (mine' = [mine EXCEPT ![t] = NoPool] /\ mine[t] = q)
    PROVE  SlotsKept' /\ pool' \in [Pools -> PoolRecord]
<1> USE PoolConstants
<1>1. /\ conn' = [conn EXCEPT ![t] = q]
      /\ pool' = [pool EXCEPT ![q] = [pool[q] EXCEPT !.idle = "none", !.used = @ + 1]]
  BY DEF Lend, PoolTypeOK
<1>2. pool \in [Pools -> PoolRecord] /\ conn \in [Threads -> Pools \cup {NoPool}]
      /\ mine \in [Threads -> Pools \cup {NoPool}]
  BY DEF PoolTypeOK, PoolRecord
<1>3. pool' \in [Pools -> PoolRecord]
  <2>1. [pool[q] EXCEPT !.idle = "none", !.used = @ + 1] \in PoolRecord
    <3>1. [pool[q] EXCEPT !.idle = "none"] \in PoolRecord
      BY <1>2 DEF PoolRecord
    <3>2. ASSUME NEW r \in PoolRecord PROVE [r EXCEPT !.used = @ + 1] \in PoolRecord
      BY DEF PoolRecord
    <3>3. QED
      BY <3>1, <3>2
  <2>2. QED
    BY <1>1, <1>2, <2>1
<1>4. ASSUME NEW p \in Pools PROVE SlotsOf(p)' /\ Forgotten(p)'
  <2>1. /\ IsFiniteSet(Holders(p)) /\ Cardinality(Holders(p)) \in Nat
        /\ pool[p].lost + Cardinality(Holders(p)) <= pool[p].used
        /\ p = POOL => pool[p].used = pool[p].lost + Cardinality(Holders(p))
        /\ Forgotten(p)
    BY FS_CardinalityType DEF SlotsKept, SlotsOf
  <2>2. CASE p = q
    <3>1. Holders(p)' = Holders(p) \cup {t} /\ t \notin Holders(p)
      BY <1>1, <1>2, <2>2 DEF Holders
    <3>2. /\ IsFiniteSet(Holders(p)') /\ Cardinality(Holders(p)') = Cardinality(Holders(p)) + 1
      BY <2>1, <3>1, FS_AddElement
    <3>3. pool'[p].used = pool[p].used + 1 /\ pool'[p].lost = pool[p].lost
          /\ pool[p].used \in Nat /\ pool[p].lost \in Nat
      BY <1>1, <1>2, <2>2 DEF PoolRecord
    <3>4. KnownPool(p)'
      BY <1>1, <1>2, <2>2 DEF KnownPool
    <3>5. QED
      BY <2>1, <3>2, <3>3, <3>4 DEF SlotsOf, Forgotten
  <2>3. CASE p # q
    <3>1. Holders(p)' = Holders(p) /\ pool'[p] = pool[p]
      BY <1>1, <1>2, <2>3 DEF Holders
    <3>2. KnownPool(p) => KnownPool(p)'
      BY <1>1, <1>2, <2>3 DEF KnownPool
    <3>3. QED
      BY <2>1, <3>1, <3>2 DEF SlotsOf, Forgotten
  <2>4. QED
    BY <2>2, <2>3
<1>5. QED
  BY <1>3, <1>4 DEF SlotsKept

\* A thread is without its connection: its pool, unless it is not in use any
\* more, takes one less for lent or one more for lost.
LEMMA DropKeepsSlots ==
    ASSUME PoolTypeOK, SlotsKept, NEW t \in Threads, NEW f \in [Pools -> PoolRecord],
           conn' = [conn EXCEPT ![t] = NoPool], pool' = Collected(f), POOL' \in {POOL, NoPool},
           \A p \in Pools \ {conn[t]} : f[p].used = pool[p].used /\ f[p].lost = pool[p].lost,
           conn[t] \in Pools =>
               LET p == conn[t]
               IN  /\ pool[p].used + f[p].lost <= f[p].used + pool[p].lost + 1
                   /\ p = POOL' => pool[p].used + f[p].lost = f[p].used + pool[p].lost + 1
    PROVE  SlotsKept' /\ pool' \in [Pools -> PoolRecord]
<1> USE PoolConstants
<1>1. pool \in [Pools -> PoolRecord] /\ conn \in [Threads -> Pools \cup {NoPool}]
  BY DEF PoolTypeOK, PoolRecord
<1>2. Closed \in PoolRecord /\ Closed.used = 0 /\ Closed.lost = 0
  BY DEF Closed, PoolRecord
<1>3. pool' \in [Pools -> PoolRecord]
  BY <1>2 DEF Collected
<1>4. ASSUME NEW p \in Pools PROVE SlotsOf(p)' /\ Forgotten(p)'
  <2>1. /\ IsFiniteSet(Holders(p)) /\ Cardinality(Holders(p)) \in Nat
        /\ pool[p].lost + Cardinality(Holders(p)) <= pool[p].used
        /\ p = POOL => pool[p].used = pool[p].lost + Cardinality(Holders(p))
    BY FS_CardinalityType DEF SlotsKept, SlotsOf
  <2>2. p = POOL' => p = POOL
    OBVIOUS
  <2>3. /\ pool[p].used \in Nat /\ pool[p].lost \in Nat
        /\ f[p].used \in Nat /\ f[p].lost \in Nat
    BY <1>1 DEF PoolRecord
  <2>4. CASE ~KnownPool(p)'
    <3>1. pool'[p] = Closed
      BY <2>4 DEF Collected
    <3>2. Holders(p)' = {}
      BY <2>4 DEF Holders, KnownPool
    <3>3. IsFiniteSet({}) /\ Cardinality({}) = 0
      BY FS_EmptySet
    <3>4. QED
      BY <1>2, <3>1, <3>2, <3>3 DEF SlotsOf, Forgotten
  <2>5. CASE KnownPool(p)' /\ p # conn[t]
    <3>1. pool'[p] = f[p]
      BY <2>5 DEF Collected
    <3>2. Holders(p)' = Holders(p)
      BY <1>1, <2>5 DEF Holders
    <3>3. QED
      BY <2>1, <2>2, <2>5, <3>1, <3>2 DEF SlotsOf, Forgotten
  <2>6. CASE KnownPool(p)' /\ p = conn[t]
    <3>1. pool'[p] = f[p]
      BY <2>6 DEF Collected
    <3>2. Holders(p)' = Holders(p) \ {t} /\ t \in Holders(p)
      BY <1>1, <2>6 DEF Holders
    <3>3. /\ IsFiniteSet(Holders(p)') /\ Cardinality(Holders(p)') = Cardinality(Holders(p)) - 1
      BY <2>1, <3>2, FS_RemoveElement
    <3>4. /\ pool[p].used + f[p].lost <= f[p].used + pool[p].lost + 1
          /\ p = POOL' => pool[p].used + f[p].lost = f[p].used + pool[p].lost + 1
      BY <2>6
    <3>5. f[p].lost + Cardinality(Holders(p)') <= f[p].used
      BY <2>1, <2>3, <3>3, <3>4
    <3>6. p = POOL' => f[p].used = f[p].lost + Cardinality(Holders(p)')
      BY <2>1, <2>2, <2>3, <3>3, <3>4
    <3>7. QED
      BY <2>6, <3>1, <3>3, <3>5, <3>6 DEF SlotsOf, Forgotten
  <2>7. QED
    BY <2>4, <2>5, <2>6
<1>5. QED
  BY <1>3, <1>4 DEF SlotsKept

\* Whoever has a connection of a pool is counted by it.
LEMMA HolderCounted ==
    ASSUME PoolTypeOK, SlotsKept, NEW t \in Threads, conn[t] \in Pools
    PROVE  pool[conn[t]].used - 1 \in Nat
<1> DEFINE p == conn[t]
<1>1. IsFiniteSet(Holders(p)) /\ pool[p].lost + Cardinality(Holders(p)) <= pool[p].used
  BY DEF SlotsKept, SlotsOf
<1>2. t \in Holders(p)
  BY DEF Holders
<1>3. Cardinality(Holders(p)) \in Nat /\ Cardinality(Holders(p)) # 0
  BY <1>1, <1>2, FS_CardinalityType, FS_EmptySet
<1>4. pool[p].used \in Nat /\ pool[p].lost \in Nat
  BY DEF PoolTypeOK
<1>5. QED
  BY <1>1, <1>3, <1>4

\* The ways to be rid of a connection.
LEMMA RidOf ==
    ASSUME PoolTypeOK, SlotsKept, NEW t \in Threads, POOL' \in {POOL, NoPool},
           \/ TakeBack(t) \/ Discard(t)
           \/ (conn[t] \in Pools => POOL' # conn[t]) /\ Leave(t)
           \/ Drop(t) /\ pool' = Collected([pool EXCEPT ![conn[t]].lost = @ + 1])
    PROVE  /\ SlotsKept' /\ pool' \in [Pools -> PoolRecord]
           /\ conn' = [conn EXCEPT ![t] = NoPool] /\ dead' \subseteq Threads
<1>1. pool \in [Pools -> PoolRecord] /\ conn \in [Threads -> Pools \cup {NoPool}]
      /\ dead \subseteq Threads /\ NoPool \notin Pools
  BY PoolConstants DEF PoolTypeOK, PoolRecord
<1>2. conn' = [conn EXCEPT ![t] = NoPool] /\ dead' = dead \ {t}
  BY DEF TakeBack, Discard, Leave, Drop
<1>3. CASE (conn[t] \in Pools => POOL' # conn[t]) /\ Leave(t)
  <2>1. pool' = Collected(pool)
    BY <1>3 DEF Leave
  <2>2. conn[t] \in Pools =>
          LET p == conn[t]
          IN  /\ pool[p].used + pool[p].lost <= pool[p].used + pool[p].lost + 1
              /\ p = POOL' => pool[p].used + pool[p].lost = pool[p].used + pool[p].lost + 1
    BY <1>1, <1>3 DEF PoolRecord
  <2>3. SlotsKept' /\ pool' \in [Pools -> PoolRecord]
    BY <1>1, <1>2, <2>1, <2>2, DropKeepsSlots
  <2>4. QED
    BY <1>1, <1>2, <2>3
<1>4. CASE conn[t] \notin Pools
  <2>1. \E f \in [Pools -> PoolRecord] : pool' = Collected(f) /\ f = pool
    BY <1>1, <1>4 DEF TakeBack, Discard, Leave
  <2>2. SlotsKept' /\ pool' \in [Pools -> PoolRecord]
    BY <1>1, <1>2, <1>4, <2>1, DropKeepsSlots
  <2>3. QED
    BY <1>1, <1>2, <2>2
<1>5. CASE conn[t] \in Pools /\ ~((conn[t] \in Pools => POOL' # conn[t]) /\ Leave(t))
  <2> DEFINE p == conn[t]
  <2>1. /\ pool[p] \in PoolRecord /\ pool[p].used - 1 \in Nat
        /\ pool[p].used \in Nat /\ pool[p].lost \in Nat
    BY <1>1, <1>5, HolderCounted DEF PoolRecord
  <2>2. PICK new \in PoolRecord :
          /\ pool' = Collected([pool EXCEPT ![p] = new])
          /\ pool[p].used + new.lost = new.used + pool[p].lost + 1
    <3>1. CASE TakeBack(t)
      <4> DEFINE new == [pool[p] EXCEPT !.used = @ - 1,
                           !.idle = IF @ # "none" THEN @ ELSE IF t \in dead THEN "dead" ELSE "live"]
      <4>1. pool' = Collected([pool EXCEPT ![p] = new])
        BY <1>1, <1>5, <3>1 DEF TakeBack
      <4>2. /\ new \in PoolRecord /\ new.used = pool[p].used - 1 /\ new.lost = pool[p].lost
        BY <2>1 DEF PoolRecord
      <4>3. pool[p].used + new.lost = new.used + pool[p].lost + 1
        BY <2>1, <4>2
      <4>4. QED
        BY <4>1, <4>2, <4>3
    <3>2. CASE Discard(t)
      <4> DEFINE new == [pool[p] EXCEPT !.used = @ - 1]
      <4>1. pool' = Collected([pool EXCEPT ![p] = new])
        BY <1>1, <1>5, <3>2 DEF Discard
      <4>2. /\ new \in PoolRecord /\ new.used = pool[p].used - 1 /\ new.lost = pool[p].lost
        BY <2>1 DEF PoolRecord
      <4>3. pool[p].used + new.lost = new.used + pool[p].lost + 1
        BY <2>1, <4>2
      <4>4. QED
        BY <4>1, <4>2, <4>3
    <3>3. CASE pool' = Collected([pool EXCEPT ![p].lost = @ + 1])
      <4> DEFINE new == [pool[p] EXCEPT !.lost = @ + 1]
      <4>1. pool' = Collected([pool EXCEPT ![p] = new])
        BY <1>1, <1>5, <3>3
      <4>2. /\ new \in PoolRecord /\ new.used = pool[p].used /\ new.lost = pool[p].lost + 1
        BY <2>1 DEF PoolRecord
      <4>3. pool[p].used + new.lost = new.used + pool[p].lost + 1
        BY <2>1, <4>2
      <4>4. QED
        BY <4>1, <4>2, <4>3
    <3>4. QED
      BY <1>5, <3>1, <3>2, <3>3
  <2> DEFINE f == [pool EXCEPT ![p] = new]
  <2>3. /\ f \in [Pools -> PoolRecord] /\ f[p] = new
        /\ \A q \in Pools \ {p} : f[q] = pool[q]
    BY <1>1, <1>5
  <2>4. pool' = Collected(f)
    BY <2>2
  <2> HIDE DEF f
  <2>5. /\ pool[p].used + f[p].lost <= f[p].used + pool[p].lost + 1
        /\ pool[p].used + f[p].lost = f[p].used + pool[p].lost + 1
    <3>1. new.used \in Nat /\ new.lost \in Nat
      BY DEF PoolRecord
    <3>2. QED
      BY <2>1, <2>2, <2>3, <3>1
  <2>6. \A q \in Pools \ {p} : f[q].used = pool[q].used /\ f[q].lost = pool[q].lost
    BY <2>3
  <2>7. SlotsKept' /\ pool' \in [Pools -> PoolRecord]
    BY <1>2, <2>3, <2>4, <2>5, <2>6, DropKeepsSlots
  <2>8. QED
    BY <1>1, <1>2, <2>7
<1>6. QED
  BY <1>3, <1>4, <1>5

\* What a step leaves of a thread that is at a new place.
LEMMA MovedFits ==
    ASSUME PoolTypeOK, \A u \in Threads : ThreadFits(u), NEW t \in Threads,
           NEW to \in Places, at' = [at EXCEPT ![t] = to],
           \A u \in Threads \ {t} : conn'[u] = conn[u] /\ mine'[u] = mine[u],
           to \in Holding => conn'[t] # NoPool,
           conn'[t] # NoPool => to \in Holding \cup {"close"},
           mine'[t] # NoPool => to = "use"
    PROVE  \A u \in Threads : ThreadFits(u)'
  BY DEF PoolTypeOK, ThreadFits

\* The steps of a thread, in get_pool and around it.
LEMMA ThreadKeepsSlots ==
    ASSUME SlotInv, LockInv', NEW t \in Threads,
           \/ GetPool(t) \/ Ask(t) \/ Use(t)
           \/ t = Retryer /\ Retry
           \/ CheckBorrows(t) \/ CheckReturns(t)
    PROVE  SlotInv'
<1> USE PoolConstants DEF SlotInv
<1>1. t \in Threads /\ LockInv' /\ ThreadFits(t)
  OBVIOUS
<1>2. SlotsKept /\ pool \in [Pools -> PoolRecord] /\ Pools \cap {NoPool} = {}
  BY DEF SlotsKept, PoolTypeOK, PoolRecord
<1>3. /\ at \in [Threads -> Places] /\ conn \in [Threads -> Pools \cup {NoPool}]
      /\ mine \in [Threads -> Pools \cup {NoPool}] /\ POOL \in Pools \cup {NoPool}
      /\ lock \in Threads \cup {NoThread} /\ dead \subseteq Threads
      /\ running \subseteq {Retryer} \cup Checkers
  BY DEF PoolTypeOK
<1>4. ASSUME SlotsKept', pool' \in [Pools -> PoolRecord], up' = up,
             POOL' \in Pools \cup {NoPool}, lock' \in Threads \cup {NoThread},
             running' \subseteq {Retryer} \cup Checkers, dead' \subseteq Threads,
             conn' \in [Threads -> Pools \cup {NoPool}],
             mine' \in [Threads -> Pools \cup {NoPool}],
             at' \in [Threads -> Places], \A u \in Threads : ThreadFits(u)'
      PROVE  SlotInv'
  BY <1>1, <1>4 DEF PoolTypeOK, PoolRecord, SlotsKept
<1>5. ASSUME UNCHANGED <<up, POOL, pool, mine, hands>>,
             lock' \in Threads \cup {NoThread}, running' \subseteq {Retryer} \cup Checkers,
             NEW to \in Places, at' = [at EXCEPT ![t] = to],
             to \in Holding => conn[t] # NoPool,
             conn[t] # NoPool => to \in Holding \cup {"close"}, mine[t] # NoPool => to = "use"
      PROVE  SlotInv'
  <2>1. \A u \in Threads : ThreadFits(u)'
    BY <1>1, <1>5, MovedFits DEF hands
  <2>2. SlotsKept'
    BY <1>2, <1>5, NobodyLends DEF hands, KnownPool
  <2>3. QED
    BY <1>2, <1>3, <1>4, <1>5, <2>1, <2>2 DEF hands
<1>6. CASE Look(t)
  BY <1>1, <1>3, <1>5, <1>6 DEF Look, Go, ThreadFits, Holding, Places
<1>7. CASE Lock(t)
  BY <1>1, <1>3, <1>5, <1>7 DEF Lock, Go, ThreadFits, Holding, Places
<1>8. CASE CreateFails(t)
  BY <1>1, <1>3, <1>5, <1>8 DEF CreateFails, Go, ThreadFits, Holding, Places
<1>9. CASE Unlock(t)
  BY <1>1, <1>3, <1>5, <1>9 DEF Unlock, Go, ThreadFits, Holding, Places
<1>10. CASE Ping(t)
  BY <1>1, <1>3, <1>5, <1>10 DEF Ping, Go, ThreadFits, Holding, Places
<1>11. CASE Return(t)
  <2>1. /\ at[t] = "return" /\ UNCHANGED <<up, POOL, lock, running, pool, conn, dead>>
        /\ at' = [at EXCEPT ![t] = IF POOL = NoPool \/ t = Retryer THEN "out" ELSE "use"]
        /\ mine' = IF t = Retryer THEN mine ELSE [mine EXCEPT ![t] = POOL]
    BY <1>11 DEF Return, Go, hands
  <2>2. mine[t] = NoPool /\ conn[t] = NoPool
    BY <1>1, <2>1 DEF ThreadFits, Holding
  <2>3. \A u \in Threads : ThreadFits(u)'
    BY <1>1, <1>3, <2>1, <2>2, MovedFits DEF Holding, Places
  <2>4. \A p \in Pools : KnownPool(p) => KnownPool(p)'
    BY <1>1, <1>3, <2>1, <2>2 DEF KnownPool
  <2>5. SlotsKept'
    BY <1>2, <2>1, <2>4, NobodyLends
  <2>6. QED
    BY <1>1, <1>2, <1>3, <1>4, <2>1, <2>3, <2>5 DEF Places
<1>12. CASE Create(t)
  <2>1. /\ at[t] = "create" /\ Fresh # {} /\ at' = [at EXCEPT ![t] = "tables"]
        /\ UNCHANGED <<up, lock, running, mine, conn, dead>>
    BY <1>12 DEF Create, Go, hands
  <2>2. PICK p \in Fresh : POOL' = p /\ pool' = [pool EXCEPT ![p].idle = "live"]
    BY <1>12, <2>1 DEF Create
  <2>3. p \in Pools /\ ~KnownPool(p) /\ POOL = NoPool
    BY <1>1, <2>1 DEF Fresh, LockInv
  <2>4. \A u \in Threads : ThreadFits(u)'
    BY <1>1, <1>3, <2>1, MovedFits DEF ThreadFits, Holding, Places
  <2>5. pool' \in [Pools -> PoolRecord]
    BY <1>2, <2>2, <2>3 DEF PoolRecord
  <2>6. ASSUME NEW q \in Pools PROVE SlotsOf(q)' /\ Forgotten(q)'
    <3>1. Holders(q)' = Holders(q) /\ SlotsOf(q) /\ Forgotten(q)
      BY <1>2, <2>1 DEF Holders, SlotsKept
    <3>2. pool'[q].used = pool[q].used /\ pool'[q].lost = pool[q].lost
      BY <1>2, <2>2, <2>3 DEF PoolRecord
    <3>3. CASE q = p
      <4>1. Holders(q) = {} /\ pool[q].used = 0 /\ pool[q].lost = 0
        BY <2>3, <3>1, <3>3 DEF Holders, KnownPool, Forgotten
      <4>2. Cardinality({}) = 0
        BY FS_EmptySet
      <4>3. KnownPool(q)'
        BY <2>2, <3>3 DEF KnownPool
      <4>4. QED
        BY <3>1, <3>2, <4>1, <4>2, <4>3 DEF SlotsOf, Forgotten
    <3>4. CASE q # p
      <4>1. KnownPool(q) => KnownPool(q)'
        BY <2>1, <2>3 DEF KnownPool
      <4>2. QED
        BY <2>2, <3>1, <3>2, <3>4, <4>1 DEF SlotsOf, Forgotten
    <3>5. QED
      BY <3>3, <3>4
  <2>7. QED
    BY <1>3, <1>4, <2>1, <2>2, <2>3, <2>4, <2>5, <2>6 DEF SlotsKept, Places
<1>13. ASSUME UNCHANGED <<up, POOL, lock, running, mine>>, CanLend(POOL), Lend(POOL, t),
              NEW to \in Holding, at' = [at EXCEPT ![t] = to],
              conn[t] = NoPool, mine[t] = NoPool
       PROVE  SlotInv'
  <2>1. POOL \in Pools /\ KnownPool(POOL)
    BY <1>3, <1>13 DEF CanLend, KnownPool
  <2>2. SlotsKept' /\ pool' \in [Pools -> PoolRecord]
    BY <1>1, <1>2, <1>13, <2>1, LendKeepsSlots
  <2>3. conn' = [conn EXCEPT ![t] = POOL] /\ dead' \subseteq Threads
    BY <1>1, <1>3, <1>13 DEF Lend
  <2>4. to \in Places
    BY DEF Holding, Places
  <2>5. \A u \in Threads : ThreadFits(u)'
    BY <1>1, <1>3, <1>13, <2>1, <2>3, <2>4, MovedFits
  <2>6. QED
    BY <1>1, <1>3, <1>4, <1>13, <2>1, <2>2, <2>3, <2>4, <2>5
<1>14. CASE Tables(t) \/ Borrow(t)
  <2>1. at[t] \in {"tables", "borrow"} /\ UNCHANGED <<up, POOL, lock, running, mine>>
    BY <1>14 DEF Tables, Borrow, Go
  <2>2. mine[t] = NoPool /\ conn[t] = NoPool
    BY <1>1, <2>1 DEF ThreadFits, Holding
  <2>3. CASE CanLend(POOL)
    BY <1>13, <1>14, <2>1, <2>2, <2>3 DEF Tables, Borrow, Go, Holding
  <2>4. CASE ~CanLend(POOL)
    BY <1>3, <1>5, <1>14, <2>1, <2>2, <2>4 DEF Tables, Borrow, Go, Holding, Places
  <2>5. QED
    BY <2>3, <2>4
<1>15. ASSUME UNCHANGED <<up, mine>>, lock' = lock, POOL' \in {POOL, NoPool},
              running' \subseteq {Retryer} \cup Checkers, mine[t] = NoPool,
              \/ TakeBack(t) \/ Discard(t)
              \/ (conn[t] \in Pools => POOL' # conn[t]) /\ Leave(t)
              \/ Drop(t) /\ pool' = Collected([pool EXCEPT ![conn[t]].lost = @ + 1]),
              NEW to \in Places \ Holding, at' = [at EXCEPT ![t] = to]
       PROVE  SlotInv'
  <2>1. /\ SlotsKept' /\ pool' \in [Pools -> PoolRecord]
        /\ conn' = [conn EXCEPT ![t] = NoPool] /\ dead' \subseteq Threads
    BY <1>1, <1>2, <1>15, RidOf
  <2>2. \A u \in Threads : ThreadFits(u)'
    BY <1>1, <1>3, <1>15, <2>1, MovedFits
  <2>3. QED
    BY <1>1, <1>3, <1>4, <1>15, <2>1, <2>2
<1>16. CASE TablesDone(t)
  <2>1. at[t] = "ddl" /\ UNCHANGED <<up, POOL, lock, mine>> /\ at' = [at EXCEPT ![t] = "unlock"]
    BY <1>16 DEF TablesDone, Go
  <2>2. mine[t] = NoPool
    BY <1>1, <2>1 DEF ThreadFits
  <2>3. running' \subseteq {Retryer} \cup Checkers
    BY <1>3, <1>16 DEF TablesDone
  <2>4. TakeBack(t) \/ Discard(t) \/ (POOL' # conn[t] /\ Leave(t))
    BY <1>16, <2>1 DEF TablesDone
  <2>5. QED
    BY <1>15, <2>1, <2>2, <2>3, <2>4 DEF Places, Holding
<1>17. CASE PutBack(t)
  <2>1. at[t] = "putback" /\ UNCHANGED <<up, POOL, lock, running, mine>>
    BY <1>17 DEF PutBack, Go
  <2>2. mine[t] = NoPool /\ conn[t] # NoPool
    BY <1>1, <2>1 DEF ThreadFits, Holding
  <2>3. CASE conn[t] = POOL
    BY <1>3, <1>15, <1>17, <2>1, <2>2, <2>3 DEF PutBack, Go, Places, Holding
  <2>4. CASE conn[t] # POOL
    BY <1>3, <1>5, <1>17, <2>1, <2>2, <2>4 DEF PutBack, Go, Places, Holding
  <2>5. QED
    BY <2>3, <2>4
<1>18. CASE Close(t)
  <2>1. /\ at[t] = "close" /\ UNCHANGED <<up, lock, running, mine>>
        /\ at' = [at EXCEPT ![t] = "out"] /\ POOL' = NoPool /\ Leave(t)
    BY <1>18 DEF Close, Go
  <2>2. mine[t] = NoPool
    BY <1>1, <2>1 DEF ThreadFits
  <2>3. QED
    BY <1>2, <1>3, <1>15, <2>1, <2>2 DEF Places, Holding
<1>19. CASE Ask(t) \/ (t = Retryer /\ Retry)
  BY <1>1, <1>3, <1>5, <1>19 DEF Ask, Retry, Go, ThreadFits, Holding, Places
<1>20. CASE UseBorrows(t)
  <2>1. /\ at[t] = "use" /\ UNCHANGED <<up, POOL, lock, running>> /\ conn[t] = NoPool
        /\ mine' = [mine EXCEPT ![t] = NoPool]
    BY <1>1, <1>20 DEF UseBorrows, Go, ThreadFits, Holding
  <2>2. CASE CanLend(mine[t])
    <3>1. Lend(mine[t], t) /\ at' = [at EXCEPT ![t] = "run"]
      BY <1>20, <2>2 DEF UseBorrows, Go
    <3>2. mine[t] \in Pools /\ KnownPool(mine[t])
      BY <1>3, <2>2 DEF CanLend, KnownPool
    <3>3. SlotsKept' /\ pool' \in [Pools -> PoolRecord]
      BY <1>2, <2>1, <3>1, <3>2, LendKeepsSlots
    <3>4. conn' = [conn EXCEPT ![t] = mine[t]] /\ dead' \subseteq Threads
      BY <1>3, <3>1 DEF Lend
    <3>5. \A u \in Threads : ThreadFits(u)'
      BY <1>3, <2>1, <3>1, <3>2, <3>4, MovedFits DEF Holding, Places
    <3>6. QED
      BY <1>3, <1>4, <2>1, <3>1, <3>2, <3>3, <3>4, <3>5 DEF Places
  <2>3. CASE ~CanLend(mine[t])
    <3>1. UNCHANGED hands /\ at' = [at EXCEPT ![t] = "out"] /\ pool' = Collected(pool)
      BY <1>20, <2>3 DEF UseBorrows, Go
    <3>2. conn' = [conn EXCEPT ![t] = NoPool] /\ conn[t] \notin Pools
      BY <1>2, <1>3, <2>1, <3>1 DEF hands
    <3>3. SlotsKept' /\ pool' \in [Pools -> PoolRecord]
      BY <1>2, <2>1, <3>1, <3>2, DropKeepsSlots
    <3>4. \A u \in Threads : ThreadFits(u)'
      BY <1>3, <2>1, <3>1, <3>2, MovedFits DEF Holding, Places
    <3>5. QED
      BY <1>3, <1>4, <2>1, <3>1, <3>2, <3>3, <3>4 DEF hands, Places
  <2>4. QED
    BY <2>2, <2>3
<1>21. CASE UseRuns(t)
  <2>1. at[t] = "run" /\ UNCHANGED <<up, POOL, lock, running, mine>>
    BY <1>21 DEF UseRuns, Go
  <2>2. mine[t] = NoPool /\ conn[t] # NoPool
    BY <2>1 DEF ThreadFits, Holding
  <2>3. CASE t \in dead
    BY <1>3, <1>15, <1>21, <2>1, <2>2, <2>3 DEF UseRuns, Go, Places, Holding
  <2>4. CASE t \notin dead
    BY <1>3, <1>5, <1>21, <2>1, <2>2, <2>4 DEF UseRuns, Go, Places, Holding
  <2>5. QED
    BY <2>3, <2>4
<1>22. CASE UseReturns(t)
  <2>1. /\ at[t] \in {"committed", "fetched"} /\ UNCHANGED <<up, POOL, lock, running, mine>>
        /\ at' = [at EXCEPT ![t] = "out"]
        /\ \/ TakeBack(t)
           \/ Drop(t) /\ pool' = Collected([pool EXCEPT ![conn[t]].lost = @ + 1])
    BY <1>22 DEF UseReturns, Go
  <2>2. mine[t] = NoPool
    BY <2>1 DEF ThreadFits
  <2>3. QED
    BY <1>3, <1>15, <2>1, <2>2 DEF Places, Holding
<1>23. CASE CheckBorrows(t)
  <2>1. /\ at[t] = "out" /\ UNCHANGED <<up, POOL, lock, running, mine>>
        /\ CanLend(POOL) /\ Lend(POOL, t) /\ at' = [at EXCEPT ![t] = "check"]
    BY <1>23 DEF CheckBorrows, Go
  <2>2. mine[t] = NoPool /\ conn[t] = NoPool
    BY <2>1 DEF ThreadFits, Holding
  <2>3. QED
    BY <1>13, <2>1, <2>2 DEF Holding
<1>24. CASE CheckReturns(t)
  <2>1. /\ at[t] = "check" /\ UNCHANGED <<up, POOL, lock, running, mine>>
        /\ at' = [at EXCEPT ![t] = "out"] /\ (TakeBack(t) \/ Discard(t))
    BY <1>24 DEF CheckReturns, Go
  <2>2. mine[t] = NoPool
    BY <2>1 DEF ThreadFits
  <2>3. QED
    BY <1>3, <1>15, <2>1, <2>2 DEF Places, Holding
<1>25. QED
  BY <1>6, <1>7, <1>8, <1>9, <1>10, <1>11, <1>12, <1>14, <1>16, <1>17, <1>18,
     <1>19, <1>20, <1>21, <1>22, <1>23, <1>24 DEF GetPool, Use

\* PostgreSQL's going and coming moves no connection.
LEMMA OutageKeepsSlots ==
    ASSUME SlotInv, LockInv', PgFails \/ PgReturns
    PROVE  SlotInv'
<1> USE PoolConstants DEF SlotInv
<1>1. UNCHANGED <<POOL, lock, running, at, mine, conn>> /\ up' \in BOOLEAN /\ dead' \subseteq Threads
  BY DEF PgFails, PgReturns, hands, PoolTypeOK
<1>2. pool \in [Pools -> PoolRecord]
  BY DEF PoolTypeOK, PoolRecord
<1>3. /\ pool' \in [Pools -> PoolRecord]
      /\ \A p \in Pools : pool'[p].used = pool[p].used /\ pool'[p].lost = pool[p].lost
  <2>1. CASE PgFails
    <3>1. \A r \in PoolRecord : [r EXCEPT !.idle = IF @ = "live" THEN "dead" ELSE @] \in PoolRecord
      BY DEF PoolRecord
    <3>2. QED
      BY <1>2, <2>1, <3>1 DEF PgFails, PoolRecord
  <2>2. CASE PgReturns
    BY <1>2, <2>2 DEF PgReturns
  <2>3. QED
    BY <2>1, <2>2
<1>4. SlotsKept'
  BY <1>1, <1>3, NobodyLends DEF SlotsKept, KnownPool
<1>5. \A u \in Threads : ThreadFits(u)'
  BY <1>1 DEF ThreadFits
<1>6. QED
  BY <1>1, <1>3, <1>4, <1>5 DEF SlotsKept, PoolTypeOK, PoolRecord

(* Types, places and slots fit together in every state of the pool. *)
LEMMA SlotsCorrect == PoolSpec => []SlotInv
<1>1. PoolInit => SlotInv
  <2> SUFFICES ASSUME PoolInit PROVE SlotInv
    OBVIOUS
  <2>1. \A p \in Pools : pool[p] = Closed /\ Holders(p) = {}
    BY PoolConstants DEF PoolInit, Holders
  <2>2. IsFiniteSet({}) /\ Cardinality({}) = 0
    BY FS_EmptySet
  <2>3. \A p \in Pools : SlotsOf(p) /\ Forgotten(p)
    BY <2>1, <2>2 DEF SlotsOf, Forgotten, Closed
  <2>4. \A t \in Threads : ThreadFits(t)
    BY DEF PoolInit, ThreadFits, Holding
  <2>5. PoolTypeOK
    BY <2>1 DEF PoolInit, PoolTypeOK, Closed, Places
  <2>6. QED
    BY <2>3, <2>4, <2>5, InitLockInv DEF SlotInv
<1>2. SlotInv /\ LockInv' /\ [PoolNext]_poolVars => SlotInv'
  <2> SUFFICES ASSUME SlotInv, LockInv', [PoolNext]_poolVars PROVE SlotInv'
    OBVIOUS
  <2>1. CASE UNCHANGED poolVars
    BY <2>1 DEF poolVars, SlotInv, PoolTypeOK, SlotsOf, Holders, Forgotten, KnownPool, ThreadFits
  <2>2. ASSUME NEW t \in Threads,
               \/ GetPool(t) \/ Ask(t) \/ Use(t) \/ (t = Retryer /\ Retry)
               \/ CheckBorrows(t) \/ CheckReturns(t)
        PROVE  SlotInv'
    BY <2>2, ThreadKeepsSlots
  <2>3. QED
    BY <2>1, <2>2, OutageKeepsSlots DEF PoolNext, Threads
<1>3. QED
  BY <1>1, <1>2, LockCorrect, PTL DEF PoolSpec

(* PoolTypeOK is an invariant: above all, no pool takes a negative number of *)
(* connections for lent, whoever gives back what to which pool.              *)
THEOREM PoolTypeCorrect == PoolSpec => []PoolTypeOK
<1>1. SlotInv => PoolTypeOK
  BY DEF SlotInv
<1>2. QED
  BY <1>1, SlotsCorrect, PTL

(* What the pool in use takes for lent is in a thread's hands but for what   *)
(* fetches have lost, for any number of threads, pools and connections, and  *)
(* wherever a server, a pool or a connection failed on the way.              *)
THEOREM SlotsFound == PoolSpec => []SlotsAccounted
<1>1. SlotInv => SlotsAccounted
  BY DEF SlotInv, PoolTypeOK, SlotsOf, Holders, SlotsAccounted
<1>2. QED
  BY <1>1, SlotsCorrect, PTL

-----------------------------------------------------------------------------
(***************************************************************************)
(* The memory                                                              *)
(***************************************************************************)

OwnEntry == {e \in Entry : e.user = e.value.by}
OwnRow   == {r \in Row : r.user = r.value.by}
PlainRow == {r \in OwnRow : r.tags = r.user /\ r.quotes = {}}
Stages   == {"idle", "pg", "cache", "check", "insert", "layers"}

RowsOwn   == row \in [Backends -> OwnRow \cup {None}] /\ row["pg"] \in PlainRow \cup {None}
CachesOwn == cache \in [Processes -> [Layers -> OwnEntry \cup {None}]]

StoresOwn ==
    /\ DOMAIN item = Processes
    /\ pc \in [Processes -> Stages]
    /\ \A p \in Processes : pc[p] # "idle" => item[p].row \in OwnRow
    /\ \A p \in Processes : pc[p] = "pg" => item[p].row \in PlainRow

\* After the insertion there is a row, whoever writes it next.
Inserted == \A p \in Processes : pc[p] = "layers" => row["sqlite"] \in OwnRow

OwnInv == RowsOwn /\ CachesOwn /\ StoresOwn /\ Inserted /\ begun \in Nat

(* Initially nothing is kept. *)
LEMMA InitOwnInv == Init => OwnInv
  BY DEF Init, OwnInv, RowsOwn, CachesOwn, StoresOwn, Inserted, Stages, Empty, Backends

(* Of a store under way, the row and the entry bear its user. *)
LEMMA MineIsOwn ==
    ASSUME StoresOwn, NEW p \in Processes, pc[p] # "idle"
    PROVE  MyRow(p) \in OwnRow /\ Mine(p) \in OwnEntry
<1>1. item[p].row \in OwnRow
  BY DEF StoresOwn
<1>2. QED
  BY <1>1 DEF MyRow, Mine, AsEntry, OwnRow, OwnEntry, Row, Entry

(* What an earlier value adds to the quotations leaves the rest of the row. *)
LEMMA QuotingIsOwn ==
    ASSUME NEW p \in Processes, MyRow(p) \in OwnRow, NEW found \in SUBSET Writers
    PROVE  Quoting(p, found) \in OwnRow /\ Quoting(p, found).value = MyRow(p).value
<1> DEFINE r == MyRow(p)  q == r.quotes \cup (found \ {Nobody, r.user})
<1>1. Quoting(p, found) = [r EXCEPT !.quotes = q]
  BY DEF Quoting
<1>2. r \in Row /\ r.user = r.value.by /\ q \in SUBSET Users
  BY DEF OwnRow, Row, Writers
<1> HIDE DEF r, q
<1>3. [r EXCEPT !.quotes = q] \in OwnRow /\ [r EXCEPT !.quotes = q].value = r.value
  BY <1>2 DEF OwnRow, Row
<1>4. QED
  BY <1>1, <1>3 DEF r

(* What is looked up of the key is an entry or nothing, and what is quoted is somebody's. *)
LEMMA LookedUp ==
    ASSUME OwnInv, NEW p \in Processes
    PROVE  /\ Existing(p) \in OwnEntry \cup {None}
           /\ Found(p) \in SUBSET Writers /\ Conflicting(p) \in SUBSET Writers
<1>1. Existing(p) \in OwnEntry \cup {None}
  BY DEF OwnInv, CachesOwn, Existing, ExistingIn, Layers
<1>2. row["sqlite"] \in OwnRow \cup {None}
  BY DEF OwnInv, RowsOwn, Backends
<1>3. \A e \in OwnEntry : e.value.by \in Writers
  BY DEF OwnEntry, Entry, Values
<1>4. \A r \in OwnRow : r.value.by \in Writers
  BY DEF OwnRow, Row, Values
<1>5. QED
  BY <1>1, <1>2, <1>3, <1>4 DEF Found, Conflicting

(* The row that an upgrade writes, with the tags of the entry. *)
LEMMA UpgradeIsOwn ==
    ASSUME OwnInv, NEW p \in Processes, MyRow(p) \in OwnRow, Existing(p) # None,
           NEW found \in {{}, Conflicting(p)}
    PROVE  RowOnUpgrade(p, found) \in OwnRow /\ RowOnUpgrade(p, found).value = MyRow(p).value
<1> DEFINE r == Quoting(p, found)  tags == Existing(p).tags
<1>1. r \in OwnRow /\ r.value = MyRow(p).value /\ tags \in Writers
  BY LookedUp, QuotingIsOwn DEF OwnEntry, Entry
<1>2. RowOnUpgrade(p, found) = [r EXCEPT !.tags = tags]
  BY DEF RowOnUpgrade
<1> HIDE DEF r, tags
<1>3. QED
  BY <1>1, <1>2 DEF OwnRow, Row

(* The row whose attributes a store writes again. *)
LEMMA UpdatedIsOwn ==
    ASSUME NEW p \in Processes, MyRow(p) \in OwnRow, row["sqlite"] \in OwnRow,
           NEW found \in SUBSET Writers
    PROVE  Updated(p, found) \in OwnRow /\ Updated(p, found).value = row["sqlite"].value
<1> DEFINE r == row["sqlite"]  sure == MyRow(p).sure  quotes == Quoting(p, found).quotes
<1>1. r \in OwnRow /\ sure \in BOOLEAN /\ quotes \in SUBSET Users
  BY QuotingIsOwn DEF OwnRow, Row
<1>2. Updated(p, found) = [r EXCEPT !.sure = sure, !.quotes = quotes]
  BY DEF Updated
<1> HIDE DEF r, sure, quotes
<1>3. Updated(p, found) \in OwnRow /\ Updated(p, found).value = r.value
  BY <1>1, <1>2 DEF OwnRow, Row
<1>4. QED
  BY <1>3 DEF r

(* A process that ends its store, and touches nothing else of it, keeps what is kept of stores. *)
LEMMA EndsOwn ==
    ASSUME StoresOwn, NEW p \in Processes,
           pc' = [pc EXCEPT ![p] = "idle"], item' = [item EXCEPT ![p] = None]
    PROVE  StoresOwn'
  BY DEF StoresOwn, Stages

(* A call begins with the user's own row. *)
LEMMA CallKeepsOwn ==
    ASSUME OwnInv, NEW p \in Processes, NEW w \in Writers, NEW sure \in BOOLEAN, Call(p, w, sure)
    PROVE  OwnInv'
<1>1. begun' = begun + 1 /\ begun' \in Nat /\ row' = row /\ cache' = cache
  BY DEF OwnInv, Call
<1>2. RowsOwn' /\ CachesOwn'
  BY <1>1 DEF OwnInv, RowsOwn, CachesOwn
<1> DEFINE own == [user |-> w, value |-> [by |-> w, number |-> begun'], tags |-> w,
                   quotes |-> {}, sure |-> sure]
<1>3. own \in PlainRow
  BY <1>1 DEF PlainRow, OwnRow, Row, Values
<1> HIDE DEF own
<1>4. PICK a : item' = [item EXCEPT ![p] = [row |-> own, after |-> a]]
  BY DEF Call, own
<1>5. PICK s \in {"pg", "check"} : pc' = [pc EXCEPT ![p] = s]
  BY DEF Call, Goto
<1>6. StoresOwn'
  BY <1>3, <1>4, <1>5 DEF OwnInv, StoresOwn, Stages, PlainRow
<1>7. Inserted'
  BY <1>1, <1>5 DEF OwnInv, Inserted, StoresOwn
<1>8. QED
  BY <1>1, <1>2, <1>6, <1>7 DEF OwnInv

(* The steps of a store keep every value with its user. *)
LEMMA StoreKeepsOwn ==
    ASSUME OwnInv, NEW p \in Processes, Store(p)
    PROVE  OwnInv'
<1> USE DEF OwnInv
<1>1. CASE PgUpsert(p)
  <2>1. pc[p] = "pg" /\ pc' = [pc EXCEPT ![p] = "cache"] /\ item' = item
    BY <1>1 DEF PgUpsert, Goto
  <2>2. RowsOwn'
    BY <1>1, <2>1, MineIsOwn DEF PgUpsert, RowsOwn, Backends, StoresOwn, MyRow
  <2>3. StoresOwn'
    BY <2>1 DEF StoresOwn, Stages
  <2>4. row'["sqlite"] = row["sqlite"]
    BY <1>1 DEF PgUpsert, RowsOwn, Backends
  <2>5. Inserted'
    BY <2>1, <2>4 DEF Inserted, StoresOwn
  <2>6. QED
    BY <1>1, <2>2, <2>3, <2>5 DEF PgUpsert, CachesOwn
<1>2. CASE PgFailed(p)
  BY <1>2, EndsOwn DEF PgFailed, Goto, RowsOwn, CachesOwn, Inserted, StoresOwn, histories
<1>3. CASE PgCache(p)
  <2>1. pc[p] # "idle" /\ pc' = [pc EXCEPT ![p] = "idle"] /\ item' = [item EXCEPT ![p] = None]
    BY <1>3 DEF PgCache, Goto
  <2>2. PICK l \in Layers : cache' = [cache EXCEPT ![p][l] = Mine(p)]
    BY <1>3 DEF PgCache, Layers
  <2>3. CachesOwn'
    BY <2>1, <2>2, MineIsOwn DEF CachesOwn
  <2>4. QED
    BY <1>3, <2>1, <2>3, EndsOwn DEF PgCache, RowsOwn, Inserted, StoresOwn
<1>4. CASE LiteCheck(p)
  <2>1. row' = row /\ cache' = cache /\ begun' = begun /\ pc[p] # "idle"
    BY <1>4 DEF LiteCheck, Goto
  <2>2. CASE pc' = [pc EXCEPT ![p] = "idle"] /\ item' = [item EXCEPT ![p] = None]
    BY <2>1, <2>2, EndsOwn DEF RowsOwn, CachesOwn, Inserted, StoresOwn
  <2>3. ASSUME NEW found \in {{}, Found(p)}, pc' = [pc EXCEPT ![p] = "insert"],
               item' = [item EXCEPT ![p] = [row |-> Quoting(p, found), after |-> @.after]]
        PROVE  OwnInv'
    <3>1. Quoting(p, found) \in OwnRow
      BY <2>1, LookedUp, MineIsOwn, QuotingIsOwn
    <3>2. item'[p].row = Quoting(p, found) /\ \A q \in Processes \ {p} : item'[q] = item[q]
      BY <2>3 DEF StoresOwn
    <3>3. StoresOwn'
      BY <2>3, <3>1, <3>2 DEF StoresOwn, Stages
    <3>4. QED
      BY <2>1, <2>3, <3>3 DEF RowsOwn, CachesOwn, Inserted, StoresOwn
  <2>4. QED
    BY <1>4, <2>2, <2>3 DEF LiteCheck, Goto
<1>5. CASE LiteInsert(p)
  <2>1. pc[p] # "idle" /\ pc' = [pc EXCEPT ![p] = "layers"] /\ item' = item
    BY <1>5 DEF LiteInsert, Goto
  <2>2. row' = [row EXCEPT !["sqlite"] = MyRow(p)] /\ MyRow(p) \in OwnRow
    BY <1>5, <2>1, MineIsOwn DEF LiteInsert
  <2>3. RowsOwn' /\ row'["sqlite"] \in OwnRow
    BY <2>2 DEF RowsOwn, Backends
  <2>4. StoresOwn' /\ Inserted'
    BY <2>1, <2>3 DEF StoresOwn, Stages, Inserted
  <2>5. QED
    BY <1>5, <2>3, <2>4 DEF LiteInsert, CachesOwn
<1>6. CASE LiteFailed(p)
  BY <1>6, EndsOwn DEF LiteFailed, RowsOwn, CachesOwn, Inserted, StoresOwn
<1>7. CASE LiteUpgrade(p)
  <2>1. pc[p] # "idle" /\ pc' = [pc EXCEPT ![p] = "idle"] /\ item' = [item EXCEPT ![p] = None]
    BY <1>7 DEF LiteUpgrade, Goto
  <2>2. MovedUp(p) \in OwnEntry
    BY <1>7 DEF LiteUpgrade, MovedUp, Existing, ExistingIn, CachesOwn, Layers
  <2>3. PICK top : cache' = [cache EXCEPT ![p] = [l \in Layers |->
                       IF l = top THEN MovedUp(p)
                       ELSE IF l = "procedural" THEN cache[p][l] ELSE None]]
    BY <1>7 DEF LiteUpgrade
  <2>4. CachesOwn'
    BY <2>2, <2>3 DEF CachesOwn
  <2>5. PICK found \in {{}, Conflicting(p)} :
                row' = [row EXCEPT !["sqlite"] = RowOnUpgrade(p, found)]
    BY <1>7 DEF LiteUpgrade
  <2>6. RowsOwn' /\ row'["sqlite"] \in OwnRow
    BY <1>7, <2>1, <2>5, UpgradeIsOwn, MineIsOwn DEF LiteUpgrade, RowsOwn, Backends
  <2>7. QED
    BY <1>7, <2>1, <2>4, <2>6, EndsOwn DEF LiteUpgrade, Inserted
<1>8. CASE LiteCache(p)
  <2>1. pc[p] = "layers" /\ pc' = [pc EXCEPT ![p] = "idle"] /\ item' = [item EXCEPT ![p] = None]
    BY <1>8 DEF LiteCache, Goto
  <2>2. PICK l \in Layers : cache' = [cache EXCEPT ![p][l] = Mine(p)]
    BY <1>8 DEF LiteCache
  <2>3. CachesOwn'
    BY <2>1, <2>2, MineIsOwn DEF CachesOwn
  <2>4. row["sqlite"] \in OwnRow /\ MyRow(p) \in OwnRow
    BY <2>1, MineIsOwn DEF Inserted
  <2>5. ASSUME NEW found \in {{}, Conflicting(p)}
        PROVE  Updated(p, found) \in OwnRow
    BY <2>4, LookedUp, UpdatedIsOwn
  <2>6. CASE row' = row
    BY <1>8, <2>1, <2>3, <2>6, EndsOwn DEF LiteCache, RowsOwn, Inserted, StoresOwn
  <2>7. ASSUME NEW found \in {{}, Conflicting(p)},
               row' = [row EXCEPT !["sqlite"] = Updated(p, found)]
        PROVE  OwnInv'
    <3>1. RowsOwn' /\ row'["sqlite"] \in OwnRow
      BY <2>5, <2>7 DEF RowsOwn, Backends
    <3>2. QED
      BY <1>8, <2>1, <2>3, <3>1, EndsOwn DEF LiteCache, Inserted
  <2>8. QED
    BY <1>8, <2>6, <2>7 DEF LiteCache
<1>9. QED
  BY <1>1, <1>2, <1>3, <1>4, <1>5, <1>6, <1>7, <1>8 DEF Store

(* Entries move between layers and go, whole. *)
LEMMA MovesKeepOwn ==
    ASSUME OwnInv, NEW p \in Processes, NEW l \in Layers,
           Archive(p, l) \/ \E to \in Layers : Move(p, l, to)
    PROVE  OwnInv'
<1>1. row' = row /\ pc' = pc /\ item' = item /\ begun' = begun
  BY DEF Archive, Move
<1>2. CachesOwn'
  <2>1. CASE Archive(p, l)
    BY <2>1 DEF Archive, OwnInv, CachesOwn
  <2>2. ASSUME NEW to \in Layers, Move(p, l, to)  PROVE CachesOwn'
    <3>1. cache' = [cache EXCEPT ![p][to] = cache[p][l], ![p][l] = None]
      BY <2>2 DEF Move
    <3>2. cache[p][l] \in OwnEntry \cup {None}
      BY DEF OwnInv, CachesOwn
    <3>3. QED
      BY <3>1, <3>2 DEF OwnInv, CachesOwn
  <2>3. QED
    BY <2>1, <2>2
<1>3. QED
  BY <1>1, <1>2 DEF OwnInv, RowsOwn, StoresOwn, Inserted

(* A restart loads rows, with their users. *)
LEMMA RestartKeepsOwn ==
    ASSUME OwnInv, NEW p \in Processes, Restart(p)
    PROVE  OwnInv'
<1>1. /\ pc' = [pc EXCEPT ![p] = "idle"] /\ item' = [item EXCEPT ![p] = None]
      /\ row' = row /\ begun' = begun
  BY DEF Restart
<1> DEFINE r == row[IF pgUp THEN "pg" ELSE "sqlite"]
<1>2. r \in OwnRow \cup {None}
  BY DEF OwnInv, RowsOwn, Backends
<1>3. Empty \in [Layers -> OwnEntry \cup {None}]
  BY DEF Empty
<1>4. CachesOwn'
  <2>1. CASE r = None
    <3>1. cache' = [cache EXCEPT ![p] = Empty]
      BY <2>1 DEF Restart
    <3>2. QED
      BY <1>3, <3>1 DEF OwnInv, CachesOwn
  <2>2. CASE r # None
    <3>1. AsEntry(r) \in OwnEntry
      BY <1>2, <2>2 DEF AsEntry, OwnRow, OwnEntry, Row, Entry
    <3>2. PICK l \in Layers :
             cache' = [cache EXCEPT ![p] =
                          [Empty EXCEPT ![l] = AsEntry(r)]]
      BY <2>2 DEF Restart
    <3> HIDE DEF r
    <3>3. [Empty EXCEPT ![l] = AsEntry(r)]
             \in [Layers -> OwnEntry \cup {None}]
      BY <1>3, <3>1
    <3>4. QED
      BY <3>2, <3>3 DEF OwnInv, CachesOwn
  <2>3. QED
    BY <2>1, <2>2
<1>5. QED
  BY <1>1, <1>4, EndsOwn DEF OwnInv, RowsOwn, Inserted, StoresOwn

(* Every value is kept with the user who stored it, for ever. *)
THEOREM KeptWithUser == Spec => []OwnInv
<1>1. OwnInv /\ [Next]_vars => OwnInv'
  <2> SUFFICES ASSUME OwnInv, [Next]_vars PROVE OwnInv'
    OBVIOUS
  <2>1. CASE UNCHANGED vars
    BY <2>1 DEF vars, OwnInv, RowsOwn, CachesOwn, StoresOwn, Inserted
  <2>2. CASE PgSwitches
    BY <2>2 DEF PgSwitches, OwnInv, RowsOwn, CachesOwn, StoresOwn, Inserted
  <2>3. QED
    BY <2>1, <2>2, CallKeepsOwn, StoreKeepsOwn, MovesKeepOwn, RestartKeepsOwn DEF Next
<1>2. QED
  BY InitOwnInv, <1>1, PTL DEF Spec

(* OwnWords, of any instance: the values that searches and lists show a user *)
(* are those that user stored and those stored for everybody.                *)
THEOREM NobodyElsesWords == Spec => []OwnWords
<1>1. OwnInv => OwnWords
  <2> SUFFICES ASSUME OwnInv, NEW p \in Processes, NEW u \in Users
               PROVE  /\ \A e \in Answers(p, u) \cup Listed(u) : e.value.by \in {u, Nobody}
                      /\ row["pg"] \in InRows(u) =>
                           row["pg"].tags \in {u, Nobody} /\ row["pg"].quotes \subseteq {u}
    BY DEF OwnWords
  <2>1. \A r \in InRows(u) : r \in OwnRow /\ r.user \in {u, Nobody}
    BY DEF InRows, VisibleTo, OwnInv, RowsOwn
  <2>2. \A c \in Cached(p) : c \in OwnEntry
    BY DEF Cached, OwnInv, CachesOwn
  <2>3. ASSUME NEW e \in Answers(p, u) \cup Listed(u)
        PROVE  e.value.by \in {u, Nobody}
    <3>1. CASE e \in InRows(u)
      BY <2>1, <3>1 DEF OwnRow
    <3>2. CASE e \in Cached(p) /\ VisibleTo(e, u)
      BY <2>2, <3>2 DEF VisibleTo, OwnEntry
    <3>3. QED
      BY <2>3, <3>1, <3>2 DEF Answers, Listed
  <2>4. ASSUME row["pg"] \in InRows(u)
        PROVE  row["pg"].tags \in {u, Nobody} /\ row["pg"].quotes \subseteq {u}
    <3>1. row["pg"] \in PlainRow /\ row["pg"].user \in {u, Nobody}
      BY <2>1, <2>4, MemoryConstants DEF OwnInv, RowsOwn, OwnRow
    <3>2. QED
      BY <3>1 DEF PlainRow
  <2>5. QED
    BY <2>3, <2>4
<1>2. QED
  BY KeptWithUser, <1>1, PTL

-----------------------------------------------------------------------------
(***************************************************************************)
(* Acknowledged stores stay: every store under way is of a value no        *)
(* backend has acknowledged, so that whoever writes a row writes over what *)
(* was acknowledged before, and never the other way round.                 *)
(***************************************************************************)
Target(p) == IF pc[p] \in {"pg", "cache"} THEN "pg" ELSE "sqlite"

Under(p) == pc[p] # "idle"

\* What is acknowledged has been begun, what is overtaken was acknowledged.
Known ==
    /\ begun \in Nat
    /\ acked \in [Backends -> SUBSET Values] /\ overtaken \in [Backends -> SUBSET Values]
    /\ \A b \in Backends : overtaken[b] \subseteq acked[b] /\ \A v \in acked[b] : v.number <= begun

Asked ==
    \A p \in Processes : Under(p) =>
        /\ MyRow(p).value.number <= begun
        /\ \A b \in Backends : MyRow(p).value \notin acked[b]
        /\ item[p].after \subseteq acked[Target(p)]

Apart == \A p, q \in Processes : p # q /\ Under(p) /\ Under(q) => MyRow(p).value # MyRow(q).value

\* What a store has written is still there, or what was written since.
Written ==
    \A p \in Processes : pc[p] \in {"cache", "layers"} =>
        row[Target(p)] # None /\ row[Target(p)].value \notin item[p].after

DurableInv == Known /\ Asked /\ Apart /\ Written /\ Durable

\* How a step of the store of p may leave the rows.
RowsBy(p) ==
    \A b \in Backends :
        \/ row'[b] = row[b]
        \/ row[b] # None /\ row'[b] # None /\ row'[b].value = row[b].value
        \/ row'[b] # None /\ row'[b].value = MyRow(p).value

(* Initially nothing is acknowledged. *)
LEMMA InitDurable == Init => DurableInv
  BY DEF Init, DurableInv, Known, Asked, Apart, Written, Durable, Under

(* Of a store that goes on, what it writes is new to every backend. *)
LEMMA GoesOnDurable ==
    ASSUME OwnInv, DurableInv, NEW p \in Processes, Under(p),
           MyRow(p)'.value = MyRow(p).value, item'[p].after = item[p].after,
           \A q \in Processes \ {p} : item'[q] = item[q],
           NEW s \in Stages, pc' = [pc EXCEPT ![p] = s],
           Target(p)' = Target(p),
           s \in {"cache", "layers"} =>
              row'[Target(p)] # None /\ row'[Target(p)].value = MyRow(p).value,
           RowsBy(p), UNCHANGED <<begun, acked, overtaken>>
    PROVE  DurableInv'
<1>1. Known' /\ Target(p) \in Backends
  BY DEF DurableInv, Known, Target, Backends
<1>2. \A q \in Processes : /\ MyRow(q)'.value = MyRow(q).value /\ item'[q].after = item[q].after
                           /\ Target(q)' = Target(q) /\ (Under(q)' => Under(q))
  BY DEF MyRow, Target, Under, OwnInv, StoresOwn
<1>3. Asked'
  BY <1>2 DEF DurableInv, Asked
<1>4. Apart'
  BY <1>2 DEF DurableInv, Apart
<1>5. Written'
  <2> SUFFICES ASSUME NEW q \in Processes, pc'[q] \in {"cache", "layers"}
               PROVE  row'[Target(q)] # None /\ row'[Target(q)].value \notin item[q].after
    BY <1>2 DEF Written
  <2>1. item[q].after \subseteq acked[Target(q)] /\ Target(q) \in Backends
    BY <1>2 DEF DurableInv, Asked, Under, Target, Backends
  <2>2. MyRow(p).value \notin item[q].after
    BY <2>1 DEF DurableInv, Asked
  <2>3. CASE q = p
    BY <2>2, <2>3 DEF OwnInv, StoresOwn
  <2>4. CASE q # p
    <3>1. row[Target(q)] # None /\ row[Target(q)].value \notin item[q].after
      BY <2>4 DEF DurableInv, Written, OwnInv, StoresOwn
    <3>2. QED
      BY <2>1, <2>2, <3>1 DEF RowsBy
  <2>5. QED
    BY <2>3, <2>4
<1>6. Durable'
  <2> SUFFICES ASSUME NEW b \in Backends, acked[b] # {}
               PROVE  row'[b] # None /\ row'[b].value \notin overtaken[b]
    BY DEF Durable
  <2>1. row[b] # None /\ row[b].value \notin overtaken[b]
    BY DEF DurableInv, Durable
  <2>2. MyRow(p).value \notin overtaken[b]
    BY DEF DurableInv, Asked, Known
  <2>3. QED
    BY <2>1, <2>2 DEF RowsBy
<1>7. QED
  BY <1>1, <1>3, <1>4, <1>5, <1>6 DEF DurableInv

(* A store that ends unacknowledged, or a process that restarts, leaves the rows. *)
LEMMA FailsDurable ==
    ASSUME OwnInv, DurableInv, NEW p \in Processes,
           pc' = [pc EXCEPT ![p] = "idle"], item' = [item EXCEPT ![p] = None],
           UNCHANGED <<row, begun, acked, overtaken>>
    PROVE  DurableInv'
<1>1. \A q \in Processes : pc'[q] # "idle" => q # p /\ pc'[q] = pc[q] /\ item'[q] = item[q]
  BY DEF OwnInv, StoresOwn
<1>2. \A q \in Processes : Under(q)' => /\ Under(q) /\ MyRow(q)' = MyRow(q)
                                        /\ Target(q)' = Target(q) /\ item'[q] = item[q]
  BY <1>1 DEF Under, MyRow, Target
<1>3. Known' /\ Durable'
  BY DEF DurableInv, Known, Durable
<1>4. Asked'
  BY <1>2 DEF DurableInv, Asked
<1>5. Apart'
  BY <1>2 DEF DurableInv, Apart
<1>6. Written'
  BY <1>1, <1>2 DEF DurableInv, Written, Under
<1>7. QED
  BY <1>3, <1>4, <1>5, <1>6 DEF DurableInv

(* An acknowledgement: the row of the backend is the store's, or one written since. *)
LEMMA AckDurable ==
    ASSUME OwnInv, DurableInv, NEW p \in Processes, pc[p] \in {"cache", "layers"},
           pc' = [pc EXCEPT ![p] = "idle"], item' = [item EXCEPT ![p] = None],
           Acknowledge(p, Target(p)), RowsBy(p), begun' = begun
    PROVE  DurableInv'
<1> DEFINE b == Target(p)  v == MyRow(p).value  after == item[p].after
<1>1. /\ b \in Backends /\ v \in Values /\ after \subseteq acked[b] /\ v.number <= begun
      /\ \A c \in Backends : v \notin acked[c]
  BY MineIsOwn DEF DurableInv, Asked, Under, Target, Backends, OwnInv, OwnRow, Row
<1>2. acked' = [acked EXCEPT ![b] = @ \cup {v}] /\ overtaken' = [overtaken EXCEPT ![b] = @ \cup after]
  BY DEF Acknowledge
<1>3. row[b] # None /\ row[b].value \notin after
  BY DEF DurableInv, Written
<1> HIDE DEF b, v, after
<1>4. Known'
  BY <1>1, <1>2 DEF DurableInv, Known
<1>5. \A q \in Processes : Under(q)' => /\ q # p /\ Under(q) /\ MyRow(q)' = MyRow(q) /\ pc'[q] = pc[q]
                                        /\ Target(q)' = Target(q) /\ item'[q] = item[q]
  BY DEF Under, MyRow, Target, OwnInv, StoresOwn
<1>6. \A q \in Processes : Under(q)' => MyRow(q).value # v /\ v \notin item[q].after
  BY <1>1, <1>5 DEF DurableInv, Apart, Asked, Under, v, Target, Backends
<1>7. Asked'
  <2> SUFFICES ASSUME NEW q \in Processes, Under(q)'
               PROVE  /\ MyRow(q).value.number <= begun
                      /\ \A c \in Backends : MyRow(q).value \notin acked'[c]
                      /\ item[q].after \subseteq acked'[Target(q)]
    BY <1>5 DEF Asked
  <2>1. /\ MyRow(q).value.number <= begun
        /\ \A c \in Backends : MyRow(q).value \notin acked[c]
        /\ item[q].after \subseteq acked[Target(q)]
    BY <1>5 DEF DurableInv, Asked
  <2>2. \A c \in Backends : acked[c] \subseteq acked'[c] /\ acked'[c] \subseteq acked[c] \cup {v}
    BY <1>2 DEF DurableInv, Known
  <2>3. Target(q) \in Backends
    BY DEF Target, Backends
  <2>4. QED
    BY <1>6, <2>1, <2>2, <2>3
<1>8. Apart'
  BY <1>5 DEF DurableInv, Apart
<1>9. Written'
  <2> SUFFICES ASSUME NEW q \in Processes, Under(q)', pc[q] \in {"cache", "layers"}
               PROVE  row'[Target(q)] # None /\ row'[Target(q)].value \notin item[q].after
    BY <1>5 DEF Written, Under
  <2>1. row[Target(q)] # None /\ row[Target(q)].value \notin item[q].after
    BY DEF DurableInv, Written
  <2>2. Target(q) \in Backends
    BY DEF Target, Backends
  <2>3. QED
    BY <1>6, <2>1, <2>2 DEF RowsBy, v
<1>10. Durable'
  <2> SUFFICES ASSUME NEW c \in Backends, acked'[c] # {}
               PROVE  row'[c] # None /\ row'[c].value \notin overtaken'[c]
    BY DEF Durable
  <2>1. v \notin overtaken[c] /\ v \notin after
    BY <1>1 DEF DurableInv, Known
  <2>2. row[c] # None /\ row[c].value \notin overtaken'[c]
    <3>1. CASE c = b
      <4>1. acked[b] # {} => row[b].value \notin overtaken[b]
        BY <1>1 DEF DurableInv, Durable
      <4>2. acked[b] = {} => overtaken[b] = {}
        BY <1>1 DEF DurableInv, Known
      <4>3. QED
        BY <1>1, <1>2, <1>3, <3>1, <4>1, <4>2 DEF DurableInv, Known
    <3>2. CASE c # b
      BY <1>2, <3>2 DEF DurableInv, Known, Durable
    <3>3. QED
      BY <3>1, <3>2
  <2>3. v \notin overtaken'[c]
    BY <1>2, <2>1 DEF DurableInv, Known
  <2>4. QED
    BY <2>2, <2>3 DEF RowsBy, v
<1>11. QED
  BY <1>4, <1>7, <1>8, <1>9, <1>10 DEF DurableInv

(* A call asks for a value nobody has, after what its backend has acknowledged. *)
LEMMA CallDurable ==
    ASSUME OwnInv, DurableInv, NEW p \in Processes, NEW w \in Writers, NEW sure \in BOOLEAN,
           Call(p, w, sure)
    PROVE  DurableInv'
<1> DEFINE to == IF pgUp THEN "pg" ELSE "sqlite"
           v  == [by |-> w, number |-> begun']
<1>1. /\ pc' = [pc EXCEPT ![p] = IF pgUp THEN "pg" ELSE "check"]
      /\ item' = [item EXCEPT ![p] =
                     [row |-> [user |-> w, value |-> v, tags |-> w, quotes |-> {}, sure |-> sure],
                      after |-> acked[to]]]
      /\ begun' = begun + 1 /\ pc[p] = "idle"
      /\ row' = row /\ acked' = acked /\ overtaken' = overtaken
  BY DEF Call, Goto, histories
<1>2. /\ MyRow(p)' = [user |-> w, value |-> v, tags |-> w, quotes |-> {}, sure |-> sure]
      /\ item'[p].after = acked[to]
      /\ pc'[p] \in {"pg", "check"} /\ Target(p)' = to
  BY <1>1 DEF MyRow, Target, OwnInv, StoresOwn
<1>3. v.number = begun + 1 /\ MyRow(p)'.value = v
  BY <1>1, <1>2
<1> HIDE DEF v
<1>4. \A q \in Processes : q # p => /\ item'[q] = item[q] /\ pc'[q] = pc[q]
                                   /\ MyRow(q)' = MyRow(q) /\ Target(q)' = Target(q)
  BY <1>1 DEF MyRow, Target, OwnInv, StoresOwn
<1>5. \A b \in Backends : v \notin acked[b]
  BY <1>3 DEF DurableInv, Known, Values
<1>6. Known' /\ Durable'
  <2>1. Durable'
    BY <1>1 DEF DurableInv, Durable
  <2>2. begun' \in Nat /\ \A b \in Backends : \A u \in acked[b] : u.number <= begun'
    BY <1>1 DEF DurableInv, Known, Values
  <2>3. QED
    BY <1>1, <2>1, <2>2 DEF DurableInv, Known
<1>7. Asked'
  <2> SUFFICES ASSUME NEW q \in Processes, Under(q)'
               PROVE  /\ MyRow(q)'.value.number <= begun'
                      /\ \A b \in Backends : MyRow(q)'.value \notin acked[b]
                      /\ item'[q].after \subseteq acked[Target(q)']
    BY <1>1 DEF Asked
  <2>1. CASE q = p
    BY <1>1, <1>2, <1>3, <1>5, <2>1 DEF OwnInv
  <2>2. CASE q # p
    <3>1. /\ MyRow(q).value.number <= begun /\ MyRow(q).value.number \in Nat
          /\ \A b \in Backends : MyRow(q).value \notin acked[b]
          /\ item[q].after \subseteq acked[Target(q)]
      BY <1>4, <2>2, MineIsOwn DEF DurableInv, Asked, Under, OwnInv, OwnRow, Row, Values
    <3>2. QED
      BY <1>1, <1>4, <2>2, <3>1 DEF OwnInv
  <2>3. QED
    BY <2>1, <2>2
<1>8. Apart'
  <2>1. \A q \in Processes : q # p /\ Under(q)' => MyRow(q).value # v
    <3> SUFFICES ASSUME NEW q \in Processes, q # p, Under(q)'  PROVE MyRow(q).value # v
      OBVIOUS
    <3>1. MyRow(q).value.number <= begun /\ MyRow(q).value.number \in Nat
      BY <1>4, MineIsOwn DEF DurableInv, Asked, Under, OwnInv, OwnRow, Row, Values
    <3>2. QED
      BY <1>3, <3>1 DEF OwnInv
  <2>2. \A q \in Processes : q # p /\ Under(q)' => Under(q)
    BY <1>4 DEF Under
  <2>3. QED
    BY <1>3, <1>4, <2>1, <2>2 DEF DurableInv, Apart
<1>9. Written'
  BY <1>1, <1>2, <1>4 DEF DurableInv, Written
<1>10. QED
  BY <1>6, <1>7, <1>8, <1>9 DEF DurableInv

(* The steps of a store write what is new, or end it. *)
LEMMA StoreDurable ==
    ASSUME OwnInv, DurableInv, NEW p \in Processes, Store(p)
    PROVE  DurableInv'
<1>1. CASE PgUpsert(p)
  <2>1. /\ pc[p] = "pg" /\ pc' = [pc EXCEPT ![p] = "cache"] /\ Under(p)
        /\ row' = [row EXCEPT !["pg"] = MyRow(p)]
        /\ UNCHANGED <<item, begun, acked, overtaken>>
    BY <1>1 DEF PgUpsert, Goto, histories, Under
  <2>2. MyRow(p) # None
    BY <2>1, MineIsOwn, MemoryConstants DEF OwnInv, OwnRow, Under
  <2>3. row'["pg"] = MyRow(p) /\ \A b \in Backends \ {"pg"} : row'[b] = row[b]
    BY <2>1 DEF OwnInv, RowsOwn, Backends
  <2>4. RowsBy(p)
    BY <2>2, <2>3 DEF RowsBy
  <2>5. Target(p) = "pg" /\ Target(p)' = "pg"
    BY <2>1 DEF Target, OwnInv, StoresOwn
  <2>6. QED
    BY <2>1, <2>2, <2>3, <2>4, <2>5, GoesOnDurable DEF Stages, MyRow
<1>2. CASE PgFailed(p)
  BY <1>2, FailsDurable DEF PgFailed, Goto, histories
<1>3. CASE PgCache(p)
  <2>1. Target(p) = "pg" /\ RowsBy(p)
    BY <1>3 DEF PgCache, Goto, Target, RowsBy
  <2>2. QED
    BY <1>3, <2>1, AckDurable DEF PgCache, Goto
<1>4. CASE LiteCheck(p)
  <2>1. UNCHANGED <<row, begun, acked, overtaken>> /\ pc[p] = "check"
    BY <1>4 DEF LiteCheck, Goto, histories
  <2>2. CASE pc' = [pc EXCEPT ![p] = "idle"] /\ item' = [item EXCEPT ![p] = None]
    BY <2>1, <2>2, FailsDurable
  <2>3. ASSUME NEW found \in {{}, Found(p)}, pc' = [pc EXCEPT ![p] = "insert"],
               item' = [item EXCEPT ![p] = [row |-> Quoting(p, found), after |-> @.after]]
        PROVE  DurableInv'
    <3>1. Target(p)' = Target(p) /\ Under(p) /\ RowsBy(p)
      BY <2>1, <2>3 DEF Target, Under, RowsBy, OwnInv, StoresOwn
    <3>2. Quoting(p, found).value = MyRow(p).value
      BY <2>1, LookedUp, MineIsOwn, QuotingIsOwn DEF OwnInv
    <3>3. /\ item'[p] = [row |-> Quoting(p, found), after |-> item[p].after]
          /\ \A q \in Processes \ {p} : item'[q] = item[q]
      BY <2>3 DEF OwnInv, StoresOwn
    <3>4. MyRow(p)'.value = MyRow(p).value /\ item'[p].after = item[p].after
      BY <3>2, <3>3 DEF MyRow
    <3>5. QED
      BY <2>1, <2>3, <3>1, <3>3, <3>4, GoesOnDurable DEF Stages
  <2>4. QED
    BY <1>4, <2>2, <2>3 DEF LiteCheck, Goto
<1>5. CASE LiteInsert(p)
  <2>1. /\ pc[p] = "insert" /\ pc' = [pc EXCEPT ![p] = "layers"] /\ Under(p)
        /\ row' = [row EXCEPT !["sqlite"] = MyRow(p)]
        /\ UNCHANGED <<item, begun, acked, overtaken>>
    BY <1>5 DEF LiteInsert, Goto, histories, Under
  <2>2. MyRow(p) # None
    BY <2>1, MineIsOwn, MemoryConstants DEF OwnInv, OwnRow, Under
  <2>3. row'["sqlite"] = MyRow(p) /\ \A b \in Backends \ {"sqlite"} : row'[b] = row[b]
    BY <2>1 DEF OwnInv, RowsOwn, Backends
  <2>4. RowsBy(p)
    BY <2>2, <2>3 DEF RowsBy
  <2>5. Target(p) = "sqlite" /\ Target(p)' = "sqlite"
    BY <2>1 DEF Target, OwnInv, StoresOwn
  <2>6. QED
    BY <2>1, <2>2, <2>3, <2>4, <2>5, GoesOnDurable DEF Stages, MyRow
<1>6. CASE LiteFailed(p)
  BY <1>6, FailsDurable DEF LiteFailed, histories
<1>7. CASE LiteUpgrade(p)
  <2>1. /\ pc[p] = "layers" /\ pc' = [pc EXCEPT ![p] = "idle"] /\ item' = [item EXCEPT ![p] = None]
        /\ Existing(p) # None /\ begun' = begun /\ Acknowledge(p, "sqlite")
    BY <1>7 DEF LiteUpgrade, Goto
  <2>2. PICK found \in {{}, Conflicting(p)} :
                row' = [row EXCEPT !["sqlite"] = RowOnUpgrade(p, found)]
    BY <1>7 DEF LiteUpgrade
  <2>3. RowsBy(p)
    <3>1. RowOnUpgrade(p, found) # None /\ RowOnUpgrade(p, found).value = MyRow(p).value
      BY <2>1, UpgradeIsOwn, MineIsOwn, MemoryConstants DEF OwnInv, OwnRow
    <3>2. QED
      BY <2>2, <3>1 DEF RowsBy, OwnInv, RowsOwn, Backends
  <2>4. Target(p) = "sqlite"
    BY <2>1 DEF Target
  <2>5. QED
    BY <2>1, <2>3, <2>4, AckDurable
<1>8. CASE LiteCache(p)
  <2>1. /\ pc[p] = "layers" /\ pc' = [pc EXCEPT ![p] = "idle"] /\ item' = [item EXCEPT ![p] = None]
        /\ begun' = begun /\ Acknowledge(p, "sqlite")
    BY <1>8 DEF LiteCache, Goto
  <2>2. CASE row' = row
    BY <2>1, <2>2, AckDurable DEF RowsBy, Target
  <2>3. ASSUME NEW found \in {{}, Conflicting(p)},
               row' = [row EXCEPT !["sqlite"] = Updated(p, found)]
        PROVE  DurableInv'
    <3>1. row["sqlite"] \in OwnRow /\ MyRow(p) \in OwnRow
      BY <2>1, MineIsOwn DEF OwnInv, Inserted
    <3> DEFINE r == Updated(p, found)
    <3>2. r \in Row /\ r.value = row["sqlite"].value
      BY <3>1, LookedUp, UpdatedIsOwn DEF OwnRow
    <3>3. row' = [row EXCEPT !["sqlite"] = r]
      BY <2>3
    <3> HIDE DEF r
    <3>4. RowsBy(p)
      BY <3>1, <3>2, <3>3, MemoryConstants DEF RowsBy, OwnInv, RowsOwn, OwnRow, Backends
    <3>5. QED
      BY <2>1, <3>4, AckDurable DEF Target
  <2>4. QED
    BY <1>8, <2>2, <2>3 DEF LiteCache
<1>9. QED
  BY <1>1, <1>2, <1>3, <1>4, <1>5, <1>6, <1>7, <1>8 DEF Store

(* What is known of acknowledged stores is an invariant. *)
THEOREM DurableCorrect == Spec => []DurableInv
<1>1. OwnInv /\ DurableInv /\ [Next]_vars => DurableInv'
  <2> SUFFICES ASSUME OwnInv, DurableInv, [Next]_vars PROVE DurableInv'
    OBVIOUS
  <2> DEFINE Rest == UNCHANGED <<row, pc, item, begun, acked, overtaken>>
  <2>1. CASE Rest
    <3>1. \A p \in Processes : MyRow(p)' = MyRow(p) /\ Target(p)' = Target(p) /\ (Under(p)' <=> Under(p))
      BY <2>1 DEF MyRow, Target, Under
    <3>2. QED
      BY <2>1, <3>1 DEF DurableInv, Known, Asked, Apart, Written, Durable
  <2>2. CASE \E p \in Processes, l \in Layers : Archive(p, l) \/ \E to \in Layers : Move(p, l, to)
    BY <2>1, <2>2 DEF Archive, Move, histories
  <2>3. CASE UNCHANGED vars \/ PgSwitches
    BY <2>1, <2>3 DEF vars, PgSwitches, histories
  <2>4. CASE \E p \in Processes : Restart(p)
    BY <2>4, FailsDurable DEF Restart, histories
  <2>5. QED
    BY <2>2, <2>3, <2>4, CallDurable, StoreDurable DEF Next
<1>2. QED
  BY InitDurable, KeptWithUser, <1>1, PTL DEF Spec

(* Durable, of any instance: a store that returned True is not undone by one *)
(* that returned before it began, nor by what any cache still held.          *)
THEOREM NothingUndone == Spec => []Durable
<1>1. DurableInv => Durable
  BY DEF DurableInv
<1>2. QED
  BY DurableCorrect, <1>1, PTL

-----------------------------------------------------------------------------
\* What the other invariants do not say of the types.
MemoryTyped ==
    /\ pgUp \in BOOLEAN /\ restarts \in Nat /\ begun \in Nat /\ begun + restarts <= MaxEvents
    /\ item \in [Processes -> [row : Row, after : SUBSET Values] \cup {None}]

(* A step keeps the types of what is being stored, and the bound on events. *)
LEMMA StepTyped ==
    ASSUME OwnInv, DurableInv, MemoryTyped, [Next]_vars
    PROVE  MemoryTyped'
<1> USE DEF MemoryTyped
<1>1. ASSUME NEW p \in Processes, NEW w \in Writers, NEW sure \in BOOLEAN, Call(p, w, sure)
      PROVE  MemoryTyped'
  <2> DEFINE own == [user |-> w, value |-> [by |-> w, number |-> begun + 1], tags |-> w,
                     quotes |-> {}, sure |-> sure]
             b == IF pgUp THEN "pg" ELSE "sqlite"
  <2>1. /\ begun' = begun + 1 /\ begun + restarts < MaxEvents /\ UNCHANGED <<pgUp, restarts>>
        /\ item' = [item EXCEPT ![p] = [row |-> own, after |-> acked[b]]]
    BY <1>1 DEF Call
  <2>2. own \in Row
    BY DEF Row, Values
  <2>3. acked[b] \in SUBSET Values
    BY DEF DurableInv, Known, Backends
  <2> HIDE DEF own, b
  <2>4. item' \in [Processes -> [row : Row, after : SUBSET Values] \cup {None}]
    BY <2>1, <2>2, <2>3
  <2>5. QED
    BY <2>1, <2>4, MemoryConstants
<1>2. ASSUME NEW p \in Processes,
             item' = item \/ item' = [item EXCEPT ![p] = None],
             UNCHANGED <<pgUp, begun, restarts>>
      PROVE  MemoryTyped'
  BY <1>2
<1>3. ASSUME NEW p \in Processes, Store(p)
      PROVE  MemoryTyped'
  <2>1. CASE LiteCheck(p)
    <3>1. /\ pc[p] = "check" /\ UNCHANGED <<pgUp, begun, restarts>>
          /\ \/ item' = [item EXCEPT ![p] = None]
             \/ \E found \in {{}, Found(p)} :
                   item' = [item EXCEPT ![p] = [row |-> Quoting(p, found), after |-> @.after]]
      BY <2>1 DEF LiteCheck, Goto
    <3>2. item[p].after \in SUBSET Values
      BY <3>1 DEF DurableInv, Asked, Known, Under, Target, Backends
    <3>3. \A found \in {{}, Found(p)} : Quoting(p, found) \in Row
      BY <3>1, LookedUp, MineIsOwn, QuotingIsOwn DEF OwnInv, OwnRow
    <3>4. QED
      BY <1>2, <3>1, <3>2, <3>3
  <2>2. QED
    BY <1>2, <1>3, <2>1 DEF Store, PgUpsert, PgFailed, PgCache, LiteInsert, LiteUpgrade,
                            LiteCache, LiteFailed
<1>4. ASSUME NEW p \in Processes, Restart(p)
      PROVE  MemoryTyped'
  <2>1. /\ restarts' = restarts + 1 /\ begun + restarts < MaxEvents /\ UNCHANGED <<pgUp, begun>>
        /\ item' = [item EXCEPT ![p] = None]
    BY <1>4 DEF Restart
  <2>2. QED
    BY <2>1, MemoryConstants
<1>5. ASSUME NEW p \in Processes, NEW l \in Layers,
             Archive(p, l) \/ \E to \in Layers : Move(p, l, to)
      PROVE  MemoryTyped'
  BY <1>5 DEF Archive, Move
<1>6. CASE PgSwitches
  BY <1>6 DEF PgSwitches
<1>7. CASE UNCHANGED vars
  BY <1>7 DEF vars
<1>8. QED
  BY <1>1, <1>3, <1>4, <1>5, <1>6, <1>7 DEF Next

(* TypeOK of the memory, of any instance. *)
THEOREM MemoryTypeCorrect == Spec => []TypeOK
<1>1. Init => MemoryTyped
  BY MemoryConstants DEF Init, MemoryTyped
<1>2. OwnInv /\ DurableInv /\ MemoryTyped => TypeOK
  <2> SUFFICES ASSUME OwnInv, DurableInv, MemoryTyped PROVE TypeOK
    OBVIOUS
  <2>1. row \in [Backends -> Row \cup {None}]
    BY DEF OwnInv, RowsOwn, OwnRow
  <2>2. cache \in [Processes -> [Layers -> Entry \cup {None}]]
    BY DEF OwnInv, CachesOwn, OwnEntry
  <2>3. QED
    BY <2>1, <2>2 DEF TypeOK, MemoryTyped, OwnInv, StoresOwn, Stages, DurableInv, Known
<1>3. QED
  BY <1>1, <1>2, StepTyped, KeptWithUser, DurableCorrect, PTL DEF Spec
=============================================================================
