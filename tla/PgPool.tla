------------------------------- MODULE PgPool -------------------------------
(***************************************************************************)
(* The connection pool of a process (storage/db.py): the global _POOL,     *)
(* made on demand under _POOL_LOCK, looked at by every get_pool(), dropped *)
(* when a look fails, and the two kinds of threads beside the requests:    *)
(* the retryer, which calls get_pool() for ever, and the health checks,    *)
(* one more of which starts with every pool that is made.                  *)
(*                                                                         *)
(* A pool of psycopg2 keeps one idle connection (minconn) and lends Size;  *)
(* its own methods are atomic.  Every connection dies when PostgreSQL      *)
(* does.  A pool no thread knows of any more is collected: its name is     *)
(* used again.  How long the threads sleep, and _POOL_READY, which decides *)
(* only that, are left out.                                                *)
(***************************************************************************)
EXTENDS Naturals, FiniteSets

CONSTANTS Requests,   \* threads that execute() or fetch
          Retryer,
          Checkers,   \* health checks; a pool made when all run starts none (bound)
          Pools,      \* names for pool, enough for _POOL and one for each thread
          Size,       \* maxconn
          NoPool, NoThread

Threads == Requests \cup {Retryer} \cup Checkers

ASSUME PoolConstants ==
    /\ Retryer \notin Requests \cup Checkers /\ Requests \cap Checkers = {}
    /\ NoPool \notin Pools /\ NoThread \notin Threads
    /\ Size \in Nat \ {0}

VARIABLES
    up,       \* whether PostgreSQL answers
    POOL,     \* _POOL
    lock,     \* who holds _POOL_LOCK
    running,  \* the threads beside the requests that have been started
    pool,     \* of each pool, its idle connection, how many it takes for lent, and
              \* how many of those nobody has any more
    at,       \* where each thread is
    mine,     \* the pool each thread goes on with
    conn,     \* the pool a thread's connection is of
    dead      \* threads whose connection died

poolVars == <<up, POOL, lock, running, pool, at, mine, conn, dead>>
hands == <<conn, dead>>

Closed == [idle |-> "none", used |-> 0, lost |-> 0]

Places == {"out", "look", "lock", "create", "tables", "ddl", "unlock",
           "borrow", "ping", "putback", "close", "return",
           "use", "run", "committed", "fetched", "check"}

PoolTypeOK ==
    /\ up \in BOOLEAN
    /\ POOL \in Pools \cup {NoPool}
    /\ lock \in Threads \cup {NoThread}
    /\ running \subseteq {Retryer} \cup Checkers
    /\ pool \in [Pools -> [idle : {"none", "live", "dead"}, used : Nat, lost : Nat]]
    /\ at \in [Threads -> Places]
    /\ mine \in [Threads -> Pools \cup {NoPool}]
    /\ conn \in [Threads -> Pools \cup {NoPool}]
    /\ dead \subseteq Threads

PoolInit ==
    /\ up \in BOOLEAN
    /\ POOL = NoPool /\ lock = NoThread /\ running = {}
    /\ pool = [p \in Pools |-> Closed]
    /\ at = [t \in Threads |-> "out"]
    /\ mine = [t \in Threads |-> NoPool]
    /\ conn = [t \in Threads |-> NoPool]
    /\ dead = {}

Go(t, from, to) == at[t] = from /\ at' = [at EXCEPT ![t] = to]

-----------------------------------------------------------------------------
(***************************************************************************)
(* psycopg2.pool.ThreadedConnectionPool                                    *)
(***************************************************************************)

KnownPool(p) == p = POOL \/ \E t \in Threads : p \in {mine[t], conn[t]}

\* A pool that no thread knows of any more is collected.
Collected(f) == [p \in Pools |-> IF KnownPool(p)' THEN f[p] ELSE Closed]

CanLend(p) == p # NoPool /\ (pool[p].idle # "none" \/ (pool[p].used < Size /\ up))

\* getconn: the idle connection, whatever its state, or a new one.
Lend(p, t) ==
    /\ conn' = [conn EXCEPT ![t] = p]
    /\ dead' = IF pool[p].idle = "dead" THEN dead \cup {t} ELSE dead \ {t}
    /\ pool' = [pool EXCEPT ![p].idle = "none", ![p].used = @ + 1]

\* The thread forgets its connection ...
Drop(t) == conn' = [conn EXCEPT ![t] = NoPool] /\ dead' = dead \ {t}

\* ... which its pool goes on taking for lent ...
Leave(t) == Drop(t) /\ pool' = Collected(pool)

\* ... or gives it back: putconn of one that is not known to be broken ...
TakeBack(t) ==
    /\ Drop(t)
    /\ pool' = Collected([pool EXCEPT ![conn[t]].used = @ - 1,
                  ![conn[t]].idle = IF @ # "none" THEN @ ELSE IF t \in dead THEN "dead" ELSE "live"])

\* ... and of one that is closed.
Discard(t) == Drop(t) /\ pool' = Collected([pool EXCEPT ![conn[t]].used = @ - 1])

\* Names no thread knows.
Fresh == {p \in Pools : ~KnownPool(p)}

-----------------------------------------------------------------------------
(***************************************************************************)
(* get_pool.  Every mention of _POOL reads the global anew.                *)
(***************************************************************************)
Look(t) ==
    /\ Go(t, "look", IF POOL = NoPool THEN "lock" ELSE "borrow")
    /\ UNCHANGED <<up, POOL, lock, running, pool, mine, hands>>

\* Mutant: _POOL is not looked at again under the lock.
LockOnly(t) ==
    /\ lock = NoThread /\ lock' = t
    /\ Go(t, "lock", "create")
    /\ UNCHANGED <<up, POOL, running, pool, mine, hands>>

Lock(t) ==
    /\ lock = NoThread /\ lock' = t
    /\ Go(t, "lock", IF POOL = NoPool THEN "create" ELSE "unlock")
    /\ UNCHANGED <<up, POOL, running, pool, mine, hands>>

\* _init_pool: the new pool is there for everyone before it has its tables.
Create(t) ==
    /\ up /\ Fresh # {}
    /\ Go(t, "create", "tables")
    /\ LET p == CHOOSE p \in Fresh : TRUE
       IN  /\ POOL' = p
           /\ pool' = [pool EXCEPT ![p].idle = "live"]
    /\ UNCHANGED <<up, lock, running, mine, hands>>

CreateFails(t) ==
    /\ ~up
    /\ Go(t, "create", "unlock")
    /\ UNCHANGED <<up, POOL, lock, running, pool, mine, hands>>

\* _init_tables: getconn of _POOL, which somebody else may have dropped by now.
Tables(t) ==
    /\ IF CanLend(POOL)
       THEN Go(t, "tables", "ddl") /\ Lend(POOL, t)
       ELSE Go(t, "tables", "unlock") /\ UNCHANGED <<pool, hands>>
    /\ UNCHANGED <<up, POOL, lock, running, mine>>

\* The statements, the commit and putconn to _POOL; then the health check is started.
TablesDone(t) ==
    /\ UNCHANGED <<up, POOL, lock, mine>>
    /\ Go(t, "ddl", "unlock")
    /\ IF POOL # conn[t] THEN Leave(t)
       ELSE IF t \in dead THEN Discard(t) ELSE TakeBack(t)
    /\ running' = IF POOL # conn[t] \/ t \in dead \/ Checkers \subseteq running THEN running
                  ELSE running \cup {CHOOSE c \in Checkers \ running : TRUE}

\* However _init_pool went: _start_pool_retryer, and the lock is released.
Unlock(t) ==
    /\ Go(t, "unlock", "return")
    /\ lock' = NoThread
    /\ running' = running \cup {Retryer}
    /\ UNCHANGED <<up, POOL, pool, mine, hands>>

\* The look at a pool that exists.
Borrow(t) ==
    /\ IF CanLend(POOL)
       THEN Go(t, "borrow", "ping") /\ Lend(POOL, t)
       ELSE Go(t, "borrow", "close") /\ UNCHANGED <<pool, hands>>
    /\ UNCHANGED <<up, POOL, lock, running, mine>>

\* Mutant: the connection that answered is not put back.
PingKeeps(t) ==
    /\ UNCHANGED <<up, POOL, lock, running, mine>>
    /\ IF t \in dead
       THEN Go(t, "ping", "close") /\ UNCHANGED <<pool, hands>>
       ELSE Go(t, "ping", "return") /\ Leave(t)

Ping(t) ==
    /\ Go(t, "ping", IF t \in dead THEN "close" ELSE "putback")
    /\ UNCHANGED <<up, POOL, lock, running, pool, mine, hands>>

\* putconn raises when _POOL is not the pool that lent the connection.
PutBack(t) ==
    /\ UNCHANGED <<up, POOL, lock, running, mine>>
    /\ IF conn[t] = POOL
       THEN Go(t, "putback", "return") /\ TakeBack(t)
       ELSE Go(t, "putback", "close") /\ UNCHANGED <<pool, hands>>

\* _close_pool: the pool of now, whichever failed; a pool has no close(), so that
\* its connections are left open.
Close(t) ==
    /\ UNCHANGED <<up, lock, running, mine>>
    /\ Go(t, "close", "out")
    /\ POOL' = NoPool
    /\ Leave(t)

Return(t) ==
    /\ Go(t, "return", IF POOL = NoPool \/ t = Retryer THEN "out" ELSE "use")
    /\ mine' = IF t = Retryer THEN mine ELSE [mine EXCEPT ![t] = POOL]
    /\ UNCHANGED <<up, POOL, lock, running, pool, hands>>

GetPool(t) ==
    \/ Look(t) \/ Lock(t) \/ Create(t) \/ CreateFails(t) \/ Tables(t) \/ TablesDone(t)
    \/ Unlock(t) \/ Borrow(t) \/ Ping(t) \/ PutBack(t) \/ Close(t) \/ Return(t)

-----------------------------------------------------------------------------
(***************************************************************************)
(* The threads that call it.                                               *)
(***************************************************************************)
Ask(r) ==
    /\ Go(r, "out", "look")
    /\ UNCHANGED <<up, POOL, lock, running, pool, mine, hands>>

\* execute, fetch_one, fetch_all, fetch_dict, db_conn: a connection of their own ...
UseBorrows(r) ==
    /\ UNCHANGED <<up, POOL, lock, running>>
    /\ mine' = [mine EXCEPT ![r] = NoPool]
    /\ IF CanLend(mine[r])
       THEN Go(r, "use", "run") /\ Lend(mine[r], r)
       ELSE Go(r, "use", "out") /\ UNCHANGED hands /\ pool' = Collected(pool)

\* Mutant: a statement that fails leaves the connection where it is.
UseRunsNoFinally(r) ==
    /\ UNCHANGED <<up, POOL, lock, running, mine>>
    /\ IF r \in dead
       THEN Go(r, "run", "out") /\ Leave(r)
       ELSE /\ Go(r, "run", "committed") \/ Go(r, "run", "fetched")
            /\ UNCHANGED <<pool, hands>>

\* ... the statement, which a write commits, and a fetch leaves in a transaction ...
UseRuns(r) ==
    /\ UNCHANGED <<up, POOL, lock, running, mine>>
    /\ IF r \in dead
       THEN Go(r, "run", "out") /\ Discard(r)
       ELSE /\ Go(r, "run", "committed") \/ Go(r, "run", "fetched")
            /\ UNCHANGED <<pool, hands>>

\* ... and putconn, whose rollback of that transaction raises if the server is gone.
UseReturns(r) ==
    /\ UNCHANGED <<up, POOL, lock, running, mine>>
    /\ \/ Go(r, "committed", "out") /\ TakeBack(r)
       \/ Go(r, "fetched", "out") /\ r \notin dead /\ TakeBack(r)
       \/ /\ Go(r, "fetched", "out") /\ r \in dead
          /\ Drop(r) /\ pool' = Collected([pool EXCEPT ![conn[r]].lost = @ + 1])

Use(r) == UseBorrows(r) \/ UseRuns(r) \/ UseReturns(r)

\* Mutant: the retryer looks only at a pool it takes for healthy.
RetryReady ==
    /\ Retryer \in running /\ POOL # NoPool
    /\ Go(Retryer, "out", "look")
    /\ UNCHANGED <<up, POOL, lock, running, pool, mine, hands>>

Retry ==
    /\ Retryer \in running
    /\ Go(Retryer, "out", "look")
    /\ UNCHANGED <<up, POOL, lock, running, pool, mine, hands>>

\* _check: it keeps the pool it has read, and closes a connection that fails.
CheckBorrows(c) ==
    /\ c \in running /\ CanLend(POOL)
    /\ Go(c, "out", "check")
    /\ Lend(POOL, c)
    /\ UNCHANGED <<up, POOL, lock, running, mine>>

CheckReturns(c) ==
    /\ UNCHANGED <<up, POOL, lock, running, mine>>
    /\ Go(c, "check", "out")
    /\ IF c \in dead THEN Discard(c) ELSE TakeBack(c)

(***************************************************************************)
(* PostgreSQL goes, with every connection, and comes back.                 *)
(***************************************************************************)
PgFails ==
    /\ up /\ up' = FALSE
    /\ pool' = [p \in Pools |->
                  [pool[p] EXCEPT !.idle = IF @ = "live" THEN "dead" ELSE @]]
    /\ dead' = {t \in Threads : conn[t] # NoPool}
    /\ UNCHANGED <<POOL, lock, running, at, mine, conn>>

PgReturns ==
    /\ ~up /\ up' = TRUE
    /\ UNCHANGED <<POOL, lock, running, pool, at, mine, hands>>

PoolNext ==
    \/ \E t \in Requests \cup {Retryer} : GetPool(t)
    \/ \E r \in Requests : Ask(r) \/ Use(r)
    \/ Retry
    \/ \E c \in Checkers : CheckBorrows(c) \/ CheckReturns(c)
    \/ PgFails \/ PgReturns

PoolSpec == PoolInit /\ [][PoolNext]_poolVars

\* Threads run, the retryer and the checks wake again and again.
\* Nothing makes anyone ask.
PoolFairSpec ==
    /\ PoolSpec
    /\ \A t \in Requests \cup {Retryer} : WF_poolVars(GetPool(t))
    /\ \A r \in Requests : WF_poolVars(Use(r))
    /\ WF_poolVars(Retry)
    /\ \A c \in Checkers : WF_poolVars(CheckBorrows(c)) /\ WF_poolVars(CheckReturns(c))

-----------------------------------------------------------------------------
(* A pool that somebody may be using is dropped, never replaced: two threads *)
(* that find none make one between them (db.py, get_pool).                   *)
NeverReplaced == [][POOL' = POOL \/ POOL = NoPool \/ POOL' = NoPool]_poolVars

(* What the pool in use takes for lent is in a thread's hands, whatever      *)
(* failed on the way, but for fetches whose server died between statement    *)
(* and rollback (db.py, execute and its neighbours).                         *)
SlotsAccounted ==
    POOL # NoPool =>
        pool[POOL].used = pool[POOL].lost + Cardinality({t \in Threads : conn[t] = POOL})

(* Once PostgreSQL stays up the process keeps coming back to a pool that can  *)
(* serve, whatever requests do with it, and though nobody asks: "retry PG     *)
(* connection every 30s until healthy" (db.py:50).                            *)
Recovers == <>[]up /\ <>(Retryer \in running) => []<>CanLend(POOL)

(* ... and when no request is under way it keeps that pool: the looks of its *)
(* own threads neither use it up nor drop it (db.py, get_pool and            *)
(* _start_pool_health_check).                                                *)
Settles ==
    <>[](up /\ Retryer \in running /\ \A r \in Requests : at[r] = "out")
        => <>[](POOL # NoPool)
=============================================================================
