----------------------------- MODULE WriteGuard -----------------------------
(***************************************************************************)
(* The write guard of the knowledge store (learn/knowledge.py): every      *)
(* write to the JSON files that the API, the learner and the chat process  *)
(* share is wrapped in "with _FileWriteGuard()".  Entering the guard takes *)
(* first an exclusive flock on the file .lock, through one descriptor per  *)
(* process that is opened at the first use, then a threading.Lock of the   *)
(* process; leaving it releases the two in the opposite order.             *)
(*                                                                         *)
(* An flock belongs to an open file description, not to a thread: every    *)
(* thread that locks through a description that already holds the lock     *)
(* succeeds at once, and one LOCK_UN through it gives the lock up for all. *)
(* A description is named here by the thread that opened it.               *)
(***************************************************************************)
EXTENDS FiniteSets

CONSTANTS
  Process,        \* operating system processes that share the data directory
  Thread,         \* the threads of all of them
  Home,           \* Home[t] is the process thread t runs in
  NestedWriters,  \* threads whose critical section calls a guarded writer
  FlockMayFail,   \* TRUE: flock may raise OSError, which is logged and ignored
  None

ASSUME HomeAssumption == Home \in [Thread -> Process]
ASSUME NestedAssumption == NestedWriters \subseteq Thread
ASSUME FlockAssumption == FlockMayFail \in BOOLEAN
ASSUME NoneAssumption == None \notin Thread

VARIABLES
  at,        \* at[t]: where thread t is in the guard's code
  wanted,    \* wanted[t]: the description thread t passes to flock
  lockFd,    \* lockFd[p]: the module global _lock_fd of process p
  flock,     \* the description that holds the lock on the file, or None
  fileLock   \* fileLock[p]: the thread that holds _file_lock of p, or None

guardVars == <<at, wanted, lockFd, flock, fileLock>>

\* out: not in the guard; open: found _lock_fd None, about to os.open;
\* load: about to call flock; flock: blocked in flock; lock: blocked on
\* _file_lock; in: critical section; unflock: _file_lock released already;
\* reload, reflock, relock: the same three of an inner guard.
Place == {"out", "open", "load", "flock", "lock", "in", "unflock",
          "reload", "reflock", "relock"}

\* The places of a thread that is inside its outer guard's with block.
Inside == {"in", "reload", "reflock", "relock"}

TypeOK ==
  /\ at \in [Thread -> Place]
  /\ wanted \in [Thread -> Thread \cup {None}]
  /\ lockFd \in [Process -> Thread \cup {None}]
  /\ flock \in Thread \cup {None}
  /\ fileLock \in [Process -> Thread \cup {None}]

Init ==
  /\ at = [t \in Thread |-> "out"]
  /\ wanted = [t \in Thread |-> None]
  /\ lockFd = [p \in Process |-> None]
  /\ flock = None
  /\ fileLock = [p \in Process |-> None]

Move(t, from, to) ==
  /\ at[t] = from
  /\ at' = [at EXCEPT ![t] = to]

-----------------------------------------------------------------------------
(***************************************************************************)
(* _acquire_process_lock                                                   *)
(***************************************************************************)

\* __enter__: the test "if _lock_fd is None".
Enter(t) ==
  /\ Move(t, "out", IF lockFd[Home[t]] = None THEN "open" ELSE "load")
  /\ UNCHANGED <<wanted, lockFd, flock, fileLock>>

\* _lock_fd = os.open(...): another thread may have done so since the test.
OpenLockFile(t) ==
  /\ Move(t, "open", "load")
  /\ lockFd' = [lockFd EXCEPT ![Home[t]] = t]
  /\ UNCHANGED <<wanted, flock, fileLock>>

\* The argument of flock is evaluated before the call blocks.
CallFlock(t) ==
  /\ \/ Move(t, "load", "flock")
     \/ Move(t, "reload", "reflock")
  /\ wanted' = [wanted EXCEPT ![t] = lockFd[Home[t]]]
  /\ UNCHANGED <<lockFd, flock, fileLock>>

\* Mutant: a shared lock (LOCK_SH) is asked for, which is never refused.
GrantFlockShared(t) ==
  /\ \/ Move(t, "flock", "lock")
     \/ Move(t, "reflock", "relock")
  /\ flock' = wanted[t]
  /\ wanted' = [wanted EXCEPT ![t] = None]
  /\ UNCHANGED <<lockFd, fileLock>>

\* The kernel grants the lock to a description: at once if it holds it.
GrantFlock(t) ==
  /\ flock \in {None, wanted[t]}
  /\ \/ Move(t, "flock", "lock")
     \/ Move(t, "reflock", "relock")
  /\ flock' = wanted[t]
  /\ wanted' = [wanted EXCEPT ![t] = None]
  /\ UNCHANGED <<lockFd, fileLock>>

\* except (AttributeError, OSError): logged, and the guard goes on without it.
FailFlock(t) ==
  /\ FlockMayFail
  /\ Move(t, "flock", "lock")
  /\ wanted' = [wanted EXCEPT ![t] = None]
  /\ UNCHANGED <<lockFd, flock, fileLock>>

(***************************************************************************)
(* _file_lock.acquire(), the body, and __exit__                            *)
(***************************************************************************)

\* Mutant: acquire(blocking=False) whose result is not looked at.
TakeFileLockBlindly(t) ==
  /\ \/ Move(t, "lock", "in")
     \/ Move(t, "relock", "in")
  /\ fileLock' = [fileLock EXCEPT ![Home[t]] = t]
  /\ UNCHANGED <<wanted, lockFd, flock>>

\* threading.Lock is not reentrant: from "relock" this is never enabled
\* again, because the thread itself is the holder.
TakeFileLock(t) ==
  /\ fileLock[Home[t]] = None
  /\ \/ Move(t, "lock", "in")
     \/ Move(t, "relock", "in")
  /\ fileLock' = [fileLock EXCEPT ![Home[t]] = t]
  /\ UNCHANGED <<wanted, lockFd, flock>>

\* The critical section calls a function that enters the guard again.
EnterAgain(t) ==
  /\ Move(t, "in", "reload")
  /\ UNCHANGED <<wanted, lockFd, flock, fileLock>>

\* __exit__, first statement.
ReleaseFileLock(t) ==
  /\ Move(t, "in", "unflock")
  /\ fileLock' = [fileLock EXCEPT ![Home[t]] = None]
  /\ UNCHANGED <<wanted, lockFd, flock>>

\* Mutant: __exit__ forgets _release_process_lock.
UnflockForgotten(t) ==
  /\ Move(t, "unflock", "out")
  /\ UNCHANGED <<wanted, lockFd, flock, fileLock>>

\* __exit__, second statement: LOCK_UN on the descriptor the global holds now.
Unflock(t) ==
  /\ Move(t, "unflock", "out")
  /\ flock' = IF flock = lockFd[Home[t]] THEN None ELSE flock
  /\ UNCHANGED <<wanted, lockFd, fileLock>>

\* The way into the guard once __enter__ has been called, and the way out.
Acquire(t) ==
  \/ OpenLockFile(t) \/ CallFlock(t) \/ GrantFlock(t)
  \/ FailFlock(t) \/ TakeFileLock(t)

\* A thread with an empty critical section, or one that enters again.
GuardStep(t) ==
  \/ Enter(t) \/ Acquire(t)
  \/ t \in NestedWriters /\ EnterAgain(t)
  \/ t \notin NestedWriters /\ ReleaseFileLock(t)
  \/ Unflock(t)

Next == \E t \in Thread : GuardStep(t)

Spec == Init /\ [][Next]_guardVars

-----------------------------------------------------------------------------
(***************************************************************************)
(* Properties                                                              *)
(***************************************************************************)

\* "Thread lock (intra-process serialization)" (knowledge.py:44): two threads
\* of one process are never inside guarded sections together, whatever becomes
\* of the flock.
ThreadExclusion ==
  \A t, u \in Thread :
    t # u /\ Home[t] = Home[u] => ~(at[t] \in Inside /\ at[u] \in Inside)

\* "Process lock (cross-process serialization)" (knowledge.py:44): threads of
\* two processes are never inside guarded sections together.
ProcessExclusion ==
  \A t, u \in Thread :
    Home[t] # Home[u] => ~(at[t] \in Inside /\ at[u] \in Inside)

\* "releases after write operations complete" (knowledge.py:122): a process
\* none of whose threads is in the guard does not hold the file's lock, which
\* every other process would wait for.
NoOrphanedFlock ==
  \A p \in Process :
    (\A t \in Thread : Home[t] = p => at[t] = "out") =>
      (flock = None \/ Home[flock] # p)
=============================================================================
