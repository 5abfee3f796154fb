------------------------ MODULE KnowledgeIndex_proofs ------------------------
(***************************************************************************)
(* What the write guard and the index under it guarantee for every number  *)
(* of processes, threads, entries, topics and calls.  The guard: exclusion *)
(* between the threads of one process.  The index: its counters agree with *)
(* it whatever writers do to each other, and with one writing thread per   *)
(* process no append is lost and every append is atomic.                   *)
(***************************************************************************)
EXTENDS KnowledgeIndex, FiniteSetTheorems, TLAPS

(***************************************************************************)
(* The guard                                                               *)
(***************************************************************************)

\* What a thread can do in the guard's code, as a writer of any kind.
GuardMove(t) ==
  Enter(t) \/ Acquire(t) \/ EnterAgain(t) \/ ReleaseFileLock(t) \/ Unflock(t)

\* A move keeps TypeOK.
LEMMA GuardTyped ==
  ASSUME TypeOK, NEW t \in Thread, GuardMove(t)
  PROVE  TypeOK'
<1> USE HomeAssumption DEF TypeOK, Place, Move
<1>1. CASE Enter(t)            BY <1>1 DEF Enter
<1>2. CASE OpenLockFile(t)     BY <1>2 DEF OpenLockFile
<1>3. CASE CallFlock(t)        BY <1>3 DEF CallFlock
<1>4. CASE GrantFlock(t)       BY <1>4 DEF GrantFlock
<1>5. CASE FailFlock(t)        BY <1>5 DEF FailFlock
<1>6. CASE TakeFileLock(t)     BY <1>6 DEF TakeFileLock
<1>7. CASE EnterAgain(t)       BY <1>7 DEF EnterAgain
<1>8. CASE ReleaseFileLock(t)  BY <1>8 DEF ReleaseFileLock
<1>9. CASE Unflock(t)          BY <1>9 DEF Unflock
<1>10. QED BY <1>1, <1>2, <1>3, <1>4, <1>5, <1>6, <1>7, <1>8, <1>9
          DEF GuardMove, Acquire

\* The strengthening of ThreadExclusion that is inductive: a thread that is
\* inside is the holder of its process's _file_lock.
FileLockOwned == \A t \in Thread : at[t] \in Inside => fileLock[Home[t]] = t

\* A move keeps FileLockOwned.  The only ways in are through TakeFileLock, and
\* the only release is by the holder.
LEMMA FileLockOwnedStep ==
  ASSUME TypeOK, FileLockOwned, NEW t \in Thread, GuardMove(t)
  PROVE  FileLockOwned'
<1> USE HomeAssumption, NoneAssumption DEF TypeOK, Place, Inside, Move, FileLockOwned
<1>1. CASE Enter(t)            BY <1>1 DEF Enter
<1>2. CASE OpenLockFile(t)     BY <1>2 DEF OpenLockFile
<1>3. CASE CallFlock(t)        BY <1>3 DEF CallFlock
<1>4. CASE GrantFlock(t)       BY <1>4 DEF GrantFlock
<1>5. CASE FailFlock(t)        BY <1>5 DEF FailFlock
<1>6. CASE TakeFileLock(t)     BY <1>6 DEF TakeFileLock
<1>7. CASE EnterAgain(t)       BY <1>7 DEF EnterAgain
<1>8. CASE ReleaseFileLock(t)  BY <1>8 DEF ReleaseFileLock
<1>9. CASE Unflock(t)          BY <1>9 DEF Unflock
<1>10. QED BY <1>1, <1>2, <1>3, <1>4, <1>5, <1>6, <1>7, <1>8, <1>9
          DEF GuardMove, Acquire

\* The deployment the process lock is sound for: one writing thread in each
\* process, and an flock that does not fail.
OneThreadEach ==
  /\ \A t, u \in Thread : Home[t] = Home[u] => t = u
  /\ ~FlockMayFail

\* Inductive under OneThreadEach: the descriptor of a process is its thread's,
\* the thread passes it to flock, and from the grant to the LOCK_UN it holds.
FlockOwned ==
  /\ \A t \in Thread : lockFd[Home[t]] \in {None, t}
  /\ \A t \in Thread : at[t] \notin {"out", "open"} => lockFd[Home[t]] = t
  /\ \A t \in Thread : at[t] \in {"flock", "reflock"} => wanted[t] = t
  /\ \A t \in Thread : at[t] \in Inside \cup {"lock", "unflock"} <=> flock = t

\* A move keeps FlockOwned.
LEMMA FlockOwnedStep ==
  ASSUME OneThreadEach, TypeOK, FlockOwned, NEW t \in Thread, GuardMove(t)
  PROVE  FlockOwned'
<1> USE HomeAssumption, NoneAssumption
    DEF OneThreadEach, TypeOK, Place, Inside, Move, FlockOwned
<1>1. CASE Enter(t)            BY <1>1 DEF Enter
<1>2. CASE OpenLockFile(t)     BY <1>2 DEF OpenLockFile
<1>3. CASE CallFlock(t)        BY <1>3 DEF CallFlock
<1>4. CASE GrantFlock(t)       BY <1>4 DEF GrantFlock
<1>5. CASE FailFlock(t)        BY <1>5 DEF FailFlock
<1>6. CASE TakeFileLock(t)     BY <1>6 DEF TakeFileLock
<1>7. CASE EnterAgain(t)       BY <1>7 DEF EnterAgain
<1>8. CASE ReleaseFileLock(t)  BY <1>8 DEF ReleaseFileLock
<1>9. CASE Unflock(t)          BY <1>9 DEF Unflock
<1>10. QED BY <1>1, <1>2, <1>3, <1>4, <1>5, <1>6, <1>7, <1>8, <1>9
          DEF GuardMove, Acquire

\* What holds at the start, and of threads that do nothing but enter and leave.
LEMMA GuardInit == Init => TypeOK /\ FileLockOwned /\ FlockOwned
  BY HomeAssumption, NoneAssumption
     DEF Init, TypeOK, Place, FileLockOwned, FlockOwned, Inside

LEMMA GuardStepMoves == ASSUME NEW t \in Thread, GuardStep(t) PROVE GuardMove(t)
  BY DEF GuardStep, GuardMove

\* TypeOK is an invariant of the guard.
THEOREM GuardTypeCorrect == Spec => []TypeOK
<1>1. TypeOK /\ [Next]_guardVars => TypeOK'
  BY GuardStepMoves, GuardTyped DEF Next, TypeOK, guardVars
<1>2. QED BY <1>1, GuardInit, PTL DEF Spec

\* Whatever the flock does (fails, is dropped by another thread, is orphaned),
\* two threads of one process are never inside guarded sections together.
THEOREM ThreadsExcluded == Spec => []ThreadExclusion
<1>1. TypeOK /\ FileLockOwned /\ [Next]_guardVars => FileLockOwned'
  BY GuardStepMoves, FileLockOwnedStep DEF Next, FileLockOwned, guardVars
<1>2. FileLockOwned => ThreadExclusion
  BY DEF FileLockOwned, ThreadExclusion
<1>3. QED BY GuardTypeCorrect, GuardInit, <1>1, <1>2, PTL DEF Spec

-----------------------------------------------------------------------------
(***************************************************************************)
(* The calls under the guard                                               *)
(***************************************************************************)

\* Where a thread's call is, and what it has got so far.
CallFits(t) ==
  LET c == call[t]
  IN  /\ step[t] = "idle" <=> c.op = "none"
      /\ c.op # "none" => c.id \in Id /\ c.attempt \in {1, 2}
      /\ step[t] = "guard" =>
           /\ at[t] \in {"out", "open", "load", "flock", "lock", "in"}
           /\ c.result = "none"
      /\ step[t] \in {"truncate", "fill", "orphan"} =>
           /\ at[t] = "in" /\ c.op \in {"append", "refresh"} /\ c.result = "none"
           /\ c.op = "append" => c.id \notin snap[t].ids
      /\ step[t] = "stuck" => at[t] \in {"reload", "reflock", "relock"} /\ c.op = "delete"
      /\ step[t] = "leave" => at[t] \in {"in", "unflock"}
      /\ step[t] \in {"idle", "verify", "return"} => at[t] = "out"
      /\ step[t] = "verify" => c.op = "append" /\ c.result = "none"
      /\ c.result \in {"True", "False"} => c.op = "append"
      /\ c.result # "none" => step[t] \in {"leave", "return"}

CallInv ==
  /\ StoreTypeOK /\ FileLockOwned
  /\ \A t \in Thread : CallFits(t)
  /\ gcRuns = 0 => gc.pc = "idle"

\* An index without bare timestamps counts what it lists.
Counts(ix) ==
  /\ IsFiniteSet(ix.ids)
  /\ \A x \in Topic :
       /\ ix.topics[x].shape # "stamp"
       /\ ix.topics[x].count = Cardinality({i \in ix.ids : TopicOf[i] = x})

CountInv == gcRuns = 0 => Counts(index) /\ \A t \in Thread : Counts(snap[t])

\* The append of thread t has been written.
Written(t) ==
  /\ call[t].op = "append"
  /\ call[t].attempt = 2 \/ step[t] \in {"leave", "verify", "return"}

\* Nobody replaced the file, or died while filling it.
Untouched == ~tornByCrash /\ gcRuns = 0

AppendInv ==
  /\ FlockOwned
  /\ Untouched =>
       /\ torn => \E t \in Thread : step[t] = "fill"
       /\ \A t \in Thread : step[t] # "orphan"
       /\ \A t \in Thread : step[t] \in {"truncate", "fill"} => snap[t] = index
       /\ \A t \in Thread : Written(t) => call[t].id \in index.ids
       /\ promised \subseteq index.ids

-----------------------------------------------------------------------------
(***************************************************************************)
(* Types, and where each call is                                           *)
(***************************************************************************)

\* The steps that leave the guard's variables alone, and those that are a move.
LEMMA CallMoves ==
  ASSUME NEW t \in Thread, CallStep(t)
  PROVE  GuardMove(t) \/ UNCHANGED guardVars
<1>1. CASE EnterGuard(t)     BY <1>1 DEF EnterGuard, GuardMove
<1>2. CASE FindPresent(t)    BY <1>2 DEF FindPresent
<1>3. CASE ReadToWrite(t)    BY <1>3 DEF ReadToWrite
<1>4. CASE DeleteRaises(t)   BY <1>4 DEF DeleteRaises
<1>5. CASE DeleteWrites(t)   BY <1>5 DEF DeleteWrites, GuardMove
<1>6. CASE Truncate(t)       BY <1>6 DEF Truncate
<1>7. CASE Fill(t)           BY <1>7 DEF Fill
<1>8. CASE FillOrphan(t)     BY <1>8 DEF FillOrphan
<1>9. CASE LeaveFileLock(t)  BY <1>9 DEF LeaveFileLock, GuardMove
<1>10. CASE LeaveFlock(t)    BY <1>10 DEF LeaveFlock, GuardMove
<1>11. CASE VerifyPresent(t) BY <1>11 DEF VerifyPresent
<1>12. CASE VerifyLost(t)    BY <1>12 DEF VerifyLost
<1>13. CASE Return(t)        BY <1>13 DEF Return
<1>14. QED BY <1>1, <1>2, <1>3, <1>4, <1>5, <1>6, <1>7, <1>8, <1>9, <1>10,
              <1>11, <1>12, <1>13 DEF CallStep

LEMMA BeginsQuiet ==
  ASSUME NEW t \in Thread, NEW id \in Id,
         CallAppend(t, id) \/ CallRefresh(t, id) \/ CallDelete(t, id)
  PROVE  UNCHANGED guardVars
  BY DEF CallAppend, CallRefresh, CallDelete

LEMMA GcQuiet ==
  ASSUME \/ GcLoadEntries \/ GcReadIndex \/ GcRebuild
         \/ \E victims \in SUBSET gc.files : GcPrune(victims)
  PROVE  UNCHANGED guardVars
  BY DEF GcLoadEntries, GcReadIndex, GcRebuild, GcPrune

\* A death keeps the guard's types, and who owns which lock.
LEMMA CrashGuard ==
  ASSUME TypeOK, NEW p \in Process, Crash(p)
  PROVE  /\ TypeOK'
         /\ FileLockOwned => FileLockOwned'
         /\ FlockOwned => FlockOwned'
<1> USE HomeAssumption, NoneAssumption DEF Crash
<1>1. TypeOK'
  BY DEF TypeOK, Place
<1>2. FileLockOwned => FileLockOwned'
  BY DEF TypeOK, FileLockOwned, Inside
<1>3. FlockOwned => FlockOwned'
  BY DEF TypeOK, FlockOwned, Inside
<1>4. QED BY <1>1, <1>2, <1>3

\* So of all steps.
LEMMA GuardKept ==
  ASSUME TypeOK, StoreNext
  PROVE  /\ TypeOK'
         /\ FileLockOwned => FileLockOwned'
         /\ OneThreadEach /\ FlockOwned => FlockOwned'
<1>1. CASE UNCHANGED guardVars
  BY <1>1 DEF guardVars, TypeOK, FileLockOwned, FlockOwned
<1>2. ASSUME NEW t \in Thread, GuardMove(t)
      PROVE  /\ TypeOK'
             /\ FileLockOwned => FileLockOwned'
             /\ OneThreadEach /\ FlockOwned => FlockOwned'
  BY <1>2, GuardTyped, FileLockOwnedStep, FlockOwnedStep
<1>3. ASSUME NEW p \in Process, Crash(p)
      PROVE  /\ TypeOK'
             /\ FileLockOwned => FileLockOwned'
             /\ OneThreadEach /\ FlockOwned => FlockOwned'
  BY <1>3, CrashGuard
<1>4. QED BY <1>1, <1>2, <1>3, CallMoves, BeginsQuiet, GcQuiet DEF StoreNext

\* What is read and what is written is an index.
LEMMA IndexTyped ==
  ASSUME StoreTypeOK
  PROVE  /\ Empty \in Index /\ ReadIndex \in Index
         /\ \A t \in Thread :
              call[t].id \in Id => Updated(call[t], snap[t]) \in Index
<1>1. Empty \in Index
  BY DEF Empty, Index, Meta, Bare
<1>2. ReadIndex \in Index
  BY <1>1 DEF ReadIndex, StoreTypeOK
<1>3. ASSUME NEW t \in Thread, call[t].id \in Id
      PROVE  Updated(call[t], snap[t]) \in Index
  <2>1. snap[t] \in Index
    BY DEF StoreTypeOK
  <2>2. snap[t].ids \subseteq Id /\ snap[t].topics \in [Topic -> Meta]
    BY <2>1 DEF Index
  <2>3. \A op : \A m \in Meta : Counted(m, op) \in Meta
    BY DEF Counted, Meta
  <2>4. [snap[t].topics EXCEPT ![TopicOf[call[t].id]] = Counted(@, call[t].op)]
          \in [Topic -> Meta]
    BY <2>2, <2>3
  <2>5. QED BY <1>3, <2>2, <2>4 DEF Updated, Index
<1>4. QED BY <1>1, <1>2, <1>3

\* A call begins.
LEMMA CallInvBegin ==
  ASSUME CallInv, NEW t \in Thread, NEW id \in Id,
         CallAppend(t, id) \/ CallRefresh(t, id) \/ CallDelete(t, id)
  PROVE  CallInv'
<1> USE DEF CallInv
<1>1. TypeOK' /\ FileLockOwned' /\ UNCHANGED guardVars
  BY BeginsQuiet DEF guardVars, TypeOK, FileLockOwned, StoreTypeOK
<1>2. PICK op \in {"append", "refresh", "delete"} :
        /\ Begin(t, op, id)
        /\ UNCHANGED <<index, torn, snap, gc, gcRuns, crashes, tornByCrash>>
  BY DEF CallAppend, CallRefresh, CallDelete, others, disk
<1>3. files' \subseteq Id /\ promised' \subseteq Id
  BY DEF CallAppend, CallRefresh, CallDelete, others, disk, StoreTypeOK
<1>4. StoreTypeOK'
  <2>1. calls' \in [Thread -> 0 .. MaxCalls]
    BY <1>2, BoundAssumption DEF Begin, StoreTypeOK
  <2>2. QED
    BY <1>1, <1>2, <1>3, <2>1 DEF Begin, Goto, StoreTypeOK, Steps
<1>5. ASSUME NEW u \in Thread PROVE CallFits(u)'
  BY <1>1, <1>2 DEF Begin, Goto, StoreTypeOK, CallFits, guardVars
<1>6. QED BY <1>1, <1>2, <1>4, <1>5

\* A step of a call.  Only its own thread's call and place change.
LEMMA CallInvStep ==
  ASSUME CallInv, NEW t \in Thread, CallStep(t)
  PROVE  CallInv'
<1> USE DEF CallInv
<1>1. TypeOK' /\ FileLockOwned'
  BY GuardKept DEF StoreTypeOK, StoreNext
<1>2. ReadIndex \in Index /\ Empty \in Index
  BY IndexTyped
<1>3. CASE EnterGuard(t)
  <2>1. UNCHANGED storeVars
    BY <1>3 DEF EnterGuard
  <2>2. StoreTypeOK'
    BY <1>1, <2>1 DEF storeVars, StoreTypeOK
  <2>3. ASSUME NEW u \in Thread PROVE CallFits(u)'
    <3>1. CASE u # t
      <4>1. at'[u] = at[u]
        BY <1>3, <3>1 DEF EnterGuard, Enter, Acquire, OpenLockFile, CallFlock,
                          GrantFlock, FailFlock, TakeFileLock, Move, StoreTypeOK, TypeOK
      <4>2. QED BY <2>1, <4>1 DEF CallFits, storeVars
    <3>2. CASE u = t /\ step[t] = "guard"
      <4>1. at'[t] \in {"out", "open", "load", "flock", "lock", "in"}
        BY <1>3, <3>2 DEF EnterGuard, Enter, Acquire, OpenLockFile, CallFlock,
                          GrantFlock, FailFlock, TakeFileLock, Move, StoreTypeOK,
                          TypeOK, CallFits
      <4>2. QED BY <2>1, <3>2, <4>1 DEF CallFits, storeVars
    <3>3. CASE u = t /\ step[t] = "stuck"
      <4>1. Acquire(t) /\ fileLock[Home[t]] # None
        BY <1>3, <3>3, NoneAssumption
           DEF EnterGuard, FileLockOwned, CallFits, Inside
      <4>2. at'[t] \in {"reload", "reflock", "relock"}
        BY <3>3, <4>1 DEF Acquire, OpenLockFile, CallFlock, GrantFlock, FailFlock,
                          TakeFileLock, Move, StoreTypeOK, TypeOK, CallFits
      <4>3. QED BY <2>1, <3>3, <4>2 DEF CallFits, storeVars
    <3>4. QED BY <1>3, <3>1, <3>2, <3>3 DEF EnterGuard
  <2>4. QED BY <1>1, <2>1, <2>2, <2>3 DEF storeVars
<1>4. CASE FindPresent(t)
  <2>1. StoreTypeOK'
    BY <1>1, <1>2, IndexTyped, <1>4
       DEF FindPresent, Goto, StoreTypeOK, Steps, disk, caller, others
  <2>2. ASSUME NEW u \in Thread PROVE CallFits(u)'
    BY <1>4 DEF FindPresent, Reading, Goto, CallFits, StoreTypeOK, TypeOK,
                  guardVars, disk, caller, others
  <2>3. QED BY <1>1, <1>4, <2>1, <2>2 DEF FindPresent, others
<1>5. CASE ReadToWrite(t)
  <2>1. StoreTypeOK'
    BY <1>1, <1>2, IndexTyped, <1>5
       DEF ReadToWrite, Goto, StoreTypeOK, Steps, disk, caller, others
  <2>2. ASSUME NEW u \in Thread PROVE CallFits(u)'
    BY <1>5 DEF ReadToWrite, Reading, Goto, CallFits, StoreTypeOK, TypeOK,
                  guardVars, disk, caller, others
  <2>3. QED BY <1>1, <1>5, <2>1, <2>2 DEF ReadToWrite, others
<1>6. CASE DeleteRaises(t)
  <2>1. StoreTypeOK'
    BY <1>1, <1>2, IndexTyped, <1>6
       DEF DeleteRaises, Goto, StoreTypeOK, Steps, disk, caller, others
  <2>2. ASSUME NEW u \in Thread PROVE CallFits(u)'
    BY <1>6 DEF DeleteRaises, Reading, Goto, CallFits, StoreTypeOK, TypeOK,
                  guardVars, disk, caller, others
  <2>3. QED BY <1>1, <1>6, <2>1, <2>2 DEF DeleteRaises, others
<1>7. CASE DeleteWrites(t)
  <2>1. StoreTypeOK'
    BY <1>1, <1>2, IndexTyped, <1>7
       DEF DeleteWrites, Goto, StoreTypeOK, Steps, disk, caller, others
  <2>2. ASSUME NEW u \in Thread PROVE CallFits(u)'
    BY <1>7 DEF DeleteWrites, Reading, EnterAgain, Move, Goto, CallFits, StoreTypeOK, TypeOK,
                  guardVars, disk, caller, others
  <2>3. QED BY <1>1, <1>7, <2>1, <2>2 DEF DeleteWrites, others
<1>8. CASE Truncate(t)
  <2>1. StoreTypeOK'
    BY <1>1, <1>2, IndexTyped, <1>8
       DEF Truncate, Goto, StoreTypeOK, Steps, disk, caller, others
  <2>2. ASSUME NEW u \in Thread PROVE CallFits(u)'
    BY <1>8 DEF Truncate, Goto, CallFits, StoreTypeOK, TypeOK,
                  guardVars, disk, caller, others
  <2>3. QED BY <1>1, <1>8, <2>1, <2>2 DEF Truncate, others
<1>9. CASE Fill(t)
  <2>1. StoreTypeOK'
    BY <1>1, <1>2, IndexTyped, <1>9
       DEF Fill, Goto, StoreTypeOK, Steps, disk, caller, others, CallFits
  <2>2. ASSUME NEW u \in Thread PROVE CallFits(u)'
    BY <1>9 DEF Fill, Goto, CallFits, StoreTypeOK, TypeOK,
                  guardVars, disk, caller, others
  <2>3. QED BY <1>1, <1>9, <2>1, <2>2 DEF Fill, others
<1>10. CASE FillOrphan(t)
  <2>1. StoreTypeOK'
    BY <1>1, <1>2, IndexTyped, <1>10
       DEF FillOrphan, Goto, StoreTypeOK, Steps, disk, caller, others
  <2>2. ASSUME NEW u \in Thread PROVE CallFits(u)'
    BY <1>10 DEF FillOrphan, Goto, CallFits, StoreTypeOK, TypeOK,
                  guardVars, disk, caller, others
  <2>3. QED BY <1>1, <1>10, <2>1, <2>2 DEF FillOrphan, others
<1>11. CASE LeaveFileLock(t)
  <2>1. StoreTypeOK'
    BY <1>1, <1>2, IndexTyped, <1>11
       DEF LeaveFileLock, Goto, StoreTypeOK, Steps, disk, caller, others, storeVars
  <2>2. ASSUME NEW u \in Thread PROVE CallFits(u)'
    BY <1>11 DEF LeaveFileLock, ReleaseFileLock, Move, storeVars, Goto, CallFits, StoreTypeOK, TypeOK,
                  guardVars, disk, caller, others
  <2>3. QED BY <1>1, <1>11, <2>1, <2>2 DEF LeaveFileLock, others, storeVars
<1>12. CASE LeaveFlock(t)
  <2>1. StoreTypeOK'
    BY <1>1, <1>2, IndexTyped, <1>12
       DEF LeaveFlock, Goto, StoreTypeOK, Steps, disk, caller, others
  <2>2. ASSUME NEW u \in Thread PROVE CallFits(u)'
    BY <1>12 DEF LeaveFlock, Unflock, Move, Goto, CallFits, StoreTypeOK, TypeOK,
                  guardVars, disk, caller, others
  <2>3. QED BY <1>1, <1>12, <2>1, <2>2 DEF LeaveFlock, others
<1>13. CASE VerifyPresent(t)
  <2>1. StoreTypeOK'
    <3>1. call' \in [Thread -> [op : {"none", "append", "refresh", "delete"},
                               id : Id \cup {None}, attempt : 0 .. 2,
                               result : {"none", "True", "False", "error"}]]
      BY <1>13 DEF VerifyPresent, StoreTypeOK
    <3>2. step' \in [Thread -> Steps]
      BY <1>13 DEF VerifyPresent, Goto, StoreTypeOK, Steps
    <3>3. QED
      BY <1>1, <1>13, <3>1, <3>2 DEF VerifyPresent, StoreTypeOK, disk, others
  <2>2. ASSUME NEW u \in Thread PROVE CallFits(u)'
    BY <1>13 DEF VerifyPresent, Goto, CallFits, StoreTypeOK, TypeOK,
                  guardVars, disk, caller, others
  <2>3. QED BY <1>1, <1>13, <2>1, <2>2 DEF VerifyPresent, others
<1>14. CASE VerifyLost(t)
  <2>1. StoreTypeOK'
    BY <1>1, <1>2, IndexTyped, <1>14
       DEF VerifyLost, Goto, StoreTypeOK, Steps, disk, caller, others
  <2>2. ASSUME NEW u \in Thread PROVE CallFits(u)'
    BY <1>14 DEF VerifyLost, Goto, CallFits, StoreTypeOK, TypeOK,
                  guardVars, disk, caller, others
  <2>3. QED BY <1>1, <1>14, <2>1, <2>2 DEF VerifyLost, others
<1>15. CASE Return(t)
  <2>1. StoreTypeOK'
    <3>1. call' \in [Thread -> [op : {"none", "append", "refresh", "delete"},
                               id : Id \cup {None}, attempt : 0 .. 2,
                               result : {"none", "True", "False", "error"}]]
      BY <1>15 DEF Return, NoCall, StoreTypeOK
    <3>2. step' \in [Thread -> Steps] /\ snap' \in [Thread -> Index]
      BY <1>2, <1>15 DEF Return, Goto, StoreTypeOK, Steps
    <3>3. promised' \subseteq Id
      BY <1>15 DEF Return, StoreTypeOK
    <3>4. QED
      BY <1>1, <1>15, <3>1, <3>2, <3>3 DEF Return, StoreTypeOK, disk
  <2>2. ASSUME NEW u \in Thread PROVE CallFits(u)'
    BY <1>15 DEF Return, NoCall, Goto, CallFits, StoreTypeOK, TypeOK,
                  guardVars, disk
  <2>3. QED BY <1>1, <1>15, <2>1, <2>2 DEF Return, others
<1>16. QED BY <1>3, <1>4, <1>5, <1>6, <1>7, <1>8, <1>9, <1>10, <1>11, <1>12, <1>13, <1>14, <1>15 DEF CallStep

\* kb_gc and a death: what they leave of a call fits too.
LEMMA CallInvGc ==
  ASSUME CallInv,
         \/ GcLoadEntries \/ GcReadIndex \/ GcRebuild
         \/ \E victims \in SUBSET gc.files : GcPrune(victims)
  PROVE  CallInv'
<1> USE DEF CallInv
<1>1. TypeOK' /\ FileLockOwned'
  BY GuardKept DEF StoreTypeOK, StoreNext
<1>2. ReadIndex \in Index /\ Empty \in Index
  BY IndexTyped
<1>3. CASE GcLoadEntries
  <2>1. StoreTypeOK'
    <3>1. gcRuns' \in 0 .. MaxGc
      BY <1>3, BoundAssumption DEF GcLoadEntries, StoreTypeOK
    <3>2. gc' \in [files : SUBSET Id, index : Index, pc : {"idle", "loaded", "read"}]
      BY <1>3 DEF GcLoadEntries, StoreTypeOK
    <3>3. QED BY <1>1, <1>3, <3>1, <3>2 DEF GcLoadEntries, StoreTypeOK, disk, caller
  <2>2. gcRuns' # 0
    BY <1>3 DEF GcLoadEntries, StoreTypeOK
  <2>3. ASSUME NEW u \in Thread PROVE CallFits(u)'
    BY <1>3 DEF GcLoadEntries, CallFits, guardVars, caller
  <2>4. QED BY <1>1, <2>1, <2>2, <2>3
<1>4. CASE GcReadIndex
  <2>1. StoreTypeOK'
    BY <1>1, <1>2, <1>4 DEF GcReadIndex, StoreTypeOK, disk, caller
  <2>2. ASSUME NEW u \in Thread PROVE CallFits(u)'
    BY <1>4 DEF GcReadIndex, CallFits, guardVars, caller
  <2>3. QED BY <1>1, <1>4, <2>1, <2>2 DEF GcReadIndex
<1>5. ASSUME NEW new \in Index, ReplaceIndex(new), files' \subseteq Id,
             promised' \subseteq Id,
             UNCHANGED <<guardVars, caller, gcRuns, crashes, tornByCrash>>
      PROVE  CallInv'
  <2>1. NoGc \in [files : SUBSET Id, index : Index, pc : {"idle", "loaded", "read"}]
    BY <1>2 DEF NoGc
  <2>2. StoreTypeOK'
    BY <1>1, <1>5, <2>1 DEF ReplaceIndex, StoreTypeOK, Steps, caller
  <2>3. ASSUME NEW u \in Thread PROVE CallFits(u)'
    BY <1>5 DEF ReplaceIndex, CallFits, guardVars, caller
  <2>4. gc'.pc = "idle"
    BY <1>5 DEF ReplaceIndex, NoGc
  <2>5. QED BY <1>1, <2>2, <2>3, <2>4
<1>6. CASE GcRebuild
  <2>1. [ids |-> gc.files,
         topics |-> [x \in Topic |->
           Bare(IF \E i \in gc.files : TopicOf[i] = x THEN "stamp" ELSE "absent")]]
          \in Index
    BY DEF Index, Meta, Bare, StoreTypeOK
  <2>2. QED BY <1>5, <1>6, <2>1 DEF GcRebuild, StoreTypeOK
<1>7. ASSUME NEW victims \in SUBSET gc.files, GcPrune(victims) PROVE CallInv'
  <2>1. [gc.index EXCEPT !.ids = @ \ victims] \in Index
    BY DEF Index, StoreTypeOK
  <2>2. QED BY <1>5, <1>7, <2>1 DEF GcPrune, StoreTypeOK
<1>8. QED BY <1>3, <1>4, <1>6, <1>7

LEMMA CallInvCrash ==
  ASSUME CallInv, NEW p \in Process, Crash(p)
  PROVE  CallInv'
<1> USE DEF CallInv
<1>1. TypeOK' /\ FileLockOwned'
  BY CrashGuard DEF StoreTypeOK
<1>2. Empty \in Index
  BY IndexTyped
<1>3. NoCall \in [op : {"none", "append", "refresh", "delete"},
                  id : Id \cup {None}, attempt : 0 .. 2,
                  result : {"none", "True", "False", "error"}]
  BY DEF NoCall
<1>4. StoreTypeOK'
  BY <1>1, <1>2, <1>3, BoundAssumption DEF Crash, StoreTypeOK, Steps, disk
<1>5. ASSUME NEW u \in Thread PROVE CallFits(u)'
  <2>1. CASE Home[u] = p
    BY <2>1 DEF Crash, CallFits, NoCall
  <2>2. CASE Home[u] # p
    BY <2>2 DEF Crash, CallFits
  <2>3. QED BY <2>1, <2>2
<1>6. QED BY <1>1, <1>4, <1>5 DEF Crash

\* Every call is where its variables say it is.
LEMMA CallInvKept == CallInv /\ [StoreNext]_vars => CallInv'
<1>1. ASSUME CallInv, UNCHANGED vars PROVE CallInv'
  BY <1>1 DEF CallInv, CallFits, StoreTypeOK, TypeOK, FileLockOwned, vars,
              guardVars, storeVars
<1>2. QED BY <1>1, CallInvBegin, CallInvStep, CallInvGc, CallInvCrash DEF StoreNext

LEMMA CallInvInit == StoreInit => CallInv
<1> SUFFICES ASSUME StoreInit PROVE CallInv
  OBVIOUS
<1>1. TypeOK /\ FileLockOwned
  BY GuardInit DEF StoreInit
<1>2. Empty \in Index
  BY DEF Empty, Index, Meta, Bare
<1>3. StoreTypeOK
  <2>1. NoCall \in [op : {"none", "append", "refresh", "delete"},
                   id : Id \cup {None}, attempt : 0 .. 2,
                   result : {"none", "True", "False", "error"}]
    BY DEF NoCall
  <2>2. NoGc \in [files : SUBSET Id, index : Index, pc : {"idle", "loaded", "read"}]
    BY <1>2 DEF NoGc
  <2>3. MaxCalls \in Nat /\ MaxGc \in Nat /\ MaxCrashes \in Nat
    BY BoundAssumption
  <2>4. /\ calls \in [Thread -> 0 .. MaxCalls]
        /\ gcRuns \in 0 .. MaxGc /\ crashes \in 0 .. MaxCrashes
    BY <2>3 DEF StoreInit
  <2>5. step \in [Thread -> Steps] /\ snap \in [Thread -> Index]
    BY <1>2 DEF StoreInit, Steps
  <2>6. QED BY <1>1, <1>2, <2>1, <2>2, <2>4, <2>5 DEF StoreInit, StoreTypeOK
<1>4. QED
  BY <1>1, <1>3 DEF CallInv, CallFits, StoreInit, Init, NoCall, NoGc

\* StoreTypeOK is an invariant, whatever writers, kb_gc and deaths do.
THEOREM StoreTypeCorrect == StoreSpec => []StoreTypeOK
<1>1. CallInv => StoreTypeOK
  BY DEF CallInv
<1>2. QED BY <1>1, CallInvInit, CallInvKept, PTL DEF StoreSpec

LEMMA CallInvAlways == StoreSpec => []CallInv
  BY CallInvInit, CallInvKept, PTL DEF StoreSpec

-----------------------------------------------------------------------------
(***************************************************************************)
(* The counters                                                            *)
(***************************************************************************)

LEMMA EmptyCounts == Counts(Empty)
<1>1. \A x \in Topic : {i \in Empty.ids : TopicOf[i] = x} = {}
  BY DEF Empty
<1>2. IsFiniteSet(Empty.ids) /\ Cardinality({}) = 0
  BY FS_EmptySet DEF Empty
<1>3. QED BY <1>1, <1>2 DEF Counts, Empty, Bare

\* An append that did not find its id counts it once; a refresh counts nothing.
LEMMA UpdatedCounts ==
  ASSUME NEW read \in Index, Counts(read), NEW c, c.id \in Id,
         c.op \in {"append", "refresh"},
         c.op = "append" => c.id \notin read.ids
  PROVE  Counts(Updated(c, read))
<1> DEFINE of(ids, x) == {i \in ids : TopicOf[i] = x}
<1> DEFINE new == Updated(c, read)
<1>1. /\ read.ids \subseteq Id /\ read.topics \in [Topic -> Meta]
      /\ IsFiniteSet(read.ids) /\ TopicOf[c.id] \in Topic
  BY TopicAssumption DEF Index, Counts
<1>2. /\ new.ids = IF c.op = "append" THEN read.ids \cup {c.id} ELSE read.ids
      /\ new.topics = [read.topics EXCEPT ![TopicOf[c.id]] = Counted(@, c.op)]
  BY DEF Updated
<1>3. IsFiniteSet(new.ids)
  BY <1>1, <1>2, FS_AddElement
<1>4. ASSUME NEW x \in Topic
      PROVE  /\ new.topics[x].shape # "stamp"
             /\ new.topics[x].count = Cardinality(of(new.ids, x))
  <2>1. /\ read.topics[x].shape # "stamp"
        /\ read.topics[x].count = Cardinality(of(read.ids, x))
        /\ read.topics[x].count \in Nat
    BY <1>1 DEF Counts, Meta
  <2>2. CASE x # TopicOf[c.id]
    <3>1. of(new.ids, x) = of(read.ids, x)
      BY <1>2, <2>2
    <3>2. new.topics[x] = read.topics[x]
      BY <1>1, <1>2, <2>2
    <3>3. QED BY <2>1, <3>1, <3>2
  <2>3. CASE x = TopicOf[c.id] /\ c.op = "refresh"
    <3>1. new.topics[x] = Counted(read.topics[x], "refresh") /\ new.ids = read.ids
      BY <1>1, <1>2, <2>3
    <3>2. QED BY <2>1, <3>1 DEF Counted
  <2>4. CASE x = TopicOf[c.id] /\ c.op = "append"
    <3>1. new.topics[x] = Counted(read.topics[x], "append")
      BY <1>1, <1>2, <2>4
    <3>2. new.ids = read.ids \cup {c.id}
      BY <1>2, <2>4
    <3>3. of(new.ids, x) = of(read.ids, x) \cup {c.id} /\ c.id \notin of(read.ids, x)
      BY <2>4, <3>2
    <3>4. IsFiniteSet(of(read.ids, x))
      BY <1>1, FS_Subset
    <3>5. Cardinality(of(new.ids, x)) = Cardinality(of(read.ids, x)) + 1
      BY <3>3, <3>4, FS_AddElement
    <3>6. QED BY <2>1, <3>1, <3>5 DEF Counted
  <2>5. QED BY <2>2, <2>3, <2>4
<1>5. QED BY <1>3, <1>4 DEF Counts

\* A step of kb_gc is one of a counted run.
LEMMA GcRan ==
  ASSUME StoreTypeOK, gcRuns = 0 => gc.pc = "idle",
         \/ GcLoadEntries \/ GcReadIndex \/ GcRebuild
         \/ \E victims \in SUBSET gc.files : GcPrune(victims)
  PROVE  gcRuns' # 0
<1>1. CASE GcLoadEntries
  BY <1>1 DEF GcLoadEntries, StoreTypeOK
<1>2. CASE gc.pc # "idle" /\ gcRuns' = gcRuns
  BY <1>2
<1>3. GcReadIndex => gc.pc # "idle" /\ gcRuns' = gcRuns
  BY DEF GcReadIndex
<1>4. GcRebuild => gc.pc # "idle" /\ gcRuns' = gcRuns
  BY DEF GcRebuild
<1>5. ASSUME NEW victims \in SUBSET gc.files, GcPrune(victims)
      PROVE  gc.pc # "idle" /\ gcRuns' = gcRuns
  BY <1>5 DEF GcPrune
<1>6. QED BY <1>1, <1>2, <1>3, <1>4, <1>5

\* Every index that is read or written counts, until kb_gc runs.  Writers that
\* the guard fails to keep apart still write what follows from what they read.
LEMMA CountInvStep == CallInv /\ CountInv /\ [StoreNext]_vars => CountInv'
<1> SUFFICES ASSUME CallInv, CountInv, [StoreNext]_vars, gcRuns' = 0
             PROVE  Counts(index') /\ \A t \in Thread : Counts(snap'[t])
  BY DEF CountInv, Counts
<1>1. gcRuns \in Nat /\ gcRuns' \in Nat /\ gc.pc \in {"idle", "loaded", "read"}
  BY BoundAssumption, CallInvKept DEF CallInv, StoreTypeOK
<1>2. ASSUME gcRuns = 0, index' = index, snap' = snap
      PROVE  Counts(index') /\ \A t \in Thread : Counts(snap'[t])
  BY <1>2 DEF CountInv
<1>3. CASE UNCHANGED vars
  BY <1>2, <1>3 DEF vars, storeVars
<1>4. ASSUME NEW t \in Thread, NEW id \in Id,
             CallAppend(t, id) \/ CallRefresh(t, id) \/ CallDelete(t, id)
      PROVE  gcRuns' = gcRuns /\ index' = index /\ snap' = snap
  BY <1>4 DEF CallAppend, CallRefresh, CallDelete, others, disk
<1>5. ASSUME NEW t \in Thread, CallStep(t)
      PROVE  Counts(index') /\ \A u \in Thread : Counts(snap'[u])
  <2>1. gcRuns = 0
    BY <1>5 DEF CallStep, EnterGuard, FindPresent, ReadToWrite, DeleteRaises,
                DeleteWrites, Truncate, Fill, FillOrphan, LeaveFileLock, LeaveFlock,
                VerifyPresent, VerifyLost, Return, others, storeVars
  <2>2. Counts(index) /\ \A u \in Thread : Counts(snap[u])
    BY <2>1 DEF CountInv
  <2>3. Counts(ReadIndex) /\ Counts(Empty)
    BY <2>2, EmptyCounts DEF ReadIndex
  <2>4. CASE ReadToWrite(t) \/ Return(t)
    <3>1. index' = index /\ \E new \in {ReadIndex, Empty} : snap' = [snap EXCEPT ![t] = new]
      BY <2>4 DEF ReadToWrite, Return, disk
    <3>2. QED BY <2>2, <2>3, <3>1 DEF CallInv, StoreTypeOK
  <2>5. CASE Fill(t)
    <3>1. index' = Updated(call[t], snap[t]) /\ snap' = snap
      BY <2>5 DEF Fill, caller
    <3>2. /\ call[t].id \in Id /\ call[t].op \in {"append", "refresh"}
          /\ call[t].op = "append" => call[t].id \notin snap[t].ids
      BY <2>5 DEF Fill, Goto, CallInv, CallFits
    <3>3. snap[t] \in Index
      BY DEF CallInv, StoreTypeOK
    <3>4. QED BY <2>2, <3>1, <3>2, <3>3, UpdatedCounts
  <2>6. CASE ~(ReadToWrite(t) \/ Return(t)) /\ ~Fill(t)
    <3>1. index' = index /\ snap' = snap
      BY <1>5, <2>6
         DEF CallStep, EnterGuard, FindPresent, DeleteRaises, DeleteWrites, Truncate,
             FillOrphan, LeaveFileLock, LeaveFlock, VerifyPresent, VerifyLost,
             disk, caller, storeVars
    <3>2. QED BY <1>2, <2>1, <3>1
  <2>7. QED BY <2>4, <2>5, <2>6
<1>6. ~(\/ GcLoadEntries \/ GcReadIndex \/ GcRebuild
        \/ \E victims \in SUBSET gc.files : GcPrune(victims))
  BY GcRan DEF CallInv
<1>7. ASSUME NEW p \in Process, Crash(p)
      PROVE  Counts(index') /\ \A u \in Thread : Counts(snap'[u])
  <2>1. gcRuns = 0 /\ index' = index
    BY <1>7 DEF Crash, disk
  <2>2. \A u \in Thread : snap'[u] \in {snap[u], Empty}
    BY <1>7 DEF Crash
  <2>3. QED BY <2>1, <2>2, EmptyCounts DEF CountInv
<1>8. QED BY <1>2, <1>3, <1>4, <1>5, <1>6, <1>7 DEF StoreNext

LEMMA CountInvAlways == StoreSpec => []CountInv
<1>1. StoreInit => CountInv
  BY EmptyCounts DEF StoreInit, CountInv
<1>2. QED BY <1>1, CallInvAlways, CountInvStep, PTL DEF StoreSpec

\* Until kb_gc rewrites the file a topic's counter is the number of its indexed
\* entries: for every number of processes and of writing threads in each, for
\* every failure of flock and every death, lost appends included.
THEOREM CountersAgree == StoreSpec => [](gcRuns = 0 => CountsAgree)
<1>1. CountInv => (gcRuns = 0 => CountsAgree)
  BY DEF CountInv, Counts, CountsAgree
<1>2. QED BY <1>1, CountInvAlways, PTL

-----------------------------------------------------------------------------
(***************************************************************************)
(* The appends                                                             *)
(***************************************************************************)

\* With one writing thread per process at most one thread is inside.
LEMMA OneInside ==
  ASSUME TypeOK, FlockOwned, NEW t \in Thread, NEW u \in Thread,
         at[t] \in Inside, at[u] \in Inside
  PROVE  t = u
  BY DEF FlockOwned

\* So between the truncation and the filling of the file nobody else reads it.
LEMMA ReaderAlone ==
  ASSUME CallInv, AppendInv, Untouched, NEW t \in Thread, at[t] = "in",
         step[t] # "fill"
  PROVE  ~torn
<1>1. ASSUME torn PROVE FALSE
  <2>1. PICK u \in Thread : step[u] = "fill"
    BY <1>1 DEF AppendInv
  <2>2. at[u] = "in" /\ FlockOwned /\ TypeOK
    BY <2>1 DEF CallInv, CallFits, AppendInv, StoreTypeOK
  <2>3. QED BY <2>1, <2>2, OneInside DEF Inside
<1>2. QED BY <1>1

\* The rest of AppendInv.
AppendsIn ==
  /\ torn => \E t \in Thread : step[t] = "fill"
  /\ \A t \in Thread : step[t] # "orphan"
  /\ \A t \in Thread : step[t] \in {"truncate", "fill"} => snap[t] = index
  /\ \A t \in Thread : Written(t) => call[t].id \in index.ids
  /\ promised \subseteq index.ids

LEMMA AppendInvParts == AppendInv <=> FlockOwned /\ (Untouched => AppendsIn)
  BY DEF AppendInv, AppendsIn

\* A call begins: nothing has been written for it.
LEMMA AppendsInBegin ==
  ASSUME CallInv, AppendsIn, NEW t \in Thread, NEW id \in Id,
         CallAppend(t, id) \/ CallRefresh(t, id) \/ CallDelete(t, id)
  PROVE  AppendsIn'
<1>1. PICK op \in {"append", "refresh", "delete"} :
        Begin(t, op, id) /\ UNCHANGED <<index, torn, snap>>
  BY DEF CallAppend, CallRefresh, CallDelete, others, disk
<1>2. promised' \subseteq promised
  BY DEF CallAppend, CallRefresh, CallDelete, others, disk
<1>3. QED
  BY <1>1, <1>2 DEF AppendsIn, Written, Begin, Goto, CallInv, StoreTypeOK

\* A step of a call.
LEMMA AppendsInStep ==
  ASSUME CallInv, AppendInv, Untouched, AppendsIn, NEW t \in Thread, CallStep(t)
  PROVE  AppendsIn'
<1> USE DEF AppendsIn, Written, CallInv, StoreTypeOK
<1>1. CallFits(t)
  OBVIOUS
<1>2. CASE UNCHANGED storeVars
  BY <1>2 DEF storeVars
<1>3. CASE FindPresent(t)
  <2>1. call[t].id \in index.ids
    BY <1>3 DEF FindPresent, ReadIndex, Empty
  <2>2. QED BY <1>3, <2>1 DEF FindPresent, Goto, disk, others
<1>4. CASE ReadToWrite(t)
  <2>1. ~torn
    BY <1>4, ReaderAlone DEF ReadToWrite, Reading
  <2>2. snap' = [snap EXCEPT ![t] = index]
    BY <1>4, <2>1 DEF ReadToWrite, ReadIndex
  <2>3. QED BY <1>1, <1>4, <2>1, <2>2 DEF ReadToWrite, Reading, Goto, disk, others, CallFits
<1>5. CASE DeleteRaises(t)
  BY <1>5 DEF DeleteRaises, Reading, Goto, disk, others
<1>6. CASE DeleteWrites(t)
  BY <1>6 DEF DeleteWrites, Reading, Goto, disk, others, caller
<1>7. CASE Truncate(t)
  BY <1>7 DEF Truncate, Goto, others, caller
<1>8. CASE Fill(t)
  <2>1. /\ step[t] = "fill" /\ index' = Updated(call[t], snap[t]) /\ torn' = FALSE
        /\ step' = [step EXCEPT ![t] = "leave"]
        /\ UNCHANGED <<call, snap, promised>>
    BY <1>8 DEF Fill, Goto, caller, others
  <2>2. index.ids \subseteq index'.ids
    BY <2>1 DEF Updated
  <2>3. call[t].op = "append" => call[t].id \in index'.ids
    BY <2>1 DEF Updated
  <2>4. ASSUME NEW u \in Thread, u # t PROVE step[u] \notin {"truncate", "fill"}
    BY <2>1, <2>4, OneInside DEF CallFits, AppendInv, Inside
  <2>5. QED BY <2>1, <2>2, <2>3, <2>4
<1>9. CASE FillOrphan(t)
  BY <1>9 DEF FillOrphan, Goto
<1>10. CASE LeaveFlock(t)
  BY <1>10 DEF LeaveFlock, Goto, disk, caller, others
<1>11. CASE VerifyPresent(t)
  BY <1>1, <1>11 DEF VerifyPresent, Goto, disk, others, CallFits
<1>12. CASE VerifyLost(t)
  BY <1>1, <1>12 DEF VerifyLost, Goto, disk, others, CallFits
<1>13. CASE Return(t)
  <2>1. call[t].result = "True" => call[t].id \in index.ids
    BY <1>1, <1>13 DEF Return, Goto, CallFits
  <2>2. QED BY <1>13, <2>1 DEF Return, Goto, disk, NoCall
<1>14. QED
  BY <1>2, <1>3, <1>4, <1>5, <1>6, <1>7, <1>8, <1>9, <1>10, <1>11, <1>12, <1>13
     DEF CallStep, EnterGuard, LeaveFileLock

\* A death that strikes nobody who is filling the file.
LEMMA AppendsInCrash ==
  ASSUME CallInv, AppendsIn, NEW p \in Process, Crash(p), ~tornByCrash'
  PROVE  AppendsIn'
<1>1. \A t \in Thread : step[t] = "fill" => Home[t] # p
  BY DEF Crash, CallInv, StoreTypeOK
<1>2. torn' = torn /\ index' = index /\ promised' = promised
  BY DEF Crash, disk
<1>3. torn' => \E t \in Thread : step'[t] = "fill"
  BY <1>1, <1>2 DEF AppendsIn, Crash
<1>4. \A t \in Thread : Written(t)' => call'[t] = call[t] /\ Written(t)
  BY DEF Written, Crash, NoCall
<1>5. ASSUME NEW t \in Thread, step'[t] # "idle"
      PROVE  step'[t] = step[t] /\ snap'[t] = snap[t]
  BY <1>5 DEF Crash
<1>6. QED BY <1>2, <1>3, <1>4, <1>5 DEF AppendsIn

LEMMA AppendInvStep ==
  ASSUME OneThreadEach
  PROVE  CallInv /\ AppendInv /\ [StoreNext]_vars => AppendInv'
<1> SUFFICES ASSUME CallInv, AppendInv, [StoreNext]_vars PROVE AppendInv'
  OBVIOUS
<1>1. CASE UNCHANGED vars
  BY <1>1 DEF AppendInv, FlockOwned, Untouched, Written, vars, guardVars, storeVars
<1>2. CASE StoreNext
  <2>1. FlockOwned'
    BY <1>2, GuardKept DEF AppendInv, CallInv, StoreTypeOK
  <2>2. SUFFICES ASSUME Untouched' PROVE AppendsIn'
    BY <2>1, AppendInvParts DEF AppendInv, AppendsIn
  <2>3. ~(\/ GcLoadEntries \/ GcReadIndex \/ GcRebuild
          \/ \E victims \in SUBSET gc.files : GcPrune(victims))
    BY <2>2, GcRan DEF CallInv, Untouched
  <2>4. ASSUME NEW t \in Thread, NEW id \in Id,
               CallAppend(t, id) \/ CallRefresh(t, id) \/ CallDelete(t, id)
        PROVE  AppendsIn'
    <3>1. Untouched
      BY <2>2, <2>4 DEF Untouched, CallAppend, CallRefresh, CallDelete, others
    <3>2. QED BY <2>4, <3>1, AppendsInBegin, AppendInvParts
  <2>5. ASSUME NEW t \in Thread, CallStep(t) PROVE AppendsIn'
    <3>1. Untouched
      BY <2>2, <2>5
         DEF Untouched, CallStep, EnterGuard, FindPresent, ReadToWrite, DeleteRaises,
             DeleteWrites, Truncate, Fill, FillOrphan, LeaveFileLock, LeaveFlock,
             VerifyPresent, VerifyLost, Return, others, storeVars
    <3>2. QED BY <2>5, <3>1, AppendsInStep, AppendInvParts
  <2>6. ASSUME NEW p \in Process, Crash(p) PROVE AppendsIn'
    <3>1. Untouched /\ ~tornByCrash'
      BY <2>2, <2>6 DEF Untouched, Crash, CallInv, StoreTypeOK
    <3>2. QED BY <2>6, <3>1, AppendsInCrash, AppendInvParts
  <2>7. QED BY <1>2, <2>3, <2>4, <2>5, <2>6 DEF StoreNext
<1>3. QED BY <1>1, <1>2

LEMMA AppendInvAlways ==
  ASSUME OneThreadEach PROVE StoreSpec => []AppendInv
<1>1. StoreInit => AppendInv
  BY GuardInit DEF StoreInit, AppendInv, NoCall, Written
<1>2. QED BY <1>1, CallInvAlways, AppendInvStep, PTL DEF StoreSpec

\* With one writing thread per process an append that add_to_index promised
\* stays, whatever dies and when, except a writer that is filling the file.
THEOREM AppendsSurviveCrashes ==
  ASSUME OneThreadEach PROVE StoreSpec => []CrashKeepsAppends
<1>1. CallInv /\ AppendInv => CrashKeepsAppends
  BY DEF AppendInv, Untouched, CrashKeepsAppends, AppendKept, ReadIndex
<1>2. QED BY <1>1, CallInvAlways, AppendInvAlways, PTL

\* The writers alone: nobody runs kb_gc, no process dies.
WritersAlone == OneThreadEach /\ MaxGc = 0 /\ MaxCrashes = 0

LEMMA UntouchedAlways ==
  ASSUME WritersAlone PROVE StoreSpec => []Untouched
<1>1. StoreInit => ~tornByCrash
  BY DEF StoreInit
<1>2. CallInv /\ ~tornByCrash /\ [StoreNext]_vars => ~tornByCrash'
  <2> SUFFICES ASSUME CallInv, ~tornByCrash, [StoreNext]_vars PROVE ~tornByCrash'
    OBVIOUS
  <2>1. CASE UNCHANGED vars
    BY <2>1 DEF vars, storeVars
  <2>2. ASSUME NEW t \in Thread, CallStep(t) PROVE ~tornByCrash'
    BY <2>2
       DEF CallStep, EnterGuard, FindPresent, ReadToWrite, DeleteRaises,
           DeleteWrites, Truncate, Fill, FillOrphan, LeaveFileLock, LeaveFlock,
           VerifyPresent, VerifyLost, Return, others, storeVars
  <2>3. ASSUME NEW t \in Thread, NEW id \in Id,
               CallAppend(t, id) \/ CallRefresh(t, id) \/ CallDelete(t, id)
        PROVE  ~tornByCrash'
    BY <2>3 DEF CallAppend, CallRefresh, CallDelete, others
  <2>4. ASSUME \/ GcLoadEntries \/ GcReadIndex \/ GcRebuild
               \/ \E victims \in SUBSET gc.files : GcPrune(victims)
        PROVE  ~tornByCrash'
    BY <2>4 DEF GcLoadEntries, GcReadIndex, GcRebuild, GcPrune
  <2>5. ASSUME NEW p \in Process, Crash(p) PROVE FALSE
    BY <2>5 DEF Crash, CallInv, StoreTypeOK, WritersAlone
  <2>6. QED BY <2>1, <2>2, <2>3, <2>4, <2>5 DEF StoreNext
<1>3. CallInv /\ ~tornByCrash => Untouched
  BY DEF CallInv, StoreTypeOK, Untouched, WritersAlone
<1>4. QED BY <1>1, <1>2, <1>3, CallInvAlways, PTL DEF StoreSpec

\* "Returns True when the id ends up in the index" (knowledge.py:190): so it
\* does, and stays, when each process has one writing thread.
THEOREM AppendsKept ==
  ASSUME WritersAlone PROVE StoreSpec => []AppendKept
<1>1. CallInv /\ AppendInv /\ Untouched => AppendKept
  BY DEF AppendInv, AppendKept, ReadIndex
<1>2. OneThreadEach
  BY DEF WritersAlone
<1>3. QED BY <1>1, <1>2, CallInvAlways, AppendInvAlways, UntouchedAlways, PTL

-----------------------------------------------------------------------------
(***************************************************************************)
(* The store implements the append log                                     *)
(***************************************************************************)

\* A thread whose call and place stay keeps its phase.
LEMMA PhaseKept ==
  ASSUME NEW u \in Thread, call'[u] = call[u], step'[u] = step[u]
  PROVE  LogPhase(u)' = LogPhase(u)
  BY DEF LogPhase

\* A step that adds no id and changes no phase is a stutter of the log.
LEMMA LogStutters ==
  ASSUME index'.ids = index.ids, \A u \in Thread : LogPhase(u)' = LogPhase(u)
  PROVE  UNCHANGED <<index.ids, logPhase>>
  BY DEF logPhase

\* The effect of the log, in terms of the phase of its thread.
LEMMA LogEffect ==
  ASSUME NEW t \in Thread, NEW i,
         \A u \in Thread : u # t => LogPhase(u)' = LogPhase(u),
         LogPhase(t) = [id |-> i, state |-> "called"],
         LogPhase(t)' =
           [id |-> i, state |-> IF i \in index.ids THEN "known" ELSE "new"],
         index'.ids = index.ids \cup {i}
  PROVE  Log!Effect(t)
<1> DEFINE to == IF i \in index.ids THEN "known" ELSE "new"
<1>1. logPhase[t] = [id |-> i, state |-> "called"]
  BY DEF logPhase
<1>2. [[id |-> i, state |-> "called"] EXCEPT !.state = to]
        = [id |-> i, state |-> to]
  OBVIOUS
<1>3. logPhase' = [logPhase EXCEPT ![t] = [id |-> i, state |-> to]]
  BY DEF logPhase
<1>4. logPhase' = [logPhase EXCEPT ![t] = [logPhase[t] EXCEPT !.state = to]]
  BY <1>1, <1>2, <1>3
<1>5. logPhase[t].state = "called" /\ logPhase[t].id = i
  BY <1>1
<1>6. logPhase' = [logPhase EXCEPT ![t].state =
                  IF logPhase[t].id \in index.ids THEN "known" ELSE "new"]
  BY <1>4, <1>5
<1>7. QED BY <1>5, <1>6 DEF Log!Effect

\* A call begins: the log is called, or it is not a call of the log.
LEMMA LogBegin ==
  ASSUME CallInv, NEW t \in Thread, NEW id \in Id,
         CallAppend(t, id) \/ CallRefresh(t, id) \/ CallDelete(t, id)
  PROVE  [Log!Next]_<<index.ids, logPhase>>
<1>1. PICK op \in {"append", "refresh", "delete"} :
        Begin(t, op, id) /\ index' = index
  BY DEF CallAppend, CallRefresh, CallDelete, disk
<1>2. ASSUME NEW u \in Thread, u # t PROVE LogPhase(u)' = LogPhase(u)
  BY <1>1, <1>2, PhaseKept DEF Begin, Goto, CallInv, StoreTypeOK
<1>3. /\ step[t] = "idle" /\ call[t].op = "none"
      /\ step'[t] = "guard"
      /\ call'[t] = [op |-> op, id |-> id, attempt |-> 1, result |-> "none"]
  BY <1>1 DEF Begin, Goto, CallInv, CallFits, StoreTypeOK
<1>4. LogPhase(t) = Log!Idle
  BY <1>3 DEF LogPhase, Log!Idle
<1>5. CASE op = "append"
  <2>1. LogPhase(t)' = [id |-> id, state |-> "called"]
    BY <1>3, <1>5 DEF LogPhase
  <2>2. Log!Call(t, id)
    BY <1>1, <1>2, <1>4, <2>1 DEF Log!Call, logPhase
  <2>3. QED BY <2>2 DEF Log!Next, logPhase
<1>6. CASE op # "append"
  <2>1. LogPhase(t)' = LogPhase(t)
    BY <1>3, <1>4, <1>6 DEF LogPhase, Log!Idle
  <2>2. QED BY <1>1, <1>2, <2>1, LogStutters
<1>7. QED BY <1>5, <1>6

\* A step of a call: the write that completes the file and the finding of the
\* id are the effect of the log, the return is its return, all else a stutter.
LEMMA LogStep ==
  ASSUME CallInv, AppendInv, Untouched, NEW t \in Thread, CallStep(t)
  PROVE  [Log!Next]_<<index.ids, logPhase>>
<1>1. ASSUME NEW u \in Thread, u # t PROVE LogPhase(u)' = LogPhase(u)
  <2>1. call'[u] = call[u] /\ step'[u] = step[u]
    BY <1>1
       DEF CallInv, StoreTypeOK, CallStep, EnterGuard, FindPresent, ReadToWrite,
           DeleteRaises, DeleteWrites, Truncate, Fill, FillOrphan, LeaveFileLock,
           LeaveFlock, VerifyPresent, VerifyLost, Return, Goto, caller, storeVars
  <2>2. QED BY <2>1, PhaseKept
<1>2. ASSUME LogPhase(t)' = LogPhase(t), index'.ids = index.ids
      PROVE  [Log!Next]_<<index.ids, logPhase>>
  BY <1>1, <1>2, LogStutters
<1> USE DEF CallInv, StoreTypeOK
<1>3. CallFits(t) /\ AppendsIn
  BY AppendInvParts
<1>4. CASE UNCHANGED storeVars
  BY <1>2, <1>4, PhaseKept DEF storeVars
<1>5. CASE FindPresent(t)
  <2>1. call[t].id \in index.ids
    BY <1>5 DEF FindPresent, ReadIndex, Empty
  <2>2. /\ step[t] = "guard" /\ step'[t] = "leave" /\ index' = index
        /\ call[t].op = "append" /\ call[t].result = "none"
        /\ call'[t] = [call[t] EXCEPT !.result =
                         IF call[t].attempt = 1 THEN "False" ELSE "True"]
    BY <1>3, <1>5 DEF FindPresent, Reading, Goto, CallFits, disk
  <2>3. CASE call[t].attempt = 1
    <3>1. LogPhase(t) = [id |-> call[t].id, state |-> "called"]
      BY <2>2, <2>3 DEF LogPhase
    <3>2. LogPhase(t)' = [id |-> call[t].id, state |-> "known"]
      BY <2>2, <2>3 DEF LogPhase
    <3>3. index.ids \cup {call[t].id} = index'.ids
      BY <2>1, <2>2
    <3>4. Log!Effect(t)
      BY <1>1, <2>1, <3>1, <3>2, <3>3, LogEffect
    <3>5. QED BY <3>4 DEF Log!Next, logPhase
  <2>4. CASE call[t].attempt # 1
    <3>1. LogPhase(t)' = LogPhase(t)
      BY <2>2, <2>4 DEF LogPhase
    <3>2. QED BY <1>2, <2>2, <3>1
  <2>5. QED BY <2>3, <2>4
<1>6. CASE ReadToWrite(t)
  BY <1>2, <1>6 DEF ReadToWrite, Reading, Goto, LogPhase, disk
<1>7. CASE DeleteRaises(t)
  BY <1>2, <1>7 DEF DeleteRaises, Reading, Goto, LogPhase, disk
<1>8. CASE DeleteWrites(t)
  BY <1>2, <1>8 DEF DeleteWrites, Reading, Goto, LogPhase, disk, caller
<1>9. CASE Truncate(t)
  BY <1>2, <1>9 DEF Truncate, Goto, LogPhase, caller
<1>10. CASE Fill(t)
  <2>1. /\ step[t] = "fill" /\ step'[t] = "leave" /\ snap[t] = index
        /\ index' = Updated(call[t], index) /\ call' = call
    BY <1>3, <1>10 DEF Fill, Goto, AppendsIn, caller
  <2>2. CASE call[t].op # "append"
    <3>1. index'.ids = index.ids /\ LogPhase(t)' = LogPhase(t)
      BY <2>1, <2>2 DEF Updated, LogPhase
    <3>2. QED BY <1>2, <3>1
  <2>3. CASE call[t].op = "append"
    <3>1. /\ call[t].id \notin index.ids /\ call[t].result = "none"
          /\ index'.ids = index.ids \cup {call[t].id}
      BY <1>3, <2>1, <2>3 DEF CallFits, Updated
    <3>2. call[t].attempt = 1
      BY <1>3, <2>1, <2>3, <3>1 DEF CallFits, AppendsIn, Written
    <3>3. LogPhase(t) = [id |-> call[t].id, state |-> "called"]
      BY <2>1, <2>3, <3>1, <3>2 DEF LogPhase
    <3>4. LogPhase(t)' = [id |-> call[t].id, state |-> "new"]
      BY <2>1, <2>3, <3>1 DEF LogPhase
    <3>5. Log!Effect(t)
      BY <1>1, <3>1, <3>3, <3>4, LogEffect
    <3>6. QED BY <3>5 DEF Log!Next, logPhase
  <2>4. QED BY <2>2, <2>3
<1>11. CASE FillOrphan(t)
  BY <1>3, <1>11 DEF FillOrphan, Goto, AppendsIn
<1>12. CASE LeaveFlock(t)
  BY <1>2, <1>12 DEF LeaveFlock, Goto, LogPhase, disk, caller
<1>13. CASE VerifyPresent(t)
  <2>1. /\ step[t] = "verify" /\ step'[t] = "return" /\ index' = index
        /\ call[t].result = "none" /\ call'[t].result = "True"
        /\ call'[t].op = call[t].op /\ call'[t].id = call[t].id
    BY <1>3, <1>13 DEF VerifyPresent, Goto, CallFits, disk
  <2>2. LogPhase(t)' = LogPhase(t)
    BY <2>1 DEF LogPhase
  <2>3. QED BY <1>2, <2>1, <2>2
<1>14. CASE VerifyLost(t)
  <2>1. step[t] = "verify" /\ step'[t] = "guard" /\ index' = index
        /\ call'[t] = [call[t] EXCEPT !.attempt = 2]
    BY <1>14 DEF VerifyLost, Goto, disk
  <2>2. LogPhase(t)' = LogPhase(t)
    BY <2>1 DEF LogPhase
  <2>3. QED BY <1>2, <2>1, <2>2
<1>15. CASE Return(t)
  <2>1. step[t] = "return" /\ step'[t] = "idle" /\ index' = index
        /\ call'[t] = NoCall
    BY <1>15 DEF Return, Goto, disk
  <2>2. LogPhase(t)' = Log!Idle
    BY <2>1 DEF LogPhase, Log!Idle, NoCall
  <2>3. CASE call[t].op # "append"
    <3>1. LogPhase(t) = Log!Idle
      BY <2>3 DEF LogPhase, Log!Idle
    <3>2. QED BY <1>2, <2>1, <2>2, <3>1
  <2>4. CASE call[t].op = "append"
    <3>1. LogPhase(t).state \in {"new", "known"}
      BY <2>1, <2>4 DEF LogPhase
    <3>2. Log!Return(t)
      BY <1>1, <2>1, <2>2, <3>1 DEF Log!Return, logPhase
    <3>3. QED BY <3>2 DEF Log!Next, logPhase
  <2>5. QED BY <2>3, <2>4
<1>16. QED
  BY <1>4, <1>5, <1>6, <1>7, <1>8, <1>9, <1>10, <1>11, <1>12, <1>13, <1>14, <1>15
     DEF CallStep, EnterGuard, LeaveFileLock

\* With one writing thread per process every add_to_index is atomic: the store
\* implements the append log, for every number of writers, ids and calls.
THEOREM AppendsImplementLog ==
  ASSUME WritersAlone PROVE StoreSpec => AppendsAtomic
<1>1. StoreInit => Log!Init
  BY DEF StoreInit, Log!Init, Log!Idle, logPhase, LogPhase, NoCall, Empty
<1>2. CallInv /\ AppendInv /\ Untouched /\ [StoreNext]_vars
        => [Log!Next]_<<index.ids, logPhase>>
  <2> SUFFICES ASSUME CallInv, AppendInv, Untouched, [StoreNext]_vars
               PROVE  [Log!Next]_<<index.ids, logPhase>>
    OBVIOUS
  <2>1. CASE UNCHANGED vars
    BY <2>1, PhaseKept, LogStutters DEF vars, storeVars
  <2>2. ASSUME \/ GcLoadEntries \/ GcReadIndex \/ GcRebuild
               \/ \E victims \in SUBSET gc.files : GcPrune(victims)
        PROVE  FALSE
    <3>1. gcRuns' \in 0 .. MaxGc
      BY CallInvKept DEF CallInv, StoreTypeOK
    <3>2. gcRuns' # 0
      BY <2>2, GcRan DEF CallInv
    <3>3. QED BY <3>1, <3>2 DEF WritersAlone
  <2>3. ASSUME NEW p \in Process, Crash(p) PROVE FALSE
    BY <2>3 DEF Crash, CallInv, StoreTypeOK, WritersAlone
  <2>4. QED BY <2>1, <2>2, <2>3, LogBegin, LogStep DEF StoreNext
<1>3. OneThreadEach
  BY DEF WritersAlone
<1>4. QED
  BY <1>1, <1>2, <1>3, CallInvAlways, AppendInvAlways, UntouchedAlways, PTL
     DEF StoreSpec, AppendsAtomic, Log!Spec
=============================================================================
