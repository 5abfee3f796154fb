--------------------------- MODULE KnowledgeIndex ---------------------------
(***************************************************************************)
(* knowledge/index.json, the list of entry ids and per-topic counters that *)
(* all processes append to (learn/knowledge.py), under the write guard of  *)
(* WriteGuard; the maintenance script scripts/kb_gc.py, which rewrites the *)
(* same file without the guard; and crashes of a process.                  *)
(*                                                                         *)
(* The writers replace the file with write_text: the file is truncated and *)
(* then filled.  In between, and after a crash in between, it does not     *)
(* parse, and _read_index answers an empty index.                          *)
(***************************************************************************)
EXTENDS WriteGuard, Naturals

CONSTANTS
  Id,          \* ids of knowledge entries
  Topic,
  TopicOf,     \* TopicOf[i] is the topic of entry i
  Deleters,    \* threads that run KnowledgeBase.delete (the 6 h cleanup)
  MaxCalls,    \* bound: calls per thread
  MaxGc,       \* bound: runs of kb_gc
  MaxCrashes   \* bound: process crashes

ASSUME TopicAssumption == TopicOf \in [Id -> Topic]
ASSUME BoundAssumption == {MaxCalls, MaxGc, MaxCrashes} \subseteq Nat

VARIABLES
  files,     \* ids whose entries/<id>.json exists
  index,     \* the last complete contents of index.json
  torn,      \* TRUE: index.json is truncated, it reads as empty
  step,      \* step[t]: where the call of thread t is
  call,      \* call[t]: the call thread t is in
  snap,      \* snap[t]: the index thread t read
  calls,     \* calls[t]: calls thread t has made
  gc,        \* the state of kb_gc
  gcRuns, crashes,
  tornByCrash, \* history: a process died between truncating and filling
  promised   \* history: ids add_to_index returned True for, not deleted since

storeVars == <<files, index, torn, step, call, snap, calls, gc, gcRuns, crashes,
               tornByCrash, promised>>
vars == <<guardVars, storeVars>>

disk == <<files, index, torn>>
caller == <<call, snap, calls>>
others == <<gc, gcRuns, crashes, tornByCrash, promised>>

\* A topic's value in index["topics"]: absent, the bare timestamp string that
\* kb_gc writes, or the dict {"count": n, "last_updated": ts}.
Meta == [shape : {"absent", "stamp", "dict"}, count : Nat]
Bare(shape) == [shape |-> shape, count |-> 0]

Empty == [ids |-> {}, topics |-> [x \in Topic |-> Bare("absent")]]
NoCall == [op |-> "none", id |-> None, attempt |-> 0, result |-> "none"]
NoGc == [files |-> {}, index |-> Empty, pc |-> "idle"]

Index == [ids : SUBSET Id, topics : [Topic -> Meta]]
Steps == {"idle", "guard", "truncate", "fill", "orphan", "leave", "verify",
          "return", "stuck"}

StoreTypeOK ==
  /\ TypeOK
  /\ files \subseteq Id /\ promised \subseteq Id
  /\ index \in Index /\ torn \in BOOLEAN
  /\ step \in [Thread -> Steps]
  /\ call \in [Thread -> [op : {"none", "append", "refresh", "delete"},
                          id : Id \cup {None}, attempt : 0 .. 2,
                          result : {"none", "True", "False", "error"}]]
  /\ snap \in [Thread -> Index]
  /\ calls \in [Thread -> 0 .. MaxCalls]
  /\ gc \in [files : SUBSET Id, index : Index, pc : {"idle", "loaded", "read"}]
  /\ gcRuns \in 0 .. MaxGc /\ crashes \in 0 .. MaxCrashes
  /\ tornByCrash \in BOOLEAN

StoreInit ==
  /\ Init
  /\ files = {} /\ promised = {}
  /\ index = Empty /\ torn = FALSE
  /\ step = [t \in Thread |-> "idle"]
  /\ call = [t \in Thread |-> NoCall]
  /\ snap = [t \in Thread |-> Empty]
  /\ calls = [t \in Thread |-> 0]
  /\ gc = NoGc /\ gcRuns = 0 /\ crashes = 0 /\ tornByCrash = FALSE

\* _read_index: any exception while parsing is an empty index.
ReadIndex == IF torn THEN Empty ELSE index

Goto(t, from, to) ==
  /\ step[t] = from
  /\ step' = [step EXCEPT ![t] = to]

Begin(t, op, id) ==
  /\ calls[t] < MaxCalls
  /\ Goto(t, "idle", "guard")
  /\ call' = [call EXCEPT ![t] =
                [op |-> op, id |-> id, attempt |-> 1, result |-> "none"]]
  /\ calls' = [calls EXCEPT ![t] = @ + 1]

-----------------------------------------------------------------------------
(***************************************************************************)
(* The calls                                                               *)
(***************************************************************************)

\* The end of store() and approve(): the entry file is written first.
CallAppend(t, id) ==
  /\ Begin(t, "append", id)
  /\ files' = files \cup {id}
  /\ UNCHANGED <<guardVars, index, torn, snap, others>>

\* store() over an active entry with the same title.
CallRefresh(t, id) ==
  /\ id \in files
  /\ Begin(t, "refresh", id)
  /\ UNCHANGED <<guardVars, disk, snap, others>>

\* delete() unlinks the entry file before it enters the guard.
CallDelete(t, id) ==
  /\ t \in Deleters
  /\ id \in files
  /\ Begin(t, "delete", id)
  /\ files' = files \ {id}
  /\ promised' = promised \ {id}
  /\ UNCHANGED <<guardVars, index, torn, snap, gc, gcRuns, crashes, tornByCrash>>

\* Mutant: the guard takes the thread lock only.
EnterGuardNoFlock(t) ==
  /\ step[t] = "guard" /\ at[t] = "out" /\ fileLock[Home[t]] = None
  /\ at' = [at EXCEPT ![t] = "in"]
  /\ fileLock' = [fileLock EXCEPT ![Home[t]] = t]
  /\ UNCHANGED <<wanted, lockFd, flock, storeVars>>

\* with _FileWriteGuard():, of the call or (stuck) of the _write_index in it
EnterGuard(t) ==
  /\ \/ step[t] = "guard" /\ Enter(t)
     \/ step[t] \in {"guard", "stuck"} /\ Acquire(t)
  /\ UNCHANGED storeVars

Reading(t) == step[t] = "guard" /\ at[t] = "in"

\* add_to_index: the id is there.  On the first attempt that is a duplicate.
FindPresent(t) ==
  /\ Reading(t)
  /\ call[t].op = "append" /\ call[t].id \in ReadIndex.ids
  /\ Goto(t, "guard", "leave")
  /\ call' = [call EXCEPT ![t].result =
                IF call[t].attempt = 1 THEN "False" ELSE "True"]
  /\ UNCHANGED <<guardVars, disk, snap, calls, others>>

\* add_to_index and _update_topic_index: read in order to write.
ReadToWrite(t) ==
  /\ Reading(t)
  /\ \/ call[t].op = "append" /\ call[t].id \notin ReadIndex.ids
     \/ call[t].op = "refresh"
  /\ snap' = [snap EXCEPT ![t] = ReadIndex]
  /\ Goto(t, "guard", "truncate")
  /\ UNCHANGED <<guardVars, disk, call, calls, others>>

\* delete: subscripting the bare timestamp with "count" raises TypeError; the
\* guard is left by the exception and the id stays in the index.
DeleteRaises(t) ==
  /\ Reading(t)
  /\ call[t].op = "delete"
  /\ ReadIndex.topics[TopicOf[call[t].id]].shape = "stamp"
  /\ Goto(t, "guard", "leave")
  /\ call' = [call EXCEPT ![t].result = "error"]
  /\ UNCHANGED <<guardVars, disk, snap, calls, others>>

\* delete: _write_index is called inside the guard and enters it again.
DeleteWrites(t) ==
  /\ Reading(t)
  /\ call[t].op = "delete"
  /\ ReadIndex.topics[TopicOf[call[t].id]].shape # "stamp"
  /\ EnterAgain(t)
  /\ Goto(t, "guard", "stuck")
  /\ UNCHANGED <<disk, caller, others>>

\* INDEX_FILE.write_text(raw): open for writing, then write.
Truncate(t) ==
  /\ Goto(t, "truncate", "fill")
  /\ torn' = TRUE
  /\ UNCHANGED <<guardVars, files, index, caller, others>>

\* Mutant: the refresh counts the entry again.
CountedAlways(old, op) == [shape |-> "dict", count |-> old.count + 1]

\* What add_to_index and _update_topic_index make of the index they read: a
\* topic that is not a dict restarts at count 0.
Counted(old, op) ==
  [shape |-> "dict",
   count |-> IF op = "append" THEN old.count + 1 ELSE old.count]

Updated(c, read) ==
  [ids |-> IF c.op = "append" THEN read.ids \cup {c.id} ELSE read.ids,
   topics |-> [read.topics EXCEPT ![TopicOf[c.id]] = Counted(@, c.op)]]

Fill(t) ==
  /\ Goto(t, "fill", "leave")
  /\ index' = Updated(call[t], snap[t])
  /\ torn' = FALSE
  /\ UNCHANGED <<guardVars, files, caller, others>>

\* The file that was truncated has been replaced: the bytes go nowhere.
FillOrphan(t) ==
  /\ Goto(t, "orphan", "leave")
  /\ UNCHANGED <<guardVars, disk, caller, others>>

\* __exit__, first half
LeaveFileLock(t) ==
  /\ step[t] = "leave"
  /\ ReleaseFileLock(t)
  /\ UNCHANGED storeVars

\* __exit__, second half; an append that wrote goes on to verify.
LeaveFlock(t) ==
  /\ Unflock(t)
  /\ Goto(t, "leave", IF call[t].op = "append" /\ call[t].result = "none"
                        THEN "verify" ELSE "return")
  /\ UNCHANGED <<disk, caller, others>>

\* add_to_index reads the index back, outside the guard.  A lost append is
\* tried once more; after the second attempt the answer is True regardless.
VerifyPresent(t) ==
  /\ call[t].id \in ReadIndex.ids \/ call[t].attempt = 2
  /\ Goto(t, "verify", "return")
  /\ call' = [call EXCEPT ![t].result = "True"]
  /\ UNCHANGED <<guardVars, disk, snap, calls, others>>

VerifyLost(t) ==
  /\ call[t].id \notin ReadIndex.ids /\ call[t].attempt = 1
  /\ Goto(t, "verify", "guard")
  /\ call' = [call EXCEPT ![t].attempt = 2]
  /\ UNCHANGED <<guardVars, disk, snap, calls, others>>

Return(t) ==
  /\ Goto(t, "return", "idle")
  /\ promised' = IF call[t].result = "True" /\ call[t].id \in files
                   THEN promised \cup {call[t].id} ELSE promised
  /\ call' = [call EXCEPT ![t] = NoCall]
  /\ snap' = [snap EXCEPT ![t] = Empty]
  /\ UNCHANGED <<guardVars, disk, calls, gc, gcRuns, crashes, tornByCrash>>

-----------------------------------------------------------------------------
(***************************************************************************)
(* scripts/kb_gc.py: unguarded, replaces the file by a rename              *)
(***************************************************************************)

GcLoadEntries ==
  /\ gc.pc = "idle" /\ gcRuns < MaxGc
  /\ gc' = [gc EXCEPT !.pc = "loaded", !.files = files]
  /\ gcRuns' = gcRuns + 1
  /\ UNCHANGED <<guardVars, disk, step, caller, crashes, tornByCrash, promised>>

GcReadIndex ==
  /\ gc.pc = "loaded"
  /\ gc' = [gc EXCEPT !.pc = "read", !.index = ReadIndex]
  /\ UNCHANGED <<guardVars, disk, step, caller, gcRuns, crashes, tornByCrash, promised>>

\* tmp.replace(IDX): a writer that has the old file open keeps writing to it.
ReplaceIndex(new) ==
  /\ index' = new
  /\ torn' = FALSE
  /\ step' = [t \in Thread |-> IF step[t] = "fill" THEN "orphan" ELSE step[t]]
  /\ gc' = NoGc

\* cmd_rebuild_index: every active entry file, topics mapped to timestamps.
GcRebuild ==
  /\ gc.pc = "read"
  /\ ReplaceIndex(
       [ids |-> gc.files,
        topics |-> [x \in Topic |->
          Bare(IF \E i \in gc.files : TopicOf[i] = x
                 THEN "stamp" ELSE "absent")]])
  /\ UNCHANGED <<guardVars, files, caller, gcRuns, crashes, tornByCrash, promised>>

\* cmd_prune_dupes: unlinks all but the newest of each group of equal titles.
GcPrune(victims) ==
  /\ gc.pc = "read"
  /\ victims # {} /\ gc.files \ victims # {}
  /\ files' = files \ victims
  /\ promised' = promised \ victims
  /\ ReplaceIndex([gc.index EXCEPT !.ids = @ \ victims])
  /\ UNCHANGED <<guardVars, caller, gcRuns, crashes, tornByCrash>>

-----------------------------------------------------------------------------
\* A process dies: the kernel closes its descriptors, which drops its flock;
\* what its threads had not written stays unwritten.
Crash(p) ==
  /\ crashes < MaxCrashes
  /\ crashes' = crashes + 1
  /\ tornByCrash' = (tornByCrash \/
                       \E t \in Thread : Home[t] = p /\ step[t] = "fill")
  /\ at' = [t \in Thread |-> IF Home[t] = p THEN "out" ELSE at[t]]
  /\ wanted' = [t \in Thread |-> IF Home[t] = p THEN None ELSE wanted[t]]
  /\ lockFd' = [lockFd EXCEPT ![p] = None]
  /\ fileLock' = [fileLock EXCEPT ![p] = None]
  /\ flock' = IF flock # None /\ Home[flock] = p THEN None ELSE flock
  /\ step' = [t \in Thread |-> IF Home[t] = p THEN "idle" ELSE step[t]]
  /\ call' = [t \in Thread |-> IF Home[t] = p THEN NoCall ELSE call[t]]
  /\ snap' = [t \in Thread |-> IF Home[t] = p THEN Empty ELSE snap[t]]
  /\ UNCHANGED <<disk, calls, gc, gcRuns, promised>>

CallStep(t) ==
  \/ EnterGuard(t) \/ FindPresent(t) \/ ReadToWrite(t) \/ DeleteRaises(t)
  \/ DeleteWrites(t) \/ Truncate(t) \/ Fill(t) \/ FillOrphan(t)
  \/ LeaveFileLock(t) \/ LeaveFlock(t) \/ VerifyPresent(t) \/ VerifyLost(t)
  \/ Return(t)

StoreNext ==
  \/ \E t \in Thread :
       \/ \E id \in Id :
            CallAppend(t, id) \/ CallRefresh(t, id) \/ CallDelete(t, id)
       \/ CallStep(t)
  \/ GcLoadEntries \/ GcReadIndex \/ GcRebuild
  \/ \E victims \in SUBSET gc.files : GcPrune(victims)
  \/ \E p \in Process : Crash(p)

StoreSpec == StoreInit /\ [][StoreNext]_vars

\* Every thread that can take a step of its call takes one.
StoreFairSpec == StoreSpec /\ \A t \in Thread : WF_vars(CallStep(t))

-----------------------------------------------------------------------------
(***************************************************************************)
(* Properties                                                              *)
(***************************************************************************)

\* "Returns True when the id ends up in the index" (knowledge.py:190): an id
\* for which add_to_index has returned True, and that nobody deleted, is in
\* the index that a reader gets whenever no write is in progress.
AppendKept ==
  (\A t \in Thread : step[t] # "fill") => promised \subseteq ReadIndex.ids

\* Where the counter of a topic is a number it is the number of indexed
\* entries of the topic.
CountsAgree ==
  \A x \in Topic :
    index.topics[x].shape = "dict" =>
      index.topics[x].count = Cardinality({i \in index.ids : TopicOf[i] = x})

\* The crash of a process loses no promised append, unless it strikes between
\* the truncation and the filling of the file.  (kb_gc may: it replaces the
\* file by one computed from what it read before.)
CrashKeepsAppends == ~tornByCrash /\ gcRuns = 0 => AppendKept

\* The guard and the retry let every add_to_index come back with an answer.
AppendReturns ==
  \A t \in Thread : (call[t].op = "append") ~> (call[t].op = "none")

\* The 6 h cleanup gets its delete back ("conf < 0.3: auto-delete",
\* cleanup.py:29).
DeleteReturns ==
  \A t \in Thread : (call[t].op = "delete") ~> (call[t].op = "none")

\* The store behaves like an append log: every add_to_index takes effect at
\* once, at the write that completes the file, or where it finds the id there.
\* A second attempt comes after the effect: the verification met a file that
\* another writer had truncated.
LogPhase(t) ==
  LET c == call[t]
      pending == step[t] \in {"guard", "truncate", "fill"} /\ c.attempt = 1
  IN  IF c.op # "append" THEN [id |-> "none", state |-> "idle"]
      ELSE [id |-> c.id, state |-> IF c.result = "False" THEN "known"
                                   ELSE IF pending THEN "called" ELSE "new"]

logPhase == [t \in Thread |-> LogPhase(t)]

Log == INSTANCE AppendLog WITH ids <- index.ids, phase <- logPhase
AppendsAtomic == Log!Spec
=============================================================================
