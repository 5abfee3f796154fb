# Aelvoxim: a TLA+ model of the learner and of what it shares

The program is a self-learning agent of about 43 000 lines of Python. Three processes run it
beside each other, and review tools run beside them:

| process | entry point | what it does |
|---|---|---|
| API (port 9701) | `src/src/run_server.py`, `server/routes*.py` | chat, memory, administration; stores knowledge, adds directions through the planner, writes commands for the learner |
| chat page (port 9702) | `src/serve_chatael.py` | proxy and page of the chat |
| learner | `src/learn_worker.py` | the learning loop, its health daemon, auto-tune, the cleanup and the check of the quarantine; the cortex scheduler's thread, which adds directions for the planner |
| tools | `src/dgmh_review.py`, `src/scripts/dgmh_review.py`, `src/scripts/kb_gc.py`, `aelvoxim learn ...` | a person's approvals, the weekly rebuild of the index, the command line |

They have no message passing between them. They share JSON files under `~/.aelvoxim` (and rows in
PostgreSQL), each read and written **as a whole**. Most of what can go wrong goes wrong there: a
file that was read a moment ago is written back over what another process, thread or earlier step
has written; a process dies between two writes that belong together; a lock protects less than
its name says. The other hard part is the control of the learner itself: threads, a daemon that
revives them, commands in a file, circuit breakers.

Paths below are relative to `src/src/aelvoxim/` unless they start with `src/`.

## 1. Inventory

What is modelled:

| component | state | operations | correct if | module |
|---|---|---|---|---|
| knowledge write guard (`learn/knowledge.py` 44-160) | `_lock_fd` and `_file_lock` of each process, the flock on `.lock` | enter, leave | no two writers inside | `WriteGuard` |
| knowledge index (`learn/knowledge.py`, `learn/cleanup.py`, `scripts/kb_gc.py`) | `index.json`, `entries/*.json` | `add_to_index`, topic counters, delete, rebuild and pruning | no id lost, counters agree, calls return | `KnowledgeIndex`, `AppendLog` |
| DGM-H gate (`core/dgmh.py`, `learn/loop.py`, both review tools) | log of decisions, cooldowns, queue for a person, Level 2 activation | `gate_changes`, `consume_decision`, approve, reject, revert, clear | one approval, one change; nothing without one | `DgmhGate` |
| calibration and experiments (`core/calibration.py`, `core/interventions.py`) | `calibration.json`, the copies of it in memory, `interventions.jsonl` | load, save, open, measure, keep, revert, apply a tuning | one experiment, cooldown, the cap as logged | `Experiments` |
| learner threads and control file (`learn/loop.py` 160-200 and 1600-1760, `src/learn_worker.py`) | `_running`, `_health_alive`, `_thread`, `control.json`, `control_ack.json`, `status.json` | start, stop, health daemon, worker poll | one loop, revived when it dies, stops when told | `LearnerThreads` |
| pending queue (`learn/knowledge.py`, `learn/scheduler.py`, `learn/monitor.py`) | `pending.json`, the active repository, `rejected.json`, streaks in memory | store, practise, approve, reject, discard, trim, monitor batch | nothing lost, promotions earned, all entries leave | `PendingQueue` |
| learning directions (`learn/direction.py`, `learn/loop.py`, `learn/autotune.py`, `learn/discovery.py`, `cortex/scheduler.py`) | the registry, its saved rows, the breaker's attributes that are not saved, the saves of two threads | learn, fail, skip, reflect, teach, test, tune, tidy up, add from the cortex thread, save row by row, restart | frozen for cause and for good, saved pauses survive a restart, paused is tested again | `Directions` |
| chat turns (`server/service_chat.py`, `server/routes_chat.py`, `server/session_manager.py`, messages of `storage/db.py`) | per user: cached contexts, a waiting correction, the snapshot; the stored conversation and its count | a plain or streamed turn, refusals, its finishing thread, the page's own posts, deletion | a prompt quotes its own user only, a snapshot's directory apart; a correction is used once, the stored conversation is complete and in order | `ChatTurns` |
| database connection pool (`storage/db.py`) | `_POOL` and its lock, the slots of each pool, the retryer and the health checks | get, lend, put back, drop, create again | slots accounted for, no pool overwritten, the database is found again | `PgPool` |
| memory store and layers (`memory/__init__.py`, `memory/layers/`, `entry.py`, `fusion.py`, `decay.py`, the lookups of `prevalidation.py` and `conflict.py`) | rows in PostgreSQL or SQLite, the layers each process has in memory | store, upsert, upgrade, move between layers, decay, load at restart, search and list | values stay with their user, a finished store is not undone | `MemoryStore` (partly) |

How they interact: the learner's loop runs everything in one thread per life (`LearnerThreads`
says how many such threads there are, and the other modules take one). Beside it the cortex scheduler's thread adds directions to
the same registry and saves it (`Directions`). Each pass learns on the
directions (`Directions`), which stores entries in quarantine (`PendingQueue`), which promotes them
into the index (`KnowledgeIndex`) under the guard (`WriteGuard`). Every few passes auto-tune
computes changes, which pass the gate (`DgmhGate`) into the calibration store (`Experiments`), where
the experiments move the cap of active directions. In the API process a chat turn
(`ChatTurns`) reads and stores memories (`MemoryStore`), and both get their connections from the
pool (`PgPool`), which every process has for itself. `KnowledgeIndex` extends `WriteGuard`: every
guarded section of it is entered and left by the guard's own steps. The other modules meet through
values they take as choices: what the LLM answers, what a rate is, what a topic is.

What is not modelled (reasons in `PROJECT.json`, plan in section 8):

| component | where |
|---|---|
| metacognition and its monitor | `core/metacog*.py`, `learn/meta_cog.py`, `control/metacog_check.py` |
| embeddings, knowledge search | `learn/knowledge.py` 398-580, `storage/embedding.py`, `learn/search.py` |
| validation of entries | `learn/validate.py`, `validator.py`, `post_validation.py`, the judgement of `memory/prevalidation.py`, `learn/topic_gate.py` |
| cycle pipeline (LLM, search, extract, decompose) | `learn/llm.py`, `extract.py`, `decompose.py`, `execute.py` ... |
| curiosity, gaps, hypotheses, goals, meta-learner | `learn/curiosity.py`, `hypothesis.py`, `goals.py` ... |
| spaced reviews, reports | `learn/review*.py`, `learn/report.py` |
| scores, conflicts, relations and predicates of memories | `memory/conflict.py`, `relation_decay.py`, `semantic.py`, `scorer.py` ... |
| self model, beliefs, judge, health | `core/` |
| the older chat server, retry queue | `learn/service_chat.py`, `control/` |
| accounts, rate limits, licence | `server/auth.py`, `ratelimit.py` ... |
| webhook and bots, planner, cortex, experts, proactive engine, hooks | their packages |
| knowledge graph, migration, tables | `server/knowledge_graph.py`, `storage/migrate.py` |
| client gate, self review, utilities, scripts, front end | their directories |

**Why most of the lines are not modelled.** The definitions stand for some 4 500 of 48 600 lines. What
is left is mostly not behaviour that a state machine tells apart: prompts and their parsing, page and
administration routes that call the components above, scores and decay curves in floating
point, SQL that copies tables, the TypeScript client. What remains of state machines is small and
separate, and listed in section 8.

## 2. What makes this code hard

- **Whole-file read-modify-write.** `index.json`, `pending.json`, `calibration.json`,
  `dgmh_cooldown.json` and the table of directions are read, changed and rewritten whole. The guard
  covers the whole of it for the index, the write only for the queue, and nothing of the other
  three.
- **`write_text` truncates first.** A reader in between, or after a death in between, finds a file
  that does not parse and takes it for an empty one.
- **flock is per description, `_lock_fd` per process.** A second thread passes it without waiting,
  and one `LOCK_UN` gives it up for all.
- **Copies in memory outlive the file.** The calibration singleton and the planner's registry are
  loaded once in the life of their process.
- **Flags without a common lock.** `_running`, `_health_alive` and `_thread` are written by three
  kinds of threads under two different locks.
- **Saves in many statements.** The directions are written row by row, by two threads of the learner and by other processes,
  without a lock or a transaction.
- **Attributes that are not saved.** Circuit state, cooldown, skips, streaks and the last command's
  number are lost at a restart.
- **One dictionary, many users.** Contexts, corrections and memories of all users lie in module-level
  dictionaries and in one table; only their keys keep them apart.
- **Two writers of one conversation.** The server's finishing thread and the chat page both store a turn.
- **A pool that is thrown away.** A request that meets an error drops the pool under the others.

`PROJECT.json` lists the hazards, each at its line, with the properties that would catch it. What
already goes wrong, and which no property can therefore claim, is in section 7.

## 3. The modules

Each `MC<module>.tla` gives the constants of its module values that a `.cfg` cannot write.
Mutants (operators whose comment begins with "Mutant:") stand before the definition that they are
a wrong version of; no specification uses them. Every module defines a type
invariant; most are not among the runs, since a theorem or the other properties say more.

### WriteGuard
A thread is `out` or at one of the places of `_acquire_process_lock` and `__enter__`/`__exit__`
(`at`). `Enter`/`OpenLockFile` read and set `_lock_fd` in two steps, so that two threads can open two
descriptions. `CallFlock`/`GrantFlock` are the system call: a description that holds the lock is
granted it again. `FailFlock` is the exception that the code catches and goes on without the flock.
`TakeFileLock`, `ReleaseFileLock` and `Unflock` keep the code's order: thread lock last in, first
out. `NestedWriters` are threads that enter the guard again inside it, as `delete()` does. A
description is named by the thread that opened it.

### KnowledgeIndex and AppendLog
`KnowledgeIndex` extends the guard by a call per thread (`append`, `refresh` of a topic counter,
`delete`) whose steps between `Inside` states are read, check, truncate, fill and verify, as in
`add_to_index` with its second attempt. `kb_gc` is another process, which rebuilds or prunes from a
snapshot and replaces the file without the guard. A crash ends a process at any step and frees
its locks. Contents of entries are not modelled: an entry is an id, and its topic.
`AppendLog` is what `add_to_index` promises: a set that grows by one atomic effect per call.
`KnowledgeIndex!AppendsAtomic` is its specification under the mapping `LogPhase`, which places the
effect at the write that completes the file.

### DgmhGate
An item is a target with a new value. `gate_changes` is a sequence of steps per change (cooldown,
token, grade, consume, apply), each reading or rewriting one of the files; the two review tools are
one command at a time, with their own steps and their different orders. The 24 h of tokens and
cooldowns are events that can happen at any time, so no bound on time is needed.
`SafetyShield`'s four changes per run are above the two changes of the instance.

### Experiments
`file` is `calibration.json`, `mem` the learner's singleton, `draft` what a running step holds, and
`tool` a reviewer's own copy. Saves write all parameters, loads drop those that have no default
(`learning.max_active_directions`). Time is in units of 24 h and passes only between ticks. Rates
are the values of `Rate`; their difference decides keep or revert as in `measure_due`.

### LearnerThreads
Loop threads with `_loop_id`, the daemon with its 10 s look and 10 min backoff, the worker's main
thread with its 5 s poll, the control file with one command, and the acknowledgement. Every read
or write of a shared flag that another thread can come between is a step. A loop
is in its `iterate` until it comes to a look at `_running`, its `rest`. `MinutePasses` ends the "recent" restart.
Loops die by an exception (`MaxCrashes`), the process by a signal (`MaxKills`).

### Ranks and PendingQueue
`Ranks` lists the members of a set of positions in their order without recursion, so that it can be proved about:
`Without` is the queue without some entries, as `discard_pending` and the other removals leave it.

Two actors: a thread of the API and the learner. An operation is a read (what it will write is kept in
`new`), the truncation and the filling; `behind` says that the file has changed since the read.
Practice results, sanity checks, duplicates and topics are choices. The learner keeps the order of
`check_pending`: the head of the queue, promotion before rejection before discard, the streak at
which it turns to the next. Entries that carry high confidence (`Confident`) or none
(`Worthless`) are sets of the instance.

### Directions
A direction is a saved `row` and a `mem` part that is not saved. Two threads of the learner share the registry. One turn of the
loop on one direction is one action (`Succeed`, `Fail`, `Skip`, `ReflectCompletes`, `ReflectPauses`, `Teach`,
`Test`). The cortex scheduler's thread adds a direction (`CortexAdds`, `CortexRefused`) through the same `add_direction`. Where
the code saves, the action takes a snapshot of all rows (`Saved`, of the thread that saves), and the
thread has then to write it: `SaveStep` writes one row, or deletes at last all that are not in the snapshot,
and the loop does nothing else until its save is through (`Snapshot` needs `todo` empty). `RowByRow` are the threads whose rows are
steps of their own; the others write the whole snapshot in one step after the one that took it. Where
the code does not save, nothing is taken (`NotSaved`: the refused addition, the
skip that does not trip; `Discover` pauses after its snapshot). `SaveBreaks` is the exception of a dictionary that changes its size while
it is copied. `Tune` is `autotune.tune` with its rules
in order; which directions are judged stalled by rate, saturated or old is a choice within
what the rule requires. `CleanUp` and `Archive` are the tidying from 12 directions on. `Restart` (of the process) and
`LoopRestart` (of the loop's thread, which loads too) read the rows back. `AddElsewhere` is another process's `add_direction` on the
rows it has just loaded, or on those it loaded at its start. `outdated` names the directions whose row was last written from a
state older than the registry's, by whomever, and `Lagging` adds those whose save is still under way.
Cooldown times, creation locks and bans only delay or refuse and are choices.

### ChatTurns
The handlers are coroutines that never await, so each of them is one step: `Complete` is a plain turn,
`StartStream` a streamed one up to its response. Both go through what `chat_pipeline` does in its order: refusal
or not, a reference to earlier answers, the context with its cache, blocking by the experts, the waiting
correction popped into the prompt, and then the reply, which may leave a correction for the next turn,
or the stored question. Beside them run the generator of a stream (`Chunk`, `EndStream`, dropped by
`Disconnect`) and the thread that finishes it (`FinishLooks`, `FinishInserts`, `FinishSnapshot`: the look for a
stored answer and its insertion are two steps). The page posts the whole conversation as it has it
(`SyncMessages`, a batch in one transaction; `Merged` adds the messages that are
neither stored nor earlier in the batch); after a tool call its text of an answer is not the server's. A deletion and a
restart of the API process may come between any two steps. Which users' words a prompt quotes is what its context is abstracted to
(`shown`; `recalled` for what comes from a snapshot). Snapshots lie in directories, and `FolderOf` is the code's map from users
to them, which is not one to one (`_user_dir` writes "_" for what a path may not hold): in the instance both users have the same.

### PgPool
`get_pool` is a step for each mention of `_POOL`: `Look`; without a pool `Lock`, which looks again, `Create` or
`CreateFails`, `Tables` and `TablesDone`, `Unlock`; with one `Borrow`, `Ping` and `PutBack` of a connection;
`Close` when any of it failed, which drops the pool of that moment, whichever it was that failed; `Return`. A request then borrows from
the pool it was given (`Use`), commits or leaves a transaction, and puts back. `Retry` is the thread that
calls `get_pool` for ever, `CheckBorrows`/`CheckReturns` a health check, one more of which starts with every pool.
PostgreSQL goes and comes back at any time, and takes every connection with it. A psycopg2 pool is its idle connection, how many
it takes for lent, and how many of these nobody has any more.

### MemoryStore
One key, several processes, each storing one value at a time. A value is who asked for the store and its
number; the empty user id (`Nobody`) stores for everybody. A row has the tags of a call and the users whose values its attributes
quote, an entry the tags. In PostgreSQL mode a store is the upsert and then the
layer (`PgUpsert`, `PgCache`); in SQLite mode it is the look for a locked row, the insertion and then the
layers (`LiteCheck`, `LiteInsert`, and `LiteCache` or `LiteUpgrade`, which writes the row again). `LiteCheck` is also the check
before the write, which quotes what it finds under the key (`Found`: the entry or else the row, whoever's it is) in the attributes to be
stored, and `Conflicting` what is quoted after it; the upgrade writes the tags of the cached entry. Each step may
fail and leave what was written. `Move` is what promotion by reads and by `batch_decay` does, `Archive` what decay and
fusion take away; the layer depends on scores and is a choice, so that the model allows more than the code.
`Restart` loads the rows of the store that answers. `Answers` and `Listed` are the views that a search and a
list give to a user, layers before rows.

## 4. The runs

Passing runs check that the properties hold; each property has a mutant in `PROJECT.json`, a wrong
version of one definition under which TLC finds it violated.

| run | instance | shows |
|---|---|---|
| `guard_threads` | 2 processes x 2 threads, flock may fail, one nested writer | threads of one process exclude each other whatever becomes of the flock |
| `index_appends` | 1 writing thread in each of 2 processes, 3 ids, 2 topics, 2 calls each | no append is lost, counters agree, appends are atomic (refinement of `AppendLog`) and return |
| `index_maintained` | the same with deletes, one `kb_gc`, one crash | a guarded writer meets a truncated file, and a promised id is lost, only through a death between truncating and filling or through `kb_gc` |
| `gate_tokens` | 2 values of 1 target, 2 decisions, 3 runs of the gate, one death | a plain approval lets one change through once, none passes on a lesser grade, a spent token was used |
| `experiments` | 4 days, 1 restart, 1 reviewer's command, default cap 5, minimum 4 | one experiment at a time, 48 h and 24 h kept, the cap is the logged one until the first restart, every experiment ends |
| `learner_threads` | 3 commands, 2 crashes of loops, 1 death of the process | loops stay single without a start command, are revived, all stop, a stop holds, commands are acknowledged |
| `pending_queue` | 2 entries, 1 API thread and the learner, 2 calls, 1 death | nothing is lost but by overlapping writes, promotions and rejections are earned, entries return only so, and every one leaves |
| `directions` | 2 topics, one of them a goal of the planner, 1 restart, 1 addition by the cortex thread (its save row by row, 1 save of the loop beginning meanwhile) or by another process, limits of 2 | freezes are earned, and final but for an older row and a restart; tripped pauses are saved until an older row comes; a tripped direction is tested again |
| `chat_turns` | 2 turns of one user, plain and streamed, with the page's posts; 1 of another who sends the same words and has the same directory; a deletion or a restart | contexts stay apart but for the snapshots of that directory, a correction is used once or known to be lost, no answer stands without its question, the count agrees with the messages, a streamed answer is stored |
| `pg_pool` | 1 request, the retryer, 1 health check, 4 pool names of 2 slots, the database going and coming back at any time | every slot is free or lent, no pool is overwritten, the pool comes back and, when requests are quiet, stays |
| `memory_store` | the API and the learner, 2 users, 3 stores and restarts | nobody is given a value of another's, nor by PostgreSQL's rows tags or quotes of another; a store that returned is not undone by one that ended before it began |

One more run finds what the code does against what it says:

| run | violated | the code |
|---|---|---|
| `index_delete_hangs` | `DeleteReturns` (cleanup.py:29) | `delete()` of an indexed entry enters the guard inside the guard and hangs, with the flock held, so that every writer of every process stops |

**Bounds, and why they are enough.** The races are between a pair of actors over one file: two processes,
or two threads of one, with two calls each reach every order of read, truncate, fill and verify,
including a second call that starts inside the first of the other. Limits that the code counts to
(5 practices, 3 failures, 12 directions, 3 rapid restarts) are constants, set to the least value at
which counting and resetting differ (2, or 1 where the step after it matters); the theorems
hold for every value. One crash is placed at any step; a second one adds nothing to
a state in which nothing but files survives. `MaxCalls`, `MaxGc`, `MaxCrashes`, `MaxRuns`, `MaxDecisions`,
`MaxTime`, `MaxRestarts`, `MaxTools`, `MaxCommands`, `MaxKills`, `MaxElsewhere`, `MaxOverlap`, `MaxUpsets`, `MaxEvents` and the
numbers of requests and health checks only bound what the environment does; the names of forgotten pools are used
again, so that any number of pools follow each other. `MaxOverlap` is 1 since a turn of the loop
takes half a minute and more, a save of the cortex thread some milliseconds per row; the proofs are for any number. For the pool one request, the retryer and one health check are enough to race
over creating and dropping it, to put a connection back into the next pool and to exhaust it. For the memory three events are
two racing stores after an earlier one, or two stores and a restart. In a chat, two turns of a user are what a
correction, a reference and a count need; the second user is there to be confused with the first. `CHECK_DEADLOCK FALSE` stands in the runs where the bounded environment, or a thread that hangs, may
leave nothing to do; each `.cfg` says which.

**Fairness.**
`StoreFairSpec`: a thread that can take a step of its call takes one (OS scheduling; `threading.Lock` and flock
are eventually granted when free). Nothing makes anyone start a call.
`Experiments!FairSpec`: the main loop goes on ticking; strong fairness for `TickCloses` and
`DayPasses` since restarts and other work at a tick interrupt them again and again.
`LearnerThreads!WorkerFairness`: every thread runs, minutes pass, systemd restarts the process
(`learn_worker.py:8`); no command, crash or death is promised.
`PendingQueue!Fairness`: begun calls go on and the loop comes back to its check (it does, every pass).
`Directions!Fairness`: a save that has begun goes on (weak: the thread runs); strong fairness for `Test`, which other turns and saves
interrupt: cooldowns end and every pass looks at every direction.
`ChatTurns!FairSpec`: a stream ends and its finishing thread runs; nobody is made to ask.
`PgPool!PoolFairSpec`: threads inside the pool's functions go on, the retryer and the health checks come round; no request has to be made.

## 5. What is proved

`tlapm` checks these for all values of the constants that satisfy the named assumptions. Every invariant
and every action property of a run is a theorem, but for the exclusion between processes (`ProcessExclusion`, `NoOrphanedFlock`). The modules' type invariants are theorems too.

`KnowledgeIndex_proofs`, about `WriteGuard` and `KnowledgeIndex` (from the assumptions both declare):

- `GuardTypeCorrect`, `StoreTypeCorrect`.
- `ThreadsExcluded`: `ThreadExclusion` always. Exclusion is not inductive as it stands; the
  strengthening `FileLockOwned` says that whoever is inside is the holder of its process's
  `_file_lock`.
- `CountersAgree`: `CountsAgree` until `kb_gc` has rewritten the file, whatever fails or dies.
- `AppendsSurviveCrashes`: `CrashKeepsAppends`, assuming `OneThreadEach` (one writing thread per process, an flock that does not
  fail); `AppendsKept`: `AppendKept`, assuming `WritersAlone` (besides that, no `kb_gc` and no deaths: each of them does lose appends, section 7). The first assumption is needed: with two writing
  threads in a process the flock is lost under one of them (section 7). That is also why exclusion between processes
  (`ProcessExclusion`, `NoOrphanedFlock`) is only checked, on instances with one thread each, and no theorem. `FlockOwned` ties the
  descriptor, the argument of flock and its holder together; the invariant says of
  the one thread inside what its snapshot and the file have in common at each of its places.
- `AppendsImplementLog`: under `WritersAlone` the store implements `AppendLog` (`AppendsAtomic`): initial states map to
  initial states, and each step to one of `AppendLog` or a stutter. The effect is the write that completes
  the file, or the look that finds the id there already; a second attempt finds what the first has written.

`DgmhGate_proofs` (from `TargetAssumption`, `GateBounds`, `NoItemAssumption`):

- `TypeCorrect`.
- `GradesHeld`: `AppliedWereApproved`. The invariant `GradeInv` says that a decision's id names one record
  (`IdsOnce`), that whatever is passing was granted under its id, that what a reviewer is applying was
  approved, and that no id beyond the last decision has been used.
- `TokensOnce`: `PlainTokenOnce`. `OnceInv` says of an approval that is its item's only one, not applied on the
  spot: what has passed or been used on it is spent in the log, and it is in at most one of the gate's
  three places (being consumed, passed, used). It rests on `consume_decision` marking just this approval
  (`ConsumesPlain`), which is where a second approval of the item would break it.
- `ConsumedApplied`: `ConsumedWasApplied`. `AppliedInv` says that a plain approval that is marked as consumed is passing, used, or
  known to be lost with a learner that died (`ConsumedThrough`), and that what is being consumed is in the log.

`Experiments_proofs` (from `CapAssumption`, `ExperimentBounds`):

- `TypeCorrect`.
- `OneAtATime`: `OneExperiment`; `CooldownsKept`: `CooldownKept`; `CapAsLogged`: `CapFollowsLog`. The log
  alternates (`Alternates`): an experiment opens under its own position and is closed by the next
  record, so that only the last can be open. `DraftFits` says so of the record under way, whose cap is already set.
  `CapInv` is about the singleton until the first restart; after it the code loses the cap (section 7).

`PendingQueue_proofs` (from the assumptions of `PendingQueue`):

- `PendingTypeCorrect`. Every copy of the queue is a list of records; the count of failures is only a natural number,
  since nothing but the practices bounds it.
- `PromotionsEarned`: `Earned`. `Backed` says of every copy of an entry, in the file or in an actor's hands, that its counts are not
  above the practices that happened; `Deserved` that whoever promotes or rejects holds a record that passed
  the test. It holds however the writes overlap: an outdated copy has fewer counts, never more.
- `EntriesAccounted`: `Accounted`; `EntriesStayOut`: the action property `NoReturn`. `Planned` says of
  what an actor is about to write, if the file has not changed since it read it, that it is the queue with the entry it stores and
  without what has gone elsewhere; `Fresh` that an entry being stored for the first time is nowhere yet; `Drawn` that every entry
  anywhere was drawn by a store. Hence `Kept`: what was stored is in the queue, the repository, the archive or discarded, as long
  as no write undid another. `NoTwins` says that no copy of the queue holds an entry twice.

`Learner_proofs`, about `LearnerThreads` and `Directions`:

- `WorkerTypeCorrect`, and `TypeCorrect` of the directions.
- `SingleLoop`: `OneLoop`. `LoopInv` says that while no start command has spawned a
  loop, the only loop that can live is the one `_thread` names, none lives between the daemon's decision to
  revive and its spawn, and the start at boot comes before the daemon.
- `FreezesEarned`: `FreezeEarned`; `PausedSaved`: `PausesSaved`; `FrozenForGood`: the action
  property `FrozenStays` (from `DirectionConstants`, `NoDirAssumption`).

  All three rest on one inductive invariant, `Kept`, which is `DirsKept` and `RowsKept`. `DirsKept` says of the registry: HALF_OPEN
  means tested; FROZEN means tested, with `Fails` misses, and marked frozen; frozen means paused and
  never OPEN; the count of failures is never above the failures since the last success; a tripped direction
  is paused and OPEN. `RowsKept` says of the rows of the directions that are not
  `Lagging` what a restart needs: counts not above the misses, a tripped direction's row is paused, a frozen one's
  frozen; and that no table, copy or snapshot holds a frozen row that is not paused. Without `RowsKept` a restart breaks `DirsKept`.
  Nothing is assumed of the order of the rows, of how many saves of either thread overlap, or of which threads write row by row. Each
  action has a step; those on one direction go through a lemma of their own, as do those that take a snapshot, the steps of a save, and autotune.

`ChatTurns_proofs` (from `TurnConstants`):

- `ChatTypeCorrect`.
- `ContextsApart`: `OwnContext`, for any map of users to directories. `ContextInv` says of each store a prompt is
  built from that it holds the user's own (cached contexts, correction) or that of a user with the same directory (snapshots).
- `CorrectionsUsedOnce`: `CorrectionAccounted`. `CarryInv` says that a correction is in one place only (`OnePlace`: it
  waits with the user it is of, or one prompt carried it, or it is forgotten), and that a turn that was not yet sent has neither
  left nor carried one.
- `AnswersInOrder`: `AnswerAfterQuestion`; `CountsRows`: `CountMatches`. `StoreInv` adds that the question of a turn
  whose stream or finishing thread is under way is stored, unless storing it failed or the session was deleted since (`Asked`). An
  addition at the end keeps it (`StoreGrows`) if every answer added follows its question there or finds it stored: true of the
  thread's answer by `Asked`, and of the page's batch since the page posts a question before its answer
  (`Posts`) and leaves out only what is there already (`SyncStores`). That two threads may store an answer twice does not matter to either.

`Storage_proofs`, about `PgPool` and `MemoryStore`:

- `PoolTypeCorrect`. `NoPoolReplaced`: the action property `NeverReplaced`. `LockInv` says that whoever is between
  taking and giving up the lock holds it, and finds no pool until it has created one.
- `SlotsFound`: `SlotsAccounted`. `SlotInv` counts, for every pool and not only the one in use, who holds a connection of it; a step
  changes the count by the one thread it is about.
- `MemoryTypeCorrect`; `KeptWithUser` and `NobodyElsesWords` (from `MemoryConstants`): every row, cached entry and store
  under way bears the user who stored its value, through upgrades, moves and restarts, and no row of PostgreSQL has tags or quotes of another
  (`OwnInv`), hence `OwnWords`. What SQLite's attributes quote of others is left open: the code does quote them (section 7). `NothingUndone`: `Durable`, from `DurableInv` (`DurableCorrect`): what is known of finished stores, which store each
  value comes from, and that rows are never older than what was promised when their store began.

`Ranks_proofs`: what `Ranks` says of the members of a finite set of numbers: ranks grow (`RankGrows`), every number up to
the size is one's rank (`RankCounts`), and `InOrder` lists the values in their order (`InOrderHolds`). The other modules'
proofs about parts of sequences rest on it.

Only model-checked: liveness (`AppendReturns`, `ExperimentsEnd`, `Revived`, `AllStop`, `StopHolds`,
`CommandAcked`, `Settled`, `Retested`, `StreamStored`, `Recovers`, `Settles`), which is beyond the prover: it needs fairness and
ENABLED. So is induction over data: that `Without` is what `SelectSeq` gives and `Merged` what a fold over the page's messages
gives is evaluated by TLC on small sequences (`MCPendingQueue`, `MCChatTurns`), not proved. `DeleteReturns` does not hold (section 4).

## 6. What is abstracted

- Text: topics, titles, contents, answers of the LLM are model values or choices.
- Numbers: rates, saturation, confidence are classes that the guards tell apart.
- Time: cooldowns and expiry are events; `Experiments` counts days.
- `KnowledgeIndex` leaves out the guard that `_write_entry` takes for an entry's own file; `kb_gc`'s unlinks and its replacement
  of the index are one step.
- In `PendingQueue` `Worthless` is a confidence of 0, where monitor.py:690 tests a score below 0.2.
- In `Directions` a snapshot is taken at once, and in the run the loop's is then written in one step, the cortex thread's row by row. The order of the rows
  is free. A counted failure, which the code saves twice (loop.py:579 and after the breaker), is saved once; exceptions at the first of these saves and in
  `Tune`'s own loops are left out, as is the JSON file that is written after PostgreSQL's rows and read when these are missing.
- In `ChatTurns` an older snapshot that two sessions of one user may leave is not told from the latest.
- `MemoryStore` leaves out `_force_update`, which no caller passes, and the direct insertion of `api.memory_store` when a store takes
  more than three seconds (`api/__init__.py:168-178`).
- In `PendingQueue` one API thread and the learner write; more API threads add only more of the same overlap.
- A handler of the chat is atomic up to its stream, as the event loop runs it; so is a batch the page posts (one transaction).
- In `PgPool` the methods of psycopg2's pool are atomic (they lock), and sleeps are left out.
- In `MemoryStore` there is one key; relations, events and the emotion profile have stores of their own.
- Histories (`misses`, `tested`, `tripped`, `outdated`, `stale`, `promised`, `uses`, `shown`, `recalled`, `corrects`, `carried`, `forgotten`,
  `unstored`, `acked`, `overtaken` ...) record what a
  property compares with; no guard reads them.

## 7. Differences between code and words that no run shows

Met while reading, each from the code. Those of the guard, the index and the gate, and most of the chat's, the pool's and
the memory's have also been seen in TLC, with instances that are not among the runs.

- Guard: two first users of `_lock_fd` (knowledge.py:87) can leave an flock that nobody releases; with two writing threads
  in a process the `LOCK_UN` of one drops the flock under the other (:44), so that another process gets in.
- Index: with two API threads an append is lost (knowledge.py:195); `kb_gc` overwrites appends made since its
  snapshot (`scripts/kb_gc.py:252`) and takes the topics' timestamps for counters (:249); a death while filling loses the index.
- Gate: the token consumed is the first approval of the item (dgmh.py:162), not the one found, so that a second approval is used
  twice ("一次性令牌", dgmh.py:109); `approve --apply` races the gate and does not look at the grade; a rejection does
  not veto an earlier approval (dgmh_review.py:14); two writers of the cooldown file undo each other (with one tuned target, a block written between the
  tool's reading and its writing; with more, cooldowns of other targets would come back); the queue takes an item again
  after it was applied.
- `belief_health` is never passed to the gate (loop.py:658, 1104), though tests/test_dgmh_wiring.py:3-6 describe it.
- Calibration: keys without a default are dropped at load (calibration.py:357), so `interventions.enabled` is never read
  and a kept cap is forgotten; saving the cap writes the singleton's old thresholds over those the gate has saved since (:474).
- Learner: the daemon counts looks, not deaths (loop.py:1708); the heartbeat thread is not started again with a revived
  loop (:1664); a stop and a start while the loop is busy leave two loops (:205), and so can `start()` and the daemon, which
  spawn under different locks (:1716).
- Queue: `check_pending` says 20 (scheduler.py:160), the code 10 (:184); `store_pending` returns the entry as approved even when approval
  is refused (knowledge.py:1362-1364); the limit is checked on one reading and the entry appended to another (:1351).
- Directions: the class of a failure comes from the task's name (loop.py, `_reason_cat`); HALF_OPEN is not left on
  success; after a restart a paused OPEN direction is not tested again, and Rule 6 resumes one only beside an active direction; a save deletes
  rows other processes added (direction.py:110); an archived topic can be created again by asking twice (:273, :287).
- Directions: the cortex scheduler's thread (`src/learn_worker.py:98-105`, cortex/scheduler.py:34) saves the registry statement by statement without a
  lock, so that its older snapshot can be written over a freeze or a pause that the loop has just saved, and the next restart undoes it; an addition by
  one thread while the other copies the dictionary makes that save raise, which is only logged; a restart of the loop's thread alone also
  forgets circuits and cooldowns, as it loads the rows again (loop.py:1272).
- Monitor: the reason for an L6 trip reads `_low_conf_streak`, which nothing increments (metacog_monitor.py:240); `evaluate` records a
  tick and the rate limit consumes another, so that the 24 h budget is spent twice as fast (:267).
- Chat: the finishing is said to survive a client that disconnects (routes_chat.py:274-275), but the generator is dropped before :728, which starts it;
  the finishing thread inserts after its look, so that a page's post in between leaves the answer twice (db.py:536 calls it
  idempotent), and turns with tools are stored in both texts; a question asked again is not stored again; a batch gets one
  `created_at`, by which the messages are sorted.
- Chat: the cached context keeps what was added to it for one turn (service_chat.py:525); a correction is popped before
  the model is called, and lost if that fails; `call_llm_stream` is a generator, so that its caller's `except LLMError` never
  applies; users without an e-mail share one snapshot, and the
  look into the cache fails for them (:472). So do users who differ only in characters that `_user_dir` replaces by "_"
  (session_manager.py:69, `x+y@z.com` and `x_y@z.com`): the summary one of them is shown has up to 80 characters of the other's last question and 60 of its answer.
- Pool: `_close_pool` calls a `.close()` that psycopg2's pools do not have, so that connections stay open; `_POOL` is visible before it has its
  tables, and stays when they fail; every pool starts another health check that never ends; a pool that is merely exhausted is
  dropped like a lost one; threads that met an old pool's failure drop the next, healthy one; a fetch whose `putconn` raises
  loses a slot.
- Memory: an upgrade in SQLite mode leaves the old value, and its user, in the layers ("kept in sync by the callers",
  memory/__init__.py:134); a key may lie in two layers, of which the procedural one answers first with the older value; the PostgreSQL upsert takes
  over a row of another user; rows written to SQLite during an outage are not carried back; a reload does not restore strength, status and
  expiry (:536-538); archived entries are still found through the rows (decay.py:9 says hidden).
- Memory: the lock of rows of confidence 0.9 is a check before the insertion, and absent in PostgreSQL mode; storing a locked key again through
  the other mode unlocks it; the previous value is read after the new one was written, so that a conflict is only seen when
  another process has stored for the same user in between.
- Memory: in SQLite mode the check before a write puts up to 60 characters of the value found under the key, whoever's it is, into
  the attributes of the new row (`_pv_reason`, memory/__init__.py:728, prevalidation.py:140), and what is found after it into `_conflict_old`; `search_entities` returns the
  attributes (:1153). An upgrade writes the tags of the cached entry, which may be another user's (:873).

## 8. Plan

Done: `WriteGuard`, `KnowledgeIndex`, `AppendLog`, `DgmhGate`, `Experiments`, `LearnerThreads`, `PendingQueue`,
`Directions`, `ChatTurns`, `PgPool`, `MemoryStore`; proofs of all their invariants and action properties but the two named in section 5.

To model, most important first:

1. `Monitor`: the metacognition monitor with its budget, streak and breaker, and what the loop and the chat do when it trips.
2. `Embeddings`: the vector cache beside `KnowledgeIndex`, its thread and its shared temporary file.
3. The LLM client's semaphore, whose permit is given back when a call times out while the call goes on; the rate limiter and
   the verification codes.
4. `Webhook`, `Proactive`, `Hooks`: locks per session, frequency gate, tracker file.
5. Functions: SM-2 intervals, backoff times and the decay curve against reference definitions.
6. An abstract specification of a queue "quarantined, then exactly one of active, rejected, gone" for `PendingQueue` without overlap.

To prove: that `PendingQueue` without overlap implements item 6; what a loop that is stopped can still do in `LearnerThreads`
(no new loop while `_health_alive` is off and the daemon has ended); the safety part of each liveness property.

## 9. Running

    tlc -config PendingQueue.cfg MCPendingQueue.tla
    tlapm Learner_proofs.tla

The largest runs (`directions`, `chat_turns`, `memory_store`) take about two minutes with two workers.
