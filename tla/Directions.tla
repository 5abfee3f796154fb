----------------------------- MODULE Directions -----------------------------
(***************************************************************************)
(* The learning directions: the registry in the learner's memory           *)
(* (learn/direction.py), what its main loop does with each of them         *)
(* (learn/loop.py), the rules of learn/autotune.py, and the table in which *)
(* they are saved.                                                         *)
(*                                                                         *)
(* A direction that fails trips its circuit breaker: it is paused, OPEN;   *)
(* after a cooldown the loop tests it, HALF_OPEN; if it fails again it is  *)
(* FROZEN and no longer resumed.  The circuit's state, the cooldown and    *)
(* the count of skips are attributes that the dataclass does not declare,  *)
(* so that they are not saved, and a restart forgets them.                 *)
(*                                                                         *)
(* Two threads of the learner's process share the registry without a lock: *)
(* the loop, a turn of which is one step here, and the cortex scheduler,   *)
(* which adds directions.  Each saves in the same way: it takes a snapshot *)
(* of all rows, writes them one by one, and deletes the rows that are not  *)
(* in the snapshot.  Another process (the CLI, or the planner in the API)  *)
(* does the same with the copy it has loaded.                              *)
(*                                                                         *)
(* Locks and bans that delay the creation of a topic, and the tests that   *)
(* refuse one, are a choice.                                               *)
(***************************************************************************)
EXTENDS Naturals, FiniteSets

CONSTANTS
  Topic, NoDir,
  Goal,        \* topics that the planner's milestones and the operators ask for
  Fails,       \* counted failures in a row that trip the breaker
  QSkips,      \* skips in a row that do
  Stall,       \* cycles after which a direction without entries is stalled
  Enough,      \* paused directions from which Rule 6 resumes one ...
  Few,         \* ... if fewer than so many are active
  Cap, Keep,   \* directions from which the loop tidies up, and how many stay
  MaxActive,   \* limit of active directions for a new one
  RowByRow,    \* threads whose statements of a save are steps of their own
  MaxRestarts, \* bound: restarts of the learner, or of its loop
  MaxElsewhere, \* bound: additions by the cortex thread or another process
  MaxOverlap   \* bound: saves that the loop begins during one of the cortex thread

ASSUME DirectionConstants ==
  /\ Goal \subseteq Topic
  /\ {Fails, QSkips, Stall, Enough, Few, Cap, Keep, MaxActive} \subseteq Nat \ {0}
  /\ {MaxRestarts, MaxElsewhere, MaxOverlap} \subseteq Nat
  /\ Keep <= Cap

VARIABLES
  dirs,      \* the learner's registry
  table,     \* the saved one
  snap,      \* snap[s]: the rows that thread s has still to save
  todo,      \* todo[s]: the topics of these rows
  copy,      \* the registry of the planner's process, started with the learner
  tripped,   \* history: directions paused by the breaker since the start
  misses,    \* history: failures since the last success, as far as they matter
  tested,    \* history: directions tested in this life of the learner
  outdated,  \* history: directions whose row was last written from an older
             \* state than the registry's, or could not be written
  restarts, elsewhere, overlap

saves == <<snap, todo>>

history == <<tripped, misses, tested, outdated>>
bounds == <<restarts, elsewhere, overlap>>
vars == <<dirs, table, saves, copy, history, bounds>>

Saver == {"loop", "cortex"}

Status == {"active", "paused", "completed", "archived"}
\* CLOSED: the attribute is not set.
Circuit == {"CLOSED", "OPEN", "HALF_OPEN", "FROZEN"}
Row == [status : Status, frozen : BOOLEAN, fails : 0 .. Fails,
        cycles : 0 .. Stall, productive : BOOLEAN]
Unsaved == [circuit : Circuit, skips : 0 .. QSkips]
Direction == [row : Row, mem : Unsaved]

ASSUME NoDirAssumption == NoDir \notin Direction \cup Row

DirectionsTypeOK ==
  /\ dirs \in [Topic -> Direction \cup {NoDir}]
  /\ table \in [Topic -> Row \cup {NoDir}] /\ copy \in [Topic -> Row \cup {NoDir}]
  /\ snap \in [Saver -> [Topic -> Row \cup {NoDir}]] /\ todo \in [Saver -> SUBSET Topic]
  /\ {tripped, tested, outdated} \subseteq SUBSET Topic
  /\ misses \in [Topic -> 0 .. Fails]
  /\ restarts \in 0 .. MaxRestarts /\ elsewhere \in 0 .. MaxElsewhere
  /\ overlap \in 0 .. MaxOverlap

NewRow == [status |-> "active", frozen |-> FALSE, fails |-> 0, cycles |-> 0, productive |-> FALSE]
Fresh == [circuit |-> "CLOSED", skips |-> 0]
NewDirection == [row |-> NewRow, mem |-> Fresh]

NoRows == [t \in Topic |-> NoDir]
NoSnaps == [s \in Saver |-> NoRows]
NoTodo == [s \in Saver |-> {}]

Init ==
  /\ dirs = NoRows /\ table = NoRows /\ copy = NoRows
  /\ snap = NoSnaps /\ todo = NoTodo
  /\ tripped = {} /\ tested = {} /\ misses = [t \in Topic |-> 0]
  /\ outdated = {} /\ restarts = 0 /\ elsewhere = 0 /\ overlap = 0

-----------------------------------------------------------------------------
(***************************************************************************)
(* The registry                                                            *)
(***************************************************************************)

Upto(bound, n) == IF n > bound THEN bound ELSE n
Known(registry) == {t \in Topic : registry[t] # NoDir}
Has(t, status) == dirs[t] # NoDir /\ dirs[t].row.status = status
With(status) == {t \in Topic : Has(t, status)}

\* DirectionManager.save: all rows, and no other, are to be saved.
Rows(registry) == [t \in Topic |-> IF registry[t] = NoDir THEN NoDir ELSE registry[t].row]
Snapshot(s, rows) ==
  /\ todo[s] = {} /\ todo' = [todo EXCEPT ![s] = Topic]
  /\ snap' = [snap EXCEPT ![s] = rows]
  /\ UNCHANGED <<table, copy, outdated>>

\* The loop saves, or does not: it takes no further step until its save is through.
LoopSaves(rows) ==
  /\ Snapshot("loop", rows)
  /\ IF todo["cortex"] = {} THEN overlap' = 0
     ELSE overlap < MaxOverlap /\ overlap' = overlap + 1
  /\ UNCHANGED <<restarts, elsewhere>>
Saved == LoopSaves(Rows(dirs'))
NotSaved == todo["loop"] = {} /\ UNCHANGED <<table, saves, copy, outdated, bounds>>

\* What the histories forget of directions that have gone.
Forget(gone) ==
  /\ tripped' = tripped \ gone /\ tested' = tested \ gone
  /\ misses' = [t \in Topic |-> IF t \in gone THEN 0 ELSE misses[t]]

\* add: unknown, or archived; the archived record goes even if it is refused.
Addable(t) == dirs[t] = NoDir \/ Has(t, "archived")
Add(t) ==
  /\ Addable(t) /\ Cardinality(With("active")) < MaxActive
  /\ dirs' = [dirs EXCEPT ![t] = NewDirection]
  /\ Forget({t})
  /\ Saved

AddRefused(t) ==
  /\ Has(t, "archived")
  /\ dirs' = [dirs EXCEPT ![t] = NoDir]
  /\ Forget({t})
  /\ NotSaved

\* try_discover_new_directions: saved as active, then paused in memory.
Discover(t) ==
  /\ Addable(t) /\ Cardinality(With("active")) < MaxActive
  /\ dirs' = [dirs EXCEPT ![t] = [NewDirection EXCEPT !.row.status = "paused"]]
  /\ Forget({t})
  /\ LoopSaves([Rows(dirs) EXCEPT ![t] = NewRow])

-----------------------------------------------------------------------------
(***************************************************************************)
(* One turn of the main loop on one direction                              *)
(***************************************************************************)

Becomes(t, d) == dirs' = [dirs EXCEPT ![t] = d]
Cycled(d) == [d EXCEPT !.row.cycles = Upto(Stall, @ + 1)]

\* Mutant: a pause without the circuit's state.
TripPauseOnly(d) == [d EXCEPT !.row.status = "paused"]

\* Paused by the breaker.  The cooldown (ten minutes and more) is the time that
\* passes until Test, and over whenever a direction is active.
Trip(d) == [d EXCEPT !.row.status = "paused", !.mem.circuit = "OPEN"]

\* Mutant: a success leaves the count of failures as it is.
SucceedCounting(t) ==
  /\ Has(t, "active")
  /\ Becomes(t, [Cycled(dirs[t]) EXCEPT !.row.productive = TRUE, !.mem.skips = 0])
  /\ misses' = [misses EXCEPT ![t] = 0]
  /\ UNCHANGED <<tripped, tested>>
  /\ Saved

\* on_store: the circuit stays HALF_OPEN if it was.
Succeed(t) ==
  /\ Has(t, "active")
  /\ Becomes(t, [Cycled(dirs[t]) EXCEPT !.row.productive = TRUE,
                                        !.row.fails = 0, !.mem.skips = 0])
  /\ misses' = [misses EXCEPT ![t] = 0]
  /\ UNCHANGED <<tripped, tested>>
  /\ Saved

Missed(t) == misses' = [misses EXCEPT ![t] = Upto(Fails, @ + 1)]

\* A failure that counts: its task is named after a timeout or a vain search.
Fail(t) ==
  LET d == [Cycled(dirs[t]) EXCEPT !.row.fails = Upto(Fails, @ + 1)]
      trips == d.row.fails >= Fails
      freezes == trips /\ d.mem.circuit = "HALF_OPEN"
  IN  /\ Has(t, "active")
      /\ Becomes(t,
           IF freezes THEN [d EXCEPT !.row.status = "paused", !.row.frozen = TRUE,
                                     !.mem.circuit = "FROZEN"]
           ELSE IF trips THEN Trip(d) ELSE d)
      /\ tripped' = IF trips /\ ~freezes THEN tripped \cup {t} ELSE tripped
      /\ Missed(t) /\ UNCHANGED tested
      /\ Saved

\* Mutant: the pause after a row of skips is not saved.
SkipUnsaved(t) ==
  LET d == [Cycled(dirs[t]) EXCEPT !.mem.skips = Upto(QSkips, @ + 1)]
      trips == d.mem.skips >= QSkips
  IN  /\ Has(t, "active")
      /\ Becomes(t, IF trips THEN Trip(d) ELSE d)
      /\ tripped' = IF trips THEN tripped \cup {t} ELSE tripped
      /\ UNCHANGED <<misses, tested>>
      /\ NotSaved

\* Any other failure is a skip (quality, validation).
Skip(t) ==
  LET d == [Cycled(dirs[t]) EXCEPT !.mem.skips = Upto(QSkips, @ + 1)]
      trips == d.mem.skips >= QSkips
  IN  /\ Has(t, "active")
      /\ Becomes(t, IF trips THEN Trip(d) ELSE d)
      /\ tripped' = IF trips THEN tripped \cup {t} ELSE tripped
      /\ UNCHANGED <<misses, tested>>
      /\ IF trips THEN Saved ELSE NotSaved

\* _reflect_generate_tasks: no task is left.  The direction is completed (after
\* three rounds, or by what is in the base), paused as it lags behind, or goes on.
Complete(d) == [d EXCEPT !.row.status = "completed"]

ReflectCompletes(t) ==
  /\ Has(t, "active")
  /\ Becomes(t, Complete(dirs[t]))
  /\ UNCHANGED <<tripped, misses, tested>>
  /\ Saved

ReflectPauses(t) ==
  /\ Has(t, "active") /\ dirs[t].row.cycles = Stall
  /\ Becomes(t, Trip(dirs[t]))
  /\ tripped' = tripped \cup {t} /\ UNCHANGED <<misses, tested>>
  /\ Saved

\* _teach_one_cycle, without LLM and search: a preset, or none is left.
Teach(t) ==
  /\ Has(t, "active")
  /\ \/ Becomes(t, [Cycled(dirs[t]) EXCEPT !.row.productive = TRUE])
     \/ Becomes(t, Complete(dirs[t]))
  /\ UNCHANGED <<tripped, misses, tested>>
  /\ Saved

\* The breaker's cooldown is over: the direction is tested.
Test(t) ==
  /\ Has(t, "paused") /\ dirs[t].mem.circuit = "OPEN"
  /\ Becomes(t, [dirs[t] EXCEPT !.row.status = "active", !.mem.circuit = "HALF_OPEN"])
  /\ tripped' = tripped \ {t} /\ tested' = tested \cup {t} /\ UNCHANGED misses
  /\ Saved

-----------------------------------------------------------------------------
(***************************************************************************)
(* autotune.tune, at a tick of the same thread                             *)
(***************************************************************************)

Stalled(t) == dirs[t].row.cycles = Stall /\ ~dirs[t].row.productive

\* Rules 1, 3 and 4: stalled, struggling (by its rate), saturated.
Judged(pause, done) ==
  [t \in Topic |-> IF t \in pause THEN [dirs[t] EXCEPT !.row.status = "paused"]
                   ELSE IF t \in done THEN Complete(dirs[t]) ELSE dirs[t]]
\* Rule 5: old, paused and without entries.
Evictable(r) == {t \in Known(r) : r[t].row.status = "paused" /\ ~r[t].row.productive}
Without(r, gone) == [t \in Topic |-> IF t \in gone THEN NoDir ELSE r[t]]

\* Mutant: Rule 6 asks for the state of the circuit only.
ResumableByCircuit(r, t) ==
  r[t].row.status = "paused" /\ r[t].mem.circuit = "CLOSED"

\* Rule 6: paused, and neither frozen nor in the hands of the breaker.
Resumable(r, t) ==
  /\ r[t].row.status = "paused" /\ ~r[t].row.frozen
  /\ r[t].mem.circuit = "CLOSED"

\* ... the one with most entries is resumed, if many are paused and few active.
Resumed(r) ==
  LET paused == {t \in Known(r) : r[t].row.status = "paused"}
      candidates == {t \in Known(r) : Resumable(r, t)}
      best == {t \in candidates : r[t].row.productive}
      choice == IF best = {} THEN candidates ELSE best
  IN  IF Cardinality(paused) < Enough \/ Cardinality(With("active")) >= Few
         \/ choice = {}
      THEN {r}
      ELSE {[r EXCEPT ![t].row.status = "active"] : t \in choice}

Tune ==
  \E pause, done \in SUBSET With("active") :
    /\ With("active") # {} /\ pause \cap done = {}
    /\ \A t \in pause : Stalled(t) \/ dirs[t].row.productive
    /\ \A t \in done : dirs[t].row.productive
    /\ \E gone \in SUBSET Evictable(Judged(pause, done)) :
         /\ dirs' \in Resumed(Without(Judged(pause, done), gone))
         /\ Forget(gone)
    /\ dirs' # dirs
    /\ Saved

-----------------------------------------------------------------------------
(***************************************************************************)
(* Too many directions: the loop tidies up                                 *)
(***************************************************************************)

Crowded == Cardinality(Known(dirs)) >= Cap
Surplus == Cardinality(Known(dirs)) - Keep

\* Paused ones without a cycle, then those stalled, as many as are too many.
CleanUp ==
  LET stale == {t \in With("paused") : dirs[t].row.cycles = 0 /\ ~dirs[t].row.productive}
      stuck == {t \in With("paused") : Stalled(t)}
  IN  \E gone \in SUBSET (stale \cup stuck) :
        /\ Crowded /\ gone # {}
        /\ Cardinality(gone) = Upto(Surplus, Cardinality(stale \cup stuck))
        /\ gone \subseteq stale \/ stale \subseteq gone
        /\ dirs' = Without(dirs, gone)
        /\ Forget(gone)
        /\ Saved

\* Completed ones of high saturation are archived.
Archive ==
  \E some \in SUBSET With("completed") :
    /\ Crowded /\ some # {} /\ Cardinality(some) <= Surplus
    /\ dirs' = [t \in Topic |-> IF t \in some THEN [dirs[t] EXCEPT !.row.status = "archived"]
                                ELSE dirs[t]]
    /\ UNCHANGED <<tripped, misses, tested>>
    /\ Saved

-----------------------------------------------------------------------------
(***************************************************************************)
(* The cortex scheduler's thread, and the saves                            *)
(***************************************************************************)

Elsewhere ==
  /\ elsewhere < MaxElsewhere /\ elsewhere' = elsewhere + 1
  /\ overlap' = 0 /\ UNCHANGED restarts

\* add_direction for a milestone of the planner: the same code as the loop's.
CortexAdds(t) ==
  /\ Addable(t) /\ Cardinality(With("active")) < MaxActive
  /\ dirs' = [dirs EXCEPT ![t] = NewDirection]
  /\ Forget({t})
  /\ Snapshot("cortex", Rows(dirs'))
  /\ Elsewhere

CortexRefused(t) ==
  /\ Has(t, "archived") /\ todo["cortex"] = {}
  /\ dirs' = [dirs EXCEPT ![t] = NoDir]
  /\ Forget({t})
  /\ UNCHANGED <<table, saves, copy, outdated>>
  /\ Elsewhere

\* save_config_to_file: some of the rows are written, or deleted.
Writes(s, some) ==
  /\ table' = [t \in Topic |-> IF t \in some THEN snap[s][t] ELSE table[t]]
  /\ outdated' = (outdated \ some) \cup {t \in some : snap[s][t] # Rows(dirs)[t]}
  /\ snap' = [snap EXCEPT ![s] = [t \in Topic |-> IF t \in some THEN NoDir ELSE snap[s][t]]]
  /\ todo' = [todo EXCEPT ![s] = @ \ some]
  /\ UNCHANGED <<dirs, copy, tripped, misses, tested, bounds>>

\* Row by row; last, all that are not in the snapshot are deleted.
Gone(s) == {t \in todo[s] : snap[s][t] = NoDir}
SaveStep(s) ==
  \/ s \in RowByRow /\ \E t \in todo[s] \ Gone(s) : Writes(s, {t})
  \/ /\ todo[s] # {} /\ (s \in RowByRow => todo[s] = Gone(s))
     /\ Writes(s, todo[s])

\* The dictionary has changed its size while the snapshot was being taken:
\* the save raises an exception, which the caller of the turn only logs.
SaveBreaks(s) ==
  /\ todo[s] = Topic /\ {t \in Topic : snap[s][t] # NoDir} # Known(dirs)
  /\ snap' = [snap EXCEPT ![s] = NoRows] /\ todo' = [todo EXCEPT ![s] = {}]
  /\ outdated' = IF s = "loop" THEN outdated \cup {t \in Topic : table[t] # Rows(dirs)[t]}
                 ELSE outdated
  /\ UNCHANGED <<dirs, table, copy, tripped, misses, tested, bounds>>

-----------------------------------------------------------------------------
(***************************************************************************)
(* Restarts, and other processes                                           *)
(***************************************************************************)

\* Directions whose change the table does not show.
Lagging == outdated \cup todo["loop"]

\* load: the rows, and nothing of what was not saved.
Loaded(t) == [row |-> table[t], mem |-> Fresh]
Restarted ==
  /\ restarts < MaxRestarts /\ restarts' = restarts + 1
  /\ misses' = [t \in Topic |-> IF t \in Lagging /\ table[t] # NoDir THEN table[t].fails
                                ELSE misses[t]]
  /\ UNCHANGED <<table, copy, elsewhere, overlap>>

\* Of the process: the saves that were under way are lost.
Restart ==
  /\ Restarted
  /\ dirs' = [t \in Topic |-> IF table[t] = NoDir THEN NoDir ELSE Loaded(t)]
  /\ tripped' = {} /\ tested' = {} /\ outdated' = {}
  /\ snap' = NoSnaps /\ todo' = NoTodo

\* Of the loop's thread alone: what has no row stays as it is.
LoopRestart ==
  /\ Restarted /\ todo["loop"] = {}
  /\ dirs' = [t \in Topic |-> IF table[t] = NoDir THEN dirs[t] ELSE Loaded(t)]
  /\ tripped' = {t \in tripped : table[t] = NoDir}
  /\ tested' = {t \in tested : table[t] = NoDir}
  /\ outdated' = {t \in outdated : table[t] = NoDir}
  /\ UNCHANGED saves

\* AddElsewhere in another process, on the rows it holds: the command line has
\* just loaded them, the planner's process when it was started.
AddElsewhere(t, rows) ==
  /\ rows[t] # NoDir => rows[t].status = "archived"
  /\ table' = [rows EXCEPT ![t] = NewRow]
  /\ outdated' = outdated \cup {u \in Topic : rows[u] # table[u]}
  /\ copy' = IF rows = copy THEN table' ELSE copy
  /\ elsewhere < MaxElsewhere /\ elsewhere' = elsewhere + 1
  /\ UNCHANGED <<dirs, saves, tripped, misses, tested, restarts, overlap>>

Turn(t) ==
  \/ Add(t) \/ AddRefused(t) \/ Discover(t)
  \/ Succeed(t) \/ Fail(t) \/ Skip(t)
  \/ ReflectCompletes(t) \/ ReflectPauses(t) \/ Teach(t)
  \/ Test(t)

Others(t) ==
  \/ CortexAdds(t) \/ CortexRefused(t)
  \/ AddElsewhere(t, table) \/ AddElsewhere(t, copy)

Saving == \E s \in Saver : SaveStep(s) \/ SaveBreaks(s)

Next ==
  \/ \E t \in Topic : Turn(t)
  \/ \E t \in Goal : Others(t)
  \/ Tune \/ CleanUp \/ Archive \/ Saving \/ Restart \/ LoopRestart

Spec == Init /\ [][Next]_vars

\* Cooldowns end, every pass of the loop looks at every direction, and a save
\* comes to its end.
Fairness ==
  /\ \A s \in Saver : WF_vars(SaveStep(s))
  /\ \A t \in Topic : SF_vars(Test(t))
FairSpec == Spec /\ Fairness

-----------------------------------------------------------------------------
(***************************************************************************)
(* Properties                                                              *)
(***************************************************************************)

\* A direction is frozen only after it was tested, and after as many counted
\* failures as trip the breaker without a success among them, also if restarts
\* came in between ("HALF_OPEN fail -> permanent freeze", loop.py:581).
FreezeEarned ==
  \A t \in Known(dirs) :
    dirs[t].mem.circuit = "FROZEN" => t \in tested /\ misses[t] = Fails

\* A frozen direction is never worked on again, whatever the autotune resumes;
\* nor after a restart, if its row could be saved and was not overwritten with
\* an older one by the cortex thread or another process ("permanently frozen",
\* loop.py:592).
FrozenStays ==
  [][\A t \in Known(dirs) :
       (dirs[t].row.frozen /\ dirs'[t] # NoDir /\ (restarts' = restarts \/ t \notin Lagging))
         => dirs'[t].row.frozen /\ dirs'[t].row.status = "paused"]_vars

\* A direction that the breaker has paused is saved as such, once the loop's save
\* is through and until an older row comes later: a restart does not go on with it.
PausesSaved ==
  \A t \in tripped \ Lagging : table[t] # NoDir /\ table[t].status = "paused"

\* A direction that the breaker has paused is tested again, or removed; only a
\* restart forgets to.
Retested == \A t \in Topic : (t \in tripped) ~> (t \notin tripped)

=============================================================================
