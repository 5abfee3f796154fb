---------------------------- MODULE Learner_proofs ----------------------------
(***************************************************************************)
(* The learner: the threads of its process and the learning directions.    *)
(*                                                                         *)
(* One loop, for any number of loop threads, crashes, deaths and looks of  *)
(* the daemon.  While no start command has spawned one, whatever lives is  *)
(* the thread that _thread names, so that the look at it is a look at all; *)
(* between the daemon's second look and its spawn nobody else spawns,      *)
(* since the start at boot comes before there is a daemon.                 *)
(*                                                                         *)
(* The circuit breaker of the directions, for any number of topics, any    *)
(* limits and any number of restarts and of additions by other processes.  *)
(***************************************************************************)
EXTENDS LearnerThreads, Directions, FiniteSetTheorems, TLAPS

\* The worker has not got past the start it does at boot.
Booting == worker = "down" \/ (worker \in {"starting", "spawning"} /\ cmd = None)

OnlyNamed == Live \subseteq {thread}

LoopInv ==
    /\ loop \in [Loop -> {"dead", "iterate", "rest"}]
    /\ ~commanded => /\ OnlyNamed
                     /\ daemon = "spawn" => Live = {}
                     /\ Booting => daemon = "none" /\ Live = {}

(* Initially nothing lives. *)
LEMMA InitLoopInv == WorkerInit => LoopInv
  BY DEF WorkerInit, LoopInv, OnlyNamed, Live

(* Whoever spawns where nothing lives leaves one loop, the one _thread names. *)
LEMMA SpawnsOne ==
    ASSUME LoopInv, NEW m \in Loop, Spawn(m), Live = {}
    PROVE  loop' \in [Loop -> {"dead", "iterate", "rest"}] /\ OnlyNamed'
  BY DEF LoopInv, Spawn, Live, OnlyNamed

(* A spawn keeps the types. *)
LEMMA SpawnsTyped ==
    ASSUME LoopInv, NEW m \in Loop, Spawn(m)
    PROVE  loop' \in [Loop -> {"dead", "iterate", "rest"}]
  BY DEF LoopInv, Spawn

(* No step of a loop thread brings another to life. *)
LEMMA LoopKeeps ==
    ASSUME LoopInv, NEW m \in Loop, LoopStep(m) \/ CrashLoop(m)
    PROVE  LoopInv'
<1>1. /\ loop' \in [Loop -> {"dead", "iterate", "rest"}] /\ Live' \subseteq Live
      /\ UNCHANGED <<thread, daemon, worker, cmd, commanded>>
  BY DEF LoopStep, GoToRest, GoOn, Finish, CrashLoop, LoopInv, Live, health, main, workerHistory
<1>2. QED
  BY <1>1 DEF LoopInv, OnlyNamed, Booting

(* The daemon looks at the thread there is, and spawns where none lives. *)
LEMMA DaemonKeeps ==
    ASSUME LoopInv, DaemonStep \/ MinutePasses
    PROVE  LoopInv'
<1>1. CASE \E m \in Loop : DaemonSpawns(m)
  <2>1. PICK m \in Loop : DaemonSpawns(m)
    BY <1>1
  <2>2. Spawn(m) /\ daemon = "spawn" /\ daemon' = "asleep" /\ UNCHANGED <<worker, cmd, commanded>>
    BY <2>1 DEF DaemonSpawns, main, workerHistory
  <2>3. CASE commanded
    BY <2>2, <2>3, SpawnsTyped DEF LoopInv
  <2>4. CASE ~commanded
    <3>1. Live = {} /\ ~Booting
      BY <2>2, <2>4 DEF LoopInv
    <3>2. ~Booting'
      BY <2>2, <3>1 DEF Booting
    <3>3. QED
      BY <2>2, <3>1, <3>2, SpawnsOne DEF LoopInv
  <2>5. QED
    BY <2>3, <2>4
<1>2. CASE DaemonRevives
  <2>1. /\ daemon = "respawn" /\ thread \notin Live /\ daemon' = "spawn"
        /\ UNCHANGED <<thread, loop, worker, cmd, commanded>>
    BY <1>2 DEF DaemonRevives, IsAlive, loops, main
  <2>2. ~commanded => Live = {} /\ ~Booting
    BY <2>1 DEF LoopInv, OnlyNamed
  <2>3. QED
    BY <2>1, <2>2 DEF LoopInv, OnlyNamed, Booting, Live
<1>3. CASE \/ DaemonWake \/ DaemonEnd \/ DaemonCooled \/ DaemonFindsAlive \/ DaemonBacksOff
           \/ DaemonFindsDead \/ DaemonSkips
  <2>1. daemon # "none" /\ daemon' # "spawn" /\ UNCHANGED <<thread, loop, worker, cmd, commanded>>
    BY <1>3 DEF DaemonWake, DaemonEnd, DaemonCooled, DaemonFindsAlive, DaemonBacksOff,
                DaemonFindsDead, DaemonSkips, loops, main, workerHistory
  <2>2. QED
    BY <2>1 DEF LoopInv, OnlyNamed, Booting, Live
<1>4. CASE MinutePasses
  BY <1>4 DEF MinutePasses, loops, main, workerHistory, LoopInv, OnlyNamed, Booting, Live
<1>5. QED
  BY <1>1, <1>2, <1>3, <1>4 DEF DaemonStep

(* Only a start command, or the start at boot, makes the worker spawn. *)
LEMMA WorkerKeeps ==
    ASSUME LoopInv, Boot \/ WorkerStep \/ Kill
    PROVE  LoopInv'
<1>1. CASE Boot
  <2>1. worker = "down" /\ UNCHANGED <<thread, loop, daemon, commanded>>
    BY <1>1 DEF Boot, loops, health, workerHistory
  <2>2. ~commanded => daemon = "none" /\ Live = {} /\ OnlyNamed
    BY <2>1 DEF LoopInv, Booting
  <2>3. Live' = Live /\ (OnlyNamed => OnlyNamed')
    BY <2>1 DEF Live, OnlyNamed
  <2>4. QED
    BY <2>1, <2>2, <2>3 DEF LoopInv
<1>2. CASE PollStart
  <2>1. worker' = "starting" /\ cmd' # None /\ UNCHANGED <<thread, loop, daemon, commanded>>
    BY <1>2 DEF PollStart, New, None, loops, health, workerHistory
  <2>2. QED
    BY <2>1 DEF LoopInv, OnlyNamed, Booting, Live
<1>3. CASE StartChecks
  <2>1. /\ worker = "starting" /\ worker' = "spawning"
        /\ UNCHANGED <<cmd, thread, loop, daemon, commanded>>
    BY <1>3 DEF StartChecks, loops, health, workerHistory
  <2>2. QED
    BY <2>1 DEF LoopInv, OnlyNamed, Booting, Live
<1>4. CASE PollStop \/ PollNothing \/ StopEnds \/ StartDeclined \/ CheckAlive
  <2>1. worker' \in {"stopping", "check", "poll"} /\ UNCHANGED <<thread, loop, daemon, commanded>>
    BY <1>4 DEF PollStop, PollNothing, StopEnds, StartDeclined, CheckAlive, Acknowledge,
                loops, health, workerHistory
  <2>2. QED
    BY <2>1 DEF LoopInv, OnlyNamed, Booting, Live
<1>5. CASE \E m \in Loop : Start(m)
  <2>1. PICK m \in Loop : Start(m)
    BY <1>5
  <2>2. /\ Spawn(m) /\ worker = "spawning" /\ worker' = "check"
        /\ daemon' = IF daemon = "none" THEN "asleep" ELSE daemon
        /\ commanded' = (commanded \/ cmd # None)
    BY <2>1 DEF Start, Acknowledge
  <2>3. CASE commanded'
    BY <2>2, <2>3, SpawnsTyped DEF LoopInv
  <2>4. CASE ~commanded'
    <3>1. ~commanded /\ Live = {} /\ daemon = "none"
      BY <2>2, <2>4 DEF LoopInv, Booting
    <3>2. daemon' # "spawn" /\ ~Booting'
      BY <2>2, <3>1 DEF Booting
    <3>3. QED
      BY <2>2, <3>1, <3>2, SpawnsOne DEF LoopInv
  <2>5. QED
    BY <2>3, <2>4
<1>6. CASE CheckExits \/ Kill
  <2>1. loop' = [m \in Loop |-> "dead"] /\ daemon' = "none"
    BY <1>6 DEF CheckExits, Kill, Vanish
  <2>2. loop' \in [Loop -> {"dead", "iterate", "rest"}] /\ Live' = {}
    BY <2>1 DEF Live
  <2>3. QED
    BY <2>1, <2>2 DEF LoopInv, OnlyNamed
<1>7. QED
  BY <1>1, <1>2, <1>3, <1>4, <1>5, <1>6 DEF WorkerStep

(* OneLoop, of any instance: crashes, respawns, stops and backoffs never leave *)
(* two loops at work, as long as no start command has spawned one.             *)
THEOREM SingleLoop == WorkerSpec => []OneLoop
<1>1. LoopInv /\ [WorkerNext]_workerVars => LoopInv'
  <2> SUFFICES ASSUME LoopInv, [WorkerNext]_workerVars PROVE LoopInv'
    OBVIOUS
  <2>1. CASE (\E op \in {"start", "stop"} : Issue(op)) \/ StatusAges \/ UNCHANGED workerVars
    <3>1. UNCHANGED <<thread, loop, daemon, worker, cmd, commanded>>
      BY <2>1 DEF Issue, StatusAges, workerVars, loops, health, main, workerHistory
    <3>2. QED
      BY <3>1 DEF LoopInv, OnlyNamed, Booting, Live
  <2>2. QED
    BY <2>1, LoopKeeps, DaemonKeeps, WorkerKeeps DEF WorkerNext
<1>2. LoopInv => OneLoop
  <2> SUFFICES ASSUME LoopInv, ~commanded PROVE Cardinality(Live) <= 1
    BY DEF OneLoop
  <2>1. IsFiniteSet({thread}) /\ Cardinality({thread}) = 1
    BY FS_Singleton
  <2>2. Cardinality(Live) <= Cardinality({thread})
    BY <2>1, FS_Subset DEF LoopInv, OnlyNamed
  <2>3. QED
    BY <2>1, <2>2
<1>3. QED
  BY InitLoopInv, <1>1, <1>2, PTL DEF WorkerSpec

\* WorkerTypeOK, in the parts that different steps disturb.
FlagsTyped ==
    /\ running \in BOOLEAN /\ healthAlive \in BOOLEAN /\ recent \in BOOLEAN /\ fresh \in BOOLEAN
    /\ commanded \in BOOLEAN /\ abandoned \in BOOLEAN /\ revived \in BOOLEAN

ThreadsTyped ==
    /\ thread \in Loop \cup {NoLoop}
    /\ loop \in [Loop -> {"dead", "iterate", "rest"}]
    /\ daemon \in {"none", "asleep", "awake", "respawn", "spawn", "cooldown", "ending"}
    /\ rapid \in 0 .. FlapLimit - 1
    /\ worker \in {"down", "poll", "starting", "spawning", "stopping", "check"}

CommandsTyped ==
    /\ cmd \in Command /\ control \in Command
    /\ lastCmd \in 0 .. MaxCommands /\ ack \in 0 .. MaxCommands /\ issued \in 0 .. MaxCommands
    /\ crashes \in 0 .. MaxCrashes /\ kills \in 0 .. MaxKills

LEMMA WorkerParts == WorkerTypeOK <=> FlagsTyped /\ ThreadsTyped /\ CommandsTyped
  BY DEF WorkerTypeOK, FlagsTyped, ThreadsTyped, CommandsTyped

(* No step sets a flag to anything but TRUE, FALSE or what another was. *)
LEMMA StepFlags ==
    ASSUME FlagsTyped, [WorkerNext]_workerVars
    PROVE  FlagsTyped'
<1> USE DEF FlagsTyped, flags, loops, health, main, disk, workerBounds, workerHistory
<1>1. ASSUME NEW m \in Loop, LoopStep(m) \/ CrashLoop(m) PROVE FlagsTyped'
  BY <1>1 DEF LoopStep, GoToRest, GoOn, Finish, CrashLoop
<1>2. CASE DaemonStep \/ MinutePasses
  <2>1. CASE \/ DaemonWake \/ DaemonEnd \/ DaemonCooled \/ DaemonFindsAlive \/ DaemonBacksOff
             \/ DaemonFindsDead \/ DaemonSkips \/ MinutePasses \/ \E m \in Loop : DaemonSpawns(m)
    BY <2>1 DEF DaemonWake, DaemonEnd, DaemonCooled, DaemonFindsAlive, DaemonBacksOff,
                DaemonFindsDead, DaemonSkips, MinutePasses, DaemonSpawns
  <2>2. CASE DaemonRevives
    BY <2>2 DEF DaemonRevives, Stopping
  <2>3. QED
    BY <1>2, <2>1, <2>2 DEF DaemonStep
<1>3. CASE Boot \/ WorkerStep \/ Kill
  <2>1. CASE \/ Boot \/ PollStop \/ PollStart \/ PollNothing \/ StopEnds \/ StartChecks
             \/ StartDeclined \/ CheckAlive
    BY <2>1 DEF Boot, PollStop, PollStart, PollNothing, StopEnds, StartChecks, StartDeclined, CheckAlive
  <2>2. CASE CheckExits \/ Kill
    BY <2>2 DEF CheckExits, Kill, Vanish
  <2>3. ASSUME NEW m \in Loop, Start(m) PROVE FlagsTyped'
    BY <2>3 DEF Start
  <2>4. QED
    BY <1>3, <2>1, <2>2, <2>3 DEF WorkerStep
<1>4. CASE (\E op \in {"start", "stop"} : Issue(op)) \/ StatusAges \/ UNCHANGED workerVars
  BY <1>4 DEF Issue, StatusAges, workerVars
<1>5. QED
  BY <1>1, <1>2, <1>3, <1>4 DEF WorkerNext

(* Threads are at their places, and the daemon's count stays below its limit. *)
LEMMA StepThreads ==
    ASSUME ThreadsTyped, [WorkerNext]_workerVars
    PROVE  ThreadsTyped'
<1> USE DEF ThreadsTyped, flags, loops, health, main, disk, workerBounds, workerHistory
<1>1. ASSUME NEW m \in Loop, LoopStep(m) \/ CrashLoop(m) PROVE ThreadsTyped'
  BY <1>1 DEF LoopStep, GoToRest, GoOn, Finish, CrashLoop
<1>2. CASE DaemonStep \/ MinutePasses
  <2>1. CASE DaemonWake \/ DaemonEnd \/ DaemonCooled \/ DaemonFindsAlive \/ DaemonSkips \/ MinutePasses
    BY <2>1 DEF DaemonWake, DaemonEnd, DaemonCooled, DaemonFindsAlive, DaemonSkips, MinutePasses
  <2>2. CASE DaemonBacksOff
    <3>1. (rapid + 1) % FlapLimit \in 0 .. FlapLimit - 1
      BY ThreadBounds
    <3>2. QED
      BY <2>2, <3>1 DEF DaemonBacksOff
  <2>3. CASE DaemonFindsDead \/ DaemonRevives
    BY <2>3, ThreadBounds DEF DaemonFindsDead, DaemonRevives
  <2>4. ASSUME NEW m \in Loop, DaemonSpawns(m) PROVE ThreadsTyped'
    BY <2>4 DEF DaemonSpawns, Spawn
  <2>5. QED
    BY <1>2, <2>1, <2>2, <2>3, <2>4 DEF DaemonStep
<1>3. CASE Boot \/ WorkerStep \/ Kill
  <2>1. CASE \/ Boot \/ PollStop \/ PollStart \/ PollNothing \/ StopEnds \/ StartChecks
             \/ StartDeclined \/ CheckAlive
    BY <2>1 DEF Boot, PollStop, PollStart, PollNothing, StopEnds, StartChecks, StartDeclined,
                CheckAlive, Acknowledge
  <2>2. CASE CheckExits \/ Kill
    BY <2>2, ThreadBounds DEF CheckExits, Kill, Vanish
  <2>3. ASSUME NEW m \in Loop, Start(m) PROVE ThreadsTyped'
    BY <2>3 DEF Start, Spawn, Acknowledge
  <2>4. QED
    BY <1>3, <2>1, <2>2, <2>3 DEF WorkerStep
<1>4. CASE (\E op \in {"start", "stop"} : Issue(op)) \/ StatusAges \/ UNCHANGED workerVars
  BY <1>4 DEF Issue, StatusAges, workerVars
<1>5. QED
  BY <1>1, <1>2, <1>3, <1>4 DEF WorkerNext

(* Commands and their numbers. *)
LEMMA StepCommands ==
    ASSUME CommandsTyped, [WorkerNext]_workerVars
    PROVE  CommandsTyped'
<1> USE DEF CommandsTyped, flags, loops, health, main, disk, workerBounds, workerHistory
<1>0. None \in Command /\ \A c \in Command : c.id \in 0 .. MaxCommands
  BY ThreadBounds DEF None, Command
<1>1. ASSUME NEW m \in Loop, LoopStep(m) \/ CrashLoop(m) PROVE CommandsTyped'
  BY <1>1, ThreadBounds DEF LoopStep, GoToRest, GoOn, Finish, CrashLoop
<1>2. CASE DaemonStep \/ MinutePasses
  BY <1>2 DEF DaemonStep, DaemonWake, DaemonEnd, DaemonCooled, DaemonFindsAlive, DaemonBacksOff,
              DaemonFindsDead, DaemonSkips, DaemonRevives, DaemonSpawns, MinutePasses
<1>3. CASE Boot \/ WorkerStep \/ Kill
  <2>1. ASSUME Acknowledge, UNCHANGED <<control, workerBounds>> PROVE CommandsTyped'
    BY <1>0, <2>1 DEF Acknowledge
  <2>2. CASE StopEnds \/ StartDeclined \/ \E m \in Loop : Start(m)
    BY <2>1, <2>2 DEF StopEnds, StartDeclined, Start
  <2>3. CASE \/ Boot \/ PollStop \/ PollStart \/ PollNothing \/ StartChecks \/ CheckAlive
    BY <2>3 DEF Boot, PollStop, PollStart, PollNothing, StartChecks, CheckAlive
  <2>4. CASE CheckExits \/ Kill
    BY <1>0, <2>4, ThreadBounds DEF CheckExits, Kill, Vanish
  <2>5. QED
    BY <1>3, <2>2, <2>3, <2>4 DEF WorkerStep
<1>4. ASSUME NEW op \in {"start", "stop"}, Issue(op) PROVE CommandsTyped'
  <2>1. issued + 1 \in 0 .. MaxCommands /\ issued' = issued + 1
        /\ control' = [id |-> issued + 1, op |-> op]
    BY <1>4, ThreadBounds DEF Issue
  <2>2. control' \in Command
    BY <2>1 DEF Command
  <2>3. QED
    BY <1>4, <2>1, <2>2 DEF Issue
<1>5. CASE StatusAges \/ UNCHANGED workerVars
  BY <1>5 DEF StatusAges, workerVars
<1>6. QED
  BY <1>1, <1>2, <1>3, <1>4, <1>5 DEF WorkerNext

(* WorkerTypeOK, of any instance. *)
THEOREM WorkerTypeCorrect == WorkerSpec => []WorkerTypeOK
<1>1. WorkerInit => FlagsTyped /\ ThreadsTyped /\ CommandsTyped
  <2> SUFFICES ASSUME WorkerInit PROVE FlagsTyped /\ ThreadsTyped /\ CommandsTyped
    OBVIOUS
  <2>1. FlagsTyped
    BY DEF WorkerInit, FlagsTyped
  <2>2. ThreadsTyped
    BY ThreadBounds DEF WorkerInit, ThreadsTyped
  <2>3. CommandsTyped
    BY ThreadBounds DEF WorkerInit, CommandsTyped, None, Command
  <2>4. QED
    BY <2>1, <2>2, <2>3
<1>2. FlagsTyped /\ ThreadsTyped /\ CommandsTyped /\ [WorkerNext]_workerVars
        => FlagsTyped' /\ ThreadsTyped' /\ CommandsTyped'
  BY StepFlags, StepThreads, StepCommands
<1>3. QED
  BY <1>1, <1>2, WorkerParts, PTL DEF WorkerSpec

-----------------------------------------------------------------------------
(***************************************************************************)
(* The learning directions                                                 *)
(***************************************************************************)

\* The bounds, one by one.
LEMMA Bounds ==
  /\ Fails \in Nat /\ Fails > 0 /\ QSkips \in Nat /\ QSkips > 0
  /\ Stall \in Nat /\ Stall > 0 /\ MaxRestarts \in Nat /\ MaxElsewhere \in Nat
  /\ MaxOverlap \in Nat
  BY DirectionConstants

\* A direction that is in a status is a record of the registry, with its parts.
LEMMA HasDirection ==
  ASSUME DirectionsTypeOK, NEW t \in Topic, NEW s \in Status, Has(t, s)
  PROVE  dirs[t] \in Direction /\ dirs[t].row \in Row /\ dirs[t].mem \in Unsaved
  BY DEF DirectionsTypeOK, Has, Direction

\* Counting a cycle, tripping the breaker and completing keep a direction one.
LEMMA CycledDirection ==
  ASSUME NEW d \in Direction
  PROVE  /\ Cycled(d) \in Direction /\ Cycled(d).mem = d.mem
         /\ Cycled(d).row.fails = d.row.fails /\ Cycled(d).row.frozen = d.row.frozen
         /\ Cycled(d).row.status = d.row.status
  BY Bounds DEF Cycled, Upto, Direction, Row

LEMMA TripDirection ==
  ASSUME NEW d \in Direction PROVE Trip(d) \in Direction
  BY DEF Trip, Direction, Row, Unsaved, Status, Circuit

LEMMA CompleteDirection ==
  ASSUME NEW d \in Direction PROVE Complete(d) \in Direction
  BY DEF Complete, Direction, Row, Status

LEMMA NewDirectionDirection ==
  /\ NewRow \in Row /\ Fresh \in Unsaved /\ NewDirection \in Direction
  /\ [NewDirection EXCEPT !.row.status = "paused"] \in Direction
<1>1. NewRow \in Row
  BY Bounds DEF NewRow, Row, Status
<1>2. Fresh \in Unsaved
  BY Bounds DEF Fresh, Unsaved, Circuit
<1>3. NewDirection \in Direction
  BY <1>1, <1>2 DEF NewDirection, Direction
<1>4. [NewDirection EXCEPT !.row.status = "paused"] \in Direction
  BY <1>3 DEF Direction, Row, Status
<1>5. QED BY <1>1, <1>2, <1>3, <1>4

\* The rows of a registry are rows.
LEMMA RowsType ==
  ASSUME NEW r \in [Topic -> Direction \cup {NoDir}]
  PROVE  Rows(r) \in [Topic -> Row \cup {NoDir}]
  BY DEF Rows, Direction

\* The types of what a step saves, and of what it forgets.
SavingTyped ==
  /\ snap \in [Saver -> [Topic -> Row \cup {NoDir}]] /\ todo \in [Saver -> SUBSET Topic]
  /\ table \in [Topic -> Row \cup {NoDir}] /\ copy \in [Topic -> Row \cup {NoDir}]
  /\ outdated \in SUBSET Topic
BoundsTyped ==
  restarts \in 0 .. MaxRestarts /\ elsewhere \in 0 .. MaxElsewhere /\ overlap \in 0 .. MaxOverlap

LEMMA SnapshotType ==
  ASSUME DirectionsTypeOK, NEW s \in Saver, NEW rows \in [Topic -> Row \cup {NoDir}],
         Snapshot(s, rows)
  PROVE  SavingTyped'
  BY DEF Snapshot, SavingTyped, DirectionsTypeOK

LEMMA LoopSavesType ==
  ASSUME DirectionsTypeOK, NEW rows \in [Topic -> Row \cup {NoDir}], LoopSaves(rows)
  PROVE  SavingTyped' /\ BoundsTyped'
<1>1. SavingTyped'
  BY SnapshotType DEF LoopSaves, Saver
<1>2. BoundsTyped'
  BY Bounds DEF LoopSaves, BoundsTyped, DirectionsTypeOK
<1>3. QED BY <1>1, <1>2

Saves == dirs' \in [Topic -> Direction \cup {NoDir}] /\ (Saved \/ NotSaved)

LEMMA SavesType ==
  ASSUME DirectionsTypeOK, Saves
  PROVE  SavingTyped' /\ BoundsTyped'
<1>1. Rows(dirs') \in [Topic -> Row \cup {NoDir}]
  BY RowsType DEF Saves
<1>2. CASE Saved
  BY <1>1, <1>2, LoopSavesType DEF Saved
<1>3. CASE NotSaved
  BY <1>3 DEF NotSaved, DirectionsTypeOK, SavingTyped, BoundsTyped, saves, bounds
<1>4. QED BY <1>2, <1>3 DEF Saves

LEMMA ForgetType ==
  ASSUME DirectionsTypeOK, NEW gone \in SUBSET Topic, Forget(gone)
  PROVE  {tripped', tested'} \subseteq SUBSET Topic /\ misses' \in [Topic -> 0 .. Fails]
  BY Bounds DEF DirectionsTypeOK, Forget

\* A turn on one active direction, or on one that is tested.
LEMMA TurnType ==
  ASSUME DirectionsTypeOK, NEW t \in Topic, NEW d \in Direction, Becomes(t, d),
         Saved \/ NotSaved,
         tripped' \in {tripped, tripped \cup {t}, tripped \ {t}},
         tested' \in {tested, tested \cup {t}},
         misses' = misses \/ Missed(t) \/ misses' = [misses EXCEPT ![t] = 0]
  PROVE  DirectionsTypeOK'
<1>1. dirs' \in [Topic -> Direction \cup {NoDir}]
  BY DEF DirectionsTypeOK, Becomes
<1>2. misses' \in [Topic -> 0 .. Fails]
  BY Bounds DEF DirectionsTypeOK, Missed, Upto
<1>3. QED BY <1>1, <1>2, SavesType DEF DirectionsTypeOK, Saves, SavingTyped, BoundsTyped

\* DirectionsTypeOK is an invariant.
THEOREM TypeCorrect == Spec => []DirectionsTypeOK
<1>1. Init => DirectionsTypeOK
  <2>1. ASSUME Init PROVE misses \in [Topic -> 0 .. Fails]
    BY <2>1, Bounds DEF Init
  <2>2. ASSUME Init
        PROVE  BoundsTyped
    BY <2>2, Bounds DEF Init, BoundsTyped
  <2>3. ASSUME Init PROVE SavingTyped
    BY <2>3 DEF Init, SavingTyped, NoRows, NoSnaps, NoTodo
  <2>4. QED BY <2>1, <2>2, <2>3 DEF Init, DirectionsTypeOK, SavingTyped, BoundsTyped, NoRows
<1>2. DirectionsTypeOK /\ [Next]_vars => DirectionsTypeOK'
  <2> SUFFICES ASSUME DirectionsTypeOK, [Next]_vars PROVE DirectionsTypeOK'
    OBVIOUS
  <2>1. CASE UNCHANGED vars
    BY <2>1 DEF vars, DirectionsTypeOK, history, bounds, saves
  <2>2. ASSUME NEW t \in Topic, Turn(t) PROVE DirectionsTypeOK'
    <3>1. CASE Add(t) \/ AddRefused(t) \/ Discover(t)
      <4>1. dirs' \in [Topic -> Direction \cup {NoDir}]
        BY <3>1, NewDirectionDirection DEF Add, AddRefused, Discover, DirectionsTypeOK
      <4>2. CASE Add(t) \/ AddRefused(t)
        BY <4>1, <4>2, SavesType, ForgetType
           DEF Add, AddRefused, Saves, DirectionsTypeOK, SavingTyped, BoundsTyped
      <4>3. CASE Discover(t)
        <5>1. [Rows(dirs) EXCEPT ![t] = NewRow] \in [Topic -> Row \cup {NoDir}]
          BY RowsType, NewDirectionDirection DEF DirectionsTypeOK
        <5>2. QED BY <4>1, <4>3, <5>1, ForgetType, LoopSavesType
                     DEF Discover, DirectionsTypeOK, SavingTyped, BoundsTyped
      <4>4. QED BY <3>1, <4>2, <4>3
    <3>2. CASE Succeed(t)
      <4> DEFINE d == [Cycled(dirs[t]) EXCEPT !.row.productive = TRUE,
                                              !.row.fails = 0, !.mem.skips = 0]
      <4>1. d \in Direction
        <5>1. Cycled(dirs[t]) \in Direction
          BY <3>2, HasDirection, CycledDirection DEF Succeed, Status
        <5>2. 0 \in 0 .. Fails /\ 0 \in 0 .. QSkips
          BY Bounds
        <5>3. QED BY <5>1, <5>2 DEF Direction, Row, Unsaved
      <4>2. QED BY <3>2, <4>1, TurnType DEF Succeed
    <3>3. CASE Fail(t)
      <4> DEFINE d == [Cycled(dirs[t]) EXCEPT !.row.fails = Upto(Fails, @ + 1)]
                 frozen == [d EXCEPT !.row.status = "paused", !.row.frozen = TRUE,
                                     !.mem.circuit = "FROZEN"]
      <4>1. d \in Direction
        BY <3>3, HasDirection, CycledDirection, Bounds DEF Fail, Status, Direction, Row, Upto
      <4>2. Trip(d) \in Direction /\ frozen \in Direction
        BY <4>1, TripDirection DEF Direction, Row, Unsaved, Status, Circuit
      <4>3. QED BY <3>3, <4>1, <4>2, TurnType DEF Fail
    <3>4. CASE Skip(t)
      <4> DEFINE d == [Cycled(dirs[t]) EXCEPT !.mem.skips = Upto(QSkips, @ + 1)]
      <4>1. d \in Direction
        BY <3>4, HasDirection, CycledDirection, Bounds DEF Skip, Status, Direction, Unsaved, Upto
      <4>2. Trip(d) \in Direction
        BY <4>1, TripDirection
      <4>3. QED BY <3>4, <4>1, <4>2, TurnType DEF Skip
    <3>5. CASE ReflectCompletes(t)
      BY <3>5, HasDirection, CompleteDirection, TurnType DEF ReflectCompletes, Status
    <3>6. CASE ReflectPauses(t)
      BY <3>6, HasDirection, TripDirection, TurnType DEF ReflectPauses, Status
    <3>7. CASE Teach(t)
      <4>1. [Cycled(dirs[t]) EXCEPT !.row.productive = TRUE] \in Direction
        <5>1. Cycled(dirs[t]) \in Direction
          BY <3>7, HasDirection, CycledDirection DEF Teach, Status
        <5>2. QED BY <5>1 DEF Direction, Row
      <4>2. QED BY <3>7, <4>1, HasDirection, CompleteDirection, TurnType DEF Teach, Status
    <3>8. CASE Test(t)
      <4>1. [dirs[t] EXCEPT !.row.status = "active", !.mem.circuit = "HALF_OPEN"] \in Direction
        <5>1. dirs[t] \in Direction
          BY <3>8, HasDirection DEF Test, Status
        <5>2. QED BY <5>1 DEF Status, Circuit, Direction, Row, Unsaved
      <4>2. QED BY <3>8, <4>1, TurnType DEF Test
    <3>9. QED BY <2>2, <3>1, <3>2, <3>3, <3>4, <3>5, <3>6, <3>7, <3>8 DEF Turn
  <2>3. ASSUME NEW t \in Topic, Others(t) PROVE DirectionsTypeOK'
    <3>1. CASE CortexAdds(t)
      <4>1. dirs' \in [Topic -> Direction \cup {NoDir}]
        BY <3>1, NewDirectionDirection DEF CortexAdds, DirectionsTypeOK
      <4>2. Rows(dirs') \in [Topic -> Row \cup {NoDir}]
        BY <4>1, RowsType
      <4>3. SavingTyped'
        BY <3>1, <4>2, SnapshotType DEF CortexAdds, Saver
      <4>4. BoundsTyped'
        BY <3>1, Bounds DEF CortexAdds, Elsewhere, BoundsTyped, DirectionsTypeOK
      <4>5. {tripped', tested'} \subseteq SUBSET Topic /\ misses' \in [Topic -> 0 .. Fails]
        BY <3>1, ForgetType DEF CortexAdds
      <4>6. QED BY <4>1, <4>3, <4>4, <4>5 DEF DirectionsTypeOK, SavingTyped, BoundsTyped
    <3>2. CASE CortexRefused(t)
      <4>1. {tripped', tested'} \subseteq SUBSET Topic /\ misses' \in [Topic -> 0 .. Fails]
        BY <3>2, ForgetType DEF CortexRefused
      <4>2. BoundsTyped'
        BY <3>2, Bounds DEF CortexRefused, Elsewhere, BoundsTyped, DirectionsTypeOK
      <4>3. dirs' \in [Topic -> Direction \cup {NoDir}]
        BY <3>2 DEF CortexRefused, DirectionsTypeOK
      <4>4. QED BY <3>2, <4>1, <4>2, <4>3 DEF CortexRefused, DirectionsTypeOK, saves, BoundsTyped
    <3>3. ASSUME NEW rows \in {table, copy}, AddElsewhere(t, rows) PROVE DirectionsTypeOK'
      <4>1. table' \in [Topic -> Row \cup {NoDir}] /\ copy' \in [Topic -> Row \cup {NoDir}]
        BY <3>3, NewDirectionDirection DEF AddElsewhere, DirectionsTypeOK
      <4>2. BoundsTyped'
        BY <3>3, Bounds DEF AddElsewhere, BoundsTyped, DirectionsTypeOK
      <4>3. QED BY <3>3, <4>1, <4>2 DEF AddElsewhere, DirectionsTypeOK, saves, BoundsTyped
    <3>4. QED BY <2>3, <3>1, <3>2, <3>3 DEF Others
  <2>4. ASSUME NEW s \in Saver, NEW some \in SUBSET Topic, Writes(s, some)
        PROVE  DirectionsTypeOK'
    <3>1. table' \in [Topic -> Row \cup {NoDir}]
      BY <2>4 DEF Writes, DirectionsTypeOK
    <3>2. snap' \in [Saver -> [Topic -> Row \cup {NoDir}]] /\ todo' \in [Saver -> SUBSET Topic]
      BY <2>4 DEF Writes, DirectionsTypeOK
    <3>3. QED BY <2>4, <3>1, <3>2 DEF Writes, DirectionsTypeOK, bounds
  <2>5. CASE Saving
    <3>1. PICK s \in Saver : SaveStep(s) \/ SaveBreaks(s)
      BY <2>5 DEF Saving
    <3>2. CASE SaveStep(s)
      <4>1. todo[s] \in SUBSET Topic
        BY DEF DirectionsTypeOK
      <4>2. QED BY <2>4, <3>2, <4>1 DEF SaveStep
    <3>3. CASE SaveBreaks(s)
      <4>1. snap' \in [Saver -> [Topic -> Row \cup {NoDir}]] /\ todo' \in [Saver -> SUBSET Topic]
        BY <3>3 DEF SaveBreaks, NoRows, DirectionsTypeOK
      <4>2. QED BY <3>3, <4>1 DEF SaveBreaks, DirectionsTypeOK, bounds
    <3>4. QED BY <3>1, <3>2, <3>3
  <2>6. CASE Tune
    <3>0. PICK pause \in SUBSET With("active"), done \in SUBSET With("active") :
            \E gone \in SUBSET Evictable(Judged(pause, done)) :
              /\ dirs' \in Resumed(Without(Judged(pause, done), gone))
              /\ Forget(gone) /\ Saved
      BY <2>6 DEF Tune
    <3> DEFINE judged == Judged(pause, done)
    <3>1. PICK gone \in SUBSET Evictable(judged) :
            dirs' \in Resumed(Without(judged, gone)) /\ Forget(gone) /\ Saved
      BY <3>0
    <3> DEFINE
               left == Without(judged, gone)
    <3>2. judged \in [Topic -> Direction \cup {NoDir}]
      <4>1. ASSUME NEW t \in pause PROVE [dirs[t] EXCEPT !.row.status = "paused"] \in Direction
        BY HasDirection DEF With, Status, Direction, Row
      <4>2. ASSUME NEW t \in done PROVE Complete(dirs[t]) \in Direction
        BY HasDirection, CompleteDirection DEF With, Status
      <4>3. QED BY <4>1, <4>2 DEF Judged, DirectionsTypeOK
    <3>3. left \in [Topic -> Direction \cup {NoDir}]
      BY <3>2 DEF Without
    <3>4. dirs' \in [Topic -> Direction \cup {NoDir}]
      <4>1. ASSUME NEW t \in Known(left)
            PROVE  [left EXCEPT ![t].row.status = "active"] \in [Topic -> Direction \cup {NoDir}]
        BY <3>3 DEF Known, Direction, Row, Status
      <4>2. dirs' = left \/ \E t \in Known(left) : dirs' = [left EXCEPT ![t].row.status = "active"]
        BY <3>1 DEF Resumed
      <4>3. QED BY <3>3, <4>1, <4>2
    <3>5. gone \in SUBSET Topic
      BY DEF Evictable, Known
    <3>6. QED BY <3>1, <3>4, <3>5, SavesType, ForgetType DEF Saves, DirectionsTypeOK,
        SavingTyped, BoundsTyped
  <2>7. CASE CleanUp
    <3>1. PICK gone \in SUBSET Topic : dirs' = Without(dirs, gone) /\ Forget(gone) /\ Saved
      BY <2>7 DEF CleanUp, With
    <3>2. dirs' \in [Topic -> Direction \cup {NoDir}]
      BY <3>1 DEF Without, DirectionsTypeOK
    <3>3. QED BY <3>1, <3>2, SavesType, ForgetType DEF Saves, DirectionsTypeOK,
        SavingTyped, BoundsTyped
  <2>8. CASE Archive
    <3>1. dirs' \in [Topic -> Direction \cup {NoDir}]
      <4>1. ASSUME NEW t \in With("completed")
            PROVE  [dirs[t] EXCEPT !.row.status = "archived"] \in Direction
        BY HasDirection DEF With, Status, Direction, Row
      <4>2. QED BY <2>8, <4>1 DEF Archive, DirectionsTypeOK
    <3>2. QED BY <2>8, <3>1, SavesType
                 DEF Archive, Saves, DirectionsTypeOK, SavingTyped, BoundsTyped
  <2>9. ASSUME Restarted PROVE misses' \in [Topic -> 0 .. Fails] /\ BoundsTyped'
    <3>1. misses' \in [Topic -> 0 .. Fails]
      BY <2>9 DEF Restarted, DirectionsTypeOK, Row
    <3>2. QED BY <2>9, <3>1, Bounds DEF Restarted, DirectionsTypeOK, BoundsTyped
  <2>10. ASSUME NEW t \in Topic, table[t] # NoDir PROVE Loaded(t) \in Direction
    BY <2>10, NewDirectionDirection DEF Loaded, DirectionsTypeOK, Direction
  <2>11. CASE Restart
    <3>1. dirs' \in [Topic -> Direction \cup {NoDir}]
      BY <2>10, <2>11 DEF Restart
    <3>2. SavingTyped'
      BY <2>11 DEF Restart, Restarted, NoSnaps, NoRows, NoTodo, DirectionsTypeOK, SavingTyped
    <3>3. QED BY <2>9, <2>11, <3>1, <3>2 DEF Restart, DirectionsTypeOK, SavingTyped, BoundsTyped
  <2>12. CASE LoopRestart
    <3>1. dirs' \in [Topic -> Direction \cup {NoDir}]
      BY <2>10, <2>12 DEF LoopRestart, DirectionsTypeOK
    <3>2. SavingTyped'
      BY <2>12 DEF LoopRestart, Restarted, DirectionsTypeOK, SavingTyped, saves
    <3>3. QED BY <2>9, <2>12, <3>1, <3>2
              DEF LoopRestart, DirectionsTypeOK, SavingTyped, BoundsTyped
  <2>13. QED
    BY <2>1, <2>2, <2>6, <2>7, <2>8, <2>3, <2>5, <2>11, <2>12, DirectionConstants DEF Next
<1>3. QED BY <1>1, <1>2, PTL DEF Spec

-----------------------------------------------------------------------------
\* What the learner's registry keeps true of each direction: the failures it
\* counts happened, the breaker's states follow each other, and what is frozen
\* or tripped is paused.
DirKept(t) ==
  LET d == dirs[t]
  IN  /\ d.mem.circuit = "HALF_OPEN" => t \in tested
      /\ d.mem.circuit = "FROZEN" => t \in tested /\ misses[t] = Fails /\ d.row.frozen
      /\ d.row.frozen => d.row.status = "paused" /\ d.mem.circuit \in {"CLOSED", "FROZEN"}
      /\ d.row.status # "archived" => d.row.fails <= misses[t]
      /\ t \in tripped => d.row.status = "paused" /\ d.mem.circuit = "OPEN"

DirsKept ==
  /\ \A t \in Known(dirs) : DirKept(t)
  /\ \A t \in tripped : dirs[t] # NoDir

\* What a restart finds again of it, once it is saved and as long as no row
\* that was out of date has been written over it.
RowKept(t) ==
  /\ table[t] # NoDir /\ table[t].status # "archived" => table[t].fails <= misses[t]
  /\ Addable(t) /\ table[t] # NoDir => table[t].status = "archived" \/ table[t].fails = 0
  /\ t \in tripped => table[t] # NoDir /\ table[t].status = "paused"
  /\ dirs[t] # NoDir /\ dirs[t].row.frozen => table[t] # NoDir /\ table[t].frozen

FrozenPaused(rows) == \A t \in Known(rows) : rows[t].frozen => rows[t].status = "paused"

RowsKept ==
  /\ FrozenPaused(table) /\ FrozenPaused(copy)
  /\ \A s \in Saver : FrozenPaused(snap[s])
  /\ \A t \in Topic \ Lagging : RowKept(t)

Kept == DirsKept /\ RowsKept

\* The rows of a registry in which what is frozen is paused.
LEMMA RowsPaused ==
  ASSUME DirectionsTypeOK, DirsKept PROVE FrozenPaused(Rows(dirs))
  BY NoDirAssumption DEF DirectionsTypeOK, DirsKept, DirKept, FrozenPaused, Known, Rows, Direction

\* Once the loop has begun a save, no row has to say anything yet.
LEMMA SaveBegun ==
  ASSUME DirectionsTypeOK, RowsKept, NEW rows \in [Topic -> Row \cup {NoDir}], LoopSaves(rows),
         FrozenPaused(rows)
  PROVE  RowsKept'
<1>1. Lagging' = Topic \cup outdated /\ snap'["loop"] = rows
      /\ snap'["cortex"] = snap["cortex"]
  BY DEF LoopSaves, Snapshot, Lagging, DirectionsTypeOK, Saver
<1>2. UNCHANGED <<table, copy>>
  BY DEF LoopSaves, Snapshot
<1>3. QED BY <1>1, <1>2 DEF RowsKept, FrozenPaused, Known, Saver

LEMMA SavedKept ==
  ASSUME DirectionsTypeOK, DirectionsTypeOK', Kept, DirsKept', Saved PROVE Kept'
<1>1. Rows(dirs') \in [Topic -> Row \cup {NoDir}]
  BY RowsType DEF DirectionsTypeOK
<1>2. FrozenPaused(Rows(dirs'))
  BY NoDirAssumption DEF DirectionsTypeOK, DirsKept, DirKept, FrozenPaused, Known, Rows, Direction
<1>3. QED BY <1>1, <1>2, SaveBegun DEF Kept, Saved

\* A step that leaves the table and the saves alone, and does not change
\* what the rows of settled directions have to say.
LEMMA UnsavedKept ==
  ASSUME RowsKept, DirsKept', UNCHANGED <<table, saves, copy, outdated>>,
         \A t \in Topic \ Lagging : RowKept(t)'
  PROVE  Kept'
  BY DEF Kept, RowsKept, FrozenPaused, Known, Lagging, saves

\* A turn on one direction leaves the others as they were.
LEMMA TurnKept ==
  ASSUME DirectionsTypeOK, DirsKept, NEW t \in Topic, NEW d \in Direction, Becomes(t, d),
         DirKept(t)',
         tripped' \ {t} = tripped \ {t}, tested' \ {t} = tested \ {t},
         \A u \in Topic \ {t} : misses'[u] = misses[u]
  PROVE  DirsKept'
  BY NoDirAssumption DEF DirectionsTypeOK, DirsKept, DirKept, Known, Becomes

\* Forgetting what has gone.
LEMMA ForgetKept ==
  ASSUME DirectionsTypeOK, DirsKept, NEW gone \in SUBSET Topic, Forget(gone),
         dirs' = Without(dirs, gone)
  PROVE  DirsKept'
  BY DEF DirectionsTypeOK, DirsKept, DirKept, Known, Forget, Without

\* An active direction is neither frozen nor tripped.
LEMMA ActiveKept ==
  ASSUME DirectionsTypeOK, DirsKept, NEW t \in Topic, Has(t, "active")
  PROVE  /\ dirs[t] \in Direction /\ t \notin tripped /\ ~dirs[t].row.frozen
         /\ dirs[t].mem.circuit # "FROZEN" /\ dirs[t].row.fails <= misses[t]
         /\ dirs[t].mem.circuit = "HALF_OPEN" => t \in tested
<1>1. dirs[t] \in Direction
  BY HasDirection DEF Status
<1>2. QED BY <1>1 DEF DirsKept, DirKept, Known, Has

\* What freezing a direction changes.
LEMMA FrozenParts ==
  ASSUME NEW d \in Direction
  PROVE  LET f == [d EXCEPT !.row.status = "paused", !.row.frozen = TRUE, !.mem.circuit = "FROZEN"]
         IN  /\ f.mem.circuit = "FROZEN" /\ f.row.frozen /\ f.row.status = "paused"
             /\ f.row.fails = d.row.fails
<1>1. d.row \in Row /\ d.mem \in Unsaved /\ d = [row |-> d.row, mem |-> d.mem]
  BY DEF Direction
<1>2. QED BY <1>1 DEF Row, Unsaved

\* A turn that pauses an active direction through its breaker.
LEMMA TripKept ==
  ASSUME DirectionsTypeOK, DirsKept, NEW t \in Topic, NEW d \in Direction,
         Becomes(t, Trip(d)), ~d.row.frozen, d.row.fails <= misses'[t],
         tripped' = tripped \cup {t}, tested' = tested,
         \A u \in Topic \ {t} : misses'[u] = misses[u]
  PROVE  DirsKept'
<1>1. Trip(d) \in Direction
  BY TripDirection
<1>2. dirs'[t] = Trip(d)
  BY DEF Becomes, DirectionsTypeOK
<1>3. DirKept(t)'
  BY <1>2 DEF DirKept, Trip, Direction, Row, Unsaved
<1>4. QED BY <1>1, <1>3, TurnKept

\* A turn that leaves an active direction as it is, or completes it, with no
\* more failures than before.
LEMMA CalmKept ==
  ASSUME DirectionsTypeOK, DirsKept, NEW t \in Topic, Has(t, "active"),
         NEW d \in Direction, Becomes(t, d),
         d.mem.circuit = dirs[t].mem.circuit, ~d.row.frozen, d.row.fails <= misses'[t],
         UNCHANGED <<tripped, tested>>,
         \A u \in Topic \ {t} : misses'[u] = misses[u]
  PROVE  DirsKept'
<1>1. dirs'[t] = d
  BY DEF Becomes, DirectionsTypeOK
<1>2. DirKept(t)'
  BY <1>1, ActiveKept DEF DirKept
<1>3. QED BY <1>2, TurnKept

\* What autotune changes: some directions go, and of those that stay it
\* touches neither a frozen nor a tripped one.
LEMMA TuneChanges ==
  ASSUME DirectionsTypeOK, DirsKept, Tune
  PROVE  \E gone \in SUBSET Topic :
           /\ Forget(gone) /\ Saved
           /\ \A t \in tripped \ gone : dirs'[t] # NoDir
           /\ \A t \in Topic : dirs'[t] # NoDir =>
                /\ dirs[t] # NoDir /\ t \notin gone
                /\ dirs'[t] # dirs[t] =>
                     /\ t \notin tripped /\ dirs'[t] \in Direction
                     /\ dirs'[t].mem = dirs[t].mem /\ dirs'[t].row.fails = dirs[t].row.fails
                     /\ ~dirs[t].row.frozen /\ ~dirs'[t].row.frozen
                     /\ dirs[t].row.status # "archived"
<1>1. PICK pause \in SUBSET With("active"), done \in SUBSET With("active") :
        \E gone \in SUBSET Evictable(Judged(pause, done)) :
          /\ dirs' \in Resumed(Without(Judged(pause, done), gone))
          /\ Forget(gone) /\ Saved
  BY DEF Tune
<1> DEFINE judged == Judged(pause, done)
<1>2. PICK gone \in SUBSET Evictable(judged) :
        dirs' \in Resumed(Without(judged, gone)) /\ Forget(gone) /\ Saved
  BY <1>1
<1> DEFINE left == Without(judged, gone)
<1>3. ASSUME NEW t \in Topic
      PROVE  judged[t] # dirs[t] => /\ Has(t, "active") /\ judged[t] \in Direction
                                    /\ judged[t].mem = dirs[t].mem
                                    /\ judged[t].row.frozen = dirs[t].row.frozen
                                    /\ judged[t].row.fails = dirs[t].row.fails
  <2>1. CASE t \in pause \cup done
    <3>1. Has(t, "active") /\ dirs[t] \in Direction
      BY <2>1, ActiveKept DEF With
    <3>2. judged[t] \in {[dirs[t] EXCEPT !.row.status = "paused"], Complete(dirs[t])}
      BY <2>1 DEF Judged
    <3>3. QED BY <3>1, <3>2 DEF Complete, Direction, Row, Status
  <2>2. QED BY <2>1 DEF Judged
<1>4. ASSUME NEW t \in Topic, dirs'[t] # NoDir
      PROVE  /\ dirs[t] # NoDir /\ t \notin gone
             /\ dirs'[t] # dirs[t] =>
                  /\ t \notin tripped /\ dirs'[t] \in Direction
                  /\ dirs'[t].mem = dirs[t].mem /\ dirs'[t].row.fails = dirs[t].row.fails
                  /\ ~dirs[t].row.frozen /\ ~dirs'[t].row.frozen
                  /\ dirs[t].row.status # "archived"
  <2>1. dirs' = left \/ \E u \in Known(left) :
                          /\ Resumable(left, u)
                          /\ dirs' = [left EXCEPT ![u].row.status = "active"]
    BY <1>2 DEF Resumed
  <2>2. left \in [Topic -> Direction \cup {NoDir}]
    BY <1>3 DEF Without, DirectionsTypeOK
  <2>3. ASSUME dirs'[t] = left[t]
        PROVE  /\ dirs[t] # NoDir /\ t \notin gone
               /\ dirs'[t] # dirs[t] =>
                    /\ t \notin tripped /\ dirs'[t] \in Direction
                    /\ dirs'[t].mem = dirs[t].mem /\ dirs'[t].row.fails = dirs[t].row.fails
                    /\ ~dirs[t].row.frozen /\ ~dirs'[t].row.frozen
                    /\ dirs[t].row.status # "archived"
    <3>1. t \notin gone /\ dirs'[t] = judged[t] /\ judged[t] # NoDir
      BY <1>4, <2>3 DEF Without
    <3>2. dirs[t] # NoDir
      BY <1>3, <3>1 DEF Has
    <3>3. ASSUME dirs'[t] # dirs[t]
          PROVE  /\ Has(t, "active") /\ dirs'[t] \in Direction
                 /\ dirs'[t].mem = dirs[t].mem /\ dirs'[t].row.fails = dirs[t].row.fails
                 /\ dirs'[t].row.frozen = dirs[t].row.frozen
      BY <1>3, <3>1, <3>3
    <3>4. QED BY <3>1, <3>2, <3>3, ActiveKept DEF Has
  <2>4. ASSUME NEW u \in Known(left), Resumable(left, u),
               dirs' = [left EXCEPT ![u].row.status = "active"], u = t
        PROVE  /\ dirs[t] # NoDir /\ t \notin gone /\ t \notin tripped
               /\ dirs'[t] \in Direction
               /\ dirs'[t].mem = dirs[t].mem /\ ~dirs[t].row.frozen
               /\ ~dirs'[t].row.frozen
               /\ dirs'[t].row.fails = dirs[t].row.fails
               /\ dirs[t].row.status # "archived"
    <3>1. t \notin gone /\ left[t] = judged[t] /\ left[t] # NoDir /\ left[t] \in Direction
      BY <2>2, <2>4 DEF Known, Without
    <3>2. /\ dirs'[t] \in Direction /\ dirs'[t].mem = left[t].mem
          /\ dirs'[t].row.frozen = left[t].row.frozen
          /\ dirs'[t].row.fails = left[t].row.fails
      BY <2>2, <2>4, <3>1 DEF Direction, Row, Status
    <3>3. ~left[t].row.frozen /\ left[t].mem.circuit = "CLOSED" /\ left[t].row.status = "paused"
      BY <2>4 DEF Resumable
    <3>4. t \notin tripped
      BY <1>3, <3>1, <3>3, ActiveKept DEF DirsKept, DirKept, Known
    <3>5. QED BY <1>3, <3>1, <3>2, <3>3, <3>4 DEF Has
  <2>5. ASSUME NEW u \in Known(left), u # t,
               dirs' = [left EXCEPT ![u].row.status = "active"]
        PROVE  dirs'[t] = left[t]
    BY <2>2, <2>5 DEF Known
  <2>6. CASE dirs' = left
    BY <2>3, <2>6
  <2>7. CASE \E u \in Known(left) :
               Resumable(left, u) /\ dirs' = [left EXCEPT ![u].row.status = "active"]
    <3>1. PICK u \in Known(left) :
                Resumable(left, u) /\ dirs' = [left EXCEPT ![u].row.status = "active"]
      BY <2>7
    <3>2. CASE u = t
      BY <2>4, <3>1, <3>2
    <3>3. CASE u # t
      BY <2>3, <2>5, <3>1, <3>3
    <3>4. QED BY <3>2, <3>3
  <2>8. QED BY <2>1, <2>6, <2>7
<1>5. ASSUME NEW t \in tripped, t \notin gone PROVE dirs'[t] # NoDir
  <2>1. Has(t, "paused") /\ dirs[t] \in Direction
    BY DEF DirsKept, DirKept, Known, Has, DirectionsTypeOK
  <2>2. judged[t] = dirs[t]
    BY <1>3, <1>5, <2>1, ActiveKept DEF DirectionsTypeOK
  <2>3. left[t] = dirs[t] /\ left[t] # NoDir
    BY <1>5, <2>1, <2>2 DEF Without, Has, DirectionsTypeOK
  <2>4. CASE dirs' = left
    BY <2>3, <2>4
  <2>5. ASSUME NEW u \in Known(left), dirs' = [left EXCEPT ![u].row.status = "active"]
        PROVE  dirs'[t] # NoDir
    <3>1. CASE u = t
      <4>1. dirs'[t] = [left[t] EXCEPT !.row.status = "active"]
        BY <2>5, <3>1 DEF Known, Without
      <4>2. dirs'[t] \in Direction
        BY <2>1, <2>3, <4>1 DEF Direction, Row, Status
      <4>3. QED BY <4>2, NoDirAssumption
    <3>2. CASE u # t
      BY <2>1, <2>3, <2>5, <3>2 DEF Known, Without, Has
    <3>3. QED BY <3>1, <3>2
  <2>6. QED BY <1>2, <2>4, <2>5 DEF Resumed
<1>6. gone \in SUBSET Topic
  BY DEF Evictable, Known
<1>7. QED BY <1>2, <1>4, <1>5, <1>6

\* Every step keeps Kept.
LEMMA KeptStep ==
  ASSUME DirectionsTypeOK, DirectionsTypeOK', Kept, [Next]_vars PROVE Kept'
<1> USE DEF Kept
<1>0. ASSUME NEW t \in Topic, DirsKept', (table[t] = Rows(dirs)[t])' PROVE RowKept(t)'
  <2>1. dirs'[t] = NoDir => table'[t] = NoDir /\ t \notin tripped'
    BY <1>0 DEF Rows, DirsKept
  <2>2. dirs'[t] # NoDir => dirs'[t] \in Direction /\ table'[t] = dirs'[t].row /\ DirKept(t)'
    BY <1>0 DEF Rows, DirectionsTypeOK, DirsKept, Known
  <2>3. dirs'[t] \in Direction => dirs'[t].row \in Row /\ dirs'[t].row # NoDir
    BY NoDirAssumption DEF Direction
  <2>4. CASE dirs'[t] = NoDir
    BY <2>1, <2>4 DEF RowKept
  <2>5. CASE dirs'[t] # NoDir
    BY <2>2, <2>3, <2>5 DEF RowKept, DirKept, Addable, Has
  <2>6. QED BY <2>4, <2>5
<1>1. CASE UNCHANGED vars
  BY <1>1 DEF vars, history, bounds, saves, DirsKept, DirKept, RowsKept, RowKept, FrozenPaused,
              Known, Has, Addable, Lagging
<1>2. ASSUME NEW t \in Topic, Add(t) PROVE Kept'
  <2>1. dirs'[t] = NewDirection
    BY <1>2 DEF Add, DirectionsTypeOK
  <2>2. DirKept(t)'
    <3>1. dirs'[t].mem.circuit = "CLOSED" /\ ~dirs'[t].row.frozen /\ dirs'[t].row.fails = 0
      BY <2>1 DEF NewDirection, NewRow, Fresh
    <3>2. misses'[t] = 0 /\ t \notin tripped'
      BY <1>2 DEF Add, Forget
    <3>3. QED BY <3>1, <3>2 DEF DirKept
  <2>3. DirsKept'
    BY <1>2, <2>2, NewDirectionDirection, TurnKept DEF Add, Becomes, Forget
  <2>4. QED BY <1>2, <2>3, SavedKept DEF Add
<1>3. ASSUME NEW t \in Topic, AddRefused(t) PROVE Kept'
  <2>1. dirs' = Without(dirs, {t})
    BY <1>3 DEF AddRefused, Without, DirectionsTypeOK
  <2>2. DirsKept'
    BY <1>3, <2>1, ForgetKept DEF AddRefused
  <2>3. ASSUME NEW u \in Topic \ Lagging PROVE RowKept(u)'
    BY <1>3, <2>1, <2>3 DEF RowsKept, RowKept, AddRefused, NotSaved, Forget, Without, Has, Addable,
                            DirectionsTypeOK, Row
  <2>4. QED BY <1>3, <2>2, <2>3, UnsavedKept DEF AddRefused, NotSaved
<1>4. ASSUME NEW t \in Topic, Discover(t) PROVE Kept'
  <2>1. dirs'[t] = [NewDirection EXCEPT !.row.status = "paused"]
    BY <1>4 DEF Discover, DirectionsTypeOK
  <2>2. DirKept(t)'
    <3>1. dirs'[t].mem.circuit = "CLOSED" /\ ~dirs'[t].row.frozen /\ dirs'[t].row.fails = 0
      BY <2>1 DEF NewDirection, NewRow, Fresh
    <3>2. misses'[t] = 0 /\ t \notin tripped'
      BY <1>4 DEF Discover, Forget
    <3>3. QED BY <3>1, <3>2 DEF DirKept
  <2>3. DirsKept'
    BY <1>4, <2>2, NewDirectionDirection, TurnKept DEF Discover, Becomes, Forget
  <2> DEFINE rows == [Rows(dirs) EXCEPT ![t] = NewRow]
  <2>4. rows \in [Topic -> Row \cup {NoDir}]
    BY RowsType, NewDirectionDirection DEF DirectionsTypeOK
  <2>5. FrozenPaused(rows)
    <3>1. FrozenPaused(Rows(dirs)) /\ ~NewRow.frozen
      BY RowsPaused DEF NewRow
    <3>2. ASSUME NEW u \in Topic PROVE rows[u] = IF u = t THEN NewRow ELSE Rows(dirs)[u]
      BY DEF Rows
    <3>3. QED BY <3>1, <3>2 DEF FrozenPaused, Known
  <2>6. QED BY <1>4, <2>3, <2>4, <2>5, SaveBegun DEF Discover
<1>5. ASSUME NEW t \in Topic, Succeed(t) PROVE Kept'
  <2> DEFINE d == [Cycled(dirs[t]) EXCEPT !.row.productive = TRUE,
                                          !.row.fails = 0, !.mem.skips = 0]
  <2>1. dirs[t] \in Direction /\ ~dirs[t].row.frozen
    BY <1>5, ActiveKept DEF Succeed
  <2>2. /\ d \in Direction /\ d.row.fails = 0 /\ ~d.row.frozen
        /\ d.mem.circuit = dirs[t].mem.circuit
    <3>1. 0 \in 0 .. Fails /\ 0 \in 0 .. QSkips
      BY Bounds
    <3>2. Cycled(dirs[t]) \in Direction
      BY <2>1, CycledDirection
    <3>3. QED BY <2>1, <3>1, <3>2, CycledDirection DEF Direction, Row, Unsaved
  <2>3. misses'[t] = 0 /\ \A u \in Topic \ {t} : misses'[u] = misses[u]
    BY <1>5 DEF Succeed, DirectionsTypeOK
  <2>4. Becomes(t, d) /\ Has(t, "active") /\ UNCHANGED <<tripped, tested>>
    BY <1>5 DEF Succeed
  <2> HIDE DEF d
  <2>5. DirsKept'
    BY <2>2, <2>3, <2>4, CalmKept
  <2>6. QED BY <1>5, <2>5, SavedKept DEF Succeed
<1>6. ASSUME NEW t \in Topic, Fail(t) PROVE Kept'
  <2> DEFINE d == [Cycled(dirs[t]) EXCEPT !.row.fails = Upto(Fails, @ + 1)]
             trips == d.row.fails >= Fails
             freezes == trips /\ d.mem.circuit = "HALF_OPEN"
             frozen == [d EXCEPT !.row.status = "paused", !.row.frozen = TRUE,
                                 !.mem.circuit = "FROZEN"]
  <2>1. /\ dirs[t] \in Direction /\ ~dirs[t].row.frozen /\ t \notin tripped
        /\ dirs[t].row.fails <= misses[t]
        /\ dirs[t].mem.circuit = "HALF_OPEN" => t \in tested
    BY <1>6, ActiveKept DEF Fail
  <2>3. /\ d \in Direction /\ ~d.row.frozen /\ d.mem = dirs[t].mem
        /\ d.row.fails = Upto(Fails, dirs[t].row.fails + 1)
    <3>1. Upto(Fails, dirs[t].row.fails + 1) \in 0 .. Fails
      BY <2>1, Bounds DEF Upto, Direction, Row
    <3>2. QED BY <2>1, <3>1, CycledDirection DEF Direction, Row
  <2>4. /\ misses'[t] = Upto(Fails, misses[t] + 1)
        /\ \A u \in Topic \ {t} : misses'[u] = misses[u]
    BY <1>6 DEF Fail, Missed, DirectionsTypeOK
  <2>5. /\ d.row.fails <= misses'[t]
        /\ trips => d.row.fails = Fails /\ misses'[t] = Fails
    <3>1. dirs[t].row.fails \in 0 .. Fails /\ misses[t] \in 0 .. Fails
      BY <2>1 DEF DirectionsTypeOK, Direction, Row
    <3> HIDE DEF d
    <3>2. QED BY <2>1, <2>3, <2>4, <3>1, Bounds DEF Upto
  <2>6. DirsKept'
    <3>1. CASE freezes
      <4>1. dirs'[t] = frozen /\ tripped' = tripped
        BY <1>6, <3>1 DEF Fail, Becomes, DirectionsTypeOK
      <4>4. Becomes(t, frozen) /\ tested' = tested
        BY <1>6, <3>1 DEF Fail
      <4>2. frozen \in Direction
        BY <2>3 DEF Direction, Row, Unsaved, Status, Circuit
      <4>3. DirKept(t)'
        <5>1. /\ dirs'[t].mem.circuit = "FROZEN" /\ dirs'[t].row.frozen
              /\ dirs'[t].row.status = "paused" /\ dirs'[t].row.fails = d.row.fails
          BY <2>3, <4>1, FrozenParts
        <5>2. t \in tested /\ misses'[t] = Fails /\ t \notin tripped
          BY <2>1, <2>3, <2>5, <3>1
        <5> HIDE DEF d
        <5>3. QED BY <2>5, <4>1, <4>4, <5>1, <5>2 DEF DirKept
      <4>5. QED BY <2>4, <4>1, <4>2, <4>3, <4>4, TurnKept
    <3>2. CASE trips /\ ~freezes
      <4>1. Becomes(t, Trip(d)) /\ tripped' = tripped \cup {t} /\ tested' = tested
        BY <1>6, <3>2 DEF Fail
      <4>2. QED BY <2>3, <2>4, <2>5, <4>1, TripKept
    <3>3. CASE ~trips
      <4>1. Becomes(t, d) /\ UNCHANGED <<tripped, tested>>
        BY <1>6, <3>3 DEF Fail
      <4>2. QED BY <1>6, <2>3, <2>4, <2>5, <4>1, CalmKept DEF Fail
    <3>4. QED BY <3>1, <3>2, <3>3
  <2>7. QED BY <1>6, <2>6, SavedKept DEF Fail
<1>7. ASSUME NEW t \in Topic, Skip(t) PROVE Kept'
  <2> DEFINE d == [Cycled(dirs[t]) EXCEPT !.mem.skips = Upto(QSkips, @ + 1)]
             trips == d.mem.skips >= QSkips
  <2>1. dirs[t] \in Direction /\ ~dirs[t].row.frozen /\ dirs[t].row.fails <= misses[t]
    BY <1>7, ActiveKept DEF Skip
  <2>2. /\ d \in Direction /\ ~d.row.frozen /\ d.row.fails = dirs[t].row.fails
        /\ d.mem.circuit = dirs[t].mem.circuit /\ d.row.status = dirs[t].row.status
    <3>1. Upto(QSkips, Cycled(dirs[t]).mem.skips + 1) \in 0 .. QSkips
      BY <2>1, CycledDirection, Bounds DEF Upto, Direction, Unsaved
    <3>2. QED BY <2>1, <3>1, CycledDirection DEF Direction, Row, Unsaved
  <2>3. misses' = misses /\ tested' = tested
    BY <1>7 DEF Skip
  <2>4. CASE trips
    <3>1. Becomes(t, Trip(d)) /\ tripped' = tripped \cup {t} /\ Saved
      BY <1>7, <2>4 DEF Skip
    <3>2. QED BY <2>1, <2>2, <2>3, <3>1, TripKept, SavedKept
  <2>5. CASE ~trips
    <3>1. Becomes(t, d) /\ tripped' = tripped /\ NotSaved
      BY <1>7, <2>5 DEF Skip
    <3>2. DirsKept'
      BY <1>7, <2>1, <2>2, <2>3, <3>1, CalmKept DEF Skip
    <3>3. dirs'[t] = d /\ \A u \in Topic \ {t} : dirs'[u] = dirs[u]
      BY <3>1 DEF Becomes, DirectionsTypeOK
    <3>4. ASSUME NEW u \in Topic \ Lagging PROVE RowKept(u)'
      <4>1. RowKept(u) /\ UNCHANGED table
        BY <3>1 DEF RowsKept, NotSaved
      <4>2. /\ Addable(u)' => Addable(u)
            /\ dirs'[u] # NoDir /\ dirs'[u].row.frozen => dirs[u] # NoDir /\ dirs[u].row.frozen
        BY <1>7, <2>2, <3>3, NoDirAssumption DEF Addable, Has, Skip
      <4>3. QED BY <2>3, <3>1, <4>1, <4>2 DEF RowKept
    <3>5. QED BY <3>1, <3>2, <3>4, UnsavedKept DEF NotSaved
  <2>6. QED BY <2>4, <2>5
<1>8. ASSUME NEW t \in Topic, Becomes(t, Complete(dirs[t])), Has(t, "active"),
             UNCHANGED <<tripped, misses, tested>>, Saved
      PROVE  Kept'
  <2>1. dirs[t] \in Direction /\ ~dirs[t].row.frozen /\ dirs[t].row.fails <= misses[t]
    BY <1>8, ActiveKept
  <2>2. Complete(dirs[t]) \in Direction /\ Complete(dirs[t]).mem = dirs[t].mem
        /\ Complete(dirs[t]).row.fails = dirs[t].row.fails /\ ~Complete(dirs[t]).row.frozen
    BY <2>1, CompleteDirection DEF Complete, Direction, Row
  <2>3. QED BY <1>8, <2>1, <2>2, CalmKept, SavedKept
<1>9. ASSUME NEW t \in Topic, ReflectPauses(t) PROVE Kept'
  BY <1>9, ActiveKept, TripKept, SavedKept DEF ReflectPauses
<1>10. ASSUME NEW t \in Topic, Teach(t) PROVE Kept'
  <2> DEFINE d == [Cycled(dirs[t]) EXCEPT !.row.productive = TRUE]
  <2>1. dirs[t] \in Direction /\ ~dirs[t].row.frozen /\ dirs[t].row.fails <= misses[t]
    BY <1>10, ActiveKept DEF Teach
  <2>2. /\ d \in Direction /\ ~d.row.frozen /\ d.row.fails = dirs[t].row.fails
        /\ d.mem = dirs[t].mem
    <3>1. Cycled(dirs[t]) \in Direction
      BY <2>1, CycledDirection
    <3>2. QED BY <2>1, <3>1 DEF Cycled, Direction, Row
  <2>3. CASE Becomes(t, d)
    BY <1>10, <2>1, <2>2, <2>3, CalmKept, SavedKept DEF Teach
  <2>4. QED BY <1>8, <1>10, <2>3 DEF Teach
<1>11. ASSUME NEW t \in Topic, Test(t) PROVE Kept'
  <2> DEFINE d == [dirs[t] EXCEPT !.row.status = "active", !.mem.circuit = "HALF_OPEN"]
  <2>1. dirs[t] \in Direction
    BY <1>11, HasDirection DEF Test, Status
  <2>2. /\ dirs[t].mem.circuit = "OPEN" /\ ~dirs[t].row.frozen
        /\ dirs[t].row.fails <= misses[t]
    BY <1>11, <2>1 DEF Test, Has, DirsKept, DirKept, Known
  <2>3. d \in Direction /\ d.mem.circuit = "HALF_OPEN" /\ ~d.row.frozen
        /\ d.row.fails = dirs[t].row.fails
    BY <2>1, <2>2 DEF Direction, Row, Unsaved, Status, Circuit
  <2>4. dirs'[t] = d /\ t \in tested' /\ t \notin tripped' /\ misses' = misses
    BY <1>11 DEF Test, Becomes, DirectionsTypeOK
  <2>5. DirKept(t)'
    BY <2>2, <2>3, <2>4 DEF DirKept
  <2>6. DirsKept'
    BY <1>11, <2>3, <2>5, TurnKept DEF Test
  <2>7. QED BY <1>11, <2>6, SavedKept DEF Test
<1>12. ASSUME NEW t \in Topic, NEW rows \in {table, copy}, AddElsewhere(t, rows) PROVE Kept'
  <2>1. DirsKept'
    BY <1>12 DEF AddElsewhere, DirsKept, DirKept, Known
  <2>2. /\ table'[t] = NewRow
        /\ \A u \in Topic \ {t} : table'[u] = rows[u]
    BY <1>12 DEF AddElsewhere, DirectionsTypeOK
  <2>3. FrozenPaused(table)' /\ FrozenPaused(copy)' /\ \A s \in Saver : FrozenPaused(snap[s])'
    BY <1>12, <2>2 DEF RowsKept, FrozenPaused, Known, NewRow, AddElsewhere, saves
  <2>4. ASSUME NEW u \in Topic, u \notin Lagging' PROVE RowKept(u)'
    <3>1. rows[u] = table[u] /\ RowKept(u)
      BY <1>12, <2>4 DEF AddElsewhere, Lagging, saves, RowsKept
    <3>2. CASE u = t
      <4>1. table[t] # NoDir => table[t].status = "archived" /\ ~table[t].frozen
        <5>1. table[t] # NoDir => table[t].status = "archived"
          BY <1>12, <3>1, <3>2 DEF AddElsewhere
        <5>2. QED BY <5>1 DEF RowsKept, FrozenPaused, Known
      <4>2. misses[u] >= 0 /\ u \notin tripped' /\ (dirs[u] # NoDir => ~dirs[u].row.frozen)
        BY <1>12, <3>1, <3>2, <4>1 DEF RowKept, AddElsewhere, DirectionsTypeOK
      <4>3. QED BY <1>12, <2>2, <3>2, <4>2 DEF RowKept, AddElsewhere, NewRow
    <3>3. CASE u # t
      BY <1>12, <2>2, <3>1, <3>3 DEF RowKept, AddElsewhere, Has, Addable
    <3>4. QED BY <3>2, <3>3
  <2>5. QED BY <2>1, <2>3, <2>4 DEF RowsKept
<1>13. CASE Tune
  <2>1. PICK gone \in SUBSET Topic :
          /\ Forget(gone) /\ Saved
          /\ \A t \in tripped \ gone : dirs'[t] # NoDir
          /\ \A t \in Topic : dirs'[t] # NoDir =>
               /\ dirs[t] # NoDir /\ t \notin gone
               /\ dirs'[t] # dirs[t] =>
                    /\ t \notin tripped /\ dirs'[t] \in Direction
                    /\ dirs'[t].mem = dirs[t].mem /\ dirs'[t].row.fails = dirs[t].row.fails
                    /\ ~dirs[t].row.frozen /\ ~dirs'[t].row.frozen
                    /\ dirs[t].row.status # "archived"
    BY <1>13, TuneChanges
  <2>2. ASSUME NEW t \in Known(dirs') PROVE DirKept(t)'
    <3>1. DirKept(t) /\ t \notin gone /\ dirs'[t] # NoDir
      BY <2>1 DEF DirsKept, Known
    <3>2. /\ misses'[t] = misses[t]
          /\ t \in tripped' <=> t \in tripped
          /\ t \in tested' <=> t \in tested
      BY <2>1, <3>1 DEF Forget, Known
    <3>3. QED BY <2>1, <3>1, <3>2 DEF DirKept, Known
  <2>3. DirsKept'
    BY <2>1, <2>2 DEF DirsKept, Known, Forget
  <2>4. QED BY <2>1, <2>3, SavedKept
<1>14. CASE CleanUp
  <2>1. PICK gone \in SUBSET Topic : dirs' = Without(dirs, gone) /\ Forget(gone) /\ Saved
    BY <1>14 DEF CleanUp, With
  <2>2. QED BY <2>1, ForgetKept, SavedKept
<1>15. CASE Archive
  <2>1. PICK some \in SUBSET With("completed") :
          /\ dirs' = [t \in Topic |-> IF t \in some THEN [dirs[t] EXCEPT !.row.status = "archived"]
                                      ELSE dirs[t]]
          /\ UNCHANGED <<tripped, misses, tested>> /\ Saved
    BY <1>15 DEF Archive
  <2>2. ASSUME NEW t \in some
        PROVE  /\ dirs[t] \in Direction /\ dirs[t] # NoDir /\ ~dirs[t].row.frozen
               /\ t \notin tripped /\ dirs'[t].mem = dirs[t].mem
               /\ dirs'[t].row.status = "archived" /\ ~dirs'[t].row.frozen
    <3>1. dirs[t] \in Direction /\ Has(t, "completed") /\ t \in Topic
      BY HasDirection DEF With, Status
    <3>2. dirs[t] # NoDir /\ ~dirs[t].row.frozen /\ t \notin tripped
      BY <3>1 DEF DirsKept, DirKept, Known, Has
    <3>3. QED BY <2>1, <3>1, <3>2 DEF Direction, Row
  <2>3. ASSUME NEW t \in Topic \ some PROVE dirs'[t] = dirs[t]
    BY <2>1, <2>3
  <2>4. DirsKept'
    BY <2>1, <2>2, <2>3, NoDirAssumption DEF DirsKept, DirKept, Known, DirectionsTypeOK
  <2>5. QED BY <2>1, <2>4, SavedKept
<1>16. ASSUME Restarted, NEW t \in Topic, table[t] # NoDir
       PROVE  /\ Loaded(t) \in Direction /\ Loaded(t) # NoDir
              /\ Loaded(t).row = table[t] /\ Loaded(t).mem.circuit = "CLOSED"
              /\ table[t].status # "archived" => table[t].fails <= misses'[t]
              /\ table[t].frozen => table[t].status = "paused"
  <2>1. Loaded(t) \in Direction
    BY <1>16, NewDirectionDirection DEF Loaded, DirectionsTypeOK, Direction
  <2>2. table[t].status # "archived" => table[t].fails <= misses'[t]
    BY <1>16 DEF Restarted, RowsKept, RowKept, DirectionsTypeOK, Row
  <2>3. QED BY <1>16, <2>1, <2>2, NoDirAssumption DEF Loaded, Fresh, RowsKept, FrozenPaused, Known
<1>17. CASE Restart
  <2>1. ASSUME NEW t \in Topic
        PROVE  /\ table[t] = NoDir => dirs'[t] = NoDir
               /\ table[t] # NoDir => dirs'[t] = Loaded(t)
    BY <1>17 DEF Restart
  <2>2. Restarted /\ tripped' = {} /\ UNCHANGED <<table, copy>>
    BY <1>17 DEF Restart, Restarted
  <2>3. DirsKept'
    BY <1>16, <2>1, <2>2 DEF DirsKept, DirKept, Known
  <2>4. ASSUME NEW t \in Topic PROVE RowKept(t)'
    BY <1>16, <2>1, <2>2 DEF RowKept, Has, Addable
  <2>5. \A s \in Saver : FrozenPaused(snap[s])'
    BY <1>17 DEF Restart, NoSnaps, NoRows, FrozenPaused, Known
  <2>6. QED BY <2>2, <2>3, <2>4, <2>5 DEF RowsKept, FrozenPaused, Known
<1>18. CASE LoopRestart
  <2>1. ASSUME NEW t \in Topic
        PROVE  dirs'[t] = IF table[t] = NoDir THEN dirs[t] ELSE Loaded(t)
    BY <1>18 DEF LoopRestart
  <2>2. Restarted /\ UNCHANGED <<table, copy, snap>>
    BY <1>18 DEF LoopRestart, Restarted, saves
  <2>3. ASSUME NEW t \in Topic, table[t] = NoDir
        PROVE  /\ dirs'[t] = dirs[t] /\ misses'[t] = misses[t]
               /\ (t \in tripped') <=> (t \in tripped)
               /\ (t \in tested') <=> (t \in tested)
               /\ t \in Lagging => t \in Lagging'
    BY <1>18, <2>1, <2>2, <2>3 DEF LoopRestart, Restarted, Lagging, saves
  <2>4. ASSUME NEW t \in Topic, table[t] # NoDir PROVE t \notin tripped'
    BY <1>18, <2>4 DEF LoopRestart
  <2>5. ASSUME NEW t \in Known(dirs') PROVE DirKept(t)'
    <3>1. t \in Topic /\ dirs'[t] # NoDir
      BY DEF Known
    <3>2. CASE table[t] = NoDir
      BY <2>3, <3>1, <3>2 DEF DirsKept, DirKept, Known
    <3>3. CASE table[t] # NoDir
      BY <1>16, <2>1, <2>2, <2>4, <3>1, <3>3 DEF DirKept
    <3>4. QED BY <3>2, <3>3
  <2>6. DirsKept'
    <3>1. ASSUME NEW t \in tripped' PROVE dirs'[t] # NoDir
      BY <2>3, <2>4 DEF DirsKept, DirectionsTypeOK
    <3>2. QED BY <2>5, <3>1 DEF DirsKept
  <2>7. ASSUME NEW t \in Topic, t \notin Lagging' PROVE RowKept(t)'
    <3>1. CASE table[t] = NoDir
      BY <2>2, <2>3, <2>7, <3>1 DEF RowsKept, RowKept
    <3>2. CASE table[t] # NoDir
      BY <1>16, <2>1, <2>2, <2>4, <3>2 DEF RowKept, Has, Addable
    <3>3. QED BY <3>1, <3>2
  <2>8. QED BY <2>2, <2>6, <2>7 DEF RowsKept, FrozenPaused, Known
<1>19. ASSUME NEW t \in Topic, CortexAdds(t) PROVE Kept'
  <2>1. dirs'[t] = NewDirection /\ \A u \in Topic \ {t} : dirs'[u] = dirs[u]
    BY <1>19 DEF CortexAdds, DirectionsTypeOK
  <2>2. /\ misses'[t] = 0 /\ t \notin tripped'
        /\ \A u \in Topic \ {t} : misses'[u] = misses[u] /\ (u \in tripped' <=> u \in tripped)
    BY <1>19 DEF CortexAdds, Forget
  <2>3. /\ NewDirection.mem.circuit = "CLOSED" /\ ~NewDirection.row.frozen
        /\ NewDirection.row.fails = 0 /\ NewDirection.row.status = "active" /\ NewDirection # NoDir
    BY NewDirectionDirection, NoDirAssumption DEF NewDirection, NewRow, Fresh
  <2>4. DirsKept'
    <3>1. DirKept(t)'
      BY <2>1, <2>2, <2>3 DEF DirKept
    <3>2. QED BY <1>19, <3>1, NewDirectionDirection, TurnKept DEF CortexAdds, Becomes, Forget
  <2>5. /\ UNCHANGED <<table, copy, outdated>> /\ todo'["loop"] = todo["loop"]
        /\ snap'["loop"] = snap["loop"] /\ snap'["cortex"] = Rows(dirs')
    BY <1>19 DEF CortexAdds, Snapshot, DirectionsTypeOK, Saver
  <2>6. ASSUME NEW u \in Topic, u \notin Lagging' PROVE RowKept(u)'
    <3>1. RowKept(u)
      BY <2>5, <2>6 DEF Lagging, RowsKept
    <3>2. CASE u = t
      BY <1>19, <2>1, <2>2, <2>3, <2>5, <3>1, <3>2 DEF CortexAdds, RowKept, Addable, Has
    <3>3. CASE u # t
      BY <2>1, <2>2, <2>5, <3>1, <3>3 DEF RowKept, Addable, Has
    <3>4. QED BY <3>2, <3>3
  <2>7. FrozenPaused(Rows(dirs'))
    BY <2>4, NoDirAssumption
       DEF DirectionsTypeOK, DirsKept, DirKept, FrozenPaused, Known, Rows, Direction
  <2>8. QED BY <2>4, <2>5, <2>6, <2>7 DEF RowsKept, FrozenPaused, Known, Saver
<1>20. ASSUME NEW t \in Topic, CortexRefused(t) PROVE Kept'
  <2>1. dirs' = Without(dirs, {t})
    BY <1>20 DEF CortexRefused, Without, DirectionsTypeOK
  <2>2. DirsKept'
    BY <1>20, <2>1, ForgetKept DEF CortexRefused
  <2>3. ASSUME NEW u \in Topic \ Lagging PROVE RowKept(u)'
    BY <1>20, <2>1, <2>3 DEF RowsKept, RowKept, CortexRefused, Forget, Without, Has, Addable,
                             DirectionsTypeOK, Row
  <2>4. QED BY <1>20, <2>2, <2>3, UnsavedKept DEF CortexRefused
<1>21. ASSUME NEW s \in Saver, NEW some \in SUBSET Topic, Writes(s, some) PROVE Kept'
  <2>1. DirsKept'
    BY <1>21 DEF Writes, DirsKept, DirKept, Known
  <2>2. ASSUME NEW t \in Topic
        PROVE  /\ table'[t] = IF t \in some THEN snap[s][t] ELSE table[t]
               /\ snap'[s][t] = IF t \in some THEN NoDir ELSE snap[s][t]
    BY <1>21 DEF Writes, DirectionsTypeOK
  <2>3. FrozenPaused(table)' /\ FrozenPaused(copy)'
    BY <1>21, <2>2 DEF Writes, RowsKept, FrozenPaused, Known
  <2>4. ASSUME NEW r \in Saver PROVE FrozenPaused(snap[r])'
    <3>1. CASE r = s
      BY <2>2, <3>1 DEF RowsKept, FrozenPaused, Known
    <3>2. CASE r # s
      BY <1>21, <3>2 DEF Writes, RowsKept, FrozenPaused, Known, DirectionsTypeOK
    <3>3. QED BY <3>1, <3>2
  <2>5. ASSUME NEW t \in Topic, t \notin Lagging' PROVE RowKept(t)'
    <3>1. CASE t \in some
      <4>1. snap[s][t] = Rows(dirs)[t] /\ UNCHANGED dirs
        BY <1>21, <2>5, <3>1 DEF Writes, Lagging
      <4>2. (table[t] = Rows(dirs)[t])'
        BY <2>2, <3>1, <4>1
      <4>3. QED BY <2>1, <4>2, <1>0
    <3>2. CASE t \notin some
      <4>1. t \notin Lagging
        BY <1>21, <2>5, <3>2 DEF Writes, Lagging, DirectionsTypeOK, Saver
      <4>2. QED BY <1>21, <2>2, <3>2, <4>1 DEF Writes, RowsKept, RowKept, Has, Addable
    <3>3. QED BY <3>1, <3>2
  <2>6. QED BY <2>1, <2>3, <2>4, <2>5 DEF RowsKept
<1>22. CASE Saving
  <2>1. PICK s \in Saver : SaveStep(s) \/ SaveBreaks(s)
    BY <1>22 DEF Saving
  <2>2. CASE SaveStep(s)
    <3>1. todo[s] \in SUBSET Topic
      BY DEF DirectionsTypeOK
    <3>2. QED BY <1>21, <2>2, <3>1 DEF SaveStep
  <2>3. CASE SaveBreaks(s)
    <3>1. DirsKept' /\ UNCHANGED <<dirs, table, copy>>
      BY <2>3 DEF SaveBreaks, DirsKept, DirKept, Known
    <3>2. \A r \in Saver : FrozenPaused(snap[r])'
      BY <2>3 DEF SaveBreaks, NoRows, RowsKept, FrozenPaused, Known, DirectionsTypeOK
    <3>3. ASSUME NEW t \in Topic, t \notin Lagging' PROVE RowKept(t)'
      <4>1. CASE s = "loop"
        <5>1. (table[t] = Rows(dirs)[t])'
          BY <2>3, <3>3, <4>1 DEF SaveBreaks, Lagging
        <5>2. QED BY <3>1, <5>1, <1>0
      <4>2. CASE s # "loop"
        <5>1. t \notin Lagging
          BY <2>3, <3>3, <4>2 DEF SaveBreaks, Lagging, DirectionsTypeOK, Saver
        <5>2. QED BY <2>3, <5>1 DEF SaveBreaks, RowsKept, RowKept, Has, Addable
      <4>3. QED BY <4>1, <4>2
    <3>4. QED BY <3>1, <3>2, <3>3 DEF RowsKept, FrozenPaused, Known
  <2>4. QED BY <2>1, <2>2, <2>3
<1>23. ASSUME NEW t \in Goal, Others(t) PROVE Kept'
  BY <1>12, <1>19, <1>20, <1>23, DirectionConstants DEF Others
<1>24. QED
  BY <1>1, <1>2, <1>3, <1>4, <1>5, <1>6, <1>7, <1>8, <1>9, <1>10, <1>11, <1>13, <1>14, <1>15,
     <1>17, <1>18, <1>22, <1>23 DEF Next, Turn, ReflectCompletes

\* The breaker of a direction in Kept: FreezeEarned and PausesSaved hold always.
LEMMA KeptAlways == Spec => [](DirectionsTypeOK /\ Kept)
<1>1. Init => Kept
  BY DEF Init, Kept, DirsKept, RowsKept, RowKept, FrozenPaused, Known, Has, Addable,
         NoRows, NoSnaps
<1>2. DirectionsTypeOK /\ DirectionsTypeOK' /\ Kept /\ [Next]_vars => Kept'
  BY KeptStep
<1>3. QED BY TypeCorrect, <1>1, <1>2, PTL DEF Spec

\* A freeze is earned, in every run of the learner: by a test and by as many
\* failures in a row as the breaker counts.
THEOREM FreezesEarned == Spec => []FreezeEarned
<1>1. Kept => FreezeEarned
  BY DEF Kept, DirsKept, DirKept, FreezeEarned
<1>2. QED BY KeptAlways, <1>1, PTL

\* What the breaker has paused is found paused after a restart.
THEOREM PausedSaved == Spec => []PausesSaved
<1>1. DirectionsTypeOK /\ Kept => PausesSaved
  BY DEF Kept, RowsKept, RowKept, PausesSaved, DirectionsTypeOK
<1>2. QED BY KeptAlways, <1>1, PTL
-----------------------------------------------------------------------------
\* One step leaves a frozen direction frozen, or removes it; a restart finds it
\* frozen if its row is not behind.
LEMMA FrozenStep ==
  ASSUME DirectionsTypeOK, Kept, [Next]_vars, NEW t \in Topic, dirs[t] # NoDir,
         dirs[t].row.frozen, dirs'[t] # NoDir, restarts' = restarts \/ t \notin Lagging
  PROVE  dirs'[t].row.frozen
<1>1. dirs[t].row.status = "paused" /\ dirs[t].mem.circuit \in {"CLOSED", "FROZEN"}
  BY DEF Kept, DirsKept, DirKept, Known
<1>2. CASE UNCHANGED vars
  BY <1>2 DEF vars
<1>3. ASSUME NEW u \in Topic, Turn(u) PROVE dirs'[t] = dirs[t]
  <2>1. CASE u # t
    BY <1>3, <2>1
       DEF Turn, Add, AddRefused, Discover, Succeed, Fail, Skip, ReflectCompletes,
           ReflectPauses, Teach, Test, Becomes, DirectionsTypeOK
  <2>2. CASE u = t
    BY <1>1, <1>3, <2>2
       DEF Turn, Add, AddRefused, Discover, Succeed, Fail, Skip, ReflectCompletes,
           ReflectPauses, Teach, Test, Addable, Has
  <2>3. QED BY <2>1, <2>2
<1>4. ASSUME NEW u \in Topic, Others(u) PROVE dirs'[t] = dirs[t]
  <2>1. CASE u # t
    BY <1>4, <2>1 DEF Others, CortexAdds, CortexRefused, AddElsewhere, DirectionsTypeOK
  <2>2. CASE u = t
    BY <1>1, <1>4, <2>2 DEF Others, CortexAdds, CortexRefused, AddElsewhere, Addable, Has
  <2>3. QED BY <2>1, <2>2
<1>5. CASE Tune
  BY <1>5, TuneChanges DEF Kept
<1>6. CASE CleanUp
  BY <1>6 DEF CleanUp, Without
<1>7. CASE Archive
  BY <1>1, <1>7 DEF Archive, With, Has
<1>8. CASE Saving
  BY <1>8 DEF Saving, SaveStep, SaveBreaks, Writes
<1>9. CASE Restart \/ LoopRestart
  <2>1. t \notin Lagging
    BY <1>9, Bounds DEF Restart, LoopRestart, Restarted, DirectionsTypeOK
  <2>2. table[t] # NoDir /\ table[t].frozen
    BY <2>1 DEF Kept, RowsKept, RowKept
  <2>3. QED BY <1>9, <2>2 DEF Restart, LoopRestart, Loaded
<1>10. QED
  BY <1>2, <1>3, <1>4, <1>5, <1>6, <1>7, <1>8, <1>9, DirectionConstants DEF Next

\* A frozen direction is not worked on again: never in this run of the learner, nor
\* in a later one, unless its row could not be written or was overwritten.
THEOREM FrozenForGood == Spec => FrozenStays
<1>1. ASSUME DirectionsTypeOK, Kept, Kept', [Next]_vars
      PROVE  [\A t \in Known(dirs) :
                (dirs[t].row.frozen /\ dirs'[t] # NoDir
                   /\ (restarts' = restarts \/ t \notin Lagging))
                  => dirs'[t].row.frozen /\ dirs'[t].row.status = "paused"]_vars
  <2> SUFFICES ASSUME NEW t \in Known(dirs),
                      dirs[t].row.frozen, dirs'[t] # NoDir,
                      restarts' = restarts \/ t \notin Lagging
               PROVE  dirs'[t].row.frozen /\ dirs'[t].row.status = "paused"
    OBVIOUS
  <2>1. dirs'[t].row.frozen
    BY <1>1, FrozenStep DEF Known
  <2>2. DirKept(t)'
    BY <1>1 DEF Kept, DirsKept, Known
  <2>3. QED BY <2>1, <2>2 DEF DirKept
<1>2. QED BY KeptAlways, <1>1, PTL DEF Spec, FrozenStays
=============================================================================
