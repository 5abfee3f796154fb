--------------------------- MODULE LearnerThreads ---------------------------
(***************************************************************************)
(* The learner worker (learn_worker.py): its main thread, which polls the  *)
(* commands that the API process leaves in control.json, the threads of    *)
(* the learning loop that start() spawns (learn/loop.py), and the health   *)
(* daemon, which spawns a loop in place of one that died.  They share      *)
(* Learner._running, _health_alive and _thread without a common lock:      *)
(* start() takes _start_lock and the daemon takes _restart_lock.           *)
(*                                                                         *)
(* The process may die at any point, and systemd starts it again.  The     *)
(* heartbeat and watchdog threads only write the status file and the log   *)
(* and are left out; the worker's main thread writes the status as well.   *)
(***************************************************************************)
EXTENDS Naturals, FiniteSets

CONSTANTS
  Loop,          \* loop threads of one life of the process
  NoLoop,
  MaxCommands,   \* bound: commands of administrators
  MaxCrashes,    \* bound: exceptions that end a loop
  MaxKills,      \* bound: deaths of the process
  FlapLimit      \* looks within 60 s of a respawn that make the daemon wait

ASSUME LoopAssumption == NoLoop \notin Loop /\ IsFiniteSet(Loop)
ASSUME ThreadBounds == {MaxCommands, MaxCrashes, MaxKills} \subseteq Nat /\ FlapLimit \in Nat \ {0}

VARIABLES
  running,      \* _running
  healthAlive,  \* _health_alive
  thread,       \* _thread
  loop,         \* loop[m]: what loop thread m is doing
  daemon,       \* the health daemon
  recent,       \* its last respawn, _last_restart_ts, is less than 60 s ago
  rapid,        \* _rapid_restarts
  worker,       \* the main thread
  cmd,          \* the command it has read
  lastCmd,      \* _last_cmd_id
  control, ack, \* control.json and control_ack.json
  fresh,        \* status.json is younger than 90 s
  issued, crashes, kills,
  commanded,    \* history: a start command has spawned a loop
  abandoned,    \* history: start() took a daemon that was ending for a live one
  revived       \* history: the daemon spawned a loop after stop()

flags == <<running, healthAlive>>
loops == <<thread, loop>>
health == <<daemon, recent, rapid>>
main == <<worker, cmd, lastCmd>>
disk == <<control, ack, fresh>>
workerBounds == <<issued, crashes, kills>>
workerHistory == <<commanded, abandoned, revived>>
workerVars == <<flags, loops, health, main, disk, workerBounds, workerHistory>>

None == [id |-> 0, op |-> "none"]
Command == [id : 0 .. MaxCommands, op : {"none", "start", "stop"}]

WorkerTypeOK ==
  /\ {running, healthAlive, recent, fresh, commanded, abandoned, revived} \subseteq BOOLEAN
  /\ thread \in Loop \cup {NoLoop}
  /\ loop \in [Loop -> {"dead", "iterate", "rest"}]
  /\ daemon \in 
       {"none", "asleep", "awake", "respawn", "spawn", "cooldown", "ending"}
  /\ rapid \in 0 .. FlapLimit - 1
  /\ worker \in 
       {"down", "poll", "starting", "spawning", "stopping", "check"}
  /\ cmd \in Command /\ control \in Command
  /\ lastCmd \in 0 .. MaxCommands /\ ack \in 0 .. MaxCommands
  /\ issued \in 0 .. MaxCommands
  /\ crashes \in 0 .. MaxCrashes /\ kills \in 0 .. MaxKills

WorkerInit ==
  /\ running = FALSE /\ healthAlive = FALSE
  /\ thread = NoLoop /\ loop = [m \in Loop |-> "dead"]
  /\ daemon = "none" /\ recent = FALSE /\ rapid = 0
  /\ worker = "down" /\ cmd = None /\ lastCmd = 0
  /\ control = None /\ ack = 0 /\ fresh = FALSE
  /\ issued = 0 /\ crashes = 0 /\ kills = 0
  /\ commanded = FALSE /\ abandoned = FALSE /\ revived = FALSE

Live == {m \in Loop : loop[m] # "dead"}
IsAlive == thread \in Live

\* threading.Thread(target=self._main_loop_safe).start(): which of the names
\* that are free the thread gets makes no difference.
Spawn(m) ==
  /\ m \notin Live /\ m = CHOOSE n \in Loop \ Live : TRUE
  /\ thread' = m
  /\ loop' = [loop EXCEPT ![m] = "iterate"]

-----------------------------------------------------------------------------
(***************************************************************************)
(* The loop threads                                                        *)
(***************************************************************************)

\* An iteration comes to a look at _running: a _sleep, or the head of the loop.
GoToRest(m) ==
  /\ loop[m] = "iterate"
  /\ loop' = [loop EXCEPT ![m] = "rest"]
  /\ UNCHANGED <<flags, thread, health, main, disk, workerBounds, workerHistory>>

\* Mutant: the rest ends without a look at _running.
GoOnUnasked(m) ==
  /\ loop[m] = "rest"
  /\ loop' = [loop EXCEPT ![m] = "iterate"]
  /\ UNCHANGED <<flags, thread, health, main, disk, workerBounds, workerHistory>>

\* It finds _running set ...
GoOn(m) ==
  /\ loop[m] = "rest" /\ running
  /\ loop' = [loop EXCEPT ![m] = "iterate"]
  /\ UNCHANGED <<flags, thread, health, main, disk, workerBounds, workerHistory>>

\* ... or not: the loop returns or _sleep raises SystemExit, and the thread ends.
Finish(m) ==
  /\ loop[m] = "rest" /\ ~running
  /\ loop' = [loop EXCEPT ![m] = "dead"]
  /\ UNCHANGED <<flags, thread, health, main, disk, workerBounds, workerHistory>>

\* _main_loop_safe: any other exception clears _running, whoever set it.
CrashLoop(m) ==
  /\ m \in Live /\ crashes < MaxCrashes
  /\ crashes' = crashes + 1
  /\ loop' = [loop EXCEPT ![m] = "dead"]
  /\ running' = FALSE
  /\ UNCHANGED <<healthAlive, thread, health, main, disk, issued, kills, workerHistory>>

-----------------------------------------------------------------------------
(***************************************************************************)
(* _health_daemon                                                          *)
(***************************************************************************)

\* After its sleep the daemon asks _health_alive ...
DaemonWake ==
  /\ daemon = "asleep"
  /\ daemon' = IF healthAlive THEN "awake" ELSE "ending"
  /\ UNCHANGED <<flags, loops, recent, rapid, main, disk, workerBounds, workerHistory>>

DaemonEnd ==
  /\ daemon = "ending"
  /\ daemon' = "none"
  /\ UNCHANGED <<flags, loops, recent, rapid, main, disk, workerBounds, workerHistory>>

\* ... then whether the loop has died ...
DaemonFindsAlive ==
  /\ daemon = "awake" /\ IsAlive
  /\ daemon' = "asleep"
  /\ UNCHANGED <<flags, loops, recent, rapid, main, disk, workerBounds, workerHistory>>

\* ... and how long ago it was respawned.  Every look that finds it dead too
\* soon counts, the looks at one and the same death too.
DaemonBacksOff ==
  /\ daemon = "awake" /\ ~IsAlive /\ recent
  /\ rapid' = (rapid + 1) % FlapLimit
  /\ daemon' = IF rapid + 1 = FlapLimit THEN "cooldown" ELSE "asleep"
  /\ UNCHANGED <<flags, loops, recent, main, disk, workerBounds, workerHistory>>

\* The ten minutes pass, and with them the 60 s.
DaemonCooled ==
  /\ daemon = "cooldown"
  /\ daemon' = IF healthAlive THEN "asleep" ELSE "ending"
  /\ recent' = FALSE
  /\ UNCHANGED <<flags, loops, rapid, main, disk, workerBounds, workerHistory>>

MinutePasses ==
  /\ recent /\ recent' = FALSE
  /\ UNCHANGED <<flags, loops, daemon, rapid, main, disk, workerBounds, workerHistory>>

\* stop() has begun, or is over.
Stopping == worker = "stopping" \/ ~healthAlive

\* Mutant: the daemon goes by _running, not by the thread.
DaemonAsksRunning ==
  /\ daemon = "awake" /\ ~running /\ ~recent
  /\ running' = TRUE
  /\ revived' = (revived \/ Stopping)
  /\ daemon' = "spawn" /\ recent' = TRUE /\ rapid' = 0
  /\ UNCHANGED <<healthAlive, loops, main, disk, workerBounds, commanded, abandoned>>

DaemonFindsDead ==
  /\ daemon = "awake" /\ ~IsAlive /\ ~recent
  /\ daemon' = "respawn" /\ recent' = TRUE /\ rapid' = 0
  /\ UNCHANGED <<flags, loops, main, disk, workerBounds, workerHistory>>

\* Under _restart_lock it looks again, sets _running and spawns.
DaemonRevives ==
  /\ daemon = "respawn" /\ ~IsAlive
  /\ running' = TRUE
  /\ revived' = (revived \/ Stopping)
  /\ daemon' = "spawn"
  /\ UNCHANGED <<healthAlive, loops, recent, rapid, main, disk, workerBounds, commanded, abandoned>>

DaemonSkips ==
  /\ daemon = "respawn" /\ IsAlive
  /\ daemon' = "asleep"
  /\ UNCHANGED <<flags, loops, recent, rapid, main, disk, workerBounds, workerHistory>>

DaemonSpawns(m) ==
  /\ daemon = "spawn"
  /\ Spawn(m)
  /\ daemon' = "asleep"
  /\ UNCHANGED <<flags, recent, rapid, main, disk, workerBounds, workerHistory>>

-----------------------------------------------------------------------------
(***************************************************************************)
(* The main thread: learn_worker.main, Learner.start and Learner.stop      *)
(***************************************************************************)

\* systemd starts the process, which starts the learner.
Boot ==
  /\ worker = "down"
  /\ worker' = "starting"
  /\ UNCHANGED <<flags, loops, health, cmd, lastCmd, disk, workerBounds, workerHistory>>

New == control.id # 0 /\ control.id # lastCmd

\* apply_control reads a new command; stop() begins with _running.
PollStop ==
  /\ worker = "poll" /\ New /\ control.op = "stop"
  /\ cmd' = control
  /\ running' = FALSE
  /\ worker' = "stopping"
  /\ UNCHANGED <<healthAlive, loops, health, lastCmd, disk, workerBounds, workerHistory>>

PollStart ==
  /\ worker = "poll" /\ New /\ control.op = "start"
  /\ cmd' = control
  /\ worker' = "starting"
  /\ UNCHANGED <<flags, loops, health, lastCmd, disk, workerBounds, workerHistory>>

PollNothing ==
  /\ worker = "poll" /\ ~New
  /\ worker' = "check"
  /\ UNCHANGED <<flags, loops, health, cmd, lastCmd, disk, workerBounds, workerHistory>>

\* write_learner_control_ack, once the command is applied.
Acknowledge ==
  /\ worker' = "check"
  /\ lastCmd' = IF cmd = None THEN lastCmd ELSE cmd.id
  /\ ack' = IF cmd = None THEN ack ELSE cmd.id
  /\ cmd' = None

\* Mutant: stop() leaves _health_alive alone.
StopForgetsHealth ==
  /\ worker = "stopping"
  /\ Acknowledge
  /\ UNCHANGED <<flags, loops, health, control, fresh, workerBounds, workerHistory>>

StopEnds ==
  /\ worker = "stopping"
  /\ healthAlive' = FALSE
  /\ Acknowledge
  /\ UNCHANGED <<running, loops, health, control, fresh, workerBounds, workerHistory>>

\* Mutant: a start that is declined is not acknowledged.
StartDeclinedSilently ==
  /\ worker = "starting"
  /\ worker' = "check" /\ lastCmd' = cmd.id /\ cmd' = None
  /\ UNCHANGED <<flags, loops, health, disk, workerBounds, workerHistory>>

\* start(): already running, or no directions, or the community edition.
StartDeclined ==
  /\ worker = "starting"
  /\ Acknowledge
  /\ UNCHANGED <<flags, loops, health, control, fresh, workerBounds, workerHistory>>

StartChecks ==
  /\ worker = "starting" /\ ~(running /\ IsAlive)
  /\ worker' = "spawning"
  /\ UNCHANGED <<flags, loops, health, cmd, lastCmd, disk, workerBounds, workerHistory>>

\* Mutant: start() spawns the daemon only with the first loop.
StartWithoutDaemon(m) ==
  /\ worker = "spawning"
  /\ running' = TRUE /\ healthAlive' = TRUE
  /\ Spawn(m)
  /\ daemon' = IF thread = NoLoop THEN "asleep" ELSE daemon
  /\ commanded' = (commanded \/ cmd # None)
  /\ abandoned' = (abandoned \/ daemon = "ending")
  /\ Acknowledge
  /\ UNCHANGED <<recent, rapid, control, fresh, workerBounds, revived>>

\* start() past its checks, still under _start_lock
Start(m) ==
  /\ worker = "spawning"
  /\ running' = TRUE /\ healthAlive' = TRUE
  /\ Spawn(m)
  /\ daemon' = IF daemon = "none" THEN "asleep" ELSE daemon
  /\ commanded' = (commanded \/ cmd # None)
  /\ abandoned' = (abandoned \/ daemon = "ending")
  /\ Acknowledge
  /\ UNCHANGED <<recent, rapid, control, fresh, workerBounds, revived>>

\* _save_status, and the loop of main() goes on.
CheckAlive ==
  /\ worker = "check"
  /\ ~running \/ IsAlive
  /\ fresh' = TRUE
  /\ worker' = "poll"
  /\ UNCHANGED <<flags, loops, health, cmd, lastCmd, control, ack, workerBounds, workerHistory>>

\* What was in memory is gone.
Vanish ==
  /\ running' = FALSE /\ healthAlive' = FALSE
  /\ thread' = NoLoop /\ loop' = [m \in Loop |-> "dead"]
  /\ daemon' = "none" /\ recent' = FALSE /\ rapid' = 0
  /\ worker' = "down" /\ cmd' = None /\ lastCmd' = 0
  /\ commanded' = FALSE /\ abandoned' = FALSE /\ revived' = FALSE

\* should_exit: running without a live loop.
CheckExits ==
  /\ worker = "check"
  /\ running /\ ~IsAlive
  /\ fresh' = TRUE
  /\ Vanish
  /\ UNCHANGED <<control, ack, workerBounds>>

Kill ==
  /\ worker # "down" /\ kills < MaxKills
  /\ kills' = kills + 1
  /\ Vanish
  /\ UNCHANGED <<disk, issued, crashes>>

-----------------------------------------------------------------------------
\* _queue_learner_cmd: refused with 409 while the status is stale.
Issue(op) ==
  /\ fresh /\ issued < MaxCommands
  /\ issued' = issued + 1
  /\ control' = [id |-> issued + 1, op |-> op]
  /\ UNCHANGED <<flags, loops, health, main, ack, fresh, crashes, kills, workerHistory>>

StatusAges ==
  /\ fresh /\ worker = "down"
  /\ fresh' = FALSE
  /\ UNCHANGED <<flags, loops, health, main, control, ack, workerBounds, workerHistory>>

LoopStep(m) == GoToRest(m) \/ GoOn(m) \/ Finish(m)

DaemonStep ==
  \/ DaemonWake \/ DaemonEnd \/ DaemonCooled
  \/ DaemonFindsAlive \/ DaemonBacksOff \/ DaemonFindsDead
  \/ DaemonRevives \/ DaemonSkips \/ \E m \in Loop : DaemonSpawns(m)

WorkerStep ==
  \/ PollStop \/ PollStart \/ PollNothing \/ StopEnds
  \/ StartChecks \/ StartDeclined \/ \E m \in Loop : Start(m)
  \/ CheckAlive \/ CheckExits

WorkerNext ==
  \/ \E m \in Loop : LoopStep(m) \/ CrashLoop(m)
  \/ DaemonStep \/ MinutePasses
  \/ Boot \/ WorkerStep \/ Kill
  \/ (\E op \in {"start", "stop"} : Issue(op)) \/ StatusAges

WorkerSpec == WorkerInit /\ [][WorkerNext]_workerVars

\* The operating system schedules every thread, a minute passes, and systemd
\* starts the process again.  Nothing promises a command, a crash or a death.
WorkerFairness ==
  /\ \A m \in Loop : WF_workerVars(LoopStep(m))
  /\ WF_workerVars(DaemonStep) /\ WF_workerVars(MinutePasses)
  /\ WF_workerVars(Boot) /\ WF_workerVars(WorkerStep)

WorkerFairSpec == WorkerSpec /\ WorkerFairness

-----------------------------------------------------------------------------
(***************************************************************************)
(* Properties                                                              *)
(***************************************************************************)

\* Crashes, respawns, stops and backoffs never leave two learning loops at
\* work in the process, as long as no start command has spawned one.
OneLoop == ~commanded => Cardinality(Live) <= 1

\* A loop that died while the learner was meant to run is running again in
\* time, or the learner is stopped, or the process is; except if start() came
\* between the daemon's last look at _health_alive and its end.
Revived ==
  (healthAlive /\ ~IsAlive /\ ~abandoned) ~> (IsAlive \/ ~healthAlive)

\* After stop() every loop thread, the orphans of earlier starts too, comes to
\* an end, unless the learner is started again.
AllStop == (~running /\ ~healthAlive) ~> (Live = {} \/ running)

\* A stop command stays in force, over deaths of loops and of the process,
\* until another command: the learner is again and again found not running.
\* The daemon defeats it if it was past its look at _health_alive by then.
StopHolds ==
  (control.op = "stop") ~> (~running \/ control.op # "stop" \/ revived)

\* Every command is acknowledged, if it is not overwritten by another before
\* the worker reads it (routes_system.py:905: the worker executes it within 5 s).
CommandAcked ==
  \A c \in 1 .. MaxCommands : (control.id = c) ~> (ack = c \/ control.id # c)

=============================================================================
