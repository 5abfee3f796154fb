---------------------------- MODULE Experiments ----------------------------
(***************************************************************************)
(* The parameters in calibration.json (core/calibration.py) and the        *)
(* experiments on the number of directions that the learner runs with one  *)
(* of them (core/interventions.py): open one, measure 24 h later, keep or  *)
(* revert.                                                                 *)
(*                                                                         *)
(* A Calibration holds the whole of the file in memory and saves the whole *)
(* of it.  The learner has three: the singleton of get_calibration(),      *)
(* loaded once and used by the experiments, the meta-review and all        *)
(* readers; and one that each auto-tune loads afresh; a reviewer's command *)
(* loads its own.  Two parameters are told apart: metacog.evolve_threshold *)
(* and learning.max_active_directions (the cap).  The second is not among  *)
(* the defaults, so loading drops it.                                      *)
(*                                                                         *)
(* Time is counted in units of 24 h; a tick of the learner takes none.     *)
(***************************************************************************)
EXTENDS Integers, Sequences, FiniteSets

CONSTANTS
  DefaultCap, MinCap,
  Ceiling,       \* the highest evolve threshold, in steps of auto-tune
  Rate,          \* entries per cycle that a window may show
  NoRate,        \* the window shows nothing
  MaxTime,       \* bound: units of 24 h
  MaxRestarts,   \* bound: restarts of the learner
  MaxTools       \* bound: commands of reviewers

ASSUME CapAssumption ==
  DefaultCap \in Nat /\ MinCap \in Nat /\ 0 < MinCap /\ MinCap <= DefaultCap
ASSUME RateAssumption == Rate \subseteq Nat /\ NoRate \in Int \ Nat
ASSUME ExperimentBounds ==
  Ceiling \in Nat \ {0} /\ {MaxTime, MaxRestarts, MaxTools} \subseteq Nat

VARIABLES
  file,      \* calibration.json
  mem,       \* the learner's singleton
  pc,        \* where the learner's thread is
  draft,     \* the record the learner is about to append, or the auto-tune's data
  tool,      \* the reviewer's command
  log,       \* interventions.jsonl
  now,
  restarts, tools

data == <<file, mem>>
bounds == <<restarts, tools>>
vars == <<data, pc, draft, tool, log, now, bounds>>

Level == 0 .. Ceiling
Absent == 0
Cap == MinCap .. DefaultCap
Params == [evolve : Level, cap : Cap \cup {Absent}]
Unloaded == [evolve |-> 0, cap |-> Absent, loaded |-> FALSE]
CooldownUnits == 2
TtlUnits == 1

Record == [type : {"open", "keep", "revert"}, id : Nat, old : Cap, new : Cap,
           base : Rate \cup {NoRate}, at : Nat]
NoDraft == [type |-> "none"]

TypeOK ==
  /\ file \in Params
  /\ mem \in [evolve : Level, cap : Cap \cup {Absent}, loaded : BOOLEAN]
  /\ pc \in {"idle", "set", "tuning"}
  /\ pc = "set" => draft \in Record
  /\ pc = "tuning" => draft \in 0 .. Ceiling - 1
  /\ tool \in [pc : {"idle", "loaded"}, evolve : Level]
  /\ log \in Seq(Record)
  /\ now \in 0 .. MaxTime
  /\ restarts \in 0 .. MaxRestarts /\ tools \in 0 .. MaxTools

Init ==
  /\ file = [evolve |-> 1, cap |-> Absent]
  /\ mem = Unloaded
  /\ pc = "idle" /\ draft = NoDraft
  /\ tool = [pc |-> "idle", evolve |-> 0]
  /\ log = <<>> /\ now = 0
  /\ restarts = 0 /\ tools = 0

-----------------------------------------------------------------------------
(***************************************************************************)
(* Calibration                                                             *)
(***************************************************************************)

\* _load: what is not among the defaults is ignored.
Loaded == [evolve |-> file.evolve, cap |-> Absent]

\* The first get_calibration() of the learner.
LoadSingleton ==
  /\ ~mem.loaded
  /\ mem' = [evolve |-> Loaded.evolve, cap |-> Loaded.cap, loaded |-> TRUE]
  /\ UNCHANGED <<file, pc, draft, tool, log, now, bounds>>

\* current_cap: "or DEFAULT_CAP"
CurrentCap(m) == IF m.cap = Absent THEN DefaultCap ELSE m.cap

\* apply_tuning of the singleton by _set_cap: all it holds goes to the file.
SetCap(value) ==
  /\ mem' = [mem EXCEPT !.cap = value]
  /\ file' = [evolve |-> mem.evolve, cap |-> value]

-----------------------------------------------------------------------------
(***************************************************************************)
(* The experiments                                                         *)
(***************************************************************************)

Opened == {i \in DOMAIN log : log[i].type = "open"}
Closed == DOMAIN log \ Opened
ClosedIds == {log[i].id : i \in Closed}

\* Mutant: a reverted experiment still counts as open.
OpenUnlessKept ==
  {i \in Opened : \A j \in Closed :
     log[j].id = log[i].id => log[j].type = "revert"}

\* active(): the opened experiments nobody closed, of which the last counts.
Open == {i \in Opened : log[i].id \notin ClosedIds}

Active == log[CHOOSE i \in Open : \A j \in Open : j <= i]

\* Mutant: the cooldown is as short as an experiment.
CooldownOneUnit == \A i \in Closed : now - log[i].at >= TtlUnits

\* _cooldown_ok: the same knob, 48 h.
CooldownOk == \A i \in Closed : now - log[i].at >= CooldownUnits

\* The next cap, if it is lower.
Stepped == IF CurrentCap(mem) - 1 < MinCap THEN MinCap ELSE CurrentCap(mem) - 1

\* close_experiment: at least 10% more entries per cycle.
Improved(base, after) ==
  after # NoRate /\ base \notin {NoRate, 0} /\ 10 * after >= 11 * base

LearnerIdle == pc = "idle" /\ mem.loaded

\* tick(), an experiment that is due and improved: keep.
TickKeep(after) ==
  /\ LearnerIdle
  /\ Open # {} /\ now >= Active.at + TtlUnits
  /\ Improved(Active.base, after)
  /\ log' = Append(log, [Active EXCEPT !.type = "keep", !.at = now])
  /\ UNCHANGED <<data, pc, draft, tool, now, bounds>>

\* Mutant: the cap is left where the experiment put it.
TickRevertForgets(after) ==
  /\ LearnerIdle
  /\ Open # {} /\ now >= Active.at + TtlUnits
  /\ ~Improved(Active.base, after)
  /\ pc' = "set"
  /\ draft' = [Active EXCEPT !.type = "revert", !.at = now]
  /\ UNCHANGED <<data, tool, log, now, bounds>>

\* ... and did not improve: back to the old cap, then the record.
TickRevert(after) ==
  /\ LearnerIdle
  /\ Open # {} /\ now >= Active.at + TtlUnits
  /\ ~Improved(Active.base, after)
  /\ SetCap(Active.old)
  /\ pc' = "set"
  /\ draft' = [Active EXCEPT !.type = "revert", !.at = now]
  /\ UNCHANGED <<tool, log, now, bounds>>

\* tick(), a success rate that fires: open_experiment.
TickOpen(base) ==
  /\ LearnerIdle
  /\ Open = {} /\ CooldownOk
  /\ Stepped < CurrentCap(mem)
  /\ SetCap(Stepped)
  /\ pc' = "set"
  /\ draft' = [type |-> "open", id |-> Len(log) + 1, old |-> CurrentCap(mem),
               new |-> Stepped, base |-> base, at |-> now]
  /\ UNCHANGED <<tool, log, now, bounds>>

\* Mutant: a revert is carried out but not recorded.
AppendOpenOnly ==
  /\ pc = "set"
  /\ log' = IF draft.type = "open" THEN Append(log, draft) ELSE log
  /\ pc' = "idle" /\ draft' = NoDraft
  /\ UNCHANGED <<data, tool, now, bounds>>

AppendRecord ==
  /\ pc = "set"
  /\ log' = Append(log, draft)
  /\ pc' = "idle" /\ draft' = NoDraft
  /\ UNCHANGED <<data, tool, now, bounds>>

-----------------------------------------------------------------------------
(***************************************************************************)
(* The other writers                                                       *)
(***************************************************************************)

\* Auto-tune: Calibration(), compute_tuning, and then the gate.
TuneLoad ==
  /\ LearnerIdle
  /\ file.evolve < Ceiling
  /\ pc' = "tuning" /\ draft' = Loaded.evolve
  /\ UNCHANGED <<data, tool, log, now, bounds>>

\* apply_tuning of the instance, whose cap is absent.
TuneApply ==
  /\ pc = "tuning"
  /\ file' = [evolve |-> draft + 1, cap |-> Absent]
  /\ pc' = "idle" /\ draft' = NoDraft
  /\ UNCHANGED <<mem, tool, log, now, bounds>>

\* What passes is a weight of the judge: the threshold is written as loaded.
TuneApplyOther ==
  /\ pc = "tuning"
  /\ file' = [evolve |-> draft, cap |-> Absent]
  /\ pc' = "idle" /\ draft' = NoDraft
  /\ UNCHANGED <<mem, tool, log, now, bounds>>

\* The gate lets nothing pass.
TuneBlocked ==
  /\ pc = "tuning"
  /\ pc' = "idle" /\ draft' = NoDraft
  /\ UNCHANGED <<data, tool, log, now, bounds>>

\* MetaReviewer._apply_suggestions: the lowest threshold, in memory only.
MetaReview ==
  /\ LearnerIdle
  /\ mem' = [mem EXCEPT !.evolve = 0]
  /\ UNCHANGED <<file, pc, draft, tool, log, now, bounds>>

\* dgmh_review.py approve --apply, and revert.
ToolLoad ==
  /\ tool.pc = "idle" /\ tools < MaxTools
  /\ tool' = [pc |-> "loaded", evolve |-> Loaded.evolve]
  /\ tools' = tools + 1
  /\ UNCHANGED <<data, pc, draft, log, now, restarts>>

ToolApply(evolve) ==
  /\ tool.pc = "loaded"
  /\ file' = [evolve |-> evolve, cap |-> Absent]
  /\ tool' = [pc |-> "idle", evolve |-> 0]
  /\ UNCHANGED <<mem, pc, draft, log, now, bounds>>

\* ... of a weight of the judge.
ToolApplyOther ==
  /\ tool.pc = "loaded"
  /\ file' = [evolve |-> tool.evolve, cap |-> Absent]
  /\ tool' = [pc |-> "idle", evolve |-> 0]
  /\ UNCHANGED <<mem, pc, draft, log, now, bounds>>

\* The learner is stopped or dies, at any point, and starts again.
Restart ==
  /\ restarts < MaxRestarts
  /\ restarts' = restarts + 1
  /\ mem' = Unloaded
  /\ pc' = "idle" /\ draft' = NoDraft
  /\ UNCHANGED <<file, tool, log, now, tools>>

DayPasses ==
  /\ pc = "idle" /\ now < MaxTime
  /\ now' = now + 1
  /\ UNCHANGED <<data, pc, draft, tool, log, bounds>>

TickCloses == \E after \in Rate \cup {NoRate} : TickKeep(after) \/ TickRevert(after)

Next ==
  \/ LoadSingleton \/ TickCloses \/ AppendRecord
  \/ \E base \in Rate \cup {NoRate} : TickOpen(base)
  \/ TuneLoad \/ TuneApply \/ TuneApplyOther \/ TuneBlocked \/ MetaReview
  \/ ToolLoad \/ (\E evolve \in Level : ToolApply(evolve)) \/ ToolApplyOther
  \/ Restart \/ DayPasses

Spec == Init /\ [][Next]_vars

\* The main loop goes on ticking, and days pass.
FairSpec ==
  /\ Spec
  /\ WF_vars(LoadSingleton) /\ SF_vars(TickCloses) /\ WF_vars(AppendRecord)
  /\ WF_vars(TuneApply \/ TuneBlocked) /\ SF_vars(DayPasses)

-----------------------------------------------------------------------------
(***************************************************************************)
(* Properties                                                              *)
(***************************************************************************)

\* "One experiment at a time" (interventions.py:4), whenever the learner dies,
\* and each is closed once.
OneExperiment ==
  /\ Cardinality(Open) <= 1
  /\ \A i, j \in Closed : log[i].id = log[j].id => i = j

\* "48 h cooldown of the knob" and "24 h later" (interventions.py:1-4).
CooldownKept ==
  \A i, j \in DOMAIN log : i < j =>
    /\ log[i].type # "open" /\ log[j].type = "open"
         => log[j].at - log[i].at >= 2
    /\ log[i].type = "open" /\ log[j].type # "open" /\ log[i].id = log[j].id
         => log[j].at - log[i].at >= 1

\* What the log says the cap is.
LoggedCap ==
  IF log = <<>> THEN DefaultCap
  ELSE LET last == log[Len(log)]
       IN  IF last.type = "revert" THEN last.old ELSE last.new

\* "keep or revert" (interventions.py:1): until the learner restarts, the cap in
\* force between two ticks is the one the log tells, whatever auto-tune, the
\* meta-review and reviewers write.
CapFollowsLog ==
  LearnerIdle /\ restarts = 0 => CurrentCap(mem) = LoggedCap

\* "24 h later judge by the data" (interventions.py:1): an experiment that is
\* due before the end is closed.
ExperimentsEnd == (Open # {} /\ Active.at < MaxTime) ~> (Open = {})
=============================================================================
