------------------------------ MODULE DgmhGate ------------------------------
(***************************************************************************)
(* The gate that self-tuning changes pass before they are applied          *)
(* (core/dgmh.py), the learner that runs it (learn/loop.py), and the two   *)
(* review tools with which a person approves or rejects a change           *)
(* (dgmh_review.py and scripts/dgmh_review.py).  They share three files:   *)
(* the append-only log of decisions, the cooldowns and the queue of        *)
(* changes that wait for a person; none of them is locked.                 *)
(*                                                                         *)
(* A change is a target and a new value: an Item.  Grades below A do not   *)
(* open the gate for an update, nor does any while Level 2 is inactive.    *)
(* The 24 h of a token and of a cooldown are events that may come at any   *)
(* time.                                                                   *)
(***************************************************************************)
EXTENDS Naturals, Sequences, FiniteSets

CONSTANTS
  Item, Target,
  TargetOf,        \* TargetOf[c] is the calibration parameter c changes
  MaxDecisions,    \* bound: approvals and rejections
  MaxRuns,         \* bound: runs of gate_changes
  NoItem

ASSUME TargetAssumption == TargetOf \in [Item -> Target]
ASSUME GateBounds == {MaxDecisions, MaxRuns} \subseteq Nat
ASSUME NoItemAssumption == NoItem \notin Item

VARIABLES
  log,        \* dgmh_decisions.jsonl
  expired,    \* ids of approvals older than their ttl
  cooling,    \* dgmh_cooldown.json: targets within their cooldown
  queued,     \* dgmh_ungraded.jsonl: the items in it
  latest,     \* and, for each target, the last of them
  judgestored,\* dgmh_activation.json: Level 2 is active
  gate,       \* the learner inside gate_changes and the apply after it
  cli,        \* the reviewer's command
  uses,       \* history: uses[id], changes applied on approval id
  direct,     \* history: items applied by "approve --apply"
  runs, crashed

queue == <<queued, latest>>
files == <<log, cooling, queue, judgestored>>
history == <<uses, direct, runs, crashed>>
vars == <<files, gate, cli, expired, history>>

Ids == 1 .. MaxDecisions
Record == [type : {"approve", "reject", "consume"}, id : Ids, item : Item,
           grade : {"A", "B"}]

GateIdle == [pc |-> "idle", todo |-> {}, passed |-> {}, item |-> NoItem,
             id |-> 0, snap |-> {}]
CliIdle == [pc |-> "idle", item |-> NoItem, id |-> 0, snap |-> {}]

TypeOK ==
  /\ log \in Seq(Record)
  /\ expired \subseteq Ids
  /\ cooling \subseteq Target
  /\ queued \subseteq Item /\ direct \subseteq Item
  /\ latest \in [Target -> Item \cup {NoItem}]
  /\ {judgestored, crashed} \subseteq BOOLEAN
  /\ gate \in [pc : {"idle", "loop", "mark", "marked", "consume", "apply"},
               todo : SUBSET Item, passed : SUBSET (Item \X Ids),
               item : Item \cup {NoItem}, id : 0 .. MaxDecisions,
               snap : SUBSET Target]
  /\ cli \in [pc : {"idle", "apply", "consume", "clear", "cleared"},
              item : Item \cup {NoItem}, id : 0 .. MaxDecisions,
              snap : SUBSET Target]
  /\ uses \in [Ids -> Nat]
  /\ runs \in 0 .. MaxRuns

Init ==
  /\ log = <<>>
  /\ expired = {} /\ cooling = {} /\ queued = {}
  /\ direct = {}
  /\ latest = [t \in Target |-> NoItem]
  /\ judgestored \in BOOLEAN
  /\ gate = GateIdle /\ cli = CliIdle
  /\ uses = [id \in Ids |-> 0]
  /\ runs = 0 /\ crashed = FALSE

-----------------------------------------------------------------------------
(***************************************************************************)
(* The decision log                                                        *)
(***************************************************************************)

Approvals(item) ==
  {i \in DOMAIN log : log[i].type = "approve" /\ log[i].item = item}

Spent == {log[i].id : i \in {j \in DOMAIN log : log[j].type # "approve"}}

Earliest(positions) ==
  CHOOSE i \in positions : \A j \in positions : i <= j

\* Mutant: the second record of the id is not looked for.
UsableAgain(item) == {i \in Approvals(item) : log[i].id \notin expired}

\* find_decision: the usable approvals of an item, the first of which counts.
Usable(item) ==
  {i \in Approvals(item) : log[i].id \notin Spent \cup expired}

Found(item) == log[Earliest(Usable(item))]

\* consume_decision: the first approval of the item, usable or not.
ToConsume(item) == log[Earliest(Approvals(item))].id

Decisions == Cardinality({i \in DOMAIN log : log[i].type # "consume"})

Queue(c) ==
  /\ queued' = queued \cup {c}
  /\ latest' = [latest EXCEPT ![TargetOf[c]] = c]

Append1(type, id, item, grade) ==
  log' = Append(log, [type |-> type, id |-> id, item |-> item, grade |-> grade])

-----------------------------------------------------------------------------
(***************************************************************************)
(* gate_changes, run by the cognition tick over computed changes           *)
(***************************************************************************)

GateStart(changes) ==
  /\ gate.pc = "idle" /\ runs < MaxRuns
  /\ runs' = runs + 1
  /\ gate' = [GateIdle EXCEPT !.pc = "loop", !.todo = changes]
  /\ UNCHANGED <<files, expired, cli, uses, direct, crashed>>

\* The target failed less than 24 h ago: not tried, not reported again.
GateCooled(c) ==
  /\ gate.pc = "loop" /\ c \in gate.todo
  /\ TargetOf[c] \in cooling
  /\ gate' = [gate EXCEPT !.todo = @ \ {c}]
  /\ UNCHANGED <<files, expired, cli, history>>

\* No judge: queue_ungraded, then mark_blocked.
GateUngraded(c) ==
  /\ gate.pc = "loop" /\ c \in gate.todo
  /\ TargetOf[c] \notin cooling
  /\ Usable(c) = {}
  /\ Queue(c)
  /\ gate' = [gate EXCEPT !.pc = "mark", !.item = c]
  /\ UNCHANGED <<log, expired, cooling, judgestored, cli, history>>

\* Mutant: the minimum grade of an update is forgotten.
GateOpensAnyGrade(c) == judgestored

\* check_gate("update", grade, activation): grade A and Level 2.  No caller of
\* gate_changes passes belief_health, so check_gate does not look at it.
GateOpens(c) == Found(c).grade = "A" /\ judgestored

GateBlocked(c) ==
  /\ gate.pc = "loop" /\ c \in gate.todo
  /\ TargetOf[c] \notin cooling
  /\ Usable(c) # {} /\ ~GateOpens(c)
  /\ gate' = [gate EXCEPT !.pc = "mark", !.item = c]
  /\ UNCHANGED <<files, expired, cli, history>>

\* mark_blocked: the whole file is read, then written.
MarkLoad ==
  /\ gate.pc = "mark"
  /\ gate' = [gate EXCEPT !.pc = "marked", !.snap = cooling]
  /\ UNCHANGED <<files, expired, cli, history>>

MarkSave ==
  /\ gate.pc = "marked"
  /\ cooling' = gate.snap \cup {TargetOf[gate.item]}
  /\ gate' = [gate EXCEPT !.pc = "loop", !.todo = @ \ {gate.item},
                          !.item = NoItem, !.snap = {}]
  /\ UNCHANGED <<log, expired, queue, judgestored, cli, uses, direct, runs, crashed>>

GatePassed(c) ==
  /\ gate.pc = "loop" /\ c \in gate.todo
  /\ TargetOf[c] \notin cooling
  /\ Usable(c) # {} /\ GateOpens(c)
  /\ gate' = [gate EXCEPT !.pc = "consume", !.item = c, !.id = Found(c).id]
  /\ UNCHANGED <<files, expired, cli, history>>

\* Mutant: the change is consumed but not among those returned as passed.
GateConsumeDrop ==
  /\ gate.pc = "consume"
  /\ Append1("consume", ToConsume(gate.item), gate.item, "A")
  /\ gate' = [gate EXCEPT !.pc = "loop", !.todo = @ \ {gate.item},
                          !.item = NoItem, !.id = 0]
  /\ UNCHANGED <<cooling, queue, judgestored, expired, cli, history>>

\* consume_decision, and the change joins the passed ones.
GateConsume ==
  /\ gate.pc = "consume"
  /\ Append1("consume", ToConsume(gate.item), gate.item, "A")
  /\ gate' = [gate EXCEPT !.pc = "loop", !.todo = @ \ {gate.item},
                          !.passed = @ \cup {<<gate.item, gate.id>>},
                          !.item = NoItem, !.id = 0]
  /\ UNCHANGED <<expired, cooling, queue, judgestored, cli, history>>

\* The caller: apply_tuning over what passed.
GateApply ==
  /\ gate.pc = "loop" /\ gate.todo = {}
  /\ uses' = [id \in Ids |-> uses[id] +
                Cardinality({p \in gate.passed : p[2] = id})]
  /\ gate' = GateIdle
  /\ UNCHANGED <<files, expired, cli, direct, runs, crashed>>

\* The learner process dies; what the gate had in memory is gone.
Crash ==
  /\ ~crashed /\ gate.pc # "idle"
  /\ crashed' = TRUE
  /\ gate' = GateIdle
  /\ UNCHANGED <<files, expired, cli, uses, direct, runs>>

-----------------------------------------------------------------------------
(***************************************************************************)
(* The review tools                                                        *)
(***************************************************************************)

\* dgmh_review.py takes a target and finds the last item queued for it, voided
\* or not; scripts/dgmh_review.py ("clear") takes the number of any item.
Picked(c, next) ==
  c \in queued /\ (next = "clear" \/ latest[TargetOf[c]] = c)

\* approve of either tool: record_decision.  dgmh_review.py takes any grade
\* and may apply at once; scripts/dgmh_review.py wants A and clears the
\* target's cooldown.
CliApprove(c, grade, next) ==
  /\ cli.pc = "idle" /\ Decisions < MaxDecisions
  /\ Picked(c, next)
  /\ next = "clear" => grade = "A"
  /\ Append1("approve", Decisions + 1, c, grade)
  /\ cli' = IF next = "idle" THEN CliIdle
            ELSE [cli EXCEPT !.pc = next, !.item = c, !.id = Decisions + 1]
  /\ UNCHANGED <<expired, cooling, queue, judgestored, gate, history>>

\* reject of either tool: a record with an id of its own; the second tool
\* appends a void mark to the queue, which only its listing heeds, and clears
\* the cooldown.
CliReject(c, next) ==
  /\ cli.pc = "idle" /\ Decisions < MaxDecisions
  /\ Picked(c, next)
  /\ Append1("reject", Decisions + 1, c, "B")
  /\ IF next = "clear" THEN Queue(c) ELSE UNCHANGED queue
  /\ cli' = IF next = "clear" THEN [cli EXCEPT !.pc = "clear", !.item = c]
            ELSE CliIdle
  /\ UNCHANGED <<expired, cooling, judgestored, gate, history>>

\* Mutant: apply_tuning's count of 0 is not looked at.
CliApplyNothing ==
  /\ cli.pc = "apply"
  /\ cli' = [cli EXCEPT !.pc = "consume"]
  /\ UNCHANGED <<files, expired, gate, history>>

\* apply_now: apply_tuning, then consume_decision.
CliApply ==
  /\ cli.pc = "apply"
  /\ uses' = [uses EXCEPT ![cli.id] = @ + 1]
  /\ direct' = direct \cup {cli.item}
  /\ cli' = [cli EXCEPT !.pc = "consume"]
  /\ UNCHANGED <<files, expired, gate, runs, crashed>>

CliConsume ==
  /\ cli.pc = "consume"
  /\ Append1("consume", ToConsume(cli.item), cli.item, "A")
  /\ cli' = CliIdle
  /\ UNCHANGED <<expired, cooling, queue, judgestored, gate, history>>

\* _clear_cooldown: read, then written if the target is in it.
ClearLoad ==
  /\ cli.pc = "clear"
  /\ cli' = [cli EXCEPT !.pc = "cleared", !.snap = cooling]
  /\ UNCHANGED <<files, expired, gate, history>>

ClearSave ==
  /\ cli.pc = "cleared"
  /\ LET t == TargetOf[cli.item]
     IN  cooling' = IF t \in cli.snap THEN cli.snap \ {t} ELSE cooling
  /\ cli' = CliIdle
  /\ UNCHANGED <<log, expired, queue, judgestored, gate, uses, direct, runs, crashed>>

\* dgmh_review.py activate
CliActivate ==
  /\ cli.pc = "idle"
  /\ judgestored' = ~judgestored
  /\ UNCHANGED <<log, expired, cooling, queue, gate, cli, history>>

-----------------------------------------------------------------------------
TokenExpires(id) ==
  /\ \E i \in DOMAIN log : log[i].type = "approve" /\ log[i].id = id
  /\ expired' = expired \cup {id}
  /\ UNCHANGED <<files, gate, cli, history>>

CooldownEnds(t) ==
  /\ t \in cooling
  /\ cooling' = cooling \ {t}
  /\ UNCHANGED <<log, expired, queue, judgestored, gate, cli, history>>

GateNext ==
  \/ \E changes \in SUBSET Item : changes # {} /\ GateStart(changes)
  \/ \E c \in Item :
       GateCooled(c) \/ GateUngraded(c) \/ GateBlocked(c) \/ GatePassed(c)
  \/ MarkLoad \/ MarkSave \/ GateConsume \/ GateApply \/ Crash

CliNext ==
  \/ \E c \in Item :
       \/ \E grade \in {"A", "B"}, next \in {"idle", "apply", "clear"} :
            CliApprove(c, grade, next)
       \/ \E next \in {"idle", "clear"} : CliReject(c, next)
  \/ CliApply \/ CliConsume \/ ClearLoad \/ ClearSave \/ CliActivate

Next ==
  \/ GateNext \/ CliNext
  \/ \E id \in Ids : TokenExpires(id)
  \/ \E t \in Target : CooldownEnds(t)

Spec == Init /\ [][Next]_vars

-----------------------------------------------------------------------------
(***************************************************************************)
(* Properties                                                              *)
(***************************************************************************)

\* Items with one approval, none of them applied on the spot.
PlainTokens ==
  {log[i].id : i \in {j \in DOMAIN log :
     /\ log[j].type = "approve" /\ log[j].item \notin direct
     /\ Cardinality(Approvals(log[j].item)) = 1}}

\* An approval is a "one-time token" (dgmh.py:109), which lets one change
\* through, once: it is one while its item has no other approval and no
\* reviewer applies the item on the spot (either makes the gate and
\* consume_decision disagree on what is spent), whenever the learner dies.
PlainTokenOnce == \A id \in PlainTokens : uses[id] <= 1

\* "gate_changes needs judge_grade >= A to let an update pass" and a person is
\* the judge (dgmh_review.py:5-6): the gate applies nothing on a lesser
\* approval, whatever else has been approved for the same parameter.
AppliedWereApproved ==
  \A i \in DOMAIN log :
    log[i].type = "approve" /\ uses[log[i].id] > 0
      => log[i].grade = "A" \/ log[i].item \in direct

\* A token marked as consumed ("why": "applied", dgmh.py:166) did let a change
\* through, once gate and reviewer have finished with it, unless the learner
\* died or an approval that had expired stood before the one in use.
ConsumedWasApplied ==
  gate.pc = "idle" /\ cli.pc = "idle" /\ ~crashed =>
    \A i \in DOMAIN log :
      log[i].type = "consume" /\ Cardinality(Approvals(log[i].item)) = 1
        => uses[log[i].id] >= 1
=============================================================================
