--------------------------- MODULE DgmhGate_proofs ---------------------------
(***************************************************************************)
(* What an approval is good for, for any number of items, decisions and    *)
(* runs of the gate, and whenever the learner dies: the gate applies       *)
(* nothing on a lesser grade than A, and one plain approval lets one       *)
(* change through once.                                                    *)
(*                                                                         *)
(* Both need that a decision's id names one record.  The second needs that *)
(* what has passed on a plain approval is marked as spent in the log       *)
(* before the gate can look for it again, which consume_decision does only *)
(* because the approval is the item's first and last.                      *)
(***************************************************************************)
EXTENDS DgmhGate, Ranks_proofs, FiniteSetTheorems, TLAPS

Decided == {i \in DOMAIN log : log[i].type # "consume"}

\* A decision's id is its number.
IdsOnce ==
  /\ \A i \in Decided : log[i].id <= Decisions
  /\ \A i, j \in Decided : log[i].id = log[j].id => i = j

\* An approval of the item that the gate accepts under this id.
Granted(item, id) ==
  \E i \in Approvals(item) : log[i].id = id /\ log[i].grade = "A"

\* What passes, and what a reviewer applies, was approved so.
PassedGranted ==
  /\ \A p \in gate.passed : Granted(p[1], p[2])
  /\ gate.pc = "consume" => Granted(gate.item, gate.id)

ReviewerApproved ==
  /\ cli.pc \in {"apply", "consume"} =>
       \E i \in Approvals(cli.item) : log[i].id = cli.id
  /\ cli.pc = "consume" => cli.item \in direct

ItemsKnown ==
  /\ gate.pc \in {"mark", "marked"} => gate.item \in Item
  /\ cli.pc \in {"clear", "cleared"} => cli.item \in Item

UsedKnown == \A id \in Ids : uses[id] > 0 => id <= Decisions

GradeInv ==
  /\ TypeOK /\ ItemsKnown
  /\ IdsOnce /\ PassedGranted /\ ReviewerApproved /\ UsedKnown /\ AppliedWereApproved

\* The approval at i is its item's only one, and nobody applied it on the spot.
Plain(i) ==
  /\ i \in DOMAIN log /\ log[i].type = "approve"
  /\ log[i].item \notin direct
  /\ Approvals(log[i].item) = {i}

HasPassed(id) == \E p \in gate.passed : p[2] = id

PlainOnce(i) ==
  LET id == log[i].id
  IN  /\ uses[id] <= 1
      /\ uses[id] = 1 \/ HasPassed(id) => id \in Spent
      /\ HasPassed(id) => uses[id] = 0
      /\ gate.pc = "consume" /\ gate.id = id => uses[id] = 0 /\ ~HasPassed(id)

OnceInv == \A i \in DOMAIN log : Plain(i) => PlainOnce(i)

\* What was consumed had been approved.
ConsumedKnown ==
  \A i \in DOMAIN log : log[i].type = "consume" => Approvals(log[i].item) # {}

\* What was consumed on an item's only approval was applied, or is about to be.
ConsumedThrough ==
  \A i, k \in DOMAIN log :
    log[i].type = "consume" /\ Approvals(log[i].item) = {k}
      => uses[log[i].id] >= 1 \/ HasPassed(log[i].id)

AppliedInv ==
  /\ gate.pc = "idle" => gate.passed = {}
  /\ cli.pc = "consume" => uses[cli.id] >= 1
  /\ ConsumedKnown
  /\ ~crashed => ConsumedThrough

-----------------------------------------------------------------------------
(* The earliest of some positions of the log is one of them. *)
LEMMA EarliestIn ==
  ASSUME NEW S, S \subseteq Nat, S # {}
  PROVE  Earliest(S) \in S
  BY HasLeast DEF Earliest

(* The positions of the log are numbers, finitely many. *)
LEMMA LogPositions ==
  ASSUME TypeOK
  PROVE  /\ log \in Seq(Record) /\ Len(log) \in Nat /\ DOMAIN log = 1 .. Len(log)
         /\ \A i \in DOMAIN log : log[i] \in Record
         /\ IsFiniteSet(Decided) /\ Decisions \in Nat /\ Decisions = Cardinality(Decided)
<1>1. log \in Seq(Record) /\ Len(log) \in Nat /\ DOMAIN log = 1 .. Len(log)
  BY DEF TypeOK
<1>2. \A i \in DOMAIN log : log[i] \in Record
  BY <1>1
<1>3. IsFiniteSet(DOMAIN log)
  BY <1>1, FS_Interval
<1>4. IsFiniteSet(Decided)
  BY <1>3, FS_Subset DEF Decided
<1>5. QED
  BY <1>1, <1>2, <1>4, FS_CardinalityType DEF Decisions, Decided

(* What one more record does to the log. *)
LEMMA OneMore ==
  ASSUME TypeOK, NEW r \in Record, log' = Append(log, r)
  PROVE  /\ log' \in Seq(Record)
         /\ DOMAIN log' = DOMAIN log \cup {Len(log) + 1} /\ Len(log) + 1 \notin DOMAIN log
         /\ log'[Len(log) + 1] = r /\ \A i \in DOMAIN log : log'[i] = log[i]
         /\ r.type = "consume" => Decided' = Decided /\ Decisions' = Decisions
         /\ r.type # "consume" => /\ Decided' = Decided \cup {Len(log) + 1}
                                  /\ Decisions' = Decisions + 1
<1>1. /\ log \in Seq(Record) /\ Len(log) \in Nat /\ DOMAIN log = 1 .. Len(log)
      /\ IsFiniteSet(Decided) /\ Decisions \in Nat /\ Decisions = Cardinality(Decided)
  BY LogPositions
<1>2. /\ log' \in Seq(Record)
      /\ DOMAIN log' = DOMAIN log \cup {Len(log) + 1} /\ Len(log) + 1 \notin DOMAIN log
      /\ log'[Len(log) + 1] = r /\ \A i \in DOMAIN log : log'[i] = log[i]
  BY <1>1
<1>3. Decisions' = Cardinality(Decided')
  BY DEF Decisions, Decided
<1>4. CASE r.type = "consume"
  <2>1. Decided' = Decided
    BY <1>2, <1>4 DEF Decided
  <2>2. QED
    BY <1>1, <1>2, <1>3, <1>4, <2>1
<1>5. CASE r.type # "consume"
  <2>1. Decided' = Decided \cup {Len(log) + 1} /\ Len(log) + 1 \notin Decided
    BY <1>2, <1>5 DEF Decided
  <2>2. Cardinality(Decided') = Cardinality(Decided) + 1
    BY <1>1, <2>1, FS_AddElement
  <2>3. QED
    BY <1>1, <1>2, <1>3, <1>5, <2>1, <2>2
<1>6. QED
  BY <1>4, <1>5

(* Initially there is no decision. *)
LEMMA InitHolds == Init => GradeInv /\ OnceInv
<1> SUFFICES ASSUME Init PROVE GradeInv /\ OnceInv
  OBVIOUS
<1>1. TypeOK
  <2>1. gate = GateIdle /\ cli = CliIdle /\ log = <<>> /\ runs = 0 /\ MaxRuns \in Nat
        /\ MaxDecisions \in Nat
    BY GateBounds DEF Init
  <2>2. /\ GateIdle \in [pc : {"idle", "loop", "mark", "marked", "consume", "apply"},
               todo : SUBSET Item, passed : SUBSET (Item \X Ids),
               item : Item \cup {NoItem}, id : 0 .. MaxDecisions,
               snap : SUBSET Target]
        /\ CliIdle \in [pc : {"idle", "apply", "consume", "clear", "cleared"},
              item : Item \cup {NoItem}, id : 0 .. MaxDecisions,
              snap : SUBSET Target]
    BY <2>1 DEF GateIdle, CliIdle
  <2>3. log \in Seq(Record) /\ runs \in 0 .. MaxRuns
    BY <2>1
  <2>4. QED
    BY <2>1, <2>2, <2>3 DEF Init, TypeOK
<1>2. ItemsKnown /\ IdsOnce /\ PassedGranted /\ ReviewerApproved /\ UsedKnown /\ AppliedWereApproved /\ OnceInv
  BY DEF Init, ItemsKnown, IdsOnce, Decided, PassedGranted, ReviewerApproved, UsedKnown,
         AppliedWereApproved, OnceInv, GateIdle, CliIdle
<1>3. QED
  BY <1>1, <1>2 DEF GradeInv

(* What the gate finds is an approval of the item, neither spent nor expired. *)
LEMMA FoundUsable ==
  ASSUME TypeOK, NEW c \in Item, Usable(c) # {}
  PROVE  \E i \in Approvals(c) : log[i] = Found(c) /\ log[i].id \notin Spent /\ log[i].id \in Ids
<1>1. Usable(c) \subseteq Nat
  BY LogPositions DEF Usable, Approvals
<1>2. Earliest(Usable(c)) \in Usable(c)
  BY <1>1, EarliestIn
<1>3. \A i \in DOMAIN log : log[i].id \in Ids
  BY LogPositions DEF Record
<1>4. QED
  BY <1>2, <1>3 DEF Usable, Found, Approvals

(* The one approval of an item is what consume_decision marks. *)
LEMMA ConsumesPlain ==
  ASSUME TypeOK, NEW i \in DOMAIN log, Plain(i)
  PROVE  ToConsume(log[i].item) = log[i].id
<1>1. Approvals(log[i].item) = {i} /\ i \in Nat
  BY LogPositions DEF Plain
<1>2. Earliest({i}) \in {i}
  BY <1>1, EarliestIn
<1>3. QED
  BY <1>1, <1>2 DEF ToConsume

(* No two decided records share an id; so a plain approval's is not another's. *)
LEMMA IdOf ==
  ASSUME IdsOnce, NEW i \in DOMAIN log, NEW j \in DOMAIN log,
         log[i].type = "approve", log[j].type = "approve", log[i].id = log[j].id
  PROVE  i = j
  BY DEF IdsOnce, Decided

-----------------------------------------------------------------------------
(* Steps that leave the log, the changes that passed and the uses alone. *)
LEMMA NothingDecided ==
  ASSUME GradeInv, OnceInv, TypeOK', ItemsKnown', UNCHANGED <<log, uses, direct>>,
         gate'.passed \subseteq gate.passed,
         gate'.pc = "consume" => gate.pc = "consume" /\ gate'.item = gate.item /\ gate'.id = gate.id,
         cli'.pc \in {"apply", "consume"} => cli' = cli
  PROVE  GradeInv' /\ OnceInv'
<1>1. Decided' = Decided /\ Decisions' = Decisions /\ Spent' = Spent
  BY DEF Decided, Decisions, Spent
<1>2. \A c : Approvals(c)' = Approvals(c)
  BY DEF Approvals
<1>3. \A c, id : Granted(c, id) => Granted(c, id)'
  BY <1>2 DEF Granted
<1>4. IdsOnce' /\ UsedKnown' /\ AppliedWereApproved'
  BY <1>1 DEF GradeInv, IdsOnce, UsedKnown, AppliedWereApproved
<1>5. PassedGranted'
  BY <1>3 DEF GradeInv, PassedGranted
<1>6. ReviewerApproved'
  BY <1>2 DEF GradeInv, ReviewerApproved
<1>7. OnceInv'
  <2> SUFFICES ASSUME NEW i \in DOMAIN log', Plain(i)' PROVE PlainOnce(i)'
    BY DEF OnceInv
  <2>1. i \in DOMAIN log /\ Plain(i)
    BY <1>2 DEF Plain
  <2>2. PlainOnce(i)
    BY <2>1 DEF OnceInv
  <2>3. HasPassed(log[i].id)' => HasPassed(log[i].id)
    BY DEF HasPassed
  <2>4. QED
    BY <1>1, <2>2, <2>3 DEF PlainOnce
<1>8. QED
  BY <1>4, <1>5, <1>6, <1>7 DEF GradeInv

(* What one more record does to approvals and spent ids. *)
LEMMA AfterAppend ==
  ASSUME TypeOK, NEW r \in Record, log' = Append(log, r)
  PROVE  /\ r.type # "approve" => /\ \A c : Approvals(c)' = Approvals(c)
                                  /\ Spent' = Spent \cup {r.id}
         /\ r.type = "approve" =>
              /\ Approvals(r.item)' = Approvals(r.item) \cup {Len(log) + 1}
              /\ \A c : c # r.item => Approvals(c)' = Approvals(c)
              /\ Spent' = Spent
         /\ \A c : Approvals(c) \subseteq Approvals(c)'
         /\ \A c, id : Granted(c, id) => Granted(c, id)'
<1>1. /\ DOMAIN log' = DOMAIN log \cup {Len(log) + 1} /\ Len(log) + 1 \notin DOMAIN log
      /\ log'[Len(log) + 1] = r /\ \A i \in DOMAIN log : log'[i] = log[i]
  BY OneMore
<1>2. \A c : Approvals(c) \subseteq Approvals(c)' /\ \A i \in Approvals(c) : log'[i] = log[i]
  BY <1>1 DEF Approvals
<1>3. \A c, id : Granted(c, id) => Granted(c, id)'
  BY <1>2 DEF Granted
<1>4. CASE r.type # "approve"
  <2>1. \A c : Approvals(c)' = Approvals(c)
    BY <1>1, <1>4 DEF Approvals
  <2>2. Spent' = Spent \cup {r.id}
    <3>1. {j \in DOMAIN log' : log'[j].type # "approve"} =
            {j \in DOMAIN log : log[j].type # "approve"} \cup {Len(log) + 1}
      BY <1>1, <1>4
    <3>2. QED
      BY <1>1, <3>1 DEF Spent
  <2>3. QED
    BY <1>2, <1>3, <1>4, <2>1, <2>2
<1>5. CASE r.type = "approve"
  <2>1. /\ Approvals(r.item)' = Approvals(r.item) \cup {Len(log) + 1}
        /\ \A c : c # r.item => Approvals(c)' = Approvals(c)
    BY <1>1, <1>5 DEF Approvals
  <2>2. Spent' = Spent
    <3>1. {j \in DOMAIN log' : log'[j].type # "approve"} =
            {j \in DOMAIN log : log[j].type # "approve"}
      BY <1>1, <1>5
    <3>2. QED
      BY <1>1, <3>1 DEF Spent
  <2>3. QED
    BY <1>2, <1>3, <1>5, <2>1, <2>2
<1>6. QED
  BY <1>4, <1>5

(* A decided record has a new number, another one none. *)
LEMMA IdsStayOnce ==
  ASSUME TypeOK, IdsOnce, NEW r \in Record, log' = Append(log, r),
         r.type # "consume" => r.id = Decisions + 1
  PROVE  IdsOnce' /\ Decisions <= Decisions'
<1>1. /\ DOMAIN log' = DOMAIN log \cup {Len(log) + 1} /\ Len(log) + 1 \notin DOMAIN log
      /\ log'[Len(log) + 1] = r /\ \A i \in DOMAIN log : log'[i] = log[i]
      /\ r.type = "consume" => Decided' = Decided /\ Decisions' = Decisions
      /\ r.type # "consume" => /\ Decided' = Decided \cup {Len(log) + 1}
                               /\ Decisions' = Decisions + 1
  BY OneMore
<1>2. Decisions \in Nat /\ Decided \subseteq DOMAIN log /\ \A i \in Decided : log[i].id \in Nat
  <2>1. \A i \in DOMAIN log : log[i].id \in Ids
    BY LogPositions DEF Record
  <2>2. QED
    BY <2>1, LogPositions DEF Decided, Ids
<1>3. CASE r.type = "consume"
  BY <1>1, <1>2, <1>3 DEF IdsOnce
<1>4. CASE r.type # "consume"
  <2>1. \A i \in Decided : log'[i] = log[i] /\ log[i].id < Decisions + 1
    BY <1>1, <1>2 DEF IdsOnce
  <2>2. r.id = Decisions + 1 /\ Decisions' = Decisions + 1
        /\ Decided' = Decided \cup {Len(log) + 1} /\ log'[Len(log) + 1] = r
    BY <1>1, <1>4
  <2>3. \A i \in Decided' : log'[i].id <= Decisions'
    BY <1>2, <2>1, <2>2
  <2>4. \A i, j \in Decided' : log'[i].id = log'[j].id => i = j
    <3> SUFFICES ASSUME NEW i \in Decided', NEW j \in Decided', log'[i].id = log'[j].id
                 PROVE  i = j
      OBVIOUS
    <3>1. CASE i \in Decided /\ j \in Decided
      BY <2>1, <3>1 DEF IdsOnce
    <3>2. CASE i = Len(log) + 1
      BY <1>2, <2>1, <2>2, <3>2
    <3>3. CASE j = Len(log) + 1
      BY <1>2, <2>1, <2>2, <3>3
    <3>4. QED
      BY <2>2, <3>1, <3>2, <3>3
  <2>5. QED
    BY <1>2, <2>2, <2>3, <2>4 DEF IdsOnce
<1>5. QED
  BY <1>3, <1>4

(* A record that uses nothing up, with its consequences in the reviewer's *)
(* command: approvals, rejections and the reviewer's own consumption.     *)
LEMMA RecordKeeps ==
  ASSUME GradeInv, OnceInv, TypeOK', ItemsKnown', NEW r \in Record, log' = Append(log, r),
         r.type # "consume" => r.id = Decisions + 1,
         UNCHANGED <<gate, uses, direct>>,
         cli'.pc \in {"apply", "consume"} =>
           r.type = "approve" /\ cli'.pc = "apply" /\ cli'.item = r.item /\ cli'.id = r.id
  PROVE  GradeInv' /\ OnceInv'
<1>1. /\ DOMAIN log' = DOMAIN log \cup {Len(log) + 1} /\ Len(log) + 1 \notin DOMAIN log
      /\ log'[Len(log) + 1] = r /\ \A i \in DOMAIN log : log'[i] = log[i]
      /\ Decisions \in Nat /\ Decisions' \in Nat
  <2>1. Decisions \in Nat /\ Decisions' \in {Decisions, Decisions + 1}
    BY OneMore, LogPositions DEF GradeInv
  <2>2. QED
    BY <2>1, OneMore DEF GradeInv
<1>2. /\ IdsOnce' /\ Decisions <= Decisions'
      /\ \A c : Approvals(c) \subseteq Approvals(c)'
      /\ \A c, id : Granted(c, id) => Granted(c, id)'
      /\ Spent \subseteq Spent'
  BY IdsStayOnce, AfterAppend DEF GradeInv
<1>3. UsedKnown'
  <2> SUFFICES ASSUME NEW id \in Ids, uses'[id] > 0 PROVE id <= Decisions'
    BY DEF UsedKnown
  <2>1. id <= Decisions /\ id \in Nat
    BY DEF GradeInv, UsedKnown, Ids
  <2>2. QED
    BY <1>1, <1>2, <2>1
<1>4. r.type = "approve" => r.id \in Ids /\ uses[r.id] = 0
  <2> SUFFICES ASSUME r.type = "approve" PROVE r.id \in Ids /\ uses[r.id] = 0
    OBVIOUS
  <2>1. r.id \in Ids /\ r.id = Decisions + 1 /\ uses[r.id] \in Nat
    BY DEF Record, GradeInv, TypeOK
  <2>2. ~ (r.id <= Decisions)
    BY <1>1, <2>1
  <2>3. QED
    BY <2>1, <2>2 DEF GradeInv, UsedKnown
<1>5. AppliedWereApproved'
  <2> SUFFICES ASSUME NEW i \in DOMAIN log', log'[i].type = "approve", uses'[log'[i].id] > 0
               PROVE  log'[i].grade = "A" \/ log'[i].item \in direct'
    BY DEF AppliedWereApproved
  <2>1. CASE i \in DOMAIN log
    BY <1>1, <2>1 DEF GradeInv, AppliedWereApproved
  <2>2. CASE i = Len(log) + 1
    BY <1>1, <1>4, <2>2
  <2>3. QED
    BY <1>1, <2>1, <2>2
<1>6. PassedGranted'
  BY <1>2 DEF GradeInv, PassedGranted
<1>7. ReviewerApproved'
  <2> SUFFICES ASSUME cli'.pc \in {"apply", "consume"}
               PROVE  cli'.pc = "apply" /\ \E i \in Approvals(cli.item)' : log'[i].id = cli'.id
    BY DEF ReviewerApproved
  <2>1. r.type = "approve" /\ cli'.item = r.item /\ cli'.id = r.id /\ cli'.pc = "apply"
    OBVIOUS
  <2>2. Len(log) + 1 \in Approvals(cli.item)'
    BY <1>1, <2>1 DEF Approvals
  <2>3. QED
    BY <1>1, <2>1, <2>2
<1>8. OnceInv'
  <2> SUFFICES ASSUME NEW i \in DOMAIN log', Plain(i)' PROVE PlainOnce(i)'
    BY DEF OnceInv
  <2>1. CASE i \in DOMAIN log
    <3>1. log'[i] = log[i] /\ log[i].type = "approve" /\ i \in Approvals(log[i].item)
      BY <1>1, <2>1 DEF Plain, Approvals
    <3>2. Approvals(log[i].item) = {i}
      BY <1>2, <3>1 DEF Plain
    <3>3. PlainOnce(i)
      BY <2>1, <3>1, <3>2 DEF Plain, OnceInv
    <3>4. HasPassed(log[i].id)' <=> HasPassed(log[i].id)
      BY <3>1 DEF HasPassed
    <3>5. QED
      BY <1>2, <3>1, <3>3, <3>4 DEF PlainOnce
  <2>2. CASE i = Len(log) + 1
    <3>1. log'[i] = r /\ r.type = "approve" /\ uses[r.id] = 0 /\ r.id = Decisions + 1
      BY <1>1, <1>4, <2>2 DEF Plain
    <3>2. \A c : ~ Granted(c, r.id)
      <4>1. \A k \in Decided : log[k].id # r.id
        <5>1. \A k \in Decided : log[k].id <= Decisions
          BY DEF GradeInv, IdsOnce
        <5>2. QED
          BY <1>1, <3>1, <5>1
      <4>2. QED
        BY <4>1 DEF Granted, Approvals, Decided
    <3>3. ~HasPassed(r.id) /\ (gate.pc = "consume" => gate.id # r.id)
      BY <3>2 DEF HasPassed, GradeInv, PassedGranted
    <3>4. ~HasPassed(log[i].id)' /\ uses'[log'[i].id] = 0
          /\ (gate'.pc = "consume" => gate'.id # log'[i].id)
      BY <3>1, <3>3 DEF HasPassed
    <3>5. QED
      BY <3>4 DEF PlainOnce
  <2>3. QED
    BY <1>1, <2>1, <2>2
<1>9. QED
  BY <1>2, <1>3, <1>5, <1>6, <1>7, <1>8 DEF GradeInv

(* consume_decision marks the plain approval that the change passes on. *)
LEMMA GateConsumeKeeps ==
  ASSUME GradeInv, OnceInv, TypeOK', ItemsKnown', GateConsume
  PROVE  GradeInv' /\ OnceInv'
<1> DEFINE r == [type |-> "consume", id |-> ToConsume(gate.item), item |-> gate.item,
                 grade |-> "A"]
<1>1. /\ gate.pc = "consume" /\ log' = Append(log, r) /\ gate'.pc = "loop"
      /\ gate'.passed = gate.passed \cup {<<gate.item, gate.id>>}
      /\ UNCHANGED <<cli, uses, direct>>
  BY DEF GateConsume, Append1, history, GradeInv, TypeOK
<1>2. Granted(gate.item, gate.id)
  BY <1>1 DEF GradeInv, PassedGranted
<1>3. PICK k \in Approvals(gate.item) : log[k].id = gate.id /\ log[k].grade = "A"
  BY <1>2 DEF Granted
<1>4. r \in Record
  <2>1. Approvals(gate.item) # {} /\ Approvals(gate.item) \subseteq DOMAIN log
        /\ Approvals(gate.item) \subseteq Nat
    BY <1>3, LogPositions DEF Approvals, GradeInv
  <2>2. Earliest(Approvals(gate.item)) \in DOMAIN log
    BY <2>1, EarliestIn
  <2>3. log[Earliest(Approvals(gate.item))] \in Record /\ log[k] \in Record /\ log[k].item = gate.item
    BY <1>3, <2>2, LogPositions DEF GradeInv, Approvals
  <2>4. QED
    BY <2>3 DEF Record, ToConsume
<1>5. /\ DOMAIN log' = DOMAIN log \cup {Len(log) + 1} /\ Len(log) + 1 \notin DOMAIN log
      /\ log'[Len(log) + 1] = r /\ \A i \in DOMAIN log : log'[i] = log[i]
      /\ Decisions' = Decisions
  BY <1>1, <1>4, OneMore DEF GradeInv
<1>6. /\ IdsOnce' /\ \A c : Approvals(c)' = Approvals(c)
      /\ \A c, id : Granted(c, id) => Granted(c, id)'
      /\ Spent' = Spent \cup {ToConsume(gate.item)}
  BY <1>1, <1>4, IdsStayOnce, AfterAppend DEF GradeInv
<1>7. UsedKnown'
  BY <1>1, <1>5 DEF GradeInv, UsedKnown
<1>8. AppliedWereApproved'
  <2> SUFFICES ASSUME NEW i \in DOMAIN log', log'[i].type = "approve", uses'[log'[i].id] > 0
               PROVE  log'[i].grade = "A" \/ log'[i].item \in direct'
    BY DEF AppliedWereApproved
  <2>1. i \in DOMAIN log
    BY <1>5
  <2>2. QED
    BY <1>1, <1>5, <2>1 DEF GradeInv, AppliedWereApproved
<1>9. PassedGranted'
  BY <1>1, <1>2, <1>6 DEF GradeInv, PassedGranted
<1>10. ReviewerApproved'
  <2>1. \A c : \A i \in Approvals(c) : log'[i] = log[i]
    BY <1>5 DEF Approvals
  <2>2. QED
    BY <1>1, <1>6, <2>1 DEF GradeInv, ReviewerApproved
<1>11. OnceInv'
  <2> SUFFICES ASSUME NEW i \in DOMAIN log', Plain(i)' PROVE PlainOnce(i)'
    BY DEF OnceInv
  <2>1. i \in DOMAIN log /\ log'[i] = log[i]
    BY <1>5 DEF Plain
  <2>2. Plain(i) /\ PlainOnce(i)
    BY <1>1, <1>6, <2>1 DEF Plain, OnceInv
  <2>3. CASE log[i].id = gate.id
    <3>1. k = i
      BY <1>3, <2>1, <2>2, <2>3, IdOf DEF Approvals, Plain, GradeInv
    <3>2. ToConsume(gate.item) = log[i].id
      BY <1>3, <2>1, <2>2, <3>1, ConsumesPlain DEF Approvals, GradeInv
    <3>3. uses[log[i].id] = 0
      BY <1>1, <2>2, <2>3 DEF PlainOnce
    <3>4. QED
      BY <1>1, <1>6, <2>1, <3>2, <3>3 DEF PlainOnce
  <2>4. CASE log[i].id # gate.id
    <3>1. HasPassed(log[i].id)' <=> HasPassed(log[i].id)
      BY <1>1, <2>1, <2>4 DEF HasPassed
    <3>2. QED
      BY <1>1, <1>6, <2>1, <2>2, <3>1 DEF PlainOnce
  <2>5. QED
    BY <2>3, <2>4
<1>12. QED
  BY <1>6, <1>7, <1>8, <1>9, <1>10, <1>11 DEF GradeInv

Through(id) == {p \in gate.passed : p[2] = id}

(* One run of the gate passes at most one change under an id. *)
LEMMA ThroughOnce ==
  ASSUME TypeOK, IdsOnce, PassedGranted, NEW id \in Ids
  PROVE  Cardinality(Through(id)) = IF HasPassed(id) THEN 1 ELSE 0
<1>1. CASE HasPassed(id)
  <2>1. PICK p \in gate.passed : p[2] = id
    BY <1>1 DEF HasPassed
  <2>2. ASSUME NEW q \in gate.passed, q[2] = id PROVE q = p
    <3>1. PICK k \in Approvals(p[1]) : log[k].id = id
      BY <2>1 DEF PassedGranted, Granted
    <3>2. PICK m \in Approvals(q[1]) : log[m].id = id
      BY <2>2 DEF PassedGranted, Granted
    <3>3. k = m
      BY <3>1, <3>2, IdOf DEF Approvals
    <3>4. p[1] = q[1]
      BY <3>1, <3>2, <3>3 DEF Approvals
    <3>5. p \in Item \X Ids /\ q \in Item \X Ids
      BY <2>1, <2>2 DEF TypeOK
    <3>6. QED
      BY <2>1, <2>2, <3>4, <3>5
  <2>3. Through(id) = {p}
    BY <2>1, <2>2 DEF Through
  <2>4. QED
    BY <1>1, <2>3, FS_Singleton
<1>2. CASE ~HasPassed(id)
  <2>1. Through(id) = {}
    BY <1>2 DEF Through, HasPassed
  <2>2. QED
    BY <1>2, <2>1, FS_EmptySet
<1>3. QED
  BY <1>1, <1>2

(* apply_tuning uses up what passed, once each. *)
LEMMA GateApplyKeeps ==
  ASSUME GradeInv, OnceInv, TypeOK', ItemsKnown', GateApply
  PROVE  GradeInv' /\ OnceInv'
<1>1. /\ gate' = GateIdle /\ gate'.passed = {} /\ gate'.pc = "idle"
      /\ UNCHANGED <<log, cli, direct>>
  BY DEF GateApply, GateIdle, files
<1>2. \A id \in Ids : uses'[id] = uses[id] + (IF HasPassed(id) THEN 1 ELSE 0) /\ uses[id] \in Nat
  BY ThroughOnce DEF GateApply, Through, GradeInv, TypeOK
<1>3. Decided' = Decided /\ Decisions' = Decisions /\ Spent' = Spent
  BY <1>1 DEF Decided, Decisions, Spent
<1>4. \A c : Approvals(c)' = Approvals(c)
  BY <1>1 DEF Approvals
<1>5. \A i \in DOMAIN log : log[i].id \in Ids
  BY LogPositions DEF Record, GradeInv
<1>6. ASSUME NEW id \in Ids, HasPassed(id)
      PROVE  \E k \in DOMAIN log : /\ log[k].type = "approve" /\ log[k].id = id
                                   /\ log[k].grade = "A"
  BY <1>6 DEF HasPassed, GradeInv, PassedGranted, Granted, Approvals
<1>7. UsedKnown'
  <2> SUFFICES ASSUME NEW id \in Ids, uses'[id] > 0 PROVE id <= Decisions
    BY <1>3 DEF UsedKnown
  <2>1. CASE HasPassed(id)
    BY <1>6, <2>1 DEF GradeInv, IdsOnce, Decided
  <2>2. CASE ~HasPassed(id)
    BY <1>2, <2>2 DEF GradeInv, UsedKnown
  <2>3. QED
    BY <2>1, <2>2
<1>8. AppliedWereApproved'
  <2> SUFFICES ASSUME NEW i \in DOMAIN log, log[i].type = "approve", uses'[log[i].id] > 0
               PROVE  log[i].grade = "A" \/ log[i].item \in direct
    BY <1>1 DEF AppliedWereApproved
  <2>1. CASE HasPassed(log[i].id)
    BY <1>5, <1>6, <2>1, IdOf DEF GradeInv
  <2>2. CASE ~HasPassed(log[i].id)
    BY <1>2, <1>5, <2>2 DEF GradeInv, AppliedWereApproved
  <2>3. QED
    BY <2>1, <2>2
<1>9. IdsOnce' /\ PassedGranted' /\ ReviewerApproved'
  BY <1>1, <1>3, <1>4 DEF GradeInv, IdsOnce, PassedGranted, ReviewerApproved
<1>10. OnceInv'
  <2> SUFFICES ASSUME NEW i \in DOMAIN log', Plain(i)' PROVE PlainOnce(i)'
    BY DEF OnceInv
  <2>1. i \in DOMAIN log /\ log'[i] = log[i] /\ log[i].id \in Ids
    BY <1>1, <1>5
  <2>2. Plain(i) /\ PlainOnce(i)
    BY <1>1, <1>4, <2>1 DEF Plain, OnceInv
  <2>3. ~HasPassed(log[i].id)'
    BY <1>1 DEF HasPassed
  <2>4. uses'[log[i].id] <= 1 /\ (uses'[log[i].id] = 1 => log[i].id \in Spent)
    BY <1>2, <2>1, <2>2 DEF PlainOnce
  <2>5. QED
    BY <1>1, <1>3, <2>1, <2>3, <2>4 DEF PlainOnce
<1>11. QED
  BY <1>7, <1>8, <1>9, <1>10 DEF GradeInv

(* A reviewer's direct apply takes its item out of the plain ones. *)
LEMMA CliApplyKeeps ==
  ASSUME GradeInv, OnceInv, TypeOK', ItemsKnown', CliApply
  PROVE  GradeInv' /\ OnceInv'
<1>1. /\ cli.pc = "apply" /\ uses' = [uses EXCEPT ![cli.id] = @ + 1]
      /\ direct' = direct \cup {cli.item}
      /\ cli'.pc = "consume" /\ cli'.item = cli.item /\ cli'.id = cli.id
      /\ UNCHANGED <<log, gate>>
  BY DEF CliApply, files, GradeInv, TypeOK
<1>2. PICK k \in Approvals(cli.item) : log[k].id = cli.id
  BY <1>1 DEF GradeInv, ReviewerApproved
<1>3. k \in DOMAIN log /\ log[k].type = "approve" /\ log[k].item = cli.item
  BY <1>2 DEF Approvals
<1>4. Decided' = Decided /\ Decisions' = Decisions /\ Spent' = Spent
  BY <1>1 DEF Decided, Decisions, Spent
<1>5. \A c : Approvals(c)' = Approvals(c)
  BY <1>1 DEF Approvals
<1>6. \A id \in Ids : id # cli.id => uses'[id] = uses[id]
  BY <1>1 DEF GradeInv, TypeOK
<1>7. UsedKnown'
  <2>1. cli.id <= Decisions
    BY <1>2, <1>3 DEF GradeInv, IdsOnce, Decided
  <2>2. QED
    BY <1>4, <1>6, <2>1 DEF GradeInv, UsedKnown
<1>8. \A i \in DOMAIN log : log[i].id \in Ids
  BY LogPositions DEF Record, GradeInv
<1>9. ASSUME NEW i \in DOMAIN log, log[i].type = "approve", log[i].id = cli.id
      PROVE  log[i].item = cli.item
  <2>1. i = k
    BY <1>2, <1>3, <1>9, IdOf DEF GradeInv
  <2>2. QED
    BY <1>3, <2>1
<1>10. AppliedWereApproved'
  BY <1>1, <1>6, <1>8, <1>9 DEF GradeInv, AppliedWereApproved
<1>11. IdsOnce' /\ PassedGranted'
  BY <1>1, <1>4, <1>5 DEF GradeInv, IdsOnce, PassedGranted, Granted
<1>12. ReviewerApproved'
  BY <1>1, <1>2, <1>5 DEF ReviewerApproved
<1>13. OnceInv'
  <2> SUFFICES ASSUME NEW i \in DOMAIN log', Plain(i)' PROVE PlainOnce(i)'
    BY DEF OnceInv
  <2>1. i \in DOMAIN log /\ log'[i] = log[i] /\ log[i].id \in Ids
    BY <1>1, <1>8
  <2>2. Plain(i) /\ PlainOnce(i) /\ log[i].item # cli.item
    BY <1>1, <1>5, <2>1 DEF Plain, OnceInv
  <2>3. uses'[log[i].id] = uses[log[i].id]
    BY <1>6, <1>9, <2>1, <2>2 DEF Plain
  <2>4. HasPassed(log[i].id)' <=> HasPassed(log[i].id)
    BY <1>1, <2>1 DEF HasPassed
  <2>5. QED
    BY <1>1, <1>4, <2>1, <2>2, <2>3, <2>4 DEF PlainOnce
<1>14. QED
  BY <1>7, <1>10, <1>11, <1>12, <1>13 DEF GradeInv

-----------------------------------------------------------------------------
GateStates ==
  [pc : {"idle", "loop", "mark", "marked", "consume", "apply"},
   todo : SUBSET Item, passed : SUBSET (Item \X Ids),
   item : Item \cup {NoItem}, id : 0 .. MaxDecisions, snap : SUBSET Target]
CliStates ==
  [pc : {"idle", "apply", "consume", "clear", "cleared"},
   item : Item \cup {NoItem}, id : 0 .. MaxDecisions, snap : SUBSET Target]

(* The places of the gate where it chooses and marks. *)
LEMMA GateTyped ==
  ASSUME GradeInv,
         \/ \E changes \in SUBSET Item : changes # {} /\ GateStart(changes)
         \/ \E c \in Item : GateCooled(c) \/ GateUngraded(c) \/ GateBlocked(c) \/ GatePassed(c)
         \/ MarkLoad \/ MarkSave \/ Crash
  PROVE  TypeOK' /\ ItemsKnown'
<1>1. TypeOK /\ ItemsKnown /\ {MaxDecisions, MaxRuns} \subseteq Nat
  BY GateBounds DEF GradeInv
<1>2. gate \in GateStates /\ GateIdle \in GateStates
  BY <1>1 DEF TypeOK, GateStates, GateIdle
<1>3. ASSUME NEW changes \in SUBSET Item, GateStart(changes) PROVE TypeOK' /\ ItemsKnown'
  <2>1. gate' = [GateIdle EXCEPT !.pc = "loop", !.todo = changes]
        /\ runs < MaxRuns /\ runs' = runs + 1
        /\ UNCHANGED <<files, expired, cli, uses, direct, crashed>>
    BY <1>3 DEF GateStart
  <2>2. gate' \in GateStates /\ gate'.pc = "loop" /\ runs' \in 0 .. MaxRuns
    <3>1. runs' \in 0 .. MaxRuns
      BY <1>1, <2>1 DEF TypeOK
    <3>2. QED
      BY <1>2, <2>1, <3>1 DEF GateIdle, GateStates
  <2>3. QED
    BY <1>1, <2>1, <2>2 DEF TypeOK, ItemsKnown, GateStates, files, queue
<1>4. ASSUME NEW c \in Item, GateCooled(c) \/ GateBlocked(c) PROVE TypeOK' /\ ItemsKnown'
  <2>1. gate' \in GateStates /\ (gate'.pc \in {"mark", "marked"} => gate'.item = c)
    BY <1>2, <1>4 DEF GateCooled, GateBlocked, GateStates
  <2>2. UNCHANGED <<files, expired, cli, history>>
    BY <1>4 DEF GateCooled, GateBlocked
  <2>3. QED
    BY <1>1, <2>1, <2>2 DEF TypeOK, ItemsKnown, GateStates, files, queue, history
<1>5. ASSUME NEW c \in Item, GateUngraded(c) PROVE TypeOK' /\ ItemsKnown'
  <2>1. gate' \in GateStates /\ gate'.item = c
    BY <1>2, <1>5 DEF GateUngraded, GateStates
  <2>2. queued' \subseteq Item /\ latest' \in [Target -> Item \cup {NoItem}]
    BY <1>1, <1>5, TargetAssumption DEF GateUngraded, Queue, TypeOK
  <2>3. UNCHANGED <<log, expired, cooling, judgestored, cli, history>>
    BY <1>5 DEF GateUngraded
  <2>4. QED
    BY <1>1, <2>1, <2>2, <2>3 DEF TypeOK, ItemsKnown, GateStates, history
<1>6. ASSUME NEW c \in Item, GatePassed(c) PROVE TypeOK' /\ ItemsKnown'
  <2>1. Found(c).id \in Ids
    BY <1>1, <1>6, FoundUsable DEF GatePassed
  <2>2. gate' \in GateStates /\ gate'.pc = "consume"
    <3>1. Found(c).id \in 0 .. MaxDecisions
      BY <1>1, <2>1 DEF Ids
    <3>2. QED
      BY <1>2, <1>6, <3>1 DEF GatePassed, GateStates
  <2>3. UNCHANGED <<files, expired, cli, history>>
    BY <1>6 DEF GatePassed
  <2>4. QED
    BY <1>1, <2>2, <2>3 DEF TypeOK, ItemsKnown, GateStates, files, queue, history
<1>7. CASE MarkLoad
  <2>1. gate' \in GateStates /\ gate'.item = gate.item /\ gate.pc = "mark"
    BY <1>1, <1>2, <1>7 DEF MarkLoad, GateStates, TypeOK
  <2>2. UNCHANGED <<files, expired, cli, history>>
    BY <1>7 DEF MarkLoad
  <2>3. QED
    BY <1>1, <2>1, <2>2 DEF TypeOK, ItemsKnown, GateStates, files, queue, history
<1>8. CASE MarkSave
  <2>1. gate' \in GateStates /\ gate'.pc = "loop"
    BY <1>2, <1>8 DEF MarkSave, GateStates
  <2>2. TargetOf[gate.item] \in Target
    BY <1>1, <1>8, TargetAssumption DEF MarkSave, ItemsKnown
  <2>3. cooling' \subseteq Target
    BY <1>1, <1>2, <1>8, <2>2 DEF MarkSave, TypeOK, GateStates
  <2>4. UNCHANGED <<log, expired, queue, judgestored, cli, uses, direct, runs, crashed>>
    BY <1>8 DEF MarkSave
  <2>5. QED
    BY <1>1, <2>1, <2>3, <2>4 DEF TypeOK, ItemsKnown, GateStates, queue
<1>9. CASE Crash
  <2>1. gate' \in GateStates /\ gate'.pc = "idle" /\ crashed' \in BOOLEAN
    BY <1>2, <1>9 DEF Crash, GateIdle
  <2>2. UNCHANGED <<files, expired, cli, uses, direct, runs>>
    BY <1>9 DEF Crash
  <2>3. QED
    BY <1>1, <2>1, <2>2 DEF TypeOK, ItemsKnown, GateStates, files, queue
<1>10. QED
  BY <1>3, <1>4, <1>5, <1>6, <1>7, <1>8, <1>9

(* What consume_decision marks is the id of an approval. *)
LEMMA ToConsumeKnown ==
  ASSUME TypeOK, NEW c, NEW k \in Approvals(c)
  PROVE  ToConsume(c) \in Ids /\ c \in Item
<1>1. Approvals(c) \subseteq DOMAIN log /\ Approvals(c) \subseteq Nat
  BY LogPositions DEF Approvals
<1>2. Earliest(Approvals(c)) \in DOMAIN log
  BY <1>1, EarliestIn
<1>3. log[Earliest(Approvals(c))] \in Record /\ log[k] \in Record /\ log[k].item = c
  BY <1>1, <1>2, LogPositions DEF Approvals
<1>4. QED
  BY <1>3 DEF Record, ToConsume

(* Consuming and applying. *)
LEMMA UseTyped ==
  ASSUME GradeInv, GateConsume \/ GateApply \/ CliApply \/ CliConsume
  PROVE  TypeOK' /\ ItemsKnown'
<1>1. TypeOK /\ ItemsKnown /\ MaxDecisions \in Nat
  BY GateBounds DEF GradeInv
<1>2. /\ gate \in GateStates /\ GateIdle \in GateStates
      /\ cli \in CliStates /\ CliIdle \in CliStates /\ log \in Seq(Record)
  BY <1>1 DEF TypeOK, GateStates, GateIdle, CliStates, CliIdle
<1>3. CASE GateConsume
  <2>1. PICK k \in Approvals(gate.item) : log[k].id = gate.id
    BY <1>3 DEF GateConsume, GradeInv, PassedGranted, Granted
  <2>2. ToConsume(gate.item) \in Ids /\ gate.item \in Item /\ gate.id \in Ids
    <3>1. log[k] \in Record
      BY <1>1, <2>1, LogPositions DEF Approvals
    <3>2. QED
      BY <1>1, <2>1, <3>1, ToConsumeKnown DEF Record
  <2>3. log' \in Seq(Record)
    BY <1>2, <1>3, <2>2 DEF GateConsume, Append1, Record
  <2>4. gate' \in GateStates /\ gate'.pc = "loop"
    <3>1. gate.passed \cup {<<gate.item, gate.id>>} \subseteq Item \X Ids
      BY <1>2, <2>2 DEF GateStates
    <3>2. 0 \in 0 .. MaxDecisions /\ gate.todo \ {gate.item} \subseteq Item
      BY <1>1, <1>2 DEF GateStates
    <3>3. QED
      BY <1>2, <1>3, <3>1, <3>2 DEF GateConsume, GateStates
  <2>5. UNCHANGED <<expired, cooling, queue, judgestored, cli, history>>
    BY <1>3 DEF GateConsume
  <2>6. QED
    BY <1>1, <2>3, <2>4, <2>5 DEF TypeOK, ItemsKnown, GateStates, queue, history
<1>4. CASE GateApply
  <2>1. \A id \in Ids : uses[id] + Cardinality(Through(id)) \in Nat
    BY <1>1, ThroughOnce DEF TypeOK, GradeInv
  <2>2. uses' \in [Ids -> Nat] /\ gate' = GateIdle
    BY <1>4, <2>1 DEF GateApply, Through
  <2>3. UNCHANGED <<files, expired, cli, direct, runs, crashed>>
    BY <1>4 DEF GateApply
  <2>4. gate'.pc = "idle" /\ gate' \in GateStates
    BY <1>2, <2>2 DEF GateIdle
  <2>5. QED
    BY <1>1, <2>2, <2>3, <2>4 DEF TypeOK, ItemsKnown, GateStates, files, queue
<1>5. CASE CliApply
  <2>1. PICK k \in Approvals(cli.item) : log[k].id = cli.id
    BY <1>5 DEF CliApply, GradeInv, ReviewerApproved
  <2>2. cli.item \in Item
    BY <1>1, <2>1, ToConsumeKnown
  <2>3. uses' \in [Ids -> Nat] /\ direct' \subseteq Item
    <3>1. uses' = [uses EXCEPT ![cli.id] = @ + 1] /\ direct' = direct \cup {cli.item}
      BY <1>5 DEF CliApply
    <3>2. uses \in [Ids -> Nat] /\ direct \subseteq Item
      BY <1>1 DEF TypeOK
    <3>3. uses' \in [Ids -> Nat]
      <4>1. cli.id \in Ids
        BY <1>1, <2>1, LogPositions DEF Approvals, Record
      <4>2. uses[cli.id] + 1 \in Nat
        BY <3>2, <4>1
      <4>3. QED
        BY <3>1, <3>2, <4>2
    <3>4. QED
      BY <2>2, <3>1, <3>2, <3>3
  <2>4. cli' \in CliStates /\ cli'.pc = "consume"
    BY <1>2, <1>5 DEF CliApply, CliStates
  <2>5. UNCHANGED <<files, expired, gate, runs, crashed>>
    BY <1>5 DEF CliApply
  <2>6. QED
    BY <1>1, <2>3, <2>4, <2>5 DEF TypeOK, ItemsKnown, CliStates, files, queue
<1>6. CASE CliConsume
  <2>1. PICK k \in Approvals(cli.item) : log[k].id = cli.id
    BY <1>6 DEF CliConsume, GradeInv, ReviewerApproved
  <2>2. ToConsume(cli.item) \in Ids /\ cli.item \in Item
    BY <1>1, <2>1, ToConsumeKnown
  <2>3. log' \in Seq(Record)
    BY <1>2, <1>6, <2>2 DEF CliConsume, Append1, Record
  <2>4. cli' \in CliStates /\ cli'.pc = "idle"
    BY <1>2, <1>6 DEF CliConsume, CliIdle
  <2>5. UNCHANGED <<expired, cooling, queue, judgestored, gate, history>>
    BY <1>6 DEF CliConsume
  <2>6. QED
    BY <1>1, <2>3, <2>4, <2>5 DEF TypeOK, ItemsKnown, CliStates, queue, history
<1>7. QED
  BY <1>3, <1>4, <1>5, <1>6

(* The reviewer's other commands, and the passing of time. *)
LEMMA CliTyped ==
  ASSUME GradeInv,
         \/ \E c \in Item, grade \in {"A", "B"}, next \in {"idle", "apply", "clear"} :
              CliApprove(c, grade, next)
         \/ \E c \in Item, next \in {"idle", "clear"} : CliReject(c, next)
         \/ ClearLoad \/ ClearSave \/ CliActivate
         \/ (\E id \in Ids : TokenExpires(id)) \/ (\E t \in Target : CooldownEnds(t))
  PROVE  TypeOK' /\ ItemsKnown'
<1>1. TypeOK /\ ItemsKnown /\ MaxDecisions \in Nat
  BY GateBounds DEF GradeInv
<1>2. /\ cli \in CliStates /\ CliIdle \in CliStates /\ log \in Seq(Record)
      /\ Decisions \in Nat
  BY <1>1, LogPositions DEF TypeOK, CliStates, CliIdle
<1>3. Decisions < MaxDecisions => Decisions + 1 \in Ids /\ Decisions + 1 \in 0 .. MaxDecisions
  BY <1>1, <1>2 DEF Ids
<1>4. ASSUME NEW c \in Item, NEW grade \in {"A", "B"}, NEW next \in {"idle", "apply", "clear"},
             CliApprove(c, grade, next)
      PROVE  TypeOK' /\ ItemsKnown'
  <2>1. log' \in Seq(Record)
    <3>1. [type |-> "approve", id |-> Decisions + 1, item |-> c, grade |-> grade] \in Record
      BY <1>3, <1>4 DEF CliApprove, Record
    <3>2. log' = Append(log, [type |-> "approve", id |-> Decisions + 1, item |-> c,
                              grade |-> grade])
      BY <1>4 DEF CliApprove, Append1
    <3>3. QED
      BY <1>2, <3>1, <3>2
  <2>2. cli' \in CliStates /\ (cli'.pc \in {"clear", "cleared"} => cli'.item \in Item)
    <3>1. cli' = IF next = "idle" THEN CliIdle
                 ELSE [cli EXCEPT !.pc = next, !.item = c, !.id = Decisions + 1]
      BY <1>4 DEF CliApprove
    <3>2. CASE next = "idle"
      BY <1>2, <3>1, <3>2 DEF CliIdle
    <3>3. CASE next # "idle"
      BY <1>2, <1>3, <1>4, <3>1, <3>3 DEF CliApprove, CliStates
    <3>4. QED
      BY <3>2, <3>3
  <2>3. UNCHANGED <<expired, cooling, queue, judgestored, gate, history>>
    BY <1>4 DEF CliApprove
  <2>4. QED
    BY <1>1, <2>1, <2>2, <2>3 DEF TypeOK, ItemsKnown, CliStates, queue, history
<1>5. ASSUME NEW c \in Item, NEW next \in {"idle", "clear"}, CliReject(c, next)
      PROVE  TypeOK' /\ ItemsKnown'
  <2>1. log' \in Seq(Record)
    <3>1. [type |-> "reject", id |-> Decisions + 1, item |-> c, grade |-> "B"] \in Record
      BY <1>3, <1>5 DEF CliReject, Record
    <3>2. log' = Append(log, [type |-> "reject", id |-> Decisions + 1, item |-> c,
                              grade |-> "B"])
      BY <1>5 DEF CliReject, Append1
    <3>3. QED
      BY <1>2, <3>1, <3>2
  <2>2. cli' \in CliStates /\ (cli'.pc \in {"clear", "cleared"} => cli'.item \in Item)
    BY <1>2, <1>5 DEF CliReject, CliStates, CliIdle
  <2>3. queued' \subseteq Item /\ latest' \in [Target -> Item \cup {NoItem}]
    BY <1>1, <1>5, TargetAssumption DEF CliReject, Queue, queue, TypeOK
  <2>4. UNCHANGED <<expired, cooling, judgestored, gate, history>>
    BY <1>5 DEF CliReject
  <2>5. QED
    BY <1>1, <2>1, <2>2, <2>3, <2>4 DEF TypeOK, ItemsKnown, CliStates, history
<1>6. CASE ClearLoad
  <2>1. cli' \in CliStates /\ cli'.item = cli.item /\ cli.pc = "clear"
    BY <1>1, <1>2, <1>6 DEF ClearLoad, CliStates, TypeOK
  <2>2. UNCHANGED <<files, expired, gate, history>>
    BY <1>6 DEF ClearLoad
  <2>3. QED
    BY <1>1, <2>1, <2>2 DEF TypeOK, ItemsKnown, CliStates, files, queue, history
<1>7. CASE ClearSave
  <2>1. cli' \in CliStates /\ cli'.pc = "idle"
    BY <1>2, <1>7 DEF ClearSave, CliIdle
  <2>2. TargetOf[cli.item] \in Target
    BY <1>1, <1>7, TargetAssumption DEF ClearSave, ItemsKnown
  <2>3. cooling' \subseteq Target
    BY <1>1, <1>2, <1>7, <2>2 DEF ClearSave, TypeOK, CliStates
  <2>4. UNCHANGED <<log, expired, queue, judgestored, gate, uses, direct, runs, crashed>>
    BY <1>7 DEF ClearSave
  <2>5. QED
    BY <1>1, <2>1, <2>3, <2>4 DEF TypeOK, ItemsKnown, CliStates, queue
<1>8. CASE CliActivate
  <2>1. judgestored' \in BOOLEAN /\ UNCHANGED <<log, expired, cooling, queue, gate, cli, history>>
    BY <1>8 DEF CliActivate
  <2>2. QED
    BY <1>1, <2>1 DEF TypeOK, ItemsKnown, queue, history
<1>9. CASE (\E id \in Ids : TokenExpires(id)) \/ (\E t \in Target : CooldownEnds(t))
  <2>1. /\ expired' \subseteq Ids /\ cooling' \subseteq Target
        /\ UNCHANGED <<log, queue, judgestored, gate, cli, history>>
    BY <1>1, <1>9 DEF TokenExpires, CooldownEnds, TypeOK, files
  <2>2. QED
    BY <1>1, <2>1 DEF TypeOK, ItemsKnown, queue, history
<1>10. QED
  BY <1>4, <1>5, <1>6, <1>7, <1>8, <1>9

-----------------------------------------------------------------------------
(* The gate passes only what it found granted, unspent and not yet used. *)
LEMMA GatePassedKeeps ==
  ASSUME GradeInv, OnceInv, NEW c \in Item, GatePassed(c)
  PROVE  GradeInv' /\ OnceInv'
<1>1. /\ Usable(c) # {} /\ Found(c).grade = "A"
      /\ gate'.pc = "consume" /\ gate'.item = c /\ gate'.id = Found(c).id
      /\ gate'.passed = gate.passed
      /\ UNCHANGED <<log, uses, direct, cli>>
  BY DEF GatePassed, GateOpens, GradeInv, TypeOK, files, history
<1>2. PICK k \in Approvals(c) : log[k] = Found(c) /\ log[k].id \notin Spent /\ log[k].id \in Ids
  BY <1>1, FoundUsable DEF GradeInv
<1>3. Decided' = Decided /\ Decisions' = Decisions /\ Spent' = Spent
  BY <1>1 DEF Decided, Decisions, Spent
<1>4. \A d : Approvals(d)' = Approvals(d)
  BY <1>1 DEF Approvals
<1>5. TypeOK' /\ ItemsKnown'
  BY GateTyped
<1>6. IdsOnce' /\ UsedKnown' /\ AppliedWereApproved' /\ ReviewerApproved'
  BY <1>1, <1>3, <1>4 DEF GradeInv, IdsOnce, UsedKnown, AppliedWereApproved, ReviewerApproved
<1>7. PassedGranted'
  BY <1>1, <1>2, <1>4 DEF GradeInv, PassedGranted, Granted
<1>8. OnceInv'
  <2> SUFFICES ASSUME NEW i \in DOMAIN log', Plain(i)' PROVE PlainOnce(i)'
    BY DEF OnceInv
  <2>1. i \in DOMAIN log /\ log'[i] = log[i] /\ log[i].id \in Ids
    BY <1>1, LogPositions DEF GradeInv, Record
  <2>2. Plain(i) /\ PlainOnce(i)
    BY <1>1, <1>4, <2>1 DEF Plain, OnceInv
  <2>3. HasPassed(log[i].id)' <=> HasPassed(log[i].id)
    BY <1>1, <2>1 DEF HasPassed
  <2>4. log[i].id = log[k].id => uses[log[i].id] = 0 /\ ~HasPassed(log[i].id)
    <3>1. uses[log[i].id] \in Nat
      BY <2>1 DEF GradeInv, TypeOK
    <3>2. QED
      BY <1>2, <2>2, <3>1 DEF PlainOnce
  <2>5. QED
    BY <1>1, <1>2, <1>3, <2>1, <2>2, <2>3, <2>4 DEF PlainOnce
<1>9. QED
  BY <1>5, <1>6, <1>7, <1>8 DEF GradeInv

(* Steps of the gate, of the reviewer and of time that decide nothing. *)
LEMMA QuietKeeps ==
  ASSUME GradeInv, OnceInv,
         \/ \E changes \in SUBSET Item : changes # {} /\ GateStart(changes)
         \/ \E c \in Item : GateCooled(c) \/ GateUngraded(c) \/ GateBlocked(c)
         \/ MarkLoad \/ MarkSave \/ Crash \/ ClearLoad \/ ClearSave \/ CliActivate
         \/ (\E id \in Ids : TokenExpires(id)) \/ (\E t \in Target : CooldownEnds(t))
  PROVE  GradeInv' /\ OnceInv'
<1>1. TypeOK' /\ ItemsKnown'
  BY GateTyped, CliTyped
<1>2. UNCHANGED <<log, uses, direct>>
  BY DEF GateStart, GateCooled, GateUngraded, GateBlocked, MarkLoad, MarkSave, Crash,
         ClearLoad, ClearSave, CliActivate, TokenExpires, CooldownEnds, files, history
<1>3. gate'.passed \subseteq gate.passed /\ (gate'.pc # "consume" \/ gate' = gate)
  <2>1. gate \in GateStates
    BY DEF GradeInv, TypeOK, GateStates
  <2>2. CASE \/ \E changes \in SUBSET Item : changes # {} /\ GateStart(changes)
             \/ Crash
    <3>1. \/ \E changes : gate' = [GateIdle EXCEPT !.pc = "loop", !.todo = changes]
          \/ gate' = GateIdle
      BY <2>2 DEF GateStart, Crash
    <3>2. CASE gate' = GateIdle
      BY <3>2 DEF GateIdle
    <3>3. ASSUME NEW changes, gate' = [GateIdle EXCEPT !.pc = "loop", !.todo = changes]
          PROVE  gate'.passed = {} /\ gate'.pc = "loop"
      BY <3>3 DEF GateIdle
    <3>4. QED
      BY <3>1, <3>2, <3>3
  <2>3. CASE \E c \in Item : GateCooled(c) \/ GateUngraded(c) \/ GateBlocked(c)
    BY <2>1, <2>3 DEF GateCooled, GateUngraded, GateBlocked, GateStates
  <2>4. CASE MarkLoad \/ MarkSave
    BY <2>1, <2>4 DEF MarkLoad, MarkSave, GateStates
  <2>5. CASE \/ ClearLoad \/ ClearSave \/ CliActivate
             \/ (\E id \in Ids : TokenExpires(id)) \/ (\E t \in Target : CooldownEnds(t))
    BY <2>5 DEF ClearLoad, ClearSave, CliActivate, TokenExpires, CooldownEnds
  <2>6. QED
    BY <2>2, <2>3, <2>4, <2>5
<1>4. cli'.pc \notin {"apply", "consume"} \/ cli' = cli
  <2>1. cli \in CliStates
    BY DEF GradeInv, TypeOK, CliStates
  <2>2. CASE ClearLoad \/ ClearSave
    <3>1. cli' = [cli EXCEPT !.pc = "cleared", !.snap = cooling] \/ cli' = CliIdle
      BY <2>2 DEF ClearLoad, ClearSave
    <3>2. CASE cli' = CliIdle
      BY <3>2 DEF CliIdle
    <3>3. CASE cli' = [cli EXCEPT !.pc = "cleared", !.snap = cooling]
      <4>1. cli'.pc = "cleared"
        BY <2>1, <3>3 DEF CliStates
      <4>2. QED
        BY <4>1
    <3>4. QED
      BY <3>1, <3>2, <3>3
  <2>3. CASE ~ (ClearLoad \/ ClearSave)
    BY <2>3 DEF GateStart, GateCooled, GateUngraded, GateBlocked, MarkLoad, MarkSave,
                Crash, CliActivate, TokenExpires, CooldownEnds
  <2>4. QED
    BY <2>2, <2>3
<1>5. QED
  BY <1>1, <1>2, <1>3, <1>4, NothingDecided

(* Decisions of a reviewer, and the mark after a direct apply. *)
LEMMA DecisionsKeep ==
  ASSUME GradeInv, OnceInv,
         \/ \E c \in Item, grade \in {"A", "B"}, next \in {"idle", "apply", "clear"} :
              CliApprove(c, grade, next)
         \/ \E c \in Item, next \in {"idle", "clear"} : CliReject(c, next)
         \/ CliConsume
  PROVE  GradeInv' /\ OnceInv'
<1>1. TypeOK' /\ ItemsKnown'
  BY CliTyped, UseTyped
<1>2. MaxDecisions \in Nat /\ Decisions \in Nat
  BY GateBounds, LogPositions DEF GradeInv
<1>3. Decisions < MaxDecisions => Decisions + 1 \in Ids
  BY <1>2 DEF Ids
<1>4. ASSUME NEW c \in Item, NEW grade \in {"A", "B"}, NEW next \in {"idle", "apply", "clear"},
             CliApprove(c, grade, next)
      PROVE  GradeInv' /\ OnceInv'
  <2> DEFINE r == [type |-> "approve", id |-> Decisions + 1, item |-> c, grade |-> grade]
  <2>1. r \in Record /\ log' = Append(log, r) /\ UNCHANGED <<gate, uses, direct>>
    BY <1>3, <1>4 DEF CliApprove, Append1, Record, history
  <2>2. cli'.pc \in {"apply", "consume"} =>
          cli'.pc = "apply" /\ cli'.item = c /\ cli'.id = Decisions + 1
    <3>1. cli' = IF next = "idle" THEN CliIdle
                 ELSE [cli EXCEPT !.pc = next, !.item = c, !.id = Decisions + 1]
      BY <1>4 DEF CliApprove
    <3>2. cli \in CliStates
      BY DEF GradeInv, TypeOK, CliStates
    <3>3. QED
      BY <3>1, <3>2 DEF CliIdle, CliStates
  <2>3. QED
    BY <1>1, <2>1, <2>2, RecordKeeps
<1>5. ASSUME NEW c \in Item, NEW next \in {"idle", "clear"}, CliReject(c, next)
      PROVE  GradeInv' /\ OnceInv'
  <2> DEFINE r == [type |-> "reject", id |-> Decisions + 1, item |-> c, grade |-> "B"]
  <2>1. r \in Record /\ log' = Append(log, r) /\ UNCHANGED <<gate, uses, direct>>
    BY <1>3, <1>5 DEF CliReject, Append1, Record, history
  <2>2. cli'.pc \notin {"apply", "consume"}
    BY <1>5 DEF CliReject, CliIdle, GradeInv, TypeOK
  <2>3. QED
    BY <1>1, <2>1, <2>2, RecordKeeps
<1>6. CASE CliConsume
  <2> DEFINE r == [type |-> "consume", id |-> ToConsume(cli.item), item |-> cli.item,
                   grade |-> "A"]
  <2>1. PICK k \in Approvals(cli.item) : log[k].id = cli.id
    BY <1>6 DEF CliConsume, GradeInv, ReviewerApproved
  <2>2. r \in Record
    BY <2>1, ToConsumeKnown DEF GradeInv, Record
  <2>3. log' = Append(log, r) /\ UNCHANGED <<gate, uses, direct>> /\ cli' = CliIdle
    BY <1>6 DEF CliConsume, Append1, history
  <2>4. cli'.pc \notin {"apply", "consume"}
    BY <2>3 DEF CliIdle
  <2>5. QED
    BY <1>1, <2>2, <2>3, <2>4, RecordKeeps
<1>7. QED
  BY <1>4, <1>5, <1>6

(* Every step keeps both invariants. *)
LEMMA StepKeeps == GradeInv /\ OnceInv /\ [Next]_vars => GradeInv' /\ OnceInv'
<1> SUFFICES ASSUME GradeInv, OnceInv, [Next]_vars PROVE GradeInv' /\ OnceInv'
  OBVIOUS
<1>1. CASE GateNext
  <2>1. CASE GateConsume \/ GateApply
    BY <2>1, UseTyped, GateConsumeKeeps, GateApplyKeeps
  <2>2. QED
    BY <1>1, <2>1, QuietKeeps, GatePassedKeeps DEF GateNext
<1>2. CASE CliNext
  <2>1. CASE CliApply
    BY <2>1, UseTyped, CliApplyKeeps
  <2>2. QED
    BY <1>2, <2>1, QuietKeeps, DecisionsKeep DEF CliNext
<1>3. CASE UNCHANGED vars
  <2>1. TypeOK' /\ ItemsKnown'
    BY <1>3 DEF GradeInv, TypeOK, ItemsKnown, vars, files, queue, history
  <2>2. UNCHANGED <<log, uses, direct, gate, cli>>
    BY <1>3 DEF vars, files, history
  <2>3. QED
    BY <2>1, <2>2, NothingDecided
<1>4. QED
  BY <1>1, <1>2, <1>3, QuietKeeps DEF Next

-----------------------------------------------------------------------------
(* The only approval of an item is what consume_decision marks. *)
LEMMA ConsumesOnly ==
  ASSUME TypeOK, NEW c, NEW k, Approvals(c) = {k}
  PROVE  ToConsume(c) = log[k].id
<1>1. {k} \subseteq Nat
  BY LogPositions DEF Approvals
<1>2. Earliest({k}) \in {k}
  BY <1>1, EarliestIn
<1>3. QED
  BY <1>2 DEF ToConsume

(* Steps that record nothing and apply nothing. *)
LEMMA NothingRecorded ==
  ASSUME AppliedInv, UNCHANGED <<log, uses>>,
         gate'.pc = "idle" => gate'.passed = {},
         ~crashed' => ~crashed /\ gate.passed \subseteq gate'.passed,
         cli'.pc = "consume" => cli.pc = "consume" /\ cli'.id = cli.id
  PROVE  AppliedInv'
<1>1. \A c : Approvals(c)' = Approvals(c)
  BY DEF Approvals
<1>2. ConsumedKnown'
  BY <1>1 DEF AppliedInv, ConsumedKnown
<1>3. ASSUME ~crashed' PROVE ConsumedThrough'
  <2>1. \A id : HasPassed(id) => HasPassed(id)'
    BY <1>3 DEF HasPassed
  <2>2. QED
    BY <1>1, <1>3, <2>1 DEF AppliedInv, ConsumedThrough
<1>4. QED
  BY <1>2, <1>3 DEF AppliedInv

(* A decision only adds to the approvals of an item. *)
LEMMA DecisionApplied ==
  ASSUME GradeInv, AppliedInv, NEW r \in Record, log' = Append(log, r), r.type # "consume",
         UNCHANGED <<gate, uses, crashed>>, cli'.pc # "consume"
  PROVE  AppliedInv'
<1>1. /\ DOMAIN log' = DOMAIN log \cup {Len(log) + 1}
      /\ log'[Len(log) + 1] = r /\ \A i \in DOMAIN log : log'[i] = log[i]
      /\ \A c : Approvals(c) \subseteq Approvals(c)'
  BY OneMore, AfterAppend DEF GradeInv
<1>2. \A i \in DOMAIN log' : log'[i].type = "consume" => i \in DOMAIN log /\ log'[i] = log[i]
  BY <1>1
<1>3. ConsumedKnown'
  <2> SUFFICES ASSUME NEW i \in DOMAIN log', log'[i].type = "consume"
               PROVE  Approvals(log[i].item)' # {}
    BY DEF ConsumedKnown
  <2>1. Approvals(log[i].item) # {} /\ log'[i] = log[i]
    BY <1>2 DEF AppliedInv, ConsumedKnown
  <2>2. QED
    BY <1>1, <2>1
<1>4. ASSUME ~crashed' PROVE ConsumedThrough'
  <2> SUFFICES ASSUME NEW i \in DOMAIN log', NEW k \in DOMAIN log',
                      log'[i].type = "consume", Approvals(log[i].item)' = {k}
               PROVE  uses'[log'[i].id] >= 1 \/ HasPassed(log[i].id)'
    BY DEF ConsumedThrough
  <2>1. i \in DOMAIN log /\ log'[i] = log[i] /\ Approvals(log[i].item) # {}
    BY <1>2 DEF AppliedInv, ConsumedKnown
  <2>2. Approvals(log[i].item) \subseteq {k} /\ Approvals(log[i].item) \subseteq DOMAIN log
    BY <1>1, <2>1 DEF Approvals
  <2>3. k \in DOMAIN log /\ Approvals(log[i].item) = {k}
    BY <2>1, <2>2
  <2>4. uses[log[i].id] >= 1 \/ HasPassed(log[i].id)
    BY <1>4, <2>1, <2>3 DEF AppliedInv, ConsumedThrough
  <2>5. QED
    BY <2>1, <2>4 DEF HasPassed
<1>5. QED
  BY <1>3, <1>4 DEF AppliedInv

(* A consumption, of an approval that was used or is about to be. *)
LEMMA ConsumptionApplied ==
  ASSUME GradeInv, AppliedInv, NEW r \in Record, log' = Append(log, r), r.type = "consume",
         Approvals(r.item) # {},
         \A k : Approvals(r.item) = {k} => uses[r.id] >= 1 \/ HasPassed(r.id)',
         UNCHANGED <<uses, crashed>>, gate.passed \subseteq gate'.passed,
         gate'.pc = "idle" => gate'.passed = {},
         cli'.pc = "consume" => cli' = cli
  PROVE  AppliedInv'
<1>1. /\ DOMAIN log' = DOMAIN log \cup {Len(log) + 1}
      /\ log'[Len(log) + 1] = r /\ \A i \in DOMAIN log : log'[i] = log[i]
      /\ \A c : Approvals(c)' = Approvals(c)
  BY OneMore, AfterAppend DEF GradeInv
<1>2. ConsumedKnown'
  BY <1>1 DEF AppliedInv, ConsumedKnown
<1>3. ASSUME ~crashed' PROVE ConsumedThrough'
  <2> SUFFICES ASSUME NEW i \in DOMAIN log', NEW k \in DOMAIN log',
                      log'[i].type = "consume", Approvals(log[i].item)' = {k}
               PROVE  uses'[log'[i].id] >= 1 \/ HasPassed(log[i].id)'
    BY DEF ConsumedThrough
  <2>1. CASE i = Len(log) + 1
    <3>1. log'[i] = r /\ Approvals(r.item) = {k}
      BY <1>1, <2>1
    <3>2. QED
      BY <3>1
  <2>2. CASE i \in DOMAIN log
    <3>1. log'[i] = log[i] /\ Approvals(log[i].item) = {k}
      BY <1>1, <2>2
    <3>2. k \in DOMAIN log
      BY <3>1 DEF Approvals
    <3>3. uses[log[i].id] >= 1 \/ HasPassed(log[i].id)
      BY <1>3, <2>2, <3>1, <3>2 DEF AppliedInv, ConsumedThrough
    <3>4. QED
      BY <3>1, <3>3 DEF HasPassed
  <2>3. QED
    BY <1>1, <2>1, <2>2
<1>4. QED
  BY <1>2, <1>3 DEF AppliedInv

(* What the gate consumes has passed under the id it found. *)
LEMMA GateConsumeApplied ==
  ASSUME GradeInv, AppliedInv, GateConsume
  PROVE  AppliedInv'
<1> DEFINE r == [type |-> "consume", id |-> ToConsume(gate.item), item |-> gate.item,
                 grade |-> "A"]
<1>1. /\ gate.pc = "consume" /\ log' = Append(log, r) /\ gate'.pc = "loop"
      /\ gate'.passed = gate.passed \cup {<<gate.item, gate.id>>}
      /\ UNCHANGED <<cli, uses, crashed>>
  BY DEF GateConsume, Append1, history, GradeInv, TypeOK
<1>2. PICK k \in Approvals(gate.item) : log[k].id = gate.id
  BY <1>1 DEF GradeInv, PassedGranted, Granted
<1>3. r \in Record
  BY <1>2, ToConsumeKnown DEF GradeInv, Record
<1>4. PICK rec \in Record : rec = r
  BY <1>3
<1>5. ASSUME NEW j, Approvals(rec.item) = {j} PROVE HasPassed(rec.id)'
  <2>1. rec.id = gate.id
    BY <1>2, <1>4, <1>5, ConsumesOnly DEF GradeInv
  <2>2. <<gate.item, gate.id>> \in gate'.passed
    BY <1>1
  <2>3. QED
    BY <2>1, <2>2 DEF HasPassed
<1>6. /\ log' = Append(log, rec) /\ rec.type = "consume" /\ Approvals(rec.item) # {}
      /\ gate.passed \subseteq gate'.passed /\ gate'.pc # "idle"
  BY <1>1, <1>2, <1>4
<1>7. QED
  BY <1>1, <1>5, <1>6, ConsumptionApplied

(* What the reviewer consumes was applied on the spot. *)
LEMMA CliConsumeApplied ==
  ASSUME GradeInv, AppliedInv, CliConsume
  PROVE  AppliedInv'
<1> DEFINE r == [type |-> "consume", id |-> ToConsume(cli.item), item |-> cli.item,
                 grade |-> "A"]
<1>1. /\ cli.pc = "consume" /\ log' = Append(log, r) /\ cli'.pc = "idle"
      /\ UNCHANGED <<gate, uses, crashed>>
  BY DEF CliConsume, Append1, history, CliIdle
<1>2. PICK k \in Approvals(cli.item) : log[k].id = cli.id
  BY <1>1 DEF GradeInv, ReviewerApproved
<1>3. r \in Record
  BY <1>2, ToConsumeKnown DEF GradeInv, Record
<1>4. ASSUME NEW j, Approvals(cli.item) = {j} PROVE uses[r.id] >= 1
  <2>1. r.id = cli.id
    BY <1>2, <1>4, ConsumesOnly DEF GradeInv
  <2>2. QED
    BY <1>1, <2>1 DEF AppliedInv
<1>5. gate'.pc = "idle" => gate'.passed = {}
  BY <1>1 DEF AppliedInv
<1>6. QED
  BY <1>1, <1>2, <1>3, <1>4, <1>5, ConsumptionApplied

(* apply_tuning leaves none of what passed unapplied. *)
LEMMA GateApplyApplied ==
  ASSUME GradeInv, AppliedInv, GateApply
  PROVE  AppliedInv'
<1>1. /\ gate'.passed = {} /\ UNCHANGED <<log, cli, crashed>>
  BY DEF GateApply, GateIdle, files
<1>2. \A id \in Ids : /\ uses'[id] = uses[id] + (IF HasPassed(id) THEN 1 ELSE 0)
                       /\ uses[id] \in Nat
  BY ThroughOnce DEF GateApply, Through, GradeInv, TypeOK
<1>3. \A c : Approvals(c)' = Approvals(c)
  BY <1>1 DEF Approvals
<1>4. \A i \in DOMAIN log : log[i].id \in Ids
  BY LogPositions DEF Record, GradeInv
<1>5. ConsumedKnown'
  BY <1>1, <1>3 DEF AppliedInv, ConsumedKnown
<1>6. ASSUME ~crashed' PROVE ConsumedThrough'
  <2> SUFFICES ASSUME NEW i \in DOMAIN log, NEW k \in DOMAIN log,
                      log[i].type = "consume", Approvals(log[i].item) = {k}
               PROVE  uses'[log[i].id] >= 1
    BY <1>1, <1>3 DEF ConsumedThrough
  <2>1. uses[log[i].id] >= 1 \/ HasPassed(log[i].id)
    BY <1>1, <1>6 DEF AppliedInv, ConsumedThrough
  <2>2. QED
    BY <1>2, <1>4, <2>1
<1>7. ASSUME cli'.pc = "consume" PROVE uses'[cli'.id] >= 1
  <2>1. cli.pc = "consume" /\ uses[cli.id] >= 1
    BY <1>1, <1>7 DEF AppliedInv
  <2>2. cli.id \in Ids
    BY <1>4, <2>1 DEF GradeInv, ReviewerApproved, Approvals
  <2>3. QED
    BY <1>1, <1>2, <2>1, <2>2
<1>8. QED
  BY <1>1, <1>5, <1>6, <1>7 DEF AppliedInv

(* The reviewer's apply uses the approval that it consumes next. *)
LEMMA CliApplyApplied ==
  ASSUME GradeInv, AppliedInv, CliApply
  PROVE  AppliedInv'
<1>1. /\ cli.pc = "apply" /\ uses' = [uses EXCEPT ![cli.id] = @ + 1]
      /\ cli'.pc = "consume" /\ cli'.id = cli.id /\ UNCHANGED <<log, gate, crashed>>
  BY DEF CliApply, files, GradeInv, TypeOK
<1>2. \A i \in DOMAIN log : log[i].id \in Ids
  BY LogPositions DEF Record, GradeInv
<1>3. cli.id \in Ids
  BY <1>1, <1>2 DEF GradeInv, ReviewerApproved, Approvals
<1>4. uses'[cli.id] >= 1 /\ \A id \in Ids : uses[id] >= 1 => uses'[id] >= 1
  <2>1. uses \in [Ids -> Nat]
    BY DEF GradeInv, TypeOK
  <2>2. QED
    BY <1>1, <1>3, <2>1
<1>5. \A c : Approvals(c)' = Approvals(c)
  BY <1>1 DEF Approvals
<1>6. ConsumedKnown'
  BY <1>1, <1>5 DEF AppliedInv, ConsumedKnown
<1>7. ASSUME ~crashed' PROVE ConsumedThrough'
  <2> SUFFICES ASSUME NEW i \in DOMAIN log, NEW k \in DOMAIN log,
                      log[i].type = "consume", Approvals(log[i].item) = {k}
               PROVE  uses'[log[i].id] >= 1 \/ HasPassed(log[i].id)'
    BY <1>1, <1>5 DEF ConsumedThrough
  <2>1. uses[log[i].id] >= 1 \/ HasPassed(log[i].id)
    BY <1>1, <1>7 DEF AppliedInv, ConsumedThrough
  <2>2. HasPassed(log[i].id)' <=> HasPassed(log[i].id)
    BY <1>1 DEF HasPassed
  <2>3. QED
    BY <1>2, <1>4, <2>1, <2>2
<1>8. QED
  BY <1>1, <1>4, <1>6, <1>7 DEF AppliedInv

(* The other steps of the gate consume and apply nothing. *)
LEMMA GateQuietApplied ==
  ASSUME GradeInv, AppliedInv,
         \/ \E changes \in SUBSET Item : changes # {} /\ GateStart(changes)
         \/ \E c \in Item : GateCooled(c) \/ GateUngraded(c) \/ GateBlocked(c) \/ GatePassed(c)
         \/ MarkLoad \/ MarkSave \/ Crash
  PROVE  AppliedInv'
<1>1. gate \in GateStates
  BY DEF GradeInv, TypeOK, GateStates
<1>2. UNCHANGED <<log, uses, cli>>
  BY DEF GateStart, GateCooled, GateUngraded, GateBlocked, GatePassed, MarkLoad, MarkSave,
         Crash, files, history
<1>3. CASE \E changes \in SUBSET Item : changes # {} /\ GateStart(changes)
  <2>1. PICK changes : gate' = [GateIdle EXCEPT !.pc = "loop", !.todo = changes]
    BY <1>3 DEF GateStart
  <2>2. gate'.pc = "loop"
    BY <2>1 DEF GateIdle
  <2>3. gate.passed = {} /\ crashed' = crashed
    BY <1>3 DEF GateStart, AppliedInv
  <2>4. QED
    BY <1>2, <2>2, <2>3, NothingRecorded
<1>4. CASE Crash
  <2>1. crashed' = TRUE /\ gate'.passed = {}
    BY <1>4 DEF Crash, GateIdle
  <2>2. QED
    BY <1>2, <2>1, NothingRecorded
<1>5. CASE \/ \E c \in Item : GateCooled(c) \/ GateUngraded(c) \/ GateBlocked(c) \/ GatePassed(c)
           \/ MarkLoad \/ MarkSave
  <2>1. gate'.passed = gate.passed /\ gate'.pc # "idle"
    BY <1>1, <1>5 DEF GateCooled, GateUngraded, GateBlocked, GatePassed, MarkLoad, MarkSave,
                      GateStates
  <2>2. crashed' = crashed
    BY <1>5 DEF GateCooled, GateUngraded, GateBlocked, GatePassed, MarkLoad, MarkSave, history
  <2>3. QED
    BY <1>2, <2>1, <2>2, NothingRecorded
<1>6. QED
  BY <1>3, <1>4, <1>5

(* Nor do those of the reviewer and of time. *)
LEMMA CliQuietApplied ==
  ASSUME GradeInv, AppliedInv,
         \/ \E c \in Item, grade \in {"A", "B"}, next \in {"idle", "apply", "clear"} :
              CliApprove(c, grade, next)
         \/ \E c \in Item, next \in {"idle", "clear"} : CliReject(c, next)
         \/ ClearLoad \/ ClearSave \/ CliActivate
         \/ (\E id \in Ids : TokenExpires(id)) \/ (\E t \in Target : CooldownEnds(t))
  PROVE  AppliedInv'
<1>1. cli \in CliStates /\ MaxDecisions \in Nat /\ Decisions \in Nat
  BY GateBounds, LogPositions DEF GradeInv, TypeOK, CliStates
<1>2. Decisions < MaxDecisions => Decisions + 1 \in Ids
  BY <1>1 DEF Ids
<1>3. ASSUME NEW c \in Item, NEW grade \in {"A", "B"}, NEW next \in {"idle", "apply", "clear"},
             CliApprove(c, grade, next)
      PROVE  AppliedInv'
  <2> DEFINE r == [type |-> "approve", id |-> Decisions + 1, item |-> c, grade |-> grade]
  <2>1. r \in Record /\ log' = Append(log, r) /\ UNCHANGED <<gate, uses, crashed>>
    BY <1>2, <1>3 DEF CliApprove, Append1, Record, history
  <2>2. cli'.pc # "consume"
    BY <1>1, <1>3 DEF CliApprove, CliIdle, CliStates
  <2>3. QED
    BY <2>1, <2>2, DecisionApplied
<1>4. ASSUME NEW c \in Item, NEW next \in {"idle", "clear"}, CliReject(c, next)
      PROVE  AppliedInv'
  <2> DEFINE r == [type |-> "reject", id |-> Decisions + 1, item |-> c, grade |-> "B"]
  <2>1. r \in Record /\ log' = Append(log, r) /\ UNCHANGED <<gate, uses, crashed>>
    BY <1>2, <1>4 DEF CliReject, Append1, Record, history
  <2>2. cli'.pc # "consume"
    BY <1>1, <1>4 DEF CliReject, CliIdle, CliStates
  <2>3. QED
    BY <2>1, <2>2, DecisionApplied
<1>5. CASE \/ ClearLoad \/ ClearSave \/ CliActivate
           \/ (\E id \in Ids : TokenExpires(id)) \/ (\E t \in Target : CooldownEnds(t))
  <2>1. UNCHANGED <<log, uses, gate, crashed>>
    BY <1>5 DEF ClearLoad, ClearSave, CliActivate, TokenExpires, CooldownEnds, files, history
  <2>2. CASE ClearLoad \/ ClearSave
    <3>1. cli'.pc # "consume"
      <4>1. CASE ClearLoad
        <5>1. cli'.pc = "cleared"
          BY <1>1, <4>1 DEF ClearLoad, CliStates
        <5>2. QED
          BY <5>1
      <4>2. CASE ClearSave
        BY <4>2 DEF ClearSave, CliIdle
      <4>3. QED
        BY <2>2, <4>1, <4>2
    <3>2. QED
      BY <2>1, <3>1, NothingRecorded DEF AppliedInv
  <2>3. CASE ~ClearLoad /\ ~ClearSave
    <3>1. cli' = cli
      BY <1>5, <2>3 DEF CliActivate, TokenExpires, CooldownEnds
    <3>2. QED
      BY <2>1, <3>1, NothingRecorded DEF AppliedInv
  <2>4. QED
    BY <2>2, <2>3
<1>6. QED
  BY <1>3, <1>4, <1>5

(* Every step keeps AppliedInv. *)
LEMMA StepApplied == GradeInv /\ AppliedInv /\ [Next]_vars => AppliedInv'
<1> SUFFICES ASSUME GradeInv, AppliedInv, [Next]_vars PROVE AppliedInv'
  OBVIOUS
<1>1. CASE GateNext
  BY <1>1, GateConsumeApplied, GateApplyApplied, GateQuietApplied DEF GateNext
<1>2. CASE CliNext
  BY <1>2, CliApplyApplied, CliConsumeApplied, CliQuietApplied DEF CliNext
<1>3. CASE UNCHANGED vars
  <2>1. UNCHANGED <<log, uses, gate, cli, crashed>>
    BY <1>3 DEF vars, files, history
  <2>2. QED
    BY <2>1, NothingRecorded DEF AppliedInv
<1>4. QED
  BY <1>1, <1>2, <1>3, CliQuietApplied DEF Next

-----------------------------------------------------------------------------
(* TypeOK, of any instance. *)
THEOREM TypeCorrect == Spec => []TypeOK
<1>1. GradeInv => TypeOK
  BY DEF GradeInv
<1>2. QED
  BY InitHolds, StepKeeps, <1>1, PTL DEF Spec

(* AppliedWereApproved, of any instance: the gate applies nothing on a lesser *)
(* approval, whatever else is decided and whenever the learner dies.          *)
THEOREM GradesHeld == Spec => []AppliedWereApproved
<1>1. GradeInv => AppliedWereApproved
  BY DEF GradeInv
<1>2. QED
  BY InitHolds, StepKeeps, <1>1, PTL DEF Spec

(* PlainTokenOnce, of any instance: an item's only approval lets one change *)
(* through, once, unless a reviewer applies the item on the spot.           *)
THEOREM TokensOnce == Spec => []PlainTokenOnce
<1>1. GradeInv /\ OnceInv => PlainTokenOnce
  <2> SUFFICES ASSUME GradeInv, OnceInv, NEW id \in PlainTokens PROVE uses[id] <= 1
    BY DEF PlainTokenOnce
  <2>1. PICK i \in DOMAIN log : /\ log[i].type = "approve" /\ log[i].item \notin direct
                                /\ Cardinality(Approvals(log[i].item)) = 1 /\ log[i].id = id
    BY DEF PlainTokens
  <2>2. IsFiniteSet(Approvals(log[i].item)) /\ i \in Approvals(log[i].item)
    <3>1. Approvals(log[i].item) \subseteq Decided /\ IsFiniteSet(Decided)
      BY LogPositions DEF Approvals, Decided, GradeInv
    <3>2. QED
      BY <2>1, <3>1, FS_Subset DEF Approvals
  <2>3. Approvals(log[i].item) = {i}
    BY <2>1, <2>2, FS_Singleton
  <2>4. Plain(i)
    BY <2>1, <2>3 DEF Plain
  <2>5. QED
    BY <2>1, <2>4 DEF OnceInv, PlainOnce
<1>2. QED
  BY InitHolds, StepKeeps, <1>1, PTL DEF Spec

(* ConsumedWasApplied, of any instance: what an item's only approval is marked *)
(* as consumed for did get through, unless the learner died in between.        *)
THEOREM ConsumedApplied == Spec => []ConsumedWasApplied
<1>1. Init => AppliedInv
  BY DEF Init, AppliedInv, ConsumedKnown, ConsumedThrough, GateIdle, CliIdle
<1>2. GradeInv /\ AppliedInv => ConsumedWasApplied
  <2> SUFFICES ASSUME GradeInv, AppliedInv, gate.pc = "idle", ~crashed,
                      NEW i \in DOMAIN log, log[i].type = "consume",
                      Cardinality(Approvals(log[i].item)) = 1
               PROVE  uses[log[i].id] >= 1
    BY DEF ConsumedWasApplied
  <2>1. Approvals(log[i].item) # {}
    BY DEF AppliedInv, ConsumedKnown
  <2>2. PICK k : k \in Approvals(log[i].item)
    BY <2>1
  <2>3. IsFiniteSet(Approvals(log[i].item))
    <3>1. Approvals(log[i].item) \subseteq Decided /\ IsFiniteSet(Decided)
      BY LogPositions DEF Approvals, Decided, GradeInv
    <3>2. QED
      BY <3>1, FS_Subset
  <2>4. Approvals(log[i].item) = {k} /\ k \in DOMAIN log
    BY <2>2, <2>3, FS_Singleton DEF Approvals
  <2>5. ~HasPassed(log[i].id)
    BY DEF AppliedInv, HasPassed
  <2>6. QED
    BY <2>4, <2>5 DEF AppliedInv, ConsumedThrough
<1>3. QED
  BY InitHolds, StepKeeps, StepApplied, <1>1, <1>2, PTL DEF Spec

=============================================================================
