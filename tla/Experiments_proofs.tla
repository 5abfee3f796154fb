------------------------- MODULE Experiments_proofs -------------------------
(***************************************************************************)
(* One experiment at a time, its cooldown, and the cap that its log tells, *)
(* for every range of caps and rates and for any number of days, restarts  *)
(* and reviewers' commands.                                                *)
(*                                                                         *)
(* The log alternates: an experiment opens under its own position, and is  *)
(* closed by the record after it.  So the only one that can be open is the *)
(* last.  What is about to be appended already fits; no record is appended *)
(* between the change of the cap and its record, since the learner's       *)
(* thread does both and a restart forgets the second.                      *)
(***************************************************************************)
EXTENDS Experiments, FiniteSetTheorems, TLAPS

Alternates ==
  \A i \in DOMAIN log :
    \/ /\ log[i].type = "open" /\ log[i].id = i
       /\ i + 1 \in DOMAIN log => log[i + 1].type # "open"
    \/ /\ log[i].type # "open" /\ log[i].id = i - 1
       /\ i - 1 \in DOMAIN log /\ log[i - 1].type = "open"

LastOpen == log # <<>> /\ log[Len(log)].type = "open"

\* What becomes of the log with the record that is under way.
DraftFits ==
  pc = "set" =>
    /\ draft.at = now
    /\ \/ /\ draft.type = "open" /\ draft.id = Len(log) + 1
          /\ ~LastOpen
          /\ \A i \in Closed : now - log[i].at >= 2
       \/ /\ draft.type = "revert" /\ draft.id = Len(log)
          /\ LastOpen
          /\ now - log[Len(log)].at >= 1

Past == \A i \in DOMAIN log : log[i].at <= now

ExpInv == TypeOK /\ Alternates /\ DraftFits /\ Past /\ CooldownKept

\* The cap in memory, between the first load and the first restart.
CapInv ==
  restarts = 0 =>
    /\ ~mem.loaded => log = <<>> /\ pc = "idle" /\ mem.cap = Absent
    /\ mem.loaded /\ pc # "set" => CurrentCap(mem) = LoggedCap
    /\ pc = "set" => CurrentCap(mem) = IF draft.type = "revert" THEN draft.old
                                       ELSE draft.new

-----------------------------------------------------------------------------
(* A cap that is set is a cap, and the next one lies in the range too. *)
LEMMA CapsRange ==
  ASSUME TypeOK
  PROVE  /\ CurrentCap(mem) \in Cap
         /\ Stepped \in Cap
         /\ Absent \notin Cap
  BY CapAssumption DEF TypeOK, CurrentCap, Stepped, Cap, Absent

(* In a log that alternates only the last experiment can be open. *)
LEMMA OpenIsLast ==
  ASSUME TypeOK, Alternates
  PROVE  Open = IF LastOpen THEN {Len(log)} ELSE {}
<1>1. \A i \in DOMAIN log : i \in Nat /\ 1 <= i /\ i <= Len(log)
  BY DEF TypeOK
<1>2. Len(log) \in Nat /\ DOMAIN log = 1 .. Len(log)
  BY DEF TypeOK
<1>3. \A i \in Open : i = Len(log) /\ LastOpen
  <2> SUFFICES ASSUME NEW i \in Open PROVE i = Len(log) /\ LastOpen
    OBVIOUS
  <2>1. i \in DOMAIN log /\ log[i].type = "open" /\ log[i].id = i
    BY DEF Open, Opened, Alternates
  <2>2. i + 1 \notin DOMAIN log
    <3> SUFFICES ASSUME i + 1 \in DOMAIN log PROVE FALSE
      OBVIOUS
    <3>1. log[i + 1].type # "open"
      BY <2>1 DEF Alternates
    <3>2. log[i + 1].id = i /\ i + 1 \in Closed
      BY <1>1, <2>1, <3>1 DEF Alternates, Closed, Opened
    <3>3. QED
      BY <2>1, <3>2 DEF Open, ClosedIds
  <2>3. i = Len(log)
    BY <1>1, <1>2, <2>1, <2>2
  <2>4. QED
    BY <2>1, <2>3 DEF LastOpen
<1>4. LastOpen => Len(log) \in Open
  <2> SUFFICES ASSUME LastOpen PROVE Len(log) \in Open
    OBVIOUS
  <2>1. Len(log) \in DOMAIN log /\ log[Len(log)].type = "open" /\ log[Len(log)].id = Len(log)
    BY <1>2 DEF LastOpen, TypeOK, Alternates
  <2>2. ASSUME NEW j \in Closed, log[j].id = Len(log) PROVE FALSE
    BY <1>1, <1>2, <2>2 DEF Closed, Opened, Alternates
  <2>3. QED
    BY <2>1, <2>2 DEF Open, Opened, ClosedIds
<1>5. QED
  BY <1>3, <1>4

(* The experiment that counts is the last record. *)
LEMMA ActiveIsLast ==
  ASSUME TypeOK, Alternates, Open # {}
  PROVE  /\ LastOpen /\ Active = log[Len(log)]
         /\ Len(log) \in DOMAIN log /\ Active \in Record
         /\ Active.type = "open" /\ Active.id = Len(log)
<1>1. LastOpen /\ Open = {Len(log)} /\ Len(log) \in Nat
  BY OpenIsLast DEF TypeOK
<1>2. Active = log[Len(log)]
  BY <1>1 DEF Active
<1>3. Len(log) \in DOMAIN log
  BY <1>1 DEF LastOpen, TypeOK
<1>4. Active \in Record
  BY <1>2, <1>3 DEF TypeOK
<1>5. QED
  BY <1>1, <1>2, <1>3, <1>4 DEF LastOpen, Alternates

-----------------------------------------------------------------------------
(* Initially the log is empty and nothing is under way. *)
LEMMA InitInv == Init => ExpInv /\ CapInv
<1> SUFFICES ASSUME Init PROVE ExpInv /\ CapInv
  OBVIOUS
<1>1. TypeOK
  BY CapAssumption, ExperimentBounds
     DEF Init, TypeOK, Params, Level, Cap, Unloaded, Absent, Record
<1>2. Alternates /\ DraftFits /\ Past /\ CooldownKept
  BY DEF Init, Alternates, DraftFits, Past, CooldownKept
<1>3. CapInv
  BY DEF Init, CapInv, Unloaded
<1>4. QED
  BY <1>1, <1>2, <1>3 DEF ExpInv

(* A closing record appended to a log whose last experiment is open. *)
LEMMA CloseKeeps ==
  ASSUME ExpInv, LastOpen, NEW r \in Record,
         r.type # "open", r.id = Len(log), r.at = now, now - log[Len(log)].at >= 1,
         log' = Append(log, r), now' = now
  PROVE  Alternates' /\ Past' /\ CooldownKept'
<1>1. Len(log) \in Nat /\ DOMAIN log = 1 .. Len(log) /\ log \in Seq(Record) /\ now \in Nat
  BY ExperimentBounds DEF ExpInv, TypeOK
<1>2. /\ Len(log') = Len(log) + 1 /\ DOMAIN log' = 1 .. Len(log) + 1
      /\ log'[Len(log) + 1] = r
      /\ \A i \in DOMAIN log : log'[i] = log[i]
  BY <1>1
<1>3. Len(log) \in DOMAIN log /\ log[Len(log)].type = "open"
  BY <1>1 DEF LastOpen
<1>4. Alternates'
  <2> SUFFICES ASSUME NEW i \in DOMAIN log'
               PROVE  \/ /\ log'[i].type = "open" /\ log'[i].id = i
                         /\ i + 1 \in DOMAIN log' => log'[i + 1].type # "open"
                      \/ /\ log'[i].type # "open" /\ log'[i].id = i - 1
                         /\ i - 1 \in DOMAIN log' /\ log'[i - 1].type = "open"
    BY DEF Alternates
  <2>1. CASE i = Len(log) + 1
    BY <1>1, <1>2, <1>3, <2>1
  <2>2. CASE i \in DOMAIN log
    <3>1. log'[i] = log[i] /\ i \in Int /\ i <= Len(log)
      BY <1>1, <1>2, <2>2
    <3>2. CASE log[i].type = "open"
      <4>1. log[i].id = i /\ (i + 1 \in DOMAIN log => log[i + 1].type # "open")
        BY <2>2, <3>2 DEF ExpInv, Alternates
      <4>2. i + 1 \in DOMAIN log' => log'[i + 1].type # "open"
        BY <1>1, <1>2, <3>1, <4>1
      <4>3. QED
        BY <3>1, <3>2, <4>1, <4>2
    <3>3. CASE log[i].type # "open"
      <4>1. log[i].id = i - 1 /\ i - 1 \in DOMAIN log /\ log[i - 1].type = "open"
        BY <2>2, <3>3 DEF ExpInv, Alternates
      <4>2. i - 1 \in DOMAIN log' /\ log'[i - 1] = log[i - 1]
        BY <1>1, <1>2, <4>1
      <4>3. QED
        BY <3>1, <3>3, <4>1, <4>2
    <3>4. QED
      BY <3>2, <3>3
  <2>3. QED
    BY <1>1, <1>2, <2>1, <2>2
<1>5. Past'
  <2>1. \A i \in DOMAIN log : log'[i].at <= now'
    BY <1>2 DEF ExpInv, Past
  <2>2. log'[Len(log) + 1].at <= now'
    BY <1>1, <1>2
  <2>3. QED
    BY <1>1, <1>2, <2>1, <2>2 DEF Past
<1>6. CooldownKept'
  <2> SUFFICES ASSUME NEW i \in DOMAIN log', NEW j \in DOMAIN log', i < j
               PROVE  /\ log'[i].type # "open" /\ log'[j].type = "open"
                           => log'[j].at - log'[i].at >= 2
                      /\ log'[i].type = "open" /\ log'[j].type # "open"
                           /\ log'[i].id = log'[j].id => log'[j].at - log'[i].at >= 1
    BY DEF CooldownKept
  <2>1. CASE j \in DOMAIN log
    <3>1. i \in DOMAIN log
      BY <1>1, <1>2, <2>1
    <3>2. log'[i] = log[i] /\ log'[j] = log[j]
      BY <1>2, <2>1, <3>1
    <3>3. QED
      BY <2>1, <3>1, <3>2 DEF ExpInv, CooldownKept
  <2>2. CASE j = Len(log) + 1
    <3>1. i \in DOMAIN log
      BY <1>1, <1>2, <2>2
    <3>2. log[i].type = "open" => log[i].id = i
      BY <1>1, <3>1 DEF ExpInv, Alternates
    <3>3. QED
      BY <1>1, <1>2, <1>3, <2>2, <3>1, <3>2
  <2>3. QED
    BY <1>1, <1>2, <2>1, <2>2
<1>7. QED
  BY <1>4, <1>5, <1>6

(* An opening record appended where none is open and the knob has cooled. *)
LEMMA OpenKeeps ==
  ASSUME ExpInv, ~LastOpen, NEW r \in Record,
         r.type = "open", r.id = Len(log) + 1, r.at = now,
         \A i \in Closed : now - log[i].at >= 2,
         log' = Append(log, r), now' = now
  PROVE  Alternates' /\ Past' /\ CooldownKept'
<1>1. Len(log) \in Nat /\ DOMAIN log = 1 .. Len(log) /\ log \in Seq(Record) /\ now \in Nat
  BY ExperimentBounds DEF ExpInv, TypeOK
<1>2. /\ Len(log') = Len(log) + 1 /\ DOMAIN log' = 1 .. Len(log) + 1
      /\ log'[Len(log) + 1] = r
      /\ \A i \in DOMAIN log : log'[i] = log[i]
  BY <1>1
<1>3. Len(log) \in DOMAIN log => log[Len(log)].type # "open"
  BY <1>1 DEF LastOpen
<1>4. Alternates'
  <2> SUFFICES ASSUME NEW i \in DOMAIN log'
               PROVE  \/ /\ log'[i].type = "open" /\ log'[i].id = i
                         /\ i + 1 \in DOMAIN log' => log'[i + 1].type # "open"
                      \/ /\ log'[i].type # "open" /\ log'[i].id = i - 1
                         /\ i - 1 \in DOMAIN log' /\ log'[i - 1].type = "open"
    BY DEF Alternates
  <2>1. CASE i = Len(log) + 1
    <3>1. log'[i] = r /\ i + 1 \notin DOMAIN log'
      BY <1>1, <1>2, <2>1
    <3>2. QED
      BY <2>1, <3>1
  <2>2. CASE i \in DOMAIN log
    <3>1. log'[i] = log[i] /\ i \in Int /\ i <= Len(log)
      BY <1>1, <1>2, <2>2
    <3>2. CASE log[i].type = "open"
      <4>1. log[i].id = i /\ (i + 1 \in DOMAIN log => log[i + 1].type # "open")
        BY <2>2, <3>2 DEF ExpInv, Alternates
      <4>2. i + 1 \in DOMAIN log' => log'[i + 1].type # "open"
        BY <1>1, <1>2, <3>1, <4>1, <1>3, <2>2, <3>2
      <4>3. QED
        BY <3>1, <3>2, <4>1, <4>2
    <3>3. CASE log[i].type # "open"
      <4>1. log[i].id = i - 1 /\ i - 1 \in DOMAIN log /\ log[i - 1].type = "open"
        BY <2>2, <3>3 DEF ExpInv, Alternates
      <4>2. i - 1 \in DOMAIN log' /\ log'[i - 1] = log[i - 1]
        BY <1>1, <1>2, <4>1
      <4>3. QED
        BY <3>1, <3>3, <4>1, <4>2
    <3>4. QED
      BY <3>2, <3>3
  <2>3. QED
    BY <1>1, <1>2, <2>1, <2>2
<1>5. Past'
  <2>1. \A i \in DOMAIN log : log'[i].at <= now'
    BY <1>2 DEF ExpInv, Past
  <2>2. log'[Len(log) + 1].at <= now'
    BY <1>1, <1>2
  <2>3. QED
    BY <1>1, <1>2, <2>1, <2>2 DEF Past
<1>6. CooldownKept'
  <2> SUFFICES ASSUME NEW i \in DOMAIN log', NEW j \in DOMAIN log', i < j
               PROVE  /\ log'[i].type # "open" /\ log'[j].type = "open"
                           => log'[j].at - log'[i].at >= 2
                      /\ log'[i].type = "open" /\ log'[j].type # "open"
                           /\ log'[i].id = log'[j].id => log'[j].at - log'[i].at >= 1
    BY DEF CooldownKept
  <2>1. CASE j \in DOMAIN log
    <3>1. i \in DOMAIN log
      BY <1>1, <1>2, <2>1
    <3>2. log'[i] = log[i] /\ log'[j] = log[j]
      BY <1>2, <2>1, <3>1
    <3>3. QED
      BY <2>1, <3>1, <3>2 DEF ExpInv, CooldownKept
  <2>2. CASE j = Len(log) + 1
    <3>1. i \in DOMAIN log
      BY <1>1, <1>2, <2>2
    <3>2. log[i].type # "open" => i \in Closed
      BY <3>1 DEF Closed, Opened
    <3>3. QED
      BY <1>1, <1>2, <2>2, <3>1, <3>2
  <2>3. QED
    BY <1>1, <1>2, <2>1, <2>2
<1>7. QED
  BY <1>4, <1>5, <1>6

(* What the log's invariants say depends on the log and the time only. *)
LEMMA LogUnchanged ==
  ASSUME ExpInv, TypeOK', DraftFits', UNCHANGED <<log, now>>
  PROVE  ExpInv'
<1>1. Alternates'
  BY DEF ExpInv, Alternates
<1>2. Past'
  BY DEF ExpInv, Past
<1>3. CooldownKept'
  BY DEF ExpInv, CooldownKept
<1>4. QED
  BY <1>1, <1>2, <1>3 DEF ExpInv

(* An experiment that is kept is closed by its record at once. *)
LEMMA KeepKeeps ==
  ASSUME ExpInv, CapInv, NEW after, TickKeep(after)
  PROVE  ExpInv' /\ CapInv'
<1> DEFINE r == [Active EXCEPT !.type = "keep", !.at = now]
<1>1. /\ pc = "idle" /\ mem.loaded /\ Open # {} /\ now >= Active.at + TtlUnits
      /\ log' = Append(log, r) /\ UNCHANGED <<data, pc, draft, tool, now, bounds>>
  BY DEF TickKeep, LearnerIdle
<1>2. /\ LastOpen /\ Active = log[Len(log)] /\ Len(log) \in DOMAIN log
      /\ Active \in Record /\ Active.type = "open" /\ Active.id = Len(log)
  BY <1>1, ActiveIsLast DEF ExpInv
<1>3. now \in Nat /\ log \in Seq(Record)
  BY ExperimentBounds DEF ExpInv, TypeOK
<1>4. /\ r \in Record /\ r.type = "keep" /\ r.id = Active.id /\ r.at = now
      /\ r.new = Active.new
  BY <1>2, <1>3 DEF Record
<1>5. now - log[Len(log)].at >= 1
  BY <1>1, <1>2, <1>3 DEF TtlUnits, Record
<1>6. Alternates' /\ Past' /\ CooldownKept'
  BY <1>1, <1>2, <1>4, <1>5, CloseKeeps
<1>7. TypeOK'
  <2>1. log' \in Seq(Record)
    BY <1>1, <1>3, <1>4
  <2>2. QED
    BY <1>1, <2>1 DEF ExpInv, TypeOK, data, bounds
<1>8. DraftFits'
  BY <1>1 DEF DraftFits
<1>9. CapInv'
  <2>1. log' # <<>> /\ log'[Len(log')] = r /\ log # <<>>
    BY <1>1, <1>2, <1>3
  <2>2. LoggedCap' = Active.new /\ LoggedCap = Active.new
    BY <1>2, <1>4, <2>1 DEF LoggedCap
  <2>3. CurrentCap(mem)' = CurrentCap(mem)
    BY <1>1 DEF CurrentCap, data
  <2>4. QED
    BY <1>1, <2>2, <2>3 DEF CapInv, data, bounds
<1>10. QED
  BY <1>6, <1>7, <1>8, <1>9 DEF ExpInv

(* A revert puts the old cap back before its record is there. *)
LEMMA RevertKeeps ==
  ASSUME ExpInv, CapInv, NEW after, TickRevert(after)
  PROVE  ExpInv' /\ CapInv'
<1> DEFINE r == [Active EXCEPT !.type = "revert", !.at = now]
<1>1. /\ pc = "idle" /\ mem.loaded /\ Open # {} /\ now >= Active.at + TtlUnits
      /\ SetCap(Active.old) /\ pc' = "set" /\ draft' = r
      /\ UNCHANGED <<tool, log, now, bounds>>
  BY DEF TickRevert, LearnerIdle
<1>2. /\ LastOpen /\ Active = log[Len(log)] /\ Len(log) \in DOMAIN log
      /\ Active \in Record /\ Active.type = "open" /\ Active.id = Len(log)
  BY <1>1, ActiveIsLast DEF ExpInv
<1>3. now \in Nat /\ log \in Seq(Record)
  BY ExperimentBounds DEF ExpInv, TypeOK
<1>4. /\ r \in Record /\ r.type = "revert" /\ r.id = Active.id /\ r.at = now
      /\ r.old = Active.old
  BY <1>2, <1>3 DEF Record
<1>5. now - log[Len(log)].at >= 1
  BY <1>1, <1>2, <1>3 DEF TtlUnits, Record
<1>6. /\ mem' \in [evolve : Level, cap : Cap \cup {Absent}, loaded : BOOLEAN]
      /\ mem'.cap = Active.old /\ mem'.loaded /\ file' \in Params /\ Active.old \in Cap
  BY <1>1, <1>2 DEF SetCap, ExpInv, TypeOK, Params, Record
<1>7. TypeOK'
  BY <1>1, <1>4, <1>6 DEF ExpInv, TypeOK, bounds
<1>8. DraftFits'
  <2>1. LastOpen' /\ Len(log') = Len(log) /\ now' - log'[Len(log')].at >= 1
    BY <1>1, <1>2, <1>5 DEF LastOpen
  <2>2. QED
    BY <1>1, <1>2, <1>4, <2>1 DEF DraftFits
<1>9. CapInv'
  <2>1. CurrentCap(mem)' = Active.old
    BY <1>6, CapsRange DEF CurrentCap, ExpInv
  <2>2. QED
    BY <1>1, <1>4, <1>6, <2>1 DEF CapInv
<1>10. QED
  BY <1>1, <1>7, <1>8, <1>9, LogUnchanged

(* An experiment opens with the next cap, before its record is there. *)
LEMMA OpeningKeeps ==
  ASSUME ExpInv, CapInv, NEW base \in Rate \cup {NoRate}, TickOpen(base)
  PROVE  ExpInv' /\ CapInv'
<1> DEFINE r == [type |-> "open", id |-> Len(log) + 1, old |-> CurrentCap(mem),
                 new |-> Stepped, base |-> base, at |-> now]
<1>1. /\ pc = "idle" /\ mem.loaded /\ Open = {} /\ CooldownOk
      /\ SetCap(Stepped) /\ pc' = "set" /\ draft' = r
      /\ UNCHANGED <<tool, log, now, bounds>>
  BY DEF TickOpen, LearnerIdle
<1>2. now \in Nat /\ log \in Seq(Record) /\ Len(log) \in Nat
  BY ExperimentBounds DEF ExpInv, TypeOK
<1>3. CurrentCap(mem) \in Cap /\ Stepped \in Cap /\ Absent \notin Cap
  BY CapsRange DEF ExpInv
<1>4. r \in Record
  BY <1>2, <1>3 DEF Record
<1>5. /\ mem' \in [evolve : Level, cap : Cap \cup {Absent}, loaded : BOOLEAN]
      /\ mem'.cap = Stepped /\ mem'.loaded /\ file' \in Params
  BY <1>1, <1>3 DEF SetCap, ExpInv, TypeOK, Params
<1>6. TypeOK'
  BY <1>1, <1>4, <1>5 DEF ExpInv, TypeOK, bounds
<1>7. DraftFits'
  <2>1. ~LastOpen
    BY <1>1, OpenIsLast DEF ExpInv
  <2>2. \A i \in Closed : now - log[i].at >= 2
    BY <1>1 DEF CooldownOk, CooldownUnits
  <2>3. /\ ~LastOpen' /\ Closed' = Closed /\ now' = now
        /\ \A i \in Closed : log'[i].at = log[i].at
    BY <1>1, <2>1 DEF LastOpen, Closed, Opened
  <2>4. QED
    BY <1>1, <2>2, <2>3 DEF DraftFits
<1>8. CapInv'
  <2>1. CurrentCap(mem)' = Stepped
    BY <1>3, <1>5 DEF CurrentCap
  <2>2. QED
    BY <1>1, <1>5, <2>1 DEF CapInv
<1>9. QED
  BY <1>1, <1>6, <1>7, <1>8, LogUnchanged

(* The record of a change follows. *)
LEMMA AppendKeeps ==
  ASSUME ExpInv, CapInv, AppendRecord
  PROVE  ExpInv' /\ CapInv'
<1>1. /\ pc = "set" /\ log' = Append(log, draft) /\ pc' = "idle" /\ draft' = NoDraft
      /\ UNCHANGED <<data, tool, now, bounds>>
  BY DEF AppendRecord
<1>2. draft \in Record /\ log \in Seq(Record)
  BY <1>1 DEF ExpInv, TypeOK
<1>3. Alternates' /\ Past' /\ CooldownKept'
  <2>1. CASE draft.type = "open"
    BY <1>1, <1>2, <2>1, OpenKeeps DEF ExpInv, DraftFits
  <2>2. CASE draft.type = "revert"
    BY <1>1, <1>2, <2>2, CloseKeeps DEF ExpInv, DraftFits
  <2>3. QED
    BY <1>1, <2>1, <2>2 DEF ExpInv, DraftFits
<1>4. TypeOK'
  <2>1. log' \in Seq(Record)
    BY <1>1, <1>2
  <2>2. QED
    BY <1>1, <2>1 DEF ExpInv, TypeOK, data, bounds
<1>5. DraftFits'
  BY <1>1 DEF DraftFits
<1>6. CapInv'
  <2>1. log' # <<>> /\ log'[Len(log')] = draft
    BY <1>1, <1>2
  <2>2. LoggedCap' = IF draft.type = "revert" THEN draft.old ELSE draft.new
    BY <2>1 DEF LoggedCap
  <2>3. restarts = 0 => mem.loaded
    BY <1>1 DEF CapInv, ExpInv, TypeOK
  <2>4. CurrentCap(mem)' = CurrentCap(mem) /\ mem' = mem /\ restarts' = restarts
    BY <1>1 DEF CurrentCap, data, bounds
  <2>5. QED
    BY <1>1, <2>2, <2>3, <2>4 DEF CapInv
<1>7. QED
  BY <1>3, <1>4, <1>5, <1>6 DEF ExpInv

(* No other writer of the file reaches the log or the singleton's cap. *)
LEMMA OthersKeep ==
  ASSUME ExpInv, CapInv,
         \/ LoadSingleton \/ TuneLoad \/ TuneApply \/ TuneApplyOther \/ TuneBlocked
         \/ MetaReview \/ ToolLoad \/ (\E evolve \in Level : ToolApply(evolve))
         \/ ToolApplyOther
  PROVE  ExpInv' /\ CapInv'
<1>1. TypeOK
  BY DEF ExpInv
<1>2. Ceiling \in Nat /\ Loaded \in Params
  BY <1>1, ExperimentBounds DEF TypeOK, Loaded, Params
<1>3. CASE LoadSingleton
  <2>1. /\ ~mem.loaded /\ mem' = [evolve |-> Loaded.evolve, cap |-> Absent, loaded |-> TRUE]
        /\ UNCHANGED <<file, pc, draft, tool, log, now, restarts, tools>>
    BY <1>3 DEF LoadSingleton, Loaded, bounds
  <2>2. TypeOK'
    BY <1>1, <1>2, <2>1 DEF TypeOK, Params
  <2>3. DraftFits'
    BY <2>1 DEF ExpInv, DraftFits, LastOpen, Closed, Opened
  <2>4. CapInv'
    BY <2>1 DEF CapInv, CurrentCap, LoggedCap
  <2>5. QED
    BY <2>1, <2>2, <2>3, <2>4, LogUnchanged
<1>4. CASE MetaReview
  <2>1. /\ mem.loaded /\ mem' = [mem EXCEPT !.evolve = 0] /\ pc = "idle"
        /\ UNCHANGED <<file, pc, draft, tool, log, now, restarts, tools>>
    BY <1>4 DEF MetaReview, LearnerIdle, bounds
  <2>2. TypeOK' /\ mem'.cap = mem.cap /\ mem'.loaded
    BY <1>1, <1>2, <2>1 DEF TypeOK, Level
  <2>3. DraftFits'
    BY <2>1 DEF DraftFits
  <2>4. CapInv'
    BY <2>1, <2>2 DEF CapInv, CurrentCap, LoggedCap
  <2>5. QED
    BY <2>1, <2>2, <2>3, <2>4, LogUnchanged
<1>5. CASE TuneLoad \/ TuneApply \/ TuneApplyOther \/ TuneBlocked
  <2>1. /\ UNCHANGED <<mem, tool, log, now, restarts, tools>>
        /\ \/ pc = "idle" /\ mem.loaded /\ pc' = "tuning" /\ draft' = file.evolve
              /\ file.evolve < Ceiling /\ file' = file
           \/ pc = "tuning" /\ pc' = "idle" /\ file' = file
           \/ pc = "tuning" /\ pc' = "idle" /\ file' = [evolve |-> draft + 1, cap |-> Absent]
           \/ pc = "tuning" /\ pc' = "idle" /\ file' = [evolve |-> draft, cap |-> Absent]
    BY <1>5 DEF TuneLoad, TuneApply, TuneApplyOther, TuneBlocked, Loaded, LearnerIdle, data, bounds
  <2>2. TypeOK'
    BY <1>1, <1>2, <2>1 DEF TypeOK, Params, Level
  <2>3. DraftFits'
    BY <2>1 DEF DraftFits
  <2>4. CapInv'
    BY <2>1 DEF CapInv, CurrentCap, LoggedCap
  <2>5. QED
    BY <2>1, <2>2, <2>3, <2>4, LogUnchanged
<1>6. CASE ToolLoad \/ (\E evolve \in Level : ToolApply(evolve)) \/ ToolApplyOther
  <2>1. /\ UNCHANGED <<mem, pc, draft, log, now, restarts>>
        /\ file' \in Params /\ tool' \in [pc : {"idle", "loaded"}, evolve : Level]
        /\ tools' \in 0 .. MaxTools
    BY <1>1, <1>2, <1>6, ExperimentBounds
       DEF ToolLoad, ToolApply, ToolApplyOther, data, bounds, TypeOK, Params, Level, Loaded
  <2>2. TypeOK'
    BY <1>1, <2>1 DEF TypeOK
  <2>3. DraftFits'
    BY <2>1 DEF ExpInv, DraftFits, LastOpen, Closed, Opened
  <2>4. CapInv'
    BY <2>1 DEF CapInv, CurrentCap, LoggedCap
  <2>5. QED
    BY <2>1, <2>2, <2>3, <2>4, LogUnchanged
<1>7. QED
  BY <1>3, <1>4, <1>5, <1>6

(* A restart forgets what was under way; days pass between ticks. *)
LEMMA EnvironmentKeeps ==
  ASSUME ExpInv, CapInv, Restart \/ DayPasses
  PROVE  ExpInv' /\ CapInv'
<1>1. TypeOK /\ {MaxTime, MaxRestarts} \subseteq Nat
  BY ExperimentBounds DEF ExpInv
<1>2. CASE Restart
  <2>1. /\ restarts < MaxRestarts /\ restarts' = restarts + 1 /\ mem' = Unloaded
        /\ pc' = "idle" /\ UNCHANGED <<file, tool, log, now, tools>>
    BY <1>2 DEF Restart
  <2>2. TypeOK' /\ restarts' # 0
    BY <1>1, <2>1, ExperimentBounds DEF TypeOK, Unloaded, Level
  <2>3. DraftFits' /\ CapInv'
    BY <2>1, <2>2 DEF DraftFits, CapInv
  <2>4. QED
    BY <2>1, <2>2, <2>3, LogUnchanged
<1>3. CASE DayPasses
  <2>1. pc = "idle" /\ now < MaxTime /\ now' = now + 1 /\ UNCHANGED <<file, mem, pc, draft, tool, log, restarts, tools>>
    BY <1>3 DEF DayPasses, data, bounds
  <2>2. TypeOK'
    BY <1>1, <2>1 DEF TypeOK
  <2>3. DraftFits' /\ CapInv' /\ Alternates' /\ CooldownKept'
    BY <2>1 DEF DraftFits, CapInv, CurrentCap, LoggedCap, ExpInv, Alternates, CooldownKept
  <2>4. \A i \in DOMAIN log : log[i].at \in Int
    <3>1. log \in Seq(Record)
      BY <1>1 DEF TypeOK
    <3>2. \A i \in DOMAIN log : log[i] \in Record
      BY <3>1
    <3>3. QED
      BY <3>2 DEF Record
  <2>5. Past'
    BY <1>1, <2>1, <2>4 DEF ExpInv, Past, TypeOK
  <2>6. QED
    BY <2>2, <2>3, <2>5 DEF ExpInv
<1>4. QED
  BY <1>2, <1>3

(* Every step keeps both invariants. *)
LEMMA StepKeeps == ExpInv /\ CapInv /\ [Next]_vars => ExpInv' /\ CapInv'
<1> SUFFICES ASSUME ExpInv, CapInv, [Next]_vars PROVE ExpInv' /\ CapInv'
  OBVIOUS
<1>1. CASE TickCloses
  BY <1>1, KeepKeeps, RevertKeeps DEF TickCloses
<1>2. CASE \E base \in Rate \cup {NoRate} : TickOpen(base)
  BY <1>2, OpeningKeeps
<1>3. CASE AppendRecord
  BY <1>3, AppendKeeps
<1>4. CASE UNCHANGED vars
  <2>1. UNCHANGED <<file, mem, pc, draft, tool, log, now, restarts, tools>>
    BY <1>4 DEF vars, data, bounds
  <2>2. TypeOK' /\ DraftFits' /\ CapInv'
    BY <2>1 DEF ExpInv, TypeOK, DraftFits, LastOpen, Closed, Opened, CapInv, CurrentCap, LoggedCap
  <2>3. QED
    BY <2>1, <2>2, LogUnchanged
<1>5. QED
  BY <1>1, <1>2, <1>3, <1>4, OthersKeep, EnvironmentKeeps DEF Next

-----------------------------------------------------------------------------
(* TypeOK, of any instance. *)
THEOREM TypeCorrect == Spec => []TypeOK
<1>1. ExpInv => TypeOK
  BY DEF ExpInv
<1>2. QED
  BY InitInv, StepKeeps, <1>1, PTL DEF Spec

(* OneExperiment, of any instance: none is opened beside another, and none is *)
(* closed twice, whenever the learner restarts.                               *)
THEOREM OneAtATime == Spec => []OneExperiment
<1>1. ExpInv => OneExperiment
  <2> SUFFICES ASSUME ExpInv PROVE OneExperiment
    OBVIOUS
  <2>1. Cardinality(Open) <= 1
    <3>1. Cardinality({}) = 0 /\ Cardinality({Len(log)}) = 1
      BY FS_EmptySet, FS_Singleton
    <3>2. CASE Open = {}
      BY <3>1, <3>2
    <3>3. CASE Open = {Len(log)}
      BY <3>1, <3>3
    <3>4. QED
      BY <3>2, <3>3, OpenIsLast DEF ExpInv
  <2>2. ASSUME NEW i \in Closed, NEW j \in Closed, log[i].id = log[j].id
        PROVE  i = j
    <3>1. i \in Int /\ j \in Int
      BY DEF Closed, ExpInv, TypeOK
    <3>2. log[i].id = i - 1 /\ log[j].id = j - 1
      BY DEF Closed, Opened, ExpInv, Alternates
    <3>3. i - 1 = j - 1
      BY <2>2, <3>2
    <3>4. QED
      BY <3>1, <3>3
  <2>3. QED
    BY <2>1, <2>2 DEF OneExperiment
<1>2. QED
  BY InitInv, StepKeeps, <1>1, PTL DEF Spec

(* CooldownKept, of any instance: two days between an experiment and the *)
(* next, one before it is judged.                                        *)
THEOREM CooldownsKept == Spec => []CooldownKept
<1>1. ExpInv => CooldownKept
  BY DEF ExpInv
<1>2. QED
  BY InitInv, StepKeeps, <1>1, PTL DEF Spec

(* CapFollowsLog, of any instance: until the first restart the cap in force is *)
(* the logged one, whoever rewrites the file.                                  *)
THEOREM CapAsLogged == Spec => []CapFollowsLog
<1>1. ExpInv /\ CapInv => CapFollowsLog
  BY DEF CapInv, CapFollowsLog, LearnerIdle
<1>2. QED
  BY InitInv, StepKeeps, <1>1, PTL DEF Spec
=============================================================================
