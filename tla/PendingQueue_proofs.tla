------------------------ MODULE PendingQueue_proofs ------------------------
(***************************************************************************)
(* Proofs about PendingQueue, for any entries, actors, limits and bounds:  *)
(* it is type correct, promotions and rejections are earned (Earned), and  *)
(* as long as no write undid another no entry gets lost (Accounted) and    *)
(* none comes back (NoReturn).                                             *)
(***************************************************************************)
EXTENDS PendingQueue, Ranks_proofs, FiniteSetTheorems, TLAPS

\* Every copy of the queue: the file, and what the actors will write.
Copies == {queue} \cup {new[a] : a \in Actor}
Distinct(q) == \A i, j \in DOMAIN q : q[i].id = q[j].id => i = j

ActorTypes ==
  /\ new \in [Actor -> Seq(Record)] /\ pc \in [Actor -> Labels]
  /\ then \in [Actor -> {"idle", "trim", "auto", "approve", "reject"}]
  /\ behind \in [Actor -> BOOLEAN]
  /\ entry \in [Actor -> Entry \cup {NoEntry}]

DataTypes ==
  /\ queue \in Seq(Record)
  /\ active \subseteq Entry /\ rejected \subseteq Entry /\ used \subseteq Entry
  /\ stored \subseteq Entry /\ discarded \subseteq Entry
  /\ passes \in [Entry -> Nat] /\ fails \in [Entry -> Nat]
  /\ streak \in 0 .. Streak /\ last \in Entry \cup {NoEntry}
  /\ calls \in 0 .. MaxCalls /\ crashes \in 0 .. MaxCrashes
  /\ torn \in BOOLEAN /\ stale \in BOOLEAN

Types == ActorTypes /\ DataTypes

\* Who works on an entry has one, and goes on after a write only if it has
\* planned to.
Working ==
  \A a \in Actor :
    /\ pc[a] \notin {"idle", "write", "fill"} => entry[a] \in Entry
    /\ then[a] # "idle" => entry[a] \in Entry
    /\ pc[a] \in {"idle", "promote", "archive"} => then[a] = "idle"

\* At most one actor fills the file.
OneFills ==
  /\ \A a \in Actor : pc[a] = "fill" => torn
  /\ \A a, b \in Actor : pc[a] = "fill" /\ pc[b] = "fill" => a = b

\* A count in any copy of the queue is backed by verdicts on the entry.
BackedRecord(r, ps, fs) ==
  /\ r.pass <= ps[r.id] \/ ps[r.id] >= Promote
  /\ r.fail <= fs[r.id] \/ fs[r.id] >= RejectAt
BackedBy(q, ps, fs) == \A i \in DOMAIN q : BackedRecord(q[i], ps, fs)
Backed ==
  /\ BackedBy(queue, passes, fails)
  /\ \A a \in Actor : BackedBy(new[a], passes, fails)

\* Whoever promotes, or rejects, an entry, or will, has a reason.
ToPromote(a) ==
  \/ pc[a] \in {"approve", "promote"}
  \/ pc[a] \in {"write", "fill"} /\ then[a] = "approve"
ToReject(a) ==
  \/ pc[a] \in {"reject", "archive"}
  \/ pc[a] \in {"write", "fill"} /\ then[a] = "reject"
Deserved ==
  \A a \in Actor :
    /\ ToPromote(a) => entry[a] \in Confident \/ passes[entry[a]] >= Promote
    /\ ToReject(a) => entry[a] \in Worthless \/ fails[entry[a]] >= RejectAt

\* Every entry that anything knows of was drawn by a store.
Outside == active \cup rejected \cup stored \cup discarded
Drawn ==
  /\ Ids(queue) \cup Outside \subseteq used
  /\ \A a \in Actor : Ids(new[a]) \subseteq used /\ entry[a] \in used \cup {NoEntry}

\* The entry of a store that is not in the file yet is nowhere else.
Storing(a) ==
  \/ pc[a] = "copy"
  \/ pc[a] \in {"write", "fill"} /\ then[a] = "trim"
Fresh ==
  \A a \in Actor : Storing(a) =>
    /\ entry[a] \notin Ids(queue) \cup Outside
    /\ \A b \in Actor \ {a} : entry[b] # entry[a] /\ entry[a] \notin Ids(new[b])

\* What an actor will write, if nothing was written since it read, is the
\* queue, with the entry it stores, and without what has gone elsewhere.
Current(a) ==
  \/ pc[a] \in {"promote", "archive", "write"} /\ ~behind[a]
  \/ pc[a] = "fill" /\ ~stale
Adds(a) == IF then[a] = "trim" THEN {entry[a]} ELSE {}
Takes(a) == IF pc[a] \in {"promote", "archive"} THEN {entry[a]} ELSE {}
Planned ==
  \A a \in Actor : Current(a) =>
    /\ Ids(new[a]) \subseteq Ids(queue) \cup Adds(a)
    /\ Ids(queue) \subseteq Ids(new[a]) \cup active \cup rejected \cup discarded \cup Takes(a)

Kept == ~stale => stored \subseteq Ids(queue) \cup active \cup rejected \cup discarded

\* No entry is twice in a queue.
NoTwins ==
  /\ Distinct(queue) /\ \A a \in Actor : Distinct(new[a])

QueueInv == Types /\ Working /\ OneFills /\ Backed /\ Deserved /\ Earned
FlowInv == Drawn /\ Fresh /\ Planned /\ Kept
FlowState == Types /\ Working /\ OneFills /\ FlowInv

-----------------------------------------------------------------------------
(***************************************************************************)
(* Without                                                                 *)
(***************************************************************************)

KeptIn(q, gone) == {i \in DOMAIN q : q[i].id \notin gone}

\* Without keeps the records of the other entries, each once.
LEMMA WithoutKeeps ==
  ASSUME NEW S, NEW q \in Seq(S), NEW gone
  PROVE  /\ Without(q, gone) \in Seq(S)
         /\ \A n \in DOMAIN Without(q, gone) :
              \E i \in DOMAIN q : Without(q, gone)[n] = q[i] /\ q[i].id \notin gone
         /\ Ids(Without(q, gone)) = Ids(q) \ gone
         /\ Distinct(q) => Distinct(Without(q, gone))
<1> DEFINE kept == KeptIn(q, gone)
           w == InOrder(q, kept)
<1>1. kept \in SUBSET Nat /\ kept \subseteq DOMAIN q /\ IsFiniteSet(kept)
  <2>1. DOMAIN q = 1 .. Len(q) /\ Len(q) \in Nat
    OBVIOUS
  <2>2. IsFiniteSet(1 .. Len(q))
    BY <2>1, FS_Interval
  <2>3. QED  BY <2>1, <2>2, FS_Subset DEF KeptIn
<1>2. w = Without(q, gone)
  BY DEF Without, KeptIn
<1>3. \A i \in kept : q[i] \in S /\ q[i].id \notin gone
  BY DEF KeptIn
<1>4. \A i \in DOMAIN q : q[i].id \notin gone => i \in kept
  BY DEF KeptIn
<1> HIDE DEF kept, w
<1>5. /\ w \in Seq(S)
      /\ \A n \in DOMAIN w : \E i \in kept : Rank(kept, i) = n /\ w[n] = q[i]
      /\ \A i \in kept : Rank(kept, i) \in DOMAIN w /\ w[Rank(kept, i)] = q[i]
  BY <1>1, <1>3, InOrderHolds DEF w
<1>6. \A n \in DOMAIN w : \E i \in DOMAIN q : w[n] = q[i] /\ q[i].id \notin gone
  BY <1>1, <1>3, <1>5
<1>7. Ids(w) = Ids(q) \ gone
  <2>1. Ids(w) \subseteq Ids(q) \ gone
    BY <1>6 DEF Ids
  <2>2. ASSUME NEW i \in DOMAIN q, q[i].id \notin gone
        PROVE  q[i].id \in Ids(w)
    <3>1. i \in kept
      BY <1>4, <2>2
    <3>2. Rank(kept, i) \in DOMAIN w /\ w[Rank(kept, i)] = q[i]
      BY <1>5, <3>1
    <3>3. QED  BY <3>2 DEF Ids
  <2>3. QED  BY <2>1, <2>2 DEF Ids
<1>8. Distinct(q) => Distinct(w)
  <2> SUFFICES ASSUME Distinct(q), NEW m \in DOMAIN w, NEW n \in DOMAIN w, w[m].id = w[n].id
               PROVE  m = n
    BY DEF Distinct
  <2>1. PICK i \in kept : Rank(kept, i) = m /\ w[m] = q[i]
    BY <1>5
  <2>2. PICK j \in kept : Rank(kept, j) = n /\ w[n] = q[j]
    BY <1>5
  <2>3. i = j
    BY <1>1, <2>1, <2>2 DEF Distinct
  <2>4. QED  BY <2>1, <2>2, <2>3
<1>9. QED  BY <1>2, <1>5, <1>6, <1>7, <1>8

-----------------------------------------------------------------------------
(***************************************************************************)
(* The queues that the operations compute                                  *)
(***************************************************************************)

\* q has only records of the queue p.
PartOf(q, p) == \A n \in DOMAIN q : \E i \in DOMAIN p : q[n] = p[i]

LEMMA Reading ==
  ASSUME Types
  PROVE  /\ ReadPending \in Seq(Record) /\ PartOf(ReadPending, queue)
         /\ \/ ~torn /\ ReadPending = queue
            \/ torn /\ ReadPending = <<>>
         /\ Ids(ReadPending) \subseteq Ids(queue) /\ Ids(ReadPending) \subseteq Entry
         /\ Distinct(queue) => Distinct(ReadPending)
<1>1. CASE torn
  <2>1. ReadPending = <<>> /\ DOMAIN ReadPending = {}
    BY <1>1 DEF ReadPending
  <2>2. ReadPending \in Seq(Record)
    BY <2>1
  <2>3. Ids(ReadPending) = {} /\ Distinct(ReadPending) /\ PartOf(ReadPending, queue)
    BY <2>1 DEF Ids, Distinct, PartOf
  <2>4. QED  BY <1>1, <2>1, <2>2, <2>3
<1>2. CASE ~torn
  <2>1. ReadPending = queue /\ queue \in Seq(Record)
    BY <1>2 DEF ReadPending, Types, DataTypes
  <2>2. \A i \in DOMAIN queue : queue[i].id \in Entry
    <3>1. \A i \in DOMAIN queue : queue[i] \in Record
      BY <2>1
    <3>2. QED  BY <3>1 DEF Record
  <2>3. Ids(queue) \subseteq Entry /\ PartOf(queue, queue)
    BY <2>2 DEF Ids, PartOf
  <2>4. QED  BY <1>2, <2>1, <2>3
<1>3. QED  BY <1>1, <1>2

LEMMA NothingIn == Ids(<<>>) = {} /\ Distinct(<<>>) /\ DOMAIN <<>> = {}
<1>1. DOMAIN <<>> = {}
  OBVIOUS
<1>2. QED  BY <1>1 DEF Ids, Distinct

LEMMA Appending ==
  ASSUME NEW q \in Seq(Record), NEW r \in Record
  PROVE  /\ Append(q, r) \in Seq(Record)
         /\ Ids(Append(q, r)) = Ids(q) \cup {r.id}
         /\ \A n \in DOMAIN Append(q, r) :
              \/ Append(q, r)[n] = r
              \/ \E i \in DOMAIN q : Append(q, r)[n] = q[i]
         /\ Distinct(q) /\ r.id \notin Ids(q) => Distinct(Append(q, r))
<1> DEFINE p == Append(q, r)
<1>1. /\ Len(q) \in Nat /\ DOMAIN q = 1 .. Len(q) /\ DOMAIN p = 1 .. Len(q) + 1
      /\ \A i \in DOMAIN q : p[i] = q[i]
      /\ p[Len(q) + 1] = r /\ p \in Seq(Record)
  OBVIOUS
<1> HIDE DEF p
<1>2. \A n \in DOMAIN p : n = Len(q) + 1 \/ n \in DOMAIN q
  BY <1>1
<1>3. Len(q) + 1 \in DOMAIN p /\ \A i \in DOMAIN q : i \in DOMAIN p
  BY <1>1
<1>4. Ids(p) = Ids(q) \cup {r.id}
  BY <1>1, <1>2, <1>3, Zenon DEF Ids
<1>5. Distinct(q) /\ r.id \notin Ids(q) => Distinct(p)
  BY <1>1, <1>2, <1>3 DEF Ids, Distinct
<1>6. QED  BY <1>1, <1>2, <1>4, <1>5 DEF p

LEMMA Trimming ==
  ASSUME NEW q \in Seq(Record), NEW n \in Nat, n < Len(q)
  PROVE  LET kept == SubSeq(q, Len(q) - n + 1, Len(q))
         IN  /\ kept \in Seq(Record) /\ PartOf(kept, q)
             /\ Ids(kept) \subseteq Ids(q)
             /\ Distinct(q) => Distinct(kept)
<1> DEFINE k == Len(q) - n
           kept == SubSeq(q, k + 1, Len(q))
<1>1. Len(q) \in Nat /\ DOMAIN q = 1 .. Len(q) /\ k \in Nat /\ k <= Len(q)
  OBVIOUS
<1>2. /\ kept \in Seq(Record) /\ DOMAIN kept = 1 .. Len(q) - k
      /\ \A i \in DOMAIN kept : kept[i] = q[k + i]
  BY <1>1
<1>3. \A i \in DOMAIN kept : k + i \in DOMAIN q
  BY <1>1, <1>2
<1>4. \A i, j \in DOMAIN kept : k + i = k + j => i = j
  BY <1>1, <1>2
<1> HIDE DEF k, kept
<1>5. PartOf(kept, q)
  BY <1>2, <1>3 DEF PartOf
<1>6. Ids(kept) \subseteq Ids(q)
  BY <1>2, <1>3 DEF Ids
<1>7. Distinct(q) => Distinct(kept)
  BY <1>2, <1>3, <1>4 DEF Distinct
<1>8. QED  BY <1>2, <1>5, <1>6, <1>7 DEF kept, k

\* A practice counts for one entry and leaves the others alone.
LEMMA Practising ==
  ASSUME NEW q \in Seq(Record), NEW e \in Entry, NEW success \in BOOLEAN
  PROVE  LET p == [i \in DOMAIN q |-> Counted(e, success, q[i])]
         IN  /\ p \in Seq(Record) /\ Ids(p) = Ids(q) /\ DOMAIN p = DOMAIN q
             /\ Distinct(q) => Distinct(p)
<1> DEFINE p == [i \in DOMAIN q |-> Counted(e, success, q[i])]
<1>1. Len(q) \in Nat /\ DOMAIN q = 1 .. Len(q)
  OBVIOUS
<1>2. \A i \in DOMAIN q : q[i] \in Record
  OBVIOUS
<1>3. \A i \in DOMAIN q : p[i] \in Record /\ p[i].id = q[i].id
  <2>1. \A r \in Record : Counted(e, success, r) \in Record /\ Counted(e, success, r).id = r.id
    BY DEF Counted, Record
  <2>2. \A i \in DOMAIN q : p[i] = Counted(e, success, q[i])
    OBVIOUS
  <2> HIDE DEF p
  <2>3. QED  BY <1>2, <2>1, <2>2
<1>4. DOMAIN p = DOMAIN q
  OBVIOUS
<1> HIDE DEF p
<1>5. p \in Seq(Record)
  <2>1. p \in [1 .. Len(q) -> Record]
    <3>1. p = [i \in 1 .. Len(q) |-> p[i]]
      BY <1>1 DEF p
    <3>2. QED  BY <1>1, <1>3, <3>1
  <2>2. QED  BY <1>1, <2>1
<1>6. Ids(p) = Ids(q)
  BY <1>3, <1>4 DEF Ids
<1>7. Distinct(q) => Distinct(p)
  BY <1>3, <1>4 DEF Distinct
<1>8. QED  BY <1>4, <1>5, <1>6, <1>7 DEF p

-----------------------------------------------------------------------------
(***************************************************************************)
(* Type correctness                                                        *)
(***************************************************************************)

LEMMA PlanTypes ==
  ASSUME ActorTypes, Working, torn \in BOOLEAN, NEW a \in Actor, NEW label \in Labels,
         NEW q \in Seq(Record), NEW next \in {"idle", "trim", "auto", "approve", "reject"},
         Plan(a, label, q, next), label # "idle",
         label \in {"promote", "archive"} => next = "idle",
         entry[a] \in Entry \/ (label = "write" /\ next = "idle")
  PROVE  ActorTypes' /\ Working'
<1> USE DEF ActorTypes, Plan, Goto
<1>1. ActorTypes'
  OBVIOUS
<1>2. Working'
  BY DEF Working
<1>3. QED  BY <1>1, <1>2

LEMMA MoveTypes ==
  ASSUME ActorTypes, Working, behind' \in [Actor -> BOOLEAN],
         NEW a \in Actor, NEW label \in Labels,
         Move(a, label), label \notin {"idle", "promote", "archive"}, entry[a] \in Entry \/ label \in {"write", "fill"}
  PROVE  ActorTypes' /\ Working'
  BY DEF ActorTypes, Move, Goto, Working

LEMMA FinishTypes ==
  ASSUME ActorTypes, Working, behind' \in [Actor -> BOOLEAN], NEW a \in Actor, Finish(a)
  PROVE  ActorTypes' /\ Working'
<1>1. <<>> \in Seq(Record) /\ "idle" \in Labels
  BY DEF Labels
<1>2. ActorTypes'
  BY <1>1 DEF ActorTypes, Finish, Goto
<1>3. Working'
  BY DEF ActorTypes, Finish, Goto, Working
<1>4. QED  BY <1>2, <1>3

\* A call that starts, or a check, takes an entry and a label.
LEMMA StartTypes ==
  ASSUME ActorTypes, Working, NEW a \in Actor, NEW label \in Labels, NEW e \in Entry,
         pc[a] = "idle", Goto(a, label), label # "idle",
         entry' = [entry EXCEPT ![a] = e], UNCHANGED <<new, then, behind>>
  PROVE  ActorTypes' /\ Working'
  BY DEF ActorTypes, Goto, Working

LEMMA ActorTypesKept ==
  ASSUME Types, Working, [Next]_vars
  PROVE  ActorTypes' /\ Working'
<1> DEFINE nexts == {"idle", "trim", "auto", "approve", "reject"}
<1> USE DEF Types
<1>0. /\ ReadPending \in Seq(Record) /\ torn \in BOOLEAN
      /\ Ids(ReadPending) \subseteq Entry
      /\ \A g : Without(ReadPending, g) \in Seq(Record)
  BY Reading, WithoutKeeps DEF DataTypes
<1>l. /\ {"idle", "copy", "write", "fill", "trim", "auto", "approve", "promote",
          "reject", "archive", "verify", "discard"} \subseteq Labels
      /\ Learner \in Actor
  BY DEF Labels, Actor
<1>w. \A a \in Actor : pc[a] \notin {"idle", "write", "fill"} => entry[a] \in Entry
  BY DEF Working
<1>t. \A a \in Actor : then[a] \in nexts /\ (then[a] # "idle" => entry[a] \in Entry)
  BY DEF Working, ActorTypes
<1>b. behind \in [Actor -> BOOLEAN]
      /\ \A a \in Actor : Outdated(a) \in [Actor -> BOOLEAN]
  BY DEF ActorTypes, Outdated
<1> HIDE DEF Types
<1>u. ActorTypes /\ Working /\ (behind' = behind => behind' \in [Actor -> BOOLEAN])
  BY <1>b DEF Types
<1>1. ASSUME NEW a \in Actor, Truncate(a) PROVE ActorTypes' /\ Working'
  BY <1>1, <1>u, <1>l, MoveTypes DEF Truncate
<1>2. ASSUME NEW a \in Actor, Fill(a) PROVE ActorTypes' /\ Working'
  <2>1. behind' \in [Actor -> BOOLEAN]
    BY <1>2, <1>b DEF Fill
  <2>2. CASE then[a] = "idle"
    BY <1>2, <2>1, <2>2, <1>u, FinishTypes DEF Fill
  <2>3. CASE then[a] # "idle"
    <3>1. then[a] \in Labels /\ entry[a] \in Entry /\ then[a] \notin {"idle", "promote", "archive"}
      BY <1>t, <1>l, <2>3
    <3>2. QED  BY <1>2, <2>1, <2>3, <3>1, <1>u, MoveTypes DEF Fill
  <2>4. QED  BY <2>2, <2>3
<1>3. ASSUME NEW a \in Actor, StoreDeclined(a) PROVE ActorTypes' /\ Working'
  BY <1>3, <1>u, FinishTypes DEF StoreDeclined
<1>4. ASSUME NEW a \in Actor, StoreCopies(a) PROVE ActorTypes' /\ Working'
  <2>1. entry[a] \in Entry
    BY <1>4, <1>w DEF StoreCopies
  <2>2. [id |-> entry[a], pass |-> 0, fail |-> 0] \in Record
    BY <2>1 DEF Record
  <2>3. Append(ReadPending, [id |-> entry[a], pass |-> 0, fail |-> 0]) \in Seq(Record)
    BY <1>0, <2>2, Appending
  <2>4. QED  BY <1>4, <2>1, <2>3, <1>0, <1>u, <1>l, PlanTypes DEF StoreCopies
<1>5. ASSUME NEW a \in Actor, Trim(a) PROVE ActorTypes' /\ Working'
  <2>1. entry[a] \in Entry
    BY <1>5, <1>w DEF Trim
  <2>2. SubSeq(ReadPending, Len(ReadPending) - TopicCap + 1, Len(ReadPending)) \in Seq(Record)
    BY <1>5, <1>0, Trimming, PendingConstants DEF Trim
  <2>3. QED  BY <1>5, <2>1, <2>2, <1>0, <1>u, <1>l, PlanTypes DEF Trim
<1>6. ASSUME NEW a \in Actor, AutoApprove(a) PROVE ActorTypes' /\ Working'
  <2>1. entry[a] \in Entry
    BY <1>6, <1>w DEF AutoApprove
  <2>2. CASE Move(a, "approve")
    BY <1>6, <2>1, <2>2, <1>u, <1>l, MoveTypes DEF AutoApprove
  <2>3. CASE Finish(a)
    BY <1>6, <2>3, <1>u, FinishTypes DEF AutoApprove
  <2>4. QED  BY <1>6, <2>2, <2>3 DEF AutoApprove
<1>7. ASSUME NEW a \in Actor, ApproveReads(a) PROVE ActorTypes' /\ Working'
  BY <1>7, <1>0, <1>u, <1>l, <1>w, PlanTypes DEF ApproveReads
<1>8. ASSUME NEW a \in Actor, ApproveRefuses(a) PROVE ActorTypes' /\ Working'
  <2>1. entry[a] \in Entry
    BY <1>8, <1>w DEF ApproveRefuses
  <2>2. CASE then[a] = "approve"
    BY <1>8, <2>1, <2>2, <1>u, <1>l, MoveTypes DEF ApproveRefuses, AfterRefusal
  <2>3. CASE then[a] # "approve"
    BY <1>8, <2>3, <1>u, FinishTypes DEF ApproveRefuses, AfterRefusal
  <2>4. QED  BY <2>2, <2>3
<1>9. ASSUME NEW a \in Actor, PromoteEntry(a) PROVE ActorTypes' /\ Working'
  BY <1>9, <1>u, <1>l, MoveTypes DEF PromoteEntry
<1>10. ASSUME NEW a \in Actor, RejectReads(a) PROVE ActorTypes' /\ Working'
  BY <1>10, <1>0, <1>u, <1>l, <1>w, PlanTypes DEF RejectReads
<1>11. ASSUME NEW a \in Actor, RejectFindsNothing(a) PROVE ActorTypes' /\ Working'
  BY <1>11, <1>u, FinishTypes DEF RejectFindsNothing
<1>12. ASSUME NEW a \in Actor, Archive(a) PROVE ActorTypes' /\ Working'
  BY <1>12, <1>u, <1>l, MoveTypes DEF Archive
<1>13. ASSUME NEW a \in Actor, DiscardReads(a) PROVE ActorTypes' /\ Working'
  <2>1. CASE Find(a)
    BY <1>13, <2>1, <1>0, <1>u, <1>l, <1>w, PlanTypes DEF DiscardReads
  <2>2. CASE ~Find(a)
    BY <1>13, <2>2, <1>u, FinishTypes DEF DiscardReads
  <2>3. QED  BY <2>1, <2>2
<1>14. ASSUME NEW a \in Actor, Refresh(a) PROVE ActorTypes' /\ Working'
  BY <1>14, <1>0, <1>u, <1>l, PlanTypes DEF Refresh
<1>15. ASSUME NEW a \in Actor, Crash(a) PROVE ActorTypes' /\ Working'
  <2>1. behind' \in [Actor -> BOOLEAN]
    BY <1>15, <1>b DEF Crash
  <2>2. QED  BY <1>15, <2>1, <1>u, FinishTypes DEF Crash
<1>16. ASSUME NEW a \in Actor, NEW e \in Entry, StoreCall(a, e) PROVE ActorTypes' /\ Working'
  BY <1>16, <1>u, <1>l, StartTypes DEF StoreCall, Call
<1>17. ASSUME CheckHead PROVE ActorTypes' /\ Working'
  <2>1. Head(ReadPending).id \in Entry
    <3>1. ReadPending # <<>>
      BY <1>17 DEF CheckHead
    <3>2. Head(ReadPending) \in Record
      BY <1>0, <3>1
    <3>3. QED  BY <3>2 DEF Record
  <2>2. PICK label \in {"discard", "verify"} : Goto(Learner, label)
    BY <1>17 DEF CheckHead
  <2>3. QED  BY <1>17, <2>1, <2>2, <1>u, <1>l, StartTypes DEF CheckHead
<1>18. ASSUME NEW s \in BOOLEAN, Practise(s) PROVE ActorTypes' /\ Working'
  <2>1. entry[Learner] \in Entry
    BY <1>18, <1>w, <1>l DEF Practise
  <2>2. [i \in DOMAIN ReadPending |-> Counted(entry[Learner], s, ReadPending[i])] \in Seq(Record)
    BY <2>1, <1>0, Practising
  <2>3. PICK next \in {"idle", "approve", "reject"} :
          Plan(Learner, "write",
               [i \in DOMAIN ReadPending |-> Counted(entry[Learner], s, ReadPending[i])], next)
    BY <1>18 DEF Practise
  <2>4. QED  BY <2>1, <2>2, <2>3, <1>0, <1>u, <1>l, PlanTypes
<1>19. ASSUME PractiseNothing PROVE ActorTypes' /\ Working'
  BY <1>19, <1>u, <1>l, FinishTypes DEF PractiseNothing
<1>20. ASSUME NEW e \in Ids(ReadPending), NEW label \in {"approve", "reject"},
              MonitorCall(e, label)
       PROVE  ActorTypes' /\ Working'
  BY <1>20, <1>0, <1>u, <1>l, StartTypes DEF MonitorCall, Call
<1>21. ASSUME Cleanup PROVE ActorTypes' /\ Working'
  <2>1. PICK gone : Plan(Learner, "write", Without(ReadPending, gone), "idle")
    BY <1>21 DEF Cleanup
  <2>2. QED  BY <2>1, <1>0, <1>u, <1>l, PlanTypes
<1>22. ASSUME UNCHANGED vars PROVE ActorTypes' /\ Working'
  BY <1>22, <1>u DEF ActorTypes, Working, vars, work
<1>23. QED
  BY <1>1, <1>2, <1>3, <1>4, <1>5, <1>6, <1>7, <1>8, <1>9, <1>10, <1>11, <1>12, <1>13,
     <1>14, <1>15, <1>16, <1>17, <1>18, <1>19, <1>20, <1>21, <1>22
     DEF Next, Step, CheckStep, MonitorApproves, MonitorRejects

LEMMA IdsOfRecords ==
  ASSUME NEW q \in Seq(Record)
  PROVE  Ids(q) \subseteq Entry
<1>1. \A i \in DOMAIN q : q[i] \in Record
  OBVIOUS
<1>2. QED  BY <1>1 DEF Ids, Record

LEMMA DataTypesKept ==
  ASSUME Types, Working, [Next]_vars
  PROVE  DataTypes'
<1>0. /\ ActorTypes /\ DataTypes /\ Learner \in Actor
      /\ ReadPending \in Seq(Record) /\ Ids(ReadPending) \subseteq Entry
      /\ \A a \in Actor : pc[a] \notin {"idle", "write", "fill"} => entry[a] \in Entry
      /\ \A a \in Actor : new[a] \in Seq(Record)
      /\ {Promote, Streak, RejectAt, MaxCalls, MaxCrashes} \subseteq Nat
  BY Reading, PendingConstants DEF Types, Working, ActorTypes, RejectAt, Actor
<1> USE DEF DataTypes, file, repo, check, verdicts, bounds, history
<1>1. ASSUME NEW a \in Actor, Truncate(a) \/ StoreDeclined(a) \/ AutoApprove(a)
                               \/ ApproveReads(a) \/ ApproveRefuses(a) \/ RejectReads(a)
      PROVE  DataTypes'
  BY <1>0, <1>1 DEF Truncate, StoreDeclined, AutoApprove, ApproveReads, ApproveRefuses,
     RejectReads, ActorTypes
<1>2. ASSUME NEW a \in Actor, StoreCopies(a) \/ RejectFindsNothing(a) PROVE DataTypes'
  BY <1>0, <1>2 DEF StoreCopies, RejectFindsNothing
<1>3. ASSUME NEW a \in Actor, Fill(a) PROVE DataTypes'
  <2>1. Ids(new[a]) \subseteq Entry
    BY <1>0, IdsOfRecords
  <2>2. QED  BY <1>0, <1>3, <2>1 DEF Fill
<1>4. ASSUME NEW a \in Actor, Trim(a) PROVE DataTypes'
  BY <1>0, <1>4 DEF Trim
<1>5. ASSUME NEW a \in Actor, PromoteEntry(a) PROVE DataTypes'
  BY <1>0, <1>5 DEF PromoteEntry
<1>6. ASSUME NEW a \in Actor, Archive(a) PROVE DataTypes'
  BY <1>0, <1>6 DEF Archive
<1>7. ASSUME NEW a \in Actor, DiscardReads(a) PROVE DataTypes'
  BY <1>0, <1>7 DEF DiscardReads
<1>8. ASSUME NEW a \in Actor, Refresh(a) PROVE DataTypes'
  BY <1>0, <1>8 DEF Refresh, Call
<1>9. ASSUME NEW a \in Actor, Crash(a) PROVE DataTypes'
  <2>1. <<>> \in Seq(Record)
    OBVIOUS
  <2>2. queue' \in Seq(Record) /\ torn' \in BOOLEAN /\ stale' \in BOOLEAN
    BY <1>0, <1>9, <2>1 DEF Crash
  <2>3. streak' \in 0 .. Streak /\ last' \in Entry \cup {NoEntry}
    BY <1>0, <1>9 DEF Crash
  <2>4. crashes' \in 0 .. MaxCrashes /\ calls' = calls
    BY <1>0, <1>9 DEF Crash
  <2>5. UNCHANGED <<repo, used, stored, discarded, verdicts>>
    BY <1>9 DEF Crash
  <2>6. QED  BY <1>0, <2>2, <2>3, <2>4, <2>5
<1>10. ASSUME NEW a \in Actor, NEW e \in Entry, StoreCall(a, e) PROVE DataTypes'
  BY <1>0, <1>10 DEF StoreCall, Call
<1>11. ASSUME CheckHead PROVE DataTypes'
  <2>1. Head(ReadPending).id \in Entry
    <3>1. ReadPending # <<>>
      BY <1>11 DEF CheckHead
    <3>2. Head(ReadPending) \in Record
      BY <1>0, <3>1
    <3>3. QED  BY <3>2 DEF Record
  <2>2. Upto(Streak, streak + 1) \in 0 .. Streak /\ 0 \in 0 .. Streak
    BY <1>0 DEF Upto
  <2>3. QED  BY <1>0, <1>11, <2>1, <2>2 DEF CheckHead
<1>12. ASSUME NEW s \in BOOLEAN, Practise(s) PROVE DataTypes'
  <2> DEFINE e == entry[Learner]
  <2>1. \/ passes' = [passes EXCEPT ![e] = Upto(Promote, @ + 1)] /\ fails' = fails
        \/ fails' = [fails EXCEPT ![e] = Upto(RejectAt, @ + 1)] /\ passes' = passes
    BY <1>12 DEF Practise
  <2>2. passes \in [Entry -> Nat] /\ fails \in [Entry -> Nat]
        /\ \A b \in {Promote, RejectAt}, n \in Nat : Upto(b, n + 1) \in Nat
    BY <1>0 DEF Upto
  <2>3. passes' \in [Entry -> Nat] /\ fails' \in [Entry -> Nat]
    BY <2>1, <2>2
  <2>4. UNCHANGED <<file, repo, check, bounds, stored, discarded, stale>>
    BY <1>12 DEF Practise
  <2>5. QED  BY <1>0, <2>3, <2>4
<1>13. ASSUME PractiseNothing PROVE DataTypes'
  BY <1>0, <1>13 DEF PractiseNothing
<1>14. ASSUME NEW e, NEW label, MonitorCall(e, label) PROVE DataTypes'
  BY <1>0, <1>14 DEF MonitorCall, Call
<1>15. ASSUME Cleanup PROVE DataTypes'
  <2> DEFINE q == ReadPending
             gone == {r.id : r \in {q[i] : i \in {j \in DOMAIN q :
                        q[j].id \in Worthless /\ q[j].pass = 0 /\ q[j].fail = 0}}}
  <2>1. gone \subseteq Entry
    BY <1>0 DEF Ids
  <2>2. discarded' = discarded \cup gone
    BY <1>15 DEF Cleanup
  <2> HIDE DEF gone
  <2>3. QED  BY <1>0, <1>15, <2>1, <2>2 DEF Cleanup, Call
<1>16. ASSUME UNCHANGED vars PROVE DataTypes'
  BY <1>0, <1>16 DEF vars
<1>17. QED
  BY <1>1, <1>2, <1>3, <1>4, <1>5, <1>6, <1>7, <1>8, <1>9, <1>10, <1>11, <1>12, <1>13,
     <1>14, <1>15, <1>16
     DEF Next, Step, CheckStep, MonitorApproves, MonitorRejects

LEMMA TypesStart == Init => Types /\ Working
<1>1. /\ <<>> \in Seq(Record) /\ {"idle"} \subseteq Labels
      /\ {Streak, MaxCalls, MaxCrashes} \subseteq Nat
  BY PendingConstants DEF Labels
<1>2. ASSUME Init PROVE ActorTypes
  BY <1>1, <1>2 DEF Init, ActorTypes
<1>3. ASSUME Init PROVE DataTypes
  <2>1. queue \in Seq(Record) /\ torn \in BOOLEAN /\ stale \in BOOLEAN
    BY <1>1, <1>3 DEF Init
  <2>2. streak \in 0 .. Streak /\ calls \in 0 .. MaxCalls /\ crashes \in 0 .. MaxCrashes
    BY <1>1, <1>3 DEF Init
  <2>3. passes \in [Entry -> Nat] /\ fails \in [Entry -> Nat]
    BY <1>3, Zenon DEF Init
  <2>4. QED  BY <1>3, <2>1, <2>2, <2>3 DEF Init, DataTypes
<1>4. ASSUME Init PROVE Working
  BY <1>4 DEF Init, Working
<1>5. QED  BY <1>2, <1>3, <1>4 DEF Types

-----------------------------------------------------------------------------
(***************************************************************************)
(* One actor fills the file                                                *)
(***************************************************************************)

OnlyMoves(a) ==
  \A b \in Actor \ {a} :
    pc'[b] = pc[b] /\ then'[b] = then[b] /\ entry'[b] = entry[b] /\ new'[b] = new[b]

LEMMA OthersStay ==
  ASSUME ActorTypes, NEW a \in Actor
  PROVE  /\ \A l, q, n : Plan(a, l, q, n) =>
              /\ OnlyMoves(a)
              /\ pc'[a] = l /\ then'[a] = n /\ entry'[a] = entry[a] /\ new'[a] = q
         /\ \A l : Move(a, l) =>
              /\ OnlyMoves(a)
              /\ pc'[a] = l /\ then'[a] = then[a] /\ entry'[a] = entry[a] /\ new'[a] = new[a]
         /\ Finish(a) =>
              /\ OnlyMoves(a)
              /\ pc'[a] = "idle" /\ then'[a] = "idle" /\ entry'[a] = NoEntry /\ new'[a] = <<>>
<1> USE DEF ActorTypes, OnlyMoves, Goto
<1>1. \A l, q, n : Plan(a, l, q, n) =>
         OnlyMoves(a) /\ pc'[a] = l /\ then'[a] = n /\ entry'[a] = entry[a] /\ new'[a] = q
  BY DEF Plan
<1>2. \A l : Move(a, l) =>
         /\ OnlyMoves(a)
         /\ pc'[a] = l /\ then'[a] = then[a] /\ entry'[a] = entry[a] /\ new'[a] = new[a]
  BY DEF Move
<1>3. Finish(a) =>
        /\ OnlyMoves(a)
        /\ pc'[a] = "idle" /\ then'[a] = "idle" /\ entry'[a] = NoEntry /\ new'[a] = <<>>
  BY DEF Finish
<1>4. QED  BY <1>1, <1>2, <1>3

LEMMA StartStays ==
  ASSUME ActorTypes, NEW a \in Actor, NEW l, NEW e,
         Goto(a, l), entry' = [entry EXCEPT ![a] = e], new' = new, then' = then
  PROVE  /\ OnlyMoves(a)
         /\ pc'[a] = l /\ then'[a] = then[a] /\ entry'[a] = e /\ new'[a] = new[a]
  BY DEF ActorTypes, OnlyMoves, Goto

LEMMA OneFillsKept ==
  ASSUME Types, OneFills, [Next]_vars
  PROVE  OneFills'
<1>0. /\ ActorTypes /\ Learner \in Actor
      /\ \A a \in Actor : then[a] # "fill"
  BY DEF Types, ActorTypes, Actor
<1>1. ASSUME NEW a \in Actor, Truncate(a) PROVE OneFills'
  BY <1>0, <1>1, OthersStay DEF Truncate, OneFills, OnlyMoves
<1>2. ASSUME NEW a \in Actor, Fill(a) \/ Crash(a) PROVE OneFills'
  <2>1. OnlyMoves(a) /\ pc'[a] # "fill"
    BY <1>0, <1>2, OthersStay DEF Fill, Crash
  <2>2. pc[a] = "fill" \/ torn' = torn
    BY <1>2 DEF Fill, Crash, file
  <2>3. \A b \in Actor : pc'[b] = "fill" => b # a /\ pc[b] = "fill"
    BY <2>1 DEF OnlyMoves
  <2>4. \A b \in Actor : pc'[b] = "fill" => torn'
    BY <2>2, <2>3 DEF OneFills
  <2>5. QED  BY <2>3, <2>4 DEF OneFills
<1>3. ASSUME torn' = torn, NEW a \in Actor, OnlyMoves(a), pc'[a] # "fill"
      PROVE  OneFills'
  BY <1>3 DEF OneFills, OnlyMoves
<1>4. ASSUME NEW a \in Actor,
             \/ StoreDeclined(a) \/ StoreCopies(a) \/ Trim(a) \/ AutoApprove(a)
             \/ ApproveReads(a) \/ ApproveRefuses(a) \/ PromoteEntry(a)
             \/ RejectReads(a) \/ RejectFindsNothing(a) \/ Archive(a) \/ DiscardReads(a)
             \/ Refresh(a)
      PROVE  OneFills'
  <2>1. torn' = torn
    BY <1>4 DEF StoreDeclined, StoreCopies, Trim, AutoApprove, ApproveReads, ApproveRefuses,
       PromoteEntry, RejectReads, RejectFindsNothing, Archive, DiscardReads, Refresh, file
  <2>2. OnlyMoves(a) /\ pc'[a] # "fill"
    BY <1>0, <1>4, OthersStay DEF StoreDeclined, StoreCopies, Trim, AutoApprove, ApproveReads,
       ApproveRefuses, AfterRefusal, PromoteEntry, RejectReads, RejectFindsNothing, Archive,
       DiscardReads, Refresh
  <2>3. QED  BY <1>3, <2>1, <2>2
<1>5. ASSUME NEW a \in Actor, NEW e, StoreCall(a, e) PROVE OneFills'
  BY <1>0, <1>3, <1>5, StartStays DEF StoreCall, file
<1>6. ASSUME CheckStep \/ Cleanup PROVE OneFills'
  <2>1. torn' = torn
    BY <1>6 DEF CheckStep, CheckHead, Practise, PractiseNothing, Cleanup, file
  <2>2. OnlyMoves(Learner) /\ pc'[Learner] # "fill"
    <3>1. CASE CheckHead
      BY <1>0, <3>1, StartStays DEF CheckHead
    <3>2. CASE PractiseNothing \/ Cleanup
      BY <1>0, <3>2, OthersStay DEF PractiseNothing, Cleanup
    <3>3. ASSUME NEW s \in BOOLEAN, Practise(s) PROVE OnlyMoves(Learner) /\ pc'[Learner] # "fill"
      BY <1>0, <3>3, OthersStay DEF Practise
    <3>4. QED  BY <1>6, <3>1, <3>2, <3>3 DEF CheckStep
  <2>3. QED  BY <1>0, <1>3, <2>1, <2>2
<1>7. ASSUME NEW e, NEW label \in {"approve", "reject"}, MonitorCall(e, label) PROVE OneFills'
  BY <1>0, <1>3, <1>7, StartStays DEF MonitorCall, file
<1>8. ASSUME UNCHANGED vars PROVE OneFills'
  BY <1>8 DEF OneFills, vars, file, work
<1>9. QED
  BY <1>1, <1>2, <1>4, <1>5, <1>6, <1>7, <1>8
     DEF Next, Step, MonitorApproves, MonitorRejects

-----------------------------------------------------------------------------
(***************************************************************************)
(* Promotions and rejections are earned                                    *)
(***************************************************************************)

LEMMA BackedParts ==
  ASSUME NEW ps, NEW fs
  PROVE  /\ \A p, q : PartOf(q, p) /\ BackedBy(p, ps, fs) => BackedBy(q, ps, fs)
         /\ BackedBy(<<>>, ps, fs)
<1>1. \A p, q : PartOf(q, p) /\ BackedBy(p, ps, fs) => BackedBy(q, ps, fs)
  BY DEF PartOf, BackedBy
<1>2. BackedBy(<<>>, ps, fs)
  BY NothingIn DEF BackedBy
<1>3. QED  BY <1>1, <1>2

\* Copies that are planned without a practice add no counts.
LEMMA BackedKept ==
  ASSUME Types, Working, Backed, [Next]_vars, ~ \E s \in BOOLEAN : Practise(s)
  PROVE  Backed' /\ UNCHANGED verdicts
<1> DEFINE Good(q) == BackedBy(q, passes, fails)
<1>0. /\ ReadPending \in Seq(Record) /\ Good(ReadPending) /\ Good(<<>>) /\ Good(queue)
      /\ Learner \in Actor /\ ActorTypes
      /\ \A a \in Actor : Good(new[a])
      /\ \A g : Good(Without(ReadPending, g))
      /\ passes \in [Entry -> Nat] /\ fails \in [Entry -> Nat]
  <2>1. ReadPending \in Seq(Record) /\ PartOf(ReadPending, queue)
    BY Reading
  <2>2. Good(ReadPending) /\ Good(<<>>) /\ Good(queue) /\ \A a \in Actor : Good(new[a])
    BY <2>1, BackedParts DEF Backed
  <2>3. \A g : PartOf(Without(ReadPending, g), ReadPending)
    BY <2>1, WithoutKeeps DEF PartOf
  <2>4. QED  BY <2>1, <2>2, <2>3, BackedParts DEF Types, DataTypes, Actor
<1> HIDE DEF Good
<1>s. ASSUME queue' = queue, UNCHANGED verdicts, NEW a \in Actor, NEW q, Good(q),
             new' = [new EXCEPT ![a] = q]
      PROVE  Backed' /\ UNCHANGED verdicts
  <2>1. \A b \in Actor : Good(new'[b])
    BY <1>0, <1>s DEF ActorTypes
  <2>2. QED  BY <1>0, <1>s, <2>1 DEF Good, Backed, verdicts
<1>u. ASSUME queue' = queue, UNCHANGED verdicts, new' = new PROVE Backed' /\ UNCHANGED verdicts
  BY <1>u DEF Backed, verdicts
<1>1. ASSUME NEW a \in Actor, Truncate(a) \/ PromoteEntry(a) \/ Archive(a)
      PROVE  Backed' /\ UNCHANGED verdicts
  BY <1>1, <1>u DEF Truncate, PromoteEntry, Archive, Move, file, history
<1>2. ASSUME NEW a \in Actor, Fill(a) PROVE Backed' /\ UNCHANGED verdicts
  <2>1. queue' = new[a] /\ UNCHANGED verdicts
    BY <1>2 DEF Fill
  <2>2. \A b \in Actor : Good(new'[b])
    BY <1>0, <1>2 DEF Fill, Finish, Move, ActorTypes
  <2>3. QED  BY <1>0, <2>1, <2>2 DEF Good, Backed, verdicts
<1>3. ASSUME NEW a \in Actor, Crash(a) PROVE Backed' /\ UNCHANGED verdicts
  <2>1. queue' \in {queue, <<>>} /\ UNCHANGED verdicts
    BY <1>3 DEF Crash, file
  <2>2. \A b \in Actor : Good(new'[b])
    BY <1>0, <1>3 DEF Crash, Finish, ActorTypes
  <2>3. QED  BY <1>0, <2>1, <2>2 DEF Good, Backed, verdicts
<1>4. ASSUME NEW a \in Actor, StoreDeclined(a) \/ RejectFindsNothing(a)
      PROVE  Backed' /\ UNCHANGED verdicts
  BY <1>0, <1>4, <1>s DEF StoreDeclined, RejectFindsNothing, Finish, file, history
<1>5. ASSUME NEW a \in Actor, StoreCopies(a) PROVE Backed' /\ UNCHANGED verdicts
  <2> DEFINE r == [id |-> entry[a], pass |-> 0, fail |-> 0]
  <2>1. entry[a] \in Entry
    BY <1>5 DEF StoreCopies, Working
  <2>2. r \in Record /\ BackedRecord(r, passes, fails)
    BY <1>0, <2>1 DEF Record, BackedRecord
  <2>3. Good(Append(ReadPending, r))
    <3> HIDE DEF r
    <3>1. \A n \in DOMAIN Append(ReadPending, r) :
            \/ Append(ReadPending, r)[n] = r
            \/ \E i \in DOMAIN ReadPending : Append(ReadPending, r)[n] = ReadPending[i]
      BY <1>0, <2>2, Appending
    <3>2. QED  BY <1>0, <2>2, <3>1, Zenon DEF Good, BackedBy
  <2>4. QED  BY <1>5, <2>3, <1>s DEF StoreCopies, Plan, file, history
<1>6. ASSUME NEW a \in Actor, Trim(a) PROVE Backed' /\ UNCHANGED verdicts
  <2> DEFINE kept == SubSeq(ReadPending, Len(ReadPending) - TopicCap + 1, Len(ReadPending))
  <2>1. PartOf(kept, ReadPending)
    BY <1>6, <1>0, Trimming, PendingConstants DEF Trim
  <2>2. Good(kept)
    BY <1>0, <2>1, BackedParts DEF Good
  <2>3. QED  BY <1>6, <2>2, <1>s DEF Trim, Plan, file
<1>7. ASSUME NEW a \in Actor, AutoApprove(a) \/ ApproveRefuses(a)
      PROVE  Backed' /\ UNCHANGED verdicts
  <2>1. queue' = queue /\ UNCHANGED verdicts
    BY <1>7 DEF AutoApprove, ApproveRefuses, file, history
  <2>2. Finish(a) \/ \E l : Move(a, l)
    BY <1>7, Zenon DEF AutoApprove, ApproveRefuses, AfterRefusal
  <2>3. QED  BY <1>0, <1>s, <1>u, <2>1, <2>2 DEF Finish, Move
<1>8. ASSUME NEW a \in Actor, ApproveReads(a) \/ RejectReads(a) \/ Refresh(a)
      PROVE  Backed' /\ UNCHANGED verdicts
  BY <1>0, <1>8, <1>s DEF ApproveReads, RejectReads, Refresh, Plan, file, history
<1>9. ASSUME NEW a \in Actor, DiscardReads(a) PROVE Backed' /\ UNCHANGED verdicts
  BY <1>0, <1>9, <1>s DEF DiscardReads, Plan, Finish, file
<1>10. ASSUME NEW a \in Actor, NEW e, StoreCall(a, e) \/ MonitorCall(e, "approve")
                                      \/ MonitorCall(e, "reject") \/ CheckHead
       PROVE  Backed' /\ UNCHANGED verdicts
  BY <1>10, <1>u DEF StoreCall, MonitorCall, CheckHead, file, history
<1>11. ASSUME PractiseNothing PROVE Backed' /\ UNCHANGED verdicts
  BY <1>0, <1>11, <1>s DEF PractiseNothing, Finish, file, history
<1>12. ASSUME Cleanup PROVE Backed' /\ UNCHANGED verdicts
  <2>1. PICK gone : Plan(Learner, "write", Without(ReadPending, gone), "idle")
    BY <1>12 DEF Cleanup
  <2>2. queue' = queue /\ UNCHANGED verdicts
    BY <1>12 DEF Cleanup, file
  <2>3. QED  BY <1>0, <1>s, <2>1, <2>2 DEF Plan
<1>13. ASSUME UNCHANGED vars PROVE Backed' /\ UNCHANGED verdicts
  BY <1>13, <1>u DEF vars, file, work, history
<1>14. QED
  BY <1>0, <1>1, <1>2, <1>3, <1>4, <1>5, <1>6, <1>7, <1>8, <1>9, <1>10, <1>11, <1>12, <1>13
     DEF Next, Step, CheckStep, MonitorApproves, MonitorRejects

\* A practice adds its verdict to the counts of what it writes and to the history.
LEMMA PractiseBacked ==
  ASSUME Types, Working, Backed, NEW s \in BOOLEAN, Practise(s)
  PROVE  /\ Backed'
         /\ then'[Learner] = "approve" => passes'[entry[Learner]] >= Promote
         /\ then'[Learner] = "reject" => fails'[entry[Learner]] >= RejectAt
         /\ \A e \in Entry : /\ passes[e] >= Promote => passes'[e] >= Promote
                             /\ fails[e] >= RejectAt => fails'[e] >= RejectAt
<1> DEFINE e == entry[Learner]
           q == [i \in DOMAIN ReadPending |-> Counted(e, s, ReadPending[i])]
           mine == CHOOSE r \in {q[i] : i \in DOMAIN q} : r.id = e
           next == IF mine.pass >= Promote THEN "approve"
                   ELSE IF mine.fail >= RejectAt THEN "reject" ELSE "idle"
<1>1. /\ Learner \in Actor /\ ActorTypes /\ DataTypes
      /\ ReadPending \in Seq(Record) /\ BackedBy(ReadPending, passes, fails)
      /\ Promote \in Nat /\ RejectAt \in Nat
      /\ passes \in [Entry -> Nat] /\ fails \in [Entry -> Nat]
  <2>1. ReadPending \in Seq(Record) /\ PartOf(ReadPending, queue)
    BY Reading
  <2>2. BackedBy(ReadPending, passes, fails)
    BY <2>1, BackedParts DEF Backed
  <2>3. Promote \in Nat /\ RejectAt \in Nat /\ Learner \in Actor
    BY PendingConstants DEF RejectAt, Actor
  <2>4. QED  BY <2>1, <2>2, <2>3 DEF Types, DataTypes
<1>2. e \in Entry /\ e \in Ids(ReadPending)
  BY <1>1 DEF Practise, Working, Find
<1>3. /\ s => passes' = [passes EXCEPT ![e] = Upto(Promote, @ + 1)] /\ fails' = fails
      /\ ~s => fails' = [fails EXCEPT ![e] = Upto(RejectAt, @ + 1)] /\ passes' = passes
  BY DEF Practise
<1>4. /\ new' = [new EXCEPT ![Learner] = q] /\ then' = [then EXCEPT ![Learner] = next]
      /\ queue' = queue
  BY DEF Practise, Plan, file
<1>5. q \in Seq(Record) /\ Ids(q) = Ids(ReadPending)
  BY <1>1, <1>2, Practising
<1>6. \A d \in Entry :
        /\ passes'[d] \in Nat /\ fails'[d] \in Nat
        /\ passes'[d] >= passes[d] \/ passes'[d] >= Promote
        /\ fails'[d] >= fails[d] \/ fails'[d] >= RejectAt
        /\ passes[d] >= Promote => passes'[d] >= Promote
        /\ fails[d] >= RejectAt => fails'[d] >= RejectAt
  BY <1>1, <1>2, <1>3 DEF Upto
<1>7. /\ s => passes'[e] >= passes[e] + 1 \/ passes'[e] >= Promote
      /\ ~s => fails'[e] >= fails[e] + 1 \/ fails'[e] >= RejectAt
  BY <1>1, <1>2, <1>3 DEF Upto
<1>8. ASSUME NEW r \in Record, BackedRecord(r, passes, fails)
      PROVE  BackedRecord(r, passes', fails') /\ BackedRecord(Counted(e, s, r), passes', fails')
  <2>1. r.id \in Entry /\ r.pass \in Nat /\ r.fail \in Nat
    BY DEF Record
  <2>2. BackedRecord(r, passes', fails')
    BY <1>1, <1>6, <1>8, <2>1 DEF BackedRecord
  <2>3. CASE r.id # e
    BY <2>2, <2>3 DEF Counted
  <2>4. CASE r.id = e /\ s
    <3>1. Counted(e, s, r) = [r EXCEPT !.pass = @ + 1]
      BY <2>4 DEF Counted
    <3>2. /\ Counted(e, s, r).pass = r.pass + 1 /\ Counted(e, s, r).fail = r.fail
          /\ Counted(e, s, r).id = e
      BY <2>4, <3>1 DEF Record
    <3>3. r.pass <= passes[e] \/ passes[e] >= Promote
      BY <1>8, <2>4 DEF BackedRecord
    <3>4. r.pass + 1 <= passes'[e] \/ passes'[e] >= Promote
      BY <1>1, <1>2, <1>6, <1>7, <2>1, <2>4, <3>3
    <3>5. r.fail <= fails'[e] \/ fails'[e] >= RejectAt
      BY <2>2, <2>4 DEF BackedRecord
    <3>6. QED  BY <2>2, <3>2, <3>4, <3>5 DEF BackedRecord
  <2>5. CASE r.id = e /\ ~s
    <3>1. Counted(e, s, r) = [r EXCEPT !.fail = @ + 1]
      BY <2>5 DEF Counted
    <3>2. /\ Counted(e, s, r).fail = r.fail + 1 /\ Counted(e, s, r).pass = r.pass
          /\ Counted(e, s, r).id = e
      BY <2>5, <3>1 DEF Record
    <3>3. r.fail <= fails[e] \/ fails[e] >= RejectAt
      BY <1>8, <2>5 DEF BackedRecord
    <3>4. r.fail + 1 <= fails'[e] \/ fails'[e] >= RejectAt
      BY <1>1, <1>2, <1>6, <1>7, <2>1, <2>5, <3>3
    <3>5. r.pass <= passes'[e] \/ passes'[e] >= Promote
      BY <2>2, <2>5 DEF BackedRecord
    <3>6. QED  BY <2>2, <3>2, <3>4, <3>5 DEF BackedRecord
  <2>6. QED  BY <2>3, <2>4, <2>5, <2>2
<1>9. DOMAIN q = DOMAIN ReadPending
      /\ \A i \in DOMAIN q : q[i] = Counted(e, s, ReadPending[i])
  OBVIOUS
<1> HIDE DEF q, e
<1>10. ASSUME NEW p \in Seq(Record), BackedBy(p, passes, fails)
       PROVE  BackedBy(p, passes', fails')
  <2>1. \A i \in DOMAIN p : p[i] \in Record
    OBVIOUS
  <2>2. QED  BY <1>8, <1>10, <2>1 DEF BackedBy
<1>11. BackedBy(q, passes', fails')
  <2>1. \A i \in DOMAIN ReadPending : ReadPending[i] \in Record
    BY <1>1
  <2>2. \A i \in DOMAIN q : BackedRecord(q[i], passes', fails')
    BY <1>1, <1>8, <1>9, <2>1 DEF BackedBy
  <2>3. QED  BY <2>2 DEF BackedBy
<1>12. Backed'
  <2>1. BackedBy(queue', passes', fails')
    BY <1>1, <1>4, <1>10 DEF Backed, DataTypes
  <2>2. ASSUME NEW b \in Actor PROVE BackedBy(new'[b], passes', fails')
    <3>1. new[b] \in Seq(Record) /\ BackedBy(new[b], passes, fails)
      BY <1>1 DEF ActorTypes, Backed
    <3>2. new'[b] = IF b = Learner THEN q ELSE new[b]
      BY <1>1, <1>4 DEF ActorTypes
    <3>3. QED  BY <1>10, <1>11, <3>1, <3>2
  <2>3. QED  BY <2>1, <2>2 DEF Backed
<1>13. \E r \in {q[i] : i \in DOMAIN q} : r.id = e
  BY <1>2, <1>5 DEF Ids
<1>14. mine \in {q[i] : i \in DOMAIN q} /\ mine.id = e
  BY <1>13
<1> HIDE DEF mine
<1>15. mine \in Record /\ BackedRecord(mine, passes', fails')
  <2>1. \A i \in DOMAIN q : q[i] \in Record
    BY <1>5
  <2>2. QED  BY <1>11, <1>14, <2>1 DEF BackedBy
<1>16. /\ mine.pass >= Promote => passes'[e] >= Promote
       /\ mine.fail >= RejectAt => fails'[e] >= RejectAt
  <2>1. mine.pass \in Nat /\ mine.fail \in Nat
    BY <1>15 DEF Record
  <2>2. QED  BY <1>1, <1>2, <1>6, <1>14, <1>15, <2>1 DEF BackedRecord
<1>17. then'[Learner] = next
  BY <1>1, <1>4 DEF ActorTypes
<1>18. QED  BY <1>6, <1>12, <1>16, <1>17 DEF e

LEMMA DeservedKept ==
  ASSUME Types, Working, Backed, Deserved, [Next]_vars
  PROVE  Deserved'
<1>0. /\ Learner \in Actor /\ ActorTypes
      /\ \A a \in Actor : pc[a] \notin {"idle", "write", "fill"} => entry[a] \in Entry
      /\ \A a \in Actor : then[a] # "idle" => entry[a] \in Entry
      /\ \A a \in Actor : pc[a] \in {"idle", "promote", "archive"} => then[a] = "idle"
  BY DEF Types, Actor, Working
<1> DEFINE Reasons(a, p, t, e) ==
      /\ p \in {"approve", "promote"} \/ (p \in {"write", "fill"} /\ t = "approve")
           => e \in Confident \/ passes'[e] >= Promote
      /\ p \in {"reject", "archive"} \/ (p \in {"write", "fill"} /\ t = "reject")
           => e \in Worthless \/ fails'[e] >= RejectAt
<1>d. /\ Deserved' <=> \A a \in Actor : Reasons(a, pc'[a], then'[a], entry'[a])
      /\ UNCHANGED verdicts => \A a \in Actor : Reasons(a, pc[a], then[a], entry[a])
  BY DEF Deserved, ToPromote, ToReject, verdicts
<1>1. ASSUME NEW s \in BOOLEAN, Practise(s) PROVE Deserved'
  <2>1. \A e \in Entry : /\ passes[e] >= Promote => passes'[e] >= Promote
                         /\ fails[e] >= RejectAt => fails'[e] >= RejectAt
    BY <1>1, PractiseBacked
  <2>2. \A a \in Actor : Reasons(a, pc[a], then[a], entry[a])
    BY <1>0, <2>1 DEF Deserved, ToPromote, ToReject
  <2>3. /\ then'[Learner] = "approve" => passes'[entry[Learner]] >= Promote
        /\ then'[Learner] = "reject" => fails'[entry[Learner]] >= RejectAt
    BY <1>1, PractiseBacked
  <2>4. /\ pc' = [pc EXCEPT ![Learner] = "write"] /\ entry' = entry
        /\ \A b \in Actor \ {Learner} : then'[b] = then[b]
    BY <1>1, <1>0 DEF Practise, Plan, Goto, ActorTypes
  <2>5. pc'[Learner] = "write" /\ \A b \in Actor \ {Learner} : pc'[b] = pc[b]
    BY <1>0, <2>4 DEF ActorTypes
  <2>6. Reasons(Learner, pc'[Learner], then'[Learner], entry'[Learner])
    BY <2>3, <2>4, <2>5
  <2>7. \A b \in Actor \ {Learner} : Reasons(b, pc'[b], then'[b], entry'[b])
    BY <2>2, <2>4, <2>5
  <2>8. QED  BY <1>d, <2>6, <2>7
<1>2. ASSUME ~ \E s \in BOOLEAN : Practise(s) PROVE Deserved'
  <2>0. UNCHANGED verdicts /\ \A a \in Actor : Reasons(a, pc[a], then[a], entry[a])
    BY <1>2, <1>d, BackedKept
  <2>s. ASSUME NEW a \in Actor, Reasons(a, pc'[a], then'[a], entry'[a]),
               \A b \in Actor \ {a} : pc'[b] = pc[b] /\ then'[b] = then[b] /\ entry'[b] = entry[b]
        PROVE  Deserved'
    BY <1>d, <2>0, <2>s
  <2>1. ASSUME NEW a \in Actor, Truncate(a) \/ PromoteEntry(a) \/ Archive(a) PROVE Deserved'
    BY <1>0, <2>0, <2>1, <2>s, OthersStay DEF Truncate, PromoteEntry, Archive, OnlyMoves
  <2>2. ASSUME NEW a \in Actor, Fill(a) PROVE Deserved'
    <3>1. OnlyMoves(a) /\ pc'[a] \notin {"write", "fill"} /\ pc'[a] # "promote" /\ pc'[a] # "archive"
      BY <1>0, <2>2, OthersStay DEF Fill, ActorTypes
    <3>2. pc[a] = "fill" /\ (pc'[a] \in {"approve", "reject"} => pc'[a] = then[a] /\ entry'[a] = entry[a])
      BY <1>0, <2>2, OthersStay DEF Fill, ActorTypes
    <3>3. Reasons(a, pc'[a], then'[a], entry'[a])
      BY <2>0, <3>1, <3>2
    <3>4. QED  BY <2>s, <3>1, <3>3 DEF OnlyMoves
  <2>3. ASSUME NEW a \in Actor, StoreCopies(a) \/ Trim(a) PROVE Deserved'
    BY <1>0, <2>0, <2>3, <2>s, OthersStay DEF StoreCopies, Trim, OnlyMoves
  <2>4. ASSUME NEW a \in Actor, AutoApprove(a) \/ ApproveRefuses(a) PROVE Deserved'
    BY <1>0, <2>0, <2>4, <2>s, OthersStay DEF AutoApprove, ApproveRefuses, AfterRefusal, OnlyMoves
  <2>5. ASSUME NEW a \in Actor, ApproveReads(a) \/ RejectReads(a) PROVE Deserved'
    BY <1>0, <2>0, <2>5, <2>s, OthersStay DEF ApproveReads, RejectReads, OnlyMoves
  <2>6. ASSUME NEW a \in Actor, StoreDeclined(a) \/ RejectFindsNothing(a) \/ Crash(a)
        PROVE  Deserved'
    BY <1>0, <2>0, <2>6, <2>s, OthersStay DEF StoreDeclined, RejectFindsNothing, Crash, OnlyMoves
  <2>7. ASSUME NEW a \in Actor, DiscardReads(a) \/ Refresh(a) PROVE Deserved'
    BY <1>0, <2>0, <2>7, <2>s, OthersStay DEF DiscardReads, Refresh, OnlyMoves
  <2>8. ASSUME NEW a \in Actor, NEW e, StoreCall(a, e) PROVE Deserved'
    <3>1. OnlyMoves(a) /\ pc'[a] = "copy"
      BY <1>0, <2>8, StartStays DEF StoreCall
    <3>2. QED  BY <2>s, <3>1 DEF OnlyMoves
  <2>9. ASSUME CheckHead \/ PractiseNothing \/ Cleanup PROVE Deserved'
    <3> DEFINE Harmless ==
          /\ OnlyMoves(Learner)
          /\ \/ pc'[Learner] \in {"idle", "discard", "verify"}
             \/ pc'[Learner] = "write" /\ then'[Learner] = "idle"
    <3>1. ASSUME CheckHead PROVE Harmless
      BY <1>0, <3>1, StartStays DEF CheckHead
    <3>2. ASSUME PractiseNothing \/ Cleanup PROVE Harmless
      BY <1>0, <3>2, OthersStay DEF PractiseNothing, Cleanup
    <3>3. Harmless
      BY <2>9, <3>1, <3>2
    <3>4. QED  BY <1>0, <2>s, <3>3 DEF OnlyMoves
  <2>10. ASSUME NEW e \in Confident, MonitorCall(e, "approve") PROVE Deserved'
    <3>1. OnlyMoves(Learner) /\ pc'[Learner] = "approve" /\ entry'[Learner] = e
      BY <1>0, <2>10, StartStays DEF MonitorCall
    <3>2. QED  BY <1>0, <2>10, <2>s, <3>1 DEF OnlyMoves
  <2>11. ASSUME NEW e \in Worthless, MonitorCall(e, "reject") PROVE Deserved'
    <3>1. OnlyMoves(Learner) /\ pc'[Learner] = "reject" /\ entry'[Learner] = e
      BY <1>0, <2>11, StartStays DEF MonitorCall
    <3>2. QED  BY <1>0, <2>11, <2>s, <3>1 DEF OnlyMoves
  <2>12. ASSUME UNCHANGED vars PROVE Deserved'
    BY <2>0, <2>12, <1>d DEF vars, work
  <2>13. QED
    BY <1>2, <2>1, <2>2, <2>3, <2>4, <2>5, <2>6, <2>7, <2>8, <2>9, <2>10, <2>11, <2>12
       DEF Next, Step, CheckStep, MonitorApproves, MonitorRejects
<1>3. QED  BY <1>1, <1>2

LEMMA EarnedKept ==
  ASSUME Types, Working, Backed, Deserved, Earned, [Next]_vars
  PROVE  Earned'
<1>1. active \subseteq Entry /\ rejected \subseteq Entry
  BY DEF Types, DataTypes
<1>2. \A e \in Entry : /\ passes[e] >= Promote => passes'[e] >= Promote
                       /\ fails[e] >= RejectAt => fails'[e] >= RejectAt
  <2>1. CASE \E s \in BOOLEAN : Practise(s)
    BY <2>1, PractiseBacked
  <2>2. CASE ~ \E s \in BOOLEAN : Practise(s)
    BY <2>2, BackedKept DEF verdicts
  <2>3. QED  BY <2>1, <2>2
<1>3. \A e \in active' \ active : e \in Entry /\ (e \in Confident \/ passes'[e] >= Promote)
  <2>1. CASE \E a \in Actor : PromoteEntry(a)
    <3>1. PICK a \in Actor : PromoteEntry(a)
      BY <2>1
    <3>2. active' = active \cup {entry[a]} /\ pc[a] = "promote" /\ entry[a] \in Entry
      BY <3>1 DEF PromoteEntry, Working
    <3>3. QED  BY <1>2, <3>2 DEF Deserved, ToPromote
  <2>2. CASE ~ \E a \in Actor : PromoteEntry(a)
    <3>1. active' = active
      BY <2>2 DEF Next, Step, Truncate, Fill, StoreDeclined, StoreCopies, Trim, AutoApprove,
         ApproveReads, ApproveRefuses, RejectReads, RejectFindsNothing, Archive, DiscardReads,
         Refresh, Crash, StoreCall, CheckStep, CheckHead, Practise, PractiseNothing,
         MonitorApproves, MonitorRejects, MonitorCall, Cleanup, repo, vars
    <3>2. QED  BY <3>1
  <2>3. QED  BY <2>1, <2>2
<1>4. \A e \in rejected' \ rejected : e \in Entry /\ (e \in Worthless \/ fails'[e] >= RejectAt)
  <2>1. CASE \E a \in Actor : Archive(a)
    <3>1. PICK a \in Actor : Archive(a)
      BY <2>1
    <3>2. rejected' = rejected \cup {entry[a]} /\ pc[a] = "archive" /\ entry[a] \in Entry
      BY <3>1 DEF Archive, Working
    <3>3. QED  BY <1>2, <3>2 DEF Deserved, ToReject
  <2>2. CASE ~ \E a \in Actor : Archive(a)
    <3>1. rejected' = rejected
      BY <2>2 DEF Next, Step, Truncate, Fill, StoreDeclined, StoreCopies, Trim, AutoApprove,
         ApproveReads, ApproveRefuses, RejectReads, RejectFindsNothing, PromoteEntry, DiscardReads,
         Refresh, Crash, StoreCall, CheckStep, CheckHead, Practise, PractiseNothing,
         MonitorApproves, MonitorRejects, MonitorCall, Cleanup, repo, vars
    <3>2. QED  BY <3>1
  <2>3. QED  BY <2>1, <2>2
<1>5. QED  BY <1>1, <1>2, <1>3, <1>4 DEF Earned

LEMMA QueueCorrect == Spec => []QueueInv
<1>1. Init => QueueInv
  <2> SUFFICES ASSUME Init PROVE QueueInv
    OBVIOUS
  <2>1. Types /\ Working
    BY TypesStart
  <2>2. OneFills
    BY DEF Init, OneFills
  <2>3. Backed
    BY BackedParts DEF Init, Backed
  <2>4. Deserved /\ Earned
    BY DEF Init, Deserved, ToPromote, ToReject, Earned
  <2>5. QED  BY <2>1, <2>2, <2>3, <2>4 DEF QueueInv
<1>2. QueueInv /\ [Next]_vars => QueueInv'
  <2> SUFFICES ASSUME QueueInv, [Next]_vars PROVE QueueInv'
    OBVIOUS
  <2>1. Types /\ Working /\ OneFills /\ Backed /\ Deserved /\ Earned
    BY DEF QueueInv
  <2>2. Types' /\ Working'
    BY <2>1, ActorTypesKept, DataTypesKept DEF Types
  <2>3. Backed'
    BY <2>1, BackedKept, PractiseBacked
  <2>4. OneFills' /\ Deserved' /\ Earned'
    BY <2>1, OneFillsKept, DeservedKept, EarnedKept
  <2>5. QED  BY <2>2, <2>3, <2>4 DEF QueueInv
<1>3. QED  BY <1>1, <1>2, PTL DEF Spec

\* However the writes of any number of actors overlap and wherever a process
\* dies, an entry is promoted only if the monitor may approve it or after
\* Promote practices that confirmed it, and rejected likewise.
THEOREM PromotionsEarned == Spec => []Earned
<1>1. QueueInv => Earned
  BY DEF QueueInv
<1>2. QED  BY <1>1, QueueCorrect, PTL

-----------------------------------------------------------------------------
(***************************************************************************)
(* Where the entries go: FlowInv is kept by each kind of step              *)
(***************************************************************************)

\* Facts about the actors that every kind of step uses.
LEMMA StoringFacts ==
  ASSUME Types, Working
  PROVE  /\ ActorTypes /\ DataTypes /\ NoEntry \notin Entry /\ Learner \in Actor
         /\ \A a \in Actor : Storing(a) => entry[a] \in Entry
         /\ \A a \in Actor : Ids(new[a]) \subseteq Entry
         /\ Ids(queue) \subseteq Entry
  BY IdsOfRecords, PendingConstants
     DEF Types, ActorTypes, DataTypes, Storing, Working, Actor

\* An actor plans a write of what it has read.
LEMMA PlanFlow ==
  ASSUME FlowState, NEW a \in Actor, NEW label \in {"write", "promote", "archive"}, NEW q, NEW n,
         Plan(a, label, q, n), UNCHANGED <<queue, stale, stored, repo, used>>,
         pc[a] \notin {"write", "fill"},
         discarded \subseteq discarded', discarded' \subseteq Entry,
         discarded' \subseteq discarded \cup Ids(queue)
                                \cup (IF pc[a] = "copy" THEN {} ELSE {entry[a]}),
         n = "trim" => pc[a] = "copy",
         Ids(q) \subseteq Ids(ReadPending) \cup (IF n = "trim" THEN {entry[a]} ELSE {}),
         Ids(ReadPending) \subseteq
           Ids(q) \cup discarded' \cup (IF label \in {"promote", "archive"} THEN {entry[a]} ELSE {})
  PROVE  FlowInv'
<1>0. /\ ActorTypes /\ DataTypes /\ NoEntry \notin Entry
      /\ \A b \in Actor : Storing(b) => entry[b] \in Entry
  BY StoringFacts DEF FlowState
<1>1. Drawn /\ Fresh /\ Planned /\ Kept
  BY DEF FlowState, FlowInv
<1>2. /\ OnlyMoves(a)
      /\ pc'[a] = label /\ then'[a] = n /\ entry'[a] = entry[a] /\ new'[a] = q
  BY <1>0, OthersStay
<1>3. /\ queue' = queue /\ stale' = stale /\ stored' = stored /\ used' = used
      /\ active' = active /\ rejected' = rejected
      /\ Ids(ReadPending) \subseteq Ids(queue)
      /\ \A b \in Actor : behind'[b] = IF b = a THEN torn ELSE behind[b]
      /\ ~torn => ReadPending = queue
      /\ torn \in BOOLEAN
  BY <1>0, Reading DEF Plan, ActorTypes, DataTypes, repo, FlowState
<1>4. Drawn'
  <2>1. Ids(q) \subseteq used
    <3>1. entry[a] = NoEntry => n # "trim"
      BY <1>0 DEF Storing
    <3>2. QED  BY <1>1, <1>3, <3>1 DEF Drawn
  <2>2. discarded' \subseteq used
    BY <1>0, <1>1 DEF Drawn, Outside
  <2>3. \A b \in Actor : Ids(new'[b]) \subseteq used /\ entry'[b] \in used \cup {NoEntry}
    BY <1>1, <1>2, <2>1 DEF Drawn, OnlyMoves
  <2>4. QED  BY <1>1, <1>3, <2>2, <2>3 DEF Drawn, Outside
<1>5. Fresh'
  <2>1. ASSUME NEW b \in Actor, Storing(b)'
        PROVE  Storing(b) /\ (b = a => pc[a] = "copy")
    BY <1>2, <2>1 DEF Storing, OnlyMoves
  <2>2. ASSUME NEW b \in Actor, Storing(b)'
        PROVE  entry'[b] \notin Ids(queue') \cup Outside'
    <3>1. entry'[b] = entry[b] /\ entry[b] \notin Ids(queue) \cup Outside
      BY <1>1, <1>2, <2>1, <2>2 DEF Fresh, OnlyMoves
    <3>2. b # a => entry[a] # entry[b]
      BY <1>1, <2>1, <2>2 DEF Fresh
    <3>3. entry[b] \notin discarded'
      BY <2>1, <2>2, <3>1, <3>2 DEF Outside
    <3>4. QED  BY <1>3, <3>1, <3>3 DEF Outside
  <2>3. ASSUME NEW b \in Actor, Storing(b)', NEW c \in Actor \ {b}
        PROVE  entry'[c] # entry'[b] /\ entry'[b] \notin Ids(new'[c])
    <3>1. entry'[b] = entry[b] /\ entry'[c] = entry[c]
      BY <1>2 DEF OnlyMoves
    <3>2. /\ entry[c] # entry[b] /\ entry[b] \notin Ids(queue) /\ entry[b] \notin Ids(new[c])
      BY <1>1, <2>1, <2>3 DEF Fresh
    <3>3. CASE c = a
      BY <1>2, <1>3, <3>1, <3>2, <3>3
    <3>4. CASE c # a
      BY <1>2, <3>1, <3>2, <3>4 DEF OnlyMoves
    <3>5. QED  BY <3>3, <3>4
  <2>4. QED  BY <2>2, <2>3 DEF Fresh
<1>6. Planned'
  <2>1. ASSUME Current(a)'
        PROVE  /\ Ids(new'[a]) \subseteq Ids(queue') \cup Adds(a)'
               /\ Ids(queue') \subseteq Ids(new'[a]) \cup active' \cup rejected' \cup discarded'
                                          \cup Takes(a)'
    <3>1. ReadPending = queue
      BY <1>2, <1>3, <2>1 DEF Current
    <3>2. QED  BY <1>2, <1>3, <3>1 DEF Adds, Takes
  <2>2. ASSUME NEW b \in Actor \ {a}, Current(b)'
        PROVE  /\ Ids(new'[b]) \subseteq Ids(queue') \cup Adds(b)'
               /\ Ids(queue') \subseteq Ids(new'[b]) \cup active' \cup rejected' \cup discarded'
                                          \cup Takes(b)'
    <3>1. Current(b) /\ Adds(b)' = Adds(b) /\ Takes(b)' = Takes(b) /\ new'[b] = new[b]
      <4>1. /\ pc'[b] = pc[b] /\ then'[b] = then[b] /\ entry'[b] = entry[b] /\ new'[b] = new[b]
            /\ behind'[b] = behind[b] /\ stale' = stale
        BY <1>2, <1>3 DEF OnlyMoves
      <4>2. QED  BY <2>2, <4>1 DEF Current, Adds, Takes
    <3>2. QED  BY <1>1, <1>3, <3>1 DEF Planned
  <2>3. QED  BY <2>1, <2>2 DEF Planned
<1>7. Kept'
  BY <1>1, <1>3 DEF Kept
<1>8. QED  BY <1>4, <1>5, <1>6, <1>7 DEF FlowInv

\* An actor goes on, or ends, without the file; it may have put its entry somewhere.
LEMMA GoFlow ==
  ASSUME FlowState, NEW a \in Actor, OnlyMoves(a), ~Storing(a)',
         UNCHANGED <<queue, stale, stored, used>>,
         \A b \in Actor \ {a} : behind'[b] = behind[b],
         new'[a] \in {new[a], <<>>}, entry'[a] \in {entry[a], NoEntry},
         active \subseteq active', rejected \subseteq rejected', discarded \subseteq discarded',
         Outside' \subseteq Outside \cup {entry[a]}, Outside' \subseteq Entry,
         Storing(a) => Outside' = Outside,
         \/ pc'[a] \notin {"promote", "archive", "write", "fill"}
         \/ /\ pc[a] \in {"promote", "archive"} /\ pc'[a] = "write" /\ entry[a] \in active' \cup rejected'
            /\ new'[a] = new[a] /\ then'[a] = then[a] /\ entry'[a] = entry[a] /\ behind'[a] = behind[a]
  PROVE  FlowInv'
<1>0. /\ ActorTypes /\ DataTypes /\ NoEntry \notin Entry
      /\ \A b \in Actor : Storing(b) => entry[b] \in Entry
  BY StoringFacts DEF FlowState
<1>1. Drawn /\ Fresh /\ Planned /\ Kept
  BY DEF FlowState, FlowInv
<1>2. queue' = queue /\ stale' = stale /\ stored' = stored /\ used' = used
  OBVIOUS
<1>3. Ids(<<>>) = {}
  BY NothingIn
<1>4. Drawn'
  <2>1. \A b \in Actor : Ids(new'[b]) \subseteq used /\ entry'[b] \in used \cup {NoEntry}
    BY <1>1, <1>3 DEF Drawn, OnlyMoves
  <2>2. Outside' \subseteq used
    BY <1>0, <1>1 DEF Drawn
  <2>3. QED  BY <1>1, <1>2, <2>1, <2>2 DEF Drawn
<1>5. Fresh'
  <2> SUFFICES ASSUME NEW b \in Actor, Storing(b)'
               PROVE  /\ entry'[b] \notin Ids(queue') \cup Outside'
                      /\ \A c \in Actor \ {b} :
                           entry'[c] # entry'[b] /\ entry'[b] \notin Ids(new'[c])
    BY DEF Fresh
  <2>1. b # a /\ Storing(b) /\ entry'[b] = entry[b]
    BY DEF Storing, OnlyMoves
  <2>2. /\ entry[b] \notin Ids(queue) \cup Outside /\ entry[b] \in Entry
        /\ \A c \in Actor \ {b} : entry[c] # entry[b] /\ entry[b] \notin Ids(new[c])
    BY <1>0, <1>1, <2>1 DEF Fresh
  <2>3. entry'[b] \notin Ids(queue') \cup Outside'
    BY <1>2, <2>1, <2>2
  <2>4. ASSUME NEW c \in Actor \ {b} PROVE entry'[c] # entry'[b] /\ entry'[b] \notin Ids(new'[c])
    <3>1. CASE c = a
      BY <1>0, <1>3, <2>1, <2>2, <3>1
    <3>2. CASE c # a
      BY <2>1, <2>2, <3>2 DEF OnlyMoves
    <3>3. QED  BY <3>1, <3>2
  <2>5. QED  BY <2>3, <2>4
<1>6. Planned'
  <2>1. ASSUME Current(a)'
        PROVE  /\ Ids(new'[a]) \subseteq Ids(queue') \cup Adds(a)'
               /\ Ids(queue') \subseteq Ids(new'[a]) \cup active' \cup rejected' \cup discarded'
                                          \cup Takes(a)'
    <3>1. /\ Current(a) /\ Adds(a)' = Adds(a) /\ Takes(a) = {entry[a]}
          /\ new'[a] = new[a] /\ entry[a] \in active' \cup rejected'
      BY <2>1 DEF Current, Adds, Takes
    <3>2. QED  BY <1>1, <1>2, <3>1 DEF Planned
  <2>2. ASSUME NEW b \in Actor \ {a}, Current(b)'
        PROVE  /\ Ids(new'[b]) \subseteq Ids(queue') \cup Adds(b)'
               /\ Ids(queue') \subseteq Ids(new'[b]) \cup active' \cup rejected' \cup discarded'
                                          \cup Takes(b)'
    <3>1. Current(b) /\ Adds(b)' = Adds(b) /\ Takes(b)' = Takes(b) /\ new'[b] = new[b]
      <4>1. /\ pc'[b] = pc[b] /\ then'[b] = then[b] /\ entry'[b] = entry[b] /\ new'[b] = new[b]
            /\ behind'[b] = behind[b] /\ stale' = stale
        BY <1>2 DEF OnlyMoves
      <4>2. QED  BY <2>2, <4>1 DEF Current, Adds, Takes
    <3>2. QED  BY <1>1, <1>2, <3>1 DEF Planned
  <2>3. QED  BY <2>1, <2>2 DEF Planned
<1>7. Kept'
  BY <1>1, <1>2 DEF Kept
<1>8. QED  BY <1>4, <1>5, <1>6, <1>7 DEF FlowInv

\* A call starts: a store with an entry never used, another with one of the queue.
LEMMA StartFlow ==
  ASSUME FlowState, NEW a \in Actor, NEW label \in {"copy", "approve", "reject", "discard", "verify"},
         NEW e \in Entry, pc[a] = "idle", Goto(a, label), entry' = [entry EXCEPT ![a] = e],
         UNCHANGED <<queue, stale, stored, repo, discarded, new, then, behind>>,
         \/ label = "copy" /\ e \notin used /\ used' = used \cup {e}
         \/ label # "copy" /\ e \in Ids(queue) /\ used' = used
  PROVE  FlowInv'
<1>0. /\ ActorTypes /\ DataTypes /\ NoEntry \notin Entry
      /\ \A b \in Actor : Storing(b) => entry[b] \in Entry
  BY StoringFacts DEF FlowState
<1>1. Drawn /\ Fresh /\ Planned /\ Kept
  BY DEF FlowState, FlowInv
<1>2. /\ OnlyMoves(a) /\ pc'[a] = label /\ entry'[a] = e
      /\ queue' = queue /\ stale' = stale /\ stored' = stored /\ discarded' = discarded
      /\ active' = active /\ rejected' = rejected
      /\ new' = new /\ then' = then /\ behind' = behind
  BY <1>0, StartStays DEF repo
<1>3. Outside' = Outside
  BY <1>2 DEF Outside
<1>4. Drawn'
  <2>1. \A b \in Actor : Ids(new'[b]) \subseteq used' /\ entry'[b] \in used' \cup {NoEntry}
    BY <1>1, <1>2 DEF Drawn, OnlyMoves
  <2>2. QED  BY <1>1, <1>2, <1>3, <2>1 DEF Drawn
<1>5. Fresh'
  <2> SUFFICES ASSUME NEW b \in Actor, Storing(b)'
               PROVE  /\ entry'[b] \notin Ids(queue') \cup Outside'
                      /\ \A c \in Actor \ {b} :
                           entry'[c] # entry'[b] /\ entry'[b] \notin Ids(new'[c])
    BY DEF Fresh
  <2>1. CASE b = a
    <3>1. e \notin used
      BY <1>2, <2>1 DEF Storing
    <3>2. QED  BY <1>0, <1>1, <1>2, <1>3, <2>1, <3>1 DEF Drawn, OnlyMoves
  <2>2. CASE b # a
    <3>1. Storing(b) /\ entry'[b] = entry[b]
      BY <1>2, <2>2 DEF Storing, OnlyMoves
    <3>2. /\ entry[b] \notin Ids(queue) \cup Outside /\ entry[b] \in used
          /\ \A c \in Actor \ {b} : entry[c] # entry[b] /\ entry[b] \notin Ids(new[c])
      BY <1>0, <1>1, <3>1 DEF Fresh, Drawn
    <3>3. entry[b] # e
      BY <3>2
    <3>4. QED  BY <1>2, <1>3, <3>1, <3>2, <3>3 DEF OnlyMoves
  <2>3. QED  BY <2>1, <2>2
<1>6. Planned'
  <2> SUFFICES ASSUME NEW b \in Actor, Current(b)'
               PROVE  /\ Ids(new'[b]) \subseteq Ids(queue') \cup Adds(b)'
                      /\ Ids(queue') \subseteq Ids(new'[b]) \cup active' \cup rejected' \cup discarded'
                                                 \cup Takes(b)'
    BY DEF Planned
  <2>1. b # a
    BY <1>2 DEF Current
  <2>2. /\ pc'[b] = pc[b] /\ then'[b] = then[b] /\ entry'[b] = entry[b] /\ new'[b] = new[b]
        /\ behind'[b] = behind[b] /\ stale' = stale
    BY <1>2, <2>1 DEF OnlyMoves
  <2>3. Current(b) /\ Adds(b)' = Adds(b) /\ Takes(b)' = Takes(b)
    BY <2>2 DEF Current, Adds, Takes
  <2>4. QED  BY <1>1, <1>2, <2>2, <2>3 DEF Planned
<1>7. Kept'
  BY <1>1, <1>2 DEF Kept
<1>8. QED  BY <1>4, <1>5, <1>6, <1>7 DEF FlowInv

LEMMA TruncateFlow ==
  ASSUME FlowState, NEW a \in Actor, Truncate(a)
  PROVE  FlowInv'
<1>0. ActorTypes /\ DataTypes /\ Working /\ OneFills /\ Drawn /\ Fresh /\ Planned /\ Kept
  BY DEF FlowState, FlowInv, Types
<1>1. /\ OnlyMoves(a) /\ pc[a] = "write" /\ pc'[a] = "fill" /\ ~torn
      /\ then' = then /\ entry' = entry /\ new' = new /\ behind' = behind
      /\ queue' = queue /\ active' = active /\ rejected' = rejected /\ used' = used
      /\ stored' = stored /\ discarded' = discarded /\ stale' = (stale \/ behind[a])
  BY <1>0, OthersStay DEF Truncate, Move, repo, bounds
<1>2. Outside' = Outside
  BY <1>1 DEF Outside
<1>3. Drawn'
  BY <1>0, <1>1, <1>2 DEF Drawn
<1>4. \A b \in Actor : Storing(b)' <=> Storing(b)
  BY <1>1 DEF Storing, OnlyMoves
<1>5. Fresh'
  BY <1>0, <1>1, <1>2, <1>4 DEF Fresh
<1>6. Planned'
  <2> SUFFICES ASSUME NEW b \in Actor, Current(b)'
               PROVE  /\ Ids(new'[b]) \subseteq Ids(queue') \cup Adds(b)'
                      /\ Ids(queue') \subseteq Ids(new'[b]) \cup active' \cup rejected' \cup discarded'
                                                 \cup Takes(b)'
    BY DEF Planned
  <2>1. Current(b)
    <3>1. CASE b = a
      BY <1>1, <3>1 DEF Current
    <3>2. CASE b # a
      BY <1>0, <1>1, <3>2 DEF Current, OnlyMoves, OneFills
    <3>3. QED  BY <3>1, <3>2
  <2>2. Adds(b)' = Adds(b) /\ Takes(b)' = Takes(b)
    BY <1>1 DEF Adds, Takes, OnlyMoves
  <2>3. QED  BY <1>0, <1>1, <2>1, <2>2 DEF Planned
<1>7. Kept'
  BY <1>0, <1>1 DEF Kept
<1>8. QED  BY <1>3, <1>5, <1>6, <1>7 DEF FlowInv

\* Whoever fills the file has the others that are about to write behind.
LEMMA FillFlow ==
  ASSUME FlowState, NEW a \in Actor, Fill(a)
  PROVE  FlowInv'
<1>0. ActorTypes /\ DataTypes /\ Working /\ OneFills /\ Drawn /\ Fresh /\ Planned /\ Kept
  BY DEF FlowState, FlowInv, Types
<1>1. /\ OnlyMoves(a) /\ pc[a] = "fill" /\ pc'[a] \in {"idle", "trim", "auto", "approve", "reject"}
      /\ new'[a] \in {new[a], <<>>} /\ entry'[a] \in {entry[a], NoEntry}
      /\ queue' = new[a] /\ active' = active /\ rejected' = rejected /\ used' = used
      /\ stored' = stored \cup Ids(new[a]) /\ discarded' = discarded /\ stale' = stale
      /\ behind' = Outdated(a)
  <2>1. then[a] \in {"idle", "trim", "auto", "approve", "reject"}
    BY <1>0 DEF ActorTypes
  <2>2. QED  BY <1>0, <2>1, OthersStay DEF Fill, repo, bounds
<1>2. Outside' = Outside \cup Ids(new[a]) /\ Ids(queue') = Ids(new[a]) /\ Ids(<<>>) = {}
  BY <1>1, NothingIn DEF Outside
<1>3. Drawn'
  <2>1. \A b \in Actor : Ids(new'[b]) \subseteq used /\ entry'[b] \in used \cup {NoEntry}
    BY <1>0, <1>1, <1>2 DEF Drawn, OnlyMoves
  <2>2. QED  BY <1>0, <1>1, <1>2, <2>1 DEF Drawn
<1>4. Fresh'
  <2> SUFFICES ASSUME NEW b \in Actor, Storing(b)'
               PROVE  /\ entry'[b] \notin Ids(queue') \cup Outside'
                      /\ \A c \in Actor \ {b} :
                           entry'[c] # entry'[b] /\ entry'[b] \notin Ids(new'[c])
    BY DEF Fresh
  <2>1. b # a /\ Storing(b) /\ entry'[b] = entry[b]
    BY <1>1 DEF Storing, OnlyMoves
  <2>2. /\ entry[b] \notin Ids(queue) \cup Outside /\ entry[b] # NoEntry
        /\ \A c \in Actor \ {b} : entry[c] # entry[b] /\ entry[b] \notin Ids(new[c])
    BY <1>0, <2>1, StoringFacts DEF Fresh, FlowState
  <2>3. entry'[b] \notin Ids(queue') \cup Outside'
    BY <1>2, <2>1, <2>2
  <2>4. ASSUME NEW c \in Actor \ {b} PROVE entry'[c] # entry'[b] /\ entry'[b] \notin Ids(new'[c])
    <3>1. CASE c = a
      BY <1>1, <1>2, <2>1, <2>2, <3>1
    <3>2. CASE c # a
      BY <1>1, <2>1, <2>2, <3>2 DEF OnlyMoves
    <3>3. QED  BY <3>1, <3>2
  <2>5. QED  BY <2>3, <2>4
<1>5. \A b \in Actor : ~Current(b)'
  <2> SUFFICES ASSUME NEW b \in Actor PROVE ~Current(b)'
    OBVIOUS
  <2>1. CASE b = a
    BY <1>1, <2>1 DEF Current
  <2>2. CASE b # a
    BY <1>0, <1>1, <2>2 DEF Current, Outdated, OnlyMoves, OneFills
  <2>3. QED  BY <2>1, <2>2
<1>6. Planned'
  BY <1>5 DEF Planned
<1>7. Kept'
  <2>1. ~stale => Current(a) /\ Takes(a) = {}
    BY <1>1 DEF Current, Takes
  <2>2. ~stale => Ids(queue) \subseteq Ids(new[a]) \cup active \cup rejected \cup discarded
    BY <1>0, <2>1 DEF Planned
  <2>3. QED  BY <1>0, <1>1, <1>2, <2>2 DEF Kept
<1>8. QED  BY <1>3, <1>4, <1>6, <1>7 DEF FlowInv

\* Who dies while it fills the file leaves it empty, which is recorded.
LEMMA CrashFlow ==
  ASSUME FlowState, NEW a \in Actor, Crash(a), pc[a] = "fill"
  PROVE  FlowInv'
<1>0. ActorTypes /\ DataTypes /\ Working /\ OneFills /\ Drawn /\ Fresh /\ Planned /\ Kept
  BY DEF FlowState, FlowInv, Types
<1>1. /\ OnlyMoves(a) /\ pc'[a] = "idle" /\ then'[a] = "idle"
      /\ new'[a] = <<>> /\ entry'[a] = NoEntry
      /\ queue' = <<>> /\ active' = active /\ rejected' = rejected /\ used' = used
      /\ stored' = stored /\ discarded' = discarded /\ stale'
      /\ behind' = Outdated(a)
  BY <1>0, OthersStay DEF Crash, repo
<1>2. Outside' = Outside /\ Ids(queue') = {} /\ Ids(<<>>) = {}
  BY <1>1, NothingIn DEF Outside
<1>3. Drawn'
  <2>1. \A b \in Actor : Ids(new'[b]) \subseteq used /\ entry'[b] \in used \cup {NoEntry}
    BY <1>0, <1>1, <1>2 DEF Drawn, OnlyMoves
  <2>2. QED  BY <1>0, <1>1, <1>2, <2>1 DEF Drawn
<1>4. Fresh'
  <2> SUFFICES ASSUME NEW b \in Actor, Storing(b)'
               PROVE  /\ entry'[b] \notin Ids(queue') \cup Outside'
                      /\ \A c \in Actor \ {b} :
                           entry'[c] # entry'[b] /\ entry'[b] \notin Ids(new'[c])
    BY DEF Fresh
  <2>1. b # a /\ Storing(b) /\ entry'[b] = entry[b]
    BY <1>1 DEF Storing, OnlyMoves
  <2>2. /\ entry[b] \notin Outside /\ entry[b] # NoEntry
        /\ \A c \in Actor \ {b} : entry[c] # entry[b] /\ entry[b] \notin Ids(new[c])
    BY <1>0, <2>1, StoringFacts DEF Fresh, FlowState
  <2>3. ASSUME NEW c \in Actor \ {b} PROVE entry'[c] # entry'[b] /\ entry'[b] \notin Ids(new'[c])
    <3>1. CASE c = a
      BY <1>1, <1>2, <2>1, <2>2, <3>1
    <3>2. CASE c # a
      BY <1>1, <2>1, <2>2, <3>2 DEF OnlyMoves
    <3>3. QED  BY <3>1, <3>2
  <2>4. QED  BY <1>2, <2>1, <2>2, <2>3
<1>5. \A b \in Actor : ~Current(b)'
  <2> SUFFICES ASSUME NEW b \in Actor PROVE ~Current(b)'
    OBVIOUS
  <2>1. CASE b = a
    BY <1>1, <2>1 DEF Current
  <2>2. CASE b # a
    BY <1>0, <1>1, <2>2 DEF Current, Outdated, OnlyMoves, OneFills
  <2>3. QED  BY <2>1, <2>2
<1>6. Planned' /\ Kept'
  BY <1>1, <1>5 DEF Planned, Kept
<1>7. QED  BY <1>3, <1>4, <1>6 DEF FlowInv

LEMMA FlowKept ==
  ASSUME FlowState, [Next]_vars
  PROVE  FlowInv'
<1>0. /\ Types /\ Working /\ ActorTypes /\ DataTypes /\ Learner \in Actor /\ NoEntry \notin Entry
      /\ Types' /\ Working' /\ DataTypes'
      /\ ReadPending \in Seq(Record) /\ Ids(ReadPending) \subseteq Ids(queue)
      /\ \A g : Ids(Without(ReadPending, g)) = Ids(ReadPending) \ g
      /\ \A a \in Actor : pc[a] \notin {"idle", "write", "fill"} => entry[a] \in Entry
      /\ \A a \in Actor : pc[a] \in {"idle", "promote", "archive"} => then[a] = "idle"
  BY Reading, WithoutKeeps, StoringFacts, ActorTypesKept, DataTypesKept DEF FlowState, Working, Types
<1>o. Outside' \subseteq Entry
  BY <1>0 DEF DataTypes, Outside
<1> USE DEF repo, file, check, bounds, history, verdicts
<1>1. ASSUME NEW a \in Actor, StoreCopies(a) PROVE FlowInv'
  <2> DEFINE r == [id |-> entry[a], pass |-> 0, fail |-> 0]
  <2>1. r \in Record /\ r.id = entry[a]
    BY <1>0, <1>1 DEF StoreCopies, Record
  <2>2. Ids(Append(ReadPending, r)) = Ids(ReadPending) \cup {entry[a]}
    BY <1>0, <2>1, Appending
  <2>3. /\ Plan(a, "write", Append(ReadPending, r), "trim") /\ pc[a] = "copy"
        /\ UNCHANGED <<queue, stale, stored, repo, used>> /\ discarded' = discarded
    BY <1>1 DEF StoreCopies
  <2> HIDE DEF r
  <2>4. discarded' \subseteq Entry
    BY <1>0 DEF DataTypes
  <2>5. QED  BY <2>2, <2>3, <2>4, PlanFlow
<1>2. ASSUME NEW a \in Actor, Trim(a) PROVE FlowInv'
  <2> DEFINE kept == SubSeq(ReadPending, Len(ReadPending) - TopicCap + 1, Len(ReadPending))
  <2>1. Ids(kept) \subseteq Ids(ReadPending)
    BY <1>0, <1>2, Trimming, PendingConstants DEF Trim
  <2>2. /\ Plan(a, "write", kept, "auto") /\ pc[a] = "trim"
        /\ UNCHANGED <<queue, stale, stored, repo, used>>
        /\ discarded' = discarded \cup (Ids(ReadPending) \ Ids(kept))
    BY <1>2 DEF Trim
  <2> HIDE DEF kept
  <2>3. discarded' \subseteq Entry
    BY <1>0 DEF DataTypes
  <2>4. QED  BY <1>0, <2>1, <2>2, <2>3, PlanFlow
<1>3. ASSUME NEW a \in Actor, ApproveReads(a) \/ RejectReads(a) PROVE FlowInv'
  <2>1. PICK label \in {"promote", "archive"} :
          Plan(a, label, Without(ReadPending, {entry[a]}), "idle")
    BY <1>3 DEF ApproveReads, RejectReads
  <2>2. /\ pc[a] \in {"approve", "reject"} /\ UNCHANGED <<queue, stale, stored, repo, used>>
        /\ discarded' = discarded
    BY <1>3 DEF ApproveReads, RejectReads
  <2>3. discarded' \subseteq Entry
    BY <1>0 DEF DataTypes
  <2>4. QED  BY <1>0, <2>1, <2>2, <2>3, PlanFlow
<1>4. ASSUME NEW a \in Actor, Refresh(a) PROVE FlowInv'
  <2>1. /\ Plan(a, "write", ReadPending, "idle") /\ pc[a] = "idle"
        /\ UNCHANGED <<queue, stale, stored, repo, used>> /\ discarded' = discarded
    BY <1>4 DEF Refresh, Call
  <2>2. discarded' \subseteq Entry
    BY <1>0 DEF DataTypes
  <2>3. QED  BY <1>0, <2>1, <2>2, PlanFlow
<1>5. ASSUME NEW s \in BOOLEAN, Practise(s) PROVE FlowInv'
  <2> DEFINE q == [i \in DOMAIN ReadPending |-> Counted(entry[Learner], s, ReadPending[i])]
  <2>1. pc[Learner] = "verify" /\ entry[Learner] \in Entry
    BY <1>0, <1>5 DEF Practise
  <2>2. Ids(q) = Ids(ReadPending)
    BY <1>0, <2>1, Practising
  <2>3. PICK next \in {"idle", "approve", "reject"} : Plan(Learner, "write", q, next)
    BY <1>5 DEF Practise
  <2>4. UNCHANGED <<queue, stale, stored, repo, used>> /\ discarded' = discarded
    BY <1>5 DEF Practise
  <2>5. discarded' \subseteq Entry
    BY <1>0 DEF DataTypes
  <2> HIDE DEF q
  <2>6. QED  BY <1>0, <2>1, <2>2, <2>3, <2>4, <2>5, PlanFlow
<1>6. ASSUME Cleanup PROVE FlowInv'
  <2> DEFINE q == ReadPending
             gone == {r.id : r \in {q[i] : i \in {j \in DOMAIN q :
                        q[j].id \in Worthless /\ q[j].pass = 0 /\ q[j].fail = 0}}}
  <2>1. gone \subseteq Ids(ReadPending)
    BY DEF Ids
  <2>2. /\ Plan(Learner, "write", Without(q, gone), "idle") /\ discarded' = discarded \cup gone
        /\ pc[Learner] = "idle" /\ UNCHANGED <<queue, stale, stored, repo, used>>
    BY <1>6 DEF Cleanup, Call
  <2>3. discarded' \subseteq Entry
    BY <1>0 DEF DataTypes
  <2> HIDE DEF gone
  <2>4. QED  BY <1>0, <2>1, <2>2, <2>3, PlanFlow
<1>7. ASSUME NEW a \in Actor, DiscardReads(a) PROVE FlowInv'
  <2>1. /\ pc[a] = "discard" /\ discarded' = discarded \cup {entry[a]}
        /\ UNCHANGED <<queue, stale, stored, repo, used>> /\ entry[a] \in Entry
    BY <1>0, <1>7 DEF DiscardReads
  <2>2. discarded' \subseteq Entry
    BY <1>0 DEF DataTypes
  <2>3. CASE Find(a)
    <3>1. Plan(a, "write", Without(ReadPending, {entry[a]}), "idle")
      BY <1>7, <2>3 DEF DiscardReads
    <3>2. QED  BY <1>0, <2>1, <2>2, <3>1, PlanFlow
  <2>4. CASE ~Find(a)
    <3>1. /\ OnlyMoves(a) /\ pc'[a] = "idle" /\ entry'[a] = NoEntry /\ new'[a] = <<>>
          /\ behind' = behind
      BY <1>0, <1>7, <2>4, OthersStay DEF DiscardReads
    <3>2. Outside' \subseteq Outside \cup {entry[a]} /\ ~Storing(a) /\ ~Storing(a)'
      BY <2>1, <3>1 DEF Outside, Storing
    <3>3. QED  BY <1>o, <2>1, <3>1, <3>2, GoFlow
  <2>5. QED  BY <2>3, <2>4
<1>8. ASSUME NEW a \in Actor, PromoteEntry(a) \/ Archive(a) PROVE FlowInv'
  <2>1. /\ OnlyMoves(a) /\ pc'[a] = "write" /\ pc[a] \in {"promote", "archive"}
        /\ new'[a] = new[a] /\ then'[a] = then[a] /\ entry'[a] = entry[a] /\ behind' = behind
    BY <1>0, <1>8, OthersStay DEF PromoteEntry, Archive
  <2>2. /\ UNCHANGED <<queue, stale, stored, used, discarded>>
        /\ active \subseteq active' /\ rejected \subseteq rejected'
        /\ active' \cup rejected' = active \cup rejected \cup {entry[a]}
    BY <1>8 DEF PromoteEntry, Archive
  <2>3. Outside' \subseteq Outside \cup {entry[a]} /\ ~Storing(a) /\ ~Storing(a)'
    BY <1>0, <2>1, <2>2 DEF Outside, Storing
  <2>4. QED  BY <1>o, <2>1, <2>2, <2>3, GoFlow
<1>9. ASSUME NEW a \in Actor,
             \/ StoreDeclined(a) \/ AutoApprove(a) \/ ApproveRefuses(a) \/ RejectFindsNothing(a)
             \/ Crash(a) /\ pc[a] # "fill"
             \/ PractiseNothing /\ a = Learner
      PROVE  FlowInv'
  <2>1. /\ OnlyMoves(a) /\ pc'[a] \in {"idle", "approve", "discard"}
        /\ new'[a] \in {new[a], <<>>} /\ entry'[a] \in {entry[a], NoEntry}
    BY <1>0, <1>9, OthersStay DEF StoreDeclined, AutoApprove, ApproveRefuses, AfterRefusal,
       RejectFindsNothing, Crash, PractiseNothing
  <2>2. /\ UNCHANGED <<queue, stale, stored, used, discarded, active, rejected>>
        /\ \A b \in Actor \ {a} : behind'[b] = behind[b]
    BY <1>0, <1>9 DEF StoreDeclined, AutoApprove, ApproveRefuses, RejectFindsNothing, Crash,
       PractiseNothing, ActorTypes
  <2>3. Outside' = Outside /\ ~Storing(a)'
    BY <2>1, <2>2 DEF Outside, Storing
  <2>4. QED  BY <1>o, <2>1, <2>2, <2>3, GoFlow
<1>10. ASSUME NEW a \in Actor, NEW e \in Entry, StoreCall(a, e) PROVE FlowInv'
  BY <1>10, StartFlow DEF StoreCall, Call
<1>11. ASSUME CheckHead PROVE FlowInv'
  <2>1. Head(ReadPending).id \in Ids(ReadPending)
    <3>1. ReadPending # <<>>
      BY <1>11 DEF CheckHead
    <3>2. 1 \in DOMAIN ReadPending /\ Head(ReadPending) = ReadPending[1]
      BY <1>0, <3>1
    <3>3. QED  BY <3>2 DEF Ids
  <2>2. PICK label \in {"discard", "verify"} : Goto(Learner, label)
    BY <1>11 DEF CheckHead
  <2>3. /\ pc[Learner] = "idle" /\ entry' = [entry EXCEPT ![Learner] = Head(ReadPending).id]
        /\ UNCHANGED <<queue, stale, stored, repo, discarded, new, then, behind, used>>
    BY <1>11 DEF CheckHead
  <2>4. Head(ReadPending).id \in Entry
    BY <1>0, <2>1, IdsOfRecords
  <2>5. QED  BY <1>0, <2>1, <2>2, <2>3, <2>4, StartFlow
<1>12. ASSUME NEW e \in Ids(ReadPending), NEW label \in {"approve", "reject"}, MonitorCall(e, label)
       PROVE  FlowInv'
  <2>1. e \in Entry
    BY <1>0, IdsOfRecords
  <2>2. QED  BY <1>0, <1>12, <2>1, StartFlow DEF MonitorCall, Call
<1>13. ASSUME UNCHANGED vars PROVE FlowInv'
  <2>1. Outside' = Outside
    BY <1>13 DEF vars, Outside
  <2>2. FlowInv
    BY DEF FlowState
  <2>3. QED
    BY <1>13, <2>1, <2>2 DEF vars, work, FlowInv, Drawn, Fresh, Planned, Kept, Storing, Current,
       Adds, Takes
<1>14. QED
  BY <1>0, <1>1, <1>2, <1>3, <1>4, <1>5, <1>6, <1>7, <1>8, <1>9, <1>10, <1>11, <1>12, <1>13,
     TruncateFlow, FillFlow, CrashFlow
     DEF Next, Step, CheckStep, MonitorApproves, MonitorRejects

-----------------------------------------------------------------------------
(***************************************************************************)
(* Nothing gets lost, nothing comes back, nothing is twice in the queue    *)
(***************************************************************************)

LEMMA TwinsKept ==
  ASSUME FlowState, NoTwins, [Next]_vars
  PROVE  NoTwins'
<1>0. /\ Types /\ ActorTypes /\ DataTypes /\ Working /\ Learner \in Actor
      /\ ReadPending \in Seq(Record) /\ Distinct(ReadPending) /\ Distinct(<<>>)
      /\ \A g : Distinct(Without(ReadPending, g))
      /\ \A a \in Actor : Distinct(new[a]) /\ Distinct(queue)
  BY Reading, WithoutKeeps, NothingIn DEF FlowState, Types, NoTwins, Actor
<1>s. ASSUME queue' = queue, NEW a \in Actor, NEW q, Distinct(q), new' = [new EXCEPT ![a] = q]
      PROVE  NoTwins'
  <2>1. \A b \in Actor : Distinct(new'[b])
    BY <1>0, <1>s DEF ActorTypes
  <2>2. QED  BY <1>0, <1>s, <2>1 DEF NoTwins
<1>u. ASSUME queue' = queue, new' = new PROVE NoTwins'
  BY <1>0, <1>u DEF NoTwins
<1>1. ASSUME NEW a \in Actor, Truncate(a) \/ PromoteEntry(a) \/ Archive(a) PROVE NoTwins'
  BY <1>1, <1>u DEF Truncate, PromoteEntry, Archive, Move, file
<1>2. ASSUME NEW a \in Actor, Fill(a) \/ Crash(a) PROVE NoTwins'
  <2>1. Distinct(queue')
    BY <1>0, <1>2 DEF Fill, Crash, file
  <2>2. \A b \in Actor : Distinct(new'[b])
    BY <1>0, <1>2 DEF Fill, Crash, Finish, Move, ActorTypes
  <2>3. QED  BY <2>1, <2>2 DEF NoTwins
<1>3. ASSUME NEW a \in Actor,
             StoreDeclined(a) \/ RejectFindsNothing(a) \/ AutoApprove(a) \/ ApproveRefuses(a)
      PROVE  NoTwins'
  <2>1. queue' = queue
    BY <1>3 DEF StoreDeclined, RejectFindsNothing, AutoApprove, ApproveRefuses, file
  <2>2. Finish(a) \/ \E l : Move(a, l)
    BY <1>3, Zenon DEF StoreDeclined, RejectFindsNothing, AutoApprove, ApproveRefuses, AfterRefusal
  <2>3. QED  BY <1>0, <1>s, <1>u, <2>1, <2>2 DEF Finish, Move
<1>4. ASSUME NEW a \in Actor, StoreCopies(a) PROVE NoTwins'
  <2> DEFINE r == [id |-> entry[a], pass |-> 0, fail |-> 0]
  <2>1. entry[a] \in Entry /\ entry[a] \notin Ids(queue)
    BY <1>0, <1>4 DEF StoreCopies, Working, FlowState, FlowInv, Fresh, Storing
  <2>2. r \in Record /\ r.id \notin Ids(ReadPending)
    BY <2>1, <1>0, Reading DEF Record
  <2> HIDE DEF r
  <2>3. Distinct(Append(ReadPending, r))
    BY <1>0, <2>2, Appending
  <2>4. QED  BY <1>4, <2>3, <1>s DEF StoreCopies, Plan, file, r
<1>5. ASSUME NEW a \in Actor, Trim(a) PROVE NoTwins'
  <2> DEFINE kept == SubSeq(ReadPending, Len(ReadPending) - TopicCap + 1, Len(ReadPending))
  <2>1. Distinct(kept)
    BY <1>5, <1>0, Trimming, PendingConstants DEF Trim
  <2>2. QED  BY <1>5, <2>1, <1>s DEF Trim, Plan, file
<1>6. ASSUME NEW a \in Actor, ApproveReads(a) \/ RejectReads(a) \/ Refresh(a) \/ DiscardReads(a)
      PROVE  NoTwins'
  BY <1>0, <1>6, <1>s DEF ApproveReads, RejectReads, Refresh, DiscardReads, Plan, Finish, file
<1>7. ASSUME NEW a \in Actor, NEW e, StoreCall(a, e) \/ MonitorCall(e, "approve")
                                     \/ MonitorCall(e, "reject") \/ CheckHead
      PROVE  NoTwins'
  BY <1>7, <1>u DEF StoreCall, MonitorCall, CheckHead, file
<1>8. ASSUME PractiseNothing PROVE NoTwins'
  BY <1>0, <1>8, <1>s DEF PractiseNothing, Finish, file
<1>9. ASSUME NEW s \in BOOLEAN, Practise(s) PROVE NoTwins'
  <2> DEFINE q == [i \in DOMAIN ReadPending |-> Counted(entry[Learner], s, ReadPending[i])]
  <2>1. entry[Learner] \in Entry
    BY <1>0, <1>9 DEF Practise, Working
  <2>2. Distinct(q)
    BY <1>0, <2>1, Practising
  <2> HIDE DEF q
  <2>3. queue' = queue /\ new' = [new EXCEPT ![Learner] = q]
    BY <1>9 DEF Practise, Plan, file, q
  <2>4. QED  BY <1>0, <1>s, <2>2, <2>3
<1>10. ASSUME Cleanup PROVE NoTwins'
  <2>1. PICK gone : Plan(Learner, "write", Without(ReadPending, gone), "idle")
    BY <1>10 DEF Cleanup
  <2>2. queue' = queue
    BY <1>10 DEF Cleanup, file
  <2>3. QED  BY <1>0, <1>s, <2>1, <2>2 DEF Plan
<1>11. ASSUME UNCHANGED vars PROVE NoTwins'
  BY <1>11, <1>u DEF vars, file, work
<1>12. QED
  BY <1>0, <1>1, <1>2, <1>3, <1>4, <1>5, <1>6, <1>7, <1>8, <1>9, <1>10, <1>11
     DEF Next, Step, CheckStep, MonitorApproves, MonitorRejects

LEMMA FlowCorrect == Spec => [](FlowState /\ NoTwins)
<1>1. Init => FlowState /\ NoTwins
  <2> SUFFICES ASSUME Init PROVE FlowState /\ NoTwins
    OBVIOUS
  <2>1. Types /\ Working
    BY TypesStart
  <2>2. /\ Ids(queue) = {} /\ Outside = {} /\ \A a \in Actor : Ids(new[a]) = {} /\ pc[a] = "idle"
        /\ \A a \in Actor : entry[a] = NoEntry
    BY NothingIn DEF Init, Outside
  <2>3. OneFills
    BY DEF Init, OneFills
  <2>4. Drawn /\ Fresh /\ Planned /\ Kept
    BY <2>2 DEF Init, Drawn, Fresh, Planned, Kept, Storing, Current
  <2>5. NoTwins
    BY NothingIn DEF Init, NoTwins
  <2>6. QED  BY <2>1, <2>3, <2>4, <2>5 DEF FlowState, FlowInv
<1>2. FlowState /\ NoTwins /\ [Next]_vars => (FlowState /\ NoTwins)'
  <2> SUFFICES ASSUME FlowState, NoTwins, [Next]_vars PROVE (FlowState /\ NoTwins)'
    OBVIOUS
  <2>1. Types /\ Working /\ OneFills
    BY DEF FlowState
  <2>2. Types' /\ Working'
    BY <2>1, ActorTypesKept, DataTypesKept DEF Types
  <2>3. OneFills' /\ FlowInv' /\ NoTwins'
    BY <2>1, OneFillsKept, FlowKept, TwinsKept
  <2>4. QED  BY <2>2, <2>3 DEF FlowState
<1>3. QED  BY <1>1, <1>2, PTL DEF Spec

LEMMA LengthCounts ==
  ASSUME NEW q \in Seq(Record), Distinct(q)
  PROVE  Len(q) = Cardinality(Ids(q))
<1> DEFINE f == [i \in 1 .. Len(q) |-> q[i].id]
<1>1. Len(q) \in Nat /\ DOMAIN q = 1 .. Len(q)
  OBVIOUS
<1>2. f \in Surjection(1 .. Len(q), Ids(q))
  BY <1>1 DEF Surjection, Ids
<1>3. f \in Injection(1 .. Len(q), Ids(q))
  BY <1>1, <1>2 DEF Injection, IsInjective, Surjection, Distinct
<1>4. f \in Bijection(1 .. Len(q), Ids(q))
  BY <1>2, <1>3 DEF Bijection
<1>5. QED  BY <1>1, <1>4, FS_CountingElements DEF ExistsBijection

\* However reads and writes overlap, the file and every copy that an actor is
\* about to write is a list of records of distinct entries.
THEOREM PendingTypeCorrect == Spec => []PendingTypeOK
<1>1. FlowState /\ NoTwins => PendingTypeOK
  <2> SUFFICES ASSUME FlowState, NoTwins PROVE PendingTypeOK
    OBVIOUS
  <2>1. ActorTypes /\ DataTypes
    BY DEF FlowState, Types
  <2>2. \A q \in {queue} \cup {new[a] : a \in Actor} : q \in Seq(Record) /\ Distinct(q)
    BY <2>1 DEF ActorTypes, DataTypes, NoTwins
  <2>3. ASSUME NEW q \in {queue} \cup {new[a] : a \in Actor}
        PROVE  (\A i \in DOMAIN q : q[i] \in Record) /\ Len(q) = Cardinality(Ids(q))
    <3>1. q \in Seq(Record) /\ Distinct(q)
      BY <2>2
    <3>2. QED  BY <3>1, LengthCounts
  <2>4. then \in [Actor -> Labels]
    <3>1. {"idle", "trim", "auto", "approve", "reject"} \subseteq Labels
      BY DEF Labels
    <3>2. QED  BY <2>1, <3>1 DEF ActorTypes
  <2>5. QED  BY <2>1, <2>3, <2>4 DEF PendingTypeOK, ActorTypes, DataTypes
<1>2. QED  BY <1>1, FlowCorrect, PTL

\* As long as no write has undone another, an entry that was in the file is in
\* it, promoted, in the archive or was to be discarded, wherever a process dies.
THEOREM EntriesAccounted == Spec => []Accounted
<1>1. FlowState => Accounted
  BY DEF FlowState, FlowInv, Kept, Accounted
<1>2. QED  BY <1>1, FlowCorrect, PTL

\* Only a write computed from an outdated copy puts an entry back that has left
\* the queue.
THEOREM EntriesStayOut == Spec => NoReturn
<1> DEFINE Return == \A e \in (active \cup rejected \cup discarded) \ Ids(queue) :
                       e \in Ids(queue') => stale'
<1>1. FlowState /\ [Next]_vars => [Return]_vars
  <2> SUFFICES ASSUME FlowState, Next,
                      NEW e \in (active \cup rejected \cup discarded) \ Ids(queue), e \in Ids(queue')
               PROVE  stale'
    BY DEF vars
  <2>1. CASE \E a \in Actor : Fill(a)
    <3>1. PICK a \in Actor : Fill(a)
      BY <2>1
    <3>2. queue' = new[a] /\ stale' = stale /\ pc[a] = "fill"
      BY <3>1 DEF Fill
    <3>3. SUFFICES ASSUME ~stale PROVE FALSE
      BY <3>2 DEF FlowState, Types, DataTypes
    <3>4. Ids(new[a]) \subseteq Ids(queue) \cup Adds(a)
      BY <3>2, <3>3 DEF FlowState, FlowInv, Planned, Current
    <3>5. then[a] = "trim" /\ e = entry[a]
      BY <3>2, <3>4 DEF Adds
    <3>6. entry[a] \notin Outside
      BY <3>2, <3>5 DEF FlowState, FlowInv, Fresh, Storing
    <3>7. QED  BY <3>5, <3>6 DEF Outside
  <2>2. CASE \E a \in Actor : Crash(a) /\ pc[a] = "fill"
    BY <2>2 DEF Crash
  <2>3. CASE /\ ~ \E a \in Actor : Fill(a)
             /\ ~ \E a \in Actor : Crash(a) /\ pc[a] = "fill"
    <3>1. queue' = queue
      BY <2>3 DEF Next, Step, Truncate, StoreDeclined, StoreCopies, Trim, AutoApprove,
         ApproveReads, ApproveRefuses, RejectReads, RejectFindsNothing, PromoteEntry, Archive,
         DiscardReads, Refresh, Crash, StoreCall, CheckStep, CheckHead, Practise, PractiseNothing,
         MonitorApproves, MonitorRejects, MonitorCall, Cleanup, file
    <3>2. QED  BY <3>1
  <2>4. QED  BY <2>1, <2>2, <2>3
<1>2. QED  BY <1>1, FlowCorrect, PTL DEF Spec, NoReturn
=============================================================================
