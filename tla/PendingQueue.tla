---------------------------- MODULE PendingQueue ----------------------------
(***************************************************************************)
(* The quarantine of new knowledge, pending.json (learn/knowledge.py).     *)
(* Threads of the API store entries; the learner's main loop stores some,  *)
(* practises the one at the head of the queue (learn/scheduler.py) until   *)
(* it is promoted, rejected or discarded, and lets its monitor approve and *)
(* reject (learn/monitor.py).                                              *)
(*                                                                         *)
(* Every operation reads the whole file, computes, and writes the whole    *)
(* file.  Only the write is guarded (WriteGuard: writers exclude each      *)
(* other), and it truncates the file before it fills it; a reader who      *)
(* comes in between takes the queue for empty.  Two operations that        *)
(* overlap lose what the first has written: "stale" records that one did.  *)
(***************************************************************************)
EXTENDS Naturals, Sequences, FiniteSets, Ranks

CONSTANTS
  Entry, NoEntry,
  Confident,   \* entries of a confidence from 0.6 on, which the monitor approves
  Worthless,   \* entries of confidence 0, which it rejects
  Api,         \* threads of the API processes
  Learner,     \* the learner's main loop
  Promote,     \* _VALIDATION_THRESHOLD
  Streak,      \* checks of one entry in a row (L3)
  Attempts,    \* practices of one entry (L1)
  MaxPending,  \* the backpressure's limit
  TopicCap,    \* _MAX_ENTRIES_PER_TOPIC; all entries are of one topic
  MaxCalls,    \* bound: calls other than checks
  MaxCrashes   \* bound: deaths of a process

ASSUME PendingConstants ==
  /\ NoEntry \notin Entry /\ Confident \cup Worthless \subseteq Entry
  /\ Learner \notin Api
  /\ {Promote, Streak, Attempts, MaxPending, TopicCap} \subseteq Nat \ {0}
  /\ {MaxCalls, MaxCrashes} \subseteq Nat

Actor == Api \cup {Learner}
RejectAt == 2 * Promote

VARIABLES
  queue, torn,   \* pending.json: its list, or truncated
  active,        \* entries of the active repository
  rejected,      \* entries in rejected.json
  pc, entry,     \* pc[a]: where actor a is, and with which entry
  new, behind,   \* what it will write, and if the file has changed meanwhile
  then,          \* where it goes on after the write
  streak, last,  \* _pending_streak as far as it matters, _last_pending_eid
  used, calls, crashes,
  stored,        \* history: entries that were in the file
  discarded,     \* history: entries that were meant to leave for nowhere
  passes, fails, \* history: verdicts on each entry, as far as they matter
  stale          \* history: a write undid another, or was cut short

file == <<queue, torn>>
repo == <<active, rejected>>
work == <<pc, entry, new, behind, then>>
check == <<streak, last>>
bounds == <<used, calls, crashes>>
verdicts == <<passes, fails>>
history == <<stored, discarded, verdicts, stale>>
vars == <<file, repo, work, check, bounds, history>>

Upto(bound, n) == IF n > bound THEN bound ELSE n
Ids(q) == {q[i].id : i \in DOMAIN q}

\* The records of q but those of the entries gone.
Without(q, gone) == InOrder(q, {i \in DOMAIN q : q[i].id \notin gone})

Labels == {"idle", "copy", "write", "fill", "trim", "auto", "approve",
           "promote", "reject", "archive", "verify", "discard"}
Record == [id : Entry, pass : Nat, fail : Nat]

PendingTypeOK ==
  /\ \A q \in {queue} \cup {new[a] : a \in Actor} :
       /\ \A i \in DOMAIN q : q[i] \in Record
       /\ Len(q) = Cardinality(Ids(q))
  /\ pc \in [Actor -> Labels] /\ then \in [Actor -> Labels]
  /\ behind \in [Actor -> BOOLEAN]
  /\ entry \in [Actor -> Entry \cup {NoEntry}]
  /\ {active, rejected, used, stored, discarded} \subseteq SUBSET Entry
  /\ streak \in 0 .. Streak /\ last \in Entry \cup {NoEntry}
  /\ calls \in 0 .. MaxCalls /\ crashes \in 0 .. MaxCrashes
  /\ {torn, stale} \subseteq BOOLEAN

Init ==
  /\ queue = <<>> /\ torn = FALSE /\ active = {} /\ rejected = {}
  /\ pc = [a \in Actor |-> "idle"] /\ then = [a \in Actor |-> "idle"]
  /\ entry = [a \in Actor |-> NoEntry]
  /\ new = [a \in Actor |-> <<>>] /\ behind = [a \in Actor |-> FALSE]
  /\ streak = 0 /\ last = NoEntry
  /\ used = {} /\ calls = 0 /\ crashes = 0
  /\ stored = {} /\ discarded = {} /\ stale = FALSE
  /\ passes = [e \in Entry |-> 0] /\ fails = [e \in Entry |-> 0]

-----------------------------------------------------------------------------
(***************************************************************************)
(* The file                                                                *)
(***************************************************************************)

\* _read_pending: nothing, if the file cannot be parsed.
ReadPending == IF torn THEN <<>> ELSE queue

\* An actor makes its plan of what it reads, and is done with it, or goes on.
Goto(a, label) == pc' = [pc EXCEPT ![a] = label]
Finish(a) ==
  /\ Goto(a, "idle")
  /\ entry' = [entry EXCEPT ![a] = NoEntry]
  /\ new' = [new EXCEPT ![a] = <<>>]
  /\ then' = [then EXCEPT ![a] = "idle"]
Move(a, label) == Goto(a, label) /\ UNCHANGED <<entry, new, then>>
Plan(a, label, q, next) ==
  /\ Goto(a, label)
  /\ behind' = [behind EXCEPT ![a] = torn]
  /\ new' = [new EXCEPT ![a] = q]
  /\ then' = [then EXCEPT ![a] = next]
  /\ UNCHANGED entry

\* Who has read the file and not written it yet, when actor a writes.
Outdated(a) ==
  [b \in Actor |-> b # a /\ pc[b] \in {"promote", "archive", "write"}]

\* _write_pending, in the guard: write_text truncates ...
Truncate(a) ==
  /\ pc[a] = "write" /\ ~torn
  /\ torn' = TRUE
  /\ stale' = (stale \/ behind[a])
  /\ Move(a, "fill")
  /\ UNCHANGED <<behind, queue, repo, check, bounds, stored, discarded, verdicts>>

\* ... and fills the file.
Fill(a) ==
  /\ pc[a] = "fill"
  /\ queue' = new[a] /\ torn' = FALSE
  /\ stored' = stored \cup Ids(new[a])
  /\ behind' = Outdated(a)
  /\ IF then[a] = "idle" THEN Finish(a) ELSE Move(a, then[a])
  /\ UNCHANGED <<repo, check, bounds, discarded, verdicts, stale>>

-----------------------------------------------------------------------------
(***************************************************************************)
(* store_pending                                                           *)
(***************************************************************************)

Call(a) == pc[a] = "idle" /\ calls < MaxCalls /\ calls' = calls + 1

\* Mutant: the id is made of what is stored (content_hash), not drawn anew.
StoreCallByHash(a, e) ==
  /\ Call(a) /\ e \notin Ids(queue)
  /\ Len(ReadPending) < MaxPending
  /\ used' = used \cup {e}
  /\ Goto(a, "copy") /\ entry' = [entry EXCEPT ![a] = e]
  /\ UNCHANGED <<file, repo, new, behind, then, check, crashes, history>>

\* The backpressure reads the file once ...
StoreCall(a, e) ==
  /\ Call(a) /\ e \notin used
  /\ Len(ReadPending) < MaxPending
  /\ used' = used \cup {e}
  /\ Goto(a, "copy") /\ entry' = [entry EXCEPT ![a] = e]
  /\ UNCHANGED <<file, repo, new, behind, then, check, crashes, history>>

\* (bad topic, sanity, topic discarded lately, or title in the repository)
StoreDeclined(a) ==
  /\ pc[a] = "copy"
  /\ Finish(a)
  /\ UNCHANGED <<behind, file, repo, check, bounds, history>>

\* ... and the search for duplicates once more, for the copy it adds to.
StoreCopies(a) ==
  /\ pc[a] = "copy"
  /\ Plan(a, "write",
          Append(ReadPending, [id |-> entry[a], pass |-> 0, fail |-> 0]), "trim")
  /\ UNCHANGED <<file, repo, check, bounds, history>>

\* A title that is in the queue is brought up to date there.
Refresh(a) ==
  /\ Call(a) /\ ReadPending # <<>>
  /\ Plan(a, "write", ReadPending, "idle")
  /\ UNCHANGED <<file, repo, check, used, crashes, history>>

\* _event_trigger_cleanup: the oldest beyond the cap go.
Trim(a) ==
  LET q == ReadPending
      kept == SubSeq(q, Len(q) - TopicCap + 1, Len(q))
  IN  /\ pc[a] = "trim" /\ Len(q) > TopicCap
      /\ Plan(a, "write", kept, "auto")
      /\ discarded' = discarded \cup (Ids(q) \ Ids(kept))
      /\ UNCHANGED <<file, repo, check, bounds, stored, verdicts, stale>>

\* Confidence from 0.7 on is approved at once, unless the title is too short.
AutoApprove(a) ==
  /\ \/ pc[a] = "trim" /\ Len(ReadPending) <= TopicCap
     \/ pc[a] = "auto"
  /\ \/ entry[a] \in Confident /\ Move(a, "approve")
     \/ Finish(a)
  /\ UNCHANGED <<behind, file, repo, check, bounds, history>>

-----------------------------------------------------------------------------
(***************************************************************************)
(* approve, reject, discard_pending                                        *)
(***************************************************************************)

Find(a) == entry[a] \in Ids(ReadPending)

\* What the caller does with an entry that was not there, or was refused:
\* the check discards it, a store and the monitor leave it.
AfterRefusal(a) == IF then[a] = "approve" THEN Move(a, "discard") ELSE Finish(a)

ApproveReads(a) ==
  /\ pc[a] = "approve" /\ Find(a)
  /\ Plan(a, "promote", Without(ReadPending, {entry[a]}), "idle")
  /\ UNCHANGED <<file, repo, check, bounds, history>>

\* Unknown by now, bad topic, or too similar to an active entry.
ApproveRefuses(a) ==
  /\ pc[a] = "approve"
  /\ AfterRefusal(a)
  /\ UNCHANGED <<behind, file, repo, check, bounds, history>>

\* _write_entry and add_to_index, before the queue is written.
PromoteEntry(a) ==
  /\ pc[a] = "promote"
  /\ active' = active \cup {entry[a]}
  /\ Move(a, "write")
  /\ UNCHANGED <<behind, file, rejected, check, bounds, history>>

\* Mutant: the queue is written before rejected.json.
RejectQueueFirst(a) ==
  /\ pc[a] = "reject" /\ Find(a)
  /\ Plan(a, "write", Without(ReadPending, {entry[a]}), "archive")
  /\ UNCHANGED <<file, repo, check, bounds, history>>

RejectReads(a) ==
  /\ pc[a] = "reject" /\ Find(a)
  /\ Plan(a, "archive", Without(ReadPending, {entry[a]}), "idle")
  /\ UNCHANGED <<file, repo, check, bounds, history>>

RejectFindsNothing(a) ==
  /\ pc[a] = "reject" /\ ~Find(a)
  /\ Finish(a)
  /\ UNCHANGED <<behind, file, repo, check, bounds, history>>

\* _write_rejected
Archive(a) ==
  /\ pc[a] = "archive"
  /\ rejected' = rejected \cup {entry[a]}
  /\ Move(a, "write")
  /\ UNCHANGED <<behind, file, active, check, bounds, history>>

\* Mutant: discard_pending writes what it has read.
DiscardForgets(a) ==
  /\ pc[a] = "discard"
  /\ Plan(a, "write", ReadPending, "idle")
  /\ discarded' = discarded \cup {entry[a]}
  /\ UNCHANGED <<file, repo, check, bounds, stored, verdicts, stale>>

DiscardReads(a) ==
  /\ pc[a] = "discard"
  /\ IF Find(a) THEN Plan(a, "write", Without(ReadPending, {entry[a]}), "idle")
     ELSE Finish(a) /\ UNCHANGED behind
  /\ discarded' = discarded \cup {entry[a]}
  /\ UNCHANGED <<file, repo, check, bounds, stored, verdicts, stale>>

-----------------------------------------------------------------------------
(***************************************************************************)
(* check_pending_promotions                                                *)
(***************************************************************************)

\* The head of the queue is checked: too many practices (L1), too long at
\* the head (L3), too many failures, or one more practice, an LLM call.
CheckHead ==
  LET h == Head(ReadPending)
      again == IF h.id = last THEN Upto(Streak, streak + 1) ELSE 0
  IN  /\ pc[Learner] = "idle" /\ ReadPending # <<>>
      /\ entry' = [entry EXCEPT ![Learner] = h.id]
      /\ IF h.pass >= Attempts THEN UNCHANGED check
         ELSE last' = h.id /\ streak' = again
      /\ Goto(Learner, IF \/ h.pass >= Attempts \/ again >= Streak
                          \/ h.fail >= RejectAt
                       THEN "discard" ELSE "verify")
      /\ UNCHANGED <<file, repo, new, behind, then, bounds, history>>

\* Mutant: every practice counts, whatever its verdict.
CountedAlways(e, success, r) ==
  IF r.id # e THEN r
  ELSE [r EXCEPT !.pass = @ + 1, !.fail = IF success THEN @ ELSE @ + 1]

\* practice_verify with the verdict of the LLM.
Counted(e, success, r) ==
  IF r.id # e THEN r
  ELSE IF success THEN [r EXCEPT !.pass = @ + 1] ELSE [r EXCEPT !.fail = @ + 1]

Practise(success) ==
  LET e == entry[Learner]
      q == [i \in DOMAIN ReadPending |-> Counted(e, success, ReadPending[i])]
      mine == CHOOSE r \in {q[i] : i \in DOMAIN q} : r.id = e
  IN  /\ pc[Learner] = "verify" /\ Find(Learner)
      /\ Plan(Learner, "write", q,
              IF mine.pass >= Promote THEN "approve"
              ELSE IF mine.fail >= RejectAt THEN "reject" ELSE "idle")
      /\ IF success THEN passes' = [passes EXCEPT ![e] = Upto(Promote, @ + 1)] /\ UNCHANGED fails
         ELSE fails' = [fails EXCEPT ![e] = Upto(RejectAt, @ + 1)] /\ UNCHANGED passes
      /\ UNCHANGED <<file, repo, check, bounds, stored, discarded, stale>>

PractiseNothing ==
  /\ pc[Learner] = "verify" /\ ~Find(Learner)
  /\ Finish(Learner)
  /\ UNCHANGED <<behind, file, repo, check, bounds, history>>

-----------------------------------------------------------------------------
(***************************************************************************)
(* The monitor and the cleanup, in the learner's loop too                  *)
(***************************************************************************)

MonitorCall(e, label) ==
  /\ Call(Learner)
  /\ Goto(Learner, label) /\ entry' = [entry EXCEPT ![Learner] = e]
  /\ UNCHANGED <<file, repo, new, behind, then, check, used, crashes, history>>

MonitorApproves == \E e \in Confident \cap Ids(ReadPending) : MonitorCall(e, "approve")
MonitorRejects == \E e \in Worthless \cap Ids(ReadPending) : MonitorCall(e, "reject")

\* cleanup_low_value_knowledge
Cleanup ==
  LET q == ReadPending
      gone == {r.id : r \in {q[i] : i \in {j \in DOMAIN q :
                 q[j].id \in Worthless /\ q[j].pass = 0 /\ q[j].fail = 0}}}
  IN  /\ Call(Learner) /\ gone # {}
      /\ Plan(Learner, "write", Without(q, gone), "idle")
      /\ discarded' = discarded \cup gone
      /\ UNCHANGED <<file, repo, check, used, crashes, stored, verdicts, stale>>

-----------------------------------------------------------------------------
\* The process of actor a dies; a file that it had truncated stays empty.
Crash(a) ==
  /\ pc[a] # "idle" /\ crashes < MaxCrashes
  /\ crashes' = crashes + 1
  /\ IF pc[a] = "fill"
     THEN queue' = <<>> /\ torn' = FALSE /\ stale' = TRUE /\ behind' = Outdated(a)
     ELSE behind' = [behind EXCEPT ![a] = FALSE] /\ UNCHANGED <<file, stale>>
  /\ IF a = Learner THEN streak' = 0 /\ last' = NoEntry ELSE UNCHANGED check
  /\ Finish(a)
  /\ UNCHANGED <<repo, used, calls, stored, discarded, verdicts>>

Step(a) ==
  \/ Truncate(a) \/ Fill(a)
  \/ StoreDeclined(a) \/ StoreCopies(a) \/ Trim(a) \/ AutoApprove(a)
  \/ ApproveReads(a) \/ ApproveRefuses(a) \/ PromoteEntry(a)
  \/ RejectReads(a) \/ RejectFindsNothing(a) \/ Archive(a) \/ DiscardReads(a)

CheckStep == CheckHead \/ (\E s \in BOOLEAN : Practise(s)) \/ PractiseNothing

Next ==
  \/ \E a \in Actor : Step(a) \/ Refresh(a) \/ Crash(a)
  \/ \E a \in Actor, e \in Entry : StoreCall(a, e)
  \/ CheckStep \/ MonitorApproves \/ MonitorRejects \/ Cleanup

Spec == Init /\ [][Next]_vars

\* A call that has begun goes on, and the loop comes back to the check.
Fairness ==
  /\ \A a \in Api : WF_vars(Step(a))
  /\ WF_vars(Step(Learner) \/ CheckStep)

FairSpec == Spec /\ Fairness

-----------------------------------------------------------------------------
(***************************************************************************)
(* Properties                                                              *)
(***************************************************************************)

\* No entry that was in the queue gets lost, wherever a process dies, as long
\* as no operation has overwritten what another wrote meanwhile: it is in the
\* queue, promoted, in the archive of the rejected, or was to be discarded.
Accounted ==
  ~stale /\ ~torn => stored \subseteq Ids(queue) \cup active \cup rejected \cup discarded

\* Whatever is overwritten, an entry without high confidence is promoted only
\* after Promote practices that the LLM confirmed, and one of some confidence
\* rejected only after twice as many that it did not ("5 successful practices
\* -> auto promote to active", scheduler.py:158).
Earned ==
  /\ \A e \in active \ Confident : passes[e] >= Promote
  /\ \A e \in rejected \ Worthless : fails[e] >= RejectAt

\* No entry stays in quarantine for good: the head of the queue is promoted,
\* rejected or discarded after a number of checks, and so is the next, also
\* if overlapping writes bring entries back or reset their counts.
Settled == \A e \in Entry : (e \in Ids(queue)) ~> (e \notin Ids(queue))

\* An entry that has left the queue is back in it only after a write that was
\* computed from what was in the queue before.
NoReturn ==
  [][\A e \in (active \cup rejected \cup discarded) \ Ids(queue) :
       e \in Ids(queue') => stale']_vars

=============================================================================
