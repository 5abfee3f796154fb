------------------------------ MODULE ChatTurns ------------------------------
(***************************************************************************)
(* Chat turns in the API process: server/service_chat.py (the pipeline),   *)
(* server/routes_chat.py (the streaming endpoint and what follows it),     *)
(* storage/db.py (the stored conversation), server/session_manager.py.     *)
(*                                                                         *)
(* The handlers are coroutines that never await, so each runs to its end   *)
(* on the event loop: one step.  What runs beside them are the generator   *)
(* of a stream and the thread that finishes it.  A user has one session.   *)
(* Whether a turn is refused (safety rules, the topic fuse, experts) is a  *)
(* choice.                                                                 *)
(***************************************************************************)
EXTENDS Naturals, Sequences, FiniteSets, Ranks

CONSTANTS Users, Questions,
          Requests,          \* the turns of the instance, in the order they are sent
          Owner, Asks,       \* of each turn, its user and its message
          Streamable,        \* turns that may be sent to the streaming endpoint
          Pages,             \* users whose page posts and deletes what it shows
          Folders, FolderOf, \* the directories of snapshots, and each user's
          NoTurn, NoUser,
          MaxUpsets          \* how often a session is deleted or the process ends

ASSUME TurnConstants ==
    /\ Owner \in [Requests -> Users]
    /\ Asks \in [Requests -> Questions]
    /\ Requests \subseteq Nat /\ NoTurn \notin Requests
    /\ FolderOf \in [Users -> Folders]
    /\ Streamable \subseteq Requests /\ Pages \subseteq Users /\ NoUser \notin Users
    /\ MaxUpsets \in Nat

VARIABLES
    cache,       \* of a user and a message, the cached context
    correction,  \* of a user, the correction waiting for the next prompt
    snapshot,    \* of a directory, whose conversation its last snapshot is of
    session,     \* whether the user's session has a row
    rows,        \* the stored messages of the session
    count,       \* its message_count
    pc,          \* where each turn is
    collected,   \* what the stream of a turn has produced
    \* what properties compare with; no guard reads them
    shown,       \* of a turn, the users whose words its prompt quotes ...
    recalled,    \* ... and those it quotes from a snapshot
    corrects,    \* turns that left a correction
    carried,     \* of a turn, the correction its prompt carried
    forgotten,   \* corrections that were waiting when the process ended
    unstored,    \* turns of which a save failed, or whose session was deleted since
    upsets

vars == <<cache, correction, snapshot, session, rows, count, pc, collected,
          shown, recalled, corrects, carried, forgotten, unstored, upsets>>

memory    == <<cache, correction>>
stored    == <<session, rows, count>>
histories == <<shown, recalled, corrects, carried, forgotten, unstored>>

Rows == [role : {"user"}, of : Questions]
          \cup [role : {"assistant"}, of : Requests, as : {"saved", "shown"}]
Entry == [about : SUBSET Users, fresh : BOOLEAN]
NoEntry == [about |-> {}, fresh |-> FALSE]

Stages == {"new", "refused", "answered", "streaming", "ended", "saving", "saved",
           "finished", "gone"}

(***************************************************************************)
(* Messages as they are compared: a question by its text; an answer is the *)
(* text the stream collected.  After a tool call the collected text is     *)
(* replaced, so that the page, which shows what was streamed before it     *)
(* too, holds another text than the server.                                *)
(***************************************************************************)
Question(r) == [role |-> "user", of |-> Asks[r]]
Answer(r)   == [role |-> "assistant", of |-> r, as |-> "saved"]
OnPage(r)   == [Answer(r) EXCEPT !.as = IF collected[r] = "tool" THEN "shown" ELSE "saved"]

Holds(u, row) == \E i \in DOMAIN rows[u] : rows[u][i] = row

Received(r) == \/ pc[r] = "answered"
               \/ pc[r] \in {"ended", "saving", "saved", "finished"} /\ collected[r] # "nothing"

ChatTypeOK ==
    /\ cache \in [Users -> [Questions -> Entry]]
    /\ correction \in [Users -> Requests \cup {NoTurn}]
    /\ snapshot \in [Folders -> Users \cup {NoUser}]
    /\ session \in [Users -> BOOLEAN]
    /\ rows \in [Users -> Seq(Rows)]
    /\ count \in [Users -> Nat]
    /\ pc \in [Requests -> Stages]
    /\ collected \in [Requests -> {"nothing", "text", "tool"}]

Init ==
    /\ cache = [u \in Users |-> [q \in Questions |-> NoEntry]]
    /\ correction = [u \in Users |-> NoTurn]
    /\ snapshot = [f \in Folders |-> NoUser]
    /\ session = [u \in Users |-> FALSE]
    /\ rows = [u \in Users |-> <<>>]
    /\ count = [u \in Users |-> 0]
    /\ pc = [r \in Requests |-> "new"]
    /\ collected = [r \in Requests |-> "nothing"]
    /\ shown = [r \in Requests |-> {}] /\ recalled = [r \in Requests |-> {}]
    /\ corrects = {} /\ forgotten = {} /\ unstored = {}
    /\ carried = [r \in Requests |-> NoTurn]
    /\ upsets = 0

\* A page sends its next message when the one before has been dealt with or given up.
Arrives(r) ==
    /\ pc[r] = "new"
    /\ \A s \in Requests : Owner[s] = Owner[r] /\ s < r => pc[s] \notin {"new", "streaming"}

Goes(r, stage) == pc' = [pc EXCEPT ![r] = stage]

(***************************************************************************)
(* The context of a prompt, as the users whose words it quotes.  A reference    *)
(* phrase quotes the last answers; the cache keeps the context as it stood *)
(* when the message was looked up, that quotation included.                *)
(***************************************************************************)
ReferenceTo(r) == {Owner[s] : s \in {s \in Requests : Owner[s] = Owner[r] /\ s < r /\ Received(s)}}

\* Mutant: one cache for all users.
SharedKnowledge(r, quoted) ==
    LET hits == {u \in Users : cache[u][Asks[r]].fresh}
    IN  quoted \cup UNION {cache[u][Asks[r]].about : u \in hits}

EnhanceWithKnowledge(r, quoted) ==
    LET entry == cache[Owner[r]][Asks[r]]
    IN  quoted \cup IF entry.fresh THEN entry.about ELSE {}

CacheAfter(r, quoted) ==
    IF cache[Owner[r]][Asks[r]].fresh
    THEN cache
    ELSE [cache EXCEPT ![Owner[r]][Asks[r]] = [about |-> quoted, fresh |-> TRUE]]

\* _user_dir: characters that a path may not hold become "_", so that users who
\* differ in them alone have one directory, and the latest snapshot of any of them.
RestoreContext(u) == {snapshot[FolderOf[u]]} \ {NoUser}

\* Mutant: the correction is read and left where it is.
PeekCorrection(u) == correction

PopCorrection(u) == [correction EXCEPT ![u] = NoTurn]

(***************************************************************************)
(* What every prompt is built from.  When experts block the turn the       *)
(* correction waits for the next one.                                      *)
(***************************************************************************)
BuildPrompt(r, quoted, restored) ==
    LET u == Owner[r]
        waiting == {Owner[c] : c \in {correction[u]} \ {NoTurn}}
    IN  /\ cache' = CacheAfter(r, quoted)
        /\ shown' = [shown EXCEPT ![r] = EnhanceWithKnowledge(r, quoted) \cup waiting]
        /\ recalled' = [recalled EXCEPT ![r] = restored]
        /\ carried' = [carried EXCEPT ![r] = correction[u]]

Refuse(r) ==
    /\ Goes(r, "refused")
    /\ UNCHANGED <<cache, correction, snapshot, stored, collected, histories, upsets>>

BlockedByExperts(r, quoted) ==
    /\ Goes(r, "refused")
    /\ cache' = CacheAfter(r, quoted)
    /\ UNCHANGED <<correction, snapshot, stored, collected, histories, upsets>>

\* After a reply: a message "not A but B" leaves a correction for the next prompt.
LearnFrom(r, corrected) ==
    /\ correction' = [PopCorrection(Owner[r]) EXCEPT ![Owner[r]] = IF corrected THEN r ELSE @]
    /\ corrects' = IF corrected THEN corrects \cup {r} ELSE corrects

\* chat_pipeline: answers before it returns, stores nothing of the conversation's rows.
Complete(r) ==
    /\ Arrives(r)
    /\ \/ Refuse(r)
       \/ \E quoted \in {{}, ReferenceTo(r)} :
           \/ BlockedByExperts(r, quoted)
           \/ \E reply \in {"text", "empty", "raised"}, corrected \in BOOLEAN :
               /\ reply # "text" => ~corrected
               /\ BuildPrompt(r, quoted, RestoreContext(Owner[r]))
               /\ LearnFrom(r, corrected)
               /\ Goes(r, IF reply = "raised" THEN "refused" ELSE "answered")
               /\ UNCHANGED <<snapshot, stored, collected, forgotten, unstored, upsets>>

(***************************************************************************)
(* The rows of a conversation.  A row is not added when the session holds  *)
(* the same role and text already.                                         *)
(***************************************************************************)
WithRow(seq, row) == IF \E i \in DOMAIN seq : seq[i] = row THEN seq ELSE Append(seq, row)

SaveSession(u) == session' = [session EXCEPT ![u] = TRUE]

SaveMessage(u, row) ==
    /\ rows' = [rows EXCEPT ![u] = WithRow(@, row)]
    /\ count' = [count EXCEPT ![u] = @ + Len(rows'[u]) - Len(rows[u])]

\* Mutant: the question is left to the page.
StoreSessionOnly(r) == SaveSession(Owner[r]) /\ UNCHANGED <<rows, count>>

StoreQuestion(r) == SaveSession(Owner[r]) /\ SaveMessage(Owner[r], Question(r))

\* llm_chat_stream up to the response: the message is stored before anything is streamed.
StartStream(r) ==
    /\ Arrives(r) /\ r \in Streamable
    /\ \/ Refuse(r)
       \/ \E quoted \in {{}, ReferenceTo(r)} :
           \/ BlockedByExperts(r, quoted)
           \/ /\ BuildPrompt(r, quoted, {})
              /\ correction' = PopCorrection(Owner[r])
              /\ Goes(r, "streaming")
              /\ \/ StoreQuestion(r) /\ UNCHANGED unstored
                 \/ unstored' = unstored \cup {r} /\ UNCHANGED stored
              /\ UNCHANGED <<snapshot, collected, corrects, forgotten, upsets>>

Chunk(r) ==
    /\ pc[r] = "streaming" /\ collected[r] = "nothing"
    /\ collected' = [collected EXCEPT ![r] = "text"]
    /\ UNCHANGED <<memory, snapshot, stored, pc, histories, upsets>>

\* Mutant: the tools' exit returns without the finishing.
EndPlain(r) ==
    /\ pc[r] = "streaming"
    /\ \/ Goes(r, "ended") /\ UNCHANGED collected
       \/ collected[r] = "text" /\ collected' = [collected EXCEPT ![r] = "tool"] /\ Goes(r, "finished")
    /\ UNCHANGED <<memory, snapshot, stored, histories, upsets>>

\* The stream ends, breaks off, or its tools have run: each way out starts the finishing.
EndStream(r) ==
    /\ pc[r] = "streaming"
    /\ Goes(r, "ended")
    /\ \/ UNCHANGED collected
       \/ collected[r] = "text" /\ collected' = [collected EXCEPT ![r] = "tool"]
    /\ UNCHANGED <<memory, snapshot, stored, histories, upsets>>

\* The client closes the connection: the generator is dropped where it stands.
Disconnect(r) ==
    /\ pc[r] = "streaming"
    /\ Goes(r, "gone")
    /\ UNCHANGED <<memory, snapshot, stored, collected, histories, upsets>>

(***************************************************************************)
(* The finishing thread: look whether the answer is stored, insert it,     *)
(* write the snapshot.  A failure of one stage is logged and passed over.  *)
(***************************************************************************)
FinishLooks(r) ==
    /\ pc[r] = "ended"
    /\ Goes(r, IF collected[r] = "nothing" \/ Holds(Owner[r], Answer(r)) THEN "saved" ELSE "saving")
    /\ UNCHANGED <<memory, snapshot, stored, collected, histories, upsets>>

FinishInserts(r) ==
    LET u == Owner[r]
    IN  /\ pc[r] = "saving"
        /\ Goes(r, "saved")
        /\ \/ /\ session[u]
              /\ rows' = [rows EXCEPT ![u] = Append(@, Answer(r))]
              /\ count' = [count EXCEPT ![u] = @ + 1]
              /\ UNCHANGED <<session, unstored>>
           \/ unstored' = unstored \cup {r} /\ UNCHANGED stored   \* no session, or no database
        /\ UNCHANGED <<memory, snapshot, collected, shown, recalled, corrects, carried, forgotten, upsets>>

FinishSnapshot(r) ==
    /\ pc[r] = "saved"
    /\ Goes(r, "finished")
    /\ \/ snapshot' = [snapshot EXCEPT ![FolderOf[Owner[r]]] = Owner[r]]
       \/ UNCHANGED snapshot
    /\ UNCHANGED <<memory, stored, collected, histories, upsets>>

(***************************************************************************)
(* The page: it posts the conversation as it has it, and may delete it.    *)
(***************************************************************************)
\* Of turn r, the question is posted at 2 * r and the answer after it.
PageMessages(u) ==
    LET sent == {r \in Requests : Owner[r] = u /\ pc[r] # "new"}
        places == {2 * r : r \in sent} \cup {2 * r + 1 : r \in {s \in sent : Received(s)}}
    IN  [k \in places |-> IF k % 2 = 0 THEN Question(k \div 2) ELSE OnPage(k \div 2)]

\* What the session holds or the batch has had before is skipped.
Merged(seq, posted) ==
    seq \o InOrder(posted, {k \in DOMAIN posted :
                               /\ \A i \in DOMAIN seq : seq[i] # posted[k]
                               /\ \A j \in DOMAIN posted : j < k => posted[j] # posted[k]})

\* Mutant: the number of posted messages is added to the count.
CountPosted(u) ==
    /\ session[u]
    /\ rows' = [rows EXCEPT ![u] = Merged(@, PageMessages(u))]
    /\ count' = [count EXCEPT ![u] = @ + Cardinality(DOMAIN PageMessages(u))]
    /\ UNCHANGED <<memory, snapshot, session, pc, collected, histories, upsets>>

SyncMessages(u) ==
    /\ session[u]
    /\ rows' = [rows EXCEPT ![u] = Merged(@, PageMessages(u))]
    /\ count' = [count EXCEPT ![u] = @ + Len(rows'[u]) - Len(rows[u])]
    /\ UNCHANGED <<memory, snapshot, session, pc, collected, histories, upsets>>

SyncSession(u) ==
    /\ ~session[u]
    /\ SaveSession(u)
    /\ UNCHANGED <<memory, snapshot, rows, count, pc, collected, histories, upsets>>

DeleteSession(u) ==
    /\ session[u] /\ upsets < MaxUpsets
    /\ upsets' = upsets + 1
    /\ session' = [session EXCEPT ![u] = FALSE]
    /\ rows' = [rows EXCEPT ![u] = <<>>]
    /\ count' = [count EXCEPT ![u] = 0]
    /\ unstored' = unstored \cup {r \in Requests : Owner[r] = u /\ pc[r] # "new"}
    /\ UNCHANGED <<memory, snapshot, pc, collected, shown, recalled, corrects, carried, forgotten>>

\* Half a minute passes: what is cached is looked up anew.
CacheExpires ==
    /\ cache' = [u \in Users |-> [q \in Questions |-> NoEntry]]
    /\ UNCHANGED <<correction, snapshot, stored, pc, collected, histories, upsets>>

\* The API process ends and starts again: what it held in memory is gone.
Restart ==
    /\ upsets < MaxUpsets
    /\ upsets' = upsets + 1
    /\ cache' = [u \in Users |-> [q \in Questions |-> NoEntry]]
    /\ forgotten' = forgotten \cup ({correction[u] : u \in Users} \ {NoTurn})
    /\ correction' = [u \in Users |-> NoTurn]
    /\ pc' = [r \in Requests |->
                 IF pc[r] \in {"streaming", "ended", "saving", "saved"} THEN "gone" ELSE pc[r]]
    /\ UNCHANGED <<snapshot, stored, collected, shown, recalled, corrects, carried, unstored>>

Finishing(r) == FinishLooks(r) \/ FinishInserts(r) \/ FinishSnapshot(r)

Next ==
    \/ \E r \in Requests :
         \/ Complete(r) \/ StartStream(r) \/ Chunk(r) \/ EndStream(r) \/ Disconnect(r)
         \/ Finishing(r)
    \/ \E u \in Pages : SyncMessages(u) \/ SyncSession(u) \/ DeleteSession(u)
    \/ CacheExpires
    \/ Restart

Spec == Init /\ [][Next]_vars

\* The model's answer ends or times out; threads run.  Nothing makes anyone ask.
FairSpec == Spec /\ \A r \in Requests : WF_vars(EndStream(r)) /\ WF_vars(Finishing(r))

-----------------------------------------------------------------------------
(* What a prompt takes from the cached context, the correction that waits   *)
(* and the user's earlier answers is of its own user alone; what it takes   *)
(* from a snapshot is of a user whose name gives the same directory         *)
(* (service_chat.py, _UserScoped and _pop_correction; session_manager.py,   *)
(* _user_dir).                                                              *)
OwnContext ==
    \A r \in Requests :
        /\ shown[r] \subseteq {Owner[r]}
        /\ \A u \in recalled[r] : FolderOf[u] = FolderOf[Owner[r]]

(* A correction is put into exactly one prompt: until then it waits, through *)
(* turns that are refused before their prompt is built, unless the process   *)
(* ends (_set_correction, _pop_correction).                                  *)
CorrectionAccounted ==
    \A c \in corrects :
        Cardinality({u \in Users : correction[u] = c})
          + Cardinality({r \in Requests : carried[r] = c})
          + Cardinality({c} \cap forgotten) = 1

(* The stored conversation has every answer after its question, whichever of *)
(* the stream's thread and the page stored it, unless a save failed or the   *)
(* session was deleted in between (routes_chat.py, llm_chat_stream).         *)
AnswerAfterQuestion ==
    \A u \in Users : \A i \in DOMAIN rows[u] :
        LET row == rows[u][i]
        IN  row.role = "assistant" /\ row.of \notin unstored =>
                \E j \in 1 .. i - 1 : rows[u][j] = Question(row.of)

(* message_count is the number of rows through single saves, batches of the *)
(* page and deletions (db.py, save_message_to_pg and its neighbours).       *)
CountMatches == \A u \in Users : count[u] = Len(rows[u])

(* What was streamed to a client that stayed is stored in the end, whichever *)
(* way the stream ended, unless the process ended or a save failed           *)
(* (routes_chat.py, _schedule_post_stream_finish).                           *)
StreamStored ==
    \A r \in Requests :
        (pc[r] = "streaming" /\ collected[r] # "nothing")
          ~> (Holds(Owner[r], Answer(r)) \/ pc[r] = "gone" \/ r \in unstored)
=============================================================================
