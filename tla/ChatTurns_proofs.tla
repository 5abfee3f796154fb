--------------------------- MODULE ChatTurns_proofs ---------------------------
(***************************************************************************)
(* What a prompt quotes, for any number of users, turns and messages, any  *)
(* directories of snapshots, and whoever sends the same words.  What       *)
(* OwnContext needs is that the cached contexts and the waiting correction *)
(* are the user's own, and that a directory holds only what users of this  *)
(* directory have said.                                                    *)
(***************************************************************************)
EXTENDS ChatTurns, Ranks_proofs, FiniteSetTheorems, TLAPS

CacheOwn ==
    cache \in [Users -> [Questions -> [about : SUBSET Users, fresh : BOOLEAN]]]
      /\ \A u \in Users, q \in Questions : cache[u][q].about \subseteq {u}

CorrectionOwn ==
    /\ correction \in [Users -> Requests \cup {NoTurn}]
    /\ \A u \in Users : correction[u] # NoTurn => Owner[correction[u]] = u

SnapshotOwn ==
    /\ snapshot \in [Folders -> Users \cup {NoUser}]
    /\ \A f \in Folders : snapshot[f] # NoUser => FolderOf[snapshot[f]] = f

ShownOwn == shown \in [Requests -> SUBSET Users] /\ recalled \in [Requests -> SUBSET Users] /\ OwnContext

ContextInv == CacheOwn /\ CorrectionOwn /\ SnapshotOwn /\ ShownOwn

context == <<cache, correction, snapshot, shown, recalled>>

(* Initially nothing is quoted from anywhere. *)
LEMMA InitContext == Init => ContextInv
  BY DEF Init, ContextInv, CacheOwn, CorrectionOwn, SnapshotOwn, ShownOwn, OwnContext, NoEntry

(* A reference quotes the user's own answers. *)
LEMMA ReferenceOwn ==
    ASSUME NEW r \in Requests, NEW quoted \in {{}, ReferenceTo(r)}
    PROVE  quoted \subseteq {Owner[r]} /\ Owner[r] \in Users
  BY TurnConstants DEF ReferenceTo

(* The looked-up context is cached under the user and the words, as it stands. *)
LEMMA CacheAfterOwn ==
    ASSUME CacheOwn, NEW r \in Requests, NEW quoted, quoted \subseteq {Owner[r]},
           cache' = CacheAfter(r, quoted)
    PROVE  CacheOwn'
<1>1. Owner[r] \in Users /\ Asks[r] \in Questions /\ quoted \in SUBSET Users
  BY TurnConstants
<1>2. CASE cache' = cache
  BY <1>2 DEF CacheOwn
<1>3. CASE cache' = [cache EXCEPT ![Owner[r]][Asks[r]] = [about |-> quoted, fresh |-> TRUE]]
  BY <1>1, <1>3 DEF CacheOwn
<1>4. QED
  BY <1>2, <1>3 DEF CacheAfter

(* Every prompt is built from the user's own, and from what its directory restored. *)
LEMMA PromptOwn ==
    ASSUME ContextInv, NEW r \in Requests, NEW quoted \in {{}, ReferenceTo(r)},
           NEW restored \in SUBSET {u \in Users : FolderOf[u] = FolderOf[Owner[r]]},
           BuildPrompt(r, quoted, restored)
    PROVE  CacheOwn' /\ ShownOwn'
<1> DEFINE u == Owner[r]
           waiting == {Owner[c] : c \in {correction[u]} \ {NoTurn}}
           parts == EnhanceWithKnowledge(r, quoted) \cup waiting
<1>1. quoted \subseteq {u} /\ u \in Users /\ Asks[r] \in Questions
  BY ReferenceOwn, TurnConstants
<1>2. EnhanceWithKnowledge(r, quoted) \subseteq {u}
  BY <1>1 DEF EnhanceWithKnowledge, ContextInv, CacheOwn
<1>3. waiting \subseteq {u}
  BY <1>1 DEF ContextInv, CorrectionOwn
<1>4. /\ cache' = CacheAfter(r, quoted) /\ shown' = [shown EXCEPT ![r] = parts]
      /\ recalled' = [recalled EXCEPT ![r] = restored]
  BY DEF BuildPrompt
<1>5. parts \subseteq {u}
  BY <1>2, <1>3
<1> HIDE DEF parts
<1>6. CacheOwn'
  BY <1>1, <1>4, CacheAfterOwn DEF ContextInv
<1>7. ShownOwn'
  BY <1>1, <1>4, <1>5 DEF ContextInv, ShownOwn, OwnContext
<1>8. QED
  BY <1>6, <1>7

(* A refusal builds no prompt; one by the experts comes after the look-up. *)
LEMMA RefusedOwn ==
    ASSUME ContextInv, NEW r \in Requests,
           Refuse(r) \/ \E quoted \in {{}, ReferenceTo(r)} : BlockedByExperts(r, quoted)
    PROVE  ContextInv'
<1>1. CASE Refuse(r)
  BY <1>1 DEF Refuse, histories, ContextInv, CacheOwn, CorrectionOwn, SnapshotOwn, ShownOwn, OwnContext
<1>2. ASSUME NEW quoted \in {{}, ReferenceTo(r)}, BlockedByExperts(r, quoted)
      PROVE  ContextInv'
  <2>1. CacheOwn'
    BY <1>2, ReferenceOwn, CacheAfterOwn DEF BlockedByExperts, ContextInv
  <2>2. QED
    BY <1>2, <2>1 DEF BlockedByExperts, histories, ContextInv, CorrectionOwn, SnapshotOwn,
                      ShownOwn, OwnContext
<1>3. QED
  BY <1>1, <1>2

(* A turn of chat_pipeline: the snapshot restored is of the user's directory, a correction left is the user's. *)
LEMMA CompleteOwn ==
    ASSUME ContextInv, NEW r \in Requests, Complete(r)
    PROVE  ContextInv'
<1>1. CASE Refuse(r) \/ \E quoted \in {{}, ReferenceTo(r)} : BlockedByExperts(r, quoted)
  BY <1>1, RefusedOwn
<1>2. ASSUME NEW quoted \in {{}, ReferenceTo(r)}, NEW corrected \in BOOLEAN,
             BuildPrompt(r, quoted, RestoreContext(Owner[r])), LearnFrom(r, corrected),
             UNCHANGED snapshot
      PROVE  ContextInv'
  <2>1. Owner[r] \in Users
    BY TurnConstants
  <2>2. RestoreContext(Owner[r]) \in SUBSET {u \in Users : FolderOf[u] = FolderOf[Owner[r]]}
    BY <2>1, TurnConstants DEF RestoreContext, ContextInv, SnapshotOwn
  <2>3. CacheOwn' /\ ShownOwn'
    BY <1>2, <2>2, PromptOwn
  <2>4. CorrectionOwn'
    BY <1>2, <2>1, TurnConstants DEF LearnFrom, PopCorrection, ContextInv, CorrectionOwn
  <2>5. QED
    BY <1>2, <2>3, <2>4 DEF ContextInv, SnapshotOwn
<1>3. QED
  BY <1>1, <1>2 DEF Complete

(* A streamed turn: nothing is restored, the correction is taken. *)
LEMMA StreamOwn ==
    ASSUME ContextInv, NEW r \in Requests, StartStream(r)
    PROVE  ContextInv'
<1>1. CASE Refuse(r) \/ \E quoted \in {{}, ReferenceTo(r)} : BlockedByExperts(r, quoted)
  BY <1>1, RefusedOwn
<1>2. ASSUME NEW quoted \in {{}, ReferenceTo(r)}, BuildPrompt(r, quoted, {}),
             correction' = PopCorrection(Owner[r]), UNCHANGED snapshot
      PROVE  ContextInv'
  <2>1. CacheOwn' /\ ShownOwn'
    BY <1>2, PromptOwn
  <2>2. CorrectionOwn'
    BY <1>2, TurnConstants DEF PopCorrection, ContextInv, CorrectionOwn
  <2>3. QED
    BY <1>2, <2>1, <2>2 DEF ContextInv, SnapshotOwn
<1>3. QED
  BY <1>1, <1>2 DEF StartStream

(* Nothing else adds to what prompts are built from, but the snapshot of a finished stream. *)
LEMMA RestOwn ==
    ASSUME ContextInv,
           \/ \E r \in Requests : Chunk(r) \/ EndStream(r) \/ Disconnect(r) \/ Finishing(r)
           \/ \E u \in Pages : SyncMessages(u) \/ SyncSession(u) \/ DeleteSession(u)
           \/ CacheExpires \/ Restart \/ UNCHANGED vars
    PROVE  ContextInv'
<1>1. CASE UNCHANGED context
  BY <1>1 DEF context, ContextInv, CacheOwn, CorrectionOwn, SnapshotOwn, ShownOwn, OwnContext
<1>2. ASSUME NEW r \in Requests, FinishSnapshot(r)  PROVE ContextInv'
  <2>1. UNCHANGED <<cache, correction, shown, recalled>> /\ Owner[r] \in Users
    BY <1>2, TurnConstants DEF FinishSnapshot, memory, histories
  <2>2. CacheOwn' /\ CorrectionOwn' /\ ShownOwn'
    BY <2>1 DEF ContextInv, CacheOwn, CorrectionOwn, ShownOwn, OwnContext
  <2>3. snapshot' = [snapshot EXCEPT ![FolderOf[Owner[r]]] = Owner[r]] \/ snapshot' = snapshot
    BY <1>2 DEF FinishSnapshot
  <2>4. SnapshotOwn'
    BY <2>1, <2>3, TurnConstants DEF ContextInv, SnapshotOwn
  <2>5. QED
    BY <2>2, <2>4 DEF ContextInv
<1>3. ASSUME cache' = [u \in Users |-> [q \in Questions |-> NoEntry]]  PROVE CacheOwn'
  BY <1>3 DEF CacheOwn, NoEntry
<1>4. CASE CacheExpires
  BY <1>3, <1>4 DEF CacheExpires, histories, ContextInv, CorrectionOwn, SnapshotOwn, ShownOwn, OwnContext
<1>5. CASE Restart
  BY <1>3, <1>5 DEF Restart, ContextInv, CorrectionOwn, SnapshotOwn, ShownOwn, OwnContext
<1>6. ASSUME NEW r \in Requests,
             Chunk(r) \/ EndStream(r) \/ Disconnect(r) \/ FinishLooks(r) \/ FinishInserts(r)
      PROVE  ContextInv'
  <2>1. UNCHANGED context
    BY <1>6 DEF Chunk, EndStream, Disconnect, FinishLooks, FinishInserts, memory, histories, context
  <2>2. QED
    BY <1>1, <2>1
<1>7. ASSUME NEW u \in Pages, SyncMessages(u) \/ SyncSession(u) \/ DeleteSession(u)
      PROVE  ContextInv'
  <2>1. UNCHANGED context
    BY <1>7 DEF SyncMessages, SyncSession, DeleteSession, memory, histories, context
  <2>2. QED
    BY <1>1, <2>1
<1>8. CASE UNCHANGED vars
  BY <1>1, <1>8 DEF vars, context
<1>9. QED
  BY <1>2, <1>4, <1>5, <1>6, <1>7, <1>8 DEF Finishing

(* OwnContext, of any instance: but for the snapshots of a directory that users share, *)
(* a prompt quotes nothing of another user.                                            *)
THEOREM ContextsApart == Spec => []OwnContext
<1>1. ContextInv /\ [Next]_vars => ContextInv'
  BY CompleteOwn, StreamOwn, RestOwn DEF Next
<1>2. ContextInv => OwnContext
  BY DEF ContextInv, ShownOwn
<1>3. QED
  BY InitContext, <1>1, <1>2, PTL DEF Spec

-----------------------------------------------------------------------------
(***************************************************************************)
(* Corrections                                                             *)
(***************************************************************************)

Begun == {r \in Requests : pc[r] # "new"}

Waits(c) == correction[Owner[c]] = c
Taken(c) == \E r \in Requests : carried[r] = c

\* A correction is in one place: it waits, one prompt has carried it, or it was lost.
OnePlace ==
    \A c \in corrects :
        /\ Waits(c) \/ Taken(c) \/ c \in forgotten
        /\ ~(Waits(c) /\ Taken(c)) /\ ~(Waits(c) /\ c \in forgotten)
        /\ ~(Taken(c) /\ c \in forgotten)
        /\ \A r, s \in Requests : carried[r] = c /\ carried[s] = c => r = s

\* Corrections come from turns that were sent, and wait for the user they are of.
CarryInv ==
    /\ pc \in [Requests -> Stages]
    /\ corrects \subseteq Begun /\ forgotten \subseteq corrects
    /\ carried \in [Requests -> corrects \cup {NoTurn}]
    /\ \A r \in Requests : pc[r] = "new" => carried[r] = NoTurn
    /\ correction \in [Users -> corrects \cup {NoTurn}]
    /\ \A u \in Users : correction[u] # NoTurn => Owner[correction[u]] = u
    /\ OnePlace

(* Initially there is no correction. *)
LEMMA InitCarry == Init => CarryInv
  BY DEF Init, CarryInv, OnePlace, Begun, Stages

(* Steps that take and leave no correction. *)
LEMMA CarryStays ==
    ASSUME CarryInv, UNCHANGED <<correction, corrects, carried, forgotten>>,
           pc' \in [Requests -> Stages], \A r \in Requests : pc'[r] = "new" => pc[r] = "new"
    PROVE  CarryInv'
<1>1. Begun \subseteq Begun'
  BY DEF Begun
<1>2. OnePlace'
  BY DEF CarryInv, OnePlace, Waits, Taken
<1>3. QED
  BY <1>1, <1>2 DEF CarryInv

(* A prompt takes what waits for its user, and the turn may leave a correction of its own. *)
LEMMA PromptCarries ==
    ASSUME CarryInv, NEW r \in Requests, pc[r] = "new",
           NEW stage \in Stages \ {"new"}, Goes(r, stage), NEW corrected \in BOOLEAN,
           carried' = [carried EXCEPT ![r] = correction[Owner[r]]],
           correction' = [correction EXCEPT ![Owner[r]] = IF corrected THEN r ELSE NoTurn],
           corrects' = IF corrected THEN corrects \cup {r} ELSE corrects,
           forgotten' = forgotten
    PROVE  CarryInv'
<1> DEFINE u == Owner[r]
<1>1. u \in Users /\ r # NoTurn /\ r \notin corrects /\ carried[r] = NoTurn
      /\ NoTurn \notin corrects /\ corrects \subseteq Requests
  BY TurnConstants DEF CarryInv, Begun
<1>2. pc' \in [Requests -> Stages] /\ Begun' = Begun \cup {r}
  BY DEF CarryInv, Goes, Begun
<1>3. /\ carried'[r] = correction[u] /\ carried[r] = NoTurn
      /\ \A s \in Requests : s # r => carried'[s] = carried[s]
  BY <1>1 DEF CarryInv
<1>4. /\ correction'[u] = IF corrected THEN r ELSE NoTurn
      /\ \A v \in Users : v # u => correction'[v] = correction[v]
  BY <1>1 DEF CarryInv
<1>5. correction[u] \in corrects \cup {NoTurn}
  BY <1>1 DEF CarryInv
<1>6. carried' \in [Requests -> corrects' \cup {NoTurn}]
  BY <1>5 DEF CarryInv
<1>7. correction' \in [Users -> corrects' \cup {NoTurn}]
  BY <1>1 DEF CarryInv
<1>8. \A s \in Requests : pc'[s] = "new" => carried'[s] = NoTurn
  BY <1>3 DEF CarryInv, Goes
<1>9. \A v \in Users : correction'[v] # NoTurn => Owner[correction'[v]] = v
  BY <1>1, <1>4 DEF CarryInv
<1>10. ASSUME NEW c \in corrects', c = r
       PROVE  Waits(c)' /\ ~Taken(c)' /\ c \notin forgotten'
  <2>1. corrected
    BY <1>1, <1>10
  <2>2. Waits(c)'
    BY <1>4, <1>10, <2>1 DEF Waits
  <2>3. \A s \in Requests : carried'[s] \in corrects \cup {NoTurn}
    BY <1>3, <1>5 DEF CarryInv
  <2>4. ~Taken(c)'
    BY <1>1, <1>10, <2>3 DEF Taken
  <2>5. QED
    BY <1>1, <1>10, <2>2, <2>4 DEF CarryInv
<1>11. ASSUME NEW c \in corrects, c = correction[u]
       PROVE  /\ ~Waits(c)' /\ Taken(c)' /\ c \notin forgotten'
              /\ \A s \in Requests : carried'[s] = c => s = r
  <2>1. c # NoTurn /\ c # r /\ Owner[c] = u
    BY <1>1, <1>11 DEF CarryInv
  <2>2. Waits(c) /\ ~Taken(c) /\ c \notin forgotten
    BY <1>11, <2>1 DEF CarryInv, OnePlace, Waits
  <2>3. ~Waits(c)'
    BY <1>4, <2>1 DEF Waits
  <2>4. carried'[r] = c /\ \A s \in Requests : s # r => carried'[s] # c
    BY <1>3, <1>11, <2>2 DEF Taken
  <2>5. QED
    BY <2>2, <2>3, <2>4 DEF Taken
<1>12. ASSUME NEW c \in corrects, c # correction[u]
       PROVE  /\ Waits(c)' <=> Waits(c)
              /\ \A s \in Requests : carried'[s] = c <=> carried[s] = c
              /\ Taken(c)' <=> Taken(c)
  <2>1. c # NoTurn /\ c # r /\ Owner[c] \in Users
    BY <1>1, TurnConstants
  <2>2. Waits(c)' <=> Waits(c)
    BY <1>4, <1>12, <2>1 DEF Waits
  <2>3. \A s \in Requests : carried'[s] = c <=> carried[s] = c
    BY <1>3, <1>12, <2>1
  <2>4. QED
    BY <2>2, <2>3 DEF Taken
<1>13. OnePlace'
  <2> SUFFICES ASSUME NEW c \in corrects'
               PROVE  /\ Waits(c)' \/ Taken(c)' \/ c \in forgotten'
                      /\ ~(Waits(c)' /\ Taken(c)') /\ ~(Waits(c)' /\ c \in forgotten')
                      /\ ~(Taken(c)' /\ c \in forgotten')
                      /\ \A s, t \in Requests : carried'[s] = c /\ carried'[t] = c => s = t
    BY DEF OnePlace
  <2>1. CASE c = r
    BY <1>10, <2>1 DEF Taken
  <2>2. CASE c \in corrects /\ c = correction[u]
    BY <1>11, <2>2
  <2>3. CASE c \in corrects /\ c # correction[u]
    BY <1>12, <2>3 DEF CarryInv, OnePlace
  <2>4. QED
    BY <2>1, <2>2, <2>3
<1>14. QED
  BY <1>1, <1>2, <1>6, <1>7, <1>8, <1>9, <1>13 DEF CarryInv

(* A restart loses the corrections that wait, and no other. *)
LEMMA RestartCarry ==
    ASSUME CarryInv, Restart
    PROVE  CarryInv'
<1>1. /\ forgotten' = forgotten \cup ({correction[u] : u \in Users} \ {NoTurn})
      /\ correction' = [u \in Users |-> NoTurn] /\ UNCHANGED <<carried, corrects>>
      /\ pc' = [r \in Requests |->
                  IF pc[r] \in {"streaming", "ended", "saving", "saved"} THEN "gone" ELSE pc[r]]
  BY DEF Restart
<1>2. pc' \in [Requests -> Stages] /\ \A r \in Requests : pc'[r] = "new" <=> pc[r] = "new"
  BY <1>1 DEF CarryInv, Stages
<1>3. Begun' = Begun
  BY <1>2 DEF Begun
<1>4. NoTurn \notin corrects /\ \A c \in corrects : c \in Requests /\ Owner[c] \in Users
  BY TurnConstants DEF CarryInv, Begun
<1>5. ASSUME NEW c \in corrects
      PROVE  ~Waits(c)' /\ (Taken(c)' <=> Taken(c)) /\ (c \in forgotten' <=> c \in forgotten \/ Waits(c))
  <2>1. ~Waits(c)' /\ (Taken(c)' <=> Taken(c))
    BY <1>1, <1>4 DEF Waits, Taken
  <2>2. ASSUME NEW u \in Users, correction[u] = c PROVE Waits(c)
    BY <1>4, <2>2 DEF CarryInv, Waits
  <2>3. QED
    BY <1>1, <1>4, <2>1, <2>2 DEF Waits
<1>6. OnePlace'
  BY <1>1, <1>5 DEF CarryInv, OnePlace
<1>7. forgotten' \subseteq corrects
  BY <1>1 DEF CarryInv
<1>8. QED
  BY <1>1, <1>2, <1>3, <1>6, <1>7 DEF CarryInv

(* Every step keeps each correction in its one place. *)
LEMMA CarryStep == CarryInv /\ [Next]_vars => CarryInv'
<1> SUFFICES ASSUME CarryInv, [Next]_vars PROVE CarryInv'
  OBVIOUS
<1>0. pc \in [Requests -> Stages]
  BY DEF CarryInv
<1>1. ASSUME NEW r \in Requests, NEW stage \in Stages \ {"new"}, Goes(r, stage)
      PROVE  pc' \in [Requests -> Stages] /\ \A s \in Requests : pc'[s] = "new" => pc[s] = "new"
  BY <1>0, <1>1 DEF Goes
<1>2. ASSUME NEW r \in Requests, Refuse(r) \/ \E quoted : BlockedByExperts(r, quoted)
      PROVE  CarryInv'
  BY <1>1, <1>2, CarryStays DEF Refuse, BlockedByExperts, histories, Stages
<1>3. ASSUME NEW r \in Requests, Complete(r) PROVE CarryInv'
  <2>1. ASSUME NEW quoted, NEW reply \in {"text", "empty", "raised"}, NEW corrected \in BOOLEAN,
               BuildPrompt(r, quoted, RestoreContext(Owner[r])), LearnFrom(r, corrected),
               Goes(r, IF reply = "raised" THEN "refused" ELSE "answered"), forgotten' = forgotten,
               pc[r] = "new"
        PROVE  CarryInv'
    <3>1. Owner[r] \in Users
      BY TurnConstants
    <3>2. correction' = [correction EXCEPT ![Owner[r]] = IF corrected THEN r ELSE NoTurn]
      BY <2>1, <3>1 DEF LearnFrom, PopCorrection, CarryInv
    <3>3. (IF reply = "raised" THEN "refused" ELSE "answered") \in Stages \ {"new"}
      BY DEF Stages
    <3>4. QED
      BY <2>1, <3>2, <3>3, PromptCarries DEF BuildPrompt, LearnFrom
  <2>2. QED
    BY <1>2, <1>3, <2>1 DEF Complete, Arrives
<1>4. ASSUME NEW r \in Requests, StartStream(r) PROVE CarryInv'
  <2>1. ASSUME NEW quoted, BuildPrompt(r, quoted, {}), correction' = PopCorrection(Owner[r]),
               Goes(r, "streaming"), UNCHANGED <<corrects, forgotten>>, pc[r] = "new"
        PROVE  CarryInv'
    <3>1. correction' = [correction EXCEPT ![Owner[r]] = IF FALSE THEN r ELSE NoTurn]
          /\ corrects' = IF FALSE THEN corrects \cup {r} ELSE corrects
      BY <2>1 DEF PopCorrection
    <3>2. "streaming" \in Stages \ {"new"}
      BY DEF Stages
    <3>3. QED
      BY <2>1, <3>1, <3>2, PromptCarries DEF BuildPrompt
  <2>2. QED
    BY <1>2, <1>4, <2>1 DEF StartStream, Arrives
<1>5. ASSUME NEW r \in Requests, Chunk(r) \/ EndStream(r) \/ Disconnect(r) \/ Finishing(r)
      PROVE  CarryInv'
  <2>1. UNCHANGED <<correction, corrects, carried, forgotten>>
    BY <1>5 DEF Chunk, EndStream, Disconnect, Finishing, FinishLooks, FinishInserts,
                FinishSnapshot, memory, histories
  <2>2. pc' = pc \/ \E stage \in Stages \ {"new"} : Goes(r, stage)
    BY <1>5 DEF Chunk, EndStream, Disconnect, Finishing, FinishLooks, FinishInserts,
                FinishSnapshot, Stages
  <2>3. QED
    BY <1>0, <1>1, <2>1, <2>2, CarryStays
<1>6. CASE \/ \E u \in Pages : SyncMessages(u) \/ SyncSession(u) \/ DeleteSession(u)
           \/ CacheExpires \/ UNCHANGED vars
  <2>1. UNCHANGED <<correction, corrects, carried, forgotten, pc>>
    BY <1>6 DEF SyncMessages, SyncSession, DeleteSession, CacheExpires, memory, histories, vars
  <2>2. QED
    BY <1>0, <2>1, CarryStays
<1>7. QED
  BY <1>3, <1>4, <1>5, <1>6, RestartCarry DEF Next

(* CorrectionAccounted, of any instance: a correction is put into exactly one *)
(* prompt; until then it waits, unless the process ends.                      *)
THEOREM CorrectionsUsedOnce == Spec => []CorrectionAccounted
<1>1. CarryInv => CorrectionAccounted
  <2> SUFFICES ASSUME CarryInv, NEW c \in corrects
               PROVE  Cardinality({u \in Users : correction[u] = c})
                        + Cardinality({r \in Requests : carried[r] = c})
                        + Cardinality({c} \cap forgotten) = 1
    BY DEF CorrectionAccounted
  <2>1. c \in Requests /\ c # NoTurn /\ Owner[c] \in Users
    BY TurnConstants DEF CarryInv, Begun
  <2>2. Cardinality({}) = 0 /\ \A x : Cardinality({x}) = 1
    BY FS_EmptySet, FS_Singleton
  <2>3. {u \in Users : correction[u] = c} = IF Waits(c) THEN {Owner[c]} ELSE {}
    BY <2>1 DEF CarryInv, Waits
  <2>4. Taken(c) => \E r \in Requests : {s \in Requests : carried[s] = c} = {r}
    <3> SUFFICES ASSUME NEW r \in Requests, carried[r] = c
                 PROVE  {s \in Requests : carried[s] = c} = {r}
      BY DEF Taken
    <3>1. QED
      BY DEF CarryInv, OnePlace
  <2>5. ~Taken(c) => {s \in Requests : carried[s] = c} = {}
    BY DEF Taken
  <2>6. {c} \cap forgotten = IF c \in forgotten THEN {c} ELSE {}
    OBVIOUS
  <2>7. Cardinality({u \in Users : correction[u] = c}) = IF Waits(c) THEN 1 ELSE 0
    BY <2>2, <2>3
  <2>8. Cardinality({r \in Requests : carried[r] = c}) = IF Taken(c) THEN 1 ELSE 0
    BY <2>2, <2>4, <2>5
  <2>9. Cardinality({c} \cap forgotten) = IF c \in forgotten THEN 1 ELSE 0
    BY <2>2, <2>6
  <2>10. QED
    BY <2>7, <2>8, <2>9 DEF CarryInv, OnePlace
<1>2. QED
  BY InitCarry, CarryStep, <1>1, PTL DEF Spec

-----------------------------------------------------------------------------
(***************************************************************************)
(* The stored conversation                                                 *)
(***************************************************************************)

Collected == {"nothing", "text", "tool"}

StoreTyped ==
    /\ pc \in [Requests -> Stages] /\ collected \in [Requests -> Collected]
    /\ session \in [Users -> BOOLEAN]
    /\ rows \in [Users -> Seq(Rows)] /\ count \in [Users -> Nat]

\* While a turn may still store its answer, its question is stored.
Asking == {"streaming", "ended", "saving"}
Asked ==
    \A r \in Requests :
        pc[r] \in Asking /\ r \notin unstored => Holds(Owner[r], Question(r))

StoreInv ==
    /\ StoreTyped /\ IsFiniteSet(Begun)
    /\ CountMatches /\ Asked /\ AnswerAfterQuestion

(* Initially nothing is stored. *)
LEMMA InitStore == Init => StoreInv
<1> SUFFICES ASSUME Init PROVE StoreInv
  OBVIOUS
<1>1. StoreTyped /\ CountMatches /\ Asked /\ AnswerAfterQuestion
  BY DEF Init, StoreTyped, Stages, Collected, CountMatches, Asked, Asking, AnswerAfterQuestion
<1>2. Begun = {}
  BY DEF Init, Begun
<1>3. QED
  BY <1>1, <1>2, FS_EmptySet DEF StoreInv

(* The messages of a turn, as they are compared. *)
LEMMA Messages ==
    ASSUME NEW r \in Requests
    PROVE  /\ Question(r) \in Rows /\ Question(r).role = "user"
           /\ Answer(r) \in Rows /\ Answer(r).role = "assistant" /\ Answer(r).of = r
           /\ OnPage(r) \in Rows /\ OnPage(r).role = "assistant" /\ OnPage(r).of = r
<1>1. Question(r) \in [role : {"user"}, of : Questions]
  BY TurnConstants DEF Question
<1>2. Answer(r) = [role |-> "assistant", of |-> r, as |-> "saved"]
  BY DEF Answer
<1>3. Answer(r) \in [role : {"assistant"}, of : Requests, as : {"saved", "shown"}]
  BY <1>2
<1>4. OnPage(r) \in [role : {"assistant"}, of : Requests, as : {"saved", "shown"}] /\ OnPage(r).of = r
  BY <1>2 DEF OnPage
<1>5. QED
  BY <1>1, <1>2, <1>3, <1>4 DEF Rows, Question

(* Steps of at most one turn keep the number of those that were sent finite. *)
LEMMA FewBegun ==
    ASSUME IsFiniteSet(Begun), NEW r, Begun' \subseteq Begun \cup {r}
    PROVE  IsFiniteSet(Begun')
<1>1. IsFiniteSet(Begun \cup {r})
  BY FS_AddElement
<1>2. QED
  BY <1>1, FS_Subset

(* Steps that store nothing. *)
LEMMA StoreStays ==
    ASSUME StoreInv, UNCHANGED <<rows, count>>, StoreTyped', IsFiniteSet(Begun'),
           unstored \subseteq unstored',
           \A r \in Requests :
               pc'[r] \in Asking => pc[r] \in Asking \/ r \in unstored' \/ Holds(Owner[r], Question(r))
    PROVE  StoreInv'
<1>1. \A u, row : Holds(u, row)' <=> Holds(u, row)
  BY DEF Holds
<1>2. Asked'
  BY <1>1 DEF StoreInv, Asked, Question
<1>3. CountMatches'
  BY DEF StoreInv, CountMatches
<1>4. AnswerAfterQuestion'
  BY DEF StoreInv, AnswerAfterQuestion, Question
<1>5. QED
  BY <1>2, <1>3, <1>4 DEF StoreInv

(* The length of two sequences joined, and a row appended as a sequence of one. *)
LEMMA Joined ==
    ASSUME NEW R, NEW s \in Seq(R)
    PROVE  /\ \A t \in Seq(R) : Len(s \o t) = Len(s) + Len(t)
           /\ \A x \in R : Append(s, x) = s \o <<x>>
<1>1. ASSUME NEW t \in Seq(R) PROVE Len(s \o t) = Len(s) + Len(t)
  OBVIOUS
<1>2. ASSUME NEW x \in R PROVE Append(s, x) = s \o <<x>>
  <2>1. <<x>> \in Seq(R) /\ Len(<<x>>) = 1 /\ <<x>>[1] = x
    OBVIOUS
  <2>2. /\ Append(s, x) \in Seq(R) /\ s \o <<x>> \in Seq(R)
        /\ Len(Append(s, x)) = Len(s) + 1 /\ Len(s \o <<x>>) = Len(s) + 1
    BY <2>1
  <2>3. \A i \in 1 .. Len(s) + 1 : Append(s, x)[i] = (s \o <<x>>)[i]
    BY <2>1
  <2>4. QED
    BY <2>2, <2>3
<1>3. QED
  BY <1>1, <1>2

(* Rows are added after what is stored, each answer after its question. *)
LEMMA StoreGrows ==
    ASSUME StoreInv, NEW u \in Users, NEW more \in Seq(Rows),
           rows' = [rows EXCEPT ![u] = @ \o more],
           count' = [count EXCEPT ![u] = @ + Len(more)],
           pc' \in [Requests -> Stages], collected' = collected,
           session' \in [Users -> BOOLEAN], IsFiniteSet(Begun'),
           unstored' = unstored,
           \A r \in Requests :
               pc'[r] \in Asking =>
                   \/ pc[r] \in Asking
                   \/ Owner[r] = u /\ \E i \in DOMAIN more : more[i] = Question(r),
           \A i \in DOMAIN more :
               more[i].role = "assistant" /\ more[i].of \notin unstored =>
                   \/ Holds(u, Question(more[i].of))
                   \/ \E j \in 1 .. i - 1 : more[j] = Question(more[i].of)
    PROVE  StoreInv'
<1> DEFINE old == rows[u]
           all == old \o more
<1>1. /\ old \in Seq(Rows) /\ Len(old) \in Nat /\ Len(more) \in Nat
      /\ DOMAIN old = 1 .. Len(old) /\ DOMAIN more = 1 .. Len(more)
  BY DEF StoreInv, StoreTyped
<1>2. /\ all \in Seq(Rows) /\ Len(all) = Len(old) + Len(more)
      /\ DOMAIN all = 1 .. Len(old) + Len(more)
      /\ \A i \in 1 .. Len(old) : all[i] = old[i]
      /\ \A i \in 1 .. Len(more) : all[Len(old) + i] = more[i]
  BY <1>1
<1>3. /\ rows' \in [Users -> Seq(Rows)] /\ rows'[u] = all
      /\ \A v \in Users : v # u => rows'[v] = rows[v]
  BY <1>1, <1>2 DEF StoreInv, StoreTyped
<1> HIDE DEF all
<1>4. CountMatches' /\ count' \in [Users -> Nat]
  <2>1. count \in [Users -> Nat] /\ count[u] = Len(old)
    BY DEF StoreInv, StoreTyped, CountMatches
  <2>2. count'[u] = Len(old) + Len(more) /\ \A v \in Users : v # u => count'[v] = count[v]
    BY <2>1
  <2>3. count' \in [Users -> Nat]
    BY <1>1, <2>1
  <2>4. QED
    BY <1>2, <1>3, <2>2, <2>3 DEF StoreInv, CountMatches
<1>5. ASSUME NEW v \in Users, NEW row, Holds(v, row) PROVE Holds(v, row)'
  <2>1. PICK i \in DOMAIN rows[v] : rows[v][i] = row
    BY <1>5 DEF Holds
  <2>2. CASE v = u
    <3>1. i \in 1 .. Len(old) /\ i \in DOMAIN all /\ all[i] = row
      BY <1>1, <1>2, <2>1, <2>2
    <3>2. QED
      BY <1>3, <2>2, <3>1 DEF Holds
  <2>3. CASE v # u
    BY <1>3, <2>1, <2>3 DEF Holds
  <2>4. QED
    BY <2>2, <2>3
<1>6. Asked'
  <2> SUFFICES ASSUME NEW r \in Requests, pc'[r] \in Asking, r \notin unstored
               PROVE  Holds(Owner[r], Question(r))'
    BY DEF Asked
  <2>1. Owner[r] \in Users /\ Question(r)' = Question(r)
    BY TurnConstants DEF Question
  <2>2. CASE pc[r] \in Asking
    BY <1>5, <2>1, <2>2 DEF StoreInv, Asked, Holds
  <2>3. CASE Owner[r] = u /\ \E i \in DOMAIN more : more[i] = Question(r)
    <3>1. PICK i \in DOMAIN more : more[i] = Question(r)
      BY <2>3
    <3>2. Len(old) + i \in DOMAIN all /\ all[Len(old) + i] = Question(r)
      BY <1>1, <1>2, <3>1
    <3>3. QED
      BY <1>3, <2>1, <2>3, <3>2 DEF Holds
  <2>4. QED
    BY <2>2, <2>3
<1>7. AnswerAfterQuestion'
  <2> SUFFICES ASSUME NEW v \in Users, NEW n \in DOMAIN rows'[v],
                      rows'[v][n].role = "assistant", rows'[v][n].of \notin unstored
               PROVE  \E m \in 1 .. n - 1 : rows'[v][m] = Question(rows'[v][n].of)
    BY DEF AnswerAfterQuestion, Question
  <2>1. CASE v # u
    BY <1>3, <2>1 DEF StoreInv, AnswerAfterQuestion
  <2>2. CASE v = u /\ n \in 1 .. Len(old)
    <3>1. all[n] = old[n] /\ n \in DOMAIN old
      BY <1>1, <1>2, <2>2
    <3>2. PICK m \in 1 .. n - 1 : old[m] = Question(old[n].of)
      BY <1>3, <2>2, <3>1 DEF StoreInv, AnswerAfterQuestion
    <3>3. m \in 1 .. Len(old)
      BY <1>1, <2>2, <3>2
    <3>4. all[m] = Question(all[n].of)
      BY <1>2, <3>1, <3>2, <3>3
    <3>5. rows'[v] = all
      BY <1>3, <2>2
    <3>6. QED
      BY <3>2, <3>4, <3>5
  <2>3. CASE v = u /\ n \notin 1 .. Len(old)
    <3>1. n \in 1 .. Len(old) + Len(more)
      BY <1>2, <1>3, <2>3
    <3>2. PICK i \in 1 .. Len(more) : n = Len(old) + i
      <4> DEFINE a == Len(old)
      <4> DEFINE b == Len(more)
      <4>1. a \in Nat /\ b \in Nat /\ n \in 1 .. a + b /\ n \notin 1 .. a
        BY <1>1, <2>3, <3>1
      <4> HIDE DEF a, b
      <4>2. n - a \in 1 .. b /\ n = a + (n - a)
        BY <4>1
      <4>3. QED
        BY <4>2 DEF a, b
    <3>3. all[n] = more[i] /\ i \in DOMAIN more
      BY <1>1, <1>2, <3>2
    <3>4. CASE Holds(u, Question(more[i].of))
      <4>1. PICK m \in DOMAIN old : old[m] = Question(more[i].of)
        BY <3>4 DEF Holds
      <4>2. m \in 1 .. n - 1 /\ all[m] = old[m]
        BY <1>1, <1>2, <3>2, <4>1
      <4>3. QED
        BY <1>3, <2>3, <3>3, <4>1, <4>2
    <3>5. ASSUME NEW j \in 1 .. i - 1, more[j] = Question(more[i].of)
          PROVE  \E m \in 1 .. n - 1 : rows'[v][m] = Question(rows'[v][n].of)
      <4>1. Len(old) + j \in 1 .. n - 1 /\ j \in 1 .. Len(more)
        BY <1>1, <3>2
      <4>2. all[Len(old) + j] = more[j]
        BY <1>2, <4>1
      <4>3. QED
        BY <1>3, <2>3, <3>3, <3>5, <4>1, <4>2
    <3>6. QED
      BY <1>3, <2>3, <3>3, <3>4, <3>5
  <2>4. QED
    BY <2>1, <2>2, <2>3
<1>8. QED
  BY <1>3, <1>4, <1>6, <1>7 DEF StoreInv, StoreTyped

(* What the page posts: the questions of a user's turns, and after them their answers. *)
LEMMA Posts ==
    ASSUME IsFiniteSet(Begun), NEW u \in Users
    PROVE  LET P == PageMessages(u)
           IN  /\ DOMAIN P \subseteq Nat /\ IsFiniteSet(DOMAIN P)
               /\ \A k \in DOMAIN P : P[k] \in Rows
               /\ \A k \in DOMAIN P : P[k].role = "assistant" =>
                      \E j \in DOMAIN P : j < k /\ P[j] = Question(P[k].of)
<1> DEFINE sent == {r \in Requests : Owner[r] = u /\ pc[r] # "new"}
           heard == {s \in sent : Received(s)}
           asks == {2 * r : r \in sent}
           answers == {2 * r + 1 : r \in heard}
           P == [k \in asks \cup answers |->
                    IF k % 2 = 0 THEN Question(k \div 2) ELSE OnPage(k \div 2)]
<1>1. PageMessages(u) = P
  BY DEF PageMessages
<1>2. /\ IsFiniteSet(sent) /\ sent \subseteq Requests /\ sent \subseteq Nat
      /\ IsFiniteSet(heard) /\ heard \subseteq sent
  <2>1. sent \in SUBSET Begun /\ heard \in SUBSET sent /\ Requests \subseteq Nat
    BY TurnConstants DEF Begun
  <2>2. IsFiniteSet(sent)
    BY <2>1, FS_Subset
  <2> HIDE DEF sent, heard
  <2>3. IsFiniteSet(heard)
    BY <2>1, <2>2, FS_Subset
  <2>4. QED
    BY <2>1, <2>2, <2>3 DEF sent
<1> HIDE DEF sent, heard
<1>3. IsFiniteSet(asks) /\ IsFiniteSet(answers)
  <2>1. [r \in sent |-> 2 * r] \in Surjection(sent, asks)
    BY DEF Surjection
  <2>2. [r \in heard |-> 2 * r + 1] \in Surjection(heard, answers)
    BY DEF Surjection
  <2>3. QED
    BY <1>2, <2>1, <2>2, FS_Surjection
<1>4. \A r \in sent : /\ 2 * r \in Nat /\ (2 * r) % 2 = 0 /\ (2 * r) \div 2 = r
                      /\ 2 * r + 1 \in Nat /\ (2 * r + 1) % 2 = 1 /\ (2 * r + 1) \div 2 = r
                      /\ 2 * r < 2 * r + 1
  BY <1>2
<1>5. DOMAIN P = asks \cup answers /\ IsFiniteSet(asks \cup answers)
  BY <1>3, FS_Union
<1>6. ASSUME NEW r \in sent PROVE 2 * r \in DOMAIN P /\ P[2 * r] = Question(r)
  BY <1>4, <1>6
<1>7. ASSUME NEW r \in heard PROVE P[2 * r + 1] = OnPage(r)
  <2>1. r \in sent /\ 2 * r + 1 \in answers
    BY <1>2, <1>7
  <2>2. 2 * r + 1 \in DOMAIN P /\ (2 * r + 1) % 2 # 0 /\ (2 * r + 1) \div 2 = r
    BY <1>4, <2>1
  <2>3. QED
    BY <2>2
<1>8. ASSUME NEW k \in DOMAIN P
      PROVE  /\ k \in Nat /\ P[k] \in Rows
             /\ P[k].role = "assistant" => \E j \in DOMAIN P : j < k /\ P[j] = Question(P[k].of)
  <2>1. CASE k \in asks
    <3>1. PICK r \in sent : k = 2 * r
      BY <2>1
    <3>2. P[k] = Question(r)
      BY <1>6, <3>1
    <3>3. QED
      BY <1>2, <1>4, <3>1, <3>2, Messages
  <2>2. CASE k \in answers
    <3>1. PICK r \in heard : k = 2 * r + 1
      BY <2>2
    <3>2. P[k] = OnPage(r) /\ r \in sent
      BY <1>2, <1>7, <3>1
    <3>3. 2 * r \in DOMAIN P /\ P[2 * r] = Question(r) /\ 2 * r < k /\ k \in Nat
      BY <1>4, <1>6, <3>1, <3>2
    <3>4. P[k] \in Rows /\ P[k].of = r
      BY <1>2, <3>2, Messages
    <3>5. QED
      BY <3>3, <3>4
  <2>3. QED
    BY <1>5, <2>1, <2>2
<1> HIDE DEF P
<1>9. QED
  BY <1>1, <1>5, <1>8

(* The page's batch adds what is missing, in the page's order. *)
LEMMA SyncStores ==
    ASSUME StoreInv, NEW u \in Users, SyncMessages(u)
    PROVE  StoreInv'
<1> DEFINE P == PageMessages(u)
           missing == {k \in DOMAIN P : /\ \A i \in DOMAIN rows[u] : rows[u][i] # P[k]
                                        /\ \A j \in DOMAIN P : j < k => P[j] # P[k]}
           more == InOrder(P, missing)
<1>1. /\ DOMAIN P \subseteq Nat /\ IsFiniteSet(DOMAIN P)
      /\ \A k \in DOMAIN P : P[k] \in Rows
      /\ \A k \in DOMAIN P : P[k].role = "assistant" =>
             \E j \in DOMAIN P : j < k /\ P[j] = Question(P[k].of)
  BY Posts DEF StoreInv
<1>2. rows' = [rows EXCEPT ![u] = @ \o more]
  BY DEF SyncMessages, Merged
<1>3. UNCHANGED <<pc, collected, session, unstored>>
  BY DEF SyncMessages, histories
<1> HIDE DEF P
<1>4. missing \subseteq DOMAIN P /\ missing \in SUBSET Nat /\ IsFiniteSet(missing)
  BY <1>1, FS_Subset
<1>5. \A k \in missing : P[k] \in Rows
  BY <1>1
<1>6. \A k \in DOMAIN P : k \notin missing =>
          Holds(u, P[k]) \/ \E j \in DOMAIN P : j < k /\ P[j] = P[k]
  BY DEF Holds
<1>7. \A k \in missing : \A j \in DOMAIN P : j < k => P[j] # P[k]
  OBVIOUS
<1> HIDE DEF missing
<1>8. /\ more \in Seq(Rows)
      /\ \A n \in DOMAIN more : \E k \in missing : Rank(missing, k) = n /\ more[n] = P[k]
      /\ \A k \in missing : Rank(missing, k) \in DOMAIN more /\ more[Rank(missing, k)] = P[k]
  <2> DEFINE o == InOrder(P, missing)
  <2>1. /\ o \in Seq(Rows) /\ Len(o) = Cardinality(missing)
        /\ \A n \in DOMAIN o : \E k \in missing : Rank(missing, k) = n /\ o[n] = P[k]
        /\ \A k \in missing : Rank(missing, k) \in DOMAIN o /\ o[Rank(missing, k)] = P[k]
    <3>1. missing \in SUBSET Nat /\ IsFiniteSet(missing) /\ \A i \in missing : P[i] \in Rows
      BY <1>4, <1>5
    <3>2. QED
      BY <3>1, InOrderHolds, SMTT(30)
  <2>2. more = o
    OBVIOUS
  <2> HIDE DEF o, more
  <2>3. QED
    BY <2>1, <2>2, Zenon
<1> HIDE DEF more
<1>9. count' = [count EXCEPT ![u] = @ + Len(more)]
  <2>1. count[u] \in Nat /\ Len(rows[u]) \in Nat /\ Len(more) \in Nat /\ rows[u] \in Seq(Rows)
    BY <1>8 DEF StoreInv, StoreTyped
  <2>2. rows'[u] = rows[u] \o more
    BY <1>2 DEF StoreInv, StoreTyped
  <2>3. Len(rows'[u]) = Len(rows[u]) + Len(more)
    BY <1>8, <2>1, <2>2
  <2>4. count[u] + Len(rows'[u]) - Len(rows[u]) = count[u] + Len(more)
    BY <2>1, <2>3
  <2>5. QED
    BY <2>4 DEF SyncMessages
<1>10. ASSUME NEW n \in DOMAIN more, more[n].role = "assistant"
       PROVE  \/ Holds(u, Question(more[n].of))
              \/ \E m \in 1 .. n - 1 : more[m] = Question(more[n].of)
  <2>1. PICK k \in missing : Rank(missing, k) = n /\ more[n] = P[k]
    BY <1>8
  <2> DEFINE question == Question(P[k].of)
             same == {j \in DOMAIN P : P[j] = question}
  <2>2. \E j \in same : j < k
    BY <1>1, <1>4, <1>10, <2>1
  <2>3. same \subseteq Nat /\ same # {}
    BY <1>1, <2>2
  <2>4. PICK j \in same : \A i \in same : j <= i
    BY <2>3, HasLeast
  <2>5. j \in DOMAIN P /\ P[j] = question /\ j \in Nat /\ k \in Nat /\ j < k
    BY <1>4, <2>2, <2>3, <2>4
  <2>6. \A i \in DOMAIN P : i < j => P[i] # P[j]
    <3>1. \A i \in same : ~(i < j)
      BY <2>3, <2>4
    <3>2. QED
      BY <2>5, <3>1
  <2> HIDE DEF question, same
  <2>7. CASE Holds(u, question)
    BY <2>1, <2>7 DEF question
  <2>8. CASE ~Holds(u, question)
    <3>1. j \in missing
      BY <1>6, <2>5, <2>6, <2>8
    <3>2. /\ Rank(missing, j) \in DOMAIN more /\ more[Rank(missing, j)] = question
      BY <1>8, <2>5, <3>1
    <3>3. Rank(missing, j) \in Nat /\ n \in Nat /\ Rank(missing, j) < n
      BY <1>4, <2>1, <2>5, <3>1, RankGrows
    <3>4. DOMAIN more = 1 .. Len(more) /\ Len(more) \in Nat
      BY <1>8
    <3>5. Rank(missing, j) \in 1 .. n - 1
      BY <3>2, <3>3, <3>4
    <3>6. QED
      BY <2>1, <3>2, <3>5 DEF question
  <2>9. QED
    BY <2>7, <2>8
<1>11. /\ pc' \in [Requests -> Stages] /\ session' \in [Users -> BOOLEAN]
       /\ IsFiniteSet(Begun') /\ \A r \in Requests : pc'[r] \in Asking => pc[r] \in Asking
  <2>1. Begun' = Begun
    BY <1>3 DEF Begun
  <2>2. QED
    BY <1>3, <2>1 DEF StoreInv, StoreTyped
<1>12. QED
  BY <1>2, <1>3, <1>8, <1>9, <1>10, <1>11, StoreGrows

(* The deletion empties the session and gives up on the turns sent so far. *)
LEMMA DeleteStores ==
    ASSUME StoreInv, NEW u \in Users, DeleteSession(u)
    PROVE  StoreInv'
<1>1. /\ rows' = [rows EXCEPT ![u] = <<>>] /\ count' = [count EXCEPT ![u] = 0]
      /\ session' = [session EXCEPT ![u] = FALSE]
      /\ unstored' = unstored \cup {r \in Requests : Owner[r] = u /\ pc[r] # "new"}
      /\ UNCHANGED <<pc, collected>>
  BY DEF DeleteSession
<1>2. /\ rows'[u] = <<>> /\ count'[u] = 0
      /\ \A v \in Users : v # u => rows'[v] = rows[v] /\ count'[v] = count[v]
  BY <1>1 DEF StoreInv, StoreTyped
<1>3. StoreTyped'
  BY <1>1 DEF StoreInv, StoreTyped
<1>4. CountMatches'
  BY <1>2 DEF StoreInv, CountMatches
<1>5. Asked'
  <2> SUFFICES ASSUME NEW r \in Requests, pc[r] \in Asking, r \notin unstored'
               PROVE  Holds(Owner[r], Question(r))'
    BY <1>1 DEF Asked
  <2>1. Owner[r] \in Users /\ Owner[r] # u /\ r \notin unstored
    BY <1>1, TurnConstants DEF Asking
  <2>2. Holds(Owner[r], Question(r))
    BY <2>1 DEF StoreInv, Asked
  <2>3. QED
    BY <1>2, <2>1, <2>2 DEF Holds, Question
<1>6. AnswerAfterQuestion'
  BY <1>1, <1>2 DEF StoreInv, AnswerAfterQuestion, Question
<1>7. Begun' = Begun
  BY <1>1 DEF Begun
<1>8. QED
  BY <1>3, <1>4, <1>5, <1>6, <1>7 DEF StoreInv

(* A turn goes on, to a stage at which it is asking only if it was. *)
LEMMA GoesOn ==
    ASSUME StoreInv, NEW r \in Requests, NEW stage \in Stages, Goes(r, stage),
           collected' \in [Requests -> Collected],
           stage \in Asking => pc[r] \in Asking,
           UNCHANGED <<session, rows, count>>, unstored \subseteq unstored'
    PROVE  StoreInv'
<1>1. pc' \in [Requests -> Stages] /\ Begun' \subseteq Begun \cup {r}
  BY DEF Goes, StoreInv, StoreTyped, Begun
<1>2. \A s \in Requests : pc'[s] \in Asking => pc[s] \in Asking
  BY DEF Goes, StoreInv, StoreTyped
<1>3. StoreTyped' /\ IsFiniteSet(Begun')
  BY <1>1, FewBegun DEF StoreInv, StoreTyped
<1>4. QED
  BY <1>2, <1>3, StoreStays

(* A turn that is refused stores nothing. *)
LEMMA RefusedStores ==
    ASSUME StoreInv, NEW r \in Requests, Refuse(r) \/ \E quoted : BlockedByExperts(r, quoted)
    PROVE  StoreInv'
<1>1. /\ Goes(r, "refused") /\ UNCHANGED <<session, rows, count, collected, unstored>>
      /\ collected' \in [Requests -> Collected]
  BY DEF Refuse, BlockedByExperts, stored, histories, StoreInv, StoreTyped
<1>2. "refused" \in Stages /\ "refused" \notin Asking
  BY DEF Stages, Asking
<1>3. QED
  BY <1>1, <1>2, GoesOn

(* Nor does one that chat_pipeline answers. *)
LEMMA CompleteStores ==
    ASSUME StoreInv, NEW r \in Requests, Complete(r)
    PROVE  StoreInv'
<1>1. ASSUME NEW stage \in {"refused", "answered"}, Goes(r, stage),
             UNCHANGED <<stored, collected, unstored>>
      PROVE  StoreInv'
  <2>1. stage \in Stages /\ stage \notin Asking
    BY DEF Stages, Asking
  <2>2. collected' \in [Requests -> Collected] /\ UNCHANGED <<session, rows, count>>
    BY <1>1 DEF stored, StoreInv, StoreTyped
  <2>3. QED
    BY <1>1, <2>1, <2>2, GoesOn
<1>2. QED
  BY <1>1, RefusedStores DEF Complete

(* The streaming endpoint stores the question before anything is streamed. *)
LEMMA StreamStores ==
    ASSUME StoreInv, NEW r \in Requests, StartStream(r)
    PROVE  StoreInv'
<1> DEFINE u == Owner[r]
<1>0. "streaming" \in Stages /\ u \in Users /\ Question(r) \in Rows
  BY TurnConstants, Messages DEF Stages
<1>1. ASSUME Goes(r, "streaming"), collected' = collected
      PROVE  /\ pc' \in [Requests -> Stages] /\ IsFiniteSet(Begun')
             /\ \A s \in Requests : pc'[s] \in Asking => pc[s] \in Asking \/ s = r
  <2>1. pc' \in [Requests -> Stages] /\ Begun' \subseteq Begun \cup {r}
    BY <1>0, <1>1 DEF Goes, StoreInv, StoreTyped, Begun
  <2>2. QED
    BY <1>1, <2>1, FewBegun DEF Goes, StoreInv, StoreTyped
<1>2. ASSUME Goes(r, "streaming"), collected' = collected, UNCHANGED stored,
             unstored' = unstored \cup {r}
      PROVE  StoreInv'
  <2>1. StoreTyped' /\ UNCHANGED <<rows, count>>
    BY <1>1, <1>2 DEF StoreInv, StoreTyped, stored
  <2>2. QED
    BY <1>1, <1>2, <2>1, StoreStays
<1>3. ASSUME Goes(r, "streaming"), collected' = collected, unstored' = unstored, StoreQuestion(r)
      PROVE  StoreInv'
  <2>1. /\ session' \in [Users -> BOOLEAN]
        /\ rows' = [rows EXCEPT ![u] = WithRow(@, Question(r))]
        /\ count' = [count EXCEPT ![u] = @ + Len(rows'[u]) - Len(rows[u])]
    BY <1>0, <1>3 DEF StoreQuestion, SaveSession, SaveMessage, StoreInv, StoreTyped
  <2>2. rows \in [Users -> Seq(Rows)] /\ rows[u] \in Seq(Rows) /\ Len(rows[u]) \in Nat
        /\ count \in [Users -> Nat] /\ count[u] \in Nat
    BY <1>0 DEF StoreInv, StoreTyped
  <2>3. CASE Holds(u, Question(r))
    <3>1. rows' = rows
      <4>1. WithRow(rows[u], Question(r)) = rows[u]
        BY <2>3 DEF Holds, WithRow
      <4> HIDE DEF u
      <4>2. rows' = [rows EXCEPT ![u] = rows[u]]
        BY <2>1, <4>1
      <4>3. QED
        BY <2>2, <4>2
    <3>2. count' = count
      <4>1. count[u] + Len(rows'[u]) - Len(rows[u]) = count[u]
        BY <2>2, <3>1
      <4> HIDE DEF u
      <4>2. count' = [count EXCEPT ![u] = count[u]]
        BY <2>1, <4>1
      <4>3. QED
        BY <2>2, <4>2
    <3>3. StoreTyped'
      BY <1>1, <1>3, <2>1, <3>1, <3>2 DEF StoreInv, StoreTyped
    <3>4. QED
      BY <1>1, <1>3, <2>3, <3>1, <3>2, <3>3, StoreStays
  <2>4. CASE ~Holds(u, Question(r))
    <3> DEFINE more == <<Question(r)>>
    <3>1. more \in Seq(Rows) /\ Len(more) = 1 /\ DOMAIN more = {1} /\ more[1] = Question(r)
      BY <1>0
    <3>2. WithRow(rows[u], Question(r)) = rows[u] \o more
      BY <1>0, <2>2, <2>4 DEF WithRow, Holds
    <3> HIDE DEF more
    <3>3. rows' = [rows EXCEPT ![u] = @ \o more]
      BY <2>1, <3>2
    <3>4. count' = [count EXCEPT ![u] = @ + Len(more)]
      <4>1. rows'[u] = rows[u] \o more
        BY <1>0, <2>2, <3>3
      <4>2. Len(rows'[u]) = Len(rows[u]) + Len(more)
        BY <2>2, <3>1, <4>1, Joined
      <4>3. count[u] + Len(rows'[u]) - Len(rows[u]) = count[u] + Len(more)
        BY <2>2, <3>1, <4>2
      <4>4. QED
        BY <2>1, <4>3
    <3>5. \A i \in DOMAIN more :
              more[i].role = "assistant" /\ more[i].of \notin unstored =>
                  \/ Holds(u, Question(more[i].of))
                  \/ \E j \in 1 .. i - 1 : more[j] = Question(more[i].of)
      <4>1. Question(r).role # "assistant"
        BY Messages
      <4>2. QED
        BY <3>1, <4>1
    <3>6. \A s \in Requests :
              pc'[s] \in Asking =>
                  pc[s] \in Asking \/ (Owner[s] = u /\ \E i \in DOMAIN more : more[i] = Question(s))
      BY <1>1, <1>3, <3>1
    <3>7. pc' \in [Requests -> Stages] /\ IsFiniteSet(Begun') /\ session' \in [Users -> BOOLEAN]
          /\ collected' = collected /\ unstored' = unstored
      BY <1>1, <1>3, <2>1
    <3> HIDE DEF u
    <3>8. QED
      BY <1>0, <3>1, <3>3, <3>4, <3>5, <3>6, <3>7, StoreGrows
  <2>5. QED
    BY <2>3, <2>4
<1>4. QED
  BY <1>2, <1>3, RefusedStores DEF StartStream, histories

(* The finishing thread inserts the answer of a turn whose question is stored. *)
LEMMA FinishStores ==
    ASSUME StoreInv, NEW r \in Requests, FinishInserts(r)
    PROVE  StoreInv'
<1> DEFINE u == Owner[r]
<1>1. pc[r] = "saving" /\ Goes(r, "saved") /\ collected' = collected
  BY DEF FinishInserts
<1>2. "saved" \in Stages /\ "saved" \notin Asking /\ u \in Users
      /\ collected' \in [Requests -> Collected]
  BY <1>1, TurnConstants DEF Stages, Asking, StoreInv, StoreTyped
<1>3. CASE UNCHANGED stored /\ unstored' = unstored \cup {r}
  BY <1>1, <1>2, <1>3, GoesOn DEF stored
<1>4. CASE /\ rows' = [rows EXCEPT ![u] = Append(@, Answer(r))]
           /\ count' = [count EXCEPT ![u] = @ + 1]
           /\ UNCHANGED <<session, unstored>>
  <2> DEFINE more == <<Answer(r)>>
  <2>1. /\ more \in Seq(Rows) /\ Len(more) = 1 /\ DOMAIN more = {1} /\ more[1] = Answer(r)
        /\ Answer(r).of = r
    BY Messages
  <2>2. rows[u] \in Seq(Rows) /\ Append(rows[u], Answer(r)) = rows[u] \o more
    <3>1. rows[u] \in Seq(Rows) /\ Answer(r) \in Rows
      BY <1>2, Messages DEF StoreInv, StoreTyped
    <3>2. QED
      BY <3>1, Joined
  <2> HIDE DEF more
  <2>3. /\ rows' = [rows EXCEPT ![u] = @ \o more]
        /\ count' = [count EXCEPT ![u] = @ + Len(more)]
    BY <1>4, <2>1, <2>2
  <2>4. /\ pc' \in [Requests -> Stages] /\ Begun' \subseteq Begun \cup {r}
        /\ \A s \in Requests : pc'[s] \in Asking => pc[s] \in Asking
    BY <1>1, <1>2 DEF Goes, StoreInv, StoreTyped, Begun
  <2>5. IsFiniteSet(Begun') /\ session' \in [Users -> BOOLEAN]
    BY <1>4, <2>4, FewBegun DEF StoreInv, StoreTyped
  <2>6. r \notin unstored => Holds(u, Question(r))
    BY <1>1 DEF StoreInv, Asked, Asking
  <2>7. \A i \in DOMAIN more :
            more[i].role = "assistant" /\ more[i].of \notin unstored => Holds(u, Question(more[i].of))
    BY <2>1, <2>6
  <2>8. QED
    BY <1>1, <1>2, <1>4, <2>1, <2>3, <2>4, <2>5, <2>7, StoreGrows
<1>5. QED
  BY <1>3, <1>4 DEF FinishInserts

(* The other steps of a turn store nothing. *)
LEMMA TurnStores ==
    ASSUME StoreInv, NEW r \in Requests,
           Chunk(r) \/ EndStream(r) \/ Disconnect(r) \/ FinishLooks(r) \/ FinishSnapshot(r)
    PROVE  StoreInv'
<1>1. UNCHANGED <<session, rows, count, unstored>>
  BY DEF Chunk, EndStream, Disconnect, FinishLooks, FinishSnapshot, stored, histories
<1>2. collected' \in [Requests -> Collected]
  BY DEF Chunk, EndStream, Disconnect, FinishLooks, FinishSnapshot, StoreInv, StoreTyped, Collected
<1>3. CASE Chunk(r)
  <2>1. pc' = pc /\ Begun' = Begun
    BY <1>3 DEF Chunk, Begun
  <2>2. QED
    BY <1>1, <1>2, <2>1, StoreStays DEF StoreInv, StoreTyped
<1>4. CASE ~Chunk(r)
  <2>1. \E stage \in Stages : Goes(r, stage) /\ (stage \in Asking => pc[r] \in Asking)
    BY <1>4 DEF EndStream, Disconnect, FinishLooks, FinishSnapshot, Stages, Asking
  <2>2. QED
    BY <1>1, <1>2, <2>1, GoesOn
<1>5. QED
  BY <1>3, <1>4

(* A restart gives up the streams and the threads that finish them. *)
LEMMA RestartStores ==
    ASSUME StoreInv, Restart
    PROVE  StoreInv'
<1>1. /\ UNCHANGED <<session, rows, count, collected, unstored>>
      /\ pc' = [r \in Requests |->
                  IF pc[r] \in {"streaming", "ended", "saving", "saved"} THEN "gone" ELSE pc[r]]
  BY DEF Restart, stored
<1>2. /\ pc' \in [Requests -> Stages]
      /\ \A r \in Requests : pc'[r] \notin Asking /\ (pc'[r] = "new" <=> pc[r] = "new")
  BY <1>1 DEF Stages, Asking, StoreInv, StoreTyped
<1>3. Begun' = Begun
  BY <1>2 DEF Begun
<1>4. QED
  BY <1>1, <1>2, <1>3, StoreStays DEF StoreInv, StoreTyped

(* Every step keeps the stored conversation as it should be. *)
LEMMA StoreStep == StoreInv /\ [Next]_vars => StoreInv'
<1> SUFFICES ASSUME StoreInv, [Next]_vars PROVE StoreInv'
  OBVIOUS
<1>1. ASSUME NEW r \in Requests,
             \/ Complete(r) \/ StartStream(r) \/ Chunk(r) \/ EndStream(r) \/ Disconnect(r)
             \/ Finishing(r)
      PROVE  StoreInv'
  BY <1>1, CompleteStores, StreamStores, TurnStores, FinishStores DEF Finishing
<1>2. ASSUME NEW u \in Pages, SyncMessages(u) \/ SyncSession(u) \/ DeleteSession(u)
      PROVE  StoreInv'
  <2>1. u \in Users
    BY TurnConstants
  <2>2. CASE SyncSession(u)
    <3>1. UNCHANGED <<rows, count, pc, collected, unstored>> /\ Begun' = Begun
      BY <2>2 DEF SyncSession, histories, Begun
    <3>2. session' \in [Users -> BOOLEAN]
      BY <2>2 DEF SyncSession, SaveSession, StoreInv, StoreTyped
    <3>3. QED
      BY <3>1, <3>2, StoreStays DEF StoreInv, StoreTyped
  <2>3. QED
    BY <1>2, <2>1, <2>2, SyncStores, DeleteStores
<1>3. CASE CacheExpires \/ UNCHANGED vars
  <2>1. UNCHANGED <<session, rows, count, pc, collected, unstored>> /\ Begun' = Begun
    BY <1>3 DEF CacheExpires, stored, histories, vars, Begun
  <2>2. QED
    BY <2>1, StoreStays DEF StoreInv, StoreTyped
<1>4. QED
  BY <1>1, <1>2, <1>3, RestartStores DEF Next

(* AnswerAfterQuestion, of any instance: whichever of the page and the thread *)
(* stores an answer, its question stands before it, unless a save failed or   *)
(* the session was deleted in between.                                        *)
THEOREM AnswersInOrder == Spec => []AnswerAfterQuestion
<1>1. StoreInv => AnswerAfterQuestion
  BY DEF StoreInv
<1>2. QED
  BY InitStore, StoreStep, <1>1, PTL DEF Spec

(* CountMatches, of any instance: message_count is the number of rows, through *)
(* single saves, batches that repeat what is stored, and deletions.            *)
THEOREM CountsRows == Spec => []CountMatches
<1>1. StoreInv => CountMatches
  BY DEF StoreInv
<1>2. QED
  BY InitStore, StoreStep, <1>1, PTL DEF Spec

(* ChatTypeOK, of any instance. *)
THEOREM ChatTypeCorrect == Spec => []ChatTypeOK
<1>1. ContextInv /\ StoreInv => ChatTypeOK
  BY DEF ContextInv, CacheOwn, CorrectionOwn, SnapshotOwn, StoreInv, StoreTyped, Collected,
         ChatTypeOK, Entry
<1>2. ContextInv /\ [Next]_vars => ContextInv'
  BY CompleteOwn, StreamOwn, RestOwn DEF Next
<1>3. QED
  BY InitContext, InitStore, StoreStep, <1>1, <1>2, PTL DEF Spec
=============================================================================
