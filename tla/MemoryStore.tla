----------------------------- MODULE MemoryStore -----------------------------
(***************************************************************************)
(* What users told the system, under one key (memory/__init__.py, its      *)
(* layers, and decay.py): a row in PostgreSQL or, while that is down, in   *)
(* SQLite; and in each process a cache of four layers, loaded when the     *)
(* process starts and kept by what the process itself stores.              *)
(*                                                                         *)
(* Keys do not interact, so there is one.  A value is a store that was     *)
(* asked for: who asked, and its number.  With it are stored the tags and  *)
(* attributes of the call; in SQLite the attributes may come to quote a    *)
(* value that another user has stored under the key.  Scores, counts, ages *)
(* and the likeness of values, which decide on layers, on whether a cached *)
(* entry is passed over and on what is quoted, are choices.                *)
(***************************************************************************)
EXTENDS Naturals

CONSTANTS Processes, Users,
          Nobody,        \* the empty user id: what it stores is for everybody
          MaxEvents,     \* bound on stores and restarts of processes, together
          None

Writers  == Users \cup {Nobody}
Values   == [by : Writers, number : Nat]
Backends == {"pg", "sqlite"}
Layers   == {"working", "episodic", "semantic", "procedural"}

VARIABLES
    pgUp,
    row,        \* of a backend, the row of the key
    cache,      \* of a process and a layer, the entry of the key
    pc,         \* where each process is in a store
    item,       \* what each process is storing
    \* what properties compare with; no guard but the bounds' reads them
    begun,      \* stores so far
    acked,      \* of a backend, the values whose store returned True
    overtaken,  \* of these, the ones acknowledged before such a store began
    restarts

vars == <<pgUp, row, cache, pc, item, begun, acked, overtaken, restarts>>
histories == <<acked, overtaken>>

\* tags: of whose call they are; quotes: the other users whose values the attributes quote.
Entry == [user : Writers, value : Values, tags : Writers]
Row   == [user : Writers, value : Values, tags : Writers, quotes : SUBSET Users, sure : BOOLEAN]
Empty == [l \in Layers |-> None]

ASSUME MemoryConstants == Nobody \notin Users /\ MaxEvents \in Nat /\ None \notin Row

TypeOK ==
    /\ pgUp \in BOOLEAN
    /\ row \in [Backends -> Row \cup {None}]
    /\ cache \in [Processes -> [Layers -> Entry \cup {None}]]
    /\ pc \in [Processes -> {"idle", "pg", "cache", "check", "insert", "layers"}]
    /\ item \in [Processes -> [row : Row, after : SUBSET Values] \cup {None}]
    /\ begun \in Nat /\ restarts \in Nat /\ begun + restarts <= MaxEvents
    /\ acked \in [Backends -> SUBSET Values]
    /\ overtaken \in [Backends -> SUBSET Values]

Init ==
    /\ pgUp \in BOOLEAN
    /\ row = [b \in Backends |-> None]
    /\ cache = [p \in Processes |-> Empty]
    /\ pc = [p \in Processes |-> "idle"]
    /\ item = [p \in Processes |-> None]
    /\ begun = 0 /\ restarts = 0
    /\ acked = [b \in Backends |-> {}] /\ overtaken = [b \in Backends |-> {}]

Goto(p, from, to) == pc[p] = from /\ pc' = [pc EXCEPT ![p] = to]

MyRow(p) == item[p].row
AsEntry(r) == [user |-> r.user, value |-> r.value, tags |-> r.tags]
Mine(p) == AsEntry(MyRow(p))

\* True is returned.
Acknowledge(p, b) ==
    /\ acked' = [acked EXCEPT ![b] = @ \cup {MyRow(p).value}]
    /\ overtaken' = [overtaken EXCEPT ![b] = @ \cup item[p].after]

-----------------------------------------------------------------------------
(***************************************************************************)
(* Reading: the layers, ranked by scores, then the stores.                 *)
(***************************************************************************)
VisibleTo(e, viewer) == e.user \in {Nobody, viewer}

Cached(p) == {cache[p][l] : l \in {k \in Layers : cache[p][k] # None}}

InRows(viewer) ==
    {row[b] : b \in {b \in Backends : /\ row[b] # None /\ VisibleTo(row[b], viewer)
                                      /\ b = "pg" => pgUp}}

\* search_entities: what one of its answers may be.  Of an entry it gives the value and
\* the tags, of a row the attributes too.
Answers(p, viewer) == {e \in Cached(p) : VisibleTo(e, viewer)} \cup InRows(viewer)

\* user_memory_list: the values of the user's own rows.
Listed(viewer) == {r \in InRows(viewer) : r.user = viewer}

-----------------------------------------------------------------------------
(***************************************************************************)
(* Storing.                                                                *)
(***************************************************************************)

\* store_entity or memory_store is called: which store it is to be is settled now.
Call(p, w, sure) ==
    /\ begun + restarts < MaxEvents
    /\ Goto(p, "idle", IF pgUp THEN "pg" ELSE "check")
    /\ begun' = begun + 1
    /\ item' = [item EXCEPT ![p] =
                   [row |-> [user |-> w, value |-> [by |-> w, number |-> begun'], tags |-> w,
                             quotes |-> {}, sure |-> sure],
                    after |-> acked[IF pgUp THEN "pg" ELSE "sqlite"]]]
    /\ UNCHANGED <<pgUp, row, cache, histories, restarts>>

\* _pg_upsert_entity: the row of the name is taken over, whoever's it was.
PgUpsert(p) ==
    /\ pgUp
    /\ Goto(p, "pg", "cache")
    /\ row' = [row EXCEPT !["pg"] = MyRow(p)]
    /\ UNCHANGED <<pgUp, cache, item, begun, histories, restarts>>

\* ... or it fails, and the call returns False.
PgFailed(p) ==
    /\ Goto(p, "pg", "idle")
    /\ item' = [item EXCEPT ![p] = None]
    /\ UNCHANGED <<pgUp, row, cache, begun, histories, restarts>>

\* _store_to_fusion of a new entry; what the other layers hold stays there.
PgCache(p) ==
    /\ Goto(p, "cache", "idle")
    /\ \E l \in {"episodic", "semantic"} : cache' = [cache EXCEPT ![p][l] = Mine(p)]
    /\ Acknowledge(p, "pg")
    /\ item' = [item EXCEPT ![p] = None]
    /\ UNCHANGED <<pgUp, row, begun, restarts>>

\* The entry the process has of the key, of whatever user, from the highest layer down.
ExistingIn(p) ==
    IF cache[p].semantic # None THEN "semantic"
    ELSE IF cache[p].episodic # None THEN "episodic" ELSE "working"

Existing(p) == cache[p][ExistingIn(p)]

\* prevalidate: of a value that is held for sure and unlike the new one, the
\* attributes quote the beginning: of the entry or else of the row, whoever's it is.
Found(p) ==
    IF Existing(p) # None THEN {Existing(p).value.by}
    ELSE IF row["sqlite"] # None THEN {row["sqlite"].value.by} ELSE {}

Quoting(p, writers) == [MyRow(p) EXCEPT !.quotes = @ \cup (writers \ {Nobody, MyRow(p).user})]

\* SQLite: a row of confidence 0.9 and more is left alone, and True returned.
Sure == row["sqlite"] # None /\ row["sqlite"].sure

LiteCheck(p) ==
    /\ \/ /\ Sure /\ Goto(p, "check", "idle")
          /\ item' = [item EXCEPT ![p] = None]
       \/ /\ ~Sure /\ Goto(p, "check", "insert")
          /\ \E found \in {{}, Found(p)} :
                item' = [item EXCEPT ![p] = [row |-> Quoting(p, found), after |-> @.after]]
    /\ UNCHANGED <<pgUp, row, cache, begun, histories, restarts>>

LiteInsert(p) ==
    /\ Goto(p, "insert", "layers")
    /\ row' = [row EXCEPT !["sqlite"] = MyRow(p)]
    /\ UNCHANGED <<pgUp, cache, item, begun, histories, restarts>>

\* An exception anywhere: False is returned, what was written stays.
LiteFailed(p) ==
    /\ pc[p] \in {"check", "insert", "layers"}
    /\ pc' = [pc EXCEPT ![p] = "idle"]
    /\ item' = [item EXCEPT ![p] = None]
    /\ UNCHANGED <<pgUp, row, cache, begun, histories, restarts>>

\* The row is not what was inserted: another process has stored for the same user
\* meanwhile.  What the attributes then quote is the user's own earlier value, and of
\* the higher layers the cached one (detect_conflict).
Conflicting(p) ==
    IF /\ row["sqlite"].user = MyRow(p).user /\ row["sqlite"].value # MyRow(p).value
       /\ Existing(p) # None /\ ExistingIn(p) # "working"
    THEN {Existing(p).value.by} ELSE {}

\* Mutant: the entry takes the new value, and keeps its user.
MovedUpAnew(p) == [Existing(p) EXCEPT !.value = MyRow(p).value]

\* What is moved up is the entry as it is, with the value it was cached with.
MovedUp(p) == Existing(p)

\* Mutant: the value written is the entry's.
RowOnUpgradeOld(p, found) == [Quoting(p, found) EXCEPT !.value = Existing(p).value]

\* The tags written are those of the entry.
RowOnUpgrade(p, found) == [Quoting(p, found) EXCEPT !.tags = Existing(p).tags]

\* The key is cached: moved to the semantic layer, and on to the procedural one if
\* that is free and the entry was read often; the row is written again.
LiteUpgrade(p) ==
    /\ Goto(p, "layers", "idle")
    /\ Existing(p) # None
    /\ \E top \in {"semantic"} \cup {l \in {"procedural"} : cache[p][l] = None} :
          cache' = [cache EXCEPT ![p] = [l \in Layers |->
                       IF l = top THEN MovedUp(p)
                       ELSE IF l = "procedural" THEN cache[p][l] ELSE None]]
    /\ \E found \in {{}, Conflicting(p)} :
          row' = [row EXCEPT !["sqlite"] = RowOnUpgrade(p, found)]
    /\ Acknowledge(p, "sqlite")
    /\ item' = [item EXCEPT ![p] = None]
    /\ UNCHANGED <<pgUp, begun, restarts>>

Updated(p, found) ==
    [row["sqlite"] EXCEPT !.sure = MyRow(p).sure, !.quotes = Quoting(p, found).quotes]

\* It is not, or in the procedural layer only, or it was read too seldom: a new entry,
\* in the layer of its score.  The attributes of the user's row are written again.
LiteCache(p) ==
    /\ Goto(p, "layers", "idle")
    /\ \E l \in Layers : cache' = [cache EXCEPT ![p][l] = Mine(p)]
    /\ \E found \in {{}, Conflicting(p)} :
          row' = IF row["sqlite"].user = MyRow(p).user
                 THEN [row EXCEPT !["sqlite"] = Updated(p, found)] ELSE row
    /\ Acknowledge(p, "sqlite")
    /\ item' = [item EXCEPT ![p] = None]
    /\ UNCHANGED <<pgUp, begun, restarts>>

Store(p) ==
    \/ PgUpsert(p) \/ PgFailed(p) \/ PgCache(p)
    \/ LiteCheck(p) \/ LiteInsert(p) \/ LiteUpgrade(p) \/ LiteCache(p) \/ LiteFailed(p)

-----------------------------------------------------------------------------
(***************************************************************************)
(* What else moves entries: a read that counts them and the scan of        *)
(* batch_decay put them in the layer of their score, decay removes them.   *)
(***************************************************************************)
Move(p, from, to) ==
    /\ cache[p][from] # None /\ from \notin {"procedural", to}
    /\ cache' = [cache EXCEPT ![p][to] = cache[p][from], ![p][from] = None]
    /\ UNCHANGED <<pgUp, row, pc, item, begun, histories, restarts>>

Archive(p, l) ==
    /\ cache[p][l] # None
    /\ cache' = [cache EXCEPT ![p][l] = None]
    /\ UNCHANGED <<pgUp, row, pc, item, begun, histories, restarts>>

\* _load_fusion_from_db, from the store that answers; a store under way is lost.
Restart(p) ==
    /\ begun + restarts < MaxEvents
    /\ restarts' = restarts + 1
    /\ pc' = [pc EXCEPT ![p] = "idle"] /\ item' = [item EXCEPT ![p] = None]
    /\ LET r == row[IF pgUp THEN "pg" ELSE "sqlite"]
       IN  IF r = None
           THEN cache' = [cache EXCEPT ![p] = Empty]
           ELSE \E l \in Layers :
                   cache' = [cache EXCEPT ![p] =
                                [Empty EXCEPT ![l] = AsEntry(r)]]
    /\ UNCHANGED <<pgUp, row, begun, histories>>

PgSwitches ==
    /\ pgUp' = ~pgUp
    /\ UNCHANGED <<row, cache, pc, item, begun, histories, restarts>>

Next ==
    \/ \E p \in Processes :
         \/ \E w \in Writers, sure \in BOOLEAN : Call(p, w, sure)
         \/ Store(p)
         \/ \E l \in Layers : Archive(p, l) \/ \E to \in Layers : Move(p, l, to)
         \/ Restart(p)
    \/ PgSwitches

Spec == Init /\ [][Next]_vars

-----------------------------------------------------------------------------
(* No answer is the value that another user stored: not of a search, in any  *)
(* layer or store, nor of the list of the user's own rows, which "must never *)
(* return another user's rows" (memory/__init__.py:1347).  What PostgreSQL   *)
(* answers has nothing of another user in its tags and attributes either.    *)
OwnWords ==
    \A p \in Processes, u \in Users :
        /\ \A e \in Answers(p, u) \cup Listed(u) : e.value.by \in {u, Nobody}
        /\ pgUp /\ row["pg"] \in InRows(u) =>
              row["pg"].tags \in {u, Nobody} /\ row["pg"].quotes \subseteq {u}

(* A store that returned True is not undone by one that returned before it   *)
(* began, nor by what a cache still held: the row of the backend it went to  *)
(* is its own or that of a store not yet acknowledged when it began.         *)
Durable ==
    \A b \in Backends :
        acked[b] # {} => row[b] # None /\ row[b].value \notin overtaken[b]
=============================================================================
