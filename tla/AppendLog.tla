------------------------------ MODULE AppendLog ------------------------------
(***************************************************************************)
(* What add_to_index promises its callers: a set of ids that only grows,   *)
(* each call taking effect in one step between its start and its return,   *)
(* and returning whether the id was new.                                   *)
(***************************************************************************)
CONSTANTS Thread, Id

VARIABLES
  ids,    \* the ids a reader of the index finds
  phase   \* phase[t]: idle, or the call thread t is in

Idle == [id |-> "none", state |-> "idle"]
Calls == {Idle} \cup [id : Id, state : {"called", "new", "known"}]

Init ==
  /\ ids = {}
  /\ phase = [t \in Thread |-> Idle]

Call(t, id) ==
  /\ phase[t] = Idle
  /\ phase' = [phase EXCEPT ![t] = [id |-> id, state |-> "called"]]
  /\ UNCHANGED ids

Effect(t) ==
  /\ phase[t].state = "called"
  /\ phase' = [phase EXCEPT ![t].state =
                 IF phase[t].id \in ids THEN "known" ELSE "new"]
  /\ ids' = ids \cup {phase[t].id}

Return(t) ==
  /\ phase[t].state \in {"new", "known"}
  /\ phase' = [phase EXCEPT ![t] = Idle]
  /\ UNCHANGED ids

Next == \E t \in Thread : (\E id \in Id : Call(t, id)) \/ Effect(t) \/ Return(t)

Spec == Init /\ [][Next]_<<ids, phase>>
=============================================================================
