-------------------------- MODULE MCKnowledgeIndex --------------------------
(***************************************************************************)
(* Instances of KnowledgeIndex for TLC.                                    *)
(***************************************************************************)
EXTENDS KnowledgeIndex, TLC

CONSTANTS api, learner, a1, a2, l1, i1, i2, i3, python, rust

HomeOneEach == (a1 :> api) @@ (l1 :> learner)
HomeTwoOne == (a1 :> api) @@ (a2 :> api) @@ (l1 :> learner)
Topics == (i1 :> python) @@ (i2 :> python) @@ (i3 :> rust)
TopicsTwo == (i1 :> python) @@ (i2 :> python)
=============================================================================
