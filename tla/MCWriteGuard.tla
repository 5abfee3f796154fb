---------------------------- MODULE MCWriteGuard ----------------------------
(***************************************************************************)
(* Instances of WriteGuard for TLC.                                        *)
(***************************************************************************)
EXTENDS WriteGuard, TLC

CONSTANTS api, learner, a1, a2, l1, l2

\* The API process serves requests on several threads, the learner runs one.
HomeTwoOne == (a1 :> api) @@ (a2 :> api) @@ (l1 :> learner)
\* Both processes run two writing threads.
HomeTwoTwo == (a1 :> api) @@ (a2 :> api) @@ (l1 :> learner) @@ (l2 :> learner)
=============================================================================
