----------------------------- MODULE MCDgmhGate -----------------------------
(***************************************************************************)
(* Instances of DgmhGate for TLC.                                          *)
(***************************************************************************)
EXTENDS DgmhGate, TLC

CONSTANTS evolve, c1, c2

\* Two new values for one parameter.
OneTarget == (c1 :> evolve) @@ (c2 :> evolve)
=============================================================================
