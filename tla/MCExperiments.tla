--------------------------- MODULE MCExperiments ---------------------------
(***************************************************************************)
(* Instances of Experiments for TLC.                                       *)
(***************************************************************************)
EXTENDS Experiments

\* No production at all, some, and some more: 11 is a tenth above 10.
Rates == {0, 10, 11}
NothingShown == -1
=============================================================================
