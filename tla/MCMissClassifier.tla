-------------------------- MODULE MCMissClassifier --------------------------
(* MissClassifier over shadows smaller than, and as large as, the lines used. *)
EXTENDS MissClassifier

SmallCapacities == 1..4
=============================================================================
