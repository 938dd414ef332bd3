-------------------------- MODULE MCEditPipeline --------------------------
(* Small instances of EditPipeline for TLC: the runs are given by the cfgs.  *)
EXTENDS EditPipeline, TLC

CONSTANTS a, b

Symmetry == Permutations({a, b})
=============================================================================
