-------------------------- MODULE MCEngineDispatch --------------------------
(***************************************************************************)
(* Small instances of EngineDispatch for TLC.                              *)
(***************************************************************************)
EXTENDS EngineRefinement, TLC

CallerSymmetry == Permutations(Callers)
=============================================================================
