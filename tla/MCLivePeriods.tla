---------------------------- MODULE MCLivePeriods ----------------------------
(***************************************************************************)
(* LivePeriods for TLC.                                                     *)
(***************************************************************************)
EXTENDS LivePeriods, TLC

\* Sound for the safety properties: nothing tells one period from another.
Symmetry == Permutations(Periods)
=============================================================================
