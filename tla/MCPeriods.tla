------------------------------ MODULE MCPeriods ------------------------------
(***************************************************************************)
(* Periods for TLC.                                                         *)
(***************************************************************************)
EXTENDS Periods, TLC

\* Sound for the safety properties: nothing tells the elements of these sets apart.
Symmetry == Permutations(Ids) \cup Permutations(Units) \cup Permutations(Handlers)
=============================================================================
