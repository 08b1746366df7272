----------------------------- MODULE MCNitcExport -----------------------------
(***************************************************************************)
(* NitcExport and its environments for TLC.                                 *)
(***************************************************************************)
EXTENDS NitcEnvironments, TLC

\* Sound for the invariants and action properties: none of them, and no action, tells
\* one period, handler or invocation from another.
Symmetry == Permutations(Periods) \cup Permutations(Editors) \cup Permutations(Workers)
=============================================================================
