---------------------------- MODULE MCNitcHistory ----------------------------
(***************************************************************************)
(* NitcHistory for TLC.                                                    *)
(***************************************************************************)
EXTENDS NitcHistory, TLC

\* Sound as in MCNitcExport: the history tells them apart no more than the export does.
Symmetry == Permutations(Periods) \cup Permutations(Editors) \cup Permutations(Workers)
=============================================================================
