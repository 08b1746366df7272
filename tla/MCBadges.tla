------------------------------ MODULE MCBadges ------------------------------
(***************************************************************************)
(* Badges for TLC: scanners are as good as each other.                      *)
(***************************************************************************)
EXTENDS Badges, TLC

ScannerSymmetry == Permutations(Scanners)
=============================================================================
