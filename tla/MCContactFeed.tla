--------------------------- MODULE MCContactFeed ---------------------------
(***************************************************************************)
(* ContactFeed for TLC, from tables that hold the first person and perhaps   *)
(* others.                                                                  *)
(***************************************************************************)
EXTENDS ContactFeed

MCInit == Init /\ row[1].here

MCFairSpec == MCInit /\ [][Next]_vars /\ Fairness
=============================================================================
