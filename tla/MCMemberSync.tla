---------------------------- MODULE MCMemberSync ----------------------------
(***************************************************************************)
(* MemberSync for TLC.  Units are as good as each other: one of the members  *)
(* starts in the first.  (A symmetry set would not be sound for liveness.)   *)
(***************************************************************************)
EXTENDS MemberSync

FirstInFirst == ses[CHOOSE m \in Members : TRUE] = CHOOSE u \in Units : TRUE

MCInit == Init /\ FirstInFirst

MCFairSpec == MCInit /\ [][Next]_vars /\ Fairness
=============================================================================
