------------------------------ MODULE PeriodRows ------------------------------
(***************************************************************************)
(* What the rest of the system may rely on about a period: it is open in     *)
(* its first version only, and every write makes a new version.              *)
(***************************************************************************)
EXTENDS Naturals

CONSTANT Periods

VARIABLES
    ver,    \* version of each period, 0 before it exists
    open    \* the periods that are open

vars == <<ver, open>>

TypeOK == ver \in [Periods -> Nat] /\ open \subseteq Periods

Init == ver = [p \in Periods |-> 0] /\ open = {}

Bump(p) == ver' = [ver EXCEPT ![p] = @ + 1]

\* Someone signs in.
Start(p) == ver[p] = 0 /\ Bump(p) /\ open' = open \cup {p}

\* A finished period is entered.
Enter(p) == ver[p] = 0 /\ Bump(p) /\ UNCHANGED open

\* Any later write leaves the period closed.
Change(p) == ver[p] > 0 /\ Bump(p) /\ open' = open \ {p}

Next == \E p \in Periods : Start(p) \/ Enter(p) \/ Change(p)

Spec == Init /\ [][Next]_vars
=============================================================================
