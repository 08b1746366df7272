--------------------------- MODULE NitcEnvironments ---------------------------
(***************************************************************************)
(* The environments in which the export of NitcExport settles: edits that   *)
(* do not overlap the work of a Lambda invocation.  NitcExport itself puts   *)
(* no such restriction on them; the run nitc_lost_bump shows what happens    *)
(* without it.                                                              *)
(***************************************************************************)
EXTENDS NitcExport

\* Some mutation is between its read of the period and its bump of the event.
EditInProgress == \E x \in Editors : ed[x].at \in {"write", "bump"}

\* No Phase 1 run overlaps such a mutation ...
ApartFromPhase1 ==
    EditInProgress => \A w \in Workers : \/ pc[w] = "idle"
                                         \/ hand[w].body.kind = "event_export"
\* ... and the 60 s delay does its job: an event_export runs on settled periods only.
Phase1Pending ==
    \/ \E x \in Editors : ed[x].at # "idle"
    \/ \E m \in BagToSet(queue) : m.body.kind = "period_export"
ApartFromPhase2 ==
    Phase1Pending => \A w \in Workers : \/ pc[w] = "idle"
                                        \/ hand[w].body.kind = "period_export"

AllEditsSpec == Init /\ [][Next /\ ApartFromPhase1' /\ ApartFromPhase2']_vars

\* A mutation in progress runs on, and the Lambda keeps polling the queue.
Fairness ==
    /\ \A x \in Editors : WF_vars(EditorNext(x))
    /\ \A w \in Workers : WF_vars(WorkerNext(w))

FairAllEditsSpec == AllEditsSpec /\ Fairness
=============================================================================
