----------------------- MODULE CatalogExportRefinement -----------------------
(* What CatalogExport keeps of the queue implements the leased queue, as   *)
(* JobQueue does: the export is modelled over the queue it really has.     *)
EXTENDS CatalogExport

PhaseOf ==
  [j \in Exports |->
    CASE row[j].status = "none" -> "none"
      [] row[j].status \in {"PENDING", "FAILED"} -> "waiting"
      [] row[j].status = "RUNNING" -> "out"
      [] row[j].status = "SUCCEEDED" -> "done"
      [] row[j].status = "DEAD" -> "dead"]

SpentOn == [j \in Exports |-> row[j].attempts]

\* The attempts that still hold their row.
Leases == {l \in Workers \X Exports : \E x \in run[l[1]] : x.job = l[2] /\ Holds(l[1], x)}

Leased == INSTANCE LeasedQueue
  WITH Jobs <- Exports, MaxAttempts <- [j \in Exports |-> MaxAttempts],
       phase <- PhaseOf, spent <- SpentOn, leases <- Leases

\* However long an operation takes and whatever the handler writes meanwhile by
\* id, every step of an export is one step of the leased queue or none: waiting
\* gives back the attempt its own holder paid, and an attempt that was reaped
\* decides nothing.
ImplementsLeasedQueue == Leased!Spec
=============================================================================
