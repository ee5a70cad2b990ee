------------------------- MODULE JobQueueRefinement -------------------------
(* The Job table and its workers implement the leased queue.  A lease is a *)
(* claim its worker still acts on and that was not taken from it.          *)
EXTENDS JobQueue

PhaseOf ==
  [j \in Jobs |->
    CASE row[j].status = "none" -> "none"
      [] Waiting(row[j]) -> "waiting"
      [] row[j].status = "RUNNING" -> "out"
      [] row[j].status = "SUCCEEDED" -> "done"
      [] row[j].status = "DEAD" -> "dead"
      [] OTHER -> "removed"]

SpentOn == [j \in Jobs |-> row[j].attempts]

Leases == {l \in Workers \X Jobs : l[2] \in Believed(l[1]) /\ l \notin expired}

Leased == INSTANCE LeasedQueue WITH phase <- PhaseOf, spent <- SpentOn, leases <- Leases

\* Every step of the table and the workers is a step of the leased queue, or
\* none: late outcomes vanish, attempts are paid on claim (queue.ts:241-245)
\* and nothing but its holder or the reaper ends an attempt.
ImplementsLeasedQueue == Leased!Spec
=============================================================================
