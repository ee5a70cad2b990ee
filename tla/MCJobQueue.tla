----------------------------- MODULE MCJobQueue -----------------------------
(* Values of JobQueue's constants for TLC.                                 *)
EXTENDS JobQueueRefinement, TLC

CONSTANTS j1, j2, w1, w2, w3

MCBudget == [j \in Jobs |-> IF j = j1 THEN 2 ELSE 1]
MCBudget2 == [j \in Jobs |-> 2]

WorkerSymmetry == Permutations(Workers)
JobSymmetry    == Permutations(Jobs)
BothSymmetry   == JobSymmetry \cup WorkerSymmetry
=============================================================================
