----------------------------- MODULE LeasedQueue -----------------------------
(***************************************************************************)
(* What the job queue promises, with no table, batch or lock in it.        *)
(*                                                                         *)
(* A job is handed out under a lease; a job has at most one lease; only    *)
(* the holder of the lease decides what becomes of the attempt, and an     *)
(* attempt nobody decides about is ended from outside.  An attempt is paid *)
(* for when it is granted and refunded only by its own holder.             *)
(***************************************************************************)
EXTENDS Naturals

CONSTANTS Jobs, Workers, MaxAttempts

VARIABLES phase, spent, leases

vars == <<phase, spent, leases>>

Phase == {"none", "waiting", "out", "done", "dead", "removed"}

Init ==
  /\ phase = [j \in Jobs |-> "none"]
  /\ spent = [j \in Jobs |-> 0]
  /\ leases = {}

Move(S, ph) == phase' = [j \in Jobs |-> IF j \in S THEN ph ELSE phase[j]]
Drop(S)     == leases' = {l \in leases : l[2] \notin S}

Submit(j) ==
  /\ phase[j] = "none"
  /\ Move({j}, "waiting")
  /\ UNCHANGED <<spent, leases>>

\* Paid for here, whether or not the worker ever learns of the grant.
Grant(w, S, told) ==
  /\ \A j \in S : phase[j] = "waiting" /\ spent[j] < MaxAttempts[j]
  /\ Move(S, "out")
  /\ spent' = [j \in Jobs |-> IF j \in S THEN spent[j] + 1 ELSE spent[j]]
  /\ leases' = IF told THEN leases \cup ({w} \X S) ELSE leases

\* The holder decides: done, given up, or another try if one is left.  It may
\* forget its other leases, those on S, by the same failure.
Decide(w, j, S) ==
  /\ <<w, j>> \in leases
  /\ \/ Move({j}, "done")
     \/ Move({j}, "dead")
     \/ spent[j] < MaxAttempts[j] /\ Move({j}, "waiting")
  /\ leases' = leases \ ({w} \X (S \cup {j}))
  /\ UNCHANGED spent

\* The holder hands the attempt back unspent.
Refund(w, j, S) ==
  /\ <<w, j>> \in leases
  /\ Move({j}, "waiting")
  /\ spent' = [spent EXCEPT ![j] = @ - 1]
  /\ leases' = leases \ ({w} \X (S \cup {j}))

\* A worker forgets leases; the jobs are still out.
Forget(w, S) ==
  /\ leases' = leases \ ({w} \X S)
  /\ UNCHANGED <<phase, spent>>

\* Attempts are ended from outside: to another try if one is left.
Expire(S, ph) ==
  /\ \A j \in S : phase[j] = "out"
  /\ \/ ph = "dead" /\ \A j \in S : spent[j] >= MaxAttempts[j]
     \/ ph = "waiting" /\ \A j \in S : spent[j] < MaxAttempts[j]
  /\ Move(S, ph)
  /\ Drop(S)
  /\ UNCHANGED spent

\* A job that is not out and not done is given its whole budget again.
Renew(j) ==
  /\ phase[j] \in {"waiting", "dead"}
  /\ Move({j}, "waiting")
  /\ spent' = [spent EXCEPT ![j] = 0]
  /\ UNCHANGED leases

Remove(S) ==
  /\ \A j \in S : phase[j] # "none"
  /\ Move(S, "removed")
  /\ spent' = [j \in Jobs |-> IF j \in S THEN 0 ELSE spent[j]]
  /\ Drop(S)

Next ==
  \/ \E j \in Jobs : Submit(j) \/ Renew(j)
  \/ \E w \in Workers, S \in SUBSET Jobs :
       \/ Forget(w, S)
       \/ \E told \in BOOLEAN : Grant(w, S, told)
       \/ \E j \in Jobs : Decide(w, j, S) \/ Refund(w, j, S)
  \/ \E S \in SUBSET Jobs : Remove(S) \/ \E ph \in {"waiting", "dead"} : Expire(S, ph)

Spec == Init /\ [][Next]_vars

=============================================================================
