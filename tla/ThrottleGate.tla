---------------------------- MODULE ThrottleGate ----------------------------
(***************************************************************************)
(* The gate that paces a loop of Admin API calls (throttle.ts).  Shopify   *)
(* keeps a leaky bucket of points for the app in a shop; a call that the   *)
(* bucket cannot pay for is refused.  The gate knows only what the last    *)
(* answer of its own loop said of the bucket.  Time is counted in ticks of *)
(* the wait, points are whole.                                             *)
(***************************************************************************)
EXTENDS Naturals, FiniteSetsExt

CONSTANTS
  BucketSize, RestoreRate,  \* Shopify's bucket: its size, points per tick
  CallCosts,                \* what a call may cost
  Jitters,                  \* percent that the jitter may add to a wait
  MaxWait,                  \* the cap on one wait, in ticks
  MaxCalls                  \* bound: answered calls of the loop

ASSUME GateAssumption ==
  /\ {BucketSize, RestoreRate, MaxWait} \subseteq Nat \ {0}
  /\ CallCosts \subseteq 1..BucketSize /\ Jitters \subseteq Nat

VARIABLES
  bucket,     \* what Shopify's bucket really holds
  gate,       \* status (read: whether it has one, and what it says is available), lastCost
  pace,       \* where the loop stands
  refused,    \* what the refused call would have cost; 0: none was refused
  waiting,    \* the wait it has chosen, in ticks
  answered,   \* calls answered so far
  spent       \* history: points spent since the reading the gate holds
gateVars == <<bucket, gate, pace, refused, waiting, answered, spent>>

GateInit ==
  /\ bucket \in 0..BucketSize
  /\ gate = [read |-> FALSE, available |-> 0, lastCost |-> 0]
  /\ pace = "idle" /\ refused = 0 /\ waiting = 0 /\ answered = 0 /\ spent = 0

Capped(n) == Min({n, BucketSize})

\* Mutation: the quotient rounded down.
MutNeededTicks(jitter) ==
  ((gate.lastCost - gate.available) * (100 + jitter)) \div (100 * RestoreRate)

\* The deficit over the restore rate, with its jitter, rounded up.
NeededTicks(jitter) ==
  ((gate.lastCost - gate.available) * (100 + jitter) + 100 * RestoreRate - 1)
    \div (100 * RestoreRate)

\* Nothing to compute a wait from, or nothing to wait for.
NoWait == ~gate.read \/ gate.lastCost = 0 \/ gate.lastCost <= gate.available

BeforeCall(jitter) ==
  /\ pace = "idle" /\ answered < MaxCalls
  /\ waiting' = IF NoWait THEN 0 ELSE Min({NeededTicks(jitter), MaxWait})
  /\ pace' = "waiting"
  /\ UNCHANGED <<bucket, gate, refused, answered, spent>>

\* The sleep is over: the bucket was refilled, and the gate credits its reading
\* with as much.
Wake ==
  /\ pace = "waiting" /\ pace' = "call"
  /\ bucket' = Capped(bucket + RestoreRate * waiting)
  /\ gate' = [gate EXCEPT !.available =
                IF waiting = 0 THEN @ ELSE Capped(@ + RestoreRate * waiting)]
  /\ UNCHANGED <<refused, waiting, answered, spent>>

\* An answer has extensions.cost, or only its cost, or neither.
Record(cost, has) ==
  gate' = [read |-> gate.read \/ "status" \in has,
           available |-> IF "status" \in has THEN bucket' ELSE gate.available,
           lastCost |-> IF "cost" \in has THEN cost ELSE gate.lastCost]

Call(cost, has) ==
  /\ pace = "call" /\ cost <= bucket
  /\ bucket' = bucket - cost
  /\ Record(cost, has)
  /\ pace' = "idle" /\ answered' = answered + 1
  /\ spent' = IF "status" \in has THEN 0 ELSE spent + cost
  /\ UNCHANGED <<refused, waiting>>

\* Refused as THROTTLED: unwrap throws and the loop is over.
Refused(cost) ==
  /\ pace = "call" /\ cost > bucket
  /\ pace' = "refused" /\ refused' = cost
  /\ UNCHANGED <<bucket, gate, waiting, answered, spent>>

\* Another request of the app spends from the same bucket.
OtherCall(cost) ==
  /\ pace # "refused" /\ cost <= bucket
  /\ spent + cost <= BucketSize
  /\ bucket' = bucket - cost /\ spent' = spent + cost
  /\ UNCHANGED <<gate, pace, refused, waiting, answered>>

\* Time that passes while the loop does something else.
Refill ==
  /\ pace # "refused" /\ bucket < BucketSize
  /\ bucket' = Capped(bucket + RestoreRate)
  /\ UNCHANGED <<gate, pace, refused, waiting, answered, spent>>

GateNext ==
  \/ \E jitter \in Jitters : BeforeCall(jitter)
  \/ Wake
  \/ \E cost \in CallCosts :
       \/ \E has \in SUBSET {"status", "cost"} : Call(cost, has)
       \/ Refused(cost)
       \/ OtherCall(cost)
  \/ Refill
GateSpec == GateInit /\ [][GateNext]_gateVars

-----------------------------------------------------------------------------
\* The gate does what it is for: a call of the loop is refused only if it cost
\* more than the one before it (the first has none before it), the wait was capped,
\* or points were spent that the gate's reading does not show.  Never because of its
\* own arithmetic: the credit for a wait, the rounding and the jitter.
RefusedOnlyIfUnforeseen ==
  pace = "refused" => refused > gate.lastCost \/ waiting = MaxWait \/ spent > 0
=============================================================================
