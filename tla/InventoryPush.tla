--------------------------- MODULE InventoryPush ----------------------------
(***************************************************************************)
(* inventory.push jobs for one stock level: each row says what the level   *)
(* is (inventory.ts, handleInventoryPush).  The queue delivers a row at    *)
(* least once, and two attempts of one row may overlap after a stale lock. *)
(* Row i was enqueued before row i + 1.                                    *)
(***************************************************************************)
EXTENDS Naturals, Sequences

CONSTANTS
  PushRows,      \* inventory.push rows, numbered as they were enqueued
  PushAttempts   \* maxAttempts of a row

ASSUME PushAssumption == {PushRows, PushAttempts} \subseteq Nat \ {0}

PushIds == 1..PushRows

VARIABLES
  push,      \* the rows: status, attempts
  sent,      \* mutations under way: the attempt of the row, its key, what
             \* became of it
  keys,      \* Shopify: idempotency keys it has applied
  written    \* Shopify: the rows whose quantity the level took, in order
pushVars == <<push, sent, keys, written>>

PushInit ==
  /\ push = [i \in PushIds |-> [status |-> "PENDING", attempts |-> 0]]
  /\ sent = {} /\ keys = {} /\ written = <<>>

\* Mutation: every attempt sends a key of its own.
MutIdempotencyKey(i, attempt) == <<i, attempt>>

\* The id of the row, whichever attempt it is.
IdempotencyKey(i, attempt) == <<i, 0>>

\* failJob: FAILED, to be claimed again, or DEAD once the budget is spent.
AfterFailure(attempts) == IF attempts = PushAttempts THEN "DEAD" ELSE "FAILED"

\* The queue claims a row, or claims it again when its lock has gone stale.  A
\* payload of another shape is dead at once; without an offline session the
\* attempt fails before it sends.
BeginPush(i) ==
  /\ push[i].status \in {"PENDING", "FAILED", "RUNNING"} /\ push[i].attempts < PushAttempts
  /\ LET attempt == push[i].attempts + 1 IN
       \E status \in {"RUNNING", "DEAD", AfterFailure(attempt)} :
         /\ push' = [push EXCEPT ![i] = [status |-> status, attempts |-> attempt]]
         /\ sent' = IF status # "RUNNING" THEN sent
                    ELSE sent \cup {[row |-> i, attempt |-> attempt, outcome |-> "none",
                                     key |-> IdempotencyKey(i, attempt)]}
  /\ UNCHANGED <<keys, written>>

\* The reaper on a stale row with no attempts left.
BuryPush(i) ==
  /\ push[i].status = "RUNNING" /\ push[i].attempts = PushAttempts
  /\ push' = [push EXCEPT ![i].status = "DEAD"]
  /\ UNCHANGED <<sent, keys, written>>

\* Shopify carries out inventorySetQuantities.  A key it knows gets the answer of
\* the first time.
SetQuantities(x) ==
  /\ x \in sent /\ x.outcome = "none"
  /\ \E outcome \in {"applied", "userErrors", "error"} :
       /\ x.key \in keys => outcome \in {"applied", "error"}
       /\ sent' = (sent \ {x}) \cup {[x EXCEPT !.outcome = outcome]}
       /\ IF outcome = "applied" /\ x.key \notin keys
          THEN keys' = keys \cup {x.key} /\ written' = Append(written, x.row)
          ELSE UNCHANGED <<keys, written>>
  /\ UNCHANGED push

OwnsPush(x) == push[x.row].status = "RUNNING" /\ push[x.row].attempts = x.attempt

\* The answer: with an adjustment group the row succeeds; userErrors, an error
\* or a lost answer fail the attempt.  Only the owner of the row may settle it.
SettlePush(x) ==
  /\ x \in sent /\ x.outcome # "none"
  /\ sent' = sent \ {x}
  /\ \/ /\ OwnsPush(x) /\ x.outcome = "applied"
        /\ push' = [push EXCEPT ![x.row].status = "SUCCEEDED"]
     \/ OwnsPush(x) /\ push' = [push EXCEPT ![x.row].status = AfterFailure(x.attempt)]
     \/ ~OwnsPush(x) /\ UNCHANGED push
  /\ UNCHANGED <<keys, written>>

\* The worker dies with the answer on its way.
LosePush(x) ==
  /\ x \in sent /\ x.outcome # "none"
  /\ sent' = sent \ {x}
  /\ UNCHANGED <<push, keys, written>>

\* The merchant's Retry of a row that gave up.  Bounds: once nothing of it is
\* under way, and not the last row.
RetryPush(i) ==
  /\ push[i].status = "DEAD" /\ \A x \in sent : x.row # i
  /\ i < PushRows
  /\ push' = [push EXCEPT ![i] = [status |-> "PENDING", attempts |-> 0]]
  /\ UNCHANGED <<sent, keys, written>>

PushNext ==
  \/ \E i \in PushIds : BeginPush(i) \/ BuryPush(i) \/ RetryPush(i)
  \/ \E x \in sent : SetQuantities(x) \/ SettlePush(x) \/ LosePush(x)
PushSpec == PushInit /\ [][PushNext]_pushVars

-----------------------------------------------------------------------------
\* However often a row is sent, the level takes its quantity once, and a row that
\* succeeded was written.  So a repeat never puts an older number over a newer
\* one; only a row whose first write comes late does.
WrittenOnce ==
  /\ \A m, n \in 1..Len(written) : written[m] = written[n] => m = n
  /\ \A i \in PushIds : push[i].status = "SUCCEEDED" => \E n \in 1..Len(written) : written[n] = i
=============================================================================
