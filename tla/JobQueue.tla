------------------------------ MODULE JobQueue ------------------------------
(***************************************************************************)
(* The durable job queue of the admin app: the rows of the "Job" table and *)
(* the worker processes that poll it.                                      *)
(*                                                                         *)
(* Every SQL statement the code issues is one atomic step; what happens    *)
(* between two statements of one function is open to every other process.  *)
(* A member of Workers is one incarnation of the worker process: its id    *)
(* holds a fresh UUID, so a restarted process is another member.           *)
(***************************************************************************)
EXTENDS Naturals, FiniteSets

CONSTANTS
  Jobs,         \* ids of the rows that may ever exist
  Workers,      \* incarnations of the worker process
  NoOne,        \* a NULL lockedBy
  MaxAttempts,  \* the maxAttempts column of each row, never updated
  BatchSize,    \* how many rows a tick claims
  ReapEvery,    \* REAP_EVERY_TICKS
  Pollers,      \* jobs whose handler may throw RetryLaterError
  Unhandled,    \* jobs of a kind this deploy has no handler for
  Redactors     \* jobs whose handler deletes other rows (compliance.request)

ASSUME ConstantsAssumption ==
  /\ NoOne \notin Workers
  /\ MaxAttempts \in [Jobs -> Nat \ {0}]
  /\ BatchSize \in Nat \ {0}
  /\ ReapEvery \in Nat \ {0}
  /\ Pollers \subseteq Jobs /\ Unhandled \subseteq Jobs /\ Redactors \subseteq Jobs

VARIABLES
  row,       \* the Job table
  due,       \* rows whose runAt has passed
  earlier,   \* <<j, k>>: both due, and runAt of j is before runAt of k
  stale,     \* RUNNING rows whose lockedAt is older than the stale window
  pc,        \* where each worker is in its loop
  batch,     \* claims a worker was given and has not started
  current,   \* the claim a worker is executing: a set of at most one
  ticks,     \* ticksSinceReap
  stopping,  \* workers whose loop was told to stop
  expired    \* history: claims a worker still acts on that have ended: taken
             \* away, or written with the answer lost

tableVars  == <<row, due, earlier, stale>>
workerVars == <<pc, batch, current, ticks, stopping>>
vars       == <<row, due, earlier, stale, pc, batch, current, ticks, stopping, expired>>

Claim  == [job : Jobs, attempts : Nat]
Status == {"none", "PENDING", "RUNNING", "SUCCEEDED", "FAILED", "DEAD", "deleted"}
Row    == [status : Status, attempts : Nat, lockedBy : Workers \cup {NoOne}, finished : BOOLEAN]
Stage  == {"off", "tick", "release", "claim", "batch", "handler", "recover", "stopped", "crashed"}

\* A statement either answers, fails with nothing written, or commits and
\* loses its answer.
DbResult == {"ok", "refused", "reply_lost"}

Absent(status) == [status |-> status, attempts |-> 0, lockedBy |-> NoOne, finished |-> FALSE]

Inserted == [status |-> "PENDING", attempts |-> 0, lockedBy |-> NoOne, finished |-> FALSE]

Waiting(r) == r.status \in {"PENDING", "FAILED"}
Exists(j)  == row[j].status \notin {"none", "deleted"}

Believed(w) == {c.job : c \in batch[w] \cup current[w]}

-----------------------------------------------------------------------------
(* What each statement writes into a row.                                  *)

\* Mutation: attempts counted elsewhere than on claim.
MutClaimedFree(r, w) == [r EXCEPT !.status = "RUNNING", !.lockedBy = w]

Claimed(r, w) == [r EXCEPT !.status = "RUNNING", !.attempts = @ + 1, !.lockedBy = w]

Completed(r) == [r EXCEPT !.status = "SUCCEEDED", !.lockedBy = NoOne, !.finished = TRUE]

Rescheduled(r) == [r EXCEPT !.status = "PENDING", !.lockedBy = NoOne, !.attempts = @ - 1]

DeadLettered(r) == [r EXCEPT !.status = "DEAD", !.lockedBy = NoOne, !.finished = TRUE]

ToRetry(r) == [r EXCEPT !.status = "FAILED", !.lockedBy = NoOne]

\* Mutation: finishedAt survives the merchant's Retry.
MutRequeuedFinished(r) == [r EXCEPT !.status = "PENDING", !.attempts = 0, !.lockedBy = NoOne]

Requeued(r) ==
  [r EXCEPT !.status = "PENDING", !.attempts = 0, !.lockedBy = NoOne, !.finished = FALSE]

\* Mutation: off by one in the budget.
MutExhaustedLate(c, permanent) == permanent \/ c.attempts > MaxAttempts[c.job]

\* failJob: the budget is compared with the claim, not with the row.
Exhausted(c, permanent) == permanent \/ c.attempts >= MaxAttempts[c.job]

FailedAs(r, c, permanent) == IF Exhausted(c, permanent) THEN DeadLettered(r) ELSE ToRetry(r)

\* Mutation: outcomes written by id.
MutHeldById(w, c) == Exists(c.job)

\* Mutation: lockedBy left out of the claim's identity.
MutHeldWithoutLock(w, c) ==
  row[c.job].status = "RUNNING" /\ row[c.job].attempts = c.attempts

\* heldClaim: the WHERE clause of every outcome a worker writes.
HeldClaim(w, c) ==
  /\ row[c.job].status = "RUNNING"
  /\ row[c.job].attempts = c.attempts
  /\ row[c.job].lockedBy = w

\* The rows claimJobs may hand out.
Claimable == {j \in due : Waiting(row[j]) /\ row[j].attempts < MaxAttempts[j]}

\* Mutation: the claim without ORDER BY.
MutAnyInLine(S) ==
  /\ S \subseteq Claimable
  /\ Cardinality(S) <= BatchSize
  /\ Cardinality(S) < BatchSize => S = Claimable

\* ORDER BY "runAt" LIMIT: as many rows as there are up to the limit, and no
\* row left behind is older than one that is taken.  Equal runAt: any order.
FirstInLine(S) ==
  /\ S \subseteq Claimable
  /\ Cardinality(S) <= BatchSize
  /\ Cardinality(S) < BatchSize => S = Claimable
  /\ \A j \in S, k \in Claimable \ S : <<k, j>> \notin earlier

-----------------------------------------------------------------------------
(* runAt.  Only its order and whether it has passed are kept; a row that   *)
(* becomes due, or is given the present time, is the youngest of the due.  *)

OutOfLine(S) == {p \in earlier : p[1] \notin S /\ p[2] \notin S}

RunNow(S) ==
  /\ due' = due \cup S
  /\ earlier' = OutOfLine(S) \cup ((due \ S) \X S)

RunLater(S) ==
  /\ due' = due \ S
  /\ earlier' = OutOfLine(S)

RunAtKept == UNCHANGED <<due, earlier>>

\* Claims of S that a worker still believes in stop being its own.
TakenAway(S) == expired \cup {p \in Workers \X Jobs : p[2] \in S \cap Believed(p[1])}

-----------------------------------------------------------------------------
Init ==
  /\ row = [j \in Jobs |-> Absent("none")]
  /\ due = {} /\ earlier = {} /\ stale = {}
  /\ pc = [w \in Workers |-> "off"]
  /\ batch = [w \in Workers |-> {}]
  /\ current = [w \in Workers |-> {}]
  /\ ticks = [w \in Workers |-> 0]
  /\ stopping = {} /\ expired = {}

(* The application's side of the table.                                    *)

\* enqueue, and the job a delivery creates: runnable from now.
Enqueue(j) ==
  /\ row[j].status = "none"
  /\ row' = [row EXCEPT ![j] = Inserted]
  /\ RunNow({j})
  /\ UNCHANGED <<stale, workerVars, expired>>

\* Mutation: Retry checks the status first and updates by id.
MutRetryAny(j) ==
  /\ Exists(j)
  /\ row' = [row EXCEPT ![j] = Requeued(@)]
  /\ RunNow({j})
  /\ UNCHANGED <<stale, workerVars, expired>>

\* retryJob: the merchant's Retry, conditional in its WHERE clause.
Retry(j) ==
  /\ row[j].status \in {"FAILED", "DEAD"}
  /\ row' = [row EXCEPT ![j] = Requeued(@)]
  /\ RunNow({j})
  /\ UNCHANGED <<stale, workerVars, expired>>

(* Time.                                                                   *)

BecomeDue(j) ==
  /\ Waiting(row[j]) /\ j \notin due
  /\ RunNow({j})
  /\ UNCHANGED <<row, stale, workerVars, expired>>

\* Whoever holds the lock may be gone, paused, or just slow.
LockGoesStale(j) ==
  /\ row[j].status = "RUNNING" /\ j \notin stale
  /\ stale' = stale \cup {j}
  /\ UNCHANGED <<row, due, earlier, workerVars, expired>>

-----------------------------------------------------------------------------
(* The worker.                                                             *)

\* Where the loop goes after a tick, finished or thrown.
Looped(w) == IF w \in stopping THEN "stopped" ELSE "tick"

\* The rest of the batch is forgotten; its rows stay RUNNING.
Abandon(w) ==
  /\ pc' = [pc EXCEPT ![w] = Looped(w)]
  /\ batch' = [batch EXCEPT ![w] = {}]
  /\ current' = [current EXCEPT ![w] = {}]
  /\ expired' = {p \in expired : p[1] # w}
  /\ UNCHANGED <<ticks, stopping>>

\* runOne is done with c and the loop over the batch continues.
Proceed(w, c) ==
  /\ pc' = [pc EXCEPT ![w] = "batch"]
  /\ current' = [current EXCEPT ![w] = {}]
  /\ batch' = [batch EXCEPT ![w] = @ \ {c}]
  /\ expired' = expired \ {<<w, c.job>>}
  /\ UNCHANGED <<ticks, stopping>>

Start(w) ==
  /\ pc[w] = "off"
  /\ pc' = [pc EXCEPT ![w] = "tick"]
  /\ UNCHANGED <<tableVars, batch, current, ticks, stopping, expired>>

\* The reaper is due this tick.  The counter is cleared before the first
\* statement, so a pass that throws is not repeated on the next tick.
ReapDue(w) == pc[w] = "tick" /\ ticks[w] >= ReapEvery

Spent(j) == row[j].attempts >= MaxAttempts[j]

Stale(j) == row[j].status = "RUNNING" /\ j \in stale

\* reapStaleJobs, first statement: rows that are out of budget.
ReapDead(w) ==
  LET S == {j \in Jobs : Stale(j) /\ Spent(j)}
  IN  /\ ReapDue(w)
      /\ row' = [j \in Jobs |-> IF j \in S THEN DeadLettered(row[j]) ELSE row[j]]
      /\ stale' = stale \ S
      /\ expired' = TakenAway(S)
      /\ ticks' = [ticks EXCEPT ![w] = 0]
      /\ pc' = [pc EXCEPT ![w] = "release"]
      /\ UNCHANGED <<due, earlier, batch, current, stopping>>

\* Mutation: the second statement is left out.
MutReapNoRelease(w) ==
  /\ pc[w] = "release"
  /\ pc' = [pc EXCEPT ![w] = "claim"]
  /\ UNCHANGED <<tableVars, batch, current, ticks, stopping, expired>>

\* reapStaleJobs, second statement: rows with attempts left.  Both statements
\* of the code compare with one cutoff; here a lock that goes stale between
\* them may be released in the same pass instead of a later one.
ReapRelease(w) ==
  LET S == {j \in Jobs : Stale(j) /\ ~Spent(j)}
  IN  /\ pc[w] = "release"
      /\ row' = [j \in Jobs |-> IF j \in S THEN ToRetry(row[j]) ELSE row[j]]
      /\ RunNow(S)
      /\ stale' = stale \ S
      /\ expired' = TakenAway(S)
      /\ pc' = [pc EXCEPT ![w] = "claim"]
      /\ UNCHANGED <<batch, current, ticks, stopping>>

ReadyToClaim(w) == pc[w] = "claim" \/ (pc[w] = "tick" /\ ticks[w] < ReapEvery)

\* claimJobs: one UPDATE; the reply carries the claims.
ClaimJobs(w, db) ==
  /\ ReadyToClaim(w)
  /\ ticks' = [ticks EXCEPT ![w] = @ + 1]
  /\ \E S \in SUBSET Claimable :
       /\ FirstInLine(S)
       /\ db = "reply_lost" => S # {}
       /\ row' = [j \in Jobs |-> IF j \in S THEN Claimed(row[j], w) ELSE row[j]]
       /\ stale' = stale \ S
       /\ batch' = [batch EXCEPT ![w] =
            IF db = "ok" THEN {[job |-> j, attempts |-> row[j].attempts + 1] : j \in S} ELSE {}]
  /\ pc' = [pc EXCEPT ![w] = IF db = "ok" THEN "batch" ELSE Looped(w)]
  /\ UNCHANGED <<due, earlier, current, stopping, expired>>

\* A tick whose statement fails with nothing written: the loop survives it.
TickRefused(w) ==
  /\ ReapDue(w) \/ pc[w] = "release" \/ ReadyToClaim(w)
  /\ ticks' = [ticks EXCEPT ![w] =
       IF ReapDue(w) THEN 0 ELSE IF ReadyToClaim(w) THEN @ + 1 ELSE @]
  /\ pc' = [pc EXCEPT ![w] = Looped(w)]
  /\ UNCHANGED <<tableVars, batch, current, stopping, expired>>

EndTick(w) ==
  /\ pc[w] = "batch" /\ batch[w] = {}
  /\ pc' = [pc EXCEPT ![w] = Looped(w)]
  /\ UNCHANGED <<tableVars, batch, current, ticks, stopping, expired>>

\* runOne, first half.  Nothing asks whether the claim is still held.
StartHandler(w, c) ==
  /\ pc[w] = "batch" /\ c \in batch[w] /\ c.job \notin Unhandled
  /\ pc' = [pc EXCEPT ![w] = "handler"]
  /\ batch' = [batch EXCEPT ![w] = @ \ {c}]
  /\ current' = [current EXCEPT ![w] = {c}]
  /\ UNCHANGED <<tableVars, ticks, stopping, expired>>

\* A conditional write of the outcome r under the claim c.
Write(w, c, r, db) ==
  /\ row' = IF HeldClaim(w, c) /\ db # "refused" THEN [row EXCEPT ![c.job] = r] ELSE row
  /\ stale' = IF HeldClaim(w, c) /\ db # "refused" THEN stale \ {c.job} ELSE stale

\* completeJob.  If the statement throws, runOne's catch takes it for a
\* failure of the job.
HandlerSucceeds(w, c, db) ==
  /\ pc[w] = "handler" /\ c \in current[w]
  /\ Write(w, c, Completed(row[c.job]), db)
  /\ RunAtKept
  /\ IF db = "ok"
     THEN Proceed(w, c)
     ELSE /\ pc' = [pc EXCEPT ![w] = "recover"]
          /\ expired' = IF db = "reply_lost" THEN expired \cup {<<w, c.job>>} ELSE expired
          /\ UNCHANGED <<batch, current, ticks, stopping>>

\* RetryLaterError: rescheduleJob gives the attempt back.
HandlerWaits(w, c, db) ==
  /\ pc[w] = "handler" /\ c \in current[w] /\ c.job \in Pollers
  /\ Write(w, c, Rescheduled(row[c.job]), db)
  /\ IF HeldClaim(w, c) /\ db # "refused" THEN RunLater({c.job}) ELSE RunAtKept
  /\ IF db = "ok" THEN Proceed(w, c) ELSE Abandon(w)

FailJob(w, c, permanent, db) ==
  /\ Write(w, c, FailedAs(row[c.job], c, permanent), db)
  /\ IF HeldClaim(w, c) /\ db # "refused" /\ ~Exhausted(c, permanent)
     THEN RunLater({c.job})
     ELSE RunAtKept
  /\ IF db = "ok" THEN Proceed(w, c) ELSE Abandon(w)

\* Any other error, PermanentJobError among them.
HandlerThrows(w, c, permanent, db) ==
  /\ pc[w] = "handler" /\ c \in current[w]
  /\ FailJob(w, c, permanent, db)

RecoverFromWrite(w, c, db) ==
  /\ pc[w] = "recover" /\ c \in current[w]
  /\ FailJob(w, c, FALSE, db)

NoHandler(w, c, db) ==
  /\ pc[w] = "batch" /\ c \in batch[w] /\ c.job \in Unhandled
  /\ FailJob(w, c, TRUE, db)

\* redactCustomer, redactShop: one deleteMany over rows other than the job's.
Redact(w, c, S) ==
  /\ pc[w] = "handler" /\ c \in current[w] /\ c.job \in Redactors
  /\ S # {} /\ \A j \in S : j # c.job /\ Exists(j)
  /\ row' = [j \in Jobs |-> IF j \in S THEN Absent("deleted") ELSE row[j]]
  /\ RunLater(S)
  /\ stale' = stale \ S
  /\ expired' = TakenAway(S)
  /\ UNCHANGED workerVars

\* The platform keeps a worker available: another one is up or can start.
Replaceable(w) ==
  \E v \in Workers \ {w} : pc[v] \notin {"stopped", "crashed"} /\ v \notin stopping

Stop(w) ==
  /\ pc[w] \notin {"off", "stopped", "crashed"} /\ w \notin stopping
  /\ Replaceable(w)
  /\ stopping' = stopping \cup {w}
  /\ pc' = [pc EXCEPT ![w] = IF @ = "tick" THEN "stopped" ELSE @]
  /\ UNCHANGED <<tableVars, batch, current, ticks, expired>>

Crash(w) ==
  /\ pc[w] \notin {"off", "stopped", "crashed"}
  /\ Replaceable(w)
  /\ pc' = [pc EXCEPT ![w] = "crashed"]
  /\ batch' = [batch EXCEPT ![w] = {}]
  /\ current' = [current EXCEPT ![w] = {}]
  /\ expired' = {p \in expired : p[1] # w}
  /\ UNCHANGED <<tableVars, ticks, stopping>>

-----------------------------------------------------------------------------
\* What a worker does when the database answers.
WorkerStep(w) ==
  \/ Start(w)
  \/ ReapDead(w)
  \/ ReapRelease(w)
  \/ ClaimJobs(w, "ok")
  \/ EndTick(w)
  \/ \E c \in batch[w] : StartHandler(w, c) \/ NoHandler(w, c, "ok")
  \/ \E c \in current[w] :
       \/ HandlerSucceeds(w, c, "ok")
       \/ HandlerWaits(w, c, "ok")
       \/ \E permanent \in BOOLEAN : HandlerThrows(w, c, permanent, "ok")
       \/ RecoverFromWrite(w, c, "ok")

\* What it does when a statement fails.
WorkerFault(w) ==
  \/ TickRefused(w)
  \/ ClaimJobs(w, "reply_lost")
  \/ \E db \in DbResult \ {"ok"} :
       \/ \E c \in batch[w] : NoHandler(w, c, db)
       \/ \E c \in current[w] :
            \/ HandlerSucceeds(w, c, db)
            \/ HandlerWaits(w, c, db)
            \/ \E permanent \in BOOLEAN : HandlerThrows(w, c, permanent, db)
            \/ RecoverFromWrite(w, c, db)

Next ==
  \/ \E j \in Jobs : Enqueue(j) \/ Retry(j) \/ BecomeDue(j) \/ LockGoesStale(j)
  \/ \E w \in Workers :
       \/ WorkerStep(w)
       \/ WorkerFault(w)
       \/ \E c \in current[w], S \in SUBSET Jobs : Redact(w, c, S)
       \/ Stop(w)
       \/ Crash(w)

Spec == Init /\ [][Next]_vars

-----------------------------------------------------------------------------
(* Properties.                                                             *)

TypeOK ==
  /\ row \in [Jobs -> Row]
  /\ due \subseteq Jobs
  /\ earlier \subseteq due \X due
  /\ stale \subseteq Jobs
  /\ pc \in [Workers -> Stage]
  /\ batch \in [Workers -> SUBSET Claim]
  /\ current \in [Workers -> SUBSET Claim]
  /\ ticks \in [Workers -> Nat]
  /\ stopping \subseteq Workers
  /\ expired \subseteq Workers \X Jobs

\* The attempt budget and its bookkeeping (claimJobs, failJob, reapStaleJobs):
\* a row waiting for a worker always has an attempt left, so the budget test
\* in claimJobs can never leave it waiting for ever; a RUNNING row has spent
\* between one and all of its attempts; no row goes past its budget.
WithinBudget(j, r) ==
  /\ Waiting(r) => r.attempts < MaxAttempts[j]
  /\ r.status = "RUNNING" => r.attempts \in 1..MaxAttempts[j]
  /\ r.attempts <= MaxAttempts[j]

NeverStranded == \A j \in Jobs : WithinBudget(j, row[j])

\* The lock columns and finishedAt say what the status says: a row is locked
\* exactly while RUNNING, and only a finished row has finishedAt.
ColumnsAgree ==
  \A j \in Jobs :
    /\ row[j].status = "RUNNING" <=> row[j].lockedBy # NoOne
    /\ row[j].finished <=> row[j].status \in {"SUCCEEDED", "DEAD"}

\* heldClaim tells exactly the claims that were taken away from the ones that
\* were not, although retryJob and rescheduleJob reuse attempt numbers: a late
\* worker never mistakes a newer attempt for its own, and a worker that still
\* owns its row is never refused.
ClaimIdentity ==
  \A w \in Workers : \A c \in batch[w] \cup current[w] :
    HeldClaim(w, c) <=> <<w, c.job>> \notin expired

\* No two workers own one row at a time, whatever they still believe.
OneOwner ==
  \A v, w \in Workers : \A j \in Believed(v) \cap Believed(w) :
    v # w => <<v, j>> \in expired \/ <<w, j>> \in expired

\* A step of the worker that holds row j and knows it does.
OwnerActs(j) ==
  \E w \in Workers :
    /\ row[j].lockedBy = w /\ j \in Believed(w) /\ <<w, j>> \notin expired
    /\ <<pc[w], batch[w], current[w]>>' # <<pc[w], batch[w], current[w]>>

\* An attempt in flight is disturbed by nobody: while a row is RUNNING, the
\* only steps that write it are its owner's outcome, the reaper once the lock
\* is stale, and a redaction that deletes it.
OwnAttemptOnly ==
  [][\A j \in Jobs :
       row[j].status = "RUNNING" /\ row'[j] # row[j] =>
         \/ row'[j].status = "deleted"
         \/ j \in stale /\ \E w \in Workers : ReapDead(w) \/ ReapRelease(w)
         \/ OwnerActs(j)]_vars

\* A finished row stays finished: work done is never queued again, and a dead
\* row comes back only with its whole budget, by the merchant's hand.
FinishedIsFinal ==
  [][\A j \in Jobs :
       row[j].finished /\ row'[j] # row[j] =>
         \/ row'[j].status = "deleted"
         \/ row[j].status = "DEAD" /\ row'[j].status = "PENDING" /\ row'[j].attempts = 0]_vars

-----------------------------------------------------------------------------
(* Fairness.  The event loop runs every statement and every handler to its *)
(* end, clocks advance, and the database is not down for ever.             *)

Fairness ==
  /\ \A w \in Workers : WF_vars(WorkerStep(w))
  /\ \A j \in Jobs : WF_vars(BecomeDue(j)) /\ WF_vars(LockGoesStale(j))
  /\ <>[][\A w \in Workers : ~WorkerFault(w)]_vars

FairSpec == Spec /\ Fairness

\* A waiting row is taken (or redacted) however many other rows keep coming
\* back ahead of it: ORDER BY "runAt" serves the oldest first.
NoStarvation == \A j \in Jobs : Waiting(row[j]) ~> ~Waiting(row[j])

\* Every attempt ends: if its worker is gone, the reaper of another ends it.
AttemptsEnd == \A j \in Jobs : row[j].status = "RUNNING" ~> row[j].status # "RUNNING"

\* Once the merchant stops pressing Retry and handlers stop waiting on others,
\* every row reaches SUCCEEDED or DEAD (or is redacted).
Settled(j) == row[j].status \in {"none", "SUCCEEDED", "DEAD", "deleted"}

CalmDown ==
  <>[][/\ \A j \in Jobs : ~Retry(j)
       /\ \A w \in Workers : \A c \in current[w] : ~HandlerWaits(w, c, "ok")]_vars

EverythingSettles == CalmDown => \A j \in Jobs : <>[]Settled(j)
=============================================================================
