--------------------------- MODULE JobQueueProofs ---------------------------
(***************************************************************************)
(* Proofs about JobQueue for every set of jobs and workers, every budget,  *)
(* batch size and reaping period: what the queue keeps, and that it        *)
(* implements LeasedQueue.                                                 *)
(***************************************************************************)
EXTENDS JobQueueRefinement, TLAPS

-----------------------------------------------------------------------------
(* What the helpers return.                                                *)

\* Every write into a row yields a row; giving an attempt back needs one spent.
LEMMA RowWrites ==
  ASSUME NEW r \in Row
  PROVE  /\ \A w \in Workers : Claimed(r, w) \in Row
         /\ Completed(r) \in Row /\ DeadLettered(r) \in Row
         /\ ToRetry(r) \in Row /\ Requeued(r) \in Row
         /\ r.attempts >= 1 => Rescheduled(r) \in Row
         /\ Absent("none") \in Row /\ Absent("deleted") \in Row
         /\ \A c, p : FailedAs(r, c, p) \in Row
<1> USE DEF Row, Status
<1>1. \A w \in Workers : Claimed(r, w) \in Row
  <2> DEFINE paid == r.attempts + 1
  <2>1. paid \in Nat
    OBVIOUS
  <2> HIDE DEF paid
  <2>2. \A w \in Workers :
          [r EXCEPT !.status = "RUNNING", !.attempts = paid, !.lockedBy = w] \in Row
    BY <2>1
  <2> QED BY <2>2 DEF Claimed, paid
<1>2. Completed(r) \in Row /\ DeadLettered(r) \in Row /\ ToRetry(r) \in Row
  BY DEF Completed, DeadLettered, ToRetry
<1>3. Requeued(r) \in Row
  BY DEF Requeued
<1>4. r.attempts >= 1 => Rescheduled(r) \in Row
  <2> DEFINE refunded == r.attempts - 1
  <2>1. r.attempts >= 1 => refunded \in Nat
    OBVIOUS
  <2> HIDE DEF refunded
  <2>2. r.attempts >= 1 =>
          [r EXCEPT !.status = "PENDING", !.lockedBy = NoOne, !.attempts = refunded] \in Row
    BY <2>1
  <2> QED BY <2>2 DEF Rescheduled, refunded
<1>5. Absent("none") \in Row /\ Absent("deleted") \in Row
  BY DEF Absent
<1>6. \A c, p : FailedAs(r, c, p) \in Row
  BY <1>2 DEF FailedAs
<1> QED BY <1>1, <1>2, <1>3, <1>4, <1>5, <1>6

\* And what they leave in the columns the proofs look at.
LEMMA RowColumns ==
  ASSUME NEW r \in Row
  PROVE  /\ r.attempts \in Nat
         /\ \A w : /\ Claimed(r, w).status = "RUNNING" /\ Claimed(r, w).lockedBy = w
                   /\ Claimed(r, w).attempts = r.attempts + 1
         /\ Completed(r).status = "SUCCEEDED" /\ Completed(r).attempts = r.attempts
         /\ DeadLettered(r).status = "DEAD" /\ DeadLettered(r).attempts = r.attempts
         /\ ToRetry(r).status = "FAILED" /\ ToRetry(r).attempts = r.attempts
         /\ Requeued(r).status = "PENDING" /\ Requeued(r).attempts = 0
         /\ Rescheduled(r).status = "PENDING" /\ Rescheduled(r).attempts = r.attempts - 1
<1> USE DEF Row
<1>1. r.attempts \in Nat
  OBVIOUS
<1>2. \A w : /\ Claimed(r, w).status = "RUNNING" /\ Claimed(r, w).lockedBy = w
             /\ Claimed(r, w).attempts = r.attempts + 1
  BY DEF Claimed
<1>3. Completed(r).status = "SUCCEEDED" /\ Completed(r).attempts = r.attempts
  BY DEF Completed
<1>4. DeadLettered(r).status = "DEAD" /\ DeadLettered(r).attempts = r.attempts
  BY DEF DeadLettered
<1>5. ToRetry(r).status = "FAILED" /\ ToRetry(r).attempts = r.attempts
  BY DEF ToRetry
<1>6. Requeued(r).status = "PENDING" /\ Requeued(r).attempts = 0
  BY DEF Requeued
<1>7. Rescheduled(r).status = "PENDING" /\ Rescheduled(r).attempts = r.attempts - 1
  BY DEF Rescheduled
<1> QED BY <1>1, <1>2, <1>3, <1>4, <1>5, <1>6, <1>7

\* The order of runAt stays an order of the due rows.
DueOK == due \subseteq Jobs /\ earlier \subseteq due \X due

LEMMA RunNowType ==
  ASSUME NEW S \in SUBSET Jobs, DueOK, RunNow(S)
  PROVE  DueOK'
BY DEF DueOK, RunNow, OutOfLine

LEMMA RunLaterType ==
  ASSUME NEW S \in SUBSET Jobs, DueOK, RunLater(S)
  PROVE  DueOK'
BY DEF DueOK, RunLater, OutOfLine

LEMMA TakenAwayType ==
  ASSUME NEW S \in SUBSET Jobs, expired \subseteq Workers \X Jobs
  PROVE  TakenAway(S) \subseteq Workers \X Jobs
BY DEF TakenAway

-----------------------------------------------------------------------------
(* Type correctness and the attempt budget.  TypeOK alone is not           *)
(* inductive: rescheduleJob subtracts one, and only NeverStranded says     *)
(* that a RUNNING row has an attempt to give back.                         *)

BudgetInv == TypeOK /\ NeverStranded

\* The worker's own variables keep their types when it moves on.
WorkerOK ==
  /\ pc \in [Workers -> Stage]
  /\ batch \in [Workers -> SUBSET Claim]
  /\ current \in [Workers -> SUBSET Claim]
  /\ ticks \in [Workers -> Nat]
  /\ stopping \subseteq Workers
  /\ expired \subseteq Workers \X Jobs

LEMMA MovingOnType ==
  ASSUME NEW w \in Workers, NEW c \in Claim, WorkerOK, Proceed(w, c) \/ Abandon(w)
  PROVE  WorkerOK'
BY DEF WorkerOK, Proceed, Abandon, Looped, Stage

\* What BudgetInv says of the table's rows.
RowsOK ==
  /\ row \in [Jobs -> Row]
  /\ NeverStranded

LEMMA TypeParts == TypeOK <=> (row \in [Jobs -> Row]) /\ DueOK /\ stale \subseteq Jobs /\ WorkerOK
BY DEF TypeOK, DueOK, WorkerOK

\* A conditional write of an allowed outcome keeps every row within budget.
LEMMA WriteKeepsRows ==
  ASSUME NEW w \in Workers, NEW c \in Claim, NEW r \in Row, NEW db,
         RowsOK, stale \subseteq Jobs, Write(w, c, r, db),
         HeldClaim(w, c) => WithinBudget(c.job, r)
  PROVE  RowsOK' /\ stale' \subseteq Jobs
<1>1. c.job \in Jobs
  BY DEF Claim
<1>2. CASE HeldClaim(w, c) /\ db # "refused"
  BY <1>1, <1>2 DEF Write, RowsOK, NeverStranded
<1>3. CASE ~(HeldClaim(w, c) /\ db # "refused")
  BY <1>3 DEF Write, RowsOK, NeverStranded
<1> QED BY <1>2, <1>3

\* So does a statement over many rows, if what it writes into each is allowed.
LEMMA BulkKeepsRows ==
  ASSUME NEW S \in SUBSET Jobs, NEW new \in [S -> Row], RowsOK,
         row' = [j \in Jobs |-> IF j \in S THEN new[j] ELSE row[j]],
         \A j \in S : WithinBudget(j, new[j])
  PROVE  RowsOK'
<1>1. row' \in [Jobs -> Row]
  BY DEF RowsOK
<1>2. ASSUME NEW j \in Jobs PROVE WithinBudget(j, row'[j])
  <2>1. CASE j \in S
    BY <2>1
  <2>2. CASE j \notin S
    BY <2>2 DEF RowsOK, NeverStranded
  <2> QED BY <2>1, <2>2
<1> QED BY <1>1, <1>2 DEF RowsOK, NeverStranded

LEMMA BudgetStep == BudgetInv /\ [Next]_vars => BudgetInv'
<1> SUFFICES ASSUME BudgetInv, [Next]_vars PROVE BudgetInv'
  OBVIOUS
<1>a. RowsOK /\ DueOK /\ stale \subseteq Jobs /\ WorkerOK
  BY TypeParts DEF BudgetInv, RowsOK
<1>b. SUFFICES RowsOK' /\ DueOK' /\ stale' \subseteq Jobs /\ WorkerOK'
  BY TypeParts DEF BudgetInv, RowsOK, TypeOK, DueOK, WorkerOK
<1>r. \A j \in Jobs : row[j] \in Row /\ MaxAttempts[j] \in Nat \ {0}
  BY <1>a, ConstantsAssumption DEF RowsOK
<1>1. ASSUME NEW j \in Jobs, Enqueue(j)
      PROVE  RowsOK' /\ DueOK' /\ stale' \subseteq Jobs /\ WorkerOK'
  <2>1. RowsOK'
    <3>1. row' = [row EXCEPT ![j] = Inserted]
      BY <1>1 DEF Enqueue
    <3>2. Inserted \in Row /\ WithinBudget(j, Inserted)
      BY <1>r DEF Inserted, Row, Status, WithinBudget, Waiting
    <3> QED BY <1>a, <3>1, <3>2 DEF RowsOK, NeverStranded
  <2> QED BY <1>1, <1>a, <2>1, RunNowType DEF Enqueue, workerVars, WorkerOK
<1>2. ASSUME NEW j \in Jobs, Retry(j)
      PROVE  RowsOK' /\ DueOK' /\ stale' \subseteq Jobs /\ WorkerOK'
  <2>1. RowsOK'
    <3>1. row' = [row EXCEPT ![j] = Requeued(row[j])]
      BY <1>2 DEF Retry
    <3>2. Requeued(row[j]) \in Row
      BY <1>r, RowWrites
    <3>3. Requeued(row[j]).status = "PENDING" /\ Requeued(row[j]).attempts = 0
      BY <1>r, RowColumns
    <3>4. WithinBudget(j, Requeued(row[j]))
      BY <1>r, <3>3 DEF WithinBudget, Waiting
    <3> QED BY <1>a, <3>1, <3>2, <3>4 DEF RowsOK, NeverStranded
  <2> QED BY <1>2, <1>a, <2>1, RunNowType DEF Retry, workerVars, WorkerOK
<1>3. ASSUME NEW j \in Jobs, BecomeDue(j)
      PROVE  RowsOK' /\ DueOK' /\ stale' \subseteq Jobs /\ WorkerOK'
  BY <1>3, <1>a, RunNowType DEF BecomeDue, workerVars, WorkerOK, RowsOK, NeverStranded
<1>4. ASSUME NEW j \in Jobs, LockGoesStale(j)
      PROVE  RowsOK' /\ DueOK' /\ stale' \subseteq Jobs /\ WorkerOK'
  BY <1>4, <1>a DEF LockGoesStale, workerVars, WorkerOK, RowsOK, NeverStranded, DueOK
<1>5. ASSUME NEW w \in Workers, Start(w)
      PROVE  RowsOK' /\ DueOK' /\ stale' \subseteq Jobs /\ WorkerOK'
  BY <1>5, <1>a DEF Start, tableVars, WorkerOK, RowsOK, NeverStranded, DueOK, Stage
<1>6. ASSUME NEW w \in Workers, ReapDead(w)
      PROVE  RowsOK' /\ DueOK' /\ stale' \subseteq Jobs /\ WorkerOK'
  <2> DEFINE S == {j \in Jobs : Stale(j) /\ Spent(j)}
             new == [j \in S |-> DeadLettered(row[j])]
  <2>1. \A j \in S : new[j] \in Row /\ WithinBudget(j, new[j])
    BY <1>a, <1>r, RowWrites, RowColumns DEF RowsOK, NeverStranded, WithinBudget, Waiting
  <2>2. RowsOK'
    <3>1. row' = [j \in Jobs |-> IF j \in S THEN new[j] ELSE row[j]]
      BY <1>6 DEF ReapDead
    <3>2. new \in [S -> Row]
      BY <2>1
    <3> HIDE DEF new
    <3> QED BY <1>a, <2>1, <3>1, <3>2, BulkKeepsRows
  <2> QED BY <1>6, <1>a, <2>2, TakenAwayType DEF ReapDead, WorkerOK, DueOK, Stage
<1>7. ASSUME NEW w \in Workers, ReapRelease(w)
      PROVE  RowsOK' /\ DueOK' /\ stale' \subseteq Jobs /\ WorkerOK'
  <2> DEFINE S == {j \in Jobs : Stale(j) /\ ~Spent(j)}
             new == [j \in S |-> ToRetry(row[j])]
  <2>1. \A j \in S : new[j] \in Row /\ WithinBudget(j, new[j])
    <3>1. ASSUME NEW j \in S
          PROVE  /\ new[j] = ToRetry(row[j])
                 /\ row[j].attempts < MaxAttempts[j] /\ row[j].attempts \in Nat
      BY <1>r, RowColumns DEF Spent
    <3> HIDE DEF new
    <3>2. ASSUME NEW j \in S
          PROVE  new[j] \in Row
      BY <1>r, <3>1, RowWrites
    <3>3. ASSUME NEW j \in S
          PROVE  new[j].status = "FAILED" /\ new[j].attempts = row[j].attempts
      BY <1>r, <3>1, RowColumns
    <3>4. ASSUME NEW j \in S
          PROVE  WithinBudget(j, new[j])
      BY <1>r, <3>1, <3>3 DEF WithinBudget, Waiting
    <3> QED BY <3>2, <3>4
  <2>2. RowsOK'
    <3>1. row' = [j \in Jobs |-> IF j \in S THEN new[j] ELSE row[j]]
      BY <1>7 DEF ReapRelease
    <3>2. new \in [S -> Row]
      BY <2>1
    <3> HIDE DEF new
    <3> QED BY <1>a, <2>1, <3>1, <3>2, BulkKeepsRows
  <2> QED BY <1>7, <1>a, <2>2, TakenAwayType, RunNowType DEF ReapRelease, WorkerOK, Stage
<1>8. ASSUME NEW w \in Workers, NEW db \in DbResult, ClaimJobs(w, db)
      PROVE  RowsOK' /\ DueOK' /\ stale' \subseteq Jobs /\ WorkerOK'
  <2>1. PICK S \in SUBSET Claimable :
          /\ row' = [j \in Jobs |-> IF j \in S THEN Claimed(row[j], w) ELSE row[j]]
          /\ stale' = stale \ S
          /\ batch' = [batch EXCEPT ![w] =
               IF db = "ok" THEN {[job |-> j, attempts |-> row[j].attempts + 1] : j \in S} ELSE {}]
    BY <1>8 DEF ClaimJobs
  <2>2. S \subseteq Jobs /\ \A j \in S : row[j].attempts < MaxAttempts[j]
    BY <1>a DEF Claimable, DueOK
  <2> DEFINE new == [j \in S |-> Claimed(row[j], w)]
  <2>3. \A j \in S : new[j] \in Row /\ WithinBudget(j, new[j])
    <3>1. ASSUME NEW j \in S
          PROVE  /\ new[j] \in Row /\ new[j].status = "RUNNING"
                 /\ new[j].attempts = row[j].attempts + 1
      <4>1. new[j] = Claimed(row[j], w) /\ row[j] \in Row
        BY <2>2, <1>r
      <4>2. Claimed(row[j], w) \in Row
        BY <4>1, RowWrites
      <4>3. Claimed(row[j], w).status = "RUNNING" /\ Claimed(row[j], w).attempts = row[j].attempts + 1
        BY <4>1, RowColumns
      <4> QED BY <4>1, <4>2, <4>3
    <3>2. ASSUME NEW j \in S
          PROVE  row[j].attempts + 1 \in 1..MaxAttempts[j]
      BY <2>2, <1>r DEF Row
    <3> HIDE DEF new
    <3> QED BY <2>2, <3>1, <3>2, <1>r DEF WithinBudget, Waiting
  <2>4. RowsOK'
    <3>1. row' = [j \in Jobs |-> IF j \in S THEN new[j] ELSE row[j]]
      BY <2>1
    <3>2. new \in [S -> Row]
      BY <2>3
    <3> HIDE DEF new
    <3> QED BY <1>a, <2>2, <2>3, <3>1, <3>2, BulkKeepsRows
  <2>5. \A j \in S : [job |-> j, attempts |-> row[j].attempts + 1] \in Claim
    BY <2>2, <1>r DEF Claim, Row
  <2>6. batch' \in [Workers -> SUBSET Claim]
    BY <1>a, <2>1, <2>5 DEF WorkerOK
  <2> QED BY <1>8, <1>a, <2>1, <2>4, <2>6 DEF ClaimJobs, WorkerOK, DueOK, Stage, Looped
<1>9. ASSUME NEW w \in Workers, TickRefused(w) \/ EndTick(w)
      PROVE  RowsOK' /\ DueOK' /\ stale' \subseteq Jobs /\ WorkerOK'
  BY <1>9, <1>a
     DEF TickRefused, EndTick, tableVars, WorkerOK, RowsOK, NeverStranded, DueOK, Stage, Looped
<1>10. ASSUME NEW w \in Workers, NEW c \in batch[w], StartHandler(w, c)
       PROVE  RowsOK' /\ DueOK' /\ stale' \subseteq Jobs /\ WorkerOK'
  BY <1>10, <1>a DEF StartHandler, tableVars, WorkerOK, RowsOK, NeverStranded, DueOK, Stage
<1>c. \A w \in Workers : \A c \in batch[w] \cup current[w] :
        c \in Claim /\ c.job \in Jobs /\ row[c.job] \in Row /\ MaxAttempts[c.job] \in Nat
  BY <1>a, <1>r DEF WorkerOK, Claim
<1>11. ASSUME NEW w \in Workers, NEW c \in current[w], NEW db \in DbResult,
              HandlerSucceeds(w, c, db)
       PROVE  RowsOK' /\ DueOK' /\ stale' \subseteq Jobs /\ WorkerOK'
  <2>1. RowsOK' /\ stale' \subseteq Jobs
    <3>1. Write(w, c, Completed(row[c.job]), db)
      BY <1>11 DEF HandlerSucceeds
    <3>2. Completed(row[c.job]) \in Row /\ Completed(row[c.job]).status = "SUCCEEDED"
      BY <1>c, RowWrites, RowColumns
    <3>3. WithinBudget(c.job, Completed(row[c.job]))
      BY <1>a, <1>c, <3>2, RowColumns DEF RowsOK, NeverStranded, WithinBudget, Waiting
    <3> QED BY <1>a, <1>c, <3>1, <3>2, <3>3, WriteKeepsRows
  <2>2. WorkerOK'
    <3>1. CASE db = "ok"
      BY <1>11, <1>a, <1>c, <3>1, MovingOnType DEF HandlerSucceeds
    <3>2. CASE db # "ok"
      BY <1>11, <1>a, <1>c, <3>2 DEF HandlerSucceeds, WorkerOK, Stage
    <3> QED BY <3>1, <3>2
  <2> QED BY <1>11, <1>a, <2>1, <2>2 DEF HandlerSucceeds, RunAtKept, DueOK
<1>12. ASSUME NEW w \in Workers, NEW c \in current[w], NEW db \in DbResult,
              HandlerWaits(w, c, db)
       PROVE  RowsOK' /\ DueOK' /\ stale' \subseteq Jobs /\ WorkerOK'
  <2>1. RowsOK' /\ stale' \subseteq Jobs
    <3> DEFINE r == Rescheduled(row[c.job])
    <3>1. Write(w, c, r, db)
      BY <1>12 DEF HandlerWaits
    <3>2. CASE HeldClaim(w, c)
      <4>1. row[c.job].attempts \in 1..MaxAttempts[c.job]
        BY <1>a, <1>c, <3>2 DEF HeldClaim, RowsOK, NeverStranded, WithinBudget
      <4>2. r \in Row /\ r.status = "PENDING" /\ r.attempts = row[c.job].attempts - 1
        <5>1. row[c.job] \in Row
          BY <1>c
        <5>2. row[c.job].attempts >= 1
          BY <1>c, <4>1
        <5>3. r \in Row
          BY <5>1, <5>2, RowWrites
        <5>4. r.status = "PENDING" /\ r.attempts = row[c.job].attempts - 1
          BY <5>1, RowColumns
        <5> QED BY <5>3, <5>4
      <4>3. WithinBudget(c.job, r)
        BY <1>c, <4>1, <4>2 DEF Row, WithinBudget, Waiting
      <4> QED BY <1>a, <1>c, <3>1, <4>2, <4>3, WriteKeepsRows
    <3>3. CASE ~HeldClaim(w, c)
      BY <1>a, <3>1, <3>3 DEF Write, RowsOK, NeverStranded
    <3> QED BY <3>2, <3>3
  <2>2. DueOK'
    BY <1>12, <1>a, <1>c, RunLaterType DEF HandlerWaits, RunAtKept, DueOK
  <2>3. WorkerOK'
    BY <1>12, <1>a, <1>c, MovingOnType DEF HandlerWaits
  <2> QED BY <2>1, <2>2, <2>3
<1>13. ASSUME NEW w \in Workers, NEW c \in batch[w] \cup current[w], NEW permanent \in BOOLEAN,
              NEW db \in DbResult, FailJob(w, c, permanent, db)
       PROVE  RowsOK' /\ DueOK' /\ stale' \subseteq Jobs /\ WorkerOK'
  <2>1. RowsOK' /\ stale' \subseteq Jobs
    <3> DEFINE r == FailedAs(row[c.job], c, permanent)
    <3>1. Write(w, c, r, db) /\ r \in Row
      BY <1>13, <1>c, RowWrites DEF FailJob
    <3>2. r.attempts = row[c.job].attempts
      BY <1>c DEF FailedAs, DeadLettered, ToRetry, Row
    <3>3. row[c.job].attempts <= MaxAttempts[c.job]
      BY <1>a, <1>c DEF RowsOK, NeverStranded, WithinBudget
    <3>4. r.status \in {"DEAD", "FAILED"}
      BY <1>c DEF FailedAs, DeadLettered, ToRetry, Row
    <3>5. HeldClaim(w, c) /\ r.status = "FAILED" => r.attempts < MaxAttempts[c.job]
      BY <1>c, <3>2 DEF FailedAs, DeadLettered, Exhausted, HeldClaim, Row, Claim
    <3>6. HeldClaim(w, c) => WithinBudget(c.job, r)
      BY <3>2, <3>3, <3>4, <3>5 DEF WithinBudget, Waiting
    <3> QED BY <1>a, <1>c, <3>1, <3>6, WriteKeepsRows
  <2>2. DueOK'
    BY <1>13, <1>a, <1>c, RunLaterType DEF FailJob, RunAtKept, DueOK
  <2>3. WorkerOK'
    BY <1>13, <1>a, <1>c, MovingOnType DEF FailJob
  <2> QED BY <2>1, <2>2, <2>3
<1>14. ASSUME NEW w \in Workers, NEW c \in current[w], NEW S \in SUBSET Jobs, Redact(w, c, S)
       PROVE  RowsOK' /\ DueOK' /\ stale' \subseteq Jobs /\ WorkerOK'
  <2> DEFINE new == [j \in S |-> Absent("deleted")]
  <2>1. RowsOK'
    <3>1. row' = [j \in Jobs |-> IF j \in S THEN new[j] ELSE row[j]]
      BY <1>14 DEF Redact
    <3>2. \A j \in S : new[j] \in Row /\ WithinBudget(j, new[j])
      BY <1>r, ConstantsAssumption DEF Absent, Row, Status, WithinBudget, Waiting
    <3>3. new \in [S -> Row]
      BY <3>2
    <3> HIDE DEF new
    <3> QED BY <1>a, <3>1, <3>2, <3>3, BulkKeepsRows
  <2> QED BY <1>14, <1>a, <2>1, TakenAwayType, RunLaterType DEF Redact, workerVars, WorkerOK
<1>15. ASSUME NEW w \in Workers, Stop(w) \/ Crash(w)
       PROVE  RowsOK' /\ DueOK' /\ stale' \subseteq Jobs /\ WorkerOK'
  BY <1>15, <1>a DEF Stop, Crash, tableVars, WorkerOK, RowsOK, NeverStranded, DueOK, Stage
<1>16. CASE UNCHANGED vars
  BY <1>16, <1>a DEF vars, WorkerOK, RowsOK, NeverStranded, DueOK
<1>17. ASSUME NEW w \in Workers, NEW c \in batch[w], NEW db \in DbResult, NoHandler(w, c, db)
       PROVE  RowsOK' /\ DueOK' /\ stale' \subseteq Jobs /\ WorkerOK'
  BY <1>13, <1>17 DEF NoHandler
<1>18. ASSUME NEW w \in Workers, NEW c \in current[w], NEW db \in DbResult,
              \/ RecoverFromWrite(w, c, db)
              \/ \E permanent \in BOOLEAN : HandlerThrows(w, c, permanent, db)
       PROVE  RowsOK' /\ DueOK' /\ stale' \subseteq Jobs /\ WorkerOK'
  BY <1>13, <1>18 DEF HandlerThrows, RecoverFromWrite
<1>19. "ok" \in DbResult /\ "reply_lost" \in DbResult
  BY DEF DbResult
<1>20. ASSUME NEW w \in Workers, WorkerStep(w)
       PROVE  RowsOK' /\ DueOK' /\ stale' \subseteq Jobs /\ WorkerOK'
  BY <1>5, <1>6, <1>7, <1>8, <1>9, <1>10, <1>11, <1>12, <1>17, <1>18, <1>19, <1>20 DEF WorkerStep
<1>21. ASSUME NEW w \in Workers, WorkerFault(w)
       PROVE  RowsOK' /\ DueOK' /\ stale' \subseteq Jobs /\ WorkerOK'
  BY <1>8, <1>9, <1>11, <1>12, <1>17, <1>18, <1>19, <1>21 DEF WorkerFault
<1> QED
  BY <1>1, <1>2, <1>3, <1>4, <1>14, <1>15, <1>16, <1>20, <1>21 DEF Next

LEMMA BudgetInit == Init => BudgetInv
BY ConstantsAssumption
   DEF Init, BudgetInv, TypeOK, NeverStranded, WithinBudget, Waiting, Absent, Row, Status, Stage,
       Claim

\* The table and the workers' variables keep their types.
THEOREM TypeCorrect == Spec => []TypeOK
<1>1. BudgetInv => TypeOK
  BY DEF BudgetInv
<1> QED BY <1>1, BudgetInit, BudgetStep, PTL DEF Spec

\* No row ever exceeds its attempt budget, and a row that waits for a worker
\* has an attempt left, whatever crashes, fails, goes stale or is retried.
THEOREM BudgetHolds == Spec => []NeverStranded
<1>1. BudgetInv => NeverStranded
  BY DEF BudgetInv
<1> QED BY <1>1, BudgetInit, BudgetStep, PTL DEF Spec

-----------------------------------------------------------------------------
(* The identity of a claim.  ClaimIdentity needs the shape of the batch:   *)
(* a worker holds claims only between a claim and the end of that tick, on *)
(* different jobs, and expired names only claims still acted on.           *)

Shape(w) ==
  /\ batch[w] # {} => pc[w] \in {"batch", "handler", "recover"}
  /\ current[w] # {} => pc[w] \in {"handler", "recover"}
  /\ \A c, d \in batch[w] \cup current[w] : c.job = d.job => c = d
  /\ batch[w] \cap current[w] = {}
  /\ \A c, d \in current[w] : c = d
  /\ \A j \in Jobs : <<w, j>> \in expired => \E c \in batch[w] \cup current[w] : c.job = j

Identified(w) ==
  \A c \in batch[w] \cup current[w] : HeldClaim(w, c) <=> <<w, c.job>> \notin expired

ClaimInv == \A w \in Workers : Shape(w) /\ Identified(w)

\* A step that changes only rows that are not and do not become RUNNING.
LEMMA QuietStep ==
  ASSUME TypeOK, ClaimInv, UNCHANGED <<batch, current, expired>>,
         \A w \in Workers : \/ pc'[w] = pc[w]
                            \/ batch[w] = {} /\ current[w] = {},
         \A j \in Jobs : \/ row'[j] = row[j]
                         \/ row[j].status # "RUNNING" /\ row'[j].status # "RUNNING"
  PROVE  ClaimInv'
<1> SUFFICES ASSUME NEW w \in Workers PROVE Shape(w)' /\ Identified(w)'
  BY DEF ClaimInv
<1>1. Shape(w) /\ Identified(w)
  BY DEF ClaimInv
<1>2. Shape(w)'
  BY <1>1 DEF Shape
<1>3. \A c \in batch[w] \cup current[w] : c.job \in Jobs
  BY DEF TypeOK, Claim
<1>4. \A c \in batch[w] \cup current[w] : HeldClaim(w, c)' <=> HeldClaim(w, c)
  BY <1>3 DEF HeldClaim
<1>5. Identified(w)'
  BY <1>1, <1>4 DEF Identified
<1> QED BY <1>2, <1>5

\* A step that ends the attempts of S from outside.
LEMMA TakingStep ==
  ASSUME NEW S \in SUBSET Jobs, TypeOK, ClaimInv,
         UNCHANGED <<batch, current>>, expired' = TakenAway(S),
         \A w \in Workers : \/ pc'[w] = pc[w]
                            \/ batch[w] = {} /\ current[w] = {},
         \A j \in Jobs : IF j \in S THEN row'[j].status # "RUNNING" ELSE row'[j] = row[j]
  PROVE  ClaimInv'
<1> SUFFICES ASSUME NEW w \in Workers PROVE Shape(w)' /\ Identified(w)'
  BY DEF ClaimInv
<1>1. Shape(w) /\ Identified(w)
  BY DEF ClaimInv
<1>2. \A j \in Jobs : <<w, j>> \in expired' <=>
         <<w, j>> \in expired \/ (j \in S /\ \E c \in batch[w] \cup current[w] : c.job = j)
  BY DEF TakenAway, Believed
<1>3. Shape(w)'
  BY <1>1, <1>2 DEF Shape
<1>4. \A c \in batch[w] \cup current[w] : c.job \in Jobs
  BY DEF TypeOK, Claim
<1>5. ASSUME NEW c \in batch[w] \cup current[w]
      PROVE  HeldClaim(w, c)' <=> <<w, c.job>> \notin expired'
  <2>1. CASE c.job \in S
    BY <1>2, <1>4, <2>1 DEF HeldClaim
  <2>2. CASE c.job \notin S
    BY <1>1, <1>2, <1>4, <2>2 DEF HeldClaim, Identified
  <2> QED BY <2>1, <2>2
<1>6. Identified(w)'
  BY <1>5 DEF Identified
<1> QED BY <1>3, <1>6

\* Only c's row, and only if the claim is held, stops being RUNNING.
EndsOwn(w, c) ==
  \A j \in Jobs : \/ row'[j] = row[j]
                  \/ j = c.job /\ HeldClaim(w, c) /\ row'[j].status # "RUNNING"

\* The step in which w is done with c, or with its whole batch.
LEMMA LeavingStep ==
  ASSUME TypeOK, ClaimInv, NEW w \in Workers, NEW c \in batch[w] \cup current[w],
         c \in current[w] \/ current[w] = {},
         EndsOwn(w, c), Proceed(w, c) \/ Abandon(w)
  PROVE  ClaimInv'
<1>1. \A v \in Workers : Shape(v) /\ Identified(v)
  BY DEF ClaimInv
<1>2. \A v \in Workers : \A d \in batch[v] \cup current[v] : d.job \in Jobs
  BY DEF TypeOK, Claim
<1>3. ASSUME NEW v \in Workers, v # w
      PROVE  Shape(v)' /\ Identified(v)'
  <2>1. batch'[v] = batch[v] /\ current'[v] = current[v] /\ pc'[v] = pc[v]
    BY <1>3 DEF Proceed, Abandon, TypeOK
  <2>2. \A j \in Jobs : <<v, j>> \in expired' <=> <<v, j>> \in expired
    BY <1>3 DEF Proceed, Abandon
  <2>3. \A d \in batch[v] \cup current[v] : HeldClaim(v, d)' <=> HeldClaim(v, d)
    BY <1>2, <1>3 DEF HeldClaim, EndsOwn
  <2>4. Shape(v)'
    BY <1>1, <2>1, <2>2 DEF Shape
  <2> QED BY <1>1, <1>2, <2>1, <2>2, <2>3, <2>4 DEF Identified
<1>4. CASE Abandon(w)
  <2>1. batch'[w] = {} /\ current'[w] = {} /\ \A j \in Jobs : <<w, j>> \notin expired'
    BY <1>4 DEF Abandon, TypeOK
  <2>2. Shape(w)' /\ Identified(w)'
    BY <2>1 DEF Shape, Identified
  <2> QED BY <1>3, <2>2 DEF ClaimInv
<1>5. CASE Proceed(w, c)
  <2>1. batch'[w] = batch[w] \ {c} /\ current'[w] = {} /\ pc'[w] = "batch"
    BY <1>5 DEF Proceed, TypeOK
  <2>2. \A j \in Jobs : <<w, j>> \in expired' <=> <<w, j>> \in expired /\ j # c.job
    BY <1>5, <1>2 DEF Proceed
  <2>3. \A d \in batch'[w] : d \in batch[w] /\ d.job # c.job
    BY <1>1, <2>1 DEF Shape
  <2>4. \A d \in current[w] : d = c
    BY <1>1 DEF Shape
  <2>5. Shape(w)'
    BY <1>1, <2>1, <2>2, <2>3, <2>4 DEF Shape
  <2>6. \A d \in batch'[w] : HeldClaim(w, d)' <=> HeldClaim(w, d)
    BY <1>2, <2>3 DEF HeldClaim, EndsOwn
  <2>7. Identified(w)'
    BY <1>1, <1>2, <2>1, <2>2, <2>3, <2>6 DEF Identified
  <2> QED BY <1>3, <2>5, <2>7 DEF ClaimInv
<1> QED BY <1>4, <1>5

\* A conditional write ends only the attempt of the claim it is made under.
LEMMA WriteEndsOwn ==
  ASSUME TypeOK, NEW w \in Workers, NEW c \in Claim, NEW r, NEW db, Write(w, c, r, db),
         r.status # "RUNNING"
  PROVE  EndsOwn(w, c)
<1>1. c.job \in Jobs
  BY DEF Claim
<1>2. row \in [Jobs -> Row]
  BY DEF TypeOK
<1>3. row' = row \/ (HeldClaim(w, c) /\ row' = [row EXCEPT ![c.job] = r])
  BY DEF Write
<1> QED BY <1>1, <1>2, <1>3 DEF EndsOwn

LEMMA OutcomesEnd ==
  ASSUME NEW r \in Row
  PROVE  /\ Completed(r).status # "RUNNING" /\ Rescheduled(r).status # "RUNNING"
         /\ \A c, p : FailedAs(r, c, p).status # "RUNNING"
BY RowColumns DEF FailedAs

LEMMA ClaimStep == BudgetInv /\ ClaimInv /\ [Next]_vars => ClaimInv'
<1> SUFFICES ASSUME BudgetInv, ClaimInv, [Next]_vars PROVE ClaimInv'
  OBVIOUS
<1>t. TypeOK
  BY DEF BudgetInv
<1>f. row \in [Jobs -> Row] /\ pc \in [Workers -> Stage]
  BY <1>t DEF TypeOK
<1>s. \A w \in Workers : Shape(w) /\ Identified(w)
  BY DEF ClaimInv
<1>c. \A w \in Workers : \A c \in batch[w] \cup current[w] :
        c \in Claim /\ c.job \in Jobs /\ row[c.job] \in Row
  BY <1>t DEF TypeOK, Claim
<1>e. \A w \in Workers : pc[w] \notin {"batch", "handler", "recover"} =>
        batch[w] = {} /\ current[w] = {}
  BY <1>s DEF Shape
<1>1. ASSUME NEW j \in Jobs, Enqueue(j) \/ Retry(j) \/ BecomeDue(j) \/ LockGoesStale(j)
      PROVE  ClaimInv'
  <2>1. UNCHANGED <<pc, batch, current, expired>>
    BY <1>1 DEF Enqueue, Retry, BecomeDue, LockGoesStale, workerVars
  <2>2. \A k \in Jobs : \/ row'[k] = row[k]
                        \/ row[k].status # "RUNNING" /\ row'[k].status # "RUNNING"
    <3>1. CASE Enqueue(j)
      <4>1. row' = [row EXCEPT ![j] = Inserted] /\ row[j].status = "none"
        BY <3>1 DEF Enqueue
      <4>2. Inserted.status # "RUNNING"
        BY DEF Inserted
      <4> QED BY <1>f, <4>1, <4>2
    <3>2. CASE Retry(j)
      <4>1. Requeued(row[j]).status # "RUNNING"
        <5>1. row[j] \in Row
          BY <1>f
        <5> QED BY <5>1, RowColumns
      <4>2. row' = [row EXCEPT ![j] = Requeued(row[j])] /\ row[j].status \in {"FAILED", "DEAD"}
        BY <3>2 DEF Retry
      <4> QED BY <1>f, <4>1, <4>2
    <3>3. CASE BecomeDue(j) \/ LockGoesStale(j)
      <4>1. row' = row
        BY <3>3 DEF BecomeDue, LockGoesStale
      <4> QED BY <4>1
    <3> QED BY <1>1, <3>1, <3>2, <3>3
  <2>3. \A v \in Workers : pc'[v] = pc[v]
    BY <2>1
  <2> QED BY <1>t, <2>1, <2>2, <2>3, QuietStep
<1>2. ASSUME NEW w \in Workers, Start(w) \/ TickRefused(w) \/ EndTick(w)
      PROVE  ClaimInv'
  <2>1. UNCHANGED <<row, batch, current, expired>>
    BY <1>2 DEF Start, TickRefused, EndTick, tableVars
  <2>2. \A v \in Workers : \/ pc'[v] = pc[v]
                           \/ batch[v] = {} /\ current[v] = {}
    <3>1. pc' = [pc EXCEPT ![w] = pc'[w]]
      BY <1>2, <1>t DEF Start, TickRefused, EndTick, TypeOK
    <3>2. batch[w] = {} /\ current[w] = {}
      <4>1. pc[w] = "batch" => current[w] = {}
        BY <1>s DEF Shape
      <4> QED BY <1>2, <1>e, <4>1 DEF Start, TickRefused, EndTick, ReapDue, ReadyToClaim
    <3> QED BY <1>f, <3>1, <3>2
  <2>3. \A j \in Jobs : row'[j] = row[j]
    BY <2>1
  <2> QED BY <1>t, <2>1, <2>2, <2>3, QuietStep
<1>3. ASSUME NEW w \in Workers, ReapDead(w)
      PROVE  ClaimInv'
  <2> DEFINE S == {j \in Jobs : Stale(j) /\ Spent(j)}
  <2>1. \A j \in Jobs : IF j \in S THEN row'[j].status # "RUNNING" ELSE row'[j] = row[j]
    <3>1. \A j \in Jobs : row'[j] = IF j \in S THEN DeadLettered(row[j]) ELSE row[j]
      BY <1>3 DEF ReapDead
    <3>2. \A j \in Jobs : DeadLettered(row[j]).status # "RUNNING"
      BY <1>t, RowColumns DEF TypeOK
    <3> HIDE DEF S
    <3> QED BY <3>1, <3>2
  <2>2. UNCHANGED <<batch, current>> /\ expired' = TakenAway(S)
    BY <1>3 DEF ReapDead
  <2>3. \A v \in Workers : pc'[v] = pc[v] \/ (batch[v] = {} /\ current[v] = {})
    <3>1. pc' = [pc EXCEPT ![w] = "release"] /\ pc[w] = "tick"
      BY <1>3 DEF ReapDead, ReapDue
    <3> QED BY <1>f, <1>e, <3>1
  <2> HIDE DEF S
  <2>4. S \subseteq Jobs
    BY DEF S
  <2> QED BY <1>t, <2>1, <2>2, <2>3, <2>4, TakingStep
<1>4. ASSUME NEW w \in Workers, ReapRelease(w)
      PROVE  ClaimInv'
  <2> DEFINE S == {j \in Jobs : Stale(j) /\ ~Spent(j)}
  <2>1. \A j \in Jobs : IF j \in S THEN row'[j].status # "RUNNING" ELSE row'[j] = row[j]
    <3>1. \A j \in Jobs : row'[j] = IF j \in S THEN ToRetry(row[j]) ELSE row[j]
      BY <1>4 DEF ReapRelease
    <3>2. \A j \in Jobs : ToRetry(row[j]).status # "RUNNING"
      BY <1>t, RowColumns DEF TypeOK
    <3> HIDE DEF S
    <3> QED BY <3>1, <3>2
  <2>2. UNCHANGED <<batch, current>> /\ expired' = TakenAway(S)
    BY <1>4 DEF ReapRelease
  <2>3. \A v \in Workers : pc'[v] = pc[v] \/ (batch[v] = {} /\ current[v] = {})
    <3>1. pc' = [pc EXCEPT ![w] = "claim"] /\ pc[w] = "release"
      BY <1>4 DEF ReapRelease
    <3> QED BY <1>f, <1>e, <3>1
  <2> HIDE DEF S
  <2>4. S \subseteq Jobs
    BY DEF S
  <2> QED BY <1>t, <2>1, <2>2, <2>3, <2>4, TakingStep
<1>5. ASSUME NEW w \in Workers, NEW c \in current[w], NEW S \in SUBSET Jobs, Redact(w, c, S)
      PROVE  ClaimInv'
  <2>1. \A j \in Jobs : IF j \in S THEN row'[j].status # "RUNNING" ELSE row'[j] = row[j]
    BY <1>5 DEF Redact, Absent
  <2>2. UNCHANGED <<pc, batch, current>> /\ expired' = TakenAway(S)
    BY <1>5 DEF Redact, workerVars
  <2>3. \A v \in Workers : pc'[v] = pc[v]
    BY <2>2
  <2> QED BY <1>t, <2>1, <2>2, <2>3, TakingStep
<1>6. ASSUME NEW w \in Workers, NEW db \in DbResult, ClaimJobs(w, db)
      PROVE  ClaimInv'
  <2>1. PICK S \in SUBSET Claimable :
          /\ row' = [j \in Jobs |-> IF j \in S THEN Claimed(row[j], w) ELSE row[j]]
          /\ batch' = [batch EXCEPT ![w] =
               IF db = "ok" THEN {[job |-> j, attempts |-> row[j].attempts + 1] : j \in S} ELSE {}]
    BY <1>6 DEF ClaimJobs
  <2>2. S \subseteq Jobs /\ \A j \in S : row[j].status # "RUNNING"
    BY <1>t DEF Claimable, Waiting, TypeOK
  <2>3. batch[w] = {} /\ current[w] = {} /\ UNCHANGED <<current, expired>>
    BY <1>6, <1>e DEF ClaimJobs, ReadyToClaim
  <2>4. \A j \in S : /\ row'[j].status = "RUNNING" /\ row'[j].lockedBy = w
                     /\ row'[j].attempts = row[j].attempts + 1
    <3>1. ASSUME NEW j \in S
          PROVE  row'[j] = Claimed(row[j], w) /\ row[j] \in Row
      BY <1>t, <2>1, <2>2 DEF TypeOK
    <3> QED BY <3>1, RowColumns
  <2>5. \A j \in Jobs \ S : row'[j] = row[j]
    BY <2>1
  <2>6. ASSUME NEW v \in Workers, v # w
        PROVE  Shape(v)' /\ Identified(v)'
    <3>1. pc'[v] = pc[v] /\ batch'[v] = batch[v]
      BY <1>6, <1>t, <2>1, <2>6 DEF ClaimJobs, TypeOK
    <3>2. Shape(v)'
      BY <1>s, <2>3, <3>1 DEF Shape
    <3>3. \A c \in batch[v] \cup current[v] : HeldClaim(v, c)' <=> HeldClaim(v, c)
      BY <1>c, <2>2, <2>4, <2>5, <2>6 DEF HeldClaim
    <3> QED BY <1>s, <2>3, <3>1, <3>2, <3>3 DEF Identified
  <2>7. Shape(w)' /\ Identified(w)'
    <3>1. \A j \in Jobs : <<w, j>> \notin expired
      BY <1>s, <2>3 DEF Shape
    <3>2. CASE db = "ok"
      <4>1. batch'[w] = {[job |-> j, attempts |-> row[j].attempts + 1] : j \in S}
        BY <1>t, <2>1, <3>2 DEF TypeOK
      <4>2. pc'[w] = "batch" /\ current'[w] = {}
        BY <1>6, <1>t, <2>3, <3>2 DEF ClaimJobs, TypeOK
      <4>3. \A c \in batch'[w] : /\ c.job \in S /\ c.attempts = row[c.job].attempts + 1
                                 /\ c = [job |-> c.job, attempts |-> row[c.job].attempts + 1]
        BY <4>1
      <4>4. Shape(w)'
        BY <2>3, <3>1, <4>2, <4>3 DEF Shape
      <4>5. Identified(w)'
        BY <2>2, <2>3, <2>4, <3>1, <4>2, <4>3 DEF Identified, HeldClaim
      <4> QED BY <4>4, <4>5
    <3>3. CASE db # "ok"
      <4>1. batch'[w] = {} /\ current'[w] = {}
        BY <1>t, <2>1, <2>3, <3>3 DEF TypeOK
      <4> QED BY <2>3, <3>1, <4>1 DEF Shape, Identified
    <3> QED BY <3>2, <3>3
  <2> QED BY <2>6, <2>7 DEF ClaimInv
<1>7. ASSUME NEW w \in Workers, NEW c \in batch[w], StartHandler(w, c)
      PROVE  ClaimInv'
  <2>1. ASSUME NEW v \in Workers, v # w
        PROVE  Shape(v)' /\ Identified(v)'
    <3>1. pc'[v] = pc[v] /\ batch'[v] = batch[v] /\ current'[v] = current[v]
      BY <1>7, <1>t, <2>1 DEF StartHandler, TypeOK
    <3>2. UNCHANGED <<row, expired>>
      BY <1>7 DEF StartHandler, tableVars
    <3> QED BY <1>s, <3>1, <3>2 DEF Shape, Identified, HeldClaim
  <2>2. Shape(w)' /\ Identified(w)'
    <3>1. batch'[w] = batch[w] \ {c} /\ current'[w] = {c} /\ pc'[w] = "handler"
      BY <1>7, <1>t DEF StartHandler, TypeOK
    <3>2. UNCHANGED <<row, expired>> /\ pc[w] = "batch"
      BY <1>7 DEF StartHandler, tableVars
    <3>3. current[w] = {}
      BY <1>s, <3>2 DEF Shape
    <3>4. batch'[w] \cup current'[w] = batch[w] \cup current[w]
      BY <3>1, <3>3
    <3>5. Shape(w)'
      BY <1>s, <3>1, <3>2, <3>4 DEF Shape
    <3>6. Identified(w)'
      BY <1>s, <3>2, <3>4 DEF Identified, HeldClaim
    <3> QED BY <3>5, <3>6
  <2> QED BY <2>1, <2>2 DEF ClaimInv
<1>8. ASSUME NEW w \in Workers, NEW c \in current[w], NEW db \in DbResult,
             HandlerSucceeds(w, c, db)
      PROVE  ClaimInv'
  <2>1. EndsOwn(w, c)
    BY <1>8, <1>t, <1>c, OutcomesEnd, WriteEndsOwn DEF HandlerSucceeds
  <2>2. CASE db = "ok"
    BY <1>8, <1>t, <2>1, <2>2, LeavingStep DEF HandlerSucceeds
  <2>3. CASE db # "ok"
    <3>1. UNCHANGED <<batch, current>> /\ pc' = [pc EXCEPT ![w] = "recover"]
      BY <1>8, <2>3 DEF HandlerSucceeds
    <3>2. expired' = IF db = "reply_lost" THEN expired \cup {<<w, c.job>>} ELSE expired
      BY <1>8, <2>3 DEF HandlerSucceeds
    <3>3. pc[w] = "handler" /\ c.job \in Jobs
      BY <1>8, <1>c DEF HandlerSucceeds
    <3>4. ASSUME NEW v \in Workers, v # w
          PROVE  Shape(v)' /\ Identified(v)'
      <4>1. pc'[v] = pc[v] /\ \A j \in Jobs : <<v, j>> \in expired' <=> <<v, j>> \in expired
        BY <1>t, <3>1, <3>2, <3>4 DEF TypeOK
      <4>2. Shape(v)'
        BY <1>s, <3>1, <4>1 DEF Shape
      <4>3. \A d \in batch[v] \cup current[v] : HeldClaim(v, d)' <=> HeldClaim(v, d)
        BY <1>c, <2>1, <3>4 DEF HeldClaim, EndsOwn
      <4> QED BY <1>s, <1>c, <3>1, <4>1, <4>2, <4>3 DEF Identified
    <3>5. Shape(w)'
      BY <1>s, <1>t, <3>1, <3>2, <3>3 DEF Shape, TypeOK
    <3>6. ASSUME NEW d \in batch[w] \cup current[w]
          PROVE  HeldClaim(w, d)' <=> <<w, d.job>> \notin expired'
      <4>1. CASE d.job # c.job
        BY <1>s, <1>c, <2>1, <3>2, <4>1 DEF HeldClaim, EndsOwn, Identified
      <4>2. CASE d.job = c.job
        <5>1. d = c
          BY <1>s, <4>2 DEF Shape
        <5>2. CASE db = "reply_lost"
          <6>1. row'[c.job].status # "RUNNING" \/ (~HeldClaim(w, c) /\ row' = row)
            <7>1. Completed(row[c.job]).status # "RUNNING" /\ c.job \in Jobs
              BY <1>c, OutcomesEnd
            <7>2. \/ row' = [row EXCEPT ![c.job] = Completed(row[c.job])]
                  \/ ~HeldClaim(w, c) /\ row' = row
              BY <1>8, <5>2 DEF HandlerSucceeds, Write
            <7> QED BY <1>f, <7>1, <7>2
          <6> QED BY <1>8, <1>c, <3>2, <5>1, <5>2, <6>1 DEF HeldClaim
        <5>3. CASE db = "refused"
          <6>1. row' = row
            BY <1>8, <5>3 DEF HandlerSucceeds, Write
          <6> QED BY <1>s, <3>2, <5>1, <5>3, <6>1 DEF HeldClaim, Identified
        <5> QED BY <2>3, <5>2, <5>3 DEF DbResult
      <4> QED BY <4>1, <4>2
    <3> QED BY <3>1, <3>4, <3>5, <3>6 DEF ClaimInv, Identified
  <2> QED BY <2>2, <2>3
<1>9. ASSUME NEW w \in Workers, NEW c \in current[w], NEW db \in DbResult, HandlerWaits(w, c, db)
      PROVE  ClaimInv'
  <2>1. EndsOwn(w, c)
    BY <1>9, <1>t, <1>c, OutcomesEnd, WriteEndsOwn DEF HandlerWaits
  <2> QED BY <1>9, <1>t, <2>1, LeavingStep DEF HandlerWaits
<1>10. ASSUME NEW w \in Workers, NEW c \in batch[w] \cup current[w], NEW permanent \in BOOLEAN,
              NEW db \in DbResult, c \in current[w] \/ pc[w] = "batch",
              FailJob(w, c, permanent, db)
       PROVE  ClaimInv'
  <2>1. EndsOwn(w, c)
    BY <1>10, <1>t, <1>c, OutcomesEnd, WriteEndsOwn DEF FailJob
  <2>2. c \in current[w] \/ current[w] = {}
    BY <1>10, <1>s DEF Shape
  <2> QED BY <1>10, <1>t, <2>1, <2>2, LeavingStep DEF FailJob
<1>11. ASSUME NEW w \in Workers, Stop(w)
       PROVE  ClaimInv'
  <2>1. UNCHANGED <<row, batch, current, expired>>
    BY <1>11 DEF Stop, tableVars
  <2>2. \A v \in Workers : pc'[v] = pc[v] \/ (batch[v] = {} /\ current[v] = {})
    <3>1. pc' = [pc EXCEPT ![w] = IF pc[w] = "tick" THEN "stopped" ELSE pc[w]]
      BY <1>11 DEF Stop
    <3> QED BY <1>f, <1>e, <3>1
  <2>3. \A j \in Jobs : row'[j] = row[j]
    BY <2>1
  <2> QED BY <1>t, <2>1, <2>2, <2>3, QuietStep
<1>12. ASSUME NEW w \in Workers, Crash(w)
       PROVE  ClaimInv'
  <2>1. ASSUME NEW v \in Workers, v # w
        PROVE  Shape(v)' /\ Identified(v)'
    <3>1. pc'[v] = pc[v] /\ batch'[v] = batch[v] /\ current'[v] = current[v] /\ row' = row
      BY <1>12, <1>t, <2>1 DEF Crash, tableVars, TypeOK
    <3>2. \A j \in Jobs : <<v, j>> \in expired' <=> <<v, j>> \in expired
      BY <1>12, <2>1 DEF Crash
    <3>3. Shape(v)'
      BY <1>s, <3>1, <3>2 DEF Shape
    <3> QED BY <1>s, <1>c, <3>1, <3>2, <3>3 DEF Identified, HeldClaim
  <2>2. Shape(w)' /\ Identified(w)'
    <3>1. batch'[w] = {} /\ current'[w] = {} /\ \A j \in Jobs : <<w, j>> \notin expired'
      BY <1>12, <1>t DEF Crash, TypeOK
    <3> QED BY <3>1 DEF Shape, Identified
  <2> QED BY <2>1, <2>2 DEF ClaimInv
<1>13. CASE UNCHANGED vars
  <2>1. UNCHANGED <<row, pc, batch, current, expired>>
    BY <1>13 DEF vars
  <2>2. \A j \in Jobs, v \in Workers : row'[j] = row[j] /\ pc'[v] = pc[v]
    BY <2>1
  <2> QED BY <1>t, <2>1, <2>2, QuietStep
<1> QED
  BY <1>1, <1>2, <1>3, <1>4, <1>5, <1>6, <1>7, <1>8, <1>9, <1>10, <1>11, <1>12, <1>13
     DEF Next, WorkerStep, WorkerFault, HandlerThrows, RecoverFromWrite, NoHandler, DbResult

LEMMA ClaimInit == Init => ClaimInv
BY DEF Init, ClaimInv, Shape, Identified

\* heldClaim is exact: a worker's outcome is applied if and only if the attempt
\* it was given is still its own, although attempt numbers are reused.
THEOREM ClaimsIdentified == Spec => []ClaimIdentity
<1>1. ClaimInv => ClaimIdentity
  BY DEF ClaimInv, Identified, ClaimIdentity
<1> QED BY <1>1, BudgetInit, BudgetStep, ClaimInit, ClaimStep, PTL DEF Spec

\* A row has at most one owner among the workers that believe to own it.
THEOREM OwnersExclusive == Spec => []OneOwner
<1>1. ClaimInv => OneOwner
  <2> SUFFICES ASSUME ClaimInv, NEW v \in Workers, NEW w \in Workers,
                      NEW j \in Believed(v) \cap Believed(w), v # w
               PROVE  <<v, j>> \in expired \/ <<w, j>> \in expired
    BY DEF OneOwner
  <2>1. PICK c \in batch[v] \cup current[v], d \in batch[w] \cup current[w] :
          c.job = j /\ d.job = j
    BY DEF Believed
  <2>2. ~(HeldClaim(v, c) /\ HeldClaim(w, d))
    BY <2>1 DEF HeldClaim
  <2> QED BY <2>1, <2>2 DEF ClaimInv, Identified
<1> QED BY <1>1, BudgetInit, BudgetStep, ClaimInit, ClaimStep, PTL DEF Spec

-----------------------------------------------------------------------------
(* What a step may do to a row: the seven ways a row changes, and from     *)
(* them the action properties.                                             *)

Appears(j)   == row[j].status = "none" /\ row'[j] = Inserted
IsRetried(j) == row[j].status \in {"FAILED", "DEAD"} /\ row'[j] = Requeued(row[j])
IsReaped(j)  == /\ Stale(j) /\ row'[j] \in {DeadLettered(row[j]), ToRetry(row[j])}
                /\ \E w \in Workers : ReapDead(w) \/ ReapRelease(w)
IsClaimed(j) == Waiting(row[j]) /\ \E w \in Workers : row'[j] = Claimed(row[j], w)
IsErased(j)  == row'[j] = Absent("deleted")

\* The worker that holds the claim c writes its outcome, and moves on.
IsSettled(j) ==
  \E w \in Workers : \E c \in batch[w] \cup current[w] :
    /\ c.job = j /\ HeldClaim(w, c)
    /\ row'[j] \in {Completed(row[j]), Rescheduled(row[j]), DeadLettered(row[j]), ToRetry(row[j])}
    /\ <<pc[w], batch[w], current[w]>>' # <<pc[w], batch[w], current[w]>>

Changes(j) ==
  \/ row'[j] = row[j]
  \/ Appears(j) \/ IsRetried(j) \/ IsReaped(j) \/ IsClaimed(j) \/ IsSettled(j) \/ IsErased(j)

\* A conditional write changes the row of the claim, if it is held, or none.
LEMMA WriteSettles ==
  ASSUME TypeOK, NEW w \in Workers, NEW c \in batch[w] \cup current[w], NEW r, NEW db,
         Write(w, c, r, db),
         r \in {Completed(row[c.job]), Rescheduled(row[c.job]),
                DeadLettered(row[c.job]), ToRetry(row[c.job])},
         <<pc[w], batch[w], current[w]>>' # <<pc[w], batch[w], current[w]>>
  PROVE  \A j \in Jobs : row'[j] = row[j] \/ IsSettled(j)
<1>1. c.job \in Jobs /\ row \in [Jobs -> Row]
  BY DEF TypeOK, Claim
<1>2. CASE HeldClaim(w, c) /\ db # "refused"
  <2>1. row' = [row EXCEPT ![c.job] = r]
    BY <1>2 DEF Write
  <2>2. row'[c.job] = r /\ \A j \in Jobs : j # c.job => row'[j] = row[j]
    BY <1>1, <2>1
  <2>3. IsSettled(c.job)
    BY <1>2, <2>2 DEF IsSettled
  <2> QED BY <2>2, <2>3
<1>3. CASE ~(HeldClaim(w, c) /\ db # "refused")
  BY <1>3 DEF Write
<1> QED BY <1>2, <1>3

\* Finishing with a claim, or giving up on the batch, is a move.
LEMMA MovesOn ==
  ASSUME TypeOK, NEW w \in Workers, NEW c \in batch[w] \cup current[w],
         pc[w] \in {"handler", "recover"} \/ (pc[w] = "batch" /\ c \in batch[w]),
         Proceed(w, c) \/ Abandon(w)
  PROVE  <<pc[w], batch[w], current[w]>>' # <<pc[w], batch[w], current[w]>>
<1>1. CASE Proceed(w, c)
  <2>1. pc'[w] = "batch" /\ batch'[w] = batch[w] \ {c}
    BY <1>1 DEF Proceed, TypeOK
  <2> QED BY <2>1
<1>2. CASE Abandon(w)
  <2>1. pc'[w] \in {"stopped", "tick"}
    BY <1>2 DEF Abandon, Looped, TypeOK
  <2> QED BY <2>1
<1> QED BY <1>1, <1>2

LEMMA RowChanges ==
  ASSUME TypeOK, [Next]_vars
  PROVE  \A j \in Jobs : Changes(j)
<1>t. row \in [Jobs -> Row] /\ pc \in [Workers -> Stage]
  BY DEF TypeOK
<1>1. CASE UNCHANGED vars
  BY <1>1 DEF vars, Changes
<1>2. ASSUME NEW k \in Jobs, Enqueue(k) \/ Retry(k) \/ BecomeDue(k) \/ LockGoesStale(k)
      PROVE  \A j \in Jobs : Changes(j)
  BY <1>2, <1>t DEF Enqueue, Retry, BecomeDue, LockGoesStale, Changes, Appears, IsRetried
<1>3. ASSUME NEW w \in Workers,
             Start(w) \/ TickRefused(w) \/ EndTick(w) \/ Stop(w) \/ Crash(w)
               \/ \E c \in batch[w] : StartHandler(w, c)
      PROVE  \A j \in Jobs : Changes(j)
  BY <1>3 DEF Start, TickRefused, EndTick, Stop, Crash, StartHandler, tableVars, Changes
<1>4. ASSUME NEW w \in Workers, ReapDead(w)
      PROVE  \A j \in Jobs : Changes(j)
  <2>1. \A j \in Jobs : row'[j] = row[j] \/ (Stale(j) /\ row'[j] = DeadLettered(row[j]))
    BY <1>4 DEF ReapDead
  <2> QED BY <1>4, <2>1 DEF Changes, IsReaped
<1>5. ASSUME NEW w \in Workers, ReapRelease(w)
      PROVE  \A j \in Jobs : Changes(j)
  <2>1. \A j \in Jobs : row'[j] = row[j] \/ (Stale(j) /\ row'[j] = ToRetry(row[j]))
    BY <1>5 DEF ReapRelease
  <2> QED BY <1>5, <2>1 DEF Changes, IsReaped
<1>6. ASSUME NEW w \in Workers, NEW db, ClaimJobs(w, db)
      PROVE  \A j \in Jobs : Changes(j)
  <2>1. PICK S \in SUBSET Claimable :
          row' = [j \in Jobs |-> IF j \in S THEN Claimed(row[j], w) ELSE row[j]]
    BY <1>6 DEF ClaimJobs
  <2>2. \A j \in S : Waiting(row[j])
    BY DEF Claimable
  <2> QED BY <2>1, <2>2 DEF Changes, IsClaimed
<1>7. ASSUME NEW w \in Workers, NEW c \in current[w], NEW S \in SUBSET Jobs, Redact(w, c, S)
      PROVE  \A j \in Jobs : Changes(j)
  BY <1>7 DEF Redact, Changes, IsErased
<1>8. ASSUME NEW w \in Workers, NEW c \in current[w], NEW db, HandlerSucceeds(w, c, db)
      PROVE  \A j \in Jobs : Changes(j)
  <2>1. <<pc[w], batch[w], current[w]>>' # <<pc[w], batch[w], current[w]>>
    <3>1. CASE db = "ok"
      BY <1>8, <3>1, MovesOn DEF HandlerSucceeds
    <3>2. CASE db # "ok"
      <4>1. pc'[w] = "recover" /\ pc[w] = "handler"
        BY <1>8, <1>t, <3>2 DEF HandlerSucceeds
      <4> QED BY <4>1
    <3> QED BY <3>1, <3>2
  <2>2. \A j \in Jobs : row'[j] = row[j] \/ IsSettled(j)
    BY <1>8, <2>1, WriteSettles DEF HandlerSucceeds
  <2> QED BY <2>2 DEF Changes
<1>9. ASSUME NEW w \in Workers, NEW c \in current[w], NEW db, HandlerWaits(w, c, db)
      PROVE  \A j \in Jobs : Changes(j)
  <2>1. <<pc[w], batch[w], current[w]>>' # <<pc[w], batch[w], current[w]>>
    BY <1>9, MovesOn DEF HandlerWaits
  <2>2. \A j \in Jobs : row'[j] = row[j] \/ IsSettled(j)
    BY <1>9, <2>1, WriteSettles DEF HandlerWaits
  <2> QED BY <2>2 DEF Changes
<1>10. ASSUME NEW w \in Workers, NEW c \in batch[w] \cup current[w], NEW permanent, NEW db,
              pc[w] \in {"handler", "recover"} \/ (pc[w] = "batch" /\ c \in batch[w]),
              FailJob(w, c, permanent, db)
       PROVE  \A j \in Jobs : Changes(j)
  <2>1. <<pc[w], batch[w], current[w]>>' # <<pc[w], batch[w], current[w]>>
    BY <1>10, MovesOn DEF FailJob
  <2>2. \A j \in Jobs : row'[j] = row[j] \/ IsSettled(j)
    BY <1>10, <2>1, WriteSettles DEF FailJob, FailedAs
  <2> QED BY <2>2 DEF Changes
<1> QED
  BY <1>1, <1>2, <1>3, <1>4, <1>5, <1>6, <1>7, <1>8, <1>9, <1>10
     DEF Next, WorkerStep, WorkerFault, HandlerThrows, RecoverFromWrite, NoHandler

-----------------------------------------------------------------------------
(* The columns.                                                            *)

ColumnsRight(r) ==
  /\ r.status = "RUNNING" <=> r.lockedBy # NoOne
  /\ r.finished <=> r.status \in {"SUCCEEDED", "DEAD"}

\* New, retried and erased rows agree whatever was there before; the rest do
\* if the row was not finished, or is now.
LEMMA ColumnsWritten ==
  ASSUME NEW r \in Row
  PROVE  /\ ColumnsRight(Inserted) /\ ColumnsRight(Absent("deleted"))
         /\ ColumnsRight(Requeued(r))
         /\ ColumnsRight(Completed(r)) /\ ColumnsRight(DeadLettered(r))
         /\ ~r.finished => /\ ColumnsRight(Rescheduled(r)) /\ ColumnsRight(ToRetry(r))
                           /\ \A w \in Workers : ColumnsRight(Claimed(r, w))
<1> USE DEF ColumnsRight, Row
<1>1. ColumnsRight(Inserted) /\ ColumnsRight(Absent("deleted"))
  BY DEF Inserted, Absent
<1>2. ColumnsRight(Requeued(r))
  BY DEF Requeued
<1>3. ColumnsRight(Completed(r)) /\ ColumnsRight(DeadLettered(r))
  BY DEF Completed, DeadLettered
<1>4. ~r.finished => ColumnsRight(ToRetry(r))
  BY DEF ToRetry
<1>5. ~r.finished => ColumnsRight(Rescheduled(r))
  BY DEF Rescheduled
<1>6. ~r.finished => \A w \in Workers : ColumnsRight(Claimed(r, w))
  BY ConstantsAssumption DEF Claimed
<1> QED BY <1>1, <1>2, <1>3, <1>4, <1>5, <1>6

LEMMA ColumnsStep ==
  ASSUME TypeOK, ColumnsAgree, [Next]_vars
  PROVE  ColumnsAgree'
<1>1. SUFFICES ASSUME NEW j \in Jobs
               PROVE  ColumnsRight(row'[j])
  BY DEF ColumnsAgree, ColumnsRight
<1>2. row[j] \in Row /\ ColumnsRight(row[j]) /\ Changes(j)
  BY RowChanges DEF TypeOK, ColumnsAgree, ColumnsRight
<1>3. CASE Appears(j) \/ IsRetried(j) \/ IsErased(j)
  BY <1>2, <1>3, ColumnsWritten DEF Appears, IsRetried, IsErased
<1>4. CASE IsClaimed(j)
  <2>1. ~row[j].finished
    BY <1>2, <1>4 DEF IsClaimed, Waiting, ColumnsRight
  <2> QED BY <1>2, <1>4, <2>1, ColumnsWritten DEF IsClaimed
<1>5. CASE IsReaped(j) \/ IsSettled(j)
  <2>1. row[j].status = "RUNNING"
    BY <1>5 DEF IsReaped, IsSettled, Stale, HeldClaim
  <2>2. row'[j] \in {Completed(row[j]), Rescheduled(row[j]), DeadLettered(row[j]), ToRetry(row[j])}
    BY <1>5 DEF IsReaped, IsSettled
  <2>3. ~row[j].finished
    BY <1>2, <2>1 DEF ColumnsRight
  <2> QED BY <1>2, <2>2, <2>3, ColumnsWritten
<1> QED BY <1>2, <1>3, <1>4, <1>5 DEF Changes

LEMMA QueueInvariant == Spec => [](BudgetInv /\ ClaimInv /\ ColumnsAgree)
<1>1. Init => ColumnsAgree
  BY DEF Init, Absent, ColumnsAgree
<1>2. BudgetInv /\ ColumnsAgree /\ [Next]_vars => ColumnsAgree'
  BY ColumnsStep DEF BudgetInv
<1> QED BY <1>1, <1>2, BudgetInit, BudgetStep, ClaimInit, ClaimStep, PTL DEF Spec

-----------------------------------------------------------------------------
\* Every statement that writes status writes lockedBy and finishedAt to match.
THEOREM ColumnsAgreeAlways == Spec => []ColumnsAgree
BY QueueInvariant, PTL

\* An attempt in flight is ended by its owner, by the reaper once its lock is
\* stale, or by a redaction; nobody else's statement reaches the row.
THEOREM AttemptsUndisturbed == Spec => OwnAttemptOnly
<1>1. ASSUME BudgetInv, ClaimInv, [Next]_vars
      PROVE  [\A j \in Jobs :
                row[j].status = "RUNNING" /\ row'[j] # row[j] =>
                  \/ row'[j].status = "deleted"
                  \/ j \in stale /\ \E w \in Workers : ReapDead(w) \/ ReapRelease(w)
                  \/ OwnerActs(j)]_vars
  <2> SUFFICES ASSUME NEW j \in Jobs, row[j].status = "RUNNING", row'[j] # row[j]
               PROVE  \/ row'[j].status = "deleted"
                      \/ j \in stale /\ \E w \in Workers : ReapDead(w) \/ ReapRelease(w)
                      \/ OwnerActs(j)
    OBVIOUS
  <2>1. IsReaped(j) \/ IsSettled(j) \/ IsErased(j)
    BY <1>1, RowChanges DEF BudgetInv, Changes, Appears, IsRetried, IsClaimed, Waiting
  <2>2. CASE IsReaped(j)
    BY <2>2 DEF IsReaped, Stale
  <2>3. CASE IsSettled(j)
    <3>1. PICK w \in Workers : \E c \in batch[w] \cup current[w] :
            /\ c.job = j /\ HeldClaim(w, c)
            /\ <<pc[w], batch[w], current[w]>>' # <<pc[w], batch[w], current[w]>>
      BY <2>3 DEF IsSettled
    <3>2. <<w, j>> \notin expired
      BY <1>1, <3>1 DEF ClaimInv, Identified
    <3> QED BY <3>1, <3>2 DEF OwnerActs, HeldClaim, Believed
  <2>4. CASE IsErased(j)
    BY <2>4 DEF IsErased, Absent
  <2> QED BY <2>1, <2>2, <2>3, <2>4
<1> QED BY <1>1, QueueInvariant, PTL DEF Spec, OwnAttemptOnly

\* What is done stays done: a finished row is written only by a redaction, or,
\* if it is dead, by the merchant's Retry, which restores the whole budget.
THEOREM FinishedStays == Spec => FinishedIsFinal
<1>1. ASSUME BudgetInv, ColumnsAgree, [Next]_vars
      PROVE  [\A j \in Jobs :
                row[j].finished /\ row'[j] # row[j] =>
                  \/ row'[j].status = "deleted"
                  \/ row[j].status = "DEAD" /\ row'[j].status = "PENDING" /\ row'[j].attempts = 0]_vars
  <2> SUFFICES ASSUME NEW j \in Jobs, row[j].finished, row'[j] # row[j]
               PROVE  \/ row'[j].status = "deleted"
                      \/ row[j].status = "DEAD" /\ row'[j].status = "PENDING" /\ row'[j].attempts = 0
    OBVIOUS
  <2>1. row[j] \in Row /\ row[j].status \in {"SUCCEEDED", "DEAD"}
    BY <1>1 DEF BudgetInv, TypeOK, ColumnsAgree
  <2>2. IsRetried(j) \/ IsErased(j)
    BY <1>1, <2>1, RowChanges
       DEF BudgetInv, Changes, Appears, IsReaped, IsSettled, IsClaimed, Waiting, Stale, HeldClaim
  <2>3. CASE IsRetried(j)
    <3>1. row'[j].status = "PENDING" /\ row'[j].attempts = 0
      BY <2>1, <2>3, RowColumns DEF IsRetried
    <3> QED BY <2>1, <2>3, <3>1 DEF IsRetried
  <2>4. CASE IsErased(j)
    BY <2>4 DEF IsErased, Absent
  <2> QED BY <2>2, <2>3, <2>4
<1> QED BY <1>1, QueueInvariant, PTL DEF Spec, FinishedIsFinal

-----------------------------------------------------------------------------
(* The Job table and its workers implement LeasedQueue.                    *)
(*                                                                         *)
(* A row's phase and the attempts spent are functions of the row.  A lease *)
(* is a claim that heldClaim would accept: ClaimInv says so, and with it   *)
(* every late outcome is a stutter.                                        *)

-----------------------------------------------------------------------------
(* The mapping, a row and a claim at a time.                               *)

PhaseIn(r) ==
  CASE r.status = "none" -> "none"
    [] Waiting(r) -> "waiting"
    [] r.status = "RUNNING" -> "out"
    [] r.status = "SUCCEEDED" -> "done"
    [] r.status = "DEAD" -> "dead"
    [] OTHER -> "removed"

LEMMA PhasesByRow ==
  /\ PhaseOf = [j \in Jobs |-> PhaseIn(row[j])]
  /\ PhaseOf' = [j \in Jobs |-> PhaseIn(row'[j])]
BY DEF PhaseOf, PhaseIn

LEMMA PhaseByStatus ==
  ASSUME NEW r
  PROVE  /\ r.status = "none" => PhaseIn(r) = "none"
         /\ r.status \in {"PENDING", "FAILED"} => PhaseIn(r) = "waiting"
         /\ r.status = "RUNNING" => PhaseIn(r) = "out"
         /\ r.status = "SUCCEEDED" => PhaseIn(r) = "done"
         /\ r.status = "DEAD" => PhaseIn(r) = "dead"
         /\ r.status = "deleted" => PhaseIn(r) = "removed"
BY DEF PhaseIn, Waiting

\* What a statement over the rows of S does to the phases and to the attempts.
LEMMA RowsMove ==
  ASSUME NEW S \in SUBSET Jobs, NEW ph,
         \A j \in Jobs : IF j \in S THEN PhaseIn(row'[j]) = ph ELSE row'[j] = row[j]
  PROVE  Leased!Move(S, ph)
BY PhasesByRow DEF Leased!Move

LEMMA SpentBecomes ==
  ASSUME NEW new \in [Jobs -> Nat], \A j \in Jobs : row'[j].attempts = new[j]
  PROVE  SpentOn' = new
BY DEF SpentOn

LEMMA RowsKept ==
  ASSUME row' = row
  PROVE  UNCHANGED <<PhaseOf, SpentOn>>
BY DEF PhaseOf, SpentOn

\* A worker has a lease on the job of a claim it still acts on and still holds.
Has(w, j) == j \in Believed(w) /\ <<w, j>> \notin expired

LEMMA LeaseMeans ==
  \A w \in Workers, j \in Jobs : <<w, j>> \in Leases <=> Has(w, j)
BY DEF Leases, Has

LEMMA LeasesBecome ==
  ASSUME NEW X \in SUBSET (Workers \X Jobs),
         \A w \in Workers, j \in Jobs : Has(w, j)' <=> <<w, j>> \in X
  PROVE  Leases' = X
<1>1. \A l \in Workers \X Jobs : l[1] \in Workers /\ l[2] \in Jobs /\ l = <<l[1], l[2]>>
  OBVIOUS
<1>2. \A l \in Workers \X Jobs : l \in Leases' <=> Has(l[1], l[2])'
  BY DEF Leases, Has
<1>3. Leases' \subseteq Workers \X Jobs
  BY DEF Leases
<1>4. \A l \in Workers \X Jobs : l \in Leases' <=> l \in X
  BY <1>1, <1>2
<1> QED BY <1>3, <1>4

LEMMA LeasesKept ==
  ASSUME \A w \in Workers, j \in Jobs : Has(w, j)' <=> Has(w, j)
  PROVE  Leases' = Leases
<1>1. Leases \in SUBSET (Workers \X Jobs)
  BY DEF Leases
<1> QED BY <1>1, LeaseMeans, LeasesBecome

\* A row that is not in the table has nothing spent on it.
BlankRows == \A j \in Jobs : row[j].status = "none" => row[j].attempts = 0

LEMMA BlankStep ==
  ASSUME TypeOK, BlankRows, [Next]_vars
  PROVE  BlankRows'
<1> SUFFICES ASSUME NEW j \in Jobs, row'[j].status = "none"
             PROVE  row'[j].attempts = 0
  BY DEF BlankRows
<1>1. row[j] \in Row /\ Changes(j)
  BY RowChanges DEF TypeOK
<1>2. row'[j] = row[j]
  BY <1>1, RowColumns
     DEF Changes, Appears, IsRetried, IsReaped, IsClaimed, IsSettled, IsErased, Inserted, Absent
<1> QED BY <1>2 DEF BlankRows

MappingInv == BudgetInv /\ ClaimInv /\ BlankRows

LEMMA MappingInvariant == Spec => []MappingInv
<1>1. Init => BlankRows
  BY DEF Init, Absent, BlankRows
<1>2. BudgetInv /\ BlankRows /\ [Next]_vars => BlankRows'
  BY BlankStep DEF BudgetInv
<1> QED BY <1>1, <1>2, BudgetInit, BudgetStep, ClaimInit, ClaimStep, PTL DEF Spec, MappingInv

-----------------------------------------------------------------------------
(* The steps of a worker that is done with a claim.                        *)

\* What a worker's leases are when it moves on: without c, or none.
LEMMA LeasesLeft ==
  ASSUME TypeOK, ClaimInv, NEW w \in Workers, NEW c \in batch[w] \cup current[w],
         c \in current[w] \/ current[w] = {}, Proceed(w, c) \/ Abandon(w)
  PROVE  \/ Proceed(w, c) /\ Leases' = Leases \ ({w} \X ({} \cup {c.job}))
         \/ Abandon(w) /\ Leases' = Leases \ ({w} \X Jobs)
<1>1. c.job \in Jobs /\ Shape(w)
  BY DEF TypeOK, Claim, ClaimInv
<1>2. ASSUME NEW v \in Workers, v # w, NEW j \in Jobs
      PROVE  Has(v, j)' <=> Has(v, j)
  <2>1. batch'[v] = batch[v] /\ current'[v] = current[v]
    BY <1>2 DEF Proceed, Abandon, TypeOK
  <2>2. <<v, j>> \in expired' <=> <<v, j>> \in expired
    BY <1>2 DEF Proceed, Abandon
  <2> QED BY <2>1, <2>2 DEF Has, Believed
<1>3. CASE Proceed(w, c)
  <2>1. batch'[w] \cup current'[w] = (batch[w] \cup current[w]) \ {c}
    <3>1. batch'[w] = batch[w] \ {c} /\ current'[w] = {}
      BY <1>3 DEF Proceed, TypeOK
    <3>2. current[w] \subseteq {c}
      BY <1>1 DEF Shape
    <3> QED BY <3>1, <3>2
  <2>2. \A j \in Jobs : <<w, j>> \in expired' <=> <<w, j>> \in expired /\ j # c.job
    BY <1>3, <1>1 DEF Proceed
  <2>3. \A j \in Jobs : Has(w, j)' <=> Has(w, j) /\ j # c.job
    <3>1. \A j \in Jobs : j \in Believed(w)' <=> j \in Believed(w) /\ j # c.job
      BY <1>1, <2>1 DEF Believed, Shape
    <3> QED BY <2>2, <3>1 DEF Has
  <2>4. Leases' = Leases \ ({w} \X ({} \cup {c.job}))
    <3> DEFINE X == Leases \ ({w} \X ({} \cup {c.job}))
    <3>1. X \in SUBSET (Workers \X Jobs)
      BY DEF Leases
    <3>2. \A v \in Workers, j \in Jobs : Has(v, j)' <=> <<v, j>> \in X
      BY <1>2, <2>3, LeaseMeans
    <3> HIDE DEF X
    <3>3. Leases' = X
      BY <3>1, <3>2, LeasesBecome
    <3> QED BY <3>3 DEF X
  <2> QED BY <1>3, <2>4
<1>4. CASE Abandon(w)
  <2>1. batch'[w] = {} /\ current'[w] = {}
    BY <1>4 DEF Abandon, TypeOK
  <2>2. \A j \in Jobs : ~Has(w, j)'
    BY <2>1 DEF Has, Believed
  <2>3. Leases' = Leases \ ({w} \X Jobs)
    <3> DEFINE X == Leases \ ({w} \X Jobs)
    <3>1. X \in SUBSET (Workers \X Jobs)
      BY DEF Leases
    <3>2. \A v \in Workers, j \in Jobs : Has(v, j)' <=> <<v, j>> \in X
      BY <1>2, <2>2, LeaseMeans
    <3> HIDE DEF X
    <3>3. Leases' = X
      BY <3>1, <3>2, LeasesBecome
    <3> QED BY <3>3 DEF X
  <2> QED BY <1>4, <2>3
<1> QED BY <1>3, <1>4

\* The holder of j decides, and forgets the leases on S.
Decides(w, j, S) == Leased!Decide(w, j, S) \/ Leased!Refund(w, j, S)

LEMMA DecidesIsStep ==
  ASSUME NEW w \in Workers, NEW j \in Jobs, NEW S \in SUBSET Jobs,
         Decides(w, j, S) \/ Leased!Forget(w, S)
  PROVE  Leased!Next
BY DEF Decides, Leased!Next

\* What the holder of c may write: an end, another try if one is left, or the
\* attempt given back.
Allowed(c, r) ==
  LET old == row[c.job]
  IN  \/ /\ r.attempts = old.attempts
         /\ \/ PhaseIn(r) \in {"done", "dead"}
            \/ PhaseIn(r) = "waiting" /\ old.attempts < MaxAttempts[c.job]
      \/ r.attempts = old.attempts - 1 /\ PhaseIn(r) = "waiting"

LEMMA WriteDecides ==
  ASSUME MappingInv, NEW w \in Workers, NEW c \in batch[w] \cup current[w], NEW r \in Row,
         row' = [row EXCEPT ![c.job] = r], HeldClaim(w, c), Allowed(c, r),
         NEW S \in SUBSET Jobs, Leases' = Leases \ ({w} \X (S \cup {c.job}))
  PROVE  Decides(w, c.job, S)
<1>1. /\ c.job \in Jobs /\ row \in [Jobs -> Row]
      /\ \A j \in Jobs : row[j].attempts \in Nat
  BY DEF MappingInv, BudgetInv, TypeOK, Claim, Row
<1>2. row'[c.job] = r /\ \A j \in Jobs \ {c.job} : row'[j] = row[j]
  BY <1>1
<1>3. <<w, c.job>> \in Leases
  <2>1. c.job \in Believed(w)
    BY DEF Believed
  <2>2. <<w, c.job>> \notin expired
    BY DEF MappingInv, ClaimInv, Identified
  <2> QED BY <1>1, <2>1, <2>2, LeaseMeans DEF Has
<1>4. Leased!Move({c.job}, PhaseIn(r))
  BY <1>1, <1>2, RowsMove
<1>5. SpentOn = [j \in Jobs |-> row[j].attempts] /\ SpentOn' = [j \in Jobs |-> row'[j].attempts]
  BY DEF SpentOn
<1>6. CASE r.attempts = row[c.job].attempts
  <2>1. UNCHANGED SpentOn
    BY <1>1, <1>2, <1>5, <1>6
  <2>2. SpentOn[c.job] = row[c.job].attempts
    BY <1>1, <1>5
  <2>3. Leased!Decide(w, c.job, S)
    BY <1>1, <1>3, <1>4, <1>6, <2>1, <2>2 DEF Allowed, Leased!Decide
  <2> QED BY <2>3 DEF Decides
<1>7. CASE r.attempts = row[c.job].attempts - 1 /\ PhaseIn(r) = "waiting"
  <2>1. SpentOn' = [SpentOn EXCEPT ![c.job] = @ - 1]
    BY <1>1, <1>2, <1>5, <1>7
  <2>2. Leased!Refund(w, c.job, S)
    BY <1>3, <1>4, <1>7, <2>1 DEF Leased!Refund
  <2> QED BY <2>2 DEF Decides
<1> QED BY <1>6, <1>7 DEF Allowed

\* An outcome is decided by the holder, or is nothing: refused, or too late.
LEMMA OutcomeStep ==
  ASSUME MappingInv, NEW w \in Workers, NEW c \in batch[w] \cup current[w],
         c \in current[w] \/ current[w] = {}, NEW r \in Row, NEW db \in DbResult,
         Write(w, c, r, db), HeldClaim(w, c) => Allowed(c, r),
         IF db = "ok" THEN Proceed(w, c) ELSE Abandon(w)
  PROVE  [Leased!Next]_(Leased!vars)
<1>1. TypeOK /\ ClaimInv /\ c.job \in Jobs
  BY DEF MappingInv, BudgetInv, TypeOK, Claim
<1>2. CASE HeldClaim(w, c) /\ db # "refused"
  <2>1. row' = [row EXCEPT ![c.job] = r]
    BY <1>2 DEF Write
  <2>2. PICK S \in SUBSET Jobs : Leases' = Leases \ ({w} \X (S \cup {c.job}))
    <3>1. Jobs \cup {c.job} = Jobs
      BY <1>1
    <3>2. CASE Leases' = Leases \ ({w} \X ({} \cup {c.job}))
      <4>1. {} \in SUBSET Jobs
        OBVIOUS
      <4> QED BY <3>2, <4>1
    <3>3. CASE Leases' = Leases \ ({w} \X Jobs)
      <4>1. Jobs \in SUBSET Jobs /\ Leases' = Leases \ ({w} \X (Jobs \cup {c.job}))
        BY <3>1, <3>3
      <4> QED BY <4>1
    <3> QED BY <1>1, <3>2, <3>3, LeasesLeft
  <2>3. Decides(w, c.job, S)
    BY <1>2, <2>1, <2>2, WriteDecides
  <2> QED BY <1>1, <2>3, DecidesIsStep
<1>3. CASE ~(HeldClaim(w, c) /\ db # "refused")
  <2>1. UNCHANGED <<PhaseOf, SpentOn>>
    BY <1>3, RowsKept DEF Write
  <2>2. CASE Abandon(w) /\ Leases' = Leases \ ({w} \X Jobs)
    <3>1. Leased!Forget(w, Jobs)
      BY <2>1, <2>2 DEF Leased!Forget
    <3>2. Jobs \in SUBSET Jobs
      OBVIOUS
    <3> QED BY <1>1, <3>1, <3>2, DecidesIsStep
  <2>3. CASE Proceed(w, c) /\ Leases' = Leases \ ({w} \X ({} \cup {c.job}))
    <3>1. CASE <<w, c.job>> \in expired
      <4>1. <<w, c.job>> \notin Leases
        BY <1>1, <3>1, LeaseMeans DEF Has
      <4>2. Leases' = Leases
        BY <2>3, <4>1
      <4> QED BY <2>1, <4>2 DEF Leased!vars
    <3>2. CASE <<w, c.job>> \notin expired
      <4>1. Leased!Forget(w, {c.job})
        BY <2>1, <2>3 DEF Leased!Forget
      <4> QED BY <1>1, <4>1, DecidesIsStep
    <3> QED BY <3>1, <3>2
  <2> QED BY <1>1, <2>2, <2>3, LeasesLeft
<1> QED BY <1>2, <1>3

\* What the handlers' outcomes write is allowed to the holder of the claim.
LEMMA OutcomesAllowed ==
  ASSUME MappingInv, NEW w \in Workers, NEW c \in batch[w] \cup current[w], HeldClaim(w, c)
  PROVE  /\ Allowed(c, Completed(row[c.job]))
         /\ Allowed(c, Rescheduled(row[c.job]))
         /\ \A permanent : Allowed(c, FailedAs(row[c.job], c, permanent))
<1>1. c.job \in Jobs /\ row[c.job] \in Row /\ MaxAttempts[c.job] \in Nat
  BY ConstantsAssumption DEF MappingInv, BudgetInv, TypeOK, Claim
<1>2. Allowed(c, Completed(row[c.job]))
  BY <1>1, RowColumns, PhaseByStatus DEF Allowed
<1>3. Allowed(c, Rescheduled(row[c.job]))
  BY <1>1, RowColumns, PhaseByStatus DEF Allowed
<1>4. Allowed(c, DeadLettered(row[c.job]))
  BY <1>1, RowColumns, PhaseByStatus DEF Allowed
<1>5. row[c.job].attempts < MaxAttempts[c.job] => Allowed(c, ToRetry(row[c.job]))
  BY <1>1, RowColumns, PhaseByStatus DEF Allowed
<1>6. \A permanent : ~Exhausted(c, permanent) => row[c.job].attempts < MaxAttempts[c.job]
  BY <1>1 DEF Exhausted, HeldClaim, Row
<1>7. \A permanent : Allowed(c, FailedAs(row[c.job], c, permanent))
  BY <1>4, <1>5, <1>6 DEF FailedAs
<1> QED BY <1>2, <1>3, <1>7

\* completeJob: if its answer is lost the claim has ended all the same, and if
\* it is refused the worker still has it.
LEMMA SuccessStep ==
  ASSUME MappingInv, NEW w \in Workers, NEW c \in current[w], NEW db \in DbResult,
         HandlerSucceeds(w, c, db)
  PROVE  [Leased!Next]_(Leased!vars)
<1>1. TypeOK /\ ClaimInv /\ c.job \in Jobs /\ row[c.job] \in Row /\ Shape(w)
  BY DEF MappingInv, BudgetInv, TypeOK, Claim, ClaimInv
<1> DEFINE r == Completed(row[c.job])
<1>2. r \in Row /\ Write(w, c, r, db) /\ (HeldClaim(w, c) => Allowed(c, r))
  <2>1. r \in Row
    BY <1>1, RowWrites
  <2>2. HeldClaim(w, c) => Allowed(c, r)
    BY OutcomesAllowed
  <2> QED BY <1>1, <2>1, <2>2 DEF HandlerSucceeds
<1> HIDE DEF r
<1>3. CASE db = "ok"
  <2>1. Proceed(w, c)
    BY <1>3 DEF HandlerSucceeds
  <2> QED BY <1>2, <1>3, <2>1, OutcomeStep
<1>4. CASE db # "ok"
  <2>1. /\ UNCHANGED <<batch, current>>
        /\ expired' = IF db = "reply_lost" THEN expired \cup {<<w, c.job>>} ELSE expired
    BY <1>4 DEF HandlerSucceeds
  <2>2. CASE HeldClaim(w, c) /\ db = "reply_lost"
    <3>1. row' = [row EXCEPT ![c.job] = r]
      BY <1>2, <2>2 DEF Write
    <3>2. Leases' = Leases \ ({w} \X ({} \cup {c.job}))
      <4> DEFINE X == Leases \ ({w} \X ({} \cup {c.job}))
      <4>1. X \in SUBSET (Workers \X Jobs)
        BY DEF Leases
      <4>2. \A v \in Workers, j \in Jobs : Has(v, j)' <=> Has(v, j) /\ ~(v = w /\ j = c.job)
        BY <2>1, <2>2 DEF Has, Believed
      <4>3. \A v \in Workers, j \in Jobs : Has(v, j)' <=> <<v, j>> \in X
        BY <4>2, LeaseMeans
      <4> HIDE DEF X
      <4>4. Leases' = X
        BY <4>1, <4>3, LeasesBecome
      <4> QED BY <4>4 DEF X
    <3>3. {} \in SUBSET Jobs
      OBVIOUS
    <3>4. Decides(w, c.job, {})
      BY <1>2, <2>2, <3>1, <3>2, <3>3, WriteDecides
    <3> QED BY <1>1, <3>3, <3>4, DecidesIsStep
  <2>3. CASE ~(HeldClaim(w, c) /\ db = "reply_lost")
    <3>1. row' = row
      BY <1>2, <1>4, <2>3 DEF Write, DbResult
    <3>2. ASSUME NEW v \in Workers, NEW j \in Jobs
          PROVE  Has(v, j)' <=> Has(v, j)
      <4>1. <<v, j>> \in expired' <=> <<v, j>> \in expired
        <5>1. CASE HeldClaim(w, c)
          BY <2>1, <2>3, <5>1
        <5>2. CASE ~HeldClaim(w, c)
          <6>1. <<w, c.job>> \in expired
            BY <1>1, <5>2 DEF ClaimInv, Identified
          <6> QED BY <2>1, <6>1
        <5> QED BY <5>1, <5>2
      <4> QED BY <2>1, <4>1 DEF Has, Believed
    <3> QED BY <3>1, <3>2, RowsKept, LeasesKept DEF Leased!vars
  <2> QED BY <2>2, <2>3
<1> QED BY <1>3, <1>4

-----------------------------------------------------------------------------
(* The other steps.                                                        *)

\* Claims keep their leases unless they expire.
LEMMA LeasesByClaims ==
  ASSUME UNCHANGED <<batch, current>>
  PROVE  /\ UNCHANGED expired => Leases' = Leases
         /\ \A S \in SUBSET Jobs : expired' = TakenAway(S) => Leased!Drop(S)
<1>1. UNCHANGED expired => Leases' = Leases
  BY LeasesKept DEF Has, Believed
<1>2. ASSUME NEW S \in SUBSET Jobs, expired' = TakenAway(S)
      PROVE  Leased!Drop(S)
  <2> DEFINE X == {l \in Leases : l[2] \notin S}
  <2>1. X \in SUBSET (Workers \X Jobs)
    BY DEF Leases
  <2>2. \A w \in Workers, j \in Jobs : Has(w, j)' <=> Has(w, j) /\ j \notin S
    BY <1>2 DEF Has, Believed, TakenAway
  <2>3. \A w \in Workers, j \in Jobs : Has(w, j)' <=> <<w, j>> \in X
    BY <2>2, LeaseMeans
  <2> HIDE DEF X
  <2>4. Leases' = X
    BY <2>1, <2>3, LeasesBecome
  <2> QED BY <2>4 DEF X, Leased!Drop
<1> QED BY <1>1, <1>2

LEMMA AppStep ==
  ASSUME MappingInv, NEW j \in Jobs, Enqueue(j) \/ Retry(j) \/ BecomeDue(j) \/ LockGoesStale(j)
  PROVE  [Leased!Next]_(Leased!vars)
<1>1. row \in [Jobs -> Row] /\ row[j] \in Row
  BY DEF MappingInv, BudgetInv, TypeOK
<1>2. Leases' = Leases
  BY LeasesByClaims DEF Enqueue, Retry, BecomeDue, LockGoesStale, workerVars
<1>3. CASE BecomeDue(j) \/ LockGoesStale(j)
  <2>1. row' = row
    BY <1>3 DEF BecomeDue, LockGoesStale
  <2> QED BY <1>2, <2>1, RowsKept DEF Leased!vars
<1>4. SpentOn = [k \in Jobs |-> row[k].attempts] /\ SpentOn' = [k \in Jobs |-> row'[k].attempts]
  BY DEF SpentOn
<1>5. CASE Enqueue(j)
  <2>1. row' = [row EXCEPT ![j] = Inserted] /\ row[j].status = "none"
    BY <1>5 DEF Enqueue
  <2>2. Leased!Move({j}, "waiting")
    <3>1. PhaseIn(Inserted) = "waiting"
      BY PhaseByStatus DEF Inserted
    <3> QED BY <1>1, <2>1, <3>1, RowsMove
  <2>3. UNCHANGED SpentOn
    BY <1>1, <1>4, <2>1 DEF Inserted, MappingInv, BlankRows
  <2>4. PhaseOf[j] = "none"
    BY <2>1, PhasesByRow, PhaseByStatus
  <2> QED BY <1>2, <2>2, <2>3, <2>4 DEF Leased!Submit, Leased!Next
<1>6. CASE Retry(j)
  <2>1. row' = [row EXCEPT ![j] = Requeued(row[j])] /\ row[j].status \in {"FAILED", "DEAD"}
    BY <1>6 DEF Retry
  <2>2. Requeued(row[j]).status = "PENDING" /\ Requeued(row[j]).attempts = 0
    BY <1>1, RowColumns
  <2>3. Leased!Move({j}, "waiting")
    <3>1. PhaseIn(Requeued(row[j])) = "waiting"
      BY <2>2, PhaseByStatus
    <3> QED BY <1>1, <2>1, <3>1, RowsMove
  <2>4. SpentOn' = [SpentOn EXCEPT ![j] = 0]
    BY <1>1, <1>4, <2>1, <2>2
  <2>5. PhaseOf[j] \in {"waiting", "dead"}
    BY <2>1, PhasesByRow, PhaseByStatus
  <2> QED BY <1>2, <2>3, <2>4, <2>5 DEF Leased!Renew, Leased!Next
<1> QED BY <1>3, <1>5, <1>6

\* The reaper ends the attempts of S: no phase but "out" is touched.
LEMMA ReapStep ==
  ASSUME MappingInv, NEW w \in Workers, ReapDead(w) \/ ReapRelease(w)
  PROVE  Leased!Next
<1>1. \A j \in Jobs : row[j] \in Row /\ row[j].attempts \in Nat /\ MaxAttempts[j] \in Nat
  BY ConstantsAssumption DEF MappingInv, BudgetInv, TypeOK, Row
<1>2. SpentOn = [j \in Jobs |-> row[j].attempts] /\ SpentOn' = [j \in Jobs |-> row'[j].attempts]
  BY DEF SpentOn
<1>3. CASE ReapDead(w)
  <2> DEFINE S == {j \in Jobs : Stale(j) /\ Spent(j)}
  <2>1. /\ row' = [j \in Jobs |-> IF j \in S THEN DeadLettered(row[j]) ELSE row[j]]
        /\ UNCHANGED <<batch, current>> /\ expired' = TakenAway(S)
    BY <1>3 DEF ReapDead
  <2>2. \A j \in S : /\ j \in Jobs /\ row[j].status = "RUNNING"
                     /\ row[j].attempts >= MaxAttempts[j]
    BY DEF Stale, Spent
  <2>3. S \in SUBSET Jobs
    OBVIOUS
  <2> HIDE DEF S
  <2>4. Leased!Move(S, "dead")
    <3>1. \A j \in S : PhaseIn(DeadLettered(row[j])) = "dead"
      BY <1>1, <2>2, RowColumns, PhaseByStatus
    <3> QED BY <2>1, <2>3, <3>1, RowsMove
  <2>5. UNCHANGED SpentOn
    <3>1. \A j \in Jobs : row'[j].attempts = row[j].attempts
      BY <1>1, <2>1, RowColumns
    <3> QED BY <1>2, <3>1
  <2>6. Leased!Drop(S)
    BY <2>1, <2>3, LeasesByClaims
  <2>7. \A j \in S : PhaseOf[j] = "out" /\ SpentOn[j] >= MaxAttempts[j]
    BY <1>2, <2>2, PhasesByRow, PhaseByStatus
  <2>8. Leased!Expire(S, "dead")
    BY <2>4, <2>5, <2>6, <2>7 DEF Leased!Expire
  <2> QED BY <2>3, <2>8 DEF Leased!Next
<1>4. CASE ReapRelease(w)
  <2> DEFINE S == {j \in Jobs : Stale(j) /\ ~Spent(j)}
  <2>1. /\ row' = [j \in Jobs |-> IF j \in S THEN ToRetry(row[j]) ELSE row[j]]
        /\ UNCHANGED <<batch, current>> /\ expired' = TakenAway(S)
    BY <1>4 DEF ReapRelease
  <2>2. \A j \in S : /\ j \in Jobs /\ row[j].status = "RUNNING"
                     /\ row[j].attempts < MaxAttempts[j]
    BY <1>1 DEF Stale, Spent
  <2>3. S \in SUBSET Jobs
    OBVIOUS
  <2> HIDE DEF S
  <2>4. Leased!Move(S, "waiting")
    <3>1. \A j \in S : PhaseIn(ToRetry(row[j])) = "waiting"
      BY <1>1, <2>2, RowColumns, PhaseByStatus
    <3> QED BY <2>1, <2>3, <3>1, RowsMove
  <2>5. UNCHANGED SpentOn
    <3>1. \A j \in Jobs : row'[j].attempts = row[j].attempts
      BY <1>1, <2>1, RowColumns
    <3> QED BY <1>2, <3>1
  <2>6. Leased!Drop(S)
    BY <2>1, <2>3, LeasesByClaims
  <2>7. \A j \in S : PhaseOf[j] = "out" /\ SpentOn[j] < MaxAttempts[j]
    BY <1>2, <2>2, PhasesByRow, PhaseByStatus
  <2>8. Leased!Expire(S, "waiting")
    BY <2>4, <2>5, <2>6, <2>7 DEF Leased!Expire
  <2> QED BY <2>3, <2>8 DEF Leased!Next
<1> QED BY <1>3, <1>4

\* claimJobs: the attempts are paid for, whether the worker learns of it or not.
LEMMA ClaimIsGrant ==
  ASSUME MappingInv, NEW w \in Workers, NEW db \in DbResult, ClaimJobs(w, db)
  PROVE  Leased!Next
<1>1. /\ \A j \in Jobs : row[j] \in Row /\ row[j].attempts \in Nat
      /\ due \subseteq Jobs /\ batch \in [Workers -> SUBSET Claim] /\ Shape(w)
  BY DEF MappingInv, BudgetInv, TypeOK, Row, ClaimInv
<1>2. PICK S \in SUBSET Claimable :
        /\ row' = [j \in Jobs |-> IF j \in S THEN Claimed(row[j], w) ELSE row[j]]
        /\ batch' = [batch EXCEPT ![w] =
             IF db = "ok" THEN {[job |-> j, attempts |-> row[j].attempts + 1] : j \in S} ELSE {}]
  BY DEF ClaimJobs
<1>3. S \in SUBSET Jobs /\ \A j \in S : Waiting(row[j]) /\ row[j].attempts < MaxAttempts[j]
  BY <1>1 DEF Claimable
<1>4. SpentOn = [j \in Jobs |-> row[j].attempts] /\ SpentOn' = [j \in Jobs |-> row'[j].attempts]
  BY DEF SpentOn
<1>5. \A j \in S : PhaseOf[j] = "waiting" /\ SpentOn[j] < MaxAttempts[j]
  BY <1>3, <1>4, PhasesByRow, PhaseByStatus DEF Waiting
<1>6. Leased!Move(S, "out")
  <2>1. \A j \in S : PhaseIn(Claimed(row[j], w)) = "out"
    BY <1>1, <1>3, RowColumns, PhaseByStatus
  <2> QED BY <1>2, <1>3, <2>1, RowsMove
<1>7. SpentOn' = [j \in Jobs |-> IF j \in S THEN SpentOn[j] + 1 ELSE SpentOn[j]]
  <2>1. \A j \in Jobs : row'[j].attempts = IF j \in S THEN row[j].attempts + 1 ELSE row[j].attempts
    BY <1>1, <1>2, RowColumns
  <2> QED BY <1>3, <1>4, <2>1
<1>8. /\ batch[w] = {} /\ current[w] = {} /\ UNCHANGED <<current, expired>>
      /\ \A j \in Jobs : <<w, j>> \notin expired
  BY <1>1 DEF ClaimJobs, ReadyToClaim, Shape
<1>9. Leases' = IF db = "ok" THEN Leases \cup ({w} \X S) ELSE Leases
  <2> DEFINE X == IF db = "ok" THEN Leases \cup ({w} \X S) ELSE Leases
  <2>1. X \in SUBSET (Workers \X Jobs)
    BY <1>3 DEF Leases
  <2>2. ASSUME NEW v \in Workers, v # w, NEW j \in Jobs
        PROVE  Has(v, j)' <=> Has(v, j)
    BY <1>1, <1>2, <1>8, <2>2 DEF Has, Believed
  <2>3. \A j \in Jobs : ~Has(w, j)
    BY <1>8 DEF Has, Believed
  <2>4. \A j \in Jobs : Has(w, j)' <=> db = "ok" /\ j \in S
    <3>1. batch'[w] = IF db = "ok" THEN {[job |-> j, attempts |-> row[j].attempts + 1] : j \in S}
                                   ELSE {}
      BY <1>1, <1>2
    <3>2. Believed(w)' = {c.job : c \in batch'[w]}
      BY <1>8 DEF Believed
    <3>3. \A j \in Jobs : j \in Believed(w)' <=> db = "ok" /\ j \in S
      <4>1. CASE db = "ok"
        <5>1. \A c \in batch'[w] : c.job \in S
          BY <3>1, <4>1
        <5>2. \A j \in S : [job |-> j, attempts |-> row[j].attempts + 1] \in batch'[w]
          BY <3>1, <4>1
        <5> QED BY <3>2, <4>1, <5>1, <5>2
      <4>2. CASE db # "ok"
        BY <3>1, <3>2, <4>2
      <4> QED BY <4>1, <4>2
    <3> QED BY <1>8, <3>3 DEF Has
  <2>5. \A v \in Workers, j \in Jobs : Has(v, j)' <=> <<v, j>> \in X
    BY <2>2, <2>3, <2>4, LeaseMeans
  <2> HIDE DEF X
  <2>6. Leases' = X
    BY <2>1, <2>5, LeasesBecome
  <2> QED BY <2>6 DEF X
<1>10. Leased!Grant(w, S, db = "ok")
  BY <1>5, <1>6, <1>7, <1>9 DEF Leased!Grant
<1>11. \E told \in BOOLEAN : Leased!Grant(w, S, told)
  BY <1>10
<1> QED BY <1>3, <1>11 DEF Leased!Next

LEMMA RedactIsRemove ==
  ASSUME MappingInv, NEW w \in Workers, NEW c \in current[w], NEW S \in SUBSET Jobs, Redact(w, c, S)
  PROVE  Leased!Next
<1>1. \A j \in Jobs : row[j] \in Row
  BY DEF MappingInv, BudgetInv, TypeOK
<1>2. /\ row' = [j \in Jobs |-> IF j \in S THEN Absent("deleted") ELSE row[j]]
      /\ UNCHANGED <<batch, current>> /\ expired' = TakenAway(S)
      /\ \A j \in S : Exists(j)
  BY DEF Redact, workerVars
<1>3. Leased!Move(S, "removed")
  <2>1. PhaseIn(Absent("deleted")) = "removed"
    BY PhaseByStatus DEF Absent
  <2> QED BY <1>2, <2>1, RowsMove
<1>4. SpentOn' = [j \in Jobs |-> IF j \in S THEN 0 ELSE SpentOn[j]]
  BY <1>2 DEF SpentOn, Absent
<1>5. Leased!Drop(S)
  BY <1>2, LeasesByClaims
<1>6. \A j \in S : PhaseOf[j] # "none"
  <2>1. \A j \in S : row[j].status \in {"PENDING", "FAILED", "RUNNING", "SUCCEEDED", "DEAD"}
    BY <1>1, <1>2 DEF Exists, Row, Status
  <2> QED BY <2>1, PhasesByRow, PhaseByStatus
<1> QED BY <1>3, <1>4, <1>5, <1>6 DEF Leased!Remove, Leased!Next

\* The worker's own moves: it starts, ends a tick, is told to stop or takes up
\* a claim, and keeps its leases; or it crashes and loses them.
LEMMA LoopStep ==
  ASSUME MappingInv, NEW w \in Workers,
         \/ Start(w) \/ TickRefused(w) \/ EndTick(w) \/ Stop(w) \/ Crash(w)
         \/ \E c \in batch[w] : StartHandler(w, c)
  PROVE  [Leased!Next]_(Leased!vars)
<1>1. TypeOK /\ Shape(w)
  BY DEF MappingInv, BudgetInv, ClaimInv
<1>2. UNCHANGED <<PhaseOf, SpentOn>>
  BY RowsKept DEF Start, TickRefused, EndTick, Stop, Crash, StartHandler, tableVars
<1>3. CASE Start(w) \/ TickRefused(w) \/ EndTick(w) \/ Stop(w)
  <2>1. Leases' = Leases
    BY <1>3, LeasesByClaims DEF Start, TickRefused, EndTick, Stop
  <2> QED BY <1>2, <2>1 DEF Leased!vars
<1>4. ASSUME NEW c \in batch[w], StartHandler(w, c)
      PROVE  [Leased!Next]_(Leased!vars)
  <2>1. current[w] = {} /\ UNCHANGED expired
    BY <1>1, <1>4 DEF StartHandler, Shape
  <2>2. \A v \in Workers : batch'[v] \cup current'[v] = batch[v] \cup current[v]
    <3>1. /\ batch'[w] = batch[w] \ {c} /\ current'[w] = {c}
          /\ \A v \in Workers \ {w} : batch'[v] = batch[v] /\ current'[v] = current[v]
      BY <1>1, <1>4 DEF StartHandler, TypeOK
    <3> QED BY <2>1, <3>1
  <2>3. Leases' = Leases
    BY <2>1, <2>2, LeasesKept DEF Has, Believed
  <2> QED BY <1>2, <2>3 DEF Leased!vars
<1>5. CASE Crash(w)
  <2>1. ASSUME NEW v \in Workers, v # w, NEW j \in Jobs
        PROVE  Has(v, j)' <=> Has(v, j)
    BY <1>1, <1>5, <2>1 DEF Crash, TypeOK, Has, Believed
  <2>2. \A j \in Jobs : ~Has(w, j)'
    BY <1>1, <1>5 DEF Crash, TypeOK, Has, Believed
  <2>3. Leases' = Leases \ ({w} \X Jobs)
    <3> DEFINE X == Leases \ ({w} \X Jobs)
    <3>1. X \in SUBSET (Workers \X Jobs)
      BY DEF Leases
    <3>2. \A v \in Workers, j \in Jobs : Has(v, j)' <=> <<v, j>> \in X
      BY <2>1, <2>2, LeaseMeans
    <3> HIDE DEF X
    <3>3. Leases' = X
      BY <3>1, <3>2, LeasesBecome
    <3> QED BY <3>3 DEF X
  <2>4. Leased!Forget(w, Jobs)
    BY <1>2, <2>3 DEF Leased!Forget
  <2>5. Jobs \in SUBSET Jobs
    OBVIOUS
  <2> QED BY <2>4, <2>5 DEF Leased!Next
<1> QED BY <1>3, <1>4, <1>5

-----------------------------------------------------------------------------
\* Every step of the table and its workers, faults included, is one step of the
\* leased queue or none: attempts are paid on claim, only the holder of a lease
\* decides what becomes of it, and what it decides too late changes nothing.
THEOREM QueueImplementsLeases == Spec => ImplementsLeasedQueue
<1>1. Init => Leased!Init
  <2> SUFFICES ASSUME Init PROVE Leased!Init
    OBVIOUS
  <2>1. PhaseOf = [j \in Jobs |-> "none"] /\ SpentOn = [j \in Jobs |-> 0]
    BY PhasesByRow, PhaseByStatus DEF Init, Absent, SpentOn
  <2>2. Leases = {}
    BY DEF Init, Leases, Believed
  <2> QED BY <2>1, <2>2 DEF Leased!Init
<1>2. ASSUME MappingInv, [Next]_vars
      PROVE  [Leased!Next]_(Leased!vars)
  <2>1. CASE UNCHANGED vars
    <3>1. UNCHANGED <<PhaseOf, SpentOn>>
      BY <2>1, RowsKept DEF vars
    <3>2. Leases' = Leases
      BY <2>1, LeasesByClaims DEF vars
    <3> QED BY <3>1, <3>2 DEF Leased!vars
  <2>2. ASSUME NEW w \in Workers, NEW c \in current[w], NEW db \in DbResult, HandlerWaits(w, c, db)
        PROVE  [Leased!Next]_(Leased!vars)
    <3> DEFINE r == Rescheduled(row[c.job])
    <3>1. Write(w, c, r, db) /\ (HeldClaim(w, c) => Allowed(c, r))
      BY <2>2, <1>2, OutcomesAllowed DEF HandlerWaits
    <3>2. IF db = "ok" THEN Proceed(w, c) ELSE Abandon(w)
      BY <2>2 DEF HandlerWaits
    <3>3. CASE HeldClaim(w, c)
      <4>1. row[c.job] \in Row /\ row[c.job].attempts >= 1
        <5>1. c.job \in Jobs /\ row[c.job] \in Row /\ WithinBudget(c.job, row[c.job])
          BY <1>2 DEF MappingInv, BudgetInv, TypeOK, Claim, NeverStranded
        <5>2. MaxAttempts[c.job] \in Nat
          BY <5>1, ConstantsAssumption
        <5> QED BY <3>3, <5>1, <5>2 DEF WithinBudget, HeldClaim
      <4>2. r \in Row
        BY <4>1, RowWrites
      <4> HIDE DEF r
      <4> QED BY <1>2, <3>1, <3>2, <4>2, OutcomeStep
    <3>4. CASE ~HeldClaim(w, c)
      <4>1. Completed(row[c.job]) \in Row
        BY <1>2, RowWrites DEF MappingInv, BudgetInv, TypeOK, Claim
      <4>2. Write(w, c, Completed(row[c.job]), db)
        BY <3>1, <3>4 DEF Write
      <4> QED BY <1>2, <3>2, <3>4, <4>1, <4>2, OutcomeStep
    <3> QED BY <3>3, <3>4
  <2>3. ASSUME NEW w \in Workers, NEW c \in batch[w] \cup current[w], NEW permanent, NEW db \in DbResult,
               c \in current[w] \/ pc[w] = "batch", FailJob(w, c, permanent, db)
        PROVE  [Leased!Next]_(Leased!vars)
    <3> DEFINE r == FailedAs(row[c.job], c, permanent)
    <3>1. Write(w, c, r, db) /\ (HeldClaim(w, c) => Allowed(c, r))
      BY <2>3, <1>2, OutcomesAllowed DEF FailJob
    <3>2. IF db = "ok" THEN Proceed(w, c) ELSE Abandon(w)
      BY <2>3 DEF FailJob
    <3>3. r \in Row
      <4>1. row[c.job] \in Row
        BY <1>2 DEF MappingInv, BudgetInv, TypeOK, Claim
      <4> QED BY <4>1, RowWrites
    <3>4. c \in current[w] \/ current[w] = {}
      BY <2>3, <1>2 DEF MappingInv, ClaimInv, Shape
    <3> HIDE DEF r
    <3> QED BY <1>2, <3>1, <3>2, <3>3, <3>4, OutcomeStep
  <2> QED
    BY <1>2, <2>1, <2>2, <2>3, AppStep, ReapStep, ClaimIsGrant, RedactIsRemove, LoopStep, SuccessStep
       DEF Next, WorkerStep, WorkerFault, HandlerThrows, RecoverFromWrite, NoHandler, DbResult
<1> QED BY <1>1, <1>2, MappingInvariant, PTL DEF Spec, ImplementsLeasedQueue, Leased!Spec
=============================================================================
