------------------------- MODULE CatalogExportProofs -------------------------
(***************************************************************************)
(* Proofs about CatalogExport for every set of exports, requesters,        *)
(* workers and operations, and every budget of attempts.                   *)
(*                                                                         *)
(* The handler writes its row by id and not under its claim.  What makes   *)
(* that safe is in three parts: what a row refers to, what an attempt      *)
(* knows, and where the id of an operation is while it is of use.  The     *)
(* same invariant shows that every step is one of LeasedQueue, or none.    *)
(***************************************************************************)
EXTENDS CatalogExportRefinement, TLAPS

-----------------------------------------------------------------------------
(* Types.                                                                  *)

Step      == {"begin", "record", "poll", "clear", "report", "complete", "later", "fail"}
OpState   == {"none", "running", "completed", "canceling", "ended"}
OpId      == Operations \cup {Nothing}
ExportRow == [status : {"none", "PENDING", "RUNNING", "FAILED", "SUCCEEDED", "DEAD"},
              attempts : Nat, lockedBy : Workers \cup {Nothing}, payload : OpId, result : OpId]
Attempt   == [job : Exports, spent : Nat, op : OpId, step : Step]

ExportTypes ==
  /\ row \in [Exports -> ExportRow]
  /\ asking \subseteq Requesters
  /\ run \in [Workers -> SUBSET Attempt]
  /\ \A w \in Workers : \A x, y \in run[w] : x = y
  /\ operation \in [Operations -> OpState]
  /\ startedFor \in [Operations -> Exports \cup {Nothing}]
  /\ slipped \subseteq Exports
  /\ charged \in [Exports -> 0..MaxAttempts]

(* The inductive invariant.                                                *)

StartedFor(o, j) == operation[o] # "none" /\ startedFor[o] = j

\* What the columns of a row refer to.
RefersRight(j, r) ==
  /\ r.payload # Nothing => StartedFor(r.payload, j)
  /\ r.result # Nothing => operation[r.result] = "completed" /\ startedFor[r.result] = j
  /\ r.status = "SUCCEEDED" => r.result # Nothing

\* What a row has spent: the attempt in flight, and those charged before it.
SpentRight(r, paid) ==
  /\ r.attempts <= MaxAttempts
  /\ r.status = "RUNNING" => r.attempts \in 1..(paid + 1)
  /\ r.status \in {"none", "PENDING", "FAILED"} => r.attempts <= paid
  /\ r.status = "DEAD" => paid >= MaxAttempts

RowsRight == \A j \in Exports : RefersRight(j, row[j]) /\ SpentRight(row[j], charged[j])

\* What an attempt knows of its operation and of its row.
KnowsRight(x) ==
  /\ x.op # Nothing => StartedFor(x.op, x.job)
  /\ x.step \notin {"begin", "fail"} => x.op # Nothing
  /\ x.step \in {"report", "complete"} => operation[x.op] = "completed"
  /\ x.step = "clear" => operation[x.op] \in {"canceling", "ended"}
  /\ x.step = "complete" => row[x.job].result # Nothing

\* Unless its export slipped, an attempt holds its claim, and the payload is
\* what the attempt makes of it.
InStep(w, x) ==
  /\ Holds(w, x) => x.spent = row[x.job].attempts
  /\ x.job \notin slipped =>
       /\ Holds(w, x)
       /\ x.step \in {"begin", "record"} => row[x.job].payload = Nothing
       /\ x.step \in {"poll", "clear", "report", "complete", "later"} =>
            row[x.job].payload = x.op

RunsRight == \A w \in Workers : \A x \in run[w] : KnowsRight(x) /\ InStep(w, x)

Recording(j, o) == \E w \in Workers : \E x \in run[w] : x.job = j /\ x.step = "record" /\ x.op = o

\* The id of an operation that runs or has completed is in the payload of its
\* export or in the hands of an attempt about to write it there.
Traceable(o) ==
  LET j == startedFor[o]
  IN  operation[o] \in {"running", "completed"} =>
        j \in Exports /\ (j \in slipped \/ row[j].payload = o \/ Recording(j, o))

ExportInv == ExportTypes /\ RowsRight /\ RunsRight /\ \A o \in Operations : Traceable(o)

-----------------------------------------------------------------------------
(* What holds in every state of the invariant.                             *)

\* Two attempts at one export: one of them has lost it.
LEMMA OneHolder ==
  ASSUME ExportTypes, RunsRight, NEW v \in Workers, NEW w \in Workers,
         NEW x \in run[v], NEW y \in run[w], x.job = y.job, x.job \notin slipped
  PROVE  v = w /\ x = y
<1>1. Holds(v, x) /\ Holds(w, y)
  BY DEF RunsRight, InStep
<1>2. v = w
  BY <1>1 DEF Holds
<1> QED BY <1>2 DEF ExportTypes

\* An operation keeps its trace if rows, attempts and operations keep theirs.
LEMMA TraceKept ==
  ASSUME ExportTypes, NEW o \in Operations, Traceable(o), startedFor'[o] = startedFor[o],
         operation'[o] \in {"running", "completed"} => operation[o] \in {"running", "completed"},
         slipped \subseteq slipped',
         \A j \in Exports : j \notin slipped' /\ row[j].payload = o => row'[j].payload = o,
         \A j \in Exports : j \notin slipped' /\ Recording(j, o) =>
            Recording(j, o)' \/ row'[j].payload = o
  PROVE  Traceable(o)'
BY DEF Traceable

\* A step that writes no payload and no result, and takes no attempt from
\* anybody, leaves the attempts that go on right.
LEMMA AttemptKept ==
  ASSUME ExportTypes, NEW w \in Workers, NEW x \in run[w], KnowsRight(x), InStep(w, x),
         UNCHANGED <<operation, startedFor>>, slipped \subseteq slipped',
         row'[x.job].payload = row[x.job].payload,
         row'[x.job].result = row[x.job].result,
         Holds(w, x)' => Holds(w, x) /\ row'[x.job].attempts = row[x.job].attempts,
         x.job \notin slipped' /\ Holds(w, x) => Holds(w, x)'
  PROVE  KnowsRight(x)' /\ InStep(w, x)'
BY DEF KnowsRight, InStep, StartedFor

-----------------------------------------------------------------------------
(* The screen and the queue.                                               *)

LEMMA ScreenKeeps ==
  ASSUME ExportInv, NEW j \in Exports,
         Retry(j) \/ \E p \in Requesters : EnqueueExport(p, j)
  PROVE  ExportInv'
<1> USE ExportAssumption
<1>t. ExportTypes /\ RowsRight /\ RunsRight /\ \A o \in Operations : Traceable(o)
  BY DEF ExportInv
<1>r. row[j] \in ExportRow
  BY <1>t DEF ExportTypes
<1>1. UNCHANGED <<run, operation, startedFor, slipped>>
  BY DEF EnqueueExport, Retry, shopify
<1>2. ExportTypes'
  BY <1>t DEF EnqueueExport, Retry, shopify, ExportTypes, ExportRow
<1>3. /\ \A k \in Exports : row'[k].payload = row[k].payload /\ row'[k].result = row[k].result
      /\ \A k \in Exports : k # j => row'[k] = row[k] /\ charged'[k] = charged[k]
      /\ \/ row'[j] = row[j] /\ charged'[j] = charged[j]
         \/ /\ row[j].status \in {"none", "FAILED", "DEAD"} /\ row'[j].status = "PENDING"
            /\ \/ row[j].status = "none" /\ row'[j].attempts = row[j].attempts
                    /\ charged'[j] = charged[j]
               \/ row'[j].attempts = 0 /\ charged'[j] = 0
  BY <1>t, <1>r DEF EnqueueExport, Retry, ExportTypes, ExportRow
<1>4. RowsRight'
  <2>1. ASSUME NEW k \in Exports
        PROVE  RefersRight(k, row[k])' /\ SpentRight(row[k], charged[k])'
    <3>1. RefersRight(k, row[k]) /\ SpentRight(row[k], charged[k])
      BY <1>t DEF RowsRight
    <3> QED BY <1>1, <1>3, <3>1 DEF RefersRight, SpentRight, StartedFor
  <2> QED BY <2>1 DEF RowsRight
<1>5. RunsRight'
  <2>1. ASSUME NEW w \in Workers, NEW x \in run[w]
        PROVE  KnowsRight(x)' /\ InStep(w, x)'
    <3>1. x.job \in Exports /\ KnowsRight(x) /\ InStep(w, x)
      BY <1>t DEF ExportTypes, Attempt, RunsRight
    <3>2. Holds(w, x)' <=> Holds(w, x)
      BY <1>3, <3>1 DEF Holds
    <3>3. Holds(w, x) => row'[x.job].attempts = row[x.job].attempts
      BY <1>3, <3>1 DEF Holds
    <3> QED BY <1>t, <1>1, <1>3, <3>1, <3>2, <3>3, AttemptKept
  <2> QED BY <1>1, <2>1 DEF RunsRight
<1>6. \A o \in Operations : Traceable(o)'
  <2>1. ASSUME NEW o \in Operations, NEW k \in Exports
        PROVE  Recording(k, o)' <=> Recording(k, o)
    BY <1>1 DEF Recording
  <2> QED BY <1>t, <1>1, <1>3, <2>1, TraceKept
<1> QED BY <1>2, <1>4, <1>5, <1>6 DEF ExportInv

\* A row that can be claimed has no attempt, unless it slipped.
LEMMA ClaimKeeps ==
  ASSUME ExportInv, NEW w \in Workers, NEW j \in Exports, Claim(w, j)
  PROVE  ExportInv'
<1> USE ExportAssumption
<1>t. ExportTypes /\ RowsRight /\ RunsRight /\ \A o \in Operations : Traceable(o)
  BY DEF ExportInv
<1>r. row[j] \in ExportRow /\ RefersRight(j, row[j]) /\ SpentRight(row[j], charged[j])
  BY <1>t DEF ExportTypes, RowsRight
<1>y. PICK y : y = [job |-> j, spent |-> row[j].attempts + 1, op |-> row[j].payload,
                   step |-> IF row[j].payload = Nothing THEN "begin" ELSE "poll"]
  OBVIOUS
<1>1. /\ run[w] = {} /\ run' = [run EXCEPT ![w] = {y}]
      /\ row[j].status \in {"PENDING", "FAILED"} /\ row[j].attempts < MaxAttempts
      /\ UNCHANGED <<asking, operation, startedFor, slipped, charged>>
  BY <1>y DEF Claim, shopify
<1>2. /\ y \in Attempt /\ y.job = j /\ y.spent = row[j].attempts + 1 /\ y.op = row[j].payload
      /\ y.step = IF row[j].payload = Nothing THEN "begin" ELSE "poll"
  BY <1>y, <1>r DEF Attempt, ExportRow, Step
<1>3. /\ row'[j] \in ExportRow
      /\ row'[j].status = "RUNNING" /\ row'[j].lockedBy = w
      /\ row'[j].attempts = row[j].attempts + 1
      /\ row'[j].payload = row[j].payload /\ row'[j].result = row[j].result
      /\ \A k \in Exports : k # j => row'[k] = row[k]
      /\ row' \in [Exports -> ExportRow]
  <2> DEFINE n == row[j].attempts + 1
  <2>1. n \in Nat
    BY <1>r DEF ExportRow
  <2>2. row' = [row EXCEPT ![j].status = "RUNNING", ![j].attempts = n, ![j].lockedBy = w]
    BY DEF Claim
  <2> HIDE DEF n
  <2>3. /\ row'[j] \in ExportRow
        /\ row'[j].status = "RUNNING" /\ row'[j].lockedBy = w
        /\ row'[j].attempts = n
        /\ row'[j].payload = row[j].payload /\ row'[j].result = row[j].result
        /\ \A k \in Exports : k # j => row'[k] = row[k]
        /\ row' \in [Exports -> ExportRow]
    BY <1>t, <1>r, <2>1, <2>2 DEF ExportTypes, ExportRow
  <2> QED BY <2>3 DEF n
<1>4. run'[w] = {y} /\ \A v \in Workers : v # w => run'[v] = run[v]
  BY <1>t, <1>1 DEF ExportTypes
<1>5. ExportTypes'
  <2>1. run' \in [Workers -> SUBSET Attempt]
    BY <1>t, <1>1, <1>2 DEF ExportTypes
  <2> QED BY <1>t, <1>1, <1>3, <1>4, <2>1 DEF ExportTypes
<1>6. RowsRight'
  <2>1. ASSUME NEW k \in Exports
        PROVE  RefersRight(k, row[k])' /\ SpentRight(row[k], charged[k])'
    <3>1. RefersRight(k, row[k]) /\ SpentRight(row[k], charged[k]) /\ charged[k] \in Nat
      BY <1>t DEF RowsRight, ExportTypes
    <3>2. row[k].attempts \in Nat
      BY <1>t DEF ExportTypes, ExportRow
    <3>3. RefersRight(k, row[k])'
      BY <1>1, <1>3, <3>1 DEF RefersRight, StartedFor
    <3>4. SpentRight(row[k], charged[k])'
      BY <1>1, <1>3, <3>1, <3>2 DEF SpentRight
    <3> QED BY <3>3, <3>4
  <2> QED BY <2>1 DEF RowsRight
<1>7. \A v \in Workers : \A x \in run[v] : x.job = j => j \in slipped
  BY <1>t, <1>1 DEF RunsRight, InStep, Holds
<1>8. RunsRight'
  <2>1. KnowsRight(y)' /\ InStep(w, y)'
    BY <1>r, <1>1, <1>2, <1>3 DEF KnowsRight, InStep, Holds, RefersRight, StartedFor
  <2>2. ASSUME NEW v \in Workers, v # w, NEW x \in run[v]
        PROVE  KnowsRight(x)' /\ InStep(v, x)'
    <3>1. x.job \in Exports /\ KnowsRight(x) /\ InStep(v, x)
      BY <1>t DEF ExportTypes, Attempt, RunsRight
    <3>2. Holds(v, x)' => Holds(v, x) /\ row'[x.job].attempts = row[x.job].attempts
      BY <1>3, <2>2, <3>1 DEF Holds
    <3>3. x.job \notin slipped' /\ Holds(v, x) => Holds(v, x)'
      BY <1>1, <1>3, <3>1 DEF Holds
    <3>4. row'[x.job].payload = row[x.job].payload /\ row'[x.job].result = row[x.job].result
      BY <1>3, <3>1
    <3> QED BY <1>t, <1>1, <3>1, <3>2, <3>3, <3>4, AttemptKept
  <2> QED BY <1>4, <2>1, <2>2 DEF RunsRight
<1>9. \A o \in Operations : Traceable(o)'
  <2>1. ASSUME NEW o \in Operations, NEW k \in Exports, Recording(k, o)
        PROVE  Recording(k, o)'
    BY <1>1, <1>4, <2>1 DEF Recording
  <2> QED BY <1>t, <1>1, <1>3, <2>1, TraceKept
<1> QED BY <1>5, <1>6, <1>8, <1>9 DEF ExportInv

\* What the reaper and failJob make of a row.
LEMMA ReleasedRow ==
  ASSUME NEW r \in ExportRow, NEW spent \in Nat
  PROVE  /\ Released(r, spent) \in ExportRow
         /\ Released(r, spent).status = IF spent >= MaxAttempts THEN "DEAD" ELSE "FAILED"
         /\ Released(r, spent).attempts = r.attempts
         /\ Released(r, spent).payload = r.payload /\ Released(r, spent).result = r.result
BY DEF Released, ExportRow

\* A RUNNING row that is released after a charge has its spending right.
LEMMA ReleaseIsCharged ==
  ASSUME NEW r \in ExportRow, r.status = "RUNNING", NEW paid \in 0..MaxAttempts, SpentRight(r, paid)
  PROVE  SpentRight(Released(r, r.attempts), IF paid < MaxAttempts THEN paid + 1 ELSE paid)
<1>1. /\ r.attempts \in 1..(paid + 1) /\ r.attempts <= MaxAttempts
      /\ MaxAttempts \in Nat /\ r.attempts \in Nat
  BY ExportAssumption DEF ExportRow, SpentRight
<1>2. /\ Released(r, r.attempts).attempts = r.attempts
      /\ Released(r, r.attempts).status = IF r.attempts >= MaxAttempts THEN "DEAD" ELSE "FAILED"
  BY <1>1, ReleasedRow
<1>3. CASE paid < MaxAttempts
  BY <1>1, <1>2, <1>3 DEF SpentRight
<1>4. CASE ~(paid < MaxAttempts)
  BY <1>1, <1>2, <1>4 DEF SpentRight
<1> QED BY <1>3, <1>4

LEMMA ChargeKeeps ==
  ASSUME ExportTypes, NEW j \in Exports, Charge(j)
  PROVE  /\ charged' \in [Exports -> 0..MaxAttempts]
         /\ charged'[j] = IF charged[j] < MaxAttempts THEN charged[j] + 1 ELSE charged[j]
         /\ \A k \in Exports : k # j => charged'[k] = charged[k]
BY ExportAssumption DEF Charge, ExportTypes

\* The reaper: an attempt that still held the row has slipped.
LEMMA ReapKeeps ==
  ASSUME ExportInv, NEW j \in Exports, Reap(j)
  PROVE  ExportInv'
<1> USE ExportAssumption
<1>t. ExportTypes /\ RowsRight /\ RunsRight /\ \A o \in Operations : Traceable(o)
  BY DEF ExportInv
<1>r. /\ row[j] \in ExportRow /\ RefersRight(j, row[j]) /\ SpentRight(row[j], charged[j])
      /\ row[j].attempts \in Nat /\ charged[j] \in 0..MaxAttempts
  BY <1>t DEF ExportTypes, RowsRight, ExportRow
<1>1. /\ row[j].status = "RUNNING" /\ row' = [row EXCEPT ![j] = Released(row[j], row[j].attempts)]
      /\ UNCHANGED <<asking, run, operation, startedFor>>
      /\ slipped' = IF \E w \in Workers : \E x \in run[w] : x.job = j /\ Holds(w, x)
                    THEN slipped \cup {j} ELSE slipped
  BY DEF Reap, shopify
<1>2. /\ row'[j] = Released(row[j], row[j].attempts) /\ row'[j] \in ExportRow
      /\ row'[j].status \in {"DEAD", "FAILED"}
      /\ row'[j].payload = row[j].payload /\ row'[j].result = row[j].result
      /\ \A k \in Exports : k # j => row'[k] = row[k]
  BY <1>t, <1>r, <1>1, ReleasedRow DEF ExportTypes
<1>3. /\ charged' \in [Exports -> 0..MaxAttempts]
      /\ charged'[j] = IF charged[j] < MaxAttempts THEN charged[j] + 1 ELSE charged[j]
      /\ \A k \in Exports : k # j => charged'[k] = charged[k]
  BY <1>t, ChargeKeeps DEF Reap
<1>4. slipped \subseteq slipped' /\ slipped' \subseteq Exports
  BY <1>t, <1>1 DEF ExportTypes
<1>5. ExportTypes'
  BY <1>t, <1>1, <1>2, <1>3, <1>4 DEF ExportTypes
<1>6. RowsRight'
  <2>1. ASSUME NEW k \in Exports
        PROVE  RefersRight(k, row[k])' /\ SpentRight(row[k], charged[k])'
    <3>1. RefersRight(k, row[k]) /\ SpentRight(row[k], charged[k])
      BY <1>t DEF RowsRight
    <3>2. RefersRight(k, row[k])'
      BY <1>1, <1>2, <3>1 DEF RefersRight, StartedFor
    <3>3. SpentRight(row'[k], charged'[k])
      BY <1>r, <1>1, <1>2, <1>3, <3>1, ReleaseIsCharged
    <3> QED BY <3>2, <3>3 DEF SpentRight
  <2> QED BY <2>1 DEF RowsRight
<1>7. RunsRight'
  <2>1. ASSUME NEW w \in Workers, NEW x \in run[w]
        PROVE  KnowsRight(x)' /\ InStep(w, x)'
    <3>1. x.job \in Exports /\ KnowsRight(x) /\ InStep(w, x)
      BY <1>t DEF ExportTypes, Attempt, RunsRight
    <3>2. Holds(w, x)' => Holds(w, x) /\ row'[x.job].attempts = row[x.job].attempts
      BY <1>2, <3>1 DEF Holds
    <3>3. x.job \notin slipped' /\ Holds(w, x) => Holds(w, x)'
      BY <1>1, <1>2, <3>1 DEF Holds
    <3>4. row'[x.job].payload = row[x.job].payload /\ row'[x.job].result = row[x.job].result
      BY <1>2, <3>1
    <3> QED BY <1>t, <1>1, <1>4, <3>1, <3>2, <3>3, <3>4, AttemptKept
  <2> QED BY <1>1, <2>1 DEF RunsRight
<1>8. \A o \in Operations : Traceable(o)'
  <2>1. ASSUME NEW o \in Operations, NEW k \in Exports
        PROVE  Recording(k, o)' <=> Recording(k, o)
    BY <1>1 DEF Recording
  <2>2. \A k \in Exports : row'[k].payload = row[k].payload
    BY <1>2
  <2> QED BY <1>t, <1>1, <1>4, <2>1, <2>2, TraceKept
<1> QED BY <1>5, <1>6, <1>7, <1>8 DEF ExportInv

\* An attempt that ends: it writes r only into a row it holds, and if it was
\* about to write an id down, the export slips.
LEMMA EndKeeps ==
  ASSUME ExportInv, NEW w \in Workers, NEW x \in run[w], NEW r \in ExportRow,
         NEW writes \in BOOLEAN, writes => Holds(w, x),
         run' = [run EXCEPT ![w] = {}],
         row' = IF writes THEN [row EXCEPT ![x.job] = r] ELSE row,
         slipped' = IF x.step = "record" THEN slipped \cup {x.job} ELSE slipped,
         UNCHANGED <<asking, operation, startedFor>>,
         charged' \in [Exports -> 0..MaxAttempts],
         \A k \in Exports : k # x.job \/ ~writes => charged'[k] = charged[k],
         writes => /\ r.status # "RUNNING"
                   /\ r.payload = row[x.job].payload /\ r.result = row[x.job].result
                   /\ r.status = "SUCCEEDED" => r.result # Nothing
                   /\ SpentRight(r, charged'[x.job])
  PROVE  ExportInv'
<1> USE ExportAssumption
<1>t. ExportTypes /\ RowsRight /\ RunsRight /\ \A o \in Operations : Traceable(o)
  BY DEF ExportInv
<1>j. x.job \in Exports
  BY <1>t DEF ExportTypes, Attempt
<1>1. /\ run'[w] = {} /\ \A v \in Workers : v # w => run'[v] = run[v]
      /\ run[w] = {x}
  BY <1>t DEF ExportTypes
<1>2. /\ \A k \in Exports : k # x.job \/ ~writes => row'[k] = row[k]
      /\ writes => row'[x.job] = r
      /\ row' \in [Exports -> ExportRow]
      /\ \A k \in Exports : row'[k].payload = row[k].payload /\ row'[k].result = row[k].result
  BY <1>t, <1>j DEF ExportTypes
<1>3. slipped \subseteq slipped' /\ slipped' \subseteq Exports
  BY <1>t, <1>j DEF ExportTypes
<1>4. ExportTypes'
  <2>1. run' \in [Workers -> SUBSET Attempt] /\ \A v \in Workers : \A y, z \in run'[v] : y = z
    BY <1>t, <1>1 DEF ExportTypes
  <2> QED BY <1>t, <1>2, <1>3, <2>1 DEF ExportTypes
<1>5. RowsRight'
  <2>1. ASSUME NEW k \in Exports
        PROVE  RefersRight(k, row[k])' /\ SpentRight(row[k], charged[k])'
    <3>1. RefersRight(k, row[k]) /\ SpentRight(row[k], charged[k])
      BY <1>t DEF RowsRight
    <3>2. RefersRight(k, row[k])'
      BY <1>2, <3>1 DEF RefersRight, StartedFor
    <3>3. SpentRight(row'[k], charged'[k])
      BY <1>2, <3>1
    <3> QED BY <3>2, <3>3 DEF SpentRight
  <2> QED BY <2>1 DEF RowsRight
<1>6. RunsRight'
  <2>1. ASSUME NEW v \in Workers, v # w, NEW y \in run[v]
        PROVE  KnowsRight(y)' /\ InStep(v, y)'
    <3>1. y.job \in Exports /\ KnowsRight(y) /\ InStep(v, y)
      BY <1>t DEF ExportTypes, Attempt, RunsRight
    <3>2. CASE y.job = x.job /\ writes
      <4>1. y.job \in slipped /\ ~Holds(v, y)
        BY <1>t, <2>1, <3>2, OneHolder DEF Holds
      <4>2. ~Holds(v, y)'
        BY <1>2, <3>2 DEF Holds
      <4> QED BY <1>t, <1>2, <1>3, <3>1, <4>1, <4>2, AttemptKept
    <3>3. CASE y.job # x.job \/ ~writes
      <4>1. row'[y.job] = row[y.job]
        BY <1>2, <3>1, <3>3
      <4> QED BY <1>t, <1>3, <3>1, <4>1, AttemptKept DEF Holds
    <3> QED BY <3>2, <3>3
  <2> QED BY <1>1, <2>1 DEF RunsRight
<1>7. \A o \in Operations : Traceable(o)'
  <2>1. ASSUME NEW o \in Operations, NEW k \in Exports, k \notin slipped', Recording(k, o)
        PROVE  Recording(k, o)'
    <3>1. PICK v \in Workers : \E y \in run[v] : y.job = k /\ y.step = "record" /\ y.op = o
      BY <2>1 DEF Recording
    <3>2. v # w
      BY <1>1, <2>1, <3>1
    <3> QED BY <1>1, <3>1, <3>2 DEF Recording
  <2> QED BY <1>t, <1>2, <1>3, <2>1, TraceKept
<1> QED BY <1>4, <1>5, <1>6, <1>7 DEF ExportInv

LEMMA EndStepsKeep ==
  ASSUME ExportInv, NEW w \in Workers, NEW x \in run[w],
         Complete(w, x) \/ Reschedule(w, x) \/ FailJob(w, x) \/ Die(w)
  PROVE  ExportInv'
<1>t. ExportTypes /\ RowsRight /\ RunsRight
  BY DEF ExportInv
<1>j. /\ x.job \in Exports /\ x.spent \in Nat /\ x.op \in OpId
      /\ row[x.job] \in ExportRow /\ row[x.job].attempts \in Nat
      /\ charged[x.job] \in 0..MaxAttempts
  BY <1>t DEF ExportTypes, Attempt, ExportRow
<1>k. /\ RefersRight(x.job, row[x.job]) /\ SpentRight(row[x.job], charged[x.job])
      /\ KnowsRight(x) /\ InStep(w, x)
  BY <1>t, <1>j DEF RowsRight, RunsRight
<1>c. charged \in [Exports -> 0..MaxAttempts]
  BY <1>t DEF ExportTypes
<1>1. CASE Complete(w, x)
  <2> DEFINE r == [row[x.job] EXCEPT !.status = "SUCCEEDED", !.lockedBy = Nothing]
  <2>1. /\ r \in ExportRow /\ r.status = "SUCCEEDED" /\ r.attempts = row[x.job].attempts
        /\ r.payload = row[x.job].payload /\ r.result = row[x.job].result
    BY <1>j DEF ExportRow
  <2>2. x.step = "complete" /\ Ends(w, x, r) /\ UNCHANGED charged
    BY <1>1 DEF Complete
  <2> HIDE DEF r
  <2>3. r.result # Nothing
    BY <1>k, <2>1, <2>2 DEF KnowsRight
  <2>4. SpentRight(r, charged'[x.job])
    BY <1>k, <2>1, <2>2 DEF SpentRight
  <2> QED BY <1>c, <2>1, <2>2, <2>3, <2>4, EndKeeps DEF Ends, shopify
<1>2. CASE Reschedule(w, x)
  <2> DEFINE n == row[x.job].attempts - 1
             r == [row[x.job] EXCEPT !.status = "PENDING", !.lockedBy = Nothing, !.attempts = n]
  <2>1. x.step = "later" /\ Ends(w, x, r) /\ UNCHANGED charged
    BY <1>2 DEF Reschedule
  <2>2. CASE Holds(w, x)
    <3>1. n \in Nat /\ n <= charged[x.job] /\ n <= MaxAttempts
      BY <1>j, <1>k, <2>2, ExportAssumption DEF Holds, SpentRight
    <3> HIDE DEF n
    <3>2. /\ r \in ExportRow /\ r.status = "PENDING" /\ r.attempts = n
          /\ r.payload = row[x.job].payload /\ r.result = row[x.job].result
      BY <1>j, <3>1 DEF ExportRow
    <3> HIDE DEF r
    <3>3. SpentRight(r, charged'[x.job])
      BY <2>1, <3>1, <3>2 DEF SpentRight
    <3> QED BY <1>c, <2>1, <2>2, <3>2, <3>3, EndKeeps DEF Ends, shopify
  <2>3. CASE ~Holds(w, x)
    <3> HIDE DEF r
    <3> QED BY <1>c, <1>j, <2>1, <2>3, EndKeeps DEF Ends, shopify
  <2> QED BY <2>2, <2>3
<1>3. CASE FailJob(w, x)
  <2> DEFINE r == Released(row[x.job], x.spent)
  <2>1. /\ x.step = "fail" /\ Ends(w, x, r)
        /\ IF Holds(w, x) THEN Charge(x.job) ELSE UNCHANGED charged
    BY <1>3 DEF FailJob
  <2>2. /\ r \in ExportRow /\ r.status # "RUNNING" /\ r.status # "SUCCEEDED"
        /\ r.payload = row[x.job].payload /\ r.result = row[x.job].result
    BY <1>j, ReleasedRow
  <2>3. CASE Holds(w, x)
    <3>1. x.spent = row[x.job].attempts /\ row[x.job].status = "RUNNING"
      BY <1>k, <2>3 DEF InStep, Holds
    <3>2. /\ charged' \in [Exports -> 0..MaxAttempts]
          /\ charged'[x.job] = IF charged[x.job] < MaxAttempts THEN charged[x.job] + 1 ELSE charged[x.job]
          /\ \A k \in Exports : k # x.job => charged'[k] = charged[k]
      BY <1>t, <1>j, <2>1, <2>3, ChargeKeeps
    <3>3. SpentRight(r, charged'[x.job])
      BY <1>j, <1>k, <3>1, <3>2, ReleaseIsCharged
    <3> HIDE DEF r
    <3> QED BY <2>1, <2>2, <2>3, <3>2, <3>3, EndKeeps DEF Ends, shopify
  <2>4. CASE ~Holds(w, x)
    <3> HIDE DEF r
    <3> QED BY <1>c, <2>1, <2>2, <2>4, EndKeeps DEF Ends, shopify
  <2> QED BY <2>3, <2>4
<1>4. CASE Die(w)
  <2>1. run[w] = {x}
    BY <1>t DEF ExportTypes
  <2>2. {z.job : z \in {y \in run[w] : y.step = "record"}} = IF x.step = "record" THEN {x.job} ELSE {}
    BY <2>1
  <2>3. slipped' = IF x.step = "record" THEN slipped \cup {x.job} ELSE slipped
    BY <1>4, <2>2 DEF Die
  <2>4. run' = [run EXCEPT ![w] = {}] /\ UNCHANGED <<row, asking, operation, startedFor, charged>>
    BY <1>4 DEF Die, shopify
  <2> QED BY <1>c, <1>j, <2>3, <2>4, EndKeeps
<1> QED BY <1>1, <1>2, <1>3, <1>4

-----------------------------------------------------------------------------
(* The handler.                                                            *)

\* While its export has not slipped, an attempt accounts for every operation
\* of it that runs or has completed.
LEMMA OwnTrace ==
  ASSUME ExportInv, NEW w \in Workers, NEW x \in run[w], x.job \notin slipped,
         NEW o \in Operations, operation[o] \in {"running", "completed"}, startedFor[o] = x.job
  PROVE  row[x.job].payload = o \/ (x.step = "record" /\ x.op = o)
<1>1. row[x.job].payload = o \/ Recording(x.job, o)
  BY DEF ExportInv, Traceable
<1>2. ASSUME NEW v \in Workers, NEW y \in run[v], y.job = x.job, y.step = "record", y.op = o
      PROVE  x.step = "record" /\ x.op = o
  BY <1>2, OneHolder DEF ExportInv
<1> QED BY <1>1, <1>2 DEF Recording

\* The attempt x becomes y, its row gets the payload and result of r, and at
\* most one operation starts, for its export.
LEMMA HandlerKeeps ==
  ASSUME ExportInv, NEW w \in Workers, NEW x \in run[w], NEW y \in Attempt, NEW r \in ExportRow,
         y.job = x.job, y.spent = x.spent, run' = [run EXCEPT ![w] = {y}],
         row' = [row EXCEPT ![x.job] = r],
         r.status = row[x.job].status, r.attempts = row[x.job].attempts,
         r.lockedBy = row[x.job].lockedBy, row[x.job].result # Nothing => r.result # Nothing,
         UNCHANGED <<asking, charged>>, slipped' \in {slipped, slipped \cup {x.job}},
         operation' \in [Operations -> OpState],
         startedFor' \in [Operations -> Exports \cup {Nothing}],
         \A o \in Operations :
            \/ operation'[o] = operation[o] /\ startedFor'[o] = startedFor[o]
            \/ operation[o] = "none" /\ operation'[o] = "running" /\ startedFor'[o] = x.job,
         KnowsRight(y)', RefersRight(x.job, r)',
         x.job \notin slipped' =>
            /\ y.step \in {"begin", "record"} => r.payload = Nothing
            /\ y.step \in {"poll", "clear", "report", "complete", "later"} => r.payload = y.op
            /\ \A o \in Operations :
                 startedFor'[o] = x.job /\ operation'[o] \in {"running", "completed"} =>
                   r.payload = o \/ (y.step = "record" /\ y.op = o)
  PROVE  ExportInv'
<1> USE ExportAssumption
<1>t. ExportTypes /\ RowsRight /\ RunsRight /\ \A o \in Operations : Traceable(o)
  BY DEF ExportInv
<1>j. x.job \in Exports
  BY <1>t DEF ExportTypes, Attempt
<1>1. /\ run'[w] = {y} /\ run[w] = {x}
      /\ \A v \in Workers : v # w => run'[v] = run[v]
  BY <1>t DEF ExportTypes
<1>2. row'[x.job] = r /\ \A k \in Exports : k # x.job => row'[k] = row[k]
  BY <1>t, <1>j DEF ExportTypes
<1>3. slipped \subseteq slipped' /\ slipped' \subseteq Exports
  BY <1>t, <1>j DEF ExportTypes
<1>4. ExportTypes'
  <2>1. run' \in [Workers -> SUBSET Attempt] /\ \A v \in Workers : \A p, q \in run'[v] : p = q
    BY <1>t, <1>1 DEF ExportTypes
  <2>2. row' \in [Exports -> ExportRow]
    BY <1>t DEF ExportTypes
  <2> QED BY <1>t, <1>3, <2>1, <2>2 DEF ExportTypes
<1>o. \A o \in Operations, k \in Exports :
        /\ StartedFor(o, k) => StartedFor(o, k)' /\ operation'[o] = operation[o]
        /\ operation[o] # "none" => operation'[o] = operation[o] /\ startedFor'[o] = startedFor[o]
  BY DEF StartedFor
<1>5. RowsRight'
  <2>1. ASSUME NEW k \in Exports
        PROVE  RefersRight(k, row[k])' /\ SpentRight(row[k], charged[k])'
    <3>1. /\ RefersRight(k, row[k]) /\ SpentRight(row[k], charged[k])
          /\ row[k].payload \in OpId /\ row[k].result \in OpId
      BY <1>t DEF RowsRight, ExportTypes, ExportRow
    <3>2. CASE k = x.job
      BY <1>2, <3>1, <3>2 DEF RefersRight, SpentRight
    <3>3. CASE k # x.job
      BY <1>2, <1>o, <3>1, <3>3 DEF RefersRight, SpentRight, StartedFor, OpId
    <3> QED BY <3>2, <3>3
  <2> QED BY <2>1 DEF RowsRight
<1>6. RunsRight'
  <2>1. InStep(w, y)'
    <3>1. InStep(w, x)
      BY <1>t DEF RunsRight
    <3>2. Holds(w, y)' <=> Holds(w, x)
      BY <1>2 DEF Holds
    <3> QED BY <1>2, <1>3, <3>1, <3>2 DEF InStep
  <2>2. ASSUME NEW v \in Workers, v # w, NEW z \in run[v]
        PROVE  KnowsRight(z)' /\ InStep(v, z)'
    <3>1. /\ z.job \in Exports /\ KnowsRight(z) /\ InStep(v, z)
          /\ z.op \in OpId
      BY <1>t DEF ExportTypes, Attempt, RunsRight
    <3>2. KnowsRight(z)'
      <4>1. row[z.job].result # Nothing => row'[z.job].result # Nothing
        BY <1>2, <3>1
      <4> QED BY <1>o, <3>1, <4>1 DEF KnowsRight, StartedFor, OpId
    <3>3. Holds(v, z)' <=> Holds(v, z)
      BY <1>2, <3>1 DEF Holds
    <3>4. CASE z.job = x.job
      <4>1. z.job \in slipped
        BY <1>t, <2>2, <3>4, OneHolder
      <4> QED BY <1>2, <1>3, <3>1, <3>2, <3>3, <3>4, <4>1 DEF InStep
    <3>5. CASE z.job # x.job
      BY <1>2, <1>3, <3>1, <3>2, <3>3, <3>5 DEF InStep
    <3> QED BY <3>4, <3>5
  <2> QED BY <1>1, <2>1, <2>2 DEF RunsRight
<1>7. ASSUME NEW o \in Operations
      PROVE  Traceable(o)'
  <2>1. CASE startedFor'[o] = x.job
    <3>1. ASSUME y.step = "record" /\ y.op = o
          PROVE  Recording(x.job, o)'
      BY <1>1, <3>1 DEF Recording
    <3> QED BY <1>j, <1>2, <2>1, <3>1 DEF Traceable
  <2>2. CASE startedFor'[o] # x.job
    <3>1. operation'[o] = operation[o] /\ startedFor'[o] = startedFor[o] /\ Traceable(o)
      BY <1>t, <2>2
    <3>2. \A k \in Exports : k # x.job /\ Recording(k, o) => Recording(k, o)'
      BY <1>1 DEF Recording
    <3> QED BY <1>2, <1>3, <2>2, <3>1, <3>2 DEF Traceable
  <2> QED BY <2>1, <2>2
<1> QED BY <1>4, <1>5, <1>6, <1>7 DEF ExportInv

\* Steps of the handler that leave Shopify alone.
LEMMA HandlerStepsKeep ==
  ASSUME ExportInv, NEW w \in Workers, NEW x \in run[w],
         Throws(w, x) \/ RecordId(w, x) \/ Poll(w, x) \/ ClearId(w, x) \/ WriteReport(w, x)
  PROVE  ExportInv'
<1>t. ExportTypes /\ RowsRight /\ RunsRight
  BY DEF ExportInv
<1>j. x \in Attempt /\ x.job \in Exports /\ row[x.job] \in ExportRow /\ row \in [Exports -> ExportRow]
  BY <1>t DEF ExportTypes, Attempt
<1>k. RefersRight(x.job, row[x.job]) /\ KnowsRight(x) /\ InStep(w, x)
  BY <1>t, <1>j DEF RowsRight, RunsRight
<1>u. /\ UNCHANGED <<asking, charged, operation, startedFor>>
      /\ operation' \in [Operations -> OpState]
      /\ startedFor' \in [Operations -> Exports \cup {Nothing}]
  BY <1>t DEF Throws, RecordId, Poll, ClearId, WriteReport, WriteRow, shopify, ExportTypes
<1>o. \A o \in Operations : operation[o] \in {"running", "completed"} /\ startedFor[o] = x.job =>
        x.job \in slipped \/ row[x.job].payload = o \/ (x.step = "record" /\ x.op = o)
  BY OwnTrace
<1>1. CASE Throws(w, x)
  <2>1. PICK y : y = [x EXCEPT !.step = "fail"]
    OBVIOUS
  <2>2. y \in Attempt /\ y.job = x.job /\ y.spent = x.spent /\ y.step = "fail" /\ y.op = x.op
    BY <1>j, <2>1 DEF Attempt, Step
  <2>3. /\ run' = [run EXCEPT ![w] = {y}] /\ row' = row
        /\ slipped' = IF x.step = "record" THEN slipped \cup {x.job} ELSE slipped
    <3>1. [x EXCEPT !.step = "fail", !.op = x.op] = [x EXCEPT !.step = "fail"]
      BY <1>j DEF Attempt
    <3> QED BY <1>1, <2>1, <3>1 DEF Throws, Continues
  <2>4. PICK r : r = row[x.job]
    OBVIOUS
  <2>5. row' = [row EXCEPT ![x.job] = r]
    BY <1>j, <2>3, <2>4
  <2>6. KnowsRight(y)' /\ RefersRight(x.job, r)'
    BY <1>u, <1>k, <2>2, <2>4 DEF KnowsRight, RefersRight, StartedFor
  <2> QED BY <1>j, <1>u, <1>o, <2>2, <2>3, <2>4, <2>5, <2>6, HandlerKeeps
<1>2. CASE RecordId(w, x)
  <2>1. PICK y : y = [x EXCEPT !.step = "poll"]
    OBVIOUS
  <2>2. y \in Attempt /\ y.job = x.job /\ y.spent = x.spent /\ y.step = "poll" /\ y.op = x.op
    BY <1>j, <2>1 DEF Attempt, Step
  <2>3. PICK r : r = [row[x.job] EXCEPT !.payload = x.op]
    OBVIOUS
  <2>4. /\ r \in ExportRow /\ r.status = row[x.job].status /\ r.attempts = row[x.job].attempts
        /\ r.lockedBy = row[x.job].lockedBy /\ r.result = row[x.job].result /\ r.payload = x.op
    BY <1>j, <2>3 DEF ExportRow, Attempt
  <2>5. /\ x.step = "record" /\ run' = [run EXCEPT ![w] = {y}]
        /\ row' = [row EXCEPT ![x.job] = r] /\ slipped' = slipped
    <3>1. [x EXCEPT !.step = "poll", !.op = x.op] = [x EXCEPT !.step = "poll"]
      BY <1>j DEF Attempt
    <3> QED BY <1>2, <2>1, <2>3, <3>1 DEF RecordId, Continues, WriteRow
  <2>6. KnowsRight(y)' /\ RefersRight(x.job, r)'
    BY <1>u, <1>k, <2>2, <2>4, <2>5 DEF KnowsRight, RefersRight, StartedFor
  <2>7. x.job \notin slipped => row[x.job].payload = Nothing
    BY <1>k, <2>5 DEF InStep
  <2>8. Nothing \notin Operations
    BY ExportAssumption
  <2> QED BY <1>j, <1>u, <1>o, <2>2, <2>4, <2>5, <2>6, <2>7, <2>8, HandlerKeeps
<1>3. CASE Poll(w, x)
  <2>1. x.step = "poll" /\ x.op \in Operations
    BY <1>3, <1>k, <1>j DEF Poll, KnowsRight, Attempt, OpId
  <2>2. operation[x.op] \in OpState \ {"none"}
    BY <1>t, <1>k, <2>1, ExportAssumption DEF KnowsRight, StartedFor, ExportTypes
  <2>3. PICK step : step = Outcome(operation[x.op])
    OBVIOUS
  <2>4. /\ step \in {"later", "report", "clear"}
        /\ step = "report" => operation[x.op] = "completed"
        /\ step = "clear" => operation[x.op] \in {"canceling", "ended"}
    BY <2>2, <2>3 DEF Outcome, OpState
  <2>5. PICK y : y = [x EXCEPT !.step = step]
    OBVIOUS
  <2>6. y \in Attempt /\ y.job = x.job /\ y.spent = x.spent /\ y.step = step /\ y.op = x.op
    BY <1>j, <2>4, <2>5 DEF Attempt, Step
  <2>7. run' = [run EXCEPT ![w] = {y}] /\ row' = row /\ slipped' = slipped
    <3>1. [x EXCEPT !.step = step, !.op = x.op] = [x EXCEPT !.step = step]
      BY <1>j DEF Attempt
    <3> QED BY <1>3, <2>3, <2>5, <3>1 DEF Poll, Continues
  <2>8. PICK r : r = row[x.job]
    OBVIOUS
  <2>9. row' = [row EXCEPT ![x.job] = r]
    BY <1>j, <2>7, <2>8
  <2>10. KnowsRight(y)' /\ RefersRight(x.job, r)'
    BY <1>u, <1>k, <2>1, <2>4, <2>6, <2>8 DEF KnowsRight, RefersRight, StartedFor
  <2>11. x.job \notin slipped => row[x.job].payload = x.op
    BY <1>k, <2>1 DEF InStep
  <2> QED BY <1>j, <1>u, <1>o, <2>1, <2>4, <2>6, <2>7, <2>8, <2>9, <2>10, <2>11, HandlerKeeps
<1>4. CASE ClearId(w, x)
  <2>1. PICK y : y = [x EXCEPT !.step = "fail"]
    OBVIOUS
  <2>2. y \in Attempt /\ y.job = x.job /\ y.spent = x.spent /\ y.step = "fail" /\ y.op = x.op
    BY <1>j, <2>1 DEF Attempt, Step
  <2>3. PICK r : r = [row[x.job] EXCEPT !.payload = Nothing]
    OBVIOUS
  <2>4. /\ r \in ExportRow /\ r.status = row[x.job].status /\ r.attempts = row[x.job].attempts
        /\ r.lockedBy = row[x.job].lockedBy /\ r.result = row[x.job].result /\ r.payload = Nothing
    BY <1>j, <2>3 DEF ExportRow, OpId
  <2>5. /\ x.step = "clear" /\ run' = [run EXCEPT ![w] = {y}]
        /\ row' = [row EXCEPT ![x.job] = r] /\ slipped' = slipped
    <3>1. [x EXCEPT !.step = "fail", !.op = x.op] = [x EXCEPT !.step = "fail"]
      BY <1>j DEF Attempt
    <3> QED BY <1>4, <2>1, <2>3, <3>1 DEF ClearId, Continues, WriteRow
  <2>6. KnowsRight(y)' /\ RefersRight(x.job, r)'
    BY <1>u, <1>k, <2>2, <2>4, <2>5 DEF KnowsRight, RefersRight, StartedFor
  <2>7. /\ x.job \notin slipped => row[x.job].payload = x.op
        /\ operation[x.op] \in {"canceling", "ended"}
    BY <1>k, <2>5 DEF InStep, KnowsRight
  <2> QED BY <1>j, <1>u, <1>o, <2>2, <2>4, <2>5, <2>6, <2>7, HandlerKeeps
<1>5. CASE WriteReport(w, x)
  <2>1. PICK y : y = [x EXCEPT !.step = "complete"]
    OBVIOUS
  <2>2. y \in Attempt /\ y.job = x.job /\ y.spent = x.spent /\ y.step = "complete" /\ y.op = x.op
    BY <1>j, <2>1 DEF Attempt, Step
  <2>3. PICK r : r = [row[x.job] EXCEPT !.result = x.op]
    OBVIOUS
  <2>4. /\ r \in ExportRow /\ r.status = row[x.job].status /\ r.attempts = row[x.job].attempts
        /\ r.lockedBy = row[x.job].lockedBy /\ r.payload = row[x.job].payload /\ r.result = x.op
    BY <1>j, <2>3 DEF ExportRow, Attempt
  <2>5. /\ x.step = "report" /\ run' = [run EXCEPT ![w] = {y}]
        /\ row' = [row EXCEPT ![x.job] = r] /\ slipped' = slipped
    <3>1. [x EXCEPT !.step = "complete", !.op = x.op] = [x EXCEPT !.step = "complete"]
      BY <1>j DEF Attempt
    <3> QED BY <1>5, <2>1, <2>3, <3>1 DEF WriteReport, Continues, WriteRow
  <2>6. x.op # Nothing /\ operation[x.op] = "completed" /\ startedFor[x.op] = x.job
    BY <1>k, <2>5 DEF KnowsRight, StartedFor
  <2>7. row'[x.job] = r
    BY <1>j, <2>5
  <2>8. KnowsRight(y)' /\ RefersRight(x.job, r)'
    BY <1>u, <1>k, <2>2, <2>4, <2>6, <2>7 DEF KnowsRight, RefersRight, StartedFor
  <2>9. x.job \notin slipped => row[x.job].payload = x.op
    BY <1>k, <2>5 DEF InStep
  <2> QED BY <1>j, <1>u, <1>o, <2>2, <2>4, <2>5, <2>6, <2>8, <2>9, HandlerKeeps
<1> QED BY <1>1, <1>2, <1>3, <1>4, <1>5

\* An operation starts, and the attempt has its id, or the export slips.
LEMMA StartKeeps ==
  ASSUME ExportInv, NEW w \in Workers, NEW x \in run[w], NEW o \in Fresh, NEW heard \in BOOLEAN,
         StartExport(w, x, o, heard)
  PROVE  ExportInv'
<1>t. ExportTypes /\ RowsRight /\ RunsRight
  BY DEF ExportInv
<1>j. x \in Attempt /\ x.job \in Exports /\ row[x.job] \in ExportRow /\ row \in [Exports -> ExportRow]
  BY <1>t DEF ExportTypes, Attempt
<1>k. RefersRight(x.job, row[x.job]) /\ KnowsRight(x) /\ InStep(w, x)
  BY <1>t, <1>j DEF RowsRight, RunsRight
<1>f. o \in Operations /\ operation[o] = "none" /\ o # Nothing
  BY ExportAssumption DEF Fresh
<1>1. /\ x.step = "begin" /\ UNCHANGED <<row, asking, charged>>
      /\ operation' = [operation EXCEPT ![o] = "running"]
      /\ startedFor' = [startedFor EXCEPT ![o] = x.job]
      /\ slipped' = IF heard THEN slipped ELSE slipped \cup {x.job}
  BY DEF StartExport
<1>2. /\ operation' \in [Operations -> OpState]
      /\ startedFor' \in [Operations -> Exports \cup {Nothing}]
      /\ operation'[o] = "running" /\ startedFor'[o] = x.job
      /\ \A p \in Operations : p # o => operation'[p] = operation[p] /\ startedFor'[p] = startedFor[p]
  BY <1>t, <1>j, <1>f, <1>1 DEF ExportTypes, OpState
<1>3. PICK y : y = [x EXCEPT !.step = IF heard THEN "record" ELSE "fail",
                             !.op = IF heard THEN o ELSE Nothing]
  OBVIOUS
<1>4. /\ y \in Attempt /\ y.job = x.job /\ y.spent = x.spent
      /\ y.step = IF heard THEN "record" ELSE "fail"
      /\ y.op = IF heard THEN o ELSE Nothing
  BY <1>j, <1>f, <1>3 DEF Attempt, Step, OpId
<1>5. run' = [run EXCEPT ![w] = {y}]
  BY <1>3 DEF StartExport, Continues
<1>6. PICK r : r = row[x.job]
  OBVIOUS
<1>7. row' = [row EXCEPT ![x.job] = r]
  BY <1>j, <1>1, <1>6
<1>8. KnowsRight(y)'
  <2>1. CASE heard
    BY <1>f, <1>2, <1>4, <2>1 DEF KnowsRight, StartedFor
  <2>2. CASE ~heard
    BY <1>4, <2>2 DEF KnowsRight
  <2> QED BY <2>1, <2>2
<1>9. RefersRight(x.job, r)'
  <2>1. RefersRight(x.job, r) /\ r.payload \in OpId /\ r.result \in OpId
    BY <1>j, <1>k, <1>6 DEF ExportRow
  <2> QED BY <1>f, <1>2, <2>1 DEF RefersRight, StartedFor, OpId
<1>10. x.job \notin slipped => row[x.job].payload = Nothing
  BY <1>k, <1>1 DEF InStep
<1>11. \A p \in Operations : operation[p] \in {"running", "completed"} /\ startedFor[p] = x.job =>
         x.job \in slipped \/ row[x.job].payload = p
  BY <1>1, OwnTrace
<1>12. x.job \notin slipped' =>
         /\ y.step \in {"begin", "record"} => r.payload = Nothing
         /\ y.step \in {"poll", "clear", "report", "complete", "later"} => r.payload = y.op
         /\ \A p \in Operations :
              startedFor'[p] = x.job /\ operation'[p] \in {"running", "completed"} =>
                r.payload = p \/ (y.step = "record" /\ y.op = p)
  <2>1. \A p \in Operations : p # Nothing
    BY ExportAssumption
  <2> QED BY <1>1, <1>2, <1>4, <1>6, <1>10, <1>11, <2>1
<1>13. \A p \in Operations :
         \/ operation'[p] = operation[p] /\ startedFor'[p] = startedFor[p]
         \/ operation[p] = "none" /\ operation'[p] = "running" /\ startedFor'[p] = x.job
  BY <1>f, <1>2
<1>14. /\ r \in ExportRow /\ r.status = row[x.job].status /\ r.attempts = row[x.job].attempts
       /\ r.lockedBy = row[x.job].lockedBy /\ r.result = row[x.job].result
       /\ slipped' \in {slipped, slipped \cup {x.job}} /\ UNCHANGED <<asking, charged>>
  BY <1>1, <1>6, <1>j
<1>15. y \in Attempt /\ y.job = x.job /\ y.spent = x.spent
  BY <1>4
<1>16. /\ operation' \in [Operations -> OpState]
       /\ startedFor' \in [Operations -> Exports \cup {Nothing}]
  BY <1>2
<1> QED BY <1>5, <1>7, <1>8, <1>9, <1>12, <1>13, <1>14, <1>15, <1>16, HandlerKeeps

\* What has completed stays so, and what ended badly never runs again.
LEMMA EndingKeeps ==
  ASSUME ExportInv, NEW o \in Operations, NEW state, OperationEnds(o, state)
  PROVE  ExportInv'
<1>t. ExportTypes /\ RowsRight /\ RunsRight /\ \A p \in Operations : Traceable(p)
  BY DEF ExportInv
<1>1. /\ UNCHANGED <<row, asking, run, startedFor, slipped, charged>>
      /\ operation' = [operation EXCEPT ![o] = state]
      /\ state \in {"completed", "canceling", "ended"}
      /\ \/ operation[o] = "running"
         \/ operation[o] = "canceling" /\ state = "ended"
  BY DEF OperationEnds
<1>2. \A p \in Operations :
        /\ operation'[p] \in OpState
        /\ operation'[p] # "none" <=> operation[p] # "none"
        /\ operation[p] = "completed" => operation'[p] = "completed"
        /\ operation[p] \in {"canceling", "ended"} => operation'[p] \in {"canceling", "ended"}
        /\ operation'[p] \in {"running", "completed"} => operation[p] \in {"running", "completed"}
  BY <1>t, <1>1 DEF ExportTypes, OpState
<1>3. ExportTypes'
  BY <1>t, <1>1 DEF ExportTypes, OpState
<1>4. RowsRight'
  <2>1. ASSUME NEW k \in Exports
        PROVE  RefersRight(k, row[k])' /\ SpentRight(row[k], charged[k])'
    <3>1. /\ RefersRight(k, row[k]) /\ SpentRight(row[k], charged[k])
          /\ row[k].payload \in OpId /\ row[k].result \in OpId
      BY <1>t DEF RowsRight, ExportTypes, ExportRow
    <3> QED BY <1>1, <1>2, <3>1 DEF RefersRight, SpentRight, StartedFor, OpId
  <2> QED BY <2>1 DEF RowsRight
<1>5. RunsRight'
  <2>1. ASSUME NEW w \in Workers, NEW x \in run[w]
        PROVE  KnowsRight(x)' /\ InStep(w, x)'
    <3>1. x.op \in OpId /\ x.step \in Step /\ KnowsRight(x) /\ InStep(w, x)
      BY <1>t DEF ExportTypes, Attempt, RunsRight
    <3>2. KnowsRight(x)'
      BY <1>1, <1>2, <3>1 DEF KnowsRight, StartedFor, OpId
    <3>3. InStep(w, x)'
      BY <1>1, <3>1 DEF InStep, Holds
    <3> QED BY <3>2, <3>3
  <2> QED BY <1>1, <2>1 DEF RunsRight
<1>6. \A p \in Operations : Traceable(p)'
  <2>1. ASSUME NEW p \in Operations, NEW k \in Exports
        PROVE  Recording(k, p)' <=> Recording(k, p)
    BY <1>1 DEF Recording
  <2> QED BY <1>t, <1>1, <1>2, <2>1, TraceKept
<1> QED BY <1>3, <1>4, <1>5, <1>6 DEF ExportInv

-----------------------------------------------------------------------------
LEMMA ExportInit == Init => ExportInv
<1> SUFFICES ASSUME Init PROVE ExportInv
  OBVIOUS
<1> USE ExportAssumption
<1>1. ExportTypes
  BY DEF Init, ExportTypes, ExportRow, OpId, OpState, Attempt
<1>2. RowsRight
  <2>1. ASSUME NEW j \in Exports
        PROVE  /\ row[j].payload = Nothing /\ row[j].result = Nothing
               /\ row[j].status = "none" /\ row[j].attempts = 0 /\ charged[j] = 0
    BY DEF Init
  <2>2. ASSUME NEW j \in Exports
        PROVE  RefersRight(j, row[j])
    BY <2>1 DEF RefersRight
  <2>3. ASSUME NEW j \in Exports
        PROVE  SpentRight(row[j], charged[j])
    <3>1. MaxAttempts >= 0
      OBVIOUS
    <3> QED BY <2>1, <3>1 DEF SpentRight
  <2> QED BY <2>2, <2>3 DEF RowsRight
<1>3. RunsRight /\ \A o \in Operations : Traceable(o)
  BY DEF Init, RunsRight, Traceable
<1> QED BY <1>1, <1>2, <1>3 DEF ExportInv

LEMMA ExportStep == ExportInv /\ [Next]_vars => ExportInv'
<1> SUFFICES ASSUME ExportInv, [Next]_vars PROVE ExportInv'
  OBVIOUS
<1>1. CASE UNCHANGED vars
  BY <1>1 DEF vars, ExportInv, ExportTypes, RowsRight, RefersRight, SpentRight, RunsRight,
              KnowsRight, InStep, Holds, StartedFor, Traceable, Recording
<1>2. ASSUME NEW w \in Workers, NEW x \in run[w], Handle(w, x)
      PROVE  ExportInv'
  BY <1>2, EndStepsKeep, HandlerStepsKeep, StartKeeps DEF Handle
<1>3. ASSUME NEW w \in Workers, NEW x \in run[w], NEW o \in Fresh, StartExport(w, x, o, FALSE)
      PROVE  ExportInv'
  BY <1>3, StartKeeps
<1>4. ASSUME NEW w \in Workers, Die(w)
      PROVE  ExportInv'
  <2>1. PICK x : x \in run[w]
    BY <1>4 DEF Die
  <2> QED BY <1>4, <2>1, EndStepsKeep
<1>5. ASSUME NEW w \in Workers, NEW x \in run[w], Throws(w, x)
      PROVE  ExportInv'
  BY <1>5, HandlerStepsKeep
<1>6. ASSUME NEW p \in Requesters, AskExport(p) \/ \E j \in Exports : EnqueueExport(p, j)
      PROVE  ExportInv'
  <2>1. CASE AskExport(p)
    <3>1. ExportTypes' /\ RowsRight' /\ RunsRight' /\ \A o \in Operations : Traceable(o)'
      BY <2>1 DEF AskExport, shopify, ExportInv, ExportTypes, RowsRight, RefersRight, SpentRight,
                  RunsRight, KnowsRight, InStep, Holds, StartedFor, Traceable, Recording
    <3> QED BY <3>1 DEF ExportInv
  <2> QED BY <1>6, <2>1, ScreenKeeps
<1>7. ASSUME NEW j \in Exports, Retry(j) \/ Reap(j) \/ \E w \in Workers : Claim(w, j)
      PROVE  ExportInv'
  BY <1>7, ScreenKeeps, ReapKeeps, ClaimKeeps
<1>8. ASSUME NEW o \in Operations, NEW state, OperationEnds(o, state)
      PROVE  ExportInv'
  BY <1>8, EndingKeeps
<1> QED
  BY <1>1, <1>2, <1>3, <1>4, <1>5, <1>6, <1>7, <1>8 DEF Next

LEMMA ExportInvariant == Spec => []ExportInv
BY ExportInit, ExportStep, PTL DEF Spec

-----------------------------------------------------------------------------
\* A finished export shows the report of an operation that was started for it
\* and completed, although the handler writes by id and an attempt that lost
\* its claim writes all the same.
THEOREM ReportsAreReal == Spec => []ReportIsReal
<1>1. ExportInv => ReportIsReal
  BY DEF ExportInv, RowsRight, RefersRight, ReportIsReal
<1> QED BY <1>1, ExportInvariant, PTL

\* A row reaches DEAD only by as many attempts that failed or were abandoned as
\* its budget has; waiting for Shopify is never one of them.
THEOREM DeathIsEarned == Spec => []DeadIsEarned
<1>1. ExportInv => DeadIsEarned
  BY DEF ExportInv, RowsRight, SpentRight, DeadIsEarned
<1> QED BY <1>1, ExportInvariant, PTL

\* runCatalogExport starts a second operation for an export only if an id was
\* lost before it was written, or the reaper took a row from a live attempt.
THEOREM PollingResumes == Spec => []ResumesPolling
<1>1. ExportInv => ResumesPolling
  <2> SUFFICES ASSUME ExportInv, NEW o \in Operations, NEW p \in Operations, o # p,
                      startedFor[o] # Nothing, startedFor[o] = startedFor[p],
                      operation[o] \in {"running", "completed"},
                      operation[p] \in {"running", "completed"},
                      startedFor[o] \notin slipped
               PROVE  FALSE
    BY DEF ResumesPolling
  <2> DEFINE j == startedFor[o]
  <2>1. /\ j \in Exports
        /\ row[j].payload = o \/ Recording(j, o)
        /\ row[j].payload = p \/ Recording(j, p)
    BY DEF ExportInv, Traceable
  <2>2. \A q \in Operations : q # Nothing
    BY ExportAssumption
  <2>3. ASSUME NEW q \in Operations, Recording(j, q)
        PROVE  row[j].payload = Nothing
    BY <2>3 DEF Recording, ExportInv, RunsRight, InStep
  <2>4. Recording(j, o) /\ Recording(j, p)
    BY <2>1, <2>2, <2>3
  <2>5. PICK v \in Workers, w \in Workers : \E x \in run[v], y \in run[w] :
          x.job = j /\ y.job = j /\ x.op = o /\ y.op = p
    BY <2>4 DEF Recording
  <2> QED BY <2>5, OneHolder DEF ExportInv
<1> QED BY <1>1, ExportInvariant, PTL

-----------------------------------------------------------------------------
(* The export implements the leased queue.                                 *)

PhaseIn(r) ==
  CASE r.status = "none" -> "none"
    [] r.status \in {"PENDING", "FAILED"} -> "waiting"
    [] r.status = "RUNNING" -> "out"
    [] r.status = "SUCCEEDED" -> "done"
    [] r.status = "DEAD" -> "dead"

LEMMA PhaseByStatus ==
  ASSUME NEW r
  PROVE  /\ r.status = "none" => PhaseIn(r) = "none"
         /\ r.status \in {"PENDING", "FAILED"} => PhaseIn(r) = "waiting"
         /\ r.status = "RUNNING" => PhaseIn(r) = "out"
         /\ r.status = "SUCCEEDED" => PhaseIn(r) = "done"
         /\ r.status = "DEAD" => PhaseIn(r) = "dead"
BY DEF PhaseIn

LEMMA MappedRows ==
  /\ PhaseOf = [j \in Exports |-> PhaseIn(row[j])] /\ PhaseOf' = [j \in Exports |-> PhaseIn(row'[j])]
  /\ SpentOn = [j \in Exports |-> row[j].attempts] /\ SpentOn' = [j \in Exports |-> row'[j].attempts]
BY DEF PhaseOf, PhaseIn, SpentOn

\* A statement that writes one row moves one phase, and may change what is spent on it.
LEMMA OneRowMoves ==
  ASSUME NEW j \in Exports, NEW r, row \in [Exports -> ExportRow], row' = [row EXCEPT ![j] = r]
  PROVE  /\ PhaseOf' = [i \in Exports |-> IF i \in {j} THEN PhaseIn(r) ELSE PhaseOf[i]]
         /\ SpentOn' = [i \in Exports |-> IF i \in {j} THEN r.attempts ELSE SpentOn[i]]
<1>1. \A i \in Exports : row'[i] = IF i \in {j} THEN r ELSE row[i]
  OBVIOUS
<1>2. \A i \in Exports : PhaseIn(row'[i]) = IF i \in {j} THEN PhaseIn(r) ELSE PhaseOf[i]
  BY <1>1, MappedRows
<1>3. \A i \in Exports : row'[i].attempts = IF i \in {j} THEN r.attempts ELSE SpentOn[i]
  BY <1>1, MappedRows
<1> QED BY <1>2, <1>3, MappedRows

\* One that changes neither status nor attempts maps to no step.
LEMMA RowsMapped ==
  ASSUME \A j \in Exports : row'[j].status = row[j].status /\ row'[j].attempts = row[j].attempts
  PROVE  PhaseOf' = PhaseOf /\ SpentOn' = SpentOn
<1>1. \A j \in Exports : PhaseIn(row'[j]) = PhaseIn(row[j])
  BY DEF PhaseIn
<1> QED BY <1>1, MappedRows

LeaseOn(w, j) == \E x \in run[w] : x.job = j /\ Holds(w, x)

LEMMA LeasesBy ==
  /\ Leases = {l \in Workers \X Exports : LeaseOn(l[1], l[2])}
  /\ Leases' = {l \in Workers \X Exports : LeaseOn(l[1], l[2])'}
BY DEF Leases, LeaseOn

LEMMA LeasesSame ==
  ASSUME \A w \in Workers, j \in Exports : LeaseOn(w, j)' <=> LeaseOn(w, j)
  PROVE  Leases' = Leases
BY LeasesBy

\* The leases of w, and those on j, in terms of the attempts.
LEMMA NoLease ==
  ASSUME ExportTypes, NEW w \in Workers, NEW j \in Exports
  PROVE  /\ run[w] = {} => ~LeaseOn(w, j)
         /\ row[j].status # "RUNNING" => ~LeaseOn(w, j)
         /\ row[j].lockedBy # w => ~LeaseOn(w, j)
         /\ \A x \in run[w] : LeaseOn(w, j) <=> x.job = j /\ Holds(w, x)
BY DEF ExportTypes, LeaseOn, Holds

LEMMA NoLeaseNext ==
  ASSUME NEW w \in Workers, NEW j \in Exports
  PROVE  /\ run'[w] = {} => ~LeaseOn(w, j)'
         /\ row'[j].status # "RUNNING" => ~LeaseOn(w, j)'
         /\ row'[j].lockedBy # w => ~LeaseOn(w, j)'
         /\ run'[w] = run[w] /\ row'[j].status = row[j].status /\ row'[j].lockedBy = row[j].lockedBy =>
              (LeaseOn(w, j)' <=> LeaseOn(w, j))
BY DEF LeaseOn, Holds

\* The screen submits a job, or gives it its whole budget again.
LEMMA ScreenStep ==
  ASSUME ExportInv, NEW j \in Exports,
         Retry(j) \/ \E p \in Requesters : EnqueueExport(p, j)
  PROVE  Leased!Submit(j) \/ Leased!Renew(j)
<1>1. row \in [Exports -> ExportRow] /\ ExportTypes
  BY DEF ExportInv, ExportTypes
<1>2. Leases' = Leases
  <2>1. /\ run' = run /\ row[j].status # "RUNNING" /\ row'[j].status # "RUNNING"
        /\ \A i \in Exports : i # j => row'[i] = row[i]
    BY <1>1 DEF Retry, EnqueueExport, ExportRow
  <2>2. \A w \in Workers, i \in Exports : LeaseOn(w, i)' <=> LeaseOn(w, i)
    BY <1>1, <2>1, NoLease, NoLeaseNext
  <2> QED BY <2>2, LeasesSame
<1>3. CASE Retry(j)
  <2> DEFINE r == [row[j] EXCEPT !.status = "PENDING", !.attempts = 0, !.lockedBy = Nothing]
  <2>1. row' = [row EXCEPT ![j] = r] /\ row[j].status \in {"FAILED", "DEAD"}
    BY <1>1, <1>3 DEF Retry
  <2>2. row[j] \in ExportRow
    BY <1>1
  <2>3. r.status = "PENDING" /\ r.attempts = 0
    BY <2>2 DEF ExportRow
  <2> HIDE DEF r
  <2>4. /\ PhaseOf' = [i \in Exports |-> IF i \in {j} THEN PhaseIn(r) ELSE PhaseOf[i]]
        /\ SpentOn' = [i \in Exports |-> IF i \in {j} THEN r.attempts ELSE SpentOn[i]]
    BY <1>1, <2>1, OneRowMoves
  <2>5. PhaseIn(r) = "waiting" /\ PhaseOf[j] \in {"waiting", "dead"}
    BY <2>1, <2>3, MappedRows, PhaseByStatus
  <2>6. SpentOn' = [SpentOn EXCEPT ![j] = 0]
    BY <2>3, <2>4, MappedRows
  <2> QED BY <1>2, <2>4, <2>5, <2>6 DEF Leased!Renew, Leased!Move
<1>4. ASSUME NEW p \in Requesters, EnqueueExport(p, j)
      PROVE  Leased!Submit(j)
  <2> DEFINE r == [row[j] EXCEPT !.status = "PENDING"]
  <2>1. row' = [row EXCEPT ![j] = r] /\ row[j].status = "none"
    BY <1>1, <1>4 DEF EnqueueExport
  <2>2. row[j] \in ExportRow
    BY <1>1
  <2>3. r.status = "PENDING" /\ r.attempts = row[j].attempts
    BY <2>2 DEF ExportRow
  <2> HIDE DEF r
  <2>4. /\ PhaseOf' = [i \in Exports |-> IF i \in {j} THEN PhaseIn(r) ELSE PhaseOf[i]]
        /\ SpentOn' = [i \in Exports |-> IF i \in {j} THEN r.attempts ELSE SpentOn[i]]
    BY <1>1, <2>1, OneRowMoves
  <2>5. PhaseIn(r) = "waiting" /\ PhaseOf[j] = "none"
    BY <2>1, <2>3, MappedRows, PhaseByStatus
  <2>6. SpentOn' = SpentOn
    BY <2>3, <2>4, MappedRows
  <2> QED BY <1>2, <2>4, <2>5, <2>6 DEF Leased!Submit, Leased!Move
<1> QED BY <1>3, <1>4

\* A claim grants the lease and is paid for.
LEMMA ClaimStep ==
  ASSUME ExportInv, NEW w \in Workers, NEW j \in Exports, Claim(w, j)
  PROVE  Leased!Grant(w, {j}, TRUE)
<1>1. row \in [Exports -> ExportRow] /\ ExportTypes /\ run \in [Workers -> SUBSET Attempt]
  BY DEF ExportInv, ExportTypes
<1> DEFINE r == [row[j] EXCEPT !.status = "RUNNING", !.attempts = @ + 1, !.lockedBy = w]
<1>2. row' = [row EXCEPT ![j] = r] /\ row[j].status \in {"PENDING", "FAILED"}
      /\ row[j].attempts < MaxAttempts /\ run[w] = {}
  BY <1>1 DEF Claim
<1>3. row[j] \in ExportRow
  BY <1>1
<1>4. r.status = "RUNNING" /\ r.attempts = row[j].attempts + 1 /\ r.lockedBy = w
  BY <1>3 DEF ExportRow
<1>5. \E x : run' = [run EXCEPT ![w] = {x}] /\ x.job = j
  <2> DEFINE x == [job |-> j, spent |-> row[j].attempts + 1, op |-> row[j].payload,
                   step |-> IF row[j].payload = Nothing THEN "begin" ELSE "poll"]
  <2>1. run' = [run EXCEPT ![w] = {x}] /\ x.job = j
    BY DEF Claim
  <2> QED BY <2>1
<1> HIDE DEF r
<1>6. Leases' = Leases \cup ({w} \X {j})
  <2>1. PICK x : run' = [run EXCEPT ![w] = {x}] /\ x.job = j
    BY <1>5
  <2>2. run'[w] = {x} /\ \A v \in Workers : v # w => run'[v] = run[v]
    BY <1>1, <2>1
  <2>3. row'[j] = r /\ \A i \in Exports : i # j => row'[i] = row[i]
    BY <1>1, <1>2
  <2>4. LeaseOn(w, j)'
    BY <1>4, <2>1, <2>2, <2>3 DEF LeaseOn, Holds
  <2>5. \A i \in Exports : i # j => ~LeaseOn(w, i)'
    BY <2>1, <2>2 DEF LeaseOn
  <2>6. \A i \in Exports : ~LeaseOn(w, i)
    BY <1>1, <1>2, NoLease
  <2>7. \A v \in Workers : v # w => ~LeaseOn(v, j)' /\ ~LeaseOn(v, j)
    BY <1>1, <1>2, <1>4, <2>3, NoLease, NoLeaseNext
  <2>8. \A v \in Workers, i \in Exports : v # w /\ i # j => (LeaseOn(v, i)' <=> LeaseOn(v, i))
    BY <2>2, <2>3, NoLeaseNext
  <2>9. \A v \in Workers, i \in Exports : LeaseOn(v, i)' <=> LeaseOn(v, i) \/ <<v, i>> \in {w} \X {j}
    BY <2>4, <2>5, <2>6, <2>7, <2>8
  <2> QED BY <2>9, LeasesBy
<1>7. /\ PhaseOf' = [i \in Exports |-> IF i \in {j} THEN PhaseIn(r) ELSE PhaseOf[i]]
      /\ SpentOn' = [i \in Exports |-> IF i \in {j} THEN r.attempts ELSE SpentOn[i]]
  BY <1>1, <1>2, OneRowMoves
<1>8. PhaseIn(r) = "out" /\ PhaseOf[j] = "waiting" /\ SpentOn[j] = row[j].attempts
  BY <1>2, <1>4, MappedRows, PhaseByStatus
<1>9. SpentOn' = [i \in Exports |-> IF i \in {j} THEN SpentOn[i] + 1 ELSE SpentOn[i]]
  BY <1>4, <1>7, <1>8
<1> QED BY <1>2, <1>6, <1>7, <1>8, <1>9 DEF Leased!Grant, Leased!Move

\* The reaper ends whatever attempt there is at a job.
LEMMA ReapsLease ==
  ASSUME ExportInv, NEW j \in Exports, Reap(j)
  PROVE  \E ph \in {"waiting", "dead"} : Leased!Expire({j}, ph)
<1>1. row \in [Exports -> ExportRow] /\ ExportTypes
  BY DEF ExportInv, ExportTypes
<1> DEFINE r == Released(row[j], row[j].attempts)
<1>2. row' = [row EXCEPT ![j] = r] /\ row[j].status = "RUNNING" /\ run' = run
  BY <1>1 DEF Reap
<1>3. row[j] \in ExportRow
  BY <1>1
<1>4. /\ r.status = IF row[j].attempts >= MaxAttempts THEN "DEAD" ELSE "FAILED"
      /\ r.attempts = row[j].attempts
  BY <1>3 DEF ExportRow, Released
<1> HIDE DEF r
<1>5. Leases' = {l \in Leases : l[2] \notin {j}}
  <2>1. row'[j] = r /\ \A i \in Exports : i # j => row'[i] = row[i]
    BY <1>1, <1>2
  <2>2. \A w \in Workers : ~LeaseOn(w, j)'
    BY <1>4, <2>1, NoLeaseNext
  <2>3. \A w \in Workers, i \in Exports : i # j => (LeaseOn(w, i)' <=> LeaseOn(w, i))
    BY <1>2, <2>1, NoLeaseNext
  <2> QED BY <2>2, <2>3, LeasesBy
<1>6. /\ PhaseOf' = [i \in Exports |-> IF i \in {j} THEN PhaseIn(r) ELSE PhaseOf[i]]
      /\ SpentOn' = [i \in Exports |-> IF i \in {j} THEN r.attempts ELSE SpentOn[i]]
  BY <1>1, <1>2, OneRowMoves
<1>7. PhaseOf[j] = "out" /\ SpentOn[j] = row[j].attempts /\ SpentOn' = SpentOn
  BY <1>2, <1>4, <1>6, MappedRows, PhaseByStatus
<1>8. row[j].attempts \in Nat /\ MaxAttempts \in Nat
  BY <1>3, ExportAssumption DEF ExportRow
<1>9. CASE row[j].attempts >= MaxAttempts
  <2>1. PhaseIn(r) = "dead"
    BY <1>4, <1>9, PhaseByStatus
  <2>2. Leased!Expire({j}, "dead")
    BY <1>5, <1>6, <1>7, <1>9, <2>1 DEF Leased!Expire, Leased!Move, Leased!Drop
  <2> QED BY <2>2
<1>10. CASE ~(row[j].attempts >= MaxAttempts)
  <2>1. PhaseIn(r) = "waiting" /\ row[j].attempts < MaxAttempts
    BY <1>4, <1>8, <1>10, PhaseByStatus
  <2>2. Leased!Expire({j}, "waiting")
    BY <1>5, <1>6, <1>7, <2>1 DEF Leased!Expire, Leased!Move, Leased!Drop
  <2> QED BY <2>2
<1> QED BY <1>9, <1>10

\* An attempt that ends gives up its lease, if it still has one.
LEMMA EndedLease ==
  ASSUME ExportInv, NEW w \in Workers, NEW x \in run[w], NEW r, Ends(w, x, r), r.status # "RUNNING"
  PROVE  /\ x.job \in Exports
         /\ Holds(w, x) =>
              /\ <<w, x.job>> \in Leases /\ row' = [row EXCEPT ![x.job] = r]
              /\ Leases' = Leases \ ({w} \X ({} \cup {x.job}))
         /\ ~Holds(w, x) => Leases' = Leases /\ row' = row
<1>1. /\ row \in [Exports -> ExportRow] /\ ExportTypes /\ run \in [Workers -> SUBSET Attempt]
      /\ x.job \in Exports /\ run' = [run EXCEPT ![w] = {}]
      /\ row' = IF Holds(w, x) THEN [row EXCEPT ![x.job] = r] ELSE row
  BY DEF ExportInv, ExportTypes, Attempt, Ends
<1>2. run'[w] = {} /\ \A v \in Workers : v # w => run'[v] = run[v]
  BY <1>1
<1>3. \A i \in Exports : ~LeaseOn(w, i)' /\ (LeaseOn(w, i) <=> x.job = i /\ Holds(w, x))
  BY <1>1, <1>2, NoLease, NoLeaseNext
<1>4. ASSUME Holds(w, x)
      PROVE  /\ <<w, x.job>> \in Leases /\ row' = [row EXCEPT ![x.job] = r]
             /\ Leases' = Leases \ ({w} \X ({} \cup {x.job}))
  <2>1. row' = [row EXCEPT ![x.job] = r]
    BY <1>1, <1>4
  <2>2. row'[x.job] = r /\ \A i \in Exports : i # x.job => row'[i] = row[i]
    BY <1>1, <2>1
  <2>3. \A v \in Workers : v # w => ~LeaseOn(v, x.job)' /\ ~LeaseOn(v, x.job)
    <3>1. row[x.job].lockedBy = w
      BY <1>4 DEF Holds
    <3> QED BY <1>1, <2>2, <3>1, NoLease, NoLeaseNext
  <2>4. \A v \in Workers, i \in Exports : v # w /\ i # x.job => (LeaseOn(v, i)' <=> LeaseOn(v, i))
    BY <1>2, <2>2, NoLeaseNext
  <2>5. LeaseOn(w, x.job)
    BY <1>1, <1>3, <1>4
  <2>6. \A v \in Workers, i \in Exports :
          LeaseOn(v, i)' <=> LeaseOn(v, i) /\ <<v, i>> \notin {w} \X ({} \cup {x.job})
    BY <1>3, <2>3, <2>4
  <2>7. Leases' = Leases \ ({w} \X ({} \cup {x.job}))
    BY <2>6, LeasesBy
  <2> QED BY <1>1, <2>1, <2>5, <2>7, LeasesBy
<1>5. ASSUME ~Holds(w, x)
      PROVE  Leases' = Leases /\ row' = row
  <2>1. row' = row
    BY <1>1, <1>5
  <2>2. \A v \in Workers, i \in Exports : LeaseOn(v, i)' <=> LeaseOn(v, i)
    BY <1>2, <1>3, <1>5, <2>1, NoLeaseNext
  <2> QED BY <2>1, <2>2, LeasesSame
<1> QED BY <1>1, <1>4, <1>5

\* Its holder decides what becomes of it; anybody else decides nothing.
LEMMA OutcomeStep ==
  ASSUME ExportInv, NEW w \in Workers, NEW x \in run[w],
         Complete(w, x) \/ Reschedule(w, x) \/ FailJob(w, x)
  PROVE  \/ UNCHANGED Leased!vars
         \/ Leased!Decide(w, x.job, {}) \/ Leased!Refund(w, x.job, {})
<1>1. /\ row \in [Exports -> ExportRow] /\ x.job \in Exports /\ row[x.job] \in ExportRow
      /\ x \in Attempt /\ (Holds(w, x) => x.spent = row[x.job].attempts)
      /\ MaxAttempts \in Nat /\ row[x.job].attempts \in Nat
  BY ExportAssumption DEF ExportInv, ExportTypes, Attempt, RunsRight, InStep, ExportRow
<1>2. PICK r : /\ Ends(w, x, r) /\ r.status # "RUNNING"
               /\ \/ r.status = "SUCCEEDED" /\ r.attempts = row[x.job].attempts
                  \/ r.status = "PENDING" /\ r.attempts = row[x.job].attempts - 1
                  \/ r.status = "DEAD" /\ r.attempts = row[x.job].attempts
                  \/ /\ r.status = "FAILED" /\ r.attempts = row[x.job].attempts
                     /\ ~(x.spent >= MaxAttempts)
  <2>1. CASE Complete(w, x)
    <3> DEFINE r == [row[x.job] EXCEPT !.status = "SUCCEEDED", !.lockedBy = Nothing]
    <3>1. Ends(w, x, r)
      BY <2>1 DEF Complete
    <3>2. r.status = "SUCCEEDED" /\ r.attempts = row[x.job].attempts
      BY <1>1 DEF ExportRow
    <3> HIDE DEF r
    <3> QED BY <3>1, <3>2
  <2>2. CASE Reschedule(w, x)
    <3> DEFINE r == [row[x.job] EXCEPT !.status = "PENDING", !.lockedBy = Nothing, !.attempts = @ - 1]
    <3>1. Ends(w, x, r)
      BY <2>2 DEF Reschedule
    <3>2. r.status = "PENDING" /\ r.attempts = row[x.job].attempts - 1
      BY <1>1 DEF ExportRow
    <3> HIDE DEF r
    <3> QED BY <3>1, <3>2
  <2>3. CASE FailJob(w, x)
    <3> DEFINE r == Released(row[x.job], x.spent)
    <3>1. Ends(w, x, r)
      BY <2>3 DEF FailJob
    <3>2. /\ r.status = IF x.spent >= MaxAttempts THEN "DEAD" ELSE "FAILED"
          /\ r.attempts = row[x.job].attempts
      BY <1>1 DEF ExportRow, Released
    <3> HIDE DEF r
    <3> QED BY <3>1, <3>2
  <2> QED BY <2>1, <2>2, <2>3
<1>3. CASE ~Holds(w, x)
  <2>1. Leases' = Leases /\ row' = row
    BY <1>2, <1>3, EndedLease
  <2>2. PhaseOf' = PhaseOf /\ SpentOn' = SpentOn
    BY <2>1, RowsMapped
  <2> QED BY <2>1, <2>2 DEF Leased!vars
<1>4. CASE Holds(w, x)
  <2> DEFINE j == x.job
  <2>1. /\ <<w, j>> \in Leases /\ row' = [row EXCEPT ![j] = r]
        /\ Leases' = Leases \ ({w} \X ({} \cup {j}))
    BY <1>2, <1>4, EndedLease
  <2>2. /\ PhaseOf' = [i \in Exports |-> IF i \in {j} THEN PhaseIn(r) ELSE PhaseOf[i]]
        /\ SpentOn' = [i \in Exports |-> IF i \in {j} THEN r.attempts ELSE SpentOn[i]]
    BY <1>1, <2>1, OneRowMoves
  <2>3. SpentOn[j] = row[j].attempts /\ SpentOn \in [Exports -> Nat]
    BY <1>1, MappedRows DEF ExportRow
  <2>4. CASE r.status = "PENDING" /\ r.attempts = row[j].attempts - 1
    <3>1. PhaseIn(r) = "waiting"
      BY <2>4, PhaseByStatus
    <3>2. SpentOn' = [SpentOn EXCEPT ![j] = @ - 1]
      BY <2>2, <2>3, <2>4
    <3> QED BY <2>1, <2>2, <3>1, <3>2 DEF Leased!Refund, Leased!Move
  <2>5. CASE r.status \in {"SUCCEEDED", "DEAD", "FAILED"} /\ r.attempts = row[j].attempts
             /\ (r.status = "FAILED" => ~(x.spent >= MaxAttempts))
    <3>1. SpentOn' = SpentOn
      BY <2>2, <2>3, <2>5, MappedRows
    <3>2. \/ PhaseIn(r) = "done"
          \/ PhaseIn(r) = "dead"
          \/ PhaseIn(r) = "waiting" /\ SpentOn[j] < MaxAttempts
      BY <1>1, <1>4, <2>3, <2>5, PhaseByStatus
    <3>3. \/ Leased!Move({j}, "done")
          \/ Leased!Move({j}, "dead")
          \/ SpentOn[j] < [i \in Exports |-> MaxAttempts][j] /\ Leased!Move({j}, "waiting")
      BY <1>1, <2>2, <3>2 DEF Leased!Move
    <3> QED BY <2>1, <3>1, <3>3 DEF Leased!Decide
  <2> QED BY <1>2, <2>4, <2>5
<1> QED BY <1>3, <1>4

\* A process that dies forgets its lease.
LEMMA DieStep ==
  ASSUME ExportInv, NEW w \in Workers, Die(w)
  PROVE  Leased!Forget(w, Exports)
<1>1. run'[w] = {} /\ (\A v \in Workers : v # w => run'[v] = run[v]) /\ row' = row
  BY DEF Die, ExportInv, ExportTypes
<1>2. \A v \in Workers, i \in Exports : LeaseOn(v, i)' <=> LeaseOn(v, i) /\ <<v, i>> \notin {w} \X Exports
  BY <1>1, NoLeaseNext
<1>3. Leases' = Leases \ ({w} \X Exports)
  BY <1>2, LeasesBy
<1>4. PhaseOf' = PhaseOf /\ SpentOn' = SpentOn
  BY <1>1, RowsMapped
<1> QED BY <1>3, <1>4 DEF Leased!Forget

\* The handler goes on, and writes at most a payload or a result.
LEMMA HandlerStutters ==
  ASSUME ExportInv, NEW w \in Workers, NEW x \in run[w], NEW step, NEW op, Continues(w, x, step, op),
         \/ row' = row
         \/ \E o : row' = [row EXCEPT ![x.job] = [row[x.job] EXCEPT !.payload = o]]
         \/ \E o : row' = [row EXCEPT ![x.job] = [row[x.job] EXCEPT !.result = o]]
  PROVE  UNCHANGED Leased!vars
<1>1. /\ row \in [Exports -> ExportRow] /\ ExportTypes /\ run \in [Workers -> SUBSET Attempt]
      /\ x.job \in Exports /\ x \in Attempt
  BY DEF ExportInv, ExportTypes, Attempt
<1>2. \A i \in Exports : /\ row'[i].status = row[i].status /\ row'[i].attempts = row[i].attempts
                         /\ row'[i].lockedBy = row[i].lockedBy
  <2>1. CASE row' = row
    BY <2>1
  <2>2. ASSUME NEW r, row' = [row EXCEPT ![x.job] = r], r.status = row[x.job].status,
               r.attempts = row[x.job].attempts, r.lockedBy = row[x.job].lockedBy
        PROVE  \A i \in Exports : /\ row'[i].status = row[i].status
                                  /\ row'[i].attempts = row[i].attempts
                                  /\ row'[i].lockedBy = row[i].lockedBy
    <3>1. ASSUME NEW i \in Exports PROVE row'[i] = IF i = x.job THEN r ELSE row[i]
      BY <1>1, <2>2
    <3> QED BY <2>2, <3>1
  <2>3. row[x.job] \in ExportRow
    BY <1>1
  <2>4. \A o : LET r == [row[x.job] EXCEPT !.payload = o]
              IN  /\ r.status = row[x.job].status /\ r.attempts = row[x.job].attempts
                  /\ r.lockedBy = row[x.job].lockedBy
    BY <2>3 DEF ExportRow
  <2>5. \A o : LET r == [row[x.job] EXCEPT !.result = o]
              IN  /\ r.status = row[x.job].status /\ r.attempts = row[x.job].attempts
                  /\ r.lockedBy = row[x.job].lockedBy
    BY <2>3 DEF ExportRow
  <2>6. CASE \E o : row' = [row EXCEPT ![x.job] = [row[x.job] EXCEPT !.payload = o]]
    <3>1. PICK o : row' = [row EXCEPT ![x.job] = [row[x.job] EXCEPT !.payload = o]]
      BY <2>6
    <3> QED BY <2>2, <2>4, <3>1
  <2>7. CASE \E o : row' = [row EXCEPT ![x.job] = [row[x.job] EXCEPT !.result = o]]
    <3>1. PICK o : row' = [row EXCEPT ![x.job] = [row[x.job] EXCEPT !.result = o]]
      BY <2>7
    <3> QED BY <2>2, <2>5, <3>1
  <2> QED BY <2>1, <2>6, <2>7
<1> DEFINE y == [x EXCEPT !.step = step, !.op = op]
<1>3. y.job = x.job
  BY <1>1 DEF Attempt
<1>4. run'[w] = {y} /\ \A v \in Workers : v # w => run'[v] = run[v]
  BY <1>1 DEF Continues
<1> HIDE DEF y
<1>5. \A i \in Exports : LeaseOn(w, i)' <=> LeaseOn(w, i)
  <2>1. \A i \in Exports : LeaseOn(w, i) <=> x.job = i /\ Holds(w, x)
    BY <1>1, NoLease
  <2>2. Holds(w, y)' <=> Holds(w, x)
    BY <1>1, <1>2, <1>3 DEF Holds
  <2>3. \A i \in Exports : LeaseOn(w, i)' <=> y.job = i /\ Holds(w, y)'
    BY <1>4 DEF LeaseOn
  <2> QED BY <1>3, <2>1, <2>2, <2>3
<1>6. \A v \in Workers, i \in Exports : LeaseOn(v, i)' <=> LeaseOn(v, i)
  BY <1>2, <1>4, <1>5, NoLeaseNext
<1>7. Leases' = Leases
  BY <1>6, LeasesSame
<1>8. PhaseOf' = PhaseOf /\ SpentOn' = SpentOn
  BY <1>2, RowsMapped
<1> QED BY <1>7, <1>8 DEF Leased!vars

\* The queue that the export is modelled over is the one the queue was proved to
\* be: every step of an export, the handler's writes by id among them, is one
\* step of the leased queue or none.
THEOREM ExportImplementsLeases == Spec => ImplementsLeasedQueue
<1>1. Init => Leased!Init
  <2> SUFFICES ASSUME Init PROVE Leased!Init
    OBVIOUS
  <2>1. \A j \in Exports : row[j].status = "none" /\ row[j].attempts = 0
    BY DEF Init
  <2>2. PhaseOf = [j \in Exports |-> "none"] /\ SpentOn = [j \in Exports |-> 0]
    BY <2>1, MappedRows, PhaseByStatus
  <2>3. Leases = {}
    BY DEF Init, Leases
  <2> QED BY <2>2, <2>3 DEF Leased!Init
<1>2. ASSUME ExportInv, [Next]_vars
      PROVE  [Leased!Next]_(Leased!vars)
  <2>1. ASSUME UNCHANGED <<row, run>> PROVE UNCHANGED Leased!vars
    <3>1. Leases' = Leases
      BY <2>1 DEF Leases, Holds
    <3>2. PhaseOf' = PhaseOf /\ SpentOn' = SpentOn
      BY <2>1, RowsMapped
    <3> QED BY <3>1, <3>2 DEF Leased!vars
  <2>2. ASSUME NEW p \in Requesters, AskExport(p) \/ \E j \in Exports : EnqueueExport(p, j)
        PROVE  [Leased!Next]_(Leased!vars)
    <3>1. CASE AskExport(p)
      BY <2>1, <3>1 DEF AskExport
    <3>2. CASE \E j \in Exports : EnqueueExport(p, j)
      BY <1>2, <3>2, ScreenStep DEF Leased!Next
    <3> QED BY <2>2, <3>1, <3>2
  <2>3. ASSUME NEW j \in Exports, Retry(j) \/ Reap(j) \/ \E w \in Workers : Claim(w, j)
        PROVE  [Leased!Next]_(Leased!vars)
    <3>1. CASE Retry(j)
      BY <1>2, <3>1, ScreenStep DEF Leased!Next
    <3>2. CASE Reap(j)
      <4>1. {j} \in SUBSET Exports
        OBVIOUS
      <4> QED BY <1>2, <3>2, <4>1, ReapsLease DEF Leased!Next
    <3>3. ASSUME NEW w \in Workers, Claim(w, j)
          PROVE  Leased!Next
      <4>1. {j} \in SUBSET Exports /\ TRUE \in BOOLEAN
        OBVIOUS
      <4> QED BY <1>2, <3>3, <4>1, ClaimStep DEF Leased!Next
    <3> QED BY <2>3, <3>1, <3>2, <3>3
  <2>4. ASSUME NEW w \in Workers, Die(w)
        PROVE  Leased!Next
    <3>1. Exports \in SUBSET Exports
      OBVIOUS
    <3> QED BY <1>2, <2>4, <3>1, DieStep DEF Leased!Next
  <2>5. ASSUME NEW w \in Workers, NEW x \in run[w], Complete(w, x) \/ Reschedule(w, x) \/ FailJob(w, x)
        PROVE  [Leased!Next]_(Leased!vars)
    <3>1. {} \in SUBSET Exports /\ x.job \in Exports
      BY <1>2 DEF ExportInv, ExportTypes, Attempt
    <3> QED BY <1>2, <2>5, <3>1, OutcomeStep DEF Leased!Next
  <2>6. ASSUME NEW w \in Workers, NEW x \in run[w],
               \/ Throws(w, x) \/ Poll(w, x) \/ RecordId(w, x) \/ ClearId(w, x) \/ WriteReport(w, x)
               \/ \E o \in Fresh, heard \in BOOLEAN : StartExport(w, x, o, heard)
        PROVE  UNCHANGED Leased!vars
    <3>1. CASE Throws(w, x)
      BY <1>2, <3>1, HandlerStutters DEF Throws
    <3>2. CASE Poll(w, x)
      BY <1>2, <3>2, HandlerStutters DEF Poll
    <3>3. CASE RecordId(w, x)
      BY <1>2, <3>3, HandlerStutters DEF RecordId, WriteRow
    <3>4. CASE ClearId(w, x)
      BY <1>2, <3>4, HandlerStutters DEF ClearId, WriteRow
    <3>5. CASE WriteReport(w, x)
      BY <1>2, <3>5, HandlerStutters DEF WriteReport, WriteRow
    <3>6. CASE \E o \in Fresh, heard \in BOOLEAN : StartExport(w, x, o, heard)
      BY <1>2, <3>6, HandlerStutters DEF StartExport
    <3> QED BY <2>6, <3>1, <3>2, <3>3, <3>4, <3>5, <3>6
  <2>7. ASSUME NEW o \in Operations, NEW state, OperationEnds(o, state)
        PROVE  UNCHANGED Leased!vars
    BY <2>1, <2>7 DEF OperationEnds
  <2>8. ASSUME NEW w \in Workers, NEW x \in run[w],
               Handle(w, x) \/ Throws(w, x) \/ \E o \in Fresh : StartExport(w, x, o, FALSE)
        PROVE  [Leased!Next]_(Leased!vars)
    BY <2>5, <2>6, <2>8 DEF Handle
  <2>9. CASE UNCHANGED vars
    BY <2>1, <2>9 DEF vars
  <2> QED BY <1>2, <2>2, <2>3, <2>4, <2>7, <2>8, <2>9 DEF Next
<1> QED BY <1>1, <1>2, ExportInvariant, PTL DEF Spec, ImplementsLeasedQueue, Leased!Spec
=============================================================================
