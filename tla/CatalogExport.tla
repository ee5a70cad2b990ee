--------------------------- MODULE CatalogExport ----------------------------
(***************************************************************************)
(* The catalog export: a job whose handler starts a bulk operation in      *)
(* Shopify, writes the id of it into its own payload, and polls it over as *)
(* many attempts as it takes.  Starting an operation is not idempotent.    *)
(*                                                                         *)
(* Of the queue the model keeps what the handler depends on: the claim     *)
(* with the payload it returned, the budget, the reaper, and the writes of *)
(* the handler itself, which are by id and not under the claim.            *)
(***************************************************************************)
EXTENDS Naturals

CONSTANTS
  Exports,      \* ids of the catalog.export rows that may ever exist
  Requesters,   \* requests that ask for an export
  Workers,
  Operations,   \* bulk operations Shopify may start: bounds their number
  Nothing,      \* a NULL lockedBy, an empty payload or result
  MaxAttempts   \* EXPORT_MAX_ATTEMPTS

ASSUME ExportAssumption ==
  /\ Nothing \notin Workers \cup Operations
  /\ MaxAttempts \in Nat \ {0}

VARIABLES
  row,        \* the Job table
  asking,     \* requests that saw no export in flight and have yet to enqueue
  run,        \* the attempt each worker executes: a set of at most one
  operation,  \* Shopify: the state of each bulk operation
  startedFor, \* Shopify: the export each operation was started for
  slipped,    \* history: exports that lost the id of an operation before it was
              \* written down, or were taken from an attempt still at work
  charged     \* history: attempts that failed since the budget was last fresh

vars == <<row, asking, run, operation, startedFor, slipped, charged>>

InFlight  == {j \in Exports : row[j].status \in {"PENDING", "RUNNING", "FAILED"}}
Fresh     == {o \in Operations : operation[o] = "none"}
Holds(w, x) == row[x.job].status = "RUNNING" /\ row[x.job].lockedBy = w

Init ==
  /\ row = [j \in Exports |-> [status |-> "none", attempts |-> 0, lockedBy |-> Nothing,
                               payload |-> Nothing, result |-> Nothing]]
  /\ asking = {}
  /\ run = [w \in Workers |-> {}]
  /\ operation = [o \in Operations |-> "none"]
  /\ startedFor = [o \in Operations |-> Nothing]
  /\ slipped = {}
  /\ charged = [j \in Exports |-> 0]

shopify == <<operation, startedFor>>

-----------------------------------------------------------------------------
(* The screen.                                                             *)

\* requestCatalogExport, first half: answered with the export in flight, if
\* there is one.
AskExport(p) ==
  /\ p \notin asking /\ InFlight = {}
  /\ asking' = asking \cup {p}
  /\ UNCHANGED <<row, run, shopify, slipped, charged>>

EnqueueExport(p, j) ==
  /\ p \in asking /\ row[j].status = "none"
  /\ asking' = asking \ {p}
  /\ row' = [row EXCEPT ![j].status = "PENDING"]
  /\ UNCHANGED <<run, shopify, slipped, charged>>

Retry(j) ==
  /\ row[j].status \in {"FAILED", "DEAD"}
  /\ row' = [row EXCEPT ![j].status = "PENDING", ![j].attempts = 0, ![j].lockedBy = Nothing]
  /\ charged' = [charged EXCEPT ![j] = 0]
  /\ UNCHANGED <<asking, run, shopify, slipped>>

-----------------------------------------------------------------------------
(* The queue.                                                              *)

Claim(w, j) ==
  /\ run[w] = {}
  /\ row[j].status \in {"PENDING", "FAILED"} /\ row[j].attempts < MaxAttempts
  /\ row' = [row EXCEPT ![j].status = "RUNNING", ![j].attempts = @ + 1, ![j].lockedBy = w]
  /\ run' = [run EXCEPT ![w] =
       {[job |-> j, spent |-> row[j].attempts + 1, op |-> row[j].payload,
         step |-> IF row[j].payload = Nothing THEN "begin" ELSE "poll"]}]
  /\ UNCHANGED <<asking, shopify, slipped, charged>>

\* An attempt of j is over and did not get the export done.
Charge(j) == charged' = [charged EXCEPT ![j] = IF @ < MaxAttempts THEN @ + 1 ELSE @]

Released(r, spent) ==
  [r EXCEPT !.status = IF spent >= MaxAttempts THEN "DEAD" ELSE "FAILED", !.lockedBy = Nothing]

\* reapStaleJobs
Reap(j) ==
  /\ row[j].status = "RUNNING"
  /\ row' = [row EXCEPT ![j] = Released(@, @.attempts)]
  /\ Charge(j)
  /\ slipped' = IF \E w \in Workers : \E x \in run[w] : x.job = j /\ Holds(w, x)
                 THEN slipped \cup {j} ELSE slipped
  /\ UNCHANGED <<asking, run, shopify>>

\* Mutation: an attempt ends the row whether or not it still holds it.
MutEnds(w, x, r) ==
  /\ row' = [row EXCEPT ![x.job] = r]
  /\ run' = [run EXCEPT ![w] = {}]
  /\ UNCHANGED <<asking, shopify, slipped>>

\* The attempt x of w ends; r is what the row becomes if it is still held.
Ends(w, x, r) ==
  /\ row' = IF Holds(w, x) THEN [row EXCEPT ![x.job] = r] ELSE row
  /\ run' = [run EXCEPT ![w] = {}]
  /\ UNCHANGED <<asking, shopify, slipped>>

Complete(w, x) ==
  /\ x.step = "complete"
  /\ Ends(w, x, [row[x.job] EXCEPT !.status = "SUCCEEDED", !.lockedBy = Nothing])
  /\ UNCHANGED charged

\* Mutation: waiting counts as an attempt.
MutReschedule(w, x) ==
  /\ x.step = "later"
  /\ Ends(w, x, [row[x.job] EXCEPT !.status = "PENDING", !.lockedBy = Nothing])
  /\ UNCHANGED charged

Reschedule(w, x) ==
  /\ x.step = "later"
  /\ Ends(w, x, [row[x.job] EXCEPT !.status = "PENDING", !.lockedBy = Nothing, !.attempts = @ - 1])
  /\ UNCHANGED charged

FailJob(w, x) ==
  /\ x.step = "fail"
  /\ Ends(w, x, Released(row[x.job], x.spent))
  /\ IF Holds(w, x) THEN Charge(x.job) ELSE UNCHANGED charged

\* The process dies; an operation whose id was not written down is forgotten.
Die(w) ==
  /\ run[w] # {}
  /\ run' = [run EXCEPT ![w] = {}]
  /\ slipped' = slipped \cup {x.job : x \in {y \in run[w] : y.step = "record"}}
  /\ UNCHANGED <<row, asking, shopify, charged>>

-----------------------------------------------------------------------------
(* The handler.                                                            *)

Continues(w, x, step, op) == run' = [run EXCEPT ![w] = {[x EXCEPT !.step = step, !.op = op]}]

\* bulkOperationRunQuery.  An operation that runs and is not heard of is lost.
StartExport(w, x, o, heard) ==
  /\ x.step = "begin" /\ o \in Fresh
  /\ operation' = [operation EXCEPT ![o] = "running"]
  /\ startedFor' = [startedFor EXCEPT ![o] = x.job]
  /\ IF heard THEN Continues(w, x, "record", o) ELSE Continues(w, x, "fail", Nothing)
  /\ slipped' = IF heard THEN slipped ELSE slipped \cup {x.job}
  /\ UNCHANGED <<row, asking, charged>>

\* A refusal, or a call or a statement that fails before anything happened.
Throws(w, x) ==
  /\ x.step \in {"begin", "record", "poll", "clear", "report"}
  /\ Continues(w, x, "fail", x.op)
  /\ slipped' = IF x.step = "record" THEN slipped \cup {x.job} ELSE slipped
  /\ UNCHANGED <<row, asking, shopify, charged>>

\* job.update by id: the claim is not asked for.
WriteRow(x, r) ==
  /\ row' = [row EXCEPT ![x.job] = r]
  /\ UNCHANGED <<asking, shopify, slipped, charged>>

\* Mutation: the id stays in the process.
MutRecordId(w, x) ==
  /\ x.step = "record"
  /\ Continues(w, x, "poll", x.op)
  /\ UNCHANGED <<row, asking, shopify, slipped, charged>>

RecordId(w, x) ==
  /\ x.step = "record"
  /\ Continues(w, x, "poll", x.op)
  /\ WriteRow(x, [row[x.job] EXCEPT !.payload = x.op])

\* Mutation: whatever is not completed is still running.
MutOutcome(state) == IF state = "completed" THEN "report" ELSE "later"

\* Mutation: whatever is not running is done.
MutAnyOutcome(state) == IF state = "running" THEN "later" ELSE "report"

\* What the last status check of an attempt leads to.  An operation on its way
\* to being cancelled counts as one that ended badly.
Outcome(state) ==
  CASE state = "running" -> "later"
    [] state = "completed" -> "report"
    [] state \in {"canceling", "ended"} -> "clear"

\* runCatalogExport: status checks within the budget, and the report.
Poll(w, x) ==
  /\ x.step = "poll"
  /\ Continues(w, x, Outcome(operation[x.op]), x.op)
  /\ UNCHANGED <<row, asking, shopify, slipped, charged>>

ClearId(w, x) ==
  /\ x.step = "clear"
  /\ Continues(w, x, "fail", x.op)
  /\ WriteRow(x, [row[x.job] EXCEPT !.payload = Nothing])

WriteReport(w, x) ==
  /\ x.step = "report"
  /\ Continues(w, x, "complete", x.op)
  /\ WriteRow(x, [row[x.job] EXCEPT !.result = x.op])

\* What an attempt does next when every call answers.  Shopify refuses to
\* start an operation where the model has none left.
Handle(w, x) ==
  \/ \E o \in Fresh : StartExport(w, x, o, TRUE)
  \/ Fresh = {} /\ x.step = "begin" /\ Throws(w, x)
  \/ RecordId(w, x)
  \/ Poll(w, x)
  \/ ClearId(w, x)
  \/ WriteReport(w, x)
  \/ Complete(w, x)
  \/ Reschedule(w, x)
  \/ FailJob(w, x)

-----------------------------------------------------------------------------
(* Shopify.                                                                *)

OperationEnds(o, state) ==
  /\ \/ operation[o] = "running" /\ state \in {"completed", "canceling", "ended"}
     \/ operation[o] = "canceling" /\ state = "ended"
  /\ operation' = [operation EXCEPT ![o] = state]
  /\ UNCHANGED <<row, asking, run, startedFor, slipped, charged>>

Next ==
  \/ \E p \in Requesters : AskExport(p) \/ \E j \in Exports : EnqueueExport(p, j)
  \/ \E j \in Exports : Retry(j) \/ Reap(j) \/ \E w \in Workers : Claim(w, j)
  \/ \E w \in Workers :
       \/ Die(w)
       \/ \E x \in run[w] :
            \/ Handle(w, x)
            \/ Throws(w, x)
            \/ \E o \in Fresh : StartExport(w, x, o, FALSE)
  \/ \E o \in Operations : \E state \in {"completed", "canceling", "ended"} :
       OperationEnds(o, state)

Spec == Init /\ [][Next]_vars

-----------------------------------------------------------------------------
\* A finished export shows a report, and the report is of an operation that
\* was started for it and completed, whichever of its attempts wrote it.
ReportIsReal ==
  \A j \in Exports :
    /\ row[j].status = "SUCCEEDED" => row[j].result # Nothing
    /\ row[j].result # Nothing =>
         operation[row[j].result] = "completed" /\ startedFor[row[j].result] = j

\* A retry resumes polling: an export has a second operation besides one that
\* has not ended badly only if it lost an id before writing it down, or was
\* taken from an attempt that was still at work.
ResumesPolling ==
  \A o, p \in Operations :
    /\ o # p /\ startedFor[o] # Nothing /\ startedFor[o] = startedFor[p]
    /\ {operation[o], operation[p]} \subseteq {"running", "completed"}
    => startedFor[o] \in slipped

\* Waiting for a slow operation costs nothing: an export is dead only after as
\* many failed or abandoned attempts as it may have.
DeadIsEarned == \A j \in Exports : row[j].status = "DEAD" => charged[j] >= MaxAttempts

\* The id of an operation, once written down, stays in the payload until the
\* operation has ended badly.
IdOutlivesAttempt ==
  [][\A j \in Exports :
       row[j].payload # Nothing /\ row'[j].payload # row[j].payload =>
         operation[row[j].payload] \in {"canceling", "ended"}]_vars

-----------------------------------------------------------------------------
\* Workers go on, Shopify ends what it runs, the reaper comes round.
Fairness ==
  /\ \A w \in Workers : WF_vars(\E x \in run[w] : Handle(w, x))
  /\ \A j \in Exports : WF_vars(\E w \in Workers : Claim(w, j))
  /\ \A j \in Exports : WF_vars(Reap(j) /\ \A w \in Workers : \A x \in run[w] : ~Holds(w, x))
  /\ \A o \in Operations : WF_vars(OperationEnds(o, "completed") \/ OperationEnds(o, "ended"))

FairSpec == Spec /\ Fairness

\* An export that was asked for ends, with a report or dead, once merchants
\* stop pressing Retry.
ExportEnds ==
  (\E j \in Exports : []<><<Retry(j)>>_vars) \/
  \A j \in Exports : row[j].status = "PENDING" ~> row[j].status \in {"SUCCEEDED", "DEAD"}
=============================================================================
