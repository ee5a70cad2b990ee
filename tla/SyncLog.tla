------------------------------ MODULE SyncLog -------------------------------
(***************************************************************************)
(* The sync log of the app (SyncLog.tsx, listJobs in sync-log.ts): it asks *)
(* for the newest rows on a timer, whatever it shows, and after a Retry.   *)
(* Answers may overtake each other, and an answer replaces the screen.     *)
(***************************************************************************)
EXTENDS Naturals, FiniteSets

CONSTANTS
  LogRows,       \* bound: Job rows, numbered as they are created
  LogPage,       \* PAGE_SIZE
  MaxLoads,      \* requests for the list under way
  MaxChanges,    \* bound: changes of the rows
  MaxErrors      \* bound: requests that fail

ASSUME LogAssumption == {LogRows, LogPage, MaxLoads} \subseteq Nat \ {0}

RowIds == 1..LogRows

VARIABLES
  job,        \* status of each row; "alien": its kind is not known to this deploy
  changes,    \* changes so far
  errors,     \* failures so far
  mounted,    \* the screen: none, mounted, or gone
  loads,      \* per slot: idle, asked, or the list that was read; awaited: a Retry
              \* waits for it
  view,       \* the screen: loading, ready or failed, and the rows it lists
  retrying,   \* the row being retried; 0: none
  retry       \* that request: none, asked, reload, loading, over
logVars == <<job, changes, errors, mounted, loads, view, retrying, retry>>

NoRows == [i \in RowIds |-> "none"]

NoLoad == [at |-> "idle", rows |-> NoRows, awaited |-> FALSE]
Asked(awaited) == [at |-> "asked", rows |-> NoRows, awaited |-> awaited]

LogInit ==
  /\ job = NoRows /\ changes = 0 /\ errors = 0
  /\ mounted = "none" /\ loads = [l \in 1..MaxLoads |-> NoLoad]
  /\ view = [state |-> "loading", rows |-> NoRows]
  /\ retrying = 0 /\ retry = "none"

screenPart == <<mounted, loads, view, retrying, retry>>

-----------------------------------------------------------------------------
(* The queue, as far as the log shows it.                                  *)

NextStatus(s) ==
  CASE s = "pending" -> {"running"}
    [] s = "running" -> {"succeeded", "failed", "dead"}
    [] s = "failed" -> {"running"}
    [] OTHER -> {}

Work(i) ==
  /\ changes < MaxChanges
  /\ \E s \in NextStatus(job[i]) : job' = [job EXCEPT ![i] = s]
  /\ changes' = changes + 1
  /\ UNCHANGED <<errors, screenPart>>

Arrive(i, status) ==
  /\ job[i] = "none" /\ \A k \in 1..(i - 1) : job[k] # "none"
  /\ changes < MaxChanges
  /\ job' = [job EXCEPT ![i] = status] /\ changes' = changes + 1
  /\ UNCHANGED <<errors, screenPart>>

-----------------------------------------------------------------------------
(* The list.                                                               *)

\* The newest LogPage rows.
Listed == [i \in RowIds |->
  IF Cardinality({k \in RowIds : k > i /\ job[k] # "none"}) < LogPage THEN job[i] ELSE "none"]

\* toSummary throws on a kind that is not known, and with it the whole list.
Unlistable(rows) == \E i \in RowIds : rows[i] = "alien"

\* The effect: it loads at once, and its cleanup stops the timer.
Mount ==
  /\ mounted = "none" /\ mounted' = "mounted"
  /\ loads' = [loads EXCEPT ![1] = Asked(FALSE)]
  /\ UNCHANGED <<job, changes, errors, view, retrying, retry>>

Unmount ==
  /\ mounted = "mounted" /\ mounted' = "gone"
  /\ UNCHANGED <<job, changes, errors, loads, view, retrying, retry>>

\* Mutation: only while a row on the screen is under way.
MutRefreshDue == \E i \in RowIds : view.rows[i] \in {"pending", "running"}

\* setInterval runs whatever the screen shows.
RefreshDue == TRUE

Ask(l) ==
  /\ mounted = "mounted" /\ RefreshDue /\ loads[l].at = "idle"
  /\ loads' = [loads EXCEPT ![l] = Asked(FALSE)]
  /\ UNCHANGED <<job, changes, errors, mounted, view, retrying, retry>>

ReadRows(l) ==
  /\ mounted = "mounted" /\ loads[l].at = "asked"
  /\ loads' = [loads EXCEPT ![l].at = "read", ![l].rows = Listed]
  /\ UNCHANGED <<job, changes, errors, mounted, view, retrying, retry>>

Loaded(l) ==
  /\ loads' = [loads EXCEPT ![l] = NoLoad]
  /\ retry' = IF loads[l].awaited THEN "over" ELSE retry
  /\ UNCHANGED <<job, changes, mounted, retrying>>

\* A list, or the failure that takes its place.
Display(l) ==
  /\ mounted = "mounted" /\ loads[l].at = "read"
  /\ view' = IF Unlistable(loads[l].rows) THEN [state |-> "failed", rows |-> NoRows]
             ELSE [state |-> "ready", rows |-> loads[l].rows]
  /\ Loaded(l)
  /\ UNCHANGED errors

LoadFails(l) ==
  /\ mounted = "mounted" /\ loads[l].at # "idle" /\ errors < MaxErrors
  /\ errors' = errors + 1
  /\ view' = [state |-> "failed", rows |-> NoRows]
  /\ Loaded(l)

-----------------------------------------------------------------------------
(* Retry: the buttons are disabled while one is under way.                 *)

PressRetry(i) ==
  /\ mounted = "mounted"
  /\ retrying = 0 /\ view.rows[i] \in {"failed", "dead"} /\ changes < MaxChanges
  /\ retrying' = i /\ retry' = "asked"
  /\ UNCHANGED <<job, changes, errors, mounted, loads, view>>

\* retryJob puts the row back if it is still FAILED or DEAD, and throws if not.
Requeued ==
  /\ retry = "asked"
  /\ IF job[retrying] \in {"failed", "dead"}
     THEN /\ job' = [job EXCEPT ![retrying] = "pending"] /\ changes' = changes + 1
          /\ retry' = "reload"
     ELSE retry' = "over" /\ UNCHANGED <<job, changes>>
  /\ UNCHANGED <<errors, mounted, loads, view, retrying>>

\* The request fails, or its answer does.
RetryFails ==
  /\ retry \in {"asked", "reload"} /\ errors < MaxErrors
  /\ errors' = errors + 1 /\ retry' = "over"
  /\ UNCHANGED <<job, changes, mounted, loads, view, retrying>>

\* await load(), which does not throw.
Reload(l) ==
  /\ mounted = "mounted" /\ retry = "reload" /\ loads[l].at = "idle"
  /\ loads' = [loads EXCEPT ![l] = Asked(TRUE)] /\ retry' = "loading"
  /\ UNCHANGED <<job, changes, errors, mounted, view, retrying>>

\* finally
RetryOver ==
  /\ retry = "over"
  /\ retrying' = 0 /\ retry' = "none"
  /\ UNCHANGED <<job, changes, errors, mounted, loads, view>>

LogNext ==
  \/ \E i \in RowIds : Work(i) \/ PressRetry(i)
                       \/ \E status \in {"pending", "alien"} : Arrive(i, status)
  \/ \E l \in 1..MaxLoads : Ask(l) \/ ReadRows(l) \/ Display(l) \/ LoadFails(l) \/ Reload(l)
  \/ Mount \/ Unmount \/ Requeued \/ RetryFails \/ RetryOver

\* The timer goes on firing, and what was asked is answered.
LogFairness ==
  /\ \A l \in 1..MaxLoads :
       WF_logVars(Ask(l)) /\ WF_logVars(ReadRows(l)) /\ WF_logVars(Display(l)) /\ SF_logVars(Reload(l))
  /\ WF_logVars(Requeued) /\ WF_logVars(RetryOver)
LogSpec == LogInit /\ [][LogNext]_logVars /\ LogFairness

-----------------------------------------------------------------------------
\* Whatever was lost, late or out of order: once the queue is quiet and requests
\* no longer fail, a log that stays on the screen shows the rows as they are and
\* goes on showing them, with no button left disabled, unless one of the rows it
\* would list is of a kind this deploy does not know.
LogCatchesUp ==
  <>[](mounted = "mounted" =>
         /\ retrying = 0
         /\ IF Unlistable(Listed) THEN view.state = "failed"
            ELSE view = [state |-> "ready", rows |-> Listed])
=============================================================================
