--------------------------- MODULE CatalogReport ----------------------------
(***************************************************************************)
(* The catalog section of the app (CatalogReport.tsx) and the endpoint it  *)
(* polls (latestCatalogExport in sync-log.ts), which reads the newest      *)
(* export and the newest report in two queries of their own.  Answers may  *)
(* arrive in any order.                                                    *)
(***************************************************************************)
EXTENDS Naturals, FiniteSetsExt

CONSTANTS
  LastExport,    \* bound: exports ever requested; the first ran before
  MaxPolls       \* bound: requests of the screen under way

ASSUME ReportAssumption == LastExport \in Nat \ {0} /\ MaxPolls \in Nat \ {0}

ExportIds == 1..LastExport

VARIABLES
  exports,    \* status and whether the report is written, per catalog.export row
  polls,      \* requests under way: what they have read so far
  shown,      \* the screen: export, its status, the export whose report it shows
  pressed,    \* pending: the POST under way
  mine,       \* history: the newest export this screen was told it had started
  overtaken,  \* history: an answer read before that one arrived after it
  reopened    \* history: exports that Retry in the sync log put back
reportVars == <<exports, polls, shown, pressed, mine, overtaken, reopened>>

Known == {e \in ExportIds : exports[e].status # "none"}
Newest == Max({0} \cup Known)
NewestReport == Max({0} \cup {e \in Known : exports[e].reported})

\* Mutation: a failed export counts as over.
MutInFlightStatus == {"running"}

\* IN_FLIGHT: a failed export is waiting for its next attempt.  (What is said of
\* "running" holds of "pending".)
InFlightStatus == {"running", "failed"}

Running == shown.status \in InFlightStatus

\* A request under way.  torn: a report was written between its two queries.
Poll(kind) == [kind |-> kind, job |-> 0, status |-> "unread", report |-> 0,
               reported |-> FALSE, torn |-> FALSE, before |-> FALSE]

\* The section mounts, and loads.
ReportInit ==
  /\ exports = [e \in ExportIds |-> [status |-> IF e = 1 THEN "succeeded" ELSE "none",
                                    reported |-> e = 1]]
  /\ polls = {Poll("GET")} /\ pressed = FALSE
  /\ shown = [job |-> 0, status |-> "none", report |-> 0, torn |-> FALSE]
  /\ mine = 0 /\ overtaken = FALSE /\ reopened = {}

\* The timer, which runs while the screen shows an export in flight.
StartPoll ==
  /\ Cardinality(polls) < MaxPolls /\ Running
  /\ polls' = polls \cup {Poll("GET")}
  /\ UNCHANGED <<exports, shown, pressed, mine, overtaken, reopened>>

\* The button: disabled while pending or running.
PressExport ==
  /\ ~pressed /\ ~Running /\ Cardinality(polls) < MaxPolls
  /\ pressed' = TRUE
  /\ polls' = polls \cup {Poll("queue")}
  /\ UNCHANGED <<exports, shown, mine, overtaken, reopened>>

\* requestCatalogExport: enqueues unless one is in flight.
Queue(x) ==
  /\ x \in polls /\ x.kind = "queue"
  /\ \/ /\ \A e \in Known : exports[e].status \notin {"running", "failed"}
        /\ Newest < LastExport
        /\ exports' = [exports EXCEPT ![Newest + 1].status = "running"]
     \/ /\ \E e \in Known : exports[e].status \in {"running", "failed"}
        /\ UNCHANGED exports
  /\ polls' = (polls \ {x}) \cup {[x EXCEPT !.kind = "POST"]}
  /\ UNCHANGED <<shown, pressed, mine, overtaken, reopened>>

\* The two queries of latestCatalogExport, in either order.
ReadJob(x) ==
  /\ x \in polls /\ x.kind # "queue" /\ x.status = "unread"
  /\ polls' = (polls \ {x}) \cup
       {[x EXCEPT !.job = Newest,
                  !.status = IF Newest = 0 THEN "none" ELSE exports[Newest].status]}
  /\ UNCHANGED <<exports, shown, pressed, mine, overtaken, reopened>>

ReadReport(x) ==
  /\ x \in polls /\ x.kind # "queue" /\ ~x.reported
  /\ polls' = (polls \ {x}) \cup {[x EXCEPT !.report = NewestReport, !.reported = TRUE]}
  /\ UNCHANGED <<exports, shown, pressed, mine, overtaken, reopened>>

\* The answer is what the screen shows from now on.
Shows(x) ==
  /\ x \in polls /\ x.status # "unread" /\ x.reported
  /\ shown' = [job |-> x.job, status |-> x.status, report |-> x.report, torn |-> x.torn]
  /\ IF x.kind = "POST"
     THEN /\ pressed' = FALSE /\ mine' = x.job /\ overtaken' = FALSE
          /\ polls' = {[y EXCEPT !.before = @ \/ y.status # "unread"] : y \in polls \ {x}}
     ELSE /\ polls' = polls \ {x} /\ overtaken' = x.before /\ UNCHANGED <<pressed, mine>>
  /\ UNCHANGED <<exports, reopened>>

\* A request fails: a banner, and the numbers stay.
PollFails(x) ==
  /\ x \in polls /\ polls' = polls \ {x}
  /\ pressed' = (pressed /\ x.kind = "GET")
  /\ UNCHANGED <<exports, shown, mine, overtaken, reopened>>

-----------------------------------------------------------------------------
(* The job: its handler writes the report, then the queue settles the row. *)

Torn == {[y EXCEPT !.torn = @ \/ (y.reported /\ y.status = "unread")] : y \in polls}

\* An attempt begins, or ends one way or another.
WorkOn(e, status) ==
  /\ exports[e].status = IF status = "running" THEN "failed" ELSE "running"
  /\ status = "succeeded" => exports[e].reported
  /\ exports' = [exports EXCEPT ![e].status = status]
  /\ UNCHANGED <<polls, shown, pressed, mine, overtaken, reopened>>

\* Retry in the sync log.
Reopen(e) ==
  /\ exports[e].status = "dead" /\ e \notin reopened
  /\ exports' = [exports EXCEPT ![e].status = "running"]
  /\ reopened' = reopened \cup {e}
  /\ UNCHANGED <<polls, shown, pressed, mine, overtaken>>

WriteReport(e) ==
  /\ exports[e].status = "running" /\ ~exports[e].reported
  /\ exports' = [exports EXCEPT ![e].reported = TRUE]
  /\ polls' = Torn
  /\ UNCHANGED <<shown, pressed, mine, overtaken, reopened>>

ReportNext ==
  \/ StartPoll \/ PressExport
  \/ \E x \in polls : Queue(x) \/ ReadJob(x) \/ ReadReport(x) \/ Shows(x) \/ PollFails(x)
  \/ \E e \in ExportIds :
       \/ WriteReport(e) \/ Reopen(e)
       \/ \E status \in {"running", "failed", "dead", "succeeded"} : WorkOn(e, status)
ReportSpec == ReportInit /\ [][ReportNext]_reportVars

-----------------------------------------------------------------------------
\* Once the screen has stopped asking, it has reason to.  The export it shows is
\* over (or was put back from the sync log); its numbers are that export's, or newer,
\* unless the two queries fell on either side of the report being written; and it
\* is the one this screen started, unless an older answer came in after that one.
StopsForCause ==
  shown.job # 0 /\ ~Running /\ polls = {} =>
    /\ exports[shown.job].status \in {"succeeded", "dead"} \/ shown.job \in reopened
    /\ shown.status = "succeeded" => shown.report >= shown.job \/ shown.torn
    /\ shown.job >= mine \/ overtaken
=============================================================================
