--------------------------- MODULE ShutdownOrder ----------------------------
(***************************************************************************)
(* The end of the process (shutdown.ts, index.ts): a signal arrives while  *)
(* the worker (worker.ts) is somewhere in its loop and requests are being  *)
(* answered.  The worker looks at its flag between ticks only; a tick runs *)
(* every job it claimed, unless a statement of the queue fails under it.   *)
(***************************************************************************)
EXTENDS Naturals, FiniteSets

CONSTANTS
  QueueRows,     \* jobs of the queue
  TickJobs,      \* batchSize
  MaxRequests,   \* bound: requests in flight
  MaxSignals     \* bound: signals sent

ASSUME ShutdownAssumption == {TickJobs, MaxRequests, MaxSignals} \subseteq Nat \ {0}

VARIABLES
  flag,        \* the worker's running
  loop,        \* its loop: sleeping, about to claim, in a tick, or stopped
  unrun,       \* jobs of the tick that are not done
  heldRows,    \* rows RUNNING under this worker's lock
  abandoned,   \* history: rows whose claim went unheard, or whose tick threw
  listening,   \* the server accepts requests
  requests,    \* requests in flight
  signals,     \* signals received
  closing,     \* the shutdown: none, waiting, disconnecting, exited
  expired,     \* the grace period ran out first
  disconnects  \* calls of prisma.$disconnect
shutdownVars == <<flag, loop, unrun, heldRows, abandoned, listening, requests,
                  signals, closing, expired, disconnects>>

rowPart == <<unrun, heldRows, abandoned>>
workerPart == <<flag, loop, rowPart>>
serverPart == <<listening, requests>>
endPart == <<signals, closing, expired, disconnects>>

ShutdownInit ==
  /\ flag = TRUE /\ loop = "sleeping" /\ unrun = {} /\ heldRows = {} /\ abandoned = {}
  /\ listening = TRUE /\ requests = 0
  /\ signals = 0 /\ closing = "none" /\ expired = FALSE /\ disconnects = 0

Alive == closing # "exited"

\* while (running): the loop wakes, or comes round after a full tick.
StartTick ==
  /\ Alive /\ loop = "sleeping" /\ flag
  /\ loop' = "claiming"
  /\ UNCHANGED <<flag, rowPart, serverPart, endPart>>

StopLoop ==
  /\ Alive /\ loop = "sleeping" /\ ~flag
  /\ loop' = "stopped"
  /\ UNCHANGED <<flag, rowPart, serverPart, endPart>>

\* claimJobs, whatever the flag says by now.
ClaimRows ==
  /\ Alive /\ loop = "claiming"
  /\ \E got \in SUBSET (QueueRows \ heldRows) :
       /\ Cardinality(got) <= TickJobs /\ heldRows' = heldRows \cup got
       /\ \/ loop' = "tick" /\ unrun' = got /\ abandoned' = abandoned \ got
          \* Its answer is lost: the tick throws.  With got = {}, it failed.
          \/ loop' = "sleeping" /\ unrun' = unrun /\ abandoned' = abandoned \cup got
  /\ UNCHANGED <<flag, serverPart, endPart>>

\* runOne, one job after the other: the outcome is written, or the claim is gone.
RunJob ==
  /\ Alive /\ loop = "tick"
  /\ \E r \in unrun : unrun' = unrun \ {r} /\ heldRows' = heldRows \ {r}
  /\ UNCHANGED <<flag, loop, abandoned, serverPart, endPart>>

\* failJob or rescheduleJob throws inside runOne, its row written or not: the rest
\* of the batch is left as it is, and the loop goes on.
ThrowTick ==
  /\ Alive /\ loop = "tick" /\ loop' = "sleeping" /\ unrun' = {}
  /\ \E r \in unrun : heldRows' \in {heldRows, heldRows \ {r}}
  /\ abandoned' = abandoned \cup (unrun \cap heldRows')
  /\ UNCHANGED <<flag, serverPart, endPart>>

EndTick ==
  /\ Alive /\ loop = "tick" /\ unrun = {}
  /\ loop' = "sleeping"
  /\ UNCHANGED <<flag, rowPart, serverPart, endPart>>

\* The reaper of a later tick, or of another process, finds a lock stale.
ReapRow ==
  /\ \E r \in heldRows : heldRows' = heldRows \ {r} /\ abandoned' = abandoned \ {r}
  /\ UNCHANGED <<flag, loop, unrun, serverPart, endPart>>

Request ==
  /\ Alive /\ listening /\ requests < MaxRequests
  /\ requests' = requests + 1
  /\ UNCHANGED <<listening, workerPart, endPart>>

Answer ==
  /\ Alive /\ requests > 0
  /\ requests' = requests - 1
  /\ UNCHANGED <<listening, workerPart, endPart>>

\* shutdown(signal): the first one stops the loop, closes the server and starts
\* the timer; any other is ignored.
Signal ==
  /\ Alive /\ signals < MaxSignals
  /\ signals' = signals + 1
  /\ IF closing = "none"
     THEN closing' = "waiting" /\ flag' = FALSE /\ listening' = FALSE
     ELSE UNCHANGED <<closing, flag, listening>>
  /\ UNCHANGED <<loop, rowPart, requests, expired, disconnects>>

\* Mutation: whichever of the two is over first.
MutDrained == requests = 0 \/ loop = "stopped"

\* Promise.all([closed, workerLoop])
Drained == requests = 0 /\ loop = "stopped"

\* The race between that and the timer.
EndWait ==
  /\ closing = "waiting"
  /\ closing' = "disconnecting" /\ disconnects' = disconnects + 1
  /\ (Drained /\ expired' = FALSE) \/ expired' = TRUE
  /\ UNCHANGED <<signals, workerPart, serverPart>>

Exit ==
  /\ closing = "disconnecting" /\ closing' = "exited"
  /\ UNCHANGED <<signals, expired, disconnects, workerPart, serverPart>>

ShutdownNext ==
  \/ StartTick \/ StopLoop \/ ClaimRows \/ RunJob \/ ThrowTick \/ EndTick \/ ReapRow
  \/ Request \/ Answer
  \/ Signal \/ EndWait \/ Exit
ShutdownSpec == ShutdownInit /\ [][ShutdownNext]_shutdownVars

-----------------------------------------------------------------------------
\* "A disconnect while a handler still holds a query is the failure this whole
\* function exists to prevent", and index.ts: "Shut down without abandoning a job
\* mid-flight."  Within the grace period the connection is closed, once, with no
\* request in flight and no job of a tick left to run; the only rows still RUNNING
\* under this worker are those it had lost before, to a claim whose answer it
\* never had or to a tick that threw; and none is claimed afterwards.
DisconnectsIdle ==
  /\ disconnects <= 1
  /\ disconnects = 1 /\ ~expired =>
       requests = 0 /\ loop = "stopped" /\ unrun = {} /\ heldRows \subseteq abandoned
=============================================================================
