--------------------------- MODULE WebhookIntake ----------------------------
(***************************************************************************)
(* The webhook endpoint: verify, record the delivery and its job in one    *)
(* transaction, answer.  Shopify may send a delivery as often as it likes, *)
(* before or after an answer, and two copies may be in flight at once.     *)
(***************************************************************************)
EXTENDS DeliveryLog

VARIABLES
  request,  \* where the handler of each request is
  heard     \* requests whose 200 reached Shopify

vars == <<deliveries, job, request, heard>>

Progress == {"unsent", "received", "inserted", "queued", "duplicate",
             "accepted", "ignored", "answered", "failed"}

Init ==
  /\ LogInit
  /\ request = [r \in Requests |-> "unsent"]
  /\ heard = {}

\* Moves r on with nothing committed and nothing sent.
Becomes(r, stage) ==
  /\ request' = [request EXCEPT ![r] = stage]
  /\ UNCHANGED <<deliveries, job, heard>>

\* Shopify sends a copy of a delivery.
Receive(r) == request[r] = "unsent" /\ Becomes(r, "received")

\* Mutation: the rejection returns without an answer.
MutReject(r) == FALSE

\* 400 or 401, with nothing written.
Reject(r) ==
  /\ request[r] = "received" /\ DeliveryOf[r] \in Unreadable
  /\ Becomes(r, "answered")

\* Mutation: the duplicate is decided by what is committed, without waiting.
MutLocked(r) == FALSE

\* An open transaction has inserted the same id.
Locked(r) == \E q \in Copies(r) : request[q] \in {"inserted", "queued"}

\* Mutation: the delivery is recorded outside the transaction.
MutInsertDelivery(r) ==
  /\ request[r] = "received" /\ DeliveryOf[r] \notin Unreadable
  /\ request' = [request EXCEPT ![r] =
       IF Copies(r) \cap deliveries = {} THEN "inserted" ELSE "duplicate"]
  /\ deliveries' = IF Copies(r) \cap deliveries = {} THEN deliveries \cup {r} ELSE deliveries
  /\ UNCHANGED <<job, heard>>

\* INSERT ... ON CONFLICT DO NOTHING: waits for the transaction that holds the
\* id, then counts 0 if the id is there.
InsertDelivery(r) ==
  /\ request[r] = "received" /\ DeliveryOf[r] \notin Unreadable
  /\ ~Locked(r)
  /\ Becomes(r, IF Copies(r) \cap deliveries = {} THEN "inserted" ELSE "duplicate")

CreateJob(r) == request[r] = "inserted" /\ Becomes(r, "queued")

\* COMMIT makes the delivery and its job visible together.  The answer of the
\* database may be lost.
Commit(r, seen) ==
  /\ request[r] = "queued"
  /\ request' = [request EXCEPT ![r] = IF seen THEN "accepted" ELSE "failed"]
  /\ deliveries' = deliveries \cup {r}
  /\ job' = [job EXCEPT ![r] = "waiting"]
  /\ UNCHANGED heard

CommitNothing(r) == request[r] = "duplicate" /\ Becomes(r, "ignored")

\* The transaction fails and rolls back, or the process dies before the answer.
Fail(r) ==
  /\ request[r] \in {"received", "inserted", "queued", "duplicate", "accepted", "ignored"}
  /\ Becomes(r, "failed")

\* Mutation: 200 before the transaction commits.
MutRespond(r) ==
  /\ request[r] \in {"queued", "accepted", "ignored"}
  /\ request' = [request EXCEPT ![r] = IF @ = "queued" THEN @ ELSE "answered"]
  /\ heard' = heard \cup {r}
  /\ UNCHANGED <<deliveries, job>>

\* 200, for an accepted delivery and a duplicate alike.
Respond(r) ==
  /\ request[r] \in {"accepted", "ignored"}
  /\ request' = [request EXCEPT ![r] = "answered"]
  /\ heard' = heard \cup {r}
  /\ UNCHANGED <<deliveries, job>>

Handle(r) ==
  \/ Reject(r)
  \/ InsertDelivery(r)
  \/ CreateJob(r)
  \/ Commit(r, TRUE)
  \/ CommitNothing(r)
  \/ Respond(r)

Next == \E r \in Requests : Receive(r) \/ Handle(r) \/ Commit(r, FALSE) \/ Fail(r)

Spec == Init /\ [][Next]_vars

\* A request that was received is worked on until it is answered or fails.
FairSpec == Spec /\ \A r \in Requests : WF_vars(Handle(r))

-----------------------------------------------------------------------------
\* Types, and that a delivery and its job are committed together or not at all.
TypeOK ==
  /\ LogTypeOK
  /\ request \in [Requests -> Progress]
  /\ heard \subseteq Requests
  /\ \A r \in Requests : r \in deliveries <=> job[r] # "none"

\* A 200 is true: Shopify will not send the event again, so by the time it
\* hears one, some copy of that delivery has put its job into the queue.
AckMeansQueued == \A r \in heard : \E q \in Copies(r) : job[q] # "none"

\* The requests implement the delivery log: two statements and a commit,
\* interleaved with those of other copies, are one step or none.
ImplementsLog == LogSpec

\* Transactions never wait for each other for good, and what a failed one
\* had inserted does not block the next copy: every request that arrives ends.
EveryRequestEnds ==
  \A r \in Requests : request[r] = "received" ~> request[r] \in {"answered", "failed"}
=============================================================================
