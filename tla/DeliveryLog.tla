---------------------------- MODULE DeliveryLog -----------------------------
(***************************************************************************)
(* What acceptDelivery promises: a delivery is recorded together with its  *)
(* job, in one step, unless it is on record already.                       *)
(*                                                                         *)
(* A request carries one copy of a delivery.  The row a request inserts    *)
(* into WebhookDelivery, and the job it creates, are named by the request: *)
(* both tables give a new row a fresh identity.                            *)
(***************************************************************************)
CONSTANTS
  Requests,    \* HTTP requests
  Deliveries,  \* values of X-Shopify-Webhook-Id
  DeliveryOf,  \* the delivery a request carries
  Unreadable   \* deliveries that fail verification or are not JSON

ASSUME DeliveryAssumption ==
  /\ DeliveryOf \in [Requests -> Deliveries]
  /\ Unreadable \subseteq Deliveries

VARIABLES
  deliveries,  \* committed rows of WebhookDelivery
  job          \* the Job row each request created

logVars == <<deliveries, job>>

JobState == {"none", "waiting", "held", "over", "deleted"}

Copies(r) == {q \in Requests : DeliveryOf[q] = DeliveryOf[r]}

LogInit ==
  /\ deliveries = {}
  /\ job = [r \in Requests |-> "none"]

\* Mutation: every copy counts.
MutAccept(r) ==
  /\ job[r] = "none"
  /\ DeliveryOf[r] \notin Unreadable
  /\ deliveries' = deliveries \cup {r}
  /\ job' = [job EXCEPT ![r] = "waiting"]

Accept(r) ==
  /\ job[r] = "none"
  /\ DeliveryOf[r] \notin Unreadable
  /\ Copies(r) \cap deliveries = {}
  /\ deliveries' = deliveries \cup {r}
  /\ job' = [job EXCEPT ![r] = "waiting"]

LogSpec == LogInit /\ [][\E r \in Requests : Accept(r)]_logVars

LogTypeOK ==
  /\ deliveries \subseteq Requests
  /\ job \in [Requests -> JobState]

\* Overlapping copies are one delivery: while nothing deletes rows, no two
\* requests that carry it both create a job.
OneJobPerDelivery ==
  \A r \in Requests : \A q \in Copies(r) : job[r] # "none" /\ job[q] # "none" => q = r
=============================================================================
