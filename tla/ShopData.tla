------------------------------ MODULE ShopData ------------------------------
(***************************************************************************)
(* What the app stores about a shop, and the webhook jobs that erase it:   *)
(* shop.cleanup and the three compliance topics, run by the workers while  *)
(* deliveries keep arriving and the merchant uninstalls and comes back.    *)
(*                                                                         *)
(* Composes DeliveryLog (WebhookIntake implements it) with the handlers.   *)
(* Of the queue only the lease is kept: a claimed job may be taken away    *)
(* and claimed again while its first handler still runs (JobQueue has the  *)
(* rest).                                                                  *)
(***************************************************************************)
EXTENDS DeliveryLog, Naturals

CONSTANTS
  Shops, Workers, NoOne,
  Bundles,      \* ids of the Bundle rows that may ever exist
  ShopOf,       \* the shop a delivery or a bundle belongs to
  Mail,         \* what the deliveries may be: the topic of each
  CustomerOf,   \* the customer a delivery names, if its topic is about one
  MaxInstalls   \* bound on how often each shop is installed

Topics == {"orders/create", "products/update", "app/uninstalled",
           "customers/data_request", "customers/redact", "shop/redact"}

ASSUME ShopDataAssumption ==
  /\ NoOne \notin Workers
  /\ ShopOf \in [Deliveries \cup Bundles -> Shops]
  /\ Mail \subseteq [Deliveries -> Topics] /\ DOMAIN CustomerOf = Deliveries
  /\ MaxInstalls \in [Shops -> Nat \ {0}]

VARIABLES
  topic,      \* the topic of each delivery; never changes
  bundle,     \* the Bundle table: the state of each id
  session,    \* the Session table: the install a shop's token is from, 0 for no row
  installs,   \* Shopify: how often the shop has been installed
  installed,  \* Shopify: shops that have the app now
  holder,     \* lockedBy of each job, while that worker lives
  run,        \* the handler a worker executes: a set of at most one
  remaining,  \* history: what each worker's handler was to erase when it began
              \* and has not been erased since
  redacted    \* history: shops whose delivery records were erased

shopVars   == <<topic, bundle, session, installs, installed>>
runVars    == <<holder, run>>
vars       == <<logVars, shopVars, runVars, redacted, remaining>>

JobShop(r)     == ShopOf[DeliveryOf[r]]
JobTopic(r)    == topic[DeliveryOf[r]]
\* The customer in the body as it is stored; only two topics keep one.
JobCustomer(r) ==
  IF JobTopic(r) \in {"customers/data_request", "customers/redact"}
  THEN CustomerOf[DeliveryOf[r]] ELSE NoOne

BundleRows == {b \in Bundles : bundle[b] = "there"}

JobRows == {r \in Requests : job[r] \in {"waiting", "held", "over"}}

\* Every row of the database, tagged with its table.
Rows ==
  {<<"bundle", b>> : b \in BundleRows} \cup
  {<<"session", s, session[s]>> : s \in {t \in Shops : session[t] # 0}} \cup
  {<<"delivery", r>> : r \in deliveries} \cup
  {<<"job", r>> : r \in JobRows}

RowShop(x) ==
  CASE x[1] = "bundle" -> ShopOf[x[2]]
    [] x[1] = "session" -> x[2]
    [] OTHER -> JobShop(x[2])

-----------------------------------------------------------------------------
\* Every shop has just removed the app: from here on deliveries ask to erase.
Init ==
  /\ LogInit
  /\ topic \in Mail
  /\ bundle \in [Bundles -> {"none", "there"}]
  /\ session = [s \in Shops |-> 1]
  /\ installs = [s \in Shops |-> 1]
  /\ installed = {}
  /\ holder = [r \in Requests |-> NoOne]
  /\ run = [w \in Workers |-> {}]
  /\ remaining = [w \in Workers |-> {}]
  /\ redacted = {}

(* The merchant and the platform.                                          *)

CreateBundle(b) ==
  /\ bundle[b] = "none" /\ ShopOf[b] \in installed
  /\ bundle' = [bundle EXCEPT ![b] = "there"]
  /\ UNCHANGED <<logVars, topic, session, installs, installed, runVars, redacted>>

\* Every token of the shop is revoked at once; the rows stay.
Uninstall(s) ==
  /\ s \in installed /\ installs[s] < MaxInstalls[s]
  /\ installed' = installed \ {s}
  /\ UNCHANGED <<logVars, topic, bundle, session, installs, runVars, redacted>>

\* Installing again stores a session with a new token under the same id.
Reinstall(s) ==
  /\ s \notin installed /\ installs[s] < MaxInstalls[s]
  /\ installed' = installed \cup {s}
  /\ installs' = [installs EXCEPT ![s] = @ + 1]
  /\ session' = [session EXCEPT ![s] = installs[s] + 1]
  /\ UNCHANGED <<logVars, topic, bundle, runVars, redacted>>

\* acceptDelivery, for a request of the webhook endpoint.
Deliver(r) == Accept(r) /\ UNCHANGED <<shopVars, runVars, redacted>>

-----------------------------------------------------------------------------
(* The lease.                                                              *)

Claim(w, r) ==
  /\ run[w] = {} /\ job[r] = "waiting"
  /\ job' = [job EXCEPT ![r] = "held"]
  /\ holder' = [holder EXCEPT ![r] = w]
  /\ run' = [run EXCEPT ![w] = {[job |-> r, step |-> "claimed"]}]
  /\ UNCHANGED <<deliveries, shopVars, redacted>>

\* The reaper, for a holder that died or is only slow.
Reap(r) ==
  /\ job[r] = "held"
  /\ job' = [job EXCEPT ![r] = "waiting"]
  /\ holder' = [holder EXCEPT ![r] = NoOne]
  /\ UNCHANGED <<deliveries, shopVars, run, redacted>>

Leaves(w) == run' = [run EXCEPT ![w] = {}]

\* The outcome is written only if the claim is still held.
Settle(w, x, state) ==
  /\ x \in run[w]
  /\ IF job[x.job] = "held" /\ holder[x.job] = w
     THEN /\ job' = [job EXCEPT ![x.job] = state]
          /\ holder' = [holder EXCEPT ![x.job] = NoOne]
     ELSE UNCHANGED <<job, holder>>
  /\ Leaves(w)
  /\ UNCHANGED <<deliveries, shopVars, redacted>>

Finish(w, x) == x.step = "end" /\ Settle(w, x, "over")

\* A statement fails, or completing the job does; the job is retried or dead.
Throw(w, x, state) == state \in {"waiting", "over"} /\ Settle(w, x, state)

\* The process dies: nothing is written.
Die(w) ==
  /\ run[w] # {}
  /\ Leaves(w)
  /\ holder' = [r \in Requests |-> IF holder[r] = w THEN NoOne ELSE holder[r]]
  /\ UNCHANGED <<logVars, shopVars, redacted>>

-----------------------------------------------------------------------------
(* The handlers, one statement a step.                                     *)

At(w, x, step) == x \in run[w] /\ x.step = step

\* x goes on to the next step.
GoesOn(w, x, step) == run' = [run EXCEPT ![w] = {[x EXCEPT !.step = step]}]

\* The handler begins, perhaps long after the claim: the row may be gone.
Begin(w, x) ==
  /\ At(w, x, "claimed")
  /\ GoesOn(w, x, JobTopic(x.job))
  /\ UNCHANGED <<logVars, shopVars, holder, redacted>>

\* Deletes the job rows S.
DeleteJobs(S) ==
  /\ job' = [r \in Requests |-> IF r \in S THEN "deleted" ELSE job[r]]
  /\ holder' = [r \in Requests |-> IF r \in S THEN NoOne ELSE holder[r]]

\* orders/create, products/update and customers/data_request erase nothing.
ReadOnly(w, x) ==
  /\ x \in run[w] /\ x.step \in {"orders/create", "products/update", "customers/data_request"}
  /\ GoesOn(w, x, "end")
  /\ UNCHANGED <<logVars, shopVars, holder, redacted>>

DeleteSessions(s) == session' = [session EXCEPT ![s] = 0]

\* shop.cleanup
CleanUp(w, x) ==
  /\ At(w, x, "app/uninstalled")
  /\ DeleteSessions(JobShop(x.job))
  /\ GoesOn(w, x, "end")
  /\ UNCHANGED <<logVars, topic, bundle, installs, installed, holder, redacted>>

\* Mutation: the other jobs of the shop, whoever their payload names.
MutNamingCustomer(x) == {r \in JobRows : r # x.job /\ JobShop(r) = JobShop(x.job)}

NamingCustomer(x) ==
  {r \in JobRows : /\ r # x.job
                   /\ JobShop(r) = JobShop(x.job)
                   /\ JobCustomer(r) = JobCustomer(x.job)}

\* customers/redact: the other jobs of the shop whose payload names the
\* customer.  A request that names none can only throw.
RedactCustomer(w, x) ==
  /\ At(w, x, "customers/redact") /\ JobCustomer(x.job) # NoOne
  /\ DeleteJobs(NamingCustomer(x))
  /\ GoesOn(w, x, "end")
  /\ UNCHANGED <<deliveries, shopVars, redacted>>

\* shop/redact, in four statements.
RedactBundles(w, x) ==
  /\ At(w, x, "shop/redact")
  /\ bundle' = [b \in Bundles |->
       IF b \in BundleRows /\ ShopOf[b] = JobShop(x.job) THEN "deleted" ELSE bundle[b]]
  /\ GoesOn(w, x, "sessions")
  /\ UNCHANGED <<logVars, topic, session, installs, installed, holder, redacted>>

RedactSessions(w, x) ==
  /\ At(w, x, "sessions")
  /\ DeleteSessions(JobShop(x.job))
  /\ GoesOn(w, x, "deliveries")
  /\ UNCHANGED <<logVars, topic, bundle, installs, installed, holder, redacted>>

RedactDeliveries(w, x) ==
  /\ At(w, x, "deliveries")
  /\ deliveries' = {r \in deliveries : JobShop(r) # JobShop(x.job)}
  /\ redacted' = redacted \cup {JobShop(x.job)}
  /\ GoesOn(w, x, "jobs")
  /\ UNCHANGED <<job, shopVars, holder>>

\* Mutation: only jobs that have come to their end.
MutErasable(x) ==
  {r \in JobRows : r # x.job /\ JobShop(r) = JobShop(x.job) /\ job[r] = "over"}

Erasable(x) == {r \in JobRows : r # x.job /\ JobShop(r) = JobShop(x.job)}

RedactJobs(w, x) ==
  /\ At(w, x, "jobs")
  /\ DeleteJobs(Erasable(x))
  /\ GoesOn(w, x, "end")
  /\ UNCHANGED <<deliveries, shopVars, redacted>>

Handle(w, x) ==
  \/ Begin(w, x)
  \/ ReadOnly(w, x)
  \/ CleanUp(w, x)
  \/ RedactCustomer(w, x)
  \/ RedactBundles(w, x)
  \/ RedactSessions(w, x)
  \/ RedactDeliveries(w, x)
  \/ RedactJobs(w, x)

\* What a job is to erase of the rows there are: a redaction of the shop all of them
\* but its own, an uninstall the sessions and nothing else, a redaction of a customer
\* the jobs that name this customer and nothing else, any other job nothing.
ToErase(r) ==
  {x \in Rows \ {<<"job", r>>} :
     /\ RowShop(x) = JobShop(r)
     /\ \/ JobTopic(r) = "shop/redact"
        \/ JobTopic(r) = "app/uninstalled" /\ x[1] = "session"
        \/ /\ JobTopic(r) = "customers/redact" /\ JobCustomer(r) # NoOne
           /\ x[1] = "job" /\ JobCustomer(x[2]) = JobCustomer(r)}

\* What the handler of a worker has still to erase: all of it until it begins.
Owed(w) == UNION {IF x.step = "claimed" THEN ToErase(x.job) ELSE remaining[w] : x \in run[w]}

Remember ==
  remaining' = [w \in Workers |-> IF run'[w] = {} THEN {} ELSE Owed(w) \cap Rows']

Next ==
  /\ \/ \E b \in Bundles : CreateBundle(b)
     \/ \E s \in Shops : Uninstall(s) \/ Reinstall(s)
     \/ \E r \in Requests : Deliver(r) \/ Reap(r) \/ \E w \in Workers : Claim(w, r)
     \/ \E w \in Workers :
          \/ Die(w)
          \/ \E x \in run[w] : \/ Handle(w, x)
                               \/ Finish(w, x)
                               \/ \E state \in JobState : Throw(w, x, state)
  /\ Remember

Spec == Init /\ [][Next]_vars

-----------------------------------------------------------------------------
\* A redaction that got to its end has left nothing behind that was there when
\* it began, save the row of its own job, however its four deletes interleave
\* with arriving deliveries, a second redaction or a new install.
Erased ==
  \A w \in Workers : \A x \in run[w] : x.step = "end" => remaining[w] = {}

\* A row goes only in a statement of a handler whose job is to erase that very row: an
\* uninstall takes sessions of its shop and no bundle, a customer's redaction the jobs
\* of its shop that name this customer and no other's, a shop's redaction no row of
\* another shop, and none of them the row of its own job.  A session also gives way to
\* the one of a new install.
ErasedForCause ==
  [][\A x \in Rows \ Rows' :
       \/ \E w \in Workers : \E y \in run[w] : run'[w] # run[w] /\ x \in ToErase(y.job)
       \/ x[1] = "session" /\ session'[x[2]] > session[x[2]]]_vars

\* One delivery makes two jobs only where a redaction erased the record of it.
SecondJobNeedsRedaction ==
  \A r \in Requests : \A q \in Copies(r) :
    q # r /\ job[r] # "none" /\ job[q] # "none" => JobShop(r) \in redacted
=============================================================================
