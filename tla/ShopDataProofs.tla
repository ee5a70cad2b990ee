--------------------------- MODULE ShopDataProofs ---------------------------
(***************************************************************************)
(* Proofs about ShopData for every set of shops, deliveries, requests,     *)
(* bundles and workers: what the erasing handlers leave behind, what they  *)
(* may delete, and when a delivery is taken for a new one.                 *)
(***************************************************************************)
EXTENDS ShopData, TLAPS

-----------------------------------------------------------------------------
(* Types, and the steps a handler can be at.                               *)

Step == Topics \cup {"claimed", "sessions", "deliveries", "jobs", "end"}
Run  == [job : Requests, step : Step]

\* A handler is at a step of its own topic.
StepRight(x) ==
  /\ x.step \in Topics => x.step = JobTopic(x.job)
  /\ x.step \in {"sessions", "deliveries", "jobs"} => JobTopic(x.job) = "shop/redact"

TablesTyped ==
  /\ LogTypeOK
  /\ topic \in [Deliveries -> Topics]
  /\ bundle \in [Bundles -> {"none", "there", "deleted"}]
  /\ session \in [Shops -> Nat]
  /\ installs \in [Shops -> Nat]
  /\ \A s \in Shops : session[s] <= installs[s]

RunsTyped ==
  /\ run \in [Workers -> SUBSET Run]
  /\ \A w \in Workers : \A x, y \in run[w] : x = y
  /\ \A w \in Workers : \A x \in run[w] : StepRight(x)

DataTypes == TablesTyped /\ RunsTyped

(* The inductive invariant.                                                *)

\* The tables a handler at this step has still to go through.
Ahead(x, y) ==
  CASE x.step = "app/uninstalled" -> y[1] = "session"
    [] x.step = "customers/redact" -> y[1] = "job" /\ JobCustomer(y[2]) = JobCustomer(x.job)
    [] x.step = "shop/redact" -> TRUE
    [] x.step = "sessions" -> y[1] \in {"session", "delivery", "job"}
    [] x.step = "deliveries" -> y[1] \in {"delivery", "job"}
    [] x.step = "jobs" -> y[1] = "job"
    [] OTHER -> FALSE

\* What is left of what a handler was to erase is still stored, is not its own
\* job, belongs to its shop, and is in a table ahead of it.
LeftToErase(w, x) ==
  x.step # "claimed" =>
    \A y \in remaining[w] :
      y \in Rows /\ y # <<"job", x.job>> /\ RowShop(y) = JobShop(x.job) /\ Ahead(x, y)

ErasingRight == \A w \in Workers : \A x \in run[w] : LeftToErase(w, x)

\* Every job has its delivery on record, or had it erased.
RecordsRight ==
  \A r \in Requests : job[r] # "none" => r \in deliveries \/ JobShop(r) \in redacted

DataInv == DataTypes /\ ErasingRight /\ RecordsRight /\ SecondJobNeedsRedaction

-----------------------------------------------------------------------------
(* The rows of the database.                                               *)

\* What the tag of a row says of the rest of it.
RowRight(y) ==
  /\ y[1] \in {"bundle", "session", "delivery", "job"}
  /\ y[1] = "bundle"   => y[2] \in Bundles /\ bundle[y[2]] = "there" /\ y = <<"bundle", y[2]>>
  /\ y[1] = "session"  => y[2] \in Shops /\ session[y[2]] # 0
                          /\ y = <<"session", y[2], session[y[2]]>>
  /\ y[1] = "delivery" => y[2] \in deliveries /\ y = <<"delivery", y[2]>>
  /\ y[1] = "job"      => y[2] \in JobRows /\ y = <<"job", y[2]>>

RowsRight == \A y \in Rows : RowRight(y)

LEMMA RowIs == RowsRight
<1> USE DEF RowsRight
<1> SUFFICES ASSUME NEW y \in Rows PROVE RowRight(y)
  OBVIOUS
<1>1. CASE \E b \in BundleRows : y = <<"bundle", b>>
  BY <1>1 DEF RowRight, BundleRows
<1>2. CASE \E s \in Shops : session[s] # 0 /\ y = <<"session", s, session[s]>>
  BY <1>2 DEF RowRight
<1>3. CASE \E r \in deliveries : y = <<"delivery", r>>
  BY <1>3 DEF RowRight
<1>4. CASE \E r \in JobRows : y = <<"job", r>>
  BY <1>4 DEF RowRight
<1> QED BY <1>1, <1>2, <1>3, <1>4 DEF Rows

LEMMA RowWillBe == \A y \in Rows' : RowRight(y)'
<1>1. RowsRight'
  BY RowIs, PTL
<1> QED BY <1>1 DEF RowsRight

\* The history variable of one worker.
LEMMA WhatIsLeft ==
  ASSUME DataTypes, Remember, NEW w \in Workers, NEW x \in run[w]
  PROVE  remaining'[w] =
           IF run'[w] = {} THEN {}
           ELSE (IF x.step = "claimed" THEN ToErase(x.job) ELSE remaining[w]) \cap Rows'
<1>1. remaining'[w] = IF run'[w] = {} THEN {} ELSE Owed(w) \cap Rows'
  BY DEF Remember
<1>2. run[w] = {x}
  BY DEF DataTypes, RunsTyped
<1> DEFINE before(y) == IF y.step = "claimed" THEN ToErase(y.job) ELSE remaining[w]
<1>3. Owed(w) = UNION {before(y) : y \in run[w]}
  BY Zenon DEF Owed
<1>4. \A e : (\E y \in run[w] : e \in before(y)) <=> e \in before(x)
  <2> HIDE DEF before
  <2> QED BY <1>2
<1>5. Owed(w) = before(x)
  <2> HIDE DEF before
  <2> QED BY <1>3, <1>4
<1> QED BY <1>1, <1>5

\* A worker that does not move keeps what it knows.
LEMMA Bystander ==
  ASSUME DataTypes, Remember, UNCHANGED topic, NEW w \in Workers, NEW x \in run[w],
         run'[w] = run[w], LeftToErase(w, x)
  PROVE  LeftToErase(w, x)'
<1>1. \A r \in Requests : /\ JobTopic(r)' = JobTopic(r)
                          /\ JobCustomer(r)' = JobCustomer(r)
                          /\ JobShop(r)' = JobShop(r)
  BY DEF JobTopic, JobCustomer, JobShop
<1>2. \A y : RowShop(y)' = RowShop(y)
  BY DEF RowShop, JobShop
<1>3. x.job \in Requests
  BY DEF DataTypes, RunsTyped, Run
<1> SUFFICES ASSUME x.step # "claimed", NEW y \in remaining'[w]
             PROVE  /\ y \in Rows' /\ y # <<"job", x.job>>
                    /\ RowShop(y)' = JobShop(x.job)' /\ Ahead(x, y)'
  BY DEF LeftToErase
<1>4. y \in remaining[w] /\ y \in Rows'
  BY WhatIsLeft
<1>5. y \in Rows /\ y # <<"job", x.job>> /\ RowShop(y) = JobShop(x.job) /\ Ahead(x, y)
  BY <1>4 DEF LeftToErase
<1>6. Ahead(x, y)'
  BY <1>1, <1>3, <1>5 DEF Ahead, JobCustomer, JobTopic
<1> QED BY <1>1, <1>2, <1>3, <1>4, <1>5, <1>6

\* A handler goes on to its next step: what is left is in a table ahead of
\* that one.
LEMMA Mover ==
  ASSUME DataInv, Remember, UNCHANGED topic, NEW w \in Workers, NEW x \in run[w],
         NEW step \in Step, GoesOn(w, x, step),
         LET z == [x EXCEPT !.step = step]
         IN  /\ StepRight(z)
             /\ \A y \in remaining'[w] :
                  /\ y \in (IF x.step = "claimed" THEN ToErase(x.job) ELSE remaining[w])
                  /\ y \in Rows' /\ RowRight(y)'
                  /\ RowShop(y) = JobShop(x.job) /\ y # <<"job", x.job>>
                  => Ahead(z, y)
  PROVE  ErasingRight' /\ RunsTyped'
<1> USE DEF DataInv
<1> DEFINE z == [x EXCEPT !.step = step]
<1>z. /\ z \in Run /\ z.job = x.job /\ z.step = step /\ x \in Run
      /\ run'[w] = {z} /\ \A v \in Workers : v # w => run'[v] = run[v]
  BY DEF GoesOn, DataTypes, RunsTyped, Run
<1>1. run' \in [Workers -> SUBSET Run]
  BY <1>z DEF GoesOn, DataTypes, RunsTyped
<1>2. \A v \in Workers : \A y, u \in run'[v] : y = u
  BY <1>z DEF DataTypes, RunsTyped
<1>t. \A r \in Requests : JobTopic(r)' = JobTopic(r) /\ JobShop(r)' = JobShop(r)
                          /\ JobCustomer(r)' = JobCustomer(r)
  BY DEF JobTopic, JobShop, JobCustomer
<1>s. \A v \in Workers : \A y \in run[v] : StepRight(y)' = StepRight(y)
  BY DEF StepRight, JobTopic
<1>3. \A v \in Workers : \A y \in run'[v] : StepRight(y)'
  <2> SUFFICES ASSUME NEW v \in Workers, NEW y \in run'[v]
               PROVE  StepRight(y)'
    OBVIOUS
  <2>1. CASE v = w
    BY <1>z, <2>1 DEF StepRight, JobTopic
  <2>2. CASE v # w
    BY <1>z, <1>s, <2>2 DEF DataTypes, RunsTyped
  <2> QED BY <2>1, <2>2
<1>4. ErasingRight'
  <2> SUFFICES ASSUME NEW v \in Workers, NEW y \in run'[v]
               PROVE  LeftToErase(v, y)'
    BY DEF ErasingRight
  <2>1. CASE v # w
    BY <1>z, <2>1, Bystander DEF ErasingRight
  <2>2. CASE v = w
    <3> SUFFICES ASSUME NEW u \in remaining'[w]
                 PROVE  /\ u \in Rows' /\ u # <<"job", z.job>>
                        /\ RowShop(u)' = JobShop(z.job)' /\ Ahead(z, u)'
      BY <1>z, <2>2 DEF LeftToErase
    <3>1. /\ u \in (IF x.step = "claimed" THEN ToErase(x.job) ELSE remaining[w])
          /\ u \in Rows'
      <4>1. remaining'[w] = (IF x.step = "claimed" THEN ToErase(x.job) ELSE remaining[w])
                              \cap Rows'
        BY <1>z, WhatIsLeft
      <4> QED BY <4>1
    <3>2. RowShop(u) = JobShop(x.job) /\ u # <<"job", x.job>>
      BY <3>1 DEF ToErase, ErasingRight, LeftToErase
    <3>3. RowRight(u)'
      BY <3>1, RowWillBe
    <3>4. Ahead(z, u)
      BY <3>1, <3>2, <3>3
    <3>5. Ahead(z, u)' = Ahead(z, u)
      BY DEF Ahead, JobCustomer, JobTopic
    <3>6. RowShop(u)' = RowShop(u) /\ JobShop(x.job)' = JobShop(x.job)
      BY DEF RowShop, JobShop
    <3> QED BY <1>z, <3>1, <3>2, <3>4, <3>5, <3>6
  <2> QED BY <2>1, <2>2
<1> QED BY <1>1, <1>2, <1>3, <1>4 DEF RunsTyped

-----------------------------------------------------------------------------
(* What the history of deliveries and jobs becomes.                        *)

\* Deliveries are forgotten only by a redaction of their shop, and jobs keep
\* having been created.
LEMMA HistoryKept ==
  ASSUME DataInv, LogTypeOK', redacted \subseteq redacted',
         \A r \in Requests : job'[r] # "none" => job[r] # "none",
         \A r \in deliveries : r \in deliveries' \/ JobShop(r) \in redacted'
  PROVE  RecordsRight' /\ SecondJobNeedsRedaction'
<1>1. \A r \in Requests : JobShop(r)' = JobShop(r) /\ Copies(r)' = Copies(r)
  BY DEF JobShop, Copies
<1>2. RecordsRight'
  BY <1>1 DEF RecordsRight, DataInv, JobShop
<1>3. SecondJobNeedsRedaction'
  <2> SUFFICES ASSUME NEW r \in Requests, NEW q \in Copies(r),
                      q # r, job'[r] # "none", job'[q] # "none"
               PROVE  JobShop(r) \in redacted'
    BY DEF SecondJobNeedsRedaction, JobShop, Copies
  <2>1. q \in Requests
    BY DEF Copies
  <2> QED BY <2>1 DEF SecondJobNeedsRedaction, DataInv
<1> QED BY <1>2, <1>3

\* No handler moves: what is left of its work stays ahead of it.
LEMMA NobodyMoves ==
  ASSUME DataInv, Remember, UNCHANGED <<topic, run>>
  PROVE  ErasingRight' /\ RunsTyped'
<1> USE DEF DataInv
<1>1. ErasingRight'
  BY Bystander DEF ErasingRight
<1>2. \A v \in Workers : \A y \in run'[v] : StepRight(y)'
  BY DEF StepRight, JobTopic, DataTypes, RunsTyped
<1> QED BY <1>1, <1>2 DEF DataTypes, RunsTyped

\* One worker's handler is given up, ends or is only claimed.
LEMMA ComesOrGoes ==
  ASSUME DataInv, Remember, UNCHANGED topic, NEW w \in Workers,
         NEW S \in SUBSET {z \in Run : z.step = "claimed"}, \A y, z \in S : y = z,
         run' = [run EXCEPT ![w] = S]
  PROVE  ErasingRight' /\ RunsTyped'
<1> USE DEF DataInv
<1>1. run'[w] = S /\ \A v \in Workers : v # w => run'[v] = run[v]
  BY DEF DataTypes, RunsTyped
<1>2. run' \in [Workers -> SUBSET Run]
  BY DEF DataTypes, RunsTyped
<1>3. \A v \in Workers : \A y, z \in run'[v] : y = z
  BY <1>1 DEF DataTypes, RunsTyped
<1>4. \A v \in Workers : \A y \in run'[v] : StepRight(y)' /\ LeftToErase(v, y)'
  <2> SUFFICES ASSUME NEW v \in Workers, NEW y \in run'[v]
               PROVE  StepRight(y)' /\ LeftToErase(v, y)'
    OBVIOUS
  <2>1. CASE v = w
    BY <1>1, <2>1 DEF StepRight, LeftToErase, Topics
  <2>2. CASE v # w
    <3>1. y \in run[v] /\ run'[v] = run[v]
      BY <1>1, <2>2
    <3>2. LeftToErase(v, y)'
      BY <3>1, Bystander DEF ErasingRight
    <3>3. StepRight(y)'
      BY <3>1 DEF StepRight, JobTopic, DataTypes, RunsTyped
    <3> QED BY <3>2, <3>3
  <2> QED BY <2>1, <2>2
<1> QED BY <1>2, <1>3, <1>4 DEF ErasingRight, RunsTyped

-----------------------------------------------------------------------------
(* The merchant, the platform and the endpoint.                            *)

LEMMA MerchantKeeps ==
  ASSUME DataInv, Remember,
         \/ \E b \in Bundles : CreateBundle(b)
         \/ \E s \in Shops : Uninstall(s) \/ Reinstall(s)
  PROVE  DataInv'
<1> USE DEF DataInv, DataTypes
<1>1. UNCHANGED <<deliveries, job, topic, run, redacted>>
  BY DEF CreateBundle, Uninstall, Reinstall, logVars, runVars
<1>2. TablesTyped'
  <2>1. CASE \E b \in Bundles : CreateBundle(b)
    BY <2>1 DEF CreateBundle, TablesTyped, LogTypeOK, logVars
  <2>2. CASE \E s \in Shops : Uninstall(s)
    BY <2>2 DEF Uninstall, TablesTyped, LogTypeOK, logVars
  <2>3. CASE \E s \in Shops : Reinstall(s)
    BY <2>3 DEF Reinstall, TablesTyped, LogTypeOK, logVars
  <2> QED BY <2>1, <2>2, <2>3
<1>3. ErasingRight' /\ RunsTyped'
  BY <1>1, NobodyMoves
<1>4. RecordsRight' /\ SecondJobNeedsRedaction'
  BY <1>1, <1>2, HistoryKept DEF TablesTyped
<1> QED BY <1>2, <1>3, <1>4

LEMMA DeliverKeeps ==
  ASSUME DataInv, Remember, NEW r \in Requests, Deliver(r)
  PROVE  DataInv'
<1> USE DEF DataInv, DataTypes
<1>1. /\ job[r] = "none" /\ Copies(r) \cap deliveries = {}
      /\ deliveries' = deliveries \cup {r} /\ job' = [job EXCEPT ![r] = "waiting"]
      /\ UNCHANGED <<topic, bundle, session, installs, run, redacted>>
  BY DEF Deliver, Accept, shopVars, runVars
<1>2. TablesTyped'
  BY <1>1 DEF TablesTyped, LogTypeOK, JobState
<1>3. ErasingRight' /\ RunsTyped'
  BY <1>1, NobodyMoves
<1>4. RecordsRight'
  BY <1>1 DEF RecordsRight, JobShop, TablesTyped, LogTypeOK
<1>5. \A q \in Copies(r) : job[q] # "none" => JobShop(r) \in redacted
  BY <1>1 DEF RecordsRight, Copies, JobShop
<1>6. SecondJobNeedsRedaction'
  <2> SUFFICES ASSUME NEW p \in Requests, NEW q \in Copies(p),
                      q # p, job'[p] # "none", job'[q] # "none"
               PROVE  JobShop(p) \in redacted
    BY <1>1 DEF SecondJobNeedsRedaction, JobShop, Copies
  <2>1. /\ q \in Requests /\ p \in Copies(q) /\ JobShop(q) = JobShop(p)
    BY DEF Copies, JobShop
  <2>2. \A z \in Requests : z # r => job'[z] = job[z]
    BY <1>1 DEF TablesTyped, LogTypeOK
  <2> QED BY <1>5, <2>1, <2>2 DEF SecondJobNeedsRedaction
<1> QED BY <1>2, <1>3, <1>4, <1>6

-----------------------------------------------------------------------------
(* The lease.                                                              *)

LEMMA LeaseKeeps ==
  ASSUME DataInv, Remember,
         \/ \E r \in Requests : Reap(r) \/ \E w \in Workers : Claim(w, r)
         \/ \E w \in Workers :
              \/ Die(w)
              \/ \E x \in run[w] : Finish(w, x) \/ \E state \in JobState : Throw(w, x, state)
  PROVE  DataInv'
<1> USE DEF DataInv, DataTypes
<1>1. /\ UNCHANGED <<deliveries, topic, bundle, session, installs, redacted>>
      /\ job' \in [Requests -> JobState]
      /\ \A r \in Requests : job'[r] # "none" => job[r] # "none"
  BY DEF Reap, Claim, Die, Finish, Throw, Settle, logVars, shopVars, TablesTyped, LogTypeOK,
         JobState, RunsTyped, Run
<1>2. TablesTyped'
  BY <1>1 DEF TablesTyped, LogTypeOK
<1>3. RecordsRight' /\ SecondJobNeedsRedaction'
  BY <1>1, <1>2, HistoryKept DEF TablesTyped
<1>4. ErasingRight' /\ RunsTyped'
  <2>1. CASE \E r \in Requests : Reap(r)
    BY <1>1, <2>1, NobodyMoves DEF Reap
  <2>2. ASSUME NEW r \in Requests, NEW w \in Workers, Claim(w, r)
        PROVE  ErasingRight' /\ RunsTyped'
    <3> DEFINE S == {[job |-> r, step |-> "claimed"]}
    <3>1. S \in SUBSET {z \in Run : z.step = "claimed"} /\ \A y, z \in S : y = z
      BY DEF Run, Step
    <3>2. run' = [run EXCEPT ![w] = S]
      BY <2>2 DEF Claim
    <3> HIDE DEF S
    <3> QED BY <1>1, <3>1, <3>2, ComesOrGoes
  <2>3. ASSUME NEW w \in Workers, Leaves(w)
        PROVE  ErasingRight' /\ RunsTyped'
    <3> DEFINE S == {}
    <3>1. S \in SUBSET {z \in Run : z.step = "claimed"} /\ \A y, z \in S : y = z
      OBVIOUS
    <3>2. run' = [run EXCEPT ![w] = S]
      BY <2>3 DEF Leaves
    <3> HIDE DEF S
    <3> QED BY <1>1, <3>1, <3>2, ComesOrGoes
  <2> QED BY <2>1, <2>2, <2>3 DEF Die, Finish, Throw, Settle
<1> QED BY <1>2, <1>3, <1>4

-----------------------------------------------------------------------------
(* The handlers.                                                           *)

\* The tables stay typed, and nothing is forgotten but what is redacted.
LEMMA TablesKept ==
  ASSUME DataInv, NEW w \in Workers, NEW x \in run[w], Handle(w, x)
  PROVE  /\ TablesTyped' /\ UNCHANGED topic
         /\ RecordsRight' /\ SecondJobNeedsRedaction'
<1> USE DEF DataInv, DataTypes
<1>x. x \in Run /\ JobShop(x.job) \in Shops
  BY ShopDataAssumption, DeliveryAssumption DEF RunsTyped, Run, JobShop
<1>1. CASE Begin(w, x) \/ ReadOnly(w, x)
  <2>1. UNCHANGED <<deliveries, job, topic, bundle, session, installs, redacted>>
    BY <1>1 DEF Begin, ReadOnly, logVars, shopVars
  <2>2. TablesTyped'
    BY <2>1 DEF TablesTyped, LogTypeOK
  <2> QED BY <2>1, <2>2, HistoryKept DEF TablesTyped
<1>2. CASE CleanUp(w, x) \/ RedactSessions(w, x)
  <2>1. /\ UNCHANGED <<deliveries, job, topic, bundle, installs, redacted>>
        /\ session' = [session EXCEPT ![JobShop(x.job)] = 0]
    BY <1>2 DEF CleanUp, RedactSessions, DeleteSessions, logVars
  <2>2. TablesTyped'
    BY <1>x, <2>1 DEF TablesTyped, LogTypeOK
  <2> QED BY <2>1, <2>2, HistoryKept DEF TablesTyped
<1>3. CASE RedactCustomer(w, x) \/ RedactJobs(w, x)
  <2>1. UNCHANGED <<deliveries, topic, bundle, session, installs, redacted>>
    BY <1>3 DEF RedactCustomer, RedactJobs, shopVars
  <2>2. PICK S \in SUBSET JobRows :
          job' = [r \in Requests |-> IF r \in S THEN "deleted" ELSE job[r]]
    BY <1>3 DEF RedactCustomer, NamingCustomer, RedactJobs, DeleteJobs, Erasable
  <2>3. /\ job' \in [Requests -> JobState]
        /\ \A r \in Requests : job'[r] # "none" => job[r] # "none"
    BY <2>2 DEF TablesTyped, LogTypeOK, JobState, JobRows
  <2>4. TablesTyped'
    BY <2>1, <2>3 DEF TablesTyped, LogTypeOK
  <2> QED BY <2>1, <2>3, <2>4, HistoryKept DEF TablesTyped
<1>4. CASE RedactBundles(w, x)
  <2>1. /\ UNCHANGED <<deliveries, job, topic, session, installs, redacted>>
        /\ bundle' \in [Bundles -> {"none", "there", "deleted"}]
    BY <1>4 DEF RedactBundles, logVars, TablesTyped
  <2>2. TablesTyped'
    BY <2>1 DEF TablesTyped, LogTypeOK
  <2> QED BY <2>1, <2>2, HistoryKept DEF TablesTyped
<1>5. CASE RedactDeliveries(w, x)
  <2>1. /\ UNCHANGED <<job, topic, bundle, session, installs>>
        /\ deliveries' = {r \in deliveries : JobShop(r) # JobShop(x.job)}
        /\ redacted' = redacted \cup {JobShop(x.job)}
    BY <1>5 DEF RedactDeliveries, shopVars
  <2>2. TablesTyped'
    BY <2>1 DEF TablesTyped, LogTypeOK
  <2> QED BY <2>1, <2>2, HistoryKept DEF TablesTyped
<1> QED BY <1>1, <1>2, <1>3, <1>4, <1>5 DEF Handle

\* Each statement clears its own table of the shop's rows, so that what is left
\* is in the tables after it.
LEMMA HandlerKeeps ==
  ASSUME DataInv, Remember, NEW w \in Workers, NEW x \in run[w], Handle(w, x)
  PROVE  DataInv'
<1> USE DEF DataInv, DataTypes
<1>t. /\ TablesTyped' /\ UNCHANGED topic
      /\ RecordsRight' /\ SecondJobNeedsRedaction'
  BY TablesKept
<1>x. /\ x \in Run /\ JobShop(x.job) \in Shops /\ JobTopic(x.job) \in Topics
      /\ StepRight(x) /\ LeftToErase(w, x)
  BY ShopDataAssumption, DeliveryAssumption
  DEF RunsTyped, TablesTyped, Run, JobShop, JobTopic, ErasingRight
<1>1. CASE Begin(w, x)
  <2> DEFINE step == JobTopic(x.job)
             z == [x EXCEPT !.step = step]
  <2>1. GoesOn(w, x, step) /\ x.step = "claimed" /\ step \in Step
    BY <1>1, <1>x DEF Begin, At, Step
  <2>2. StepRight(z)
    BY <1>x DEF StepRight, Run, Topics
  <2>3. ASSUME NEW y \in ToErase(x.job)
        PROVE  Ahead(z, y)
    BY <1>x, <2>3 DEF ToErase, Ahead, Run, Topics
  <2> HIDE DEF step
  <2> QED BY <1>t, <2>1, <2>2, <2>3, Mover
<1>2. CASE ReadOnly(w, x)
  <2> DEFINE z == [x EXCEPT !.step = "end"]
  <2>1. GoesOn(w, x, "end") /\ "end" \in Step /\ StepRight(z)
    BY <1>2, <1>x DEF ReadOnly, Step, StepRight, Run, Topics
  <2>2. \A y \in remaining[w] : ~Ahead(x, y)
    BY <1>2 DEF ReadOnly, Ahead
  <2> QED BY <1>2, <1>t, <1>x, <2>1, <2>2, Mover DEF ReadOnly, LeftToErase
<1>3. CASE CleanUp(w, x)
  <2> DEFINE z == [x EXCEPT !.step = "end"]
  <2>1. GoesOn(w, x, "end") /\ "end" \in Step /\ StepRight(z) /\ x.step = "app/uninstalled"
    BY <1>3, <1>x DEF CleanUp, At, Step, StepRight, Run, Topics
  <2>2. ASSUME NEW y \in remaining[w], RowRight(y)', RowShop(y) = JobShop(x.job)
        PROVE  FALSE
    <3>1. y[1] = "session"
      BY <1>x, <2>1 DEF LeftToErase, Ahead
    <3> QED BY <1>3, <1>x, <2>2, <3>1 DEF RowRight, RowShop, CleanUp, DeleteSessions, TablesTyped
  <2> QED BY <1>t, <2>1, <2>2, Mover
<1>4. CASE RedactCustomer(w, x)
  <2> DEFINE z == [x EXCEPT !.step = "end"]
  <2>1. GoesOn(w, x, "end") /\ "end" \in Step /\ StepRight(z) /\ x.step = "customers/redact"
    BY <1>4, <1>x DEF RedactCustomer, At, Step, StepRight, Run, Topics
  <2>2. ASSUME NEW y \in remaining[w], RowRight(y)', RowShop(y) = JobShop(x.job),
               y # <<"job", x.job>>
        PROVE  FALSE
    <3>1. y[1] = "job" /\ JobCustomer(y[2]) = JobCustomer(x.job)
      BY <1>x, <2>1 DEF LeftToErase, Ahead
    <3>2. y[2] \in Requests /\ y[2] # x.job /\ JobShop(y[2]) = JobShop(x.job)
          /\ job'[y[2]] \in {"waiting", "held", "over"}
      BY <2>2, <3>1 DEF RowRight, RowShop, JobRows
    <3> QED BY <1>4, <3>1, <3>2 DEF RedactCustomer, NamingCustomer, DeleteJobs, JobRows
  <2> QED BY <1>t, <2>1, <2>2, Mover
<1>5. CASE RedactBundles(w, x)
  <2> DEFINE z == [x EXCEPT !.step = "sessions"]
  <2>1. GoesOn(w, x, "sessions") /\ "sessions" \in Step /\ StepRight(z) /\ x.step = "shop/redact"
    BY <1>5, <1>x DEF RedactBundles, At, Step, StepRight, Run, Topics
  <2>2. ASSUME NEW y, RowRight(y)', RowShop(y) = JobShop(x.job)
        PROVE  Ahead(z, y)
    <3>1. y[1] # "bundle"
      BY <1>5, <2>2 DEF RowRight, RowShop, RedactBundles, BundleRows
    <3> QED BY <1>x, <2>2, <3>1 DEF RowRight, Ahead, Run
  <2> QED BY <1>t, <2>1, <2>2, Mover
<1>6. CASE RedactSessions(w, x)
  <2> DEFINE z == [x EXCEPT !.step = "deliveries"]
  <2>1. GoesOn(w, x, "deliveries") /\ "deliveries" \in Step /\ StepRight(z) /\ x.step = "sessions"
    BY <1>6, <1>x DEF RedactSessions, At, Step, StepRight, Run, Topics
  <2>2. ASSUME NEW y \in remaining[w], RowRight(y)', RowShop(y) = JobShop(x.job)
        PROVE  Ahead(z, y)
    <3>1. y[1] \in {"session", "delivery", "job"}
      BY <1>x, <2>1 DEF LeftToErase, Ahead
    <3>2. y[1] # "session"
      BY <1>6, <1>x, <2>2 DEF RowRight, RowShop, RedactSessions, DeleteSessions, TablesTyped
    <3> QED BY <1>x, <3>1, <3>2 DEF Ahead, Run
  <2> QED BY <1>t, <2>1, <2>2, Mover
<1>7. CASE RedactDeliveries(w, x)
  <2> DEFINE z == [x EXCEPT !.step = "jobs"]
  <2>1. GoesOn(w, x, "jobs") /\ "jobs" \in Step /\ StepRight(z) /\ x.step = "deliveries"
    BY <1>7, <1>x DEF RedactDeliveries, At, Step, StepRight, Run, Topics
  <2>2. ASSUME NEW y \in remaining[w], RowRight(y)', RowShop(y) = JobShop(x.job)
        PROVE  Ahead(z, y)
    <3>1. y[1] \in {"delivery", "job"}
      BY <1>x, <2>1 DEF LeftToErase, Ahead
    <3>2. y[1] # "delivery"
      BY <1>7, <2>2 DEF RowRight, RowShop, RedactDeliveries
    <3> QED BY <1>x, <3>1, <3>2 DEF Ahead, Run
  <2> QED BY <1>t, <2>1, <2>2, Mover
<1>8. CASE RedactJobs(w, x)
  <2> DEFINE z == [x EXCEPT !.step = "end"]
  <2>1. GoesOn(w, x, "end") /\ "end" \in Step /\ StepRight(z) /\ x.step = "jobs"
    BY <1>8, <1>x DEF RedactJobs, At, Step, StepRight, Run, Topics
  <2>2. ASSUME NEW y \in remaining[w], RowRight(y)', RowShop(y) = JobShop(x.job),
               y # <<"job", x.job>>
        PROVE  FALSE
    <3>1. y[1] = "job"
      BY <1>x, <2>1 DEF LeftToErase, Ahead
    <3>2. y[2] \in Requests /\ y[2] # x.job /\ JobShop(y[2]) = JobShop(x.job)
          /\ job'[y[2]] \in {"waiting", "held", "over"}
      BY <2>2, <3>1 DEF RowRight, RowShop, JobRows
    <3> QED BY <1>8, <3>2 DEF RedactJobs, DeleteJobs, Erasable, JobRows
  <2> QED BY <1>t, <2>1, <2>2, Mover
<1> QED BY <1>1, <1>2, <1>3, <1>4, <1>5, <1>6, <1>7, <1>8 DEF Handle

-----------------------------------------------------------------------------
(* The theorems.                                                           *)

LEMMA DataInvInit == Init => DataInv
<1> SUFFICES ASSUME Init PROVE DataInv
  OBVIOUS
<1>1. DataTypes
  BY ShopDataAssumption
  DEF Init, LogInit, DataTypes, TablesTyped, RunsTyped, LogTypeOK, JobState
<1>2. ErasingRight /\ RecordsRight /\ SecondJobNeedsRedaction
  BY DEF Init, LogInit, ErasingRight, RecordsRight, SecondJobNeedsRedaction, Copies
<1> QED BY <1>1, <1>2 DEF DataInv

LEMMA DataInvStep == DataInv /\ [Next]_vars => DataInv'
<1> SUFFICES ASSUME DataInv, [Next]_vars PROVE DataInv'
  OBVIOUS
<1>1. CASE UNCHANGED vars
  <2>1. UNCHANGED <<deliveries, job, topic, bundle, session, installs, run, redacted, remaining>>
    BY <1>1 DEF vars, logVars, shopVars, runVars
  <2>2. DataTypes'
    BY <2>1 DEF DataInv, DataTypes, TablesTyped, RunsTyped, LogTypeOK, StepRight, JobTopic
  <2>3. RecordsRight' /\ SecondJobNeedsRedaction'
    BY <2>1 DEF DataInv, RecordsRight, SecondJobNeedsRedaction, JobShop, Copies
  <2>4. ErasingRight'
    BY <2>1 DEF DataInv, ErasingRight, LeftToErase, Rows, JobRows, BundleRows, RowShop, JobShop,
                Ahead, JobCustomer, JobTopic
  <2> QED BY <2>2, <2>3, <2>4 DEF DataInv
<1>2. CASE Next
  BY <1>2, MerchantKeeps, DeliverKeeps, LeaseKeeps, HandlerKeeps DEF Next
<1> QED BY <1>1, <1>2

LEMMA Inductive == Spec => []DataInv
BY DataInvInit, DataInvStep, PTL DEF Spec

\* However its four statements interleave with deliveries, a second redaction
\* or a new install, a redaction that got to its end has left nothing of what
\* was there when it began but the row of its own job.
THEOREM RedactionIsWhole == Spec => []Erased
<1>1. DataInv => Erased
  <2> SUFFICES ASSUME DataInv, NEW w \in Workers, NEW x \in run[w], x.step = "end"
               PROVE  remaining[w] = {}
    BY DEF Erased
  <2>1. \A y \in remaining[w] : ~Ahead(x, y)
    BY DEF Ahead
  <2> QED BY <2>1 DEF DataInv, ErasingRight, LeftToErase
<1> QED BY <1>1, Inductive, PTL

\* A delivery is taken for a new one a second time only after a redaction of
\* its shop has erased the record of it.
THEOREM SecondJobIsAfterRedaction == Spec => []SecondJobNeedsRedaction
<1>1. DataInv => SecondJobNeedsRedaction
  BY DEF DataInv
<1> QED BY <1>1, Inductive, PTL

-----------------------------------------------------------------------------
(* What may delete a row.                                                  *)

\* The cause a deleted row has to have.
ForCause(y) ==
  \/ \E w \in Workers : \E x \in run[w] : run'[w] # run[w] /\ y \in ToErase(x.job)
  \/ y[1] = "session" /\ session'[y[2]] > session[y[2]]

LEMMA RowStays ==
  ASSUME NEW y \in Rows, RowRight(y)
  PROVE  /\ y[1] = "bundle" /\ bundle'[y[2]] = "there" => y \in Rows'
         /\ y[1] = "session" /\ session'[y[2]] = session[y[2]] => y \in Rows'
         /\ y[1] = "delivery" /\ y[2] \in deliveries' => y \in Rows'
         /\ y[1] = "job" /\ job'[y[2]] \in {"waiting", "held", "over"} => y \in Rows'
BY DEF RowRight, Rows, BundleRows, JobRows

\* Whatever is not a handler erases nothing, save a session that a new install
\* replaces.
LEMMA OthersKeepRows ==
  ASSUME DataInv, NEW y \in Rows \ Rows',
         \/ \E b \in Bundles : CreateBundle(b)
         \/ \E s \in Shops : Uninstall(s) \/ Reinstall(s)
         \/ \E r \in Requests : Deliver(r) \/ Reap(r) \/ \E w \in Workers : Claim(w, r)
         \/ \E w \in Workers :
              \/ Die(w)
              \/ \E x \in run[w] : Finish(w, x) \/ \E state \in JobState : Throw(w, x, state)
  PROVE  ForCause(y)
<1> USE DEF DataInv, DataTypes
<1>r. RowRight(y)
  BY RowIs DEF RowsRight
<1>1. CASE \E b \in Bundles : CreateBundle(b)
  BY <1>1, <1>r, RowStays DEF CreateBundle, logVars, RowRight, TablesTyped, JobRows
<1>2. CASE \E s \in Shops : Uninstall(s)
  BY <1>2, <1>r, RowStays DEF Uninstall, logVars, RowRight, JobRows
<1>3. CASE \E s \in Shops : Reinstall(s)
  <2>1. UNCHANGED <<bundle, deliveries, job>>
    BY <1>3 DEF Reinstall, logVars
  <2>2. y[1] = "session" /\ session'[y[2]] # session[y[2]] /\ y[2] \in Shops
    BY <2>1, <1>r, RowStays DEF RowRight, JobRows
  <2> QED BY <1>3, <2>2 DEF Reinstall, TablesTyped, ForCause
<1>4. CASE \E r \in Requests : Deliver(r)
  <2>1. /\ UNCHANGED <<bundle, session>> /\ deliveries \subseteq deliveries'
        /\ \A r \in JobRows : job'[r] = job[r]
    BY <1>4 DEF Deliver, Accept, shopVars, TablesTyped, LogTypeOK, JobRows
  <2> QED BY <2>1, <1>r, RowStays DEF RowRight, JobRows
<1>5. CASE \/ \E r \in Requests : Reap(r) \/ \E w \in Workers : Claim(w, r)
           \/ \E w \in Workers :
                \/ Die(w)
                \/ \E x \in run[w] :
                     Finish(w, x) \/ \E state \in JobState : Throw(w, x, state)
  <2>1. UNCHANGED <<bundle, session, deliveries>>
    BY <1>5 DEF Reap, Claim, Die, Finish, Throw, Settle, logVars, shopVars
  <2>2. \A r \in JobRows : job'[r] \in {"waiting", "held", "over"}
    BY <1>5 DEF Reap, Claim, Die, Finish, Throw, Settle, logVars, TablesTyped, LogTypeOK, JobRows
  <2> QED BY <2>1, <2>2, <1>r, RowStays DEF RowRight
<1> QED BY <1>1, <1>2, <1>3, <1>4, <1>5

\* A handler erases rows that its job is to erase.
LEMMA HandlerErases ==
  ASSUME DataInv, NEW w \in Workers, NEW x \in run[w], Handle(w, x), NEW y \in Rows \ Rows'
  PROVE  ForCause(y)
<1> USE DEF DataInv, DataTypes
<1>r. RowRight(y)
  BY RowIs DEF RowsRight
<1>x. x \in Run /\ StepRight(x)
  BY DEF RunsTyped
<1>m. ASSUME NEW step, GoesOn(w, x, step), step # x.step
      PROVE  run'[w] # run[w]
  <2>1. run'[w] = {[x EXCEPT !.step = step]} /\ [x EXCEPT !.step = step].step = step
    BY <1>x, <1>m DEF GoesOn, RunsTyped, Run
  <2> QED BY <1>m, <2>1 DEF RunsTyped
<1> SUFFICES run'[w] # run[w] /\ y \in ToErase(x.job)
  BY DEF ForCause
<1>1. CASE Begin(w, x) \/ ReadOnly(w, x)
  BY <1>1, <1>r, RowStays DEF Begin, ReadOnly, logVars, shopVars, RowRight, JobRows
<1>2. CASE CleanUp(w, x) \/ RedactSessions(w, x)
  <2>1. UNCHANGED <<bundle, deliveries, job>>
    BY <1>2 DEF CleanUp, RedactSessions, logVars
  <2>2. y[1] = "session" /\ session'[y[2]] # session[y[2]] /\ y[2] \in Shops
    BY <2>1, <1>r, RowStays DEF RowRight, JobRows
  <2>3. y[2] = JobShop(x.job)
    BY <1>2, <2>2 DEF CleanUp, RedactSessions, DeleteSessions, TablesTyped
  <2>4. y # <<"job", x.job>> /\ RowShop(y) = JobShop(x.job)
    BY <2>2, <2>3 DEF RowShop
  <2>5. run'[w] # run[w] /\ JobTopic(x.job) \in {"app/uninstalled", "shop/redact"}
    BY <1>2, <1>x, <1>m DEF CleanUp, RedactSessions, At, StepRight, Topics
  <2> QED BY <2>2, <2>4, <2>5 DEF ToErase
<1>3. CASE RedactCustomer(w, x) \/ RedactJobs(w, x)
  <2>1. UNCHANGED <<bundle, session, deliveries>>
    BY <1>3 DEF RedactCustomer, RedactJobs, shopVars
  <2>2. y[1] = "job" /\ y[2] \in JobRows /\ job'[y[2]] \notin {"waiting", "held", "over"}
    BY <2>1, <1>r, RowStays DEF RowRight
  <2>3. /\ y[2] # x.job /\ JobShop(y[2]) = JobShop(x.job)
        /\ RedactCustomer(w, x) =>
             JobCustomer(y[2]) = JobCustomer(x.job) /\ JobCustomer(x.job) # NoOne
    BY <1>3, <2>2 DEF RedactCustomer, NamingCustomer, RedactJobs, DeleteJobs, Erasable, JobRows
  <2>4. y # <<"job", x.job>> /\ RowShop(y) = JobShop(x.job)
    BY <2>2, <2>3 DEF RowShop
  <2>5. /\ run'[w] # run[w]
        /\ JobTopic(x.job) = IF RedactCustomer(w, x) THEN "customers/redact" ELSE "shop/redact"
    BY <1>3, <1>x, <1>m DEF RedactCustomer, RedactJobs, At, StepRight, Topics
  <2> QED BY <2>2, <2>3, <2>4, <2>5 DEF ToErase
<1>4. CASE RedactBundles(w, x)
  <2>1. UNCHANGED <<session, deliveries, job>>
    BY <1>4 DEF RedactBundles, logVars
  <2>2. y[1] = "bundle" /\ y[2] \in Bundles /\ bundle'[y[2]] # "there" /\ bundle[y[2]] = "there"
    BY <2>1, <1>r, RowStays DEF RowRight, JobRows
  <2>3. ShopOf[y[2]] = JobShop(x.job)
    BY <1>4, <2>2 DEF RedactBundles, BundleRows
  <2>4. y # <<"job", x.job>> /\ RowShop(y) = JobShop(x.job)
    BY <2>2, <2>3 DEF RowShop
  <2>5. run'[w] # run[w] /\ JobTopic(x.job) = "shop/redact"
    BY <1>4, <1>x, <1>m DEF RedactBundles, At, StepRight, Topics
  <2> QED BY <2>4, <2>5 DEF ToErase
<1>5. CASE RedactDeliveries(w, x)
  <2>1. UNCHANGED <<bundle, session, job>>
    BY <1>5 DEF RedactDeliveries, shopVars
  <2>2. y[1] = "delivery" /\ y[2] \in deliveries /\ y[2] \notin deliveries'
    BY <2>1, <1>r, RowStays DEF RowRight, JobRows
  <2>3. JobShop(y[2]) = JobShop(x.job)
    BY <1>5, <2>2 DEF RedactDeliveries
  <2>4. y # <<"job", x.job>> /\ RowShop(y) = JobShop(x.job)
    BY <2>2, <2>3 DEF RowShop
  <2>5. run'[w] # run[w] /\ JobTopic(x.job) = "shop/redact"
    BY <1>5, <1>x, <1>m DEF RedactDeliveries, At, StepRight, Topics
  <2> QED BY <2>4, <2>5 DEF ToErase
<1> QED BY <1>1, <1>2, <1>3, <1>4, <1>5 DEF Handle

\* A row goes only in a statement of a handler whose job is to erase that very row: an
\* uninstall takes sessions of its shop and no bundle, a customer's redaction the jobs
\* of its shop that name this customer and no other's, a shop's redaction no row of
\* another shop, and none of them the row of its own job; a session also gives way to
\* the one of a new install.
THEOREM NothingErasedWithoutCause == Spec => ErasedForCause
<1>1. DataInv /\ [Next]_vars => [\A y \in Rows \ Rows' : ForCause(y)]_vars
  BY OthersKeepRows, HandlerErases DEF Next
<1>2. [\A y \in Rows \ Rows' : ForCause(y)]_vars
      => [\A x \in Rows \ Rows' :
            \/ \E w \in Workers : \E y \in run[w] : run'[w] # run[w] /\ x \in ToErase(y.job)
            \/ x[1] = "session" /\ session'[x[2]] > session[x[2]]]_vars
  BY DEF ForCause
<1> QED BY <1>1, <1>2, Inductive, PTL DEF Spec, ErasedForCause
=============================================================================
