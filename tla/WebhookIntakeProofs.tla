------------------------ MODULE WebhookIntakeProofs -------------------------
(***************************************************************************)
(* Proofs about WebhookIntake for every set of requests and deliveries,    *)
(* however the copies of a delivery overlap.                               *)
(***************************************************************************)
EXTENDS WebhookIntake, TLAPS

\* The open transaction of r has inserted the delivery.
Writing(r) == request[r] \in {"inserted", "queued"}

OnRecord(r) == Copies(r) \cap deliveries # {}

\* Of the copies of one delivery at most one is in an open transaction that
\* inserted it, it verified, and it is the first: none is on record.
OneWriter ==
  \A r \in Requests : Writing(r) =>
    /\ DeliveryOf[r] \notin Unreadable
    /\ ~OnRecord(r)
    /\ \A q \in Copies(r) : Writing(q) => q = r

\* A delivery is on record once.
OneRecord == \A r, q \in deliveries : DeliveryOf[r] = DeliveryOf[q] => r = q

\* What a request was told, or told Shopify, is on record.
Where ==
  \A r \in Requests :
    request[r] \in {"accepted", "duplicate", "ignored"} \/ r \in heard => OnRecord(r)

IntakeInv == TypeOK /\ OneWriter /\ OneRecord /\ Where

-----------------------------------------------------------------------------
LEMMA CopiesShared ==
  ASSUME NEW r \in Requests
  PROVE  /\ r \in Copies(r)
         /\ \A q \in Copies(r) : q \in Requests /\ r \in Copies(q) /\ Copies(q) = Copies(r)
BY DEF Copies

\* A step that commits nothing and tells Shopify nothing: what it has to show
\* is that the request it moves may be where it goes.
LEMMA QuietMove ==
  ASSUME NEW r \in Requests, NEW stage \in Progress, IntakeInv, Becomes(r, stage),
         stage \in {"accepted", "duplicate", "ignored"} => OnRecord(r),
         stage \in {"inserted", "queued"} =>
           /\ DeliveryOf[r] \notin Unreadable
           /\ ~OnRecord(r)
           /\ \A q \in Copies(r) : Writing(q) => q = r
  PROVE  IntakeInv'
<1> USE DEF IntakeInv, Becomes
<1>1. TypeOK'
  BY DEF TypeOK, LogTypeOK
<1>2. \A q \in Requests : request'[q] = IF q = r THEN stage ELSE request[q]
  BY DEF TypeOK
<1>3. OneWriter'
  <2> SUFFICES ASSUME NEW p \in Requests, Writing(p)'
               PROVE  /\ DeliveryOf[p] \notin Unreadable
                      /\ ~OnRecord(p)
                      /\ \A q \in Copies(p) : Writing(q)' => q = p
    BY DEF OneWriter, OnRecord, Copies
  <2>1. CASE p = r
    BY <1>2, <2>1, CopiesShared DEF Writing
  <2>2. CASE p # r
    <3>1. Writing(p)
      BY <1>2, <2>2 DEF Writing
    <3>2. r \in Copies(p) => ~Writing(r)'
      BY <1>2, <2>2, <3>1, CopiesShared DEF Writing
    <3> QED BY <1>2, <3>1, <3>2, CopiesShared DEF OneWriter, Writing
  <2> QED BY <2>1, <2>2
<1>4. OneRecord'
  BY DEF OneRecord
<1>5. Where'
  BY <1>2 DEF Where, OnRecord, Copies
<1> QED BY <1>1, <1>3, <1>4, <1>5

\* COMMIT turns the one writer into the one record.
LEMMA CommitKeeps ==
  ASSUME NEW r \in Requests, NEW seen \in BOOLEAN, IntakeInv, Commit(r, seen)
  PROVE  IntakeInv'
<1> USE DEF IntakeInv
<1>1. Writing(r) /\ ~OnRecord(r) /\ \A q \in Copies(r) : Writing(q) => q = r
  BY DEF OneWriter, Writing, Commit
<1>2. \A q \in Requests :
        request'[q] = IF q = r THEN (IF seen THEN "accepted" ELSE "failed") ELSE request[q]
  BY DEF Commit, TypeOK
<1>3. \A q \in Requests : job'[q] = IF q = r THEN "waiting" ELSE job[q]
  BY DEF Commit, TypeOK, LogTypeOK
<1>4. deliveries' = deliveries \cup {r} /\ heard' = heard
  BY DEF Commit
<1>5. TypeOK'
  <2>1. request' \in [Requests -> Progress]
    BY DEF Commit, TypeOK, Progress
  <2>2. LogTypeOK'
    BY DEF Commit, TypeOK, LogTypeOK, JobState
  <2>3. heard' \subseteq Requests
    BY <1>4 DEF TypeOK
  <2>4. \A q \in Requests : q \in deliveries' <=> job'[q] # "none"
    BY <1>3, <1>4 DEF TypeOK
  <2> QED BY <2>1, <2>2, <2>3, <2>4 DEF TypeOK
<1>6. OneWriter'
  <2> SUFFICES ASSUME NEW p \in Requests, Writing(p)'
               PROVE  /\ DeliveryOf[p] \notin Unreadable
                      /\ ~OnRecord(p)'
                      /\ \A q \in Copies(p) : Writing(q)' => q = p
    BY DEF OneWriter, Copies
  <2>1. p # r /\ Writing(p)
    BY <1>2 DEF Writing
  <2>2. r \notin Copies(p)
    BY <1>1, <2>1, CopiesShared
  <2>3. ~OnRecord(p)'
    BY <1>4, <2>1, <2>2 DEF OneWriter, OnRecord, Copies
  <2> QED BY <1>2, <2>1, <2>2, <2>3, CopiesShared DEF OneWriter, Writing
<1>7. OneRecord'
  <2>1. \A q \in deliveries : DeliveryOf[q] # DeliveryOf[r]
    BY <1>1 DEF OnRecord, Copies, TypeOK, LogTypeOK
  <2> QED BY <1>4, <2>1 DEF OneRecord
<1>8. Where'
  <2>1. OnRecord(r)'
    BY <1>4, CopiesShared DEF OnRecord, Copies
  <2>2. ASSUME NEW q \in Requests, OnRecord(q) PROVE OnRecord(q)'
    BY <1>4, <2>2 DEF OnRecord, Copies
  <2> QED BY <1>2, <1>4, <2>1, <2>2 DEF Where
<1> QED BY <1>5, <1>6, <1>7, <1>8

LEMMA RespondKeeps ==
  ASSUME NEW r \in Requests, IntakeInv, Respond(r)
  PROVE  IntakeInv'
<1> USE DEF IntakeInv
<1>1. \A q \in Requests : request'[q] = IF q = r THEN "answered" ELSE request[q]
  BY DEF Respond, TypeOK
<1>2. heard' = heard \cup {r} /\ deliveries' = deliveries /\ job' = job
  BY DEF Respond
<1>3. TypeOK'
  BY DEF Respond, TypeOK, LogTypeOK, Progress
<1>4. OneWriter'
  BY <1>1, <1>2 DEF OneWriter, Writing, OnRecord, Copies
<1>5. OneRecord'
  BY <1>2 DEF OneRecord
<1>6. OnRecord(r)
  BY DEF Respond, Where
<1>7. Where'
  BY <1>1, <1>2, <1>6 DEF Where, OnRecord, Copies
<1> QED BY <1>3, <1>4, <1>5, <1>7

\* InsertDelivery inserts only where nobody holds the id and nobody has it.
LEMMA InsertKeeps ==
  ASSUME NEW r \in Requests, IntakeInv, InsertDelivery(r)
  PROVE  IntakeInv'
<1>1. \A q \in Copies(r) : ~Writing(q)
  BY DEF InsertDelivery, Locked, Writing
<1>2. CASE OnRecord(r)
  <2>1. Becomes(r, "duplicate")
    BY <1>2 DEF InsertDelivery, OnRecord
  <2> QED BY <1>2, <2>1, QuietMove DEF Progress
<1>3. CASE ~OnRecord(r)
  <2>1. Becomes(r, "inserted") /\ DeliveryOf[r] \notin Unreadable
    BY <1>3 DEF InsertDelivery, OnRecord
  <2> QED BY <1>1, <1>3, <2>1, QuietMove DEF Progress
<1> QED BY <1>2, <1>3

LEMMA IntakeStep ==
  ASSUME IntakeInv, [Next]_vars
  PROVE  IntakeInv'
<1>1. CASE UNCHANGED vars
  BY <1>1 DEF vars, IntakeInv, TypeOK, LogTypeOK, OneWriter, OneRecord, Where,
              Writing, OnRecord, Copies
<1>2. ASSUME NEW r \in Requests, Receive(r) \/ Handle(r) \/ Commit(r, FALSE) \/ Fail(r)
      PROVE  IntakeInv'
  <2>1. CASE Receive(r)
    BY <2>1, QuietMove DEF Receive, Progress
  <2>2. CASE Reject(r)
    BY <2>2, QuietMove DEF Reject, Progress
  <2>3. CASE InsertDelivery(r)
    BY <2>3, InsertKeeps
  <2>4. CASE CreateJob(r)
    <3>1. Becomes(r, "queued") /\ Writing(r)
      BY <2>4 DEF CreateJob, Writing
    <3> QED BY <3>1, QuietMove DEF IntakeInv, OneWriter, Progress
  <2>5. CASE Commit(r, TRUE) \/ Commit(r, FALSE)
    BY <2>5, CommitKeeps
  <2>6. CASE CommitNothing(r)
    <3>1. Becomes(r, "ignored") /\ OnRecord(r)
      BY <2>6 DEF CommitNothing, IntakeInv, Where
    <3> QED BY <3>1, QuietMove DEF Progress
  <2>7. CASE Respond(r)
    BY <2>7, RespondKeeps
  <2>8. CASE Fail(r)
    BY <2>8, QuietMove DEF Fail, Progress
  <2> QED BY <1>2, <2>1, <2>2, <2>3, <2>4, <2>5, <2>6, <2>7, <2>8 DEF Handle
<1> QED BY <1>1, <1>2 DEF Next

LEMMA IntakeInvariant == Spec => []IntakeInv
<1>1. Init => IntakeInv
  BY DEF Init, LogInit, IntakeInv, TypeOK, LogTypeOK, JobState, Progress,
         OneWriter, OneRecord, Where, Writing
<1> QED BY <1>1, IntakeStep, PTL DEF Spec

-----------------------------------------------------------------------------
\* acceptDelivery commits a delivery and its job together: a delivery is on
\* record exactly when its job was created.
THEOREM IntakeTypes == Spec => []TypeOK
<1>1. IntakeInv => TypeOK
  BY DEF IntakeInv
<1> QED BY <1>1, IntakeInvariant, PTL

\* However the copies of a delivery overlap, the unique id admits one of them.
THEOREM DeliveriesOnce == Spec => []OneJobPerDelivery
<1>1. IntakeInv => OneJobPerDelivery
  BY DEF IntakeInv, TypeOK, OneRecord, OneJobPerDelivery, Copies
<1> QED BY <1>1, IntakeInvariant, PTL

\* The endpoint answers 200 only for a delivery whose job is in the queue,
\* whether this request or another copy put it there.
THEOREM AcksAreTrue == Spec => []AckMeansQueued
<1>1. IntakeInv => AckMeansQueued
  <2> SUFFICES ASSUME IntakeInv, NEW r \in heard
               PROVE  \E q \in Copies(r) : job[q] # "none"
    BY DEF AckMeansQueued
  <2>1. r \in Requests /\ OnRecord(r)
    BY DEF IntakeInv, TypeOK, Where
  <2> QED BY <2>1 DEF IntakeInv, TypeOK, OnRecord, Copies
<1> QED BY <1>1, IntakeInvariant, PTL

\* The handler's statements and the commit, interleaved with those of every
\* other copy, amount to the one step that acceptDelivery promises, or to none.
THEOREM IntakeImplementsLog == Spec => ImplementsLog
<1>1. Init => LogInit
  BY DEF Init
<1>2. ASSUME IntakeInv, [Next]_vars
      PROVE  [\E r \in Requests : Accept(r)]_logVars
  <2>1. CASE UNCHANGED vars
    BY <2>1 DEF vars, logVars
  <2>2. ASSUME NEW r \in Requests, NEW seen \in BOOLEAN, Commit(r, seen)
        PROVE  Accept(r)
    <3>1. Writing(r)
      BY <2>2 DEF Commit, Writing
    <3>2. DeliveryOf[r] \notin Unreadable /\ Copies(r) \cap deliveries = {}
      BY <1>2, <3>1 DEF IntakeInv, OneWriter, OnRecord
    <3>3. job[r] = "none"
      BY <1>2, <3>2, CopiesShared DEF IntakeInv, TypeOK
    <3> QED BY <2>2, <3>2, <3>3 DEF Commit, Accept
  <2>3. ASSUME NEW r \in Requests,
               Receive(r) \/ Reject(r) \/ InsertDelivery(r) \/ CreateJob(r)
                 \/ CommitNothing(r) \/ Respond(r) \/ Fail(r)
        PROVE  UNCHANGED logVars
    BY <2>3 DEF Receive, Reject, InsertDelivery, CreateJob, CommitNothing, Respond,
                Fail, Becomes, logVars
  <2> QED BY <1>2, <2>1, <2>2, <2>3 DEF Next, Handle
<1> QED BY <1>1, <1>2, IntakeInvariant, PTL DEF Spec, ImplementsLog, LogSpec
=============================================================================
