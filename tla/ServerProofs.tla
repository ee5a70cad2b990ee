---------------------------- MODULE ServerProofs -----------------------------
(***************************************************************************)
(* Proofs about parts of the admin app's server that share no variable,    *)
(* each for every value of its own constants.                              *)
(***************************************************************************)
EXTENDS InventoryPush, ShutdownOrder, BundleHandles, ThrottleGate, StoreSetup, ApiRoutes,
        CatalogScan, FiniteSetTheorems, SequenceTheorems, TLAPS

-----------------------------------------------------------------------------
(* InventoryPush: one key a row, whichever attempt sends it.               *)

PushRow == [status : {"PENDING", "RUNNING", "FAILED", "DEAD", "SUCCEEDED"}, attempts : Nat]
Mutated == [row : PushIds, attempt : Nat, key : {<<i, 0>> : i \in PushIds},
            outcome : {"none", "applied", "userErrors", "error"}]

PushTypes ==
  /\ push \in [PushIds -> PushRow]
  /\ sent \subseteq Mutated
  /\ keys \subseteq {<<i, 0>> : i \in PushIds}
  /\ written \in Seq(PushIds)

\* Shopify knows the key of a row exactly when it has written the row.
KeysAreWritten ==
  \A i \in PushIds : <<i, 0>> \in keys <=> \E n \in 1..Len(written) : written[n] = i

Injective == \A m, n \in 1..Len(written) : written[m] = written[n] => m = n

\* Who has been told that the level took the quantity was told the truth.
AppliedIsKnown ==
  /\ \A x \in sent : x.key = <<x.row, 0>> /\ (x.outcome = "applied" => x.key \in keys)
  /\ \A i \in PushIds : push[i].status = "SUCCEEDED" => <<i, 0>> \in keys

PushInv == PushTypes /\ KeysAreWritten /\ Injective /\ AppliedIsKnown

LEMMA PushInvInit == PushInit => PushInv
<1> SUFFICES ASSUME PushInit PROVE PushInv
  OBVIOUS
<1> USE DEF PushInit
<1>1. PushTypes
  BY DEF PushTypes, PushRow, Mutated
<1>2. Len(written) = 0
  OBVIOUS
<1>3. KeysAreWritten /\ Injective
  BY <1>2 DEF KeysAreWritten, Injective
<1>4. AppliedIsKnown
  BY DEF AppliedIsKnown
<1> QED BY <1>1, <1>3, <1>4 DEF PushInv

\* Shopify carries out a mutation: what it writes was not written before.
LEMMA SetQuantitiesKeeps ==
  ASSUME PushInv, NEW x \in sent, SetQuantities(x)
  PROVE  PushInv'
<1> USE DEF PushInv
<1>x. x \in Mutated /\ x.key = <<x.row, 0>> /\ x.row \in PushIds
  BY DEF PushTypes, Mutated, AppliedIsKnown
<1>1. PICK outcome \in {"applied", "userErrors", "error"} :
        /\ sent' = (sent \ {x}) \cup {[x EXCEPT !.outcome = outcome]}
        /\ IF outcome = "applied" /\ x.key \notin keys
           THEN keys' = keys \cup {x.key} /\ written' = Append(written, x.row)
           ELSE UNCHANGED <<keys, written>>
        /\ push' = push
  BY DEF SetQuantities
<1>2. PushTypes'
  <2>1. sent' \subseteq Mutated
    BY <1>x, <1>1 DEF PushTypes, Mutated
  <2>2. written' \in Seq(PushIds) /\ keys' \subseteq {<<i, 0>> : i \in PushIds}
    <3> DEFINE K == {<<i, 0>> : i \in PushIds}
    <3>1. x.key \in K /\ keys \subseteq K
      BY <1>x DEF PushTypes
    <3>2. written \in Seq(PushIds)
      BY DEF PushTypes
    <3> HIDE DEF K
    <3>3. keys' \subseteq K
      BY <1>1, <3>1
    <3>4. Append(written, x.row) \in Seq(PushIds)
      BY <1>x, <3>2
    <3>5. written' \in Seq(PushIds)
      BY <1>1, <3>2, <3>4
    <3> QED BY <3>3, <3>5 DEF K
  <2> QED BY <1>1, <2>1, <2>2 DEF PushTypes
<1>3. keys \subseteq keys' /\ (outcome = "applied" => x.key \in keys')
  BY <1>1
<1>4. AppliedIsKnown'
  <2>1. ASSUME NEW y \in sent'
        PROVE  y.key = <<y.row, 0>> /\ (y.outcome = "applied" => y.key \in keys')
    <3>1. CASE y \in sent
      BY <1>3, <3>1 DEF AppliedIsKnown
    <3>2. CASE y = [x EXCEPT !.outcome = outcome]
      BY <1>x, <1>3, <3>2 DEF Mutated
    <3> QED BY <1>1, <3>1, <3>2
  <2> QED BY <1>1, <1>3, <2>1 DEF AppliedIsKnown
<1>5. CASE UNCHANGED <<keys, written>>
  BY <1>2, <1>4, <1>5 DEF KeysAreWritten, Injective
<1>6. CASE x.key \notin keys /\ keys' = keys \cup {x.key} /\ written' = Append(written, x.row)
  <2>1. /\ Len(written) \in Nat /\ Len(written') = Len(written) + 1
        /\ \A n \in 1..Len(written) : written'[n] = written[n] /\ written[n] \in PushIds
        /\ written'[Len(written) + 1] = x.row
    BY <1>x, <1>6 DEF PushTypes
  <2>2. \A n \in 1..Len(written) : written[n] # x.row
    BY <1>x, <1>6 DEF KeysAreWritten
  <2>3. \A n \in 1..Len(written') : n \in 1..Len(written) \/ n = Len(written) + 1
    BY <2>1
  <2>4. Injective'
    BY <2>1, <2>2, <2>3 DEF Injective
  <2>5. KeysAreWritten'
    <3> SUFFICES ASSUME NEW i \in PushIds
                 PROVE  <<i, 0>> \in keys' <=> \E n \in 1..Len(written') : written'[n] = i
      BY DEF KeysAreWritten
    <3>1. <<i, 0>> \in keys' <=> <<i, 0>> \in keys \/ i = x.row
      BY <1>x, <1>6
    <3>2. (\E n \in 1..Len(written') : written'[n] = i)
          <=> (\E n \in 1..Len(written) : written[n] = i) \/ i = x.row
      BY <2>1, <2>3
    <3> QED BY <3>1, <3>2 DEF KeysAreWritten
  <2> QED BY <1>2, <1>4, <2>4, <2>5
<1> QED BY <1>1, <1>5, <1>6

LEMMA PushInvStep == PushInv /\ [PushNext]_pushVars => PushInv'
<1> USE PushAssumption DEF PushInv
<1> SUFFICES ASSUME PushInv, [PushNext]_pushVars PROVE PushInv'
  OBVIOUS
<1>1. CASE UNCHANGED pushVars
  BY <1>1 DEF pushVars, PushTypes, KeysAreWritten, Injective, AppliedIsKnown
<1>2. ASSUME NEW i \in PushIds, BeginPush(i)
      PROVE  PushInv'
  <2> DEFINE attempt == push[i].attempts + 1
             item == [row |-> i, attempt |-> attempt, outcome |-> "none", key |-> <<i, 0>>]
  <2>0. attempt \in Nat /\ AfterFailure(attempt) \in {"DEAD", "FAILED"}
    BY DEF PushTypes, PushRow, AfterFailure
  <2>a. PICK status \in {"RUNNING", "DEAD", AfterFailure(attempt)} :
          /\ push' = [push EXCEPT ![i] = [status |-> status, attempts |-> attempt]]
          /\ sent' = IF status # "RUNNING" THEN sent ELSE sent \cup {item}
          /\ UNCHANGED <<keys, written>>
    BY <1>2 DEF BeginPush, IdempotencyKey
  <2>b. status \in {"RUNNING", "DEAD", "FAILED"}
    BY <2>0
  <2>1. /\ push' \in [PushIds -> PushRow]
        /\ \A j \in PushIds : push'[j].status = "SUCCEEDED" => push[j].status = "SUCCEEDED"
        /\ sent \subseteq sent' /\ sent' \subseteq sent \cup {item}
        /\ item \in Mutated /\ item.key = <<item.row, 0>> /\ item.outcome = "none"
        /\ UNCHANGED <<keys, written>>
    <3> HIDE DEF attempt
    <3> QED BY <2>0, <2>a, <2>b DEF PushTypes, PushRow, Mutated
  <2> HIDE DEF item
  <2>2. PushTypes'
    BY <2>1 DEF PushTypes
  <2>3. AppliedIsKnown'
    BY <2>1 DEF AppliedIsKnown
  <2> QED BY <2>1, <2>2, <2>3 DEF KeysAreWritten, Injective
<1>3. ASSUME NEW i \in PushIds, BuryPush(i) \/ RetryPush(i)
      PROVE  PushInv'
  <2>1. UNCHANGED <<sent, keys, written>>
    BY <1>3 DEF BuryPush, RetryPush
  <2>2. /\ push' \in [PushIds -> PushRow]
        /\ \A j \in PushIds : push'[j].status = "SUCCEEDED" => push[j].status = "SUCCEEDED"
    <3>1. CASE BuryPush(i)
      BY <3>1 DEF BuryPush, PushTypes, PushRow
    <3>2. CASE RetryPush(i)
      BY <3>2 DEF RetryPush, PushTypes, PushRow
    <3> QED BY <1>3, <3>1, <3>2
  <2>3. PushTypes' /\ AppliedIsKnown'
    BY <2>1, <2>2 DEF PushTypes, AppliedIsKnown
  <2> QED BY <2>1, <2>3 DEF KeysAreWritten, Injective
<1>4. ASSUME NEW x \in sent, SetQuantities(x)
      PROVE  PushInv'
  BY <1>4, SetQuantitiesKeeps
<1>5. ASSUME NEW x \in sent, SettlePush(x) \/ LosePush(x)
      PROVE  PushInv'
  <2>1. UNCHANGED <<keys, written>> /\ sent' = sent \ {x}
    BY <1>5 DEF SettlePush, LosePush
  <2>2. /\ push' \in [PushIds -> PushRow]
        /\ \A i \in PushIds : push'[i].status = "SUCCEEDED" => <<i, 0>> \in keys
    <3>1. x \in Mutated /\ x.row \in PushIds
      BY DEF PushTypes, Mutated
    <3>2. PICK status \in {"SUCCEEDED", "DEAD", "FAILED"} :
            /\ push' \in {push, [push EXCEPT ![x.row].status = status]}
            /\ status = "SUCCEEDED" => x.outcome = "applied"
      BY <1>5 DEF SettlePush, LosePush, AfterFailure
    <3>3. status = "SUCCEEDED" => <<x.row, 0>> \in keys
      BY <3>2 DEF AppliedIsKnown
    <3> QED BY <3>1, <3>2, <3>3 DEF AppliedIsKnown, PushTypes, PushRow
  <2>3. PushTypes' /\ AppliedIsKnown'
    BY <2>1, <2>2 DEF PushTypes, AppliedIsKnown
  <2> QED BY <2>1, <2>3 DEF KeysAreWritten, Injective
<1> QED BY <1>1, <1>2, <1>3, <1>4, <1>5 DEF PushNext

\* However often a row is sent, by attempts that may overlap, the level takes
\* its quantity once, and a row that succeeded was written.
THEOREM PushedOnce == PushSpec => []WrittenOnce
<1>1. PushInv => WrittenOnce
  BY DEF PushInv, WrittenOnce, Injective, AppliedIsKnown, KeysAreWritten
<1> QED BY <1>1, PushInvInit, PushInvStep, PTL DEF PushSpec

-----------------------------------------------------------------------------
(* ShutdownOrder.                                                          *)

\* Only the signal ends the loop, only a tick has jobs to run, every row held is a
\* job of the tick or one the worker has lost, and what is drained stays so.
ShutdownInv ==
  /\ requests \in Nat
  /\ loop \in {"sleeping", "claiming", "tick", "stopped"}
  /\ unrun # {} => loop = "tick"
  /\ heldRows \subseteq unrun \cup abandoned
  /\ loop = "stopped" => ~flag
  /\ closing # "none" => flag = FALSE /\ listening = FALSE
  /\ disconnects = IF closing \in {"disconnecting", "exited"} THEN 1 ELSE 0
  /\ disconnects = 1 /\ ~expired => Drained

LEMMA ShutdownInvStep == ShutdownInv /\ [ShutdownNext]_shutdownVars => ShutdownInv'
<1> SUFFICES ASSUME ShutdownInv, [ShutdownNext]_shutdownVars PROVE ShutdownInv'
  OBVIOUS
<1> USE ShutdownAssumption DEF ShutdownInv, Drained, Alive
<1>1. CASE StartTick \/ StopLoop \/ EndTick
  BY <1>1 DEF StartTick, StopLoop, EndTick, rowPart, serverPart, endPart
<1>2. CASE ClaimRows
  <2>1. PICK got : /\ heldRows' = heldRows \cup got
                   /\ \/ loop' = "tick" /\ unrun' = got /\ abandoned' = abandoned \ got
                      \/ loop' = "sleeping" /\ unrun' = unrun /\ abandoned' = abandoned \cup got
    BY <1>2 DEF ClaimRows
  <2>2. loop = "claiming" /\ unrun = {} /\ UNCHANGED <<flag, serverPart, endPart>>
    BY <1>2 DEF ClaimRows
  <2>3. heldRows' \subseteq unrun' \cup abandoned'
    BY <2>1, <2>2
  <2> QED BY <2>1, <2>2, <2>3 DEF serverPart, endPart
<1>3. CASE RunJob
  BY <1>3 DEF RunJob, serverPart, endPart
<1>4. CASE ThrowTick
  BY <1>4 DEF ThrowTick, serverPart, endPart
<1>5. CASE ReapRow
  BY <1>5 DEF ReapRow, serverPart, endPart
<1>6. CASE Request \/ Answer
  BY <1>6 DEF Request, Answer, workerPart, rowPart, endPart
<1>7. CASE Signal
  BY <1>7 DEF Signal, rowPart
<1>8. CASE EndWait \/ Exit
  BY <1>8 DEF EndWait, Exit, workerPart, rowPart, serverPart
<1>9. CASE UNCHANGED shutdownVars
  BY <1>9 DEF shutdownVars
<1> QED BY <1>1, <1>2, <1>3, <1>4, <1>5, <1>6, <1>7, <1>8, <1>9 DEF ShutdownNext

\* Within the grace period the database connection is closed once, with no
\* request in flight and nothing left of a tick; a row is RUNNING under the
\* worker only if its claim went unheard or its tick threw.
THEOREM DisconnectIsLast == ShutdownSpec => []DisconnectsIdle
<1>1. ShutdownInit => ShutdownInv
  BY DEF ShutdownInit, ShutdownInv
<1>2. ShutdownInv => DisconnectsIdle
  BY DEF ShutdownInv, DisconnectsIdle, Drained
<1> QED BY <1>1, <1>2, ShutdownInvStep, PTL DEF ShutdownSpec

-----------------------------------------------------------------------------
(* What Max and Min of the community modules are.                          *)

LEMMA MaxIsGreatest ==
  ASSUME NEW n \in Nat, NEW S \in SUBSET (0..n), S # {}
  PROVE  Max(S) \in S /\ \A y \in S : y <= Max(S)
<1> DEFINE R == {p \in Nat \X Nat : p[1] < p[2]}
           T == {n - x : x \in S}
<1>1. IsWellFoundedOn(R, Nat)
  BY NatLessThanWellFounded DEF OpToRel
<1>2. T \subseteq Nat /\ T # {}
  <2>1. \A x \in S : n - x \in Nat
    OBVIOUS
  <2>2. PICK x \in S : TRUE
    OBVIOUS
  <2>3. n - x \in T
    BY <2>2
  <2> QED BY <2>1, <2>3
<1>3. PICK t \in T : \A u \in T : <<u, t>> \notin R
  <2> HIDE DEF T, R
  <2> QED BY <1>1, <1>2, WFMin
<1>4. PICK x \in S : t = n - x
  OBVIOUS
<1>5. \A y \in S : y <= x
  <2> SUFFICES ASSUME NEW y \in S, y > x PROVE FALSE
    OBVIOUS
  <2>1. n - y \in T /\ n - y \in Nat /\ t \in Nat /\ n - y < t
    BY <1>4
  <2> QED BY <1>3, <2>1
<1> QED BY <1>5 DEF Max

-----------------------------------------------------------------------------
(* BundleHandles: every collision is with a set inserted since the handles *)
(* were read, and each such set is collided with once.                     *)

HandleTypes ==
  /\ holder \in [Ordinals -> Creators \cup {NoCreator, Earlier}]
  /\ tried \in [Creators -> Nat] /\ base \in [Creators -> Nat] /\ landed \in [Creators -> Nat]
  /\ phase \in [Creators -> {"idle", "insert", "created", "gave up", "failed"}]

\* Handles in use that the request may still collide with.
AheadOf(r) == {n \in Taken : n >= tried[r]}

\* Sets that landed since: those it has collided with, and those ahead of it.
CollisionsLanded(r) ==
  Waiting(r) => base[r] <= tried[r] /\ landed[r] >= tried[r] - base[r] + Cardinality(AheadOf(r))

HandlesInv == HandleTypes /\ GivesUpOnlyIfOvertaken /\ \A r \in Creators : CollisionsLanded(r)

LEMMA OrdinalsBounded ==
  /\ MaxEarlier + Cardinality(Creators) \in Nat
  /\ Ordinals \subseteq 0..(MaxEarlier + Cardinality(Creators))
  /\ Taken \subseteq Ordinals
  /\ \A S \in SUBSET Ordinals : IsFiniteSet(S) /\ Cardinality(S) \in Nat
<1>1. Cardinality(Creators) \in Nat
  BY HandlesAssumption, FS_CardinalityType
<1>2. MaxEarlier + Cardinality(Creators) \in Nat
  BY <1>1, HandlesAssumption
<1>3. IsFiniteSet(Ordinals)
  BY <1>2, FS_Interval DEF Ordinals
<1>4. \A S \in SUBSET Ordinals : IsFiniteSet(S) /\ Cardinality(S) \in Nat
  BY <1>3, FS_Subset, FS_CardinalityType
<1> QED BY <1>2, <1>4 DEF Ordinals, Taken

\* The number a request tries first is above all those in use.
LEMMA NextIsAbove ==
  nextHandleOrdinal \in Nat /\ \A n \in Taken : n < nextHandleOrdinal
<1> DEFINE S == Taken \cup {0}
           m == MaxEarlier + Cardinality(Creators)
<1>1. S \in SUBSET (0..m) /\ S # {} /\ m \in Nat
  BY OrdinalsBounded
<1> HIDE DEF S, m
<1>2. Max(S) \in S /\ \A y \in S : y <= Max(S)
  BY <1>1, MaxIsGreatest
<1>3. \A n \in Taken : n \in S /\ n \in Nat
  BY OrdinalsBounded DEF S, Ordinals
<1>4. Max(S) \in Nat
  <2>1. \A y \in S : y \in Nat
    BY <1>1
  <2> QED BY <1>2, <2>1
<1> QED BY <1>2, <1>3, <1>4 DEF nextHandleOrdinal, S

\* The arithmetic: sets landed, attempts made, sets ahead.
LEMMA FewerAhead ==
  ASSUME NEW l \in Nat, NEW t \in Nat, NEW b \in Nat, NEW k \in Nat, NEW h \in Nat,
         l >= t - b + k, h <= k
  PROVE  l >= t - b + h
OBVIOUS

LEMMA MoreLanded ==
  ASSUME NEW l \in Nat, NEW t \in Nat, NEW b \in Nat, NEW k \in Nat, NEW h \in Nat, NEW g \in Nat,
         l >= t - b + k, h <= g, g <= k + 1
  PROVE  l + 1 >= t - b + h
OBVIOUS

LEMMA OneFewerAhead ==
  ASSUME NEW l \in Nat, NEW t \in Nat, NEW b \in Nat, NEW k \in Nat, NEW h \in Nat,
         b <= t, l >= t - b + k, h <= k - 1
  PROVE  b <= t + 1 /\ l >= t + 1 - b + h
OBVIOUS

LEMMA EnoughLanded ==
  ASSUME NEW l \in Nat, NEW t \in Nat, NEW b \in Nat, NEW k \in Nat, k - 1 \in Nat,
         l >= t - b + k, t + 1 - b >= MaxHandleTries
  PROVE  l >= MaxHandleTries
BY HandlesAssumption

LEMMA HandlesInvStep == HandlesInv /\ [HandlesNext]_handleVars => HandlesInv'
<1> SUFFICES ASSUME HandlesInv, [HandlesNext]_handleVars PROVE HandlesInv'
  OBVIOUS
<1> USE HandlesAssumption DEF HandlesInv
<1>f. \A q \in Creators : /\ AheadOf(q) \in SUBSET Ordinals /\ IsFiniteSet(AheadOf(q))
                          /\ Cardinality(AheadOf(q)) \in Nat
  BY OrdinalsBounded DEF AheadOf
<1>g. Taken' \subseteq Ordinals
  BY DEF Taken
<1>1. CASE UNCHANGED handleVars
  BY <1>1 DEF handleVars, HandleTypes, GivesUpOnlyIfOvertaken, CollisionsLanded, Waiting, AheadOf,
              Taken
<1>2. ASSUME NEW r \in Creators, ReadHandles(r)
      PROVE  HandlesInv'
  <2>0. PICK m \in Nat : m = nextHandleOrdinal /\ \A n \in Taken : n < m
    BY NextIsAbove
  <2>1. /\ phase[r] = "idle" /\ phase' = [phase EXCEPT ![r] = "insert"]
        /\ tried' = [tried EXCEPT ![r] = m] /\ base' = [base EXCEPT ![r] = m]
        /\ UNCHANGED <<holder, landed>> /\ Taken' = Taken
    BY <1>2, <2>0 DEF ReadHandles, Taken
  <2>2. HandleTypes'
    BY <2>1 DEF HandleTypes
  <2>3. GivesUpOnlyIfOvertaken'
    BY <2>1 DEF GivesUpOnlyIfOvertaken, HandleTypes
  <2>4. ASSUME NEW q \in Creators PROVE CollisionsLanded(q)'
    <3>1. CASE q = r
      <4>1. tried'[q] = m /\ base'[q] = m /\ landed'[q] \in Nat
        BY <2>1, <3>1 DEF HandleTypes
      <4>2. \A n \in Taken : n \in Nat /\ ~(n >= m)
        BY <2>0, OrdinalsBounded DEF Ordinals
      <4>3. AheadOf(q)' = {}
        BY <2>1, <4>1, <4>2 DEF AheadOf
      <4>4. Cardinality(AheadOf(q)') = 0
        BY <4>3, FS_EmptySet
      <4> QED BY <4>1, <4>4 DEF CollisionsLanded
    <3>2. CASE q # r
      BY <2>1, <3>2 DEF CollisionsLanded, AheadOf, Waiting, HandleTypes
    <3> QED BY <3>1, <3>2
  <2> QED BY <2>2, <2>3, <2>4
<1>3. ASSUME NEW r \in Creators, InsertHandle(r)
      PROVE  HandlesInv'
  <2>1. /\ Waiting(r) /\ tried[r] \in Nat
        /\ holder' = [holder EXCEPT ![tried[r]] = r]
        /\ phase' = [phase EXCEPT ![r] = "created"]
        /\ UNCHANGED <<tried, base>>
        /\ landed' = [q \in Creators |->
                        IF Waiting(q) /\ q # r THEN landed[q] + 1 ELSE landed[q]]
    BY <1>3 DEF InsertHandle, HandleTypes
  <2>2. HandleTypes'
    <3>1. \A q \in Creators : landed[q] \in Nat /\ landed[q] + 1 \in Nat
      <4>1. \A q \in Creators : landed[q] \in Nat
        BY DEF HandleTypes
      <4>2. \A l \in Nat : l + 1 \in Nat
        OBVIOUS
      <4> QED BY <4>1, <4>2
    <3>2. landed' \in [Creators -> Nat]
      BY <2>1, <3>1
    <3> QED BY <2>1, <3>2 DEF HandleTypes
  <2>3. Taken' \subseteq Taken \cup {tried[r]}
    BY <2>1 DEF Taken, HandleTypes
  <2>4. GivesUpOnlyIfOvertaken'
    BY <2>1 DEF GivesUpOnlyIfOvertaken, HandleTypes, Waiting
  <2>5. ASSUME NEW q \in Creators, Waiting(q)' PROVE CollisionsLanded(q)'
    <3>1. q # r /\ Waiting(q) /\ landed'[q] = landed[q] + 1
      BY <2>1, <2>5 DEF Waiting, HandleTypes
    <3>2. AheadOf(q)' \subseteq AheadOf(q) \cup {tried[r]}
      BY <2>1, <2>3 DEF AheadOf
    <3>3. /\ IsFiniteSet(AheadOf(q) \cup {tried[r]})
          /\ Cardinality(AheadOf(q) \cup {tried[r]}) \in Nat
          /\ Cardinality(AheadOf(q) \cup {tried[r]}) <= Cardinality(AheadOf(q)) + 1
      <4> DEFINE k == Cardinality(AheadOf(q))
      <4>1. Cardinality(AheadOf(q) \cup {tried[r]}) \in {k, k + 1} /\ k \in Nat
            /\ IsFiniteSet(AheadOf(q) \cup {tried[r]})
        BY <1>f, FS_AddElement
      <4> HIDE DEF k
      <4>2. k + 1 \in Nat /\ k <= k + 1 /\ k <= k
        BY <4>1
      <4>3. Cardinality(AheadOf(q) \cup {tried[r]}) <= k + 1
        BY <4>1, <4>2
      <4>4. Cardinality(AheadOf(q) \cup {tried[r]}) \in Nat
        BY <4>1, <4>2
      <4> QED BY <4>1, <4>3, <4>4 DEF k
    <3>4. Cardinality(AheadOf(q)') <= Cardinality(AheadOf(q) \cup {tried[r]})
      BY <3>2, <3>3, FS_Subset
    <3>5. Cardinality(AheadOf(q)') \in Nat
      BY <3>2, <3>3, FS_Subset, FS_CardinalityType
    <3>6. /\ tried'[q] = tried[q] /\ base'[q] = base[q]
          /\ tried[q] \in Nat /\ base[q] \in Nat /\ landed[q] \in Nat
          /\ base[q] <= tried[q] /\ landed[q] >= tried[q] - base[q] + Cardinality(AheadOf(q))
      BY <2>1, <3>1 DEF CollisionsLanded, HandleTypes
    <3>7. landed'[q] >= tried'[q] - base'[q] + Cardinality(AheadOf(q)')
      BY <1>f, <3>1, <3>3, <3>4, <3>5, <3>6, MoreLanded
    <3> QED BY <3>6, <3>7 DEF CollisionsLanded
  <2> QED BY <2>2, <2>4, <2>5 DEF CollisionsLanded
<1>4. ASSUME NEW r \in Creators, Collide(r)
      PROVE  HandlesInv'
  <2>1. /\ Waiting(r) /\ tried[r] \in Taken /\ UNCHANGED <<holder, base, landed>> /\ Taken' = Taken
        /\ tried[r] \in Nat /\ base[r] \in Nat /\ landed[r] \in Nat
        /\ base[r] <= tried[r]
        /\ landed[r] >= tried[r] - base[r] + Cardinality(AheadOf(r))
    BY <1>4 DEF Collide, HandleTypes, CollisionsLanded, Taken
  <2>2. tried[r] \in AheadOf(r)
    BY <2>1 DEF AheadOf
  <2>3. Cardinality(AheadOf(r) \ {tried[r]}) = Cardinality(AheadOf(r)) - 1
        /\ IsFiniteSet(AheadOf(r) \ {tried[r]})
        /\ Cardinality(AheadOf(r) \ {tried[r]}) \in Nat
    BY <1>f, <2>2, FS_RemoveElement, FS_CardinalityType
  <2>4. CASE phase' = [phase EXCEPT ![r] = "gave up"] /\ UNCHANGED tried
             /\ tried[r] + 1 - base[r] >= MaxHandleTries
    <3>1. landed[r] >= MaxHandleTries
      BY <1>f, <2>1, <2>3, <2>4, EnoughLanded
    <3>2. HandleTypes'
      BY <2>1, <2>4 DEF HandleTypes
    <3>3. GivesUpOnlyIfOvertaken'
      BY <2>1, <2>4, <3>1 DEF GivesUpOnlyIfOvertaken, HandleTypes
    <3>4. \A q \in Creators : CollisionsLanded(q)'
      BY <2>1, <2>4 DEF CollisionsLanded, AheadOf, Waiting, HandleTypes
    <3> QED BY <3>2, <3>3, <3>4
  <2>5. CASE tried' = [tried EXCEPT ![r] = tried[r] + 1] /\ UNCHANGED phase
    <3>2. HandleTypes'
      <4>1. tried[r] + 1 \in Nat
        BY <2>1
      <4> QED BY <2>1, <2>5, <4>1 DEF HandleTypes
    <3>3. GivesUpOnlyIfOvertaken'
      BY <2>1, <2>5 DEF GivesUpOnlyIfOvertaken
    <3>4. ASSUME NEW q \in Creators PROVE CollisionsLanded(q)'
      <4>1. CASE q = r
        <5>1. tried'[r] = tried[r] + 1
          BY <2>1, <2>5 DEF HandleTypes
        <5>a. \A n \in Taken : n \in Nat /\ (n >= tried[r] + 1 => n >= tried[r] /\ n # tried[r])
          BY <2>1, OrdinalsBounded DEF Ordinals
        <5>2. AheadOf(r)' \subseteq AheadOf(r) \ {tried[r]}
          BY <2>1, <5>1, <5>a DEF AheadOf
        <5>3. Cardinality(AheadOf(r)') <= Cardinality(AheadOf(r) \ {tried[r]})
              /\ Cardinality(AheadOf(r)') \in Nat
          BY <2>3, <5>2, FS_Subset, FS_CardinalityType
        <5>4. base'[r] <= tried'[r]
              /\ landed'[r] >= tried'[r] - base'[r] + Cardinality(AheadOf(r)')
          BY <1>f, <2>1, <2>3, <5>1, <5>3, OneFewerAhead
        <5> QED BY <4>1, <5>4 DEF CollisionsLanded
      <4>2. CASE q # r
        BY <2>1, <2>5, <4>2 DEF CollisionsLanded, AheadOf, Waiting, HandleTypes
      <4> QED BY <4>1, <4>2
    <3> QED BY <3>2, <3>3, <3>4
  <2> QED BY <1>4, <2>4, <2>5 DEF Collide
<1>5. ASSUME NEW r \in Creators, FailInsert(r)
      PROVE  HandlesInv'
  BY <1>5 DEF FailInsert, HandleTypes, GivesUpOnlyIfOvertaken, CollisionsLanded, AheadOf, Taken,
              Waiting
<1>6. ASSUME NEW n \in Ordinals, deleteBundle(n)
      PROVE  HandlesInv'
  <2>1. UNCHANGED <<tried, base, phase, landed>> /\ holder' = [holder EXCEPT ![n] = NoCreator]
    BY <1>6 DEF deleteBundle
  <2>2. HandleTypes' /\ GivesUpOnlyIfOvertaken'
    BY <2>1 DEF HandleTypes, GivesUpOnlyIfOvertaken
  <2>3. ASSUME NEW q \in Creators PROVE CollisionsLanded(q)'
    <3>1. AheadOf(q)' \subseteq AheadOf(q)
      BY <2>1 DEF AheadOf, Taken, HandleTypes
    <3>2. Cardinality(AheadOf(q)') <= Cardinality(AheadOf(q)) /\ Cardinality(AheadOf(q)') \in Nat
      BY <1>f, <3>1, FS_Subset, FS_CardinalityType
    <3>3. ASSUME Waiting(q)
          PROVE  /\ base[q] <= tried[q]
                 /\ landed[q] >= tried[q] - base[q] + Cardinality(AheadOf(q)')
      <4>1. /\ tried[q] \in Nat /\ base[q] \in Nat /\ landed[q] \in Nat
            /\ base[q] <= tried[q] /\ landed[q] >= tried[q] - base[q] + Cardinality(AheadOf(q))
        BY <3>3 DEF CollisionsLanded, HandleTypes
      <4> QED BY <1>f, <3>2, <4>1, FewerAhead
    <3> QED BY <2>1, <3>3 DEF CollisionsLanded, Waiting
  <2> QED BY <2>2, <2>3
<1> QED BY <1>1, <1>2, <1>3, <1>4, <1>5, <1>6 DEF HandlesNext

\* A merchant who has the app to herself is never told that there is no free
\* handle: giving up takes as many sets inserted by others, since the handles
\* were read, as attempts were made.
THEOREM GivingUpTakesOthers == HandlesSpec => []GivesUpOnlyIfOvertaken
<1>1. HandlesInit => HandlesInv
  BY DEF HandlesInit, HandlesInv, HandleTypes, GivesUpOnlyIfOvertaken, CollisionsLanded, Waiting
<1>2. HandlesInv => GivesUpOnlyIfOvertaken
  BY DEF HandlesInv
<1> QED BY <1>1, <1>2, HandlesInvStep, PTL DEF HandlesSpec

-----------------------------------------------------------------------------
(* ThrottleGate: while nothing is spent that its reading does not show, the *)
(* gate never believes the bucket fuller than it is.                       *)

LEMMA MinOfTwo ==
  ASSUME NEW a \in Int, NEW b \in Int
  PROVE  Min({a, b}) = IF a <= b THEN a ELSE b
<1>1. \E x \in {a, b} : \A y \in {a, b} : x <= y
  OBVIOUS
<1>2. Min({a, b}) \in {a, b} /\ \A y \in {a, b} : Min({a, b}) <= y
  BY <1>1 DEF Min
<1> QED BY <1>2

\* A quotient rounded up.
LEMMA RoundedUp ==
  ASSUME NEW a \in Nat, NEW b \in Nat \ {0}
  PROVE  (a + b - 1) \div b \in Nat /\ b * ((a + b - 1) \div b) >= a
<1> DEFINE n == a + b - 1
<1>1. n \in Nat
  OBVIOUS
<1>2. n \div b \in Int
  BY <1>1
<1>3. b * (n \div b) <= n /\ n < b * (n \div b) + b
  <2> HIDE DEF n
  <2> QED BY <1>1, SMTT(30)
<1> QED BY <1>1, <1>2, <1>3, SMTT(30)

\* A wait of as many ticks as the gate needs refills the deficit, whatever its
\* jitter.
LEMMA NeededIsEnough ==
  ASSUME NEW jitter \in Nat, gate.lastCost \in Nat, gate.available \in Nat,
         gate.lastCost > gate.available
  PROVE  /\ NeededTicks(jitter) \in Nat
         /\ RestoreRate * NeededTicks(jitter) >= gate.lastCost - gate.available
<1>d. PICK d \in Nat : d = gate.lastCost - gate.available
  OBVIOUS
<1>r. RestoreRate \in Nat \ {0}
  BY GateAssumption
<1>1. d * (100 + jitter) \in Nat /\ 100 * RestoreRate \in Nat \ {0}
  BY <1>r
<1>2. NeededTicks(jitter) = (d * (100 + jitter) + 100 * RestoreRate - 1) \div (100 * RestoreRate)
  BY <1>d DEF NeededTicks
<1>3. PICK k \in Nat : k = NeededTicks(jitter) /\ (100 * RestoreRate) * k >= d * (100 + jitter)
  BY <1>1, <1>2, RoundedUp
<1>4. PICK p \in Nat : p = d * jitter
  OBVIOUS
<1>5. PICK q \in Int : q = RestoreRate * k
  BY <1>r
<1>6. d * (100 + jitter) = 100 * d + p
  BY <1>4
<1>7. (100 * RestoreRate) * k = 100 * q
  BY <1>5, <1>r
<1>8. q >= d
  BY <1>3, <1>4, <1>5, <1>6, <1>7
<1> QED BY <1>d, <1>3, <1>5, <1>8

GateTypes ==
  /\ bucket \in 0..BucketSize
  /\ gate \in [read : BOOLEAN, available : 0..BucketSize, lastCost : 0..BucketSize]
  /\ pace \in {"idle", "waiting", "call", "refused"}
  /\ waiting \in Nat /\ spent \in Nat

\* With nothing spent since, the reading is no more than there is; and without
\* a reading nothing was charged.
ReadingRight ==
  spent = 0 => IF gate.read THEN gate.available <= bucket ELSE gate.lastCost = 0

\* The wait covers the deficit that was left when it was chosen, and when it is
\* over there is none.
WaitRight ==
  /\ pace = "waiting" =>
       NoWait \/ waiting = MaxWait \/ gate.lastCost - gate.available <= RestoreRate * waiting
  /\ pace = "call" => ~gate.read \/ waiting = MaxWait \/ gate.lastCost <= gate.available

GateInv == GateTypes /\ ReadingRight /\ WaitRight /\ RefusedOnlyIfUnforeseen

LEMMA CappedIs ==
  ASSUME NEW n \in Nat
  PROVE  Capped(n) = (IF n <= BucketSize THEN n ELSE BucketSize) /\ Capped(n) \in 0..BucketSize
<1>1. BucketSize \in Nat
  BY GateAssumption
<1> QED BY <1>1, MinOfTwo DEF Capped

LEMMA GateInvStep == GateInv /\ [GateNext]_gateVars => GateInv'
<1> SUFFICES ASSUME GateInv, [GateNext]_gateVars PROVE GateInv'
  OBVIOUS
<1> USE DEF GateInv
<1>a. /\ BucketSize \in Nat /\ RestoreRate \in Nat /\ MaxWait \in Nat
      /\ \A cost \in CallCosts : cost \in 1..BucketSize
      /\ Jitters \subseteq Nat
  BY GateAssumption
<1>t. /\ bucket \in Nat /\ gate.available \in Nat /\ gate.lastCost \in Nat /\ waiting \in Nat
      /\ bucket <= BucketSize /\ gate.available <= BucketSize /\ gate.lastCost <= BucketSize
      /\ spent \in Nat /\ gate.read \in BOOLEAN
  BY <1>a DEF GateTypes
<1>1. CASE UNCHANGED gateVars
  BY <1>1 DEF gateVars, GateTypes, ReadingRight, WaitRight, NoWait, RefusedOnlyIfUnforeseen
<1>2. ASSUME NEW jitter \in Jitters, BeforeCall(jitter)
      PROVE  GateInv'
  <2>1. /\ UNCHANGED <<bucket, gate, refused, spent>> /\ pace' = "waiting"
        /\ waiting' = IF NoWait THEN 0 ELSE Min({NeededTicks(jitter), MaxWait})
    BY <1>2 DEF BeforeCall
  <2>2. CASE NoWait
    BY <2>1, <2>2 DEF GateTypes, ReadingRight, WaitRight, NoWait, RefusedOnlyIfUnforeseen
  <2>3. CASE ~NoWait
    <3>1. PICK k \in Nat : k = NeededTicks(jitter)
                           /\ RestoreRate * k >= gate.lastCost - gate.available
      BY <1>a, <1>t, <2>3, NeededIsEnough DEF NoWait
    <3>2. waiting' \in {k, MaxWait} /\ waiting' \in Nat
      BY <1>a, <2>1, <2>3, <3>1, MinOfTwo
    <3> QED BY <2>1, <3>1, <3>2
            DEF GateTypes, ReadingRight, WaitRight, NoWait, RefusedOnlyIfUnforeseen
  <2> QED BY <2>2, <2>3
<1>3. CASE Wake
  <2>1. PICK credit \in Nat : credit = RestoreRate * waiting
    BY <1>a, <1>t
  <2>2. /\ pace = "waiting" /\ pace' = "call" /\ UNCHANGED <<refused, waiting, spent>>
        /\ bucket' = Capped(bucket + credit)
        /\ gate' = [gate EXCEPT !.available =
                      IF waiting = 0 THEN gate.available ELSE Capped(gate.available + credit)]
    BY <1>3, <2>1 DEF Wake
  <2>3. waiting = 0 => credit = 0
    BY <1>a, <2>1
  <2>4. /\ bucket' = (IF bucket + credit <= BucketSize THEN bucket + credit ELSE BucketSize)
        /\ bucket' \in 0..BucketSize
        /\ Capped(gate.available + credit) =
             (IF gate.available + credit <= BucketSize THEN gate.available + credit ELSE BucketSize)
    BY <1>t, <2>2, CappedIs
  <2>5. PICK a \in 0..BucketSize :
          /\ gate' = [gate EXCEPT !.available = a]
          /\ a = IF gate.available + credit <= BucketSize THEN gate.available + credit
                 ELSE BucketSize
    BY <1>a, <1>t, <2>2, <2>3, <2>4
  <2>6. gate'.read = gate.read /\ gate'.lastCost = gate.lastCost /\ gate'.available = a
        /\ gate' \in [read : BOOLEAN, available : 0..BucketSize, lastCost : 0..BucketSize]
    BY <2>5 DEF GateTypes
  <2>7. GateTypes'
    BY <2>2, <2>4, <2>6 DEF GateTypes
  <2>8. gate.available <= bucket => a <= bucket'
    BY <1>a, <1>t, <2>4, <2>5
  <2>9. ReadingRight'
    BY <2>2, <2>6, <2>8 DEF ReadingRight
  <2>10. gate.lastCost <= gate.available + credit => gate.lastCost <= a
    BY <1>a, <1>t, <2>5
  <2>11. ~gate.read \/ waiting = MaxWait \/ gate.lastCost <= gate.available + credit
    BY <1>t, <2>1, <2>2 DEF WaitRight, NoWait
  <2>12. WaitRight'
    BY <2>2, <2>6, <2>10, <2>11 DEF WaitRight
  <2> QED BY <2>2, <2>7, <2>9, <2>12 DEF RefusedOnlyIfUnforeseen
<1>4. ASSUME NEW cost \in CallCosts, NEW has \in SUBSET {"status", "cost"}, Call(cost, has)
      PROVE  GateInv'
  <2>1. /\ pace' = "idle" /\ UNCHANGED waiting
        /\ cost \in 1..BucketSize /\ cost <= bucket /\ bucket' = bucket - cost
        /\ gate' = [read |-> gate.read \/ "status" \in has,
                    available |-> IF "status" \in has THEN bucket' ELSE gate.available,
                    lastCost |-> IF "cost" \in has THEN cost ELSE gate.lastCost]
        /\ spent' = IF "status" \in has THEN 0 ELSE spent + cost
    BY <1>4, <1>a DEF Call, Record
  <2>2. bucket' \in 0..BucketSize /\ spent' \in Nat
    BY <1>a, <1>t, <2>1
  <2>3. gate' \in [read : BOOLEAN, available : 0..BucketSize, lastCost : 0..BucketSize]
    BY <1>a, <1>t, <2>1, <2>2
  <2>4. GateTypes'
    BY <2>1, <2>2, <2>3 DEF GateTypes
  <2>5. ReadingRight'
    <3>1. CASE "status" \in has
      <4>1. gate'.read = TRUE /\ gate'.available = bucket'
        BY <2>1, <3>1
      <4>2. bucket' <= bucket'
        BY <2>2, <1>a
      <4> QED BY <4>1, <4>2 DEF ReadingRight
    <3>2. CASE "status" \notin has
      <4>1. spent' > 0
        BY <1>t, <2>1, <3>2
      <4> QED BY <4>1, <2>2 DEF ReadingRight
    <3> QED BY <3>1, <3>2
  <2> QED BY <2>1, <2>4, <2>5 DEF WaitRight, RefusedOnlyIfUnforeseen
<1>5. ASSUME NEW cost \in CallCosts, Refused(cost)
      PROVE  GateInv'
  <2>1. /\ pace = "call" /\ pace' = "refused" /\ cost > bucket /\ refused' = cost
        /\ cost \in 1..BucketSize /\ UNCHANGED <<bucket, gate, waiting, spent>>
    BY <1>5, <1>a DEF Refused
  <2>2. RefusedOnlyIfUnforeseen'
    BY <1>a, <1>t, <2>1 DEF RefusedOnlyIfUnforeseen, ReadingRight, WaitRight
  <2> QED BY <2>1, <2>2 DEF GateTypes, ReadingRight, WaitRight
<1>6. ASSUME NEW cost \in CallCosts, OtherCall(cost)
      PROVE  GateInv'
  <2>1. /\ pace # "refused" /\ cost \in 1..BucketSize /\ cost <= bucket
        /\ bucket' = bucket - cost /\ spent' = spent + cost
        /\ UNCHANGED <<gate, pace, refused, waiting>>
    BY <1>6, <1>a DEF OtherCall
  <2>2. bucket' \in 0..BucketSize /\ spent' \in Nat /\ spent' > 0
    BY <1>a, <1>t, <2>1
  <2> QED BY <2>1, <2>2 DEF GateTypes, ReadingRight, WaitRight, NoWait, RefusedOnlyIfUnforeseen
<1>7. CASE Refill
  <2>1. /\ pace # "refused" /\ bucket' = Capped(bucket + RestoreRate)
        /\ UNCHANGED <<gate, pace, refused, waiting, spent>>
    BY <1>7 DEF Refill
  <2>2. bucket' \in 0..BucketSize /\ bucket <= bucket'
    BY <1>a, <1>t, <2>1, CappedIs
  <2>3. ReadingRight'
    BY <1>a, <1>t, <2>1, <2>2 DEF ReadingRight
  <2> QED BY <2>1, <2>2, <2>3 DEF GateTypes, WaitRight, NoWait, RefusedOnlyIfUnforeseen
<1> QED BY <1>1, <1>2, <1>3, <1>4, <1>5, <1>6, <1>7 DEF GateNext

\* The gate does what it is for: a call of the loop is refused only if it cost
\* more than the one before it, the wait was capped, or points were spent that
\* the gate's reading does not show; never because of its own arithmetic.
THEOREM GateNeverMiscounts == GateSpec => []RefusedOnlyIfUnforeseen
<1>1. GateInit => GateInv
  BY GateAssumption DEF GateInit, GateInv, GateTypes, ReadingRight, WaitRight, RefusedOnlyIfUnforeseen
<1>2. GateInv => RefusedOnlyIfUnforeseen
  BY DEF GateInv
<1> QED BY <1>1, <1>2, GateInvStep, PTL DEF GateSpec

-----------------------------------------------------------------------------
(* StoreSetup: until the merchant deletes one, a definition is created once *)
(* and stays, so that what a run has seen of it stays true.                *)

Kinds    == {"object", "step", "ingredients"}
Standing == [at : {"session", "find", "create", "reread", "step", "ingredients", "reported",
                   "failed", "skipped", "threw"},
             id : Nat, results : SUBSET (Kinds \X {"created", "already_present"})]

SetupTypes ==
  /\ store \in [object : Nat, step : Nat, ingredients : Nat]
  /\ objects \in Nat /\ deletions \in Nat
  /\ setup \in [SetupRuns -> Standing]

Past(r, steps) == setup[r].at \in steps

\* What a run that got so far has seen, or made.
SeenRight(r) ==
  /\ Past(r, {"step", "ingredients", "reported"}) =>
       store.object # NoDefinition /\ setup[r].id = store.object
  /\ Past(r, {"ingredients", "reported"}) => store.step # NoDefinition
  /\ Past(r, {"reported"}) => store.ingredients # NoDefinition

Says(r, kind) == <<kind, "created">> \in setup[r].results

\* A definition that a run says it created is there, and no other run says so.
SaysRight ==
  \A r \in SetupRuns : \A kind \in Kinds : Says(r, kind) =>
    /\ store[kind] # NoDefinition
    /\ \A q \in SetupRuns : Says(q, kind) => q = r

SetupRight ==
  /\ store.ingredients \in {NoDefinition, store.object, NotOurs}
  /\ \A r \in SetupRuns : SeenRight(r)
  /\ SaysRight

SetupInv == SetupTypes /\ (deletions = 0 => SetupRight)

\* Definitions that are there stay, and one run moves.
LEMMA RunMoves ==
  ASSUME SetupTypes, SetupRight, NEW r \in SetupRuns, NEW x \in Standing,
         setup' = [setup EXCEPT ![r] = x],
         store' \in [object : Nat, step : Nat, ingredients : Nat],
         store.object # NoDefinition => store'.object = store.object,
         store.step # NoDefinition => store'.step # NoDefinition,
         store.ingredients # NoDefinition => store'.ingredients = store.ingredients,
         store'.ingredients \in {NoDefinition, store'.object, NotOurs},
         SeenRight(r)',
         \A kind \in Kinds : <<kind, "created">> \in x.results =>
            Says(r, kind) \/ (store[kind] = NoDefinition /\ store'[kind] # NoDefinition)
  PROVE  SetupRight'
<1>1. setup'[r] = x /\ \A q \in SetupRuns : q # r => setup'[q] = setup[q]
  BY DEF SetupTypes
<1>2. \A q \in SetupRuns : SeenRight(q)'
  BY <1>1 DEF SetupRight, SeenRight, Past
<1>3. \A kind \in Kinds : store[kind] # NoDefinition => store'[kind] # NoDefinition
  BY DEF Kinds
<1>4. SaysRight'
  <2> SUFFICES ASSUME NEW q \in SetupRuns, NEW kind \in Kinds, Says(q, kind)'
               PROVE  /\ store'[kind] # NoDefinition
                      /\ \A p \in SetupRuns : Says(p, kind)' => p = q
    BY DEF SaysRight
  <2>1. \A p \in SetupRuns : Says(p, kind)' =>
          Says(p, kind) \/ (p = r /\ store[kind] = NoDefinition /\ store'[kind] # NoDefinition)
    BY <1>1 DEF Says
  <2> QED BY <1>3, <2>1 DEF SetupRight, SaysRight
<1> QED BY <1>2, <1>4 DEF SetupRight

\* A step of a run: it moves as it is typed, and as RunMoves asks.
RunStep(r, x) ==
  /\ x \in Standing /\ setup' = [setup EXCEPT ![r] = x]
  /\ store' \in [object : Nat, step : Nat, ingredients : Nat]
  /\ objects' \in Nat /\ deletions' = deletions
  /\ deletions = 0 =>
       /\ store.object # NoDefinition => store'.object = store.object
       /\ store.step # NoDefinition => store'.step # NoDefinition
       /\ store.ingredients # NoDefinition => store'.ingredients = store.ingredients
       /\ store'.ingredients \in {NoDefinition, store'.object, NotOurs}
       /\ SeenRight(r)'
       /\ \A kind \in Kinds : <<kind, "created">> \in x.results =>
            Says(r, kind) \/ (store[kind] = NoDefinition /\ store'[kind] # NoDefinition)

LEMMA RunStepKeeps ==
  ASSUME SetupInv, NEW r \in SetupRuns, NEW x, RunStep(r, x)
  PROVE  SetupInv'
<1> USE DEF SetupInv, RunStep
<1>1. SetupTypes'
  BY DEF SetupTypes
<1>2. CASE deletions = 0
  BY <1>1, <1>2, RunMoves
<1>3. CASE deletions # 0
  BY <1>1, <1>3
<1> QED BY <1>2, <1>3

\* A run that gives up, or begins again, has seen nothing it relies on.
LEMMA QuietRun ==
  ASSUME SetupInv, NEW r \in SetupRuns, NEW x \in Standing,
         setup' = [setup EXCEPT ![r] = x], UNCHANGED <<store, objects, deletions>>,
         x.at \in {"find", "create", "reread", "failed", "skipped", "threw"},
         x.results \subseteq setup[r].results
  PROVE  SetupInv'
<1> USE DEF SetupInv
<1>1. setup'[r] = x
  BY DEF SetupTypes
<1>2. SeenRight(r)'
  BY <1>1 DEF SeenRight, Past
<1>3. RunStep(r, x)
  BY <1>2 DEF RunStep, SetupTypes, SetupRight, Says
<1> QED BY <1>3, RunStepKeeps

LEMMA SetupInvStep == SetupInv /\ [SetupNext]_setupVars => SetupInv'
<1> SUFFICES ASSUME SetupInv, [SetupNext]_setupVars PROVE SetupInv'
  OBVIOUS
<1> USE SetupAssumption DEF SetupInv, NoDefinition, NotOurs
<1>s. ASSUME NEW r \in SetupRuns, NEW at \in {"find", "create", "reread", "failed", "skipped", "threw"},
             Goes(r, at), UNCHANGED <<store, objects, deletions>>
      PROVE  SetupInv'
  <2> DEFINE x == [setup[r] EXCEPT !.at = at]
  <2>1. setup' = [setup EXCEPT ![r] = x]
    BY <1>s DEF Goes
  <2>2. x \in Standing /\ x.at = at /\ x.results = setup[r].results
    BY DEF SetupTypes, Standing
  <2> HIDE DEF x
  <2> QED BY <1>s, <2>1, <2>2, QuietRun
<1>1. CASE UNCHANGED setupVars
  BY <1>1 DEF setupVars, SetupTypes, SetupRight, SeenRight, SaysRight, Says, Past
<1>2. ASSUME NEW r \in SetupRuns, LoadSession(r)
      PROVE  SetupInv'
  BY <1>2, <1>s DEF LoadSession
<1>3. ASSUME NEW r \in SetupRuns, FindObject(r)
      PROVE  SetupInv'
  <2>1. CASE store.object # NoDefinition
    <3> DEFINE x == [at |-> "step", id |-> store.object,
                     results |-> setup[r].results \cup {<<"object", "already_present">>}]
    <3>0. /\ GoesWith(r, "step", store.object, "object", "already_present")
          /\ UNCHANGED <<store, objects, deletions>>
      BY <1>3, <2>1 DEF FindObject
    <3>1. setup' = [setup EXCEPT ![r] = x] /\ UNCHANGED <<store, objects, deletions>>
      BY <3>0 DEF GoesWith
    <3>2. x \in Standing /\ setup'[r] = x
      BY <3>1 DEF SetupTypes, Standing, Kinds
    <3>3. SeenRight(r)'
      BY <2>1, <3>1, <3>2 DEF SeenRight, Past
    <3>4. \A kind \in Kinds : <<kind, "created">> \in x.results => Says(r, kind)
      BY DEF Says
    <3> HIDE DEF x
    <3>5. RunStep(r, x)
      BY <3>1, <3>2, <3>3, <3>4 DEF RunStep, SetupTypes, SetupRight
    <3> QED BY <3>5, RunStepKeeps
  <2>2. CASE store.object = NoDefinition
    BY <1>3, <1>s, <2>2 DEF FindObject
  <2> QED BY <2>1, <2>2
<1>4. ASSUME NEW r \in SetupRuns, CreateObject(r)
      PROVE  SetupInv'
  <2>1. CASE \E at \in {"reread", "failed"} : Goes(r, at) /\ UNCHANGED <<store, objects, deletions>>
    BY <1>s, <2>1
  <2>2. CASE /\ store.object = NoDefinition
             /\ store' = [store EXCEPT !.object = objects + 1]
             /\ objects' = objects + 1 /\ UNCHANGED deletions
             /\ GoesWith(r, "step", objects + 1, "object", "created")
    <3> DEFINE x == [at |-> "step", id |-> objects + 1,
                     results |-> setup[r].results \cup {<<"object", "created">>}]
    <3>1. setup' = [setup EXCEPT ![r] = x] /\ objects + 1 \in Nat /\ objects + 1 # 0
      BY <2>2 DEF GoesWith, SetupTypes
    <3>2. x \in Standing /\ setup'[r] = x
      BY <3>1 DEF SetupTypes, Standing, Kinds
    <3>3. /\ store' \in [object : Nat, step : Nat, ingredients : Nat]
          /\ store'.object = objects + 1 /\ store'.step = store.step
          /\ store'.ingredients = store.ingredients
      BY <2>2, <3>1 DEF SetupTypes
    <3>4. SeenRight(r)'
      BY <3>1, <3>2, <3>3 DEF SeenRight, Past
    <3>5. \A kind \in Kinds : <<kind, "created">> \in x.results => Says(r, kind) \/ kind = "object"
      BY DEF Says
    <3> HIDE DEF x
    <3>6. RunStep(r, x)
      BY <2>2, <3>1, <3>2, <3>3, <3>4, <3>5 DEF RunStep, SetupRight
    <3> QED BY <3>6, RunStepKeeps
  <2> QED BY <1>4, <2>1, <2>2 DEF CreateObject, Answers, Tolerated
<1>5. ASSUME NEW r \in SetupRuns, NEW field \in {"step", "ingredients"}, CreateField(r, field)
      PROVE  SetupInv'
  <2>0. setup[r].at = field /\ UNCHANGED <<objects, deletions>> /\ setup[r].id \in Nat
        /\ Following(field) = IF field = "step" THEN "ingredients" ELSE "reported"
    BY <1>5 DEF CreateField, SetupTypes, Standing, Following
  <2>1. CASE Goes(r, "failed") /\ UNCHANGED store
    BY <1>s, <2>0, <2>1
  <2>2. CASE /\ store[field] # NoDefinition /\ UNCHANGED store
             /\ GoesWith(r, Following(field), setup[r].id, field, "already_present")
    <3> DEFINE x == [at |-> Following(field), id |-> setup[r].id,
                     results |-> setup[r].results \cup {<<field, "already_present">>}]
    <3>1. setup' = [setup EXCEPT ![r] = x]
      BY <2>2 DEF GoesWith
    <3>2. x \in Standing /\ setup'[r] = x
      BY <2>0, <3>1 DEF SetupTypes, Standing, Kinds
    <3>3. deletions = 0 => SeenRight(r)'
      BY <2>0, <2>2, <3>2 DEF SetupRight, SeenRight, Past
    <3>4. \A kind \in Kinds : <<kind, "created">> \in x.results => Says(r, kind)
      BY DEF Says
    <3> HIDE DEF x
    <3>5. RunStep(r, x)
      BY <2>0, <2>2, <3>1, <3>2, <3>3, <3>4 DEF RunStep, SetupTypes, SetupRight
    <3> QED BY <3>5, RunStepKeeps
  <2>3. CASE /\ store[field] = NoDefinition
             /\ field = "ingredients" => setup[r].id = store.object
             /\ store' = [store EXCEPT ![field] = setup[r].id]
             /\ GoesWith(r, Following(field), setup[r].id, field, "created")
    <3> DEFINE x == [at |-> Following(field), id |-> setup[r].id,
                     results |-> setup[r].results \cup {<<field, "created">>}]
    <3>1. setup' = [setup EXCEPT ![r] = x]
      BY <2>3 DEF GoesWith
    <3>2. x \in Standing /\ setup'[r] = x
      BY <2>0, <3>1 DEF SetupTypes, Standing, Kinds
    <3>3. /\ store' \in [object : Nat, step : Nat, ingredients : Nat]
          /\ store'.object = store.object
          /\ store'.step = IF field = "step" THEN setup[r].id ELSE store.step
          /\ store'.ingredients = IF field = "ingredients" THEN setup[r].id ELSE store.ingredients
      BY <2>0, <2>3 DEF SetupTypes
    <3>4. deletions = 0 => setup[r].id # NoDefinition /\ setup[r].id = store.object
      BY <2>0 DEF SetupRight, SeenRight, Past
    <3>5. deletions = 0 => SeenRight(r)'
      BY <2>0, <3>2, <3>3, <3>4 DEF SetupRight, SeenRight, Past
    <3>6. \A kind \in Kinds : <<kind, "created">> \in x.results => Says(r, kind) \/ kind = field
      BY DEF Says
    <3>7. deletions = 0 => store[field] = NoDefinition /\ store'[field] # NoDefinition
      BY <2>3, <3>3, <3>4
    <3> HIDE DEF x
    <3>8. ASSUME deletions = 0
          PROVE  /\ store.step # NoDefinition => store'.step # NoDefinition
                 /\ store.ingredients # NoDefinition => store'.ingredients = store.ingredients
                 /\ store'.ingredients \in {NoDefinition, store'.object, NotOurs}
      <4>1. store.ingredients \in {NoDefinition, store.object, NotOurs}
        BY <3>8 DEF SetupRight
      <4>2. CASE field = "step"
        BY <2>3, <3>3, <4>1, <4>2
      <4>3. CASE field = "ingredients"
        BY <2>3, <3>3, <4>1, <4>3
      <4> QED BY <4>2, <4>3
    <3>9. deletions = 0 => \A kind \in Kinds : <<kind, "created">> \in x.results =>
            Says(r, kind) \/ (store[kind] = NoDefinition /\ store'[kind] # NoDefinition)
      BY <3>6, <3>7
    <3>10. objects' \in Nat /\ deletions' = deletions
      BY <2>0 DEF SetupTypes
    <3>11. RunStep(r, x)
      BY <3>1, <3>2, <3>3, <3>5, <3>8, <3>9, <3>10 DEF RunStep
    <3> QED BY <3>11, RunStepKeeps
  <2> QED BY <1>5, <2>1, <2>2, <2>3 DEF CreateField, Answers, Tolerated
<1>6. ASSUME NEW r \in SetupRuns, CallFails(r)
      PROVE  SetupInv'
  <2> DEFINE x == [setup[r] EXCEPT !.at = "failed"]
  <2>1. setup' = [setup EXCEPT ![r] = x] /\ UNCHANGED deletions
    BY <1>6 DEF CallFails, Goes
  <2>2. x \in Standing /\ setup'[r] = x /\ x.at = "failed" /\ x.results = setup[r].results
    BY <2>1 DEF SetupTypes, Standing
  <2>3. SeenRight(r)'
    BY <2>2 DEF SeenRight, Past
  <2>4. \A kind \in Kinds : <<kind, "created">> \in x.results => Says(r, kind)
    BY <2>2 DEF Says
  <2> HIDE DEF x
  <2>5. CASE UNCHANGED <<store, objects>>
    <3>1. RunStep(r, x)
      BY <2>1, <2>2, <2>3, <2>4, <2>5 DEF RunStep, SetupTypes, SetupRight
    <3> QED BY <3>1, RunStepKeeps
  <2>6. CASE /\ store.object = NoDefinition
             /\ store' = [store EXCEPT !.object = objects + 1] /\ objects' = objects + 1
    <3>1. /\ store' \in [object : Nat, step : Nat, ingredients : Nat] /\ objects' \in Nat
          /\ store'.step = store.step /\ store'.ingredients = store.ingredients
      BY <2>6 DEF SetupTypes
    <3>2. RunStep(r, x)
      BY <2>1, <2>2, <2>3, <2>4, <2>6, <3>1 DEF RunStep, SetupRight
    <3> QED BY <3>2, RunStepKeeps
  <2>7. ASSUME NEW field \in {"step", "ingredients"},
               setup[r].at = field, store[field] = NoDefinition,
               field = "ingredients" => setup[r].id = store.object,
               store' = [store EXCEPT ![field] = setup[r].id], UNCHANGED objects
        PROVE  SetupInv'
    <3>0. setup[r].id \in Nat
      BY DEF SetupTypes, Standing
    <3>1. /\ store' \in [object : Nat, step : Nat, ingredients : Nat]
          /\ store'.object = store.object
          /\ store'.step = IF field = "step" THEN setup[r].id ELSE store.step
          /\ store'.ingredients = IF field = "ingredients" THEN setup[r].id ELSE store.ingredients
      BY <2>7, <3>0 DEF SetupTypes
    <3>2. RunStep(r, x)
      BY <2>1, <2>2, <2>3, <2>4, <2>7, <3>1 DEF RunStep, SetupTypes, SetupRight
    <3> QED BY <3>2, RunStepKeeps
  <2> QED BY <1>6, <2>5, <2>6, <2>7 DEF CallFails
<1>7. ASSUME NEW r \in SetupRuns, PrepareAgain(r)
      PROVE  SetupInv'
  <2> DEFINE x == [at |-> "find", id |-> NoDefinition, results |-> {}]
  <2>1. setup' = [setup EXCEPT ![r] = x] /\ UNCHANGED <<store, objects, deletions>>
    BY <1>7 DEF PrepareAgain
  <2>2. x \in Standing /\ x.at = "find" /\ x.results \subseteq setup[r].results
    BY DEF Standing
  <2> HIDE DEF x
  <2> QED BY <2>1, <2>2, QuietRun
<1>8. CASE DeleteObject
  <2>0. store.ingredients \in Nat
    BY DEF SetupTypes
  <2>1. \E i \in Nat : store' = [store EXCEPT !.object = NoDefinition, !.ingredients = i]
    <3>1. CASE store.ingredients = store.object
      BY <1>8, <3>1 DEF DeleteObject
    <3>2. CASE store.ingredients # store.object
      BY <1>8, <2>0, <3>2 DEF DeleteObject
    <3> QED BY <3>1, <3>2
  <2>2. deletions' = 1 /\ UNCHANGED <<objects, setup>>
    BY <1>8 DEF DeleteObject
  <2>3. store' \in [object : Nat, step : Nat, ingredients : Nat]
    <3>1. PICK i \in Nat : store' = [store EXCEPT !.object = NoDefinition, !.ingredients = i]
      BY <2>1
    <3>2. store' = [object |-> NoDefinition, step |-> store.step, ingredients |-> i]
      BY <3>1 DEF SetupTypes
    <3> QED BY <3>2 DEF SetupTypes
  <2>4. SetupTypes'
    BY <2>2, <2>3 DEF SetupTypes
  <2> QED BY <2>2, <2>4
<1> QED BY <1>1, <1>2, <1>3, <1>4, <1>5, <1>6, <1>7, <1>8 DEF SetupNext

\* Whatever runs side by side, a report is true: unless the merchant deleted
\* one, all three definitions are in the shop, ingredients refers to the
\* metaobject definition there is, and no two runs created the same one.
THEOREM ReportsAreTrue == SetupSpec => []ReportIsTrue
<1>1. SetupInit => SetupInv
  <2> SUFFICES ASSUME SetupInit PROVE SetupInv
    OBVIOUS
  <2> USE SetupAssumption DEF SetupInit, NoDefinition, NotOurs
  <2>1. SetupTypes
    BY DEF SetupTypes, Standing
  <2>2. SetupRight
    BY DEF SetupRight, SeenRight, SaysRight, Says, Past
  <2> QED BY <2>1, <2>2 DEF SetupInv
<1>2. SetupInv => ReportIsTrue
  <2> SUFFICES ASSUME SetupInv, deletions = 0, NEW r \in SetupRuns, setup[r].at = "reported"
               PROVE  /\ NoDefinition \notin {store.object, store.step, store.ingredients}
                      /\ store.ingredients \in {store.object, NotOurs}
                      /\ \A s \in SetupRuns \ {r}, d \in {"object", "step", "ingredients"} :
                           ~ {<<d, "created">>} \subseteq setup[r].results \cap setup[s].results
    BY DEF ReportIsTrue
  <2>1. SeenRight(r) /\ SaysRight /\ store.ingredients \in {NoDefinition, store.object, NotOurs}
    BY DEF SetupInv, SetupRight
  <2>2. \A s \in SetupRuns \ {r}, d \in Kinds : ~(Says(r, d) /\ Says(s, d))
    BY <2>1 DEF SaysRight
  <2> QED BY <2>1, <2>2 DEF SeenRight, Past, Says, Kinds
<1> QED BY <1>1, <1>2, SetupInvStep, PTL DEF SetupSpec

-----------------------------------------------------------------------------
(* ApiRoutes: where the server is, and what has been done.                 *)

\* What the steps of a route are, as far as the proof needs it: step i of r.
StepFacts(r, i) ==
  LET s == StepsOf(r) IN
  /\ s[i] = "create" => r = "starter" /\ i = Len(s)
  /\ s[i] = "change" => r = "update" /\ i = Len(s)
  /\ s[i] = "delete" => r = "delete" /\ i = Len(s)
  /\ s[i] = "look" => r = "export" /\ i < Len(s) /\ s[i + 1] = "enqueue"
  /\ s[i] = "enqueue" => r = "export" /\ i < Len(s) /\ s[i + 1] = "db"
  /\ s[i] = "requeue" => r = "retry" /\ i < Len(s) /\ s[i + 1] = "db"
  /\ s[i] = "define" => r = "prepare"
  /\ s[i] = "db" /\ r \in {"export", "retry"} => i = Len(s)
  /\ i < Len(s) /\ s[i + 1] = "enqueue" => s[i] = "look"

LEMMA StepsAreRight ==
  ASSUME NEW r \in Routes
  PROVE  /\ Len(StepsOf(r)) \in Nat \ {0}
         /\ \A i \in 1..Len(StepsOf(r)) : StepFacts(r, i)
<1> USE DEF StepFacts
<1>1. CASE r = "bundles"
  <2>1. StepsOf(r) = <<"session", "db", "shopify">>
    BY <1>1 DEF StepsOf
  <2> QED BY <1>1, <2>1
<1>2. CASE r = "starter"
  <2>1. StepsOf(r) = <<"session", "shopify", "check", "create">>
    BY <1>2 DEF StepsOf
  <2>2. /\ Len(StepsOf(r)) = 4
        /\ StepsOf(r)[1] = "session" /\ StepsOf(r)[2] = "shopify"
        /\ StepsOf(r)[3] = "check" /\ StepsOf(r)[4] = "create"
    BY <2>1
  <2>3. \A i \in 1..4 : i = 1 \/ i = 2 \/ i = 3 \/ i = 4
    OBVIOUS
  <2>4. ASSUME NEW i \in 1..4 PROVE StepFacts(r, i)
    <3>1. CASE i = 1
      BY <1>2, <2>2, <3>1
    <3>2. CASE i = 2
      BY <1>2, <2>2, <3>2
    <3>3. CASE i = 3
      BY <1>2, <2>2, <3>3
    <3>4. CASE i = 4
      BY <1>2, <2>2, <3>4
    <3> QED BY <2>3, <3>1, <3>2, <3>3, <3>4
  <2> QED BY <2>2, <2>4
<1>3. CASE r = "update"
  <2>1. StepsOf(r) = <<"session", "validate", "db", "shopify", "check", "change">>
    BY <1>3 DEF StepsOf
  <2>2. /\ Len(StepsOf(r)) = 6
        /\ StepsOf(r)[1] = "session" /\ StepsOf(r)[2] = "validate" /\ StepsOf(r)[3] = "db"
        /\ StepsOf(r)[4] = "shopify" /\ StepsOf(r)[5] = "check" /\ StepsOf(r)[6] = "change"
    BY <2>1
  <2>3. \A i \in 1..6 : i = 1 \/ i = 2 \/ i = 3 \/ i = 4 \/ i = 5 \/ i = 6
    OBVIOUS
  <2>4. ASSUME NEW i \in 1..6 PROVE StepFacts(r, i)
    <3>1. CASE i = 1
      BY <1>3, <2>2, <3>1
    <3>2. CASE i = 2
      BY <1>3, <2>2, <3>2
    <3>3. CASE i = 3
      BY <1>3, <2>2, <3>3
    <3>4. CASE i = 4
      BY <1>3, <2>2, <3>4
    <3>5. CASE i = 5
      BY <1>3, <2>2, <3>5
    <3>6. CASE i = 6
      BY <1>3, <2>2, <3>6
    <3> QED BY <2>3, <3>1, <3>2, <3>3, <3>4, <3>5, <3>6
  <2> QED BY <2>2, <2>4
<1>4. CASE r = "delete"
  <2>1. StepsOf(r) = <<"session", "delete">>
    BY <1>4 DEF StepsOf
  <2> QED BY <1>4, <2>1
<1>5. CASE r = "candidates"
  <2>1. StepsOf(r) = <<"session", "shopify">>
    BY <1>5 DEF StepsOf
  <2> QED BY <1>5, <2>1
<1>6. CASE r = "export"
  <2>1. StepsOf(r) = <<"session", "look", "enqueue", "db">>
    BY <1>6 DEF StepsOf
  <2>2. /\ Len(StepsOf(r)) = 4
        /\ StepsOf(r)[1] = "session" /\ StepsOf(r)[2] = "look"
        /\ StepsOf(r)[3] = "enqueue" /\ StepsOf(r)[4] = "db"
    BY <2>1
  <2>3. \A i \in 1..4 : i = 1 \/ i = 2 \/ i = 3 \/ i = 4
    OBVIOUS
  <2>4. ASSUME NEW i \in 1..4 PROVE StepFacts(r, i)
    <3>1. CASE i = 1
      BY <1>6, <2>2, <3>1
    <3>2. CASE i = 2
      BY <1>6, <2>2, <3>2
    <3>3. CASE i = 3
      BY <1>6, <2>2, <3>3
    <3>4. CASE i = 4
      BY <1>6, <2>2, <3>4
    <3> QED BY <2>3, <3>1, <3>2, <3>3, <3>4
  <2> QED BY <2>2, <2>4
<1>7. CASE r \in {"exportStatus", "jobs"}
  <2>1. StepsOf(r) = <<"session", "db">>
    BY <1>7 DEF StepsOf
  <2> QED BY <1>7, <2>1
<1>8. CASE r = "retry"
  <2>1. StepsOf(r) = <<"session", "requeue", "db">>
    BY <1>8 DEF StepsOf
  <2>2. /\ Len(StepsOf(r)) = 3
        /\ StepsOf(r)[1] = "session" /\ StepsOf(r)[2] = "requeue"
        /\ StepsOf(r)[3] = "db"
    BY <2>1
  <2>3. \A i \in 1..3 : i = 1 \/ i = 2 \/ i = 3
    OBVIOUS
  <2>4. ASSUME NEW i \in 1..3 PROVE StepFacts(r, i)
    <3>1. CASE i = 1
      BY <1>8, <2>2, <3>1
    <3>2. CASE i = 2
      BY <1>8, <2>2, <3>2
    <3>3. CASE i = 3
      BY <1>8, <2>2, <3>3
    <3> QED BY <2>3, <3>1, <3>2, <3>3
  <2> QED BY <2>2, <2>4
<1>9. CASE r = "prepare"
  <2>1. StepsOf(r) = <<"session", "shopify", "define", "define">>
    BY <1>9 DEF StepsOf
  <2> QED BY <1>9, <2>1
<1> QED BY <1>1, <1>2, <1>3, <1>4, <1>5, <1>6, <1>7, <1>8, <1>9 DEF Routes

\* A press that the server is still at is the one the screen waits for, without an
\* answer yet, or one that was given up.
RouteTypes ==
  /\ route \in Routes /\ presses \in 0..MaxPresses /\ effects \in Nat
  /\ stage \in [Presses -> 1..Over]
  /\ free \subseteq Presses /\ done \subseteq 1..presses /\ lost \subseteq 1..presses
  /\ \A p \in Presses : Busy(p) => p \in lost \/ (p = presses /\ screen = "waiting")
  /\ \A p \in Presses : Busy(p) /\ ~overlap => p = presses
  /\ screen = "waiting" => presses \in Presses
  /\ presses \in Presses /\ Busy(presses) =>
       answer = "none" /\ screen \in {"waiting", "unreachable"}

\* An answer blames whom it should, and so does the error shown.
Blames(text) ==
  /\ text = "shopify_api" => cause = "shopify"
  /\ text = "internal" =>
       cause = "app" \/ (cause = "other" /\ (ended \/ (route = "update" /\ overlap)))
BlameRight == Blames(answer) /\ Blames(screen)

\* An error after the change is one of those that the property allows.
Spares(text) ==
  text \in {"validation", "shopify_api", "internal"} /\ presses \in done =>
    \/ route = "prepare"
    \/ text = "internal" /\ (route \in {"export", "retry"} \/ presses \in lost)
UndoneRight ==
  /\ \A p \in done : Busy(p) => route = "prepare" \/ (route \in {"export", "retry"} /\ At(p, "db"))
  /\ Spares(answer) /\ Spares(screen)

\* How often the thing was done.
OnceRight ==
  /\ route \notin {"starter", "export", "retry"} => effects = 0
  /\ route = "starter" /\ lost = {} /\ effects # 0 =>
       effects = 1 /\ ~Busy(presses) /\ answer = "ok" /\ screen \in {"waiting", "ok"}
  /\ route = "update" /\ ~ended => object = "there"
  /\ route = "export" /\ ~ended /\ ~overlap =>
       /\ (effects = 0 /\ object = "none") \/ (effects = 1 /\ object = "queued")
       /\ \A p \in free : At(p, "enqueue") => object = "none"
  /\ route = "retry" /\ ~ended =>
       (effects = 0 /\ object = "failed") \/ (effects = 1 /\ object = "queued")

RouteInv == RouteTypes /\ BlameRight /\ UndoneRight /\ OnceRight

\* A busy press is at one of the steps of its route.
LEMMA BusyAt ==
  ASSUME RouteInv, NEW p \in Presses, Busy(p)
  PROVE  /\ Over \in Nat /\ stage[p] \in 1..Len(StepsOf(route)) /\ Over = Len(StepsOf(route)) + 1
         /\ Len(StepsOf(route)) \in Nat \ {0} /\ StepFacts(route, stage[p])
  BY StepsAreRight DEF RouteInv, RouteTypes, Busy, Over

\* A step of p that ends with code, whatever else it writes.
LEMMA AnswerKeeps ==
  ASSUME RouteInv, NEW p \in Presses, Busy(p), NEW code, NEW who, Replies(p, code, who),
         UNCHANGED <<route, presses, screen, overlap, ended>>,
         free' \subseteq Presses, done' \in {done, done \cup {p}}, lost' \in {lost, lost \cup {p}}, effects' \in Nat,
         OnceRight',
         code = "shopify_api" => who = "shopify",
         code = "internal" =>
           who = "app" \/ (who = "other" /\ (ended \/ (route = "update" /\ overlap))),
         code \in {"validation", "shopify_api", "internal"} /\ p \in done' =>
           \/ route = "prepare"
           \/ code = "internal" /\ (route \in {"export", "retry"} \/ p \in lost')
  PROVE  RouteInv'
<1>1. /\ Over \in Nat \ {0} /\ Over' = Over /\ stage' = [stage EXCEPT ![p] = Over]
      /\ stage' \in [Presses -> 1..Over]
  BY BusyAt DEF Replies, Over, RouteInv, RouteTypes
<1>2. ~Busy(p)' /\ \A q \in Presses \ {p} : Busy(q)' = Busy(q) /\ (At(q, "db")' <=> At(q, "db"))
  BY <1>1 DEF Busy, At, RouteInv, RouteTypes
<1>3. p \in 1..presses /\ presses \in Nat
  BY DEF RouteInv, RouteTypes, Presses
<1>4. IF p = presses /\ screen = "waiting"
      THEN answer' = code /\ cause' = who
      ELSE UNCHANGED <<answer, cause>>
  BY DEF Replies
<1>5. RouteTypes'
  <2>1. done' \subseteq 1..presses' /\ lost' \subseteq 1..presses'
    BY <1>3 DEF RouteInv, RouteTypes
  <2>2. \A q \in Presses : Busy(q)' => q # p /\ Busy(q)
    BY <1>2
  <2>3. presses \in Presses /\ Busy(presses)' => answer' = "none" /\ screen \in {"waiting", "unreachable"}
    BY <1>2, <1>4, <2>2 DEF RouteInv, RouteTypes
  <2> QED BY <1>1, <2>1, <2>2, <2>3 DEF RouteInv, RouteTypes
<1>6. BlameRight'
  BY <1>4 DEF RouteInv, BlameRight, Blames
<1>7. UndoneRight'
  <2>1. \A q \in done' : Busy(q)' => route' = "prepare" \/ (route' \in {"export", "retry"} /\ At(q, "db")')
    <3>1. done \subseteq Presses
      <4>1. presses \in 0..MaxPresses /\ done \subseteq 1..presses
        BY DEF RouteInv, RouteTypes
      <4> QED BY <4>1, RoutesAssumption DEF Presses
    <3> QED BY <1>2, <3>1 DEF RouteInv, UndoneRight
  <2>2. Spares(answer)' /\ Spares(screen)'
    <3>1. Spares(answer) /\ Spares(screen)
      BY DEF RouteInv, UndoneRight
    <3>2. p = presses => answer = "none" /\ screen \in {"waiting", "unreachable"}
      BY DEF RouteInv, RouteTypes
    <3> QED BY <1>4, <3>1, <3>2 DEF Spares
  <2> QED BY <2>1, <2>2 DEF UndoneRight
<1> QED BY <1>5, <1>6, <1>7 DEF RouteInv

\* A step of p that goes on to the next one.
LEMMA NextKeeps ==
  ASSUME RouteInv, NEW p \in Presses, Busy(p), stage[p] # Len(StepsOf(route)),
         stage' = [stage EXCEPT ![p] = @ + 1], UNCHANGED <<answer, cause>>,
         UNCHANGED <<route, presses, screen, overlap, ended>>,
         free' \subseteq Presses, done' \in {done, done \cup {p}}, lost' = lost, effects' \in Nat, OnceRight',
         p \in done' => \/ route = "prepare"
                        \/ route \in {"export", "retry"} /\ StepsOf(route)[stage[p] + 1] = "db"
  PROVE  RouteInv'
<1>1. Over \in Nat \ {0} /\ Over' = Over /\ stage[p] + 1 \in 1..Over /\ stage[p] + 1 < Over
  BY BusyAt DEF Over
<1>2. stage' \in [Presses -> 1..Over] /\ stage'[p] = stage[p] + 1
  BY <1>1 DEF RouteInv, RouteTypes
<1>3. \A q \in Presses : Busy(q)' = Busy(q)
  BY <1>1, <1>2 DEF Busy, RouteInv, RouteTypes
<1>4. p \in 1..presses /\ presses \in Nat
  BY DEF RouteInv, RouteTypes, Presses
<1>5. RouteTypes'
  <2>1. done' \subseteq 1..presses'
    BY <1>4 DEF RouteInv, RouteTypes
  <2>2. /\ screen = "waiting" => presses \in Presses
        /\ presses \in Presses /\ Busy(presses) => answer = "none" /\ screen \in {"waiting", "unreachable"}
    BY DEF RouteInv, RouteTypes
  <2> QED BY <1>1, <1>2, <1>3, <2>1, <2>2 DEF RouteInv, RouteTypes
<1>6. BlameRight'
  BY DEF RouteInv, BlameRight, Blames
<1>7. UndoneRight'
  <2>1. ASSUME NEW q \in done', Busy(q)'
        PROVE  route = "prepare" \/ (route \in {"export", "retry"} /\ At(q, "db")')
    <3>1. q \in Presses
      <4>1. q \in 1..presses /\ presses \in 0..MaxPresses
        BY <1>4 DEF RouteInv, RouteTypes
      <4> QED BY <4>1, RoutesAssumption DEF Presses
    <3>2. CASE q = p
      BY <2>1, <3>2, <1>2 DEF At
    <3>3. CASE q # p
      <4>1. q \in done /\ Busy(q) /\ stage'[q] = stage[q]
        BY <2>1, <3>1, <3>3, <1>3 DEF RouteInv, RouteTypes
      <4>2. At(q, "db")' <=> At(q, "db")
        BY <2>1, <4>1 DEF At
      <4> QED BY <4>1, <4>2 DEF RouteInv, UndoneRight
    <3> QED BY <3>2, <3>3
  <2>2. Spares(answer)' /\ Spares(screen)'
    <3>1. \/ presses \in done' <=> presses \in done
          \/ p = presses /\ screen \in {"waiting", "unreachable"} /\ answer = "none"
      BY DEF RouteInv, RouteTypes
    <3> QED BY <3>1 DEF RouteInv, UndoneRight, Spares
  <2> QED BY <2>1, <2>2 DEF UndoneRight
<1> QED BY <1>5, <1>6, <1>7 DEF RouteInv

\* The things done stay as many, when a step of p changes nothing.
LEMMA OnceStays ==
  ASSUME RouteInv, NEW p \in Presses, Busy(p), Advances(p) \/ (\E c, w : Replies(p, c, w)),
         Advances(p) => ~At(p, "look"),
         UNCHANGED <<route, object, presses, free, screen, effects, overlap, ended>>,
         lost' \in {lost, lost \cup {p}}
  PROVE  OnceRight'
<1>1. /\ Over \in Nat \ {0} /\ Over' = Over /\ Over = Len(StepsOf(route)) + 1
      /\ \/ stage' = [stage EXCEPT ![p] = Over]
         \/ stage' = [stage EXCEPT ![p] = @ + 1] /\ stage[p] < Len(StepsOf(route)) /\ ~At(p, "look")
  BY BusyAt DEF Over, Advances, Replies
<1>2. \A q \in Presses : At(q, "enqueue")' => At(q, "enqueue")
  <2> SUFFICES ASSUME NEW q \in Presses, At(q, "enqueue")' PROVE At(q, "enqueue")
    OBVIOUS
  <2>1. CASE q # p
    BY <1>1, <2>1 DEF At, Busy, RouteInv, RouteTypes
  <2>2. CASE q = p
    <3>1. stage'[p] = stage[p] + 1 /\ stage[p] < Len(StepsOf(route)) /\ ~At(p, "look")
      BY <1>1, <2>2 DEF At, Busy, RouteInv, RouteTypes
    <3>2. StepFacts(route, stage[p])
      BY BusyAt
    <3> QED BY <2>2, <3>1, <3>2 DEF At, StepFacts
  <2> QED BY <2>1, <2>2
<1>3. \A q \in free' : At(q, "enqueue")' => At(q, "enqueue")
  BY <1>2 DEF RouteInv, RouteTypes
<1>4. route = "starter" /\ lost = {} => effects = 0
  BY DEF RouteInv, RouteTypes, OnceRight
<1> QED BY <1>3, <1>4 DEF RouteInv, RouteTypes, OnceRight

\* A step that throws.
LEMMA ThrowKeeps ==
  ASSUME RouteInv, NEW p \in Presses, Busy(p), NEW thrown, NEW who, Throw(p, thrown, who),
         CodeOf(thrown) = "shopify_api" => who = "shopify",
         CodeOf(thrown) = "internal" =>
           who = "app" \/ (who = "other" /\ (ended \/ (route = "update" /\ overlap))),
         CodeOf(thrown) \in {"validation", "shopify_api"} => p \notin done \/ route = "prepare"
  PROVE  RouteInv'
<1> DEFINE code == CodeOf(thrown)
<1>1. /\ Replies(p, code, who)
      /\ UNCHANGED <<route, object, presses, free, screen, effects, done, lost, overlap, ended>>
  BY DEF Throw
<1>2. code = "shopify_api" => who = "shopify"
  OBVIOUS
<1>3. code = "internal" =>
        who = "app" \/ (who = "other" /\ (ended \/ (route = "update" /\ overlap)))
  OBVIOUS
<1>4. code \in {"validation", "shopify_api", "internal"} /\ p \in done =>
        route = "prepare" \/ (code = "internal" /\ route \in {"export", "retry"})
  BY DEF RouteInv, UndoneRight
<1> HIDE DEF code
<1>5. OnceRight' /\ effects' \in Nat /\ free' \subseteq Presses
  <2>1. \E c, w : Replies(p, c, w)
    BY <1>1
  <2>2. Advances(p) => ~At(p, "look")
    <3>1. stage' = [stage EXCEPT ![p] = Over]
      BY <1>1 DEF Replies
    <3>2. Advances(p) => stage[p] = Len(StepsOf(route))
      BY <3>1, BusyAt DEF Advances, RouteInv, RouteTypes
    <3> QED BY <3>2, BusyAt DEF At, StepFacts
  <2> QED BY <1>1, <2>1, <2>2, OnceStays DEF RouteInv, RouteTypes
<1> QED BY <1>1, <1>2, <1>3, <1>4, <1>5, AnswerKeeps

\* A step that goes on, or is the last, whatever it writes.
LEMMA AdvanceKeeps ==
  ASSUME RouteInv, NEW p \in Presses, Busy(p), Advances(p),
         UNCHANGED <<route, presses, screen, overlap, ended>>,
         free' \subseteq Presses, done' \in {done, done \cup {p}}, lost' = lost, effects' \in Nat,
         OnceRight',
         p \in done' => \/ stage[p] = Len(StepsOf(route)) \/ route = "prepare"
                        \/ route \in {"export", "retry"} /\ StepsOf(route)[stage[p] + 1] = "db"
  PROVE  RouteInv'
<1>1. CASE stage[p] = Len(StepsOf(route))
  <2>1. Replies(p, "ok", "none")
    BY <1>1 DEF Advances
  <2> QED BY <2>1, AnswerKeeps
<1>2. CASE stage[p] # Len(StepsOf(route))
  <2>1. stage' = [stage EXCEPT ![p] = @ + 1] /\ UNCHANGED <<answer, cause>>
    BY <1>2 DEF Advances
  <2> QED BY <1>2, <2>1, NextKeeps
<1> QED BY <1>1, <1>2

\* A step that passes.
LEMMA PassKeeps ==
  ASSUME RouteInv, NEW p \in Presses, Busy(p), Passes(p), ~At(p, "look"),
         p \notin done \/ route = "prepare" \/ At(p, "db")
  PROVE  RouteInv'
<1>1. /\ Advances(p)
      /\ UNCHANGED <<route, object, presses, free, screen, effects, done, lost, overlap, ended>>
  BY DEF Passes
<1>2. OnceRight' /\ effects' \in Nat /\ free' \subseteq Presses
  BY <1>1, OnceStays DEF RouteInv, RouteTypes
<1>3. p \in done => stage[p] = Len(StepsOf(route)) \/ route = "prepare"
  BY BusyAt DEF RouteInv, UndoneRight, At, StepFacts
<1> QED BY <1>1, <1>2, <1>3, AdvanceKeeps

\* A step that writes.
LEMMA WriteKeeps ==
  ASSUME RouteInv, NEW p \in Presses, Busy(p), NEW made \in Nat, Writes(p, made), OnceRight',
         \/ stage[p] = Len(StepsOf(route))
         \/ route \in {"export", "retry"} /\ StepsOf(route)[stage[p] + 1] = "db"
  PROVE  RouteInv'
<1>1. /\ effects' = effects + made /\ effects' \in Nat /\ free' \subseteq Presses /\ done' = done \cup {p}
      /\ UNCHANGED <<route, presses, free, screen, overlap, ended>>
  BY DEF Writes, RouteInv, RouteTypes
<1>2. CASE Advances(p) /\ lost' = lost
  BY <1>1, <1>2, AdvanceKeeps
<1>3. CASE Replies(p, CodeOf("Error"), "app") /\ lost' = lost \cup {p}
  <2>1. CodeOf("Error") = "internal" /\ p \in lost'
    BY <1>3 DEF CodeOf
  <2>2. Replies(p, "internal", "app")
    BY <1>3, <2>1
  <2> QED BY <1>1, <1>3, <2>1, <2>2, AnswerKeeps
<1> QED BY <1>2, <1>3 DEF Writes

\* What the client makes of any failure of Shopify.
LEMMA ShopifyIsBlamed ==
  /\ \A shape \in ThrownShapes : Unwrapped(ErrorsFrom(shape), FALSE) = "AdminApiError"
  /\ Unwrapped({}, FALSE) = "AdminApiError" /\ Unwrapped(ErrorsFrom("http"), FALSE) = "AdminApiError"
  /\ CodeOf("AdminApiError") = "shopify_api" /\ CodeOf("UserErrorsError") = "shopify_api"
  /\ CodeOf("Error") = "internal" /\ CodeOf("BundleValidationError") = "validation"
  /\ CodeOf("BundleNotFoundError") = "not_found" /\ CodeOf("JobNotRetryableError") = "not_found"
  BY DEF Unwrapped, CodeOf

LEMMA RouteInvStep == RouteInv /\ [RouteNext]_routeVars => RouteInv'
<1> SUFFICES ASSUME RouteInv, [RouteNext]_routeVars PROVE RouteInv'
  OBVIOUS
<1>1. CASE UNCHANGED routeVars
  BY <1>1 DEF routeVars, RouteInv, RouteTypes, Over, Busy, At, BlameRight, Blames, UndoneRight, Spares,
     OnceRight
<1>2. CASE Press
  <2>1. /\ screen \notin {"waiting", "ok"} /\ presses < MaxPresses
        /\ presses' = presses + 1 /\ screen' = "waiting" /\ answer' = "none"
        /\ stage' = [stage EXCEPT ![presses + 1] = 1]
        /\ overlap' = (overlap \/ \E p \in Presses : Busy(p))
        /\ UNCHANGED <<route, object, free, effects, done, lost, ended>>
    BY <1>2 DEF Press
  <2>2. /\ presses \in Nat /\ presses + 1 \in Presses /\ done \subseteq 1..presses
        /\ lost \subseteq 1..presses
    BY <2>1, RoutesAssumption DEF RouteInv, RouteTypes, Presses
  <2>3. /\ Over \in Nat \ {0} /\ 1 < Over /\ Over' = Over
        /\ \A p \in Presses \ {presses + 1} : Busy(p)' = Busy(p) /\ stage'[p] = stage[p]
    BY <2>1, StepsAreRight DEF Over, Busy, RouteInv, RouteTypes
  <2>4. \A p \in Presses \ {presses + 1} : Busy(p) => p \in lost /\ overlap'
    BY <2>1 DEF RouteInv, RouteTypes
  <2>5. RouteTypes'
    <3>1. stage' \in [Presses -> 1..Over]
      <4>1. 1 \in 1..Over /\ stage \in [Presses -> 1..Over]
        BY <2>3 DEF RouteInv, RouteTypes
      <4> QED BY <2>1, <4>1
    <3>2. done' \subseteq 1..presses' /\ lost' \subseteq 1..presses' /\ presses' \in 0..MaxPresses
      BY <2>1, <2>2 DEF Presses
    <3>3. \A p \in Presses : Busy(p)' => p \in lost' \/ (p = presses' /\ screen' = "waiting")
      BY <2>1, <2>3, <2>4
    <3>4. \A p \in Presses : Busy(p)' /\ ~overlap' => p = presses'
      BY <2>1, <2>3, <2>4
    <3> QED BY <2>1, <2>2, <2>3, <3>1, <3>2, <3>3, <3>4 DEF RouteInv, RouteTypes
  <2>6. BlameRight' /\ presses' \notin done'
    BY <2>1, <2>2 DEF BlameRight, Blames
  <2>7. UndoneRight'
    <3>1. \A p \in done : p \in Presses \ {presses + 1}
      BY <2>2, RoutesAssumption DEF RouteInv, RouteTypes, Presses
    <3>2. \A p \in done : (Busy(p)' => Busy(p)) /\ (At(p, "db") => At(p, "db")')
      BY <2>1, <2>3, <3>1 DEF At
    <3>3. Spares(answer)' /\ Spares(screen)'
      BY <2>1 DEF Spares
    <3> QED BY <2>1, <3>2, <3>3 DEF RouteInv, UndoneRight
  <2>8. OnceRight'
    <3>1. route = "starter" /\ lost = {} => effects = 0
      BY <2>1 DEF RouteInv, OnceRight
    <3>2. ~overlap' => ~overlap
      BY <2>1
    <3>3. \A p \in Presses : route = "export" /\ At(p, "enqueue")' => At(p, "enqueue")
      <4>1. route = "export" => StepsOf(route)[1] = "session"
        BY DEF StepsOf
      <4> QED BY <2>1, <2>2, <2>3, <4>1 DEF At, RouteInv, RouteTypes
    <3>4. free \subseteq Presses
      BY DEF RouteInv, RouteTypes
    <3> QED BY <2>1, <3>1, <3>2, <3>3, <3>4 DEF RouteInv, OnceRight
  <2> QED BY <2>5, <2>6, <2>7, <2>8 DEF RouteInv
<1>3. CASE Receive
  <2>1. /\ screen = "waiting" /\ answer # "none" /\ screen' = answer
        /\ UNCHANGED <<route, object, presses, stage, free, answer, cause, effects, done, lost, overlap, ended>>
    BY <1>3 DEF Receive
  <2>2. ~Busy(presses)
    BY <2>1 DEF RouteInv, RouteTypes
  <2>3. RouteTypes'
    BY <2>1, <2>2 DEF RouteInv, RouteTypes, Over, Busy
  <2>4. OnceRight'
    BY <2>1, <2>2 DEF RouteInv, OnceRight, At, Over, Busy
  <2>5. BlameRight' /\ UndoneRight'
    BY <2>1 DEF RouteInv, BlameRight, Blames, UndoneRight, Spares, At, Over, Busy
  <2> QED BY <2>3, <2>4, <2>5 DEF RouteInv
<1>4. CASE Lose
  <2>1. /\ screen = "waiting" /\ screen' = "unreachable" /\ lost' = lost \cup {presses} /\ answer' = "none"
        /\ UNCHANGED <<route, object, presses, stage, free, cause, effects, done, overlap, ended>>
    BY <1>4 DEF Lose
  <2>2. presses \in 1..presses
    BY <2>1 DEF RouteInv, RouteTypes, Presses
  <2>3. RouteTypes'
    BY <2>1, <2>2 DEF RouteInv, RouteTypes, Over, Busy
  <2>4. OnceRight'
    BY <2>1 DEF RouteInv, OnceRight, At, Over, Busy
  <2>5. BlameRight' /\ UndoneRight'
    BY <2>1 DEF RouteInv, BlameRight, Blames, UndoneRight, Spares, At, Over, Busy
  <2> QED BY <2>3, <2>4, <2>5 DEF RouteInv
<1>5. CASE Elsewhere \/ OtherTabEnds
  <2>1. /\ (ended => ended') /\ (~ended' => ~ended /\ object = "busy")
        /\ UNCHANGED <<route, presses, stage, free, answer, screen, cause, effects, done, lost, overlap>>
    BY <1>5 DEF Elsewhere, OtherTabEnds, others
  <2>2. RouteTypes'
    BY <2>1 DEF RouteInv, RouteTypes, Over, Busy
  <2>3. OnceRight'
    <3>1. Busy(presses)' = Busy(presses)
      BY <2>1 DEF Busy, Over
    <3>2. route \in {"update", "retry"} => ended'
      BY <2>1 DEF RouteInv, OnceRight
    <3>3. route = "export" => ended' \/ overlap'
      BY <2>1 DEF RouteInv, OnceRight
    <3> QED BY <2>1, <3>1, <3>2, <3>3 DEF RouteInv, OnceRight
  <2>4. BlameRight'
    BY <2>1 DEF RouteInv, BlameRight, Blames
  <2>5. UndoneRight'
    BY <2>1 DEF RouteInv, UndoneRight, Spares, At, Over, Busy
  <2> QED BY <2>2, <2>3, <2>4, <2>5 DEF RouteInv
<1>6. ASSUME NEW p \in Presses, Session(p) \/ Validate(p) \/ Database(p) \/ CallShopify(p) \/ Check(p)
      PROVE  RouteInv'
  <2>1. Busy(p) /\ ~At(p, "look")
    BY <1>6 DEF At, Session, Validate, Database, CallShopify, Check
  <2>2. p \notin done \/ route = "prepare" \/ At(p, "db")
    BY <2>1 DEF RouteInv, UndoneRight
  <2>3. p \in done /\ At(p, "db") => route \in {"export", "retry", "prepare"}
    BY <2>1 DEF RouteInv, UndoneRight
  <2>4. CASE Passes(p)
    BY <2>1, <2>2, <2>4, PassKeeps
  <2>5. CASE Session(p) /\ ~Passes(p)
    <3>1. /\ Replies(p, "unauthenticated", "merchant")
          /\ UNCHANGED <<route, object, presses, free, screen, effects, done, lost, overlap, ended>>
      BY <2>5 DEF Session
    <3>2. OnceRight' /\ effects' \in Nat /\ free' \subseteq Presses
      <4>1. \E c, w : Replies(p, c, w)
        BY <3>1
      <4> QED BY <2>1, <3>1, <4>1, OnceStays DEF RouteInv, RouteTypes
    <3> QED BY <2>1, <3>1, <3>2, AnswerKeeps
  <2>6. CASE (At(p, "validate") \/ At(p, "check")) /\ Throw(p, "BundleValidationError", "merchant")
    <3>1. p \notin done \/ route = "prepare"
      BY <2>2, <2>6 DEF At
    <3> QED BY <2>1, <2>6, <3>1, ThrowKeeps, ShopifyIsBlamed
  <2>7. CASE Throw(p, "Error", "app")
    BY <2>1, <2>7, ThrowKeeps, ShopifyIsBlamed
  <2>8. CASE Throw(p, "BundleNotFoundError", "merchant")
    BY <2>1, <2>8, ThrowKeeps, ShopifyIsBlamed
  <2>9. CASE object = "gone" /\ route = "retry" /\ Throw(p, "Error", "other")
    <3>1. ended
      BY <2>9 DEF RouteInv, OnceRight
    <3> QED BY <2>1, <2>9, <3>1, ThrowKeeps, ShopifyIsBlamed
  <2>10. CASE At(p, "shopify") /\ Throw(p, "AdminApiError", "shopify")
    <3>1. p \notin done \/ route = "prepare"
      BY <2>2, <2>10 DEF At
    <3> QED BY <2>1, <2>10, <3>1, ThrowKeeps, ShopifyIsBlamed
  <2>11. CASE Session(p) \/ Validate(p) \/ Check(p)
    BY <2>4, <2>5, <2>6, <2>11 DEF Session, Validate, Check
  <2>12. CASE Database(p)
    BY <2>4, <2>7, <2>8, <2>9, <2>12 DEF Database
  <2>13. CASE CallShopify(p)
    <3>1. Passes(p) \/ Throw(p, "AdminApiError", "shopify")
      BY <2>13, ShopifyIsBlamed DEF CallShopify
    <3>2. At(p, "shopify")
      BY <2>13 DEF CallShopify
    <3> QED BY <2>4, <2>10, <3>1, <3>2
  <2> QED BY <1>6, <2>11, <2>12, <2>13
<1>7. ASSUME NEW p \in Presses, Create(p) \/ Change(p) \/ Delete(p)
      PROVE  RouteInv'
  <2>1. Busy(p) /\ stage[p] = Len(StepsOf(route))
    BY <1>7, BusyAt DEF Create, Change, Delete, At, StepFacts
  <2>2. CASE Throw(p, "Error", "app")
    BY <2>1, <2>2, ThrowKeeps, ShopifyIsBlamed
  <2>3. CASE Throw(p, "BundleNotFoundError", "merchant")
    BY <2>1, <2>3, ThrowKeeps, ShopifyIsBlamed
  <2>4. CASE Create(p) /\ Writes(p, 1) /\ object' = "there"
    <3>1. route = "starter"
      BY <2>4, <2>1, BusyAt DEF Create, At, StepFacts
    <3>2. /\ effects' = effects + 1 /\ UNCHANGED <<route, presses, free, screen, overlap, ended>>
          /\ \/ Advances(p) /\ lost' = lost
             \/ lost' = lost \cup {p}
      BY <2>4 DEF Writes
    <3>3. OnceRight'
      <4>1. CASE lost' # {}
        BY <3>1, <3>2, <4>1 DEF OnceRight
      <4>2. CASE lost' = {}
        <5>1. p = presses /\ screen = "waiting" /\ lost = {} /\ effects = 0
          BY <2>1, <3>1, <3>2, <4>2 DEF RouteInv, RouteTypes, OnceRight
        <5>2. Replies(p, "ok", "none")
          BY <2>1, <3>2, <4>2 DEF Advances
        <5>3. answer' = "ok" /\ stage' = [stage EXCEPT ![p] = Over]
          BY <5>1, <5>2 DEF Replies
        <5>4. ~Busy(presses)'
          BY <3>2, <5>1, <5>3, BusyAt, <2>1 DEF Busy, Over, RouteInv, RouteTypes
        <5> QED BY <3>1, <3>2, <5>1, <5>3, <5>4 DEF OnceRight
      <4> QED BY <4>1, <4>2
    <3> QED BY <2>1, <2>4, <3>3, WriteKeeps
  <2>5. CASE (Change(p) \/ Delete(p)) /\ Writes(p, 0)
    <3>1. route \in {"update", "delete"}
      BY <2>5, <2>1, BusyAt DEF Change, Delete, At, StepFacts
    <3>2. effects' = effects + 0 /\ route' = route /\ ended' = ended
      BY <2>5 DEF Writes
    <3>3. route = "update" => object' = object
      BY <2>5, <2>1, BusyAt DEF Change, Delete, At, StepFacts, Throw
    <3>4. OnceRight'
      BY <3>1, <3>2, <3>3 DEF RouteInv, RouteTypes, OnceRight
    <3> QED BY <2>1, <2>5, <3>4, WriteKeeps
  <2>6. CASE /\ object # "there" \/ \E q \in Presses \ {p} : At(q, "change")
             /\ At(p, "change") /\ Throw(p, "Error", "other")
    <3>1. route = "update"
      BY <2>6, <2>1, BusyAt DEF At, StepFacts
    <3>2. ended \/ overlap
      BY <2>6, <2>1, <3>1 DEF RouteInv, RouteTypes, OnceRight, At
    <3> QED BY <2>1, <2>6, <3>1, <3>2, ThrowKeeps, ShopifyIsBlamed
  <2> QED BY <1>7, <2>2, <2>3, <2>4, <2>5, <2>6 DEF Create, Change, Delete
<1>8. ASSUME NEW p \in Presses, Look(p)
      PROVE  RouteInv'
  <2>1. /\ Busy(p) /\ At(p, "look") /\ route = "export" /\ stage[p] < Len(StepsOf(route))
        /\ StepsOf(route)[stage[p]] = "look" /\ StepsOf(route)[stage[p] + 1] = "enqueue"
    BY <1>8, BusyAt DEF Look, At, StepFacts
  <2>2. CASE Throw(p, "Error", "app")
    BY <2>1, <2>2, ThrowKeeps, ShopifyIsBlamed
  <2>3. CASE /\ Advances(p)
             /\ free' = IF object = "queued" THEN free \ {p} ELSE free \cup {p}
             /\ UNCHANGED <<route, object, presses, screen, effects, done, lost, overlap, ended>>
    <3>1. stage' = [stage EXCEPT ![p] = @ + 1] /\ UNCHANGED <<answer, cause>>
      BY <2>1, <2>3, BusyAt DEF Advances
    <3>2. OnceRight'
      <4>1. \A q \in Presses \ {p} : At(q, "enqueue")' => At(q, "enqueue")
        BY <2>3, <3>1 DEF At, Busy, Over, RouteInv, RouteTypes
      <4>2. ~ended /\ ~overlap => \A q \in free' : At(q, "enqueue")' => object = "none"
        BY <2>1, <2>3, <4>1 DEF RouteInv, RouteTypes, OnceRight
      <4> QED BY <2>1, <2>3, <4>2 DEF RouteInv, OnceRight
    <3>3. p \notin done /\ effects' \in Nat
      BY <2>1, <2>3 DEF RouteInv, RouteTypes, UndoneRight, At
    <3>4. free' \subseteq Presses
      BY <2>3 DEF RouteInv, RouteTypes
    <3>5. p \notin done' /\ stage[p] # Len(StepsOf(route)) /\ done' \in {done, done \cup {p}}
      BY <2>1, <2>3, <3>3
    <3> QED BY <2>1, <2>3, <3>1, <3>2, <3>3, <3>4, <3>5, NextKeeps
  <2> QED BY <1>8, <2>2, <2>3 DEF Look
<1>9. ASSUME NEW p \in Presses, Enqueue(p)
      PROVE  RouteInv'
  <2>1. /\ Busy(p) /\ At(p, "enqueue") /\ ~At(p, "look") /\ ~At(p, "db") /\ route = "export"
        /\ StepsOf(route)[stage[p] + 1] = "db"
    BY <1>9, BusyAt DEF Enqueue, At, StepFacts
  <2>2. p \notin done
    BY <2>1 DEF RouteInv, UndoneRight
  <2>3. CASE Passes(p)
    BY <2>1, <2>2, <2>3, PassKeeps
  <2>4. CASE Throw(p, "Error", "app")
    BY <2>1, <2>4, ThrowKeeps, ShopifyIsBlamed
  <2>5. CASE p \in free /\ Writes(p, 1) /\ object' = "queued"
    <3>1. /\ effects' = effects + 1 /\ UNCHANGED <<route, presses, free, screen, overlap, ended>>
          /\ Advances(p) \/ \E c, w : Replies(p, c, w)
      BY <2>5 DEF Writes
    <3>2. ~At(p, "enqueue")'
      BY <2>1, <3>1, BusyAt DEF At, Busy, Over, Advances, Replies, RouteInv, RouteTypes
    <3>3. ~overlap => \A q \in Presses \ {p} : ~At(q, "enqueue")'
      <4>1. ~overlap => \A q \in Presses \ {p} : ~Busy(q)
        BY <2>1 DEF RouteInv, RouteTypes
      <4>2. \A q \in Presses \ {p} : Busy(q)' = Busy(q)
        BY <3>1 DEF Busy, Over, Advances, Replies, RouteInv, RouteTypes
      <4> QED BY <4>1, <4>2 DEF At
    <3>4. OnceRight'
      <4>1. free \subseteq Presses
        BY DEF RouteInv, RouteTypes
      <4> QED BY <2>1, <2>5, <3>1, <3>2, <3>3, <4>1 DEF RouteInv, OnceRight
    <3> QED BY <2>1, <2>5, <3>4, WriteKeeps
  <2> QED BY <1>9, <2>3, <2>4, <2>5 DEF Enqueue
<1>10. ASSUME NEW p \in Presses, Requeue(p)
       PROVE  RouteInv'
  <2>1. Busy(p) /\ At(p, "requeue") /\ route = "retry" /\ StepsOf(route)[stage[p] + 1] = "db"
    BY <1>10, BusyAt DEF Requeue, At, StepFacts
  <2>2. CASE Throw(p, "Error", "app")
    BY <2>1, <2>2, ThrowKeeps, ShopifyIsBlamed
  <2>3. CASE Throw(p, "JobNotRetryableError", "merchant")
    BY <2>1, <2>3, ThrowKeeps, ShopifyIsBlamed
  <2>4. CASE object = "failed" /\ Writes(p, 1) /\ object' = "queued"
    <3>1. effects' = effects + 1 /\ UNCHANGED <<route, ended>>
      BY <2>4 DEF Writes
    <3>2. OnceRight'
      BY <2>1, <2>4, <3>1 DEF RouteInv, OnceRight
    <3> QED BY <2>1, <2>4, <3>2, WriteKeeps
  <2> QED BY <1>10, <2>2, <2>3, <2>4 DEF Requeue
<1>11. ASSUME NEW p \in Presses, Define(p)
       PROVE  RouteInv'
  <2>1. Busy(p) /\ route = "prepare"
    BY <1>11, BusyAt DEF Define, At, StepFacts
  <2>2. CASE Throw(p, "UserErrorsError", "shopify")
    BY <2>1, <2>2, ThrowKeeps, ShopifyIsBlamed
  <2>3. CASE Throw(p, "AdminApiError", "shopify")
    BY <2>1, <2>3, ThrowKeeps, ShopifyIsBlamed
  <2>4. CASE /\ Advances(p) /\ done' = done \cup {p}
             /\ UNCHANGED <<route, object, presses, free, screen, effects, lost, overlap, ended>>
    <3>1. OnceRight' /\ effects' \in Nat /\ free' \subseteq Presses
      BY <2>1, <2>4 DEF RouteInv, RouteTypes, OnceRight
    <3> QED BY <2>1, <2>4, <3>1, AdvanceKeeps
  <2> QED BY <1>11, <2>2, <2>3, <2>4, ShopifyIsBlamed DEF Define
<1> QED BY <1>1, <1>2, <1>3, <1>4, <1>5, <1>6, <1>7, <1>8, <1>9, <1>10, <1>11 DEF RouteNext

\* Whom an error blames has failed, what failed was not done but for the cases the
\* property names, and what is done twice was lost from sight, overlapped, or was
\* ended by somebody else in between.
THEOREM ErrorsBlameRightly == RouteSpec => []ErrorsAreTrue
<1>1. RouteInit => RouteInv
  <2> SUFFICES ASSUME RouteInit PROVE RouteInv
    OBVIOUS
  <2>1. /\ route \in Routes /\ presses = 0 /\ stage = [p \in Presses |-> Over] /\ free = {}
        /\ answer = "none" /\ screen = "idle" /\ effects = 0 /\ done = {} /\ lost = {}
        /\ (route = "retry" => object = "failed") /\ (route = "export" => object = "none")
        /\ (route = "update" => object = "there")
    BY DEF RouteInit
  <2>2. Over \in Nat \ {0} /\ \A p \in Presses : ~Busy(p)
    BY <2>1, StepsAreRight DEF Over, Busy
  <2>3. RouteTypes /\ OnceRight
    BY <2>1, <2>2, RoutesAssumption DEF RouteTypes, OnceRight, Presses
  <2>4. BlameRight /\ UndoneRight
    BY <2>1 DEF BlameRight, Blames, UndoneRight, Spares
  <2> QED BY <2>3, <2>4 DEF RouteInv
<1>2. RouteInv => ErrorsAreTrue
  <2> SUFFICES ASSUME RouteInv PROVE ErrorsAreTrue
    OBVIOUS
  <2>1. Blames(screen) /\ Spares(screen)
    BY DEF RouteInv, BlameRight, UndoneRight
  <2>2. effects > 1 => \/ ended
                       \/ route = "starter" /\ lost # {}
                       \/ route = "export" /\ overlap
    <3>1. effects \in Nat
      BY DEF RouteInv, RouteTypes
    <3> QED BY <3>1 DEF RouteInv, OnceRight
  <2> QED BY <2>1, <2>2 DEF ErrorsAreTrue, Blames, Spares
<1> QED BY <1>1, <1>2, RouteInvStep, PTL DEF RouteSpec

-----------------------------------------------------------------------------
(* CatalogScan: what has been passed is kept, or its step was full before.  *)

LEMMA LeastOf ==
  ASSUME NEW S \in SUBSET Nat, S # {}
  PROVE  Min(S) \in S /\ \A y \in S : Min(S) <= y
<1> DEFINE R == {p \in Nat \X Nat : p[1] < p[2]}
<1>1. IsWellFoundedOn(R, Nat)
  BY NatLessThanWellFounded DEF OpToRel
<1>2. PICK x \in S : \A y \in S : <<y, x>> \notin R
  <2> HIDE DEF R
  <2> QED BY <1>1, WFMin
<1>3. \A y \in S : x <= y
  <2> SUFFICES ASSUME NEW y \in S, y < x PROVE FALSE
    OBVIOUS
  <2> QED BY <1>2
<1> QED BY <1>3 DEF Min

LEMMA GreatestOf ==
  ASSUME NEW n \in Nat, NEW S \in SUBSET (0..n), S # {}
  PROVE  Max(S) \in S /\ \A y \in S : y <= Max(S)
<1> DEFINE T == {n - x : x \in S}
<1>1. T \in SUBSET Nat /\ T # {}
  <2>1. \A x \in S : n - x \in Nat
    OBVIOUS
  <2>2. PICK x \in S : TRUE
    OBVIOUS
  <2>3. n - x \in T
    BY <2>2
  <2> QED BY <2>1, <2>3
<1>2. PICK t \in T : \A u \in T : t <= u
  <2> HIDE DEF T
  <2> QED BY <1>1, LeastOf
<1>3. PICK x \in S : t = n - x
  OBVIOUS
<1>4. \A y \in S : y <= x
  <2> SUFFICES ASSUME NEW y \in S, y > x PROVE FALSE
    OBVIOUS
  <2>1. n - y \in T /\ n - y \in Nat /\ t \in Nat /\ n - y < t
    BY <1>3
  <2> HIDE DEF T
  <2> QED BY <1>2, <2>1
<1> QED BY <1>4 DEF Max

\* The first n of a set of products: all others come later, and there are n.
LEMMA LowestAreFirst ==
  ASSUME NEW S \in SUBSET Nat, IsFiniteSet(S), NEW n \in Int
  PROVE  LET L == Lowest(S, n) IN
         /\ L \in SUBSET S /\ IsFiniteSet(L) /\ Cardinality(L) \in Nat
         /\ \A p \in S \ L, q \in L : q < p
         /\ S # L => Cardinality(L) >= n
         /\ n <= 0 => L = {}
<1> DEFINE Below(p) == {y \in S : y < p}
           L == Lowest(S, n)
<1>1. \A p : IsFiniteSet(Below(p)) /\ Cardinality(Below(p)) \in Nat
  <2> SUFFICES ASSUME NEW p PROVE IsFiniteSet(Below(p)) /\ Cardinality(Below(p)) \in Nat
    OBVIOUS
  <2>1. Below(p) \in SUBSET S
    OBVIOUS
  <2> HIDE DEF Below
  <2> QED BY <2>1, FS_Subset, FS_CardinalityType
<1>2. \A p : p \in L <=> p \in S /\ Cardinality(Below(p)) < n
  BY DEF Lowest
<1>3. L \in SUBSET S
  BY <1>2
<1> HIDE DEF L
<1>4. IsFiniteSet(L) /\ Cardinality(L) \in Nat
  BY <1>3, FS_Subset, FS_CardinalityType
<1>5. ASSUME NEW p \in S \ L, NEW q \in L
      PROVE  q < p
  <2>1. p \in Nat /\ q \in Nat /\ p # q /\ q \in S
    BY <1>3, <1>5
  <2>2. SUFFICES ASSUME p < q PROVE FALSE
    BY <2>1
  <2>3. Below(p) \in SUBSET Below(q)
    <3>1. \A y \in S : y < p => y < q
      BY <2>1, <2>2
    <3> QED BY <3>1
  <2>4. Cardinality(Below(p)) <= Cardinality(Below(q))
    <3> HIDE DEF Below
    <3> QED BY <1>1, <2>3, FS_Subset
  <2>5. Cardinality(Below(q)) < n /\ ~(Cardinality(Below(p)) < n)
    BY <1>2, <1>5, <2>1
  <2> HIDE DEF Below
  <2> QED BY <1>1, <2>4, <2>5
<1>6. ASSUME S # L
      PROVE  Cardinality(L) >= n
  <2>1. S \ L \in SUBSET Nat /\ S \ L # {}
    BY <1>3, <1>6
  <2>2. PICK p \in S \ L : \A y \in S \ L : p <= y
    BY <2>1, LeastOf
  <2>3. Below(p) \in SUBSET L
    <3> SUFFICES ASSUME NEW y \in S, y < p, y \notin L PROVE FALSE
      OBVIOUS
    <3>1. p <= y /\ p \in Nat /\ y \in Nat
      BY <2>1, <2>2
    <3> QED BY <3>1
  <2>4. Cardinality(Below(p)) <= Cardinality(L)
    <3> HIDE DEF Below
    <3> QED BY <1>4, <2>3, FS_Subset
  <2>5. ~(Cardinality(Below(p)) < n)
    BY <1>2, <2>2
  <2> HIDE DEF Below
  <2> QED BY <1>1, <1>4, <2>4, <2>5
<1>7. n <= 0 => L = {}
  <2> SUFFICES ASSUME n <= 0, NEW p \in L PROVE FALSE
    OBVIOUS
  <2>1. Cardinality(Below(p)) < n /\ Cardinality(Below(p)) \in Nat
    BY <1>1, <1>2
  <2> HIDE DEF Below
  <2> QED BY <2>1
<1> QED BY <1>3, <1>4, <1>5, <1>6, <1>7 DEF L

LEMMA CatalogIsFinite ==
  ASSUME NEW S \in SUBSET Catalog
  PROVE  /\ IsFiniteSet(S) /\ Cardinality(S) \in Nat
         /\ S \in SUBSET Nat /\ S \in SUBSET (0..CatalogSize)
<1>1. CatalogSize \in Nat /\ IsFiniteSet(Catalog) /\ Catalog \in SUBSET Nat
  <2>1. CatalogSize \in Nat /\ 1 \in Int /\ CatalogSize \in Int
    BY ScanAssumption
  <2>2. IsFiniteSet(1..CatalogSize)
    BY <2>1, FS_Interval
  <2> QED BY <2>1, <2>2 DEF Catalog
<1>2. IsFiniteSet(S) /\ Cardinality(S) \in Nat
  BY <1>1, FS_Subset, FS_CardinalityType
<1> QED BY <1>1, <1>2 DEF Catalog

\* A step that keeps T of the products: the steady ones of it up to bound are kept,
\* or the step was full before them.
Keeps(T, s, bound) ==
  \A p \in steady : p <= bound /\ catalog[p] = s /\ p \notin T =>
    Cardinality(T) >= Quota /\ \A q \in T : q < p

ScanTypes ==
  /\ catalog \in [Catalog -> Shown \cup {Gone}] /\ steady \in SUBSET Catalog
  /\ walk \in [kind : {"starter", "picker", "list"}, state : {"running", "done", "failed"},
               after : Nat, pages : Nat, taken : [RoutineSteps -> SUBSET Catalog],
               found : SUBSET Catalog, exhausted : BOOLEAN]

WalkRight ==
  walk.kind # "list" =>
    /\ walk.state = "running" => \A s \in RoutineSteps :
         (\A q \in walk.taken[s] : q <= walk.after) /\ Keeps(walk.taken[s], s, walk.after)
    /\ walk.state = "done" => ScanTellsTruth

ListRight ==
  walk.kind = "list" /\ walk.state # "failed" =>
    /\ \A p \in steady : p <= walk.after => (p \in walk.found <=> catalog[p] # Gone)
    /\ \A p \in walk.found : p <= walk.after
    /\ walk.state = "done" => walk.after >= CatalogSize

ScanInv == ScanTypes /\ WalkRight /\ ListRight

LEMMA EditKeeps ==
  ASSUME ScanInv, NEW p \in Catalog, NEW kind \in Shown \cup {Gone}, EditCatalog(p, kind)
  PROVE  ScanInv'
<1>1. /\ walk.state = "running" /\ UNCHANGED walk /\ steady' = steady \ {p}
      /\ catalog' = [catalog EXCEPT ![p] = kind]
  BY DEF EditCatalog
<1>2. ScanTypes'
  BY <1>1 DEF ScanInv, ScanTypes
<1>3. \A q \in steady' : q \in steady /\ catalog'[q] = catalog[q]
  BY <1>1 DEF ScanInv, ScanTypes
<1>4. WalkRight'
  <2>1. Quota' = Quota
    BY <1>1 DEF Quota
  <2>2. ASSUME NEW s \in RoutineSteps, NEW T, Keeps(T, s, walk.after)
        PROVE  Keeps(T, s, walk.after)'
    BY <1>1, <1>3, <2>1, <2>2 DEF Keeps
  <2> QED BY <1>1, <2>2 DEF ScanInv, WalkRight
<1>5. ListRight'
  BY <1>1, <1>3 DEF ScanInv, ListRight
<1> QED BY <1>2, <1>4, <1>5 DEF ScanInv

LEMMA LookUpKeeps ==
  ASSUME ScanInv, LookUp
  PROVE  ScanInv'
<1> DEFINE S == {p \in Catalog : p > walk.after}
           batch == Lowest(S, LookupBatch)
           a == walk.after
           b == walk.after + LookupBatch
<1>1. /\ walk.kind = "list" /\ walk.state = "running" /\ UNCHANGED <<catalog, steady>>
      /\ walk' = [walk EXCEPT
           !.found = @ \cup {p \in batch : catalog[p] # Gone}, !.after = b,
           !.state = IF b >= CatalogSize THEN "done" ELSE "running"]
  BY DEF LookUp
<1>2. CatalogSize \in Nat /\ LookupBatch \in Nat /\ a \in Nat
  BY ScanAssumption DEF ScanInv, ScanTypes
<1>3. ASSUME NEW p \in S
      PROVE  p \in batch <=> p <= b
  <2>1. p \in Nat /\ p > a /\ p <= CatalogSize
    BY <1>2 DEF Catalog
  <2>2. {y \in S : y < p} = (a + 1)..(p - 1)
    BY <1>2, <2>1 DEF Catalog
  <2>3. Cardinality((a + 1)..(p - 1)) = p - 1 - a
    <3>1. a + 1 \in Int /\ p - 1 \in Int
      BY <1>2, <2>1
    <3>2. Cardinality((a + 1)..(p - 1)) = IF a + 1 > p - 1 THEN 0 ELSE (p - 1) - (a + 1) + 1
      BY <3>1, FS_Interval
    <3> QED BY <1>2, <2>1, <3>2
  <2>4. p \in batch <=> p - 1 - a < LookupBatch
    BY <2>2, <2>3 DEF Lowest
  <2> QED BY <1>2, <2>1, <2>4
<1>4. batch \in SUBSET S /\ S \in SUBSET Catalog
  BY DEF Lowest
<1>5. /\ walk'.kind = "list" /\ walk'.after = b /\ b \in Nat
      /\ walk'.state = IF b >= CatalogSize THEN "done" ELSE "running"
      /\ walk'.found = walk.found \cup {p \in batch : catalog[p] # Gone}
      /\ walk'.pages = walk.pages /\ walk'.taken = walk.taken /\ walk'.exhausted = walk.exhausted
      /\ walk.found \in SUBSET Catalog /\ steady \in SUBSET Catalog
  <2> HIDE DEF batch
  <2> QED BY <1>1, <1>2 DEF ScanInv, ScanTypes
<1>6. \A p \in Catalog : p > a <=> p \in S
  OBVIOUS
<1> HIDE DEF batch, S
<1>7. ScanTypes'
  <2>1. walk' \in [kind : {"starter", "picker", "list"}, state : {"running", "done", "failed"},
               after : Nat, pages : Nat, taken : [RoutineSteps -> SUBSET Catalog],
               found : SUBSET Catalog, exhausted : BOOLEAN]
    <3> DEFINE st == IF b >= CatalogSize THEN "done" ELSE "running"
               fo == walk.found \cup {p \in batch : catalog[p] # Gone}
    <3>1. st \in {"running", "done", "failed"} /\ fo \in SUBSET Catalog
      BY <1>4, <1>5
    <3>2. walk' = [walk EXCEPT !.found = fo, !.after = b, !.state = st]
      BY <1>1
    <3> HIDE DEF st, fo
    <3> QED BY <1>5, <3>1, <3>2 DEF ScanInv, ScanTypes
  <2> QED BY <1>1, <2>1 DEF ScanInv, ScanTypes
<1>8. \A p \in steady : p <= b => (p \in walk'.found <=> catalog[p] # Gone)
  <2> SUFFICES ASSUME NEW p \in steady, p <= b PROVE p \in walk'.found <=> catalog[p] # Gone
    OBVIOUS
  <2>1. p \in Catalog /\ p \in Nat
    BY <1>2, <1>5 DEF Catalog
  <2>2. CASE p <= a
    <3>1. p \notin batch
      BY <1>2, <1>4, <1>6, <2>1, <2>2
    <3> QED BY <1>1, <1>5, <2>2, <3>1 DEF ScanInv, ListRight
  <2>3. CASE p > a
    <3>1. p \in batch /\ p \notin walk.found
      BY <1>1, <1>2, <1>3, <1>6, <2>1, <2>3 DEF ScanInv, ListRight
    <3> QED BY <1>5, <3>1
  <2> QED BY <1>2, <2>1, <2>2, <2>3
<1>9. \A p \in walk'.found : p <= b
  <2> SUFFICES ASSUME NEW p \in walk'.found PROVE p <= b
    OBVIOUS
  <2>1. CASE p \in walk.found
    <3>1. p <= a /\ p \in Nat
      BY <1>1, <1>2, <1>5, <2>1 DEF ScanInv, ListRight, Catalog
    <3> QED BY <1>2, <3>1
  <2>2. CASE p \in batch
    BY <1>3, <1>4, <2>2
  <2> QED BY <1>5, <2>1, <2>2
<1>10. ListRight'
  BY <1>1, <1>5, <1>8, <1>9 DEF ListRight
<1> QED BY <1>5, <1>7, <1>10 DEF ScanInv, WalkRight

\* What a step has once a page, up to m, is added to T.
Kept(T, s, m) ==
  T \cup Lowest({q \in CatalogPage : q <= m /\ catalog[q] = s}, Quota - Cardinality(T))

\* A steady product of the step that is not kept: the step is full before it, or the
\* visitor stopped before it, or it is on a later page.
PageRight(T, s, m) ==
  /\ Kept(T, s, m) \in SUBSET Catalog /\ Kept(T, s, m) \subseteq T \cup CatalogPage
  /\ \A p \in steady : catalog[p] = s /\ p \notin Kept(T, s, m) =>
       \/ Cardinality(Kept(T, s, m)) >= Quota /\ \A q \in Kept(T, s, m) : q < p
       \/ p \in CatalogPage /\ p > m /\ \A q \in Kept(T, s, m) : q < p
       \/ p \in ActiveAfter(walk.after) \ CatalogPage /\ \A q \in Kept(T, s, m) : q < p

LEMMA PageKeeps ==
  ASSUME ScanTypes, NEW s \in RoutineSteps, NEW T \in SUBSET Catalog, NEW m \in Nat,
         \A q \in T : q <= walk.after, Keeps(T, s, walk.after)
  PROVE  PageRight(T, s, m)
<1> DEFINE A == ActiveAfter(walk.after)
           C == CatalogPage
           N == {q \in C : q <= m /\ catalog[q] = s}
           k == Quota - Cardinality(T)
           L == Lowest(N, k)
           U == T \cup L
           a == walk.after
<1>1. /\ PageSize \in Nat /\ Quota \in Nat /\ a \in Nat /\ steady \in SUBSET Catalog
      /\ A \in SUBSET Catalog /\ \A q \in A : q > a
  BY ScanAssumption DEF ScanTypes, Quota, ActiveAfter
<1>2. C \in SUBSET A /\ \A p \in A \ C, q \in C : q < p
  <2>1. A \in SUBSET Nat /\ IsFiniteSet(A) /\ PageSize \in Int
    BY <1>1, CatalogIsFinite
  <2> HIDE DEF A
  <2>2. LET M == Lowest(A, PageSize) IN M \in SUBSET A /\ \A p \in A \ M, q \in M : q < p
    BY <2>1, LowestAreFirst
  <2> QED BY <2>2 DEF A, CatalogPage
<1>3. /\ IsFiniteSet(T) /\ Cardinality(T) \in Nat /\ k \in Int
      /\ N \in SUBSET Nat /\ IsFiniteSet(N)
  <2>1. N \in SUBSET Catalog
    BY <1>1, <1>2
  <2>2. IsFiniteSet(T) /\ Cardinality(T) \in Nat
    BY CatalogIsFinite
  <2>3. N \in SUBSET Nat /\ IsFiniteSet(N)
    <3> HIDE DEF N
    <3> QED BY <2>1, CatalogIsFinite
  <2> QED BY <1>1, <2>2, <2>3
<1>4. N \subseteq C /\ \A q \in C : q \in N <=> q <= m /\ catalog[q] = s
  OBVIOUS
<1>5. \A p \in steady : catalog[p] = s /\ p > a => p \in A
  BY <1>1 DEF ActiveAfter
<1> HIDE DEF A, C, N, k
<1>6. /\ L \in SUBSET N /\ IsFiniteSet(L) /\ Cardinality(L) \in Nat
      /\ \A p \in N \ L, q \in L : q < p
      /\ N # L => Cardinality(L) >= k
      /\ k <= 0 => L = {}
  BY <1>3, LowestAreFirst
<1> HIDE DEF L
<1>7. \A q \in Catalog : q \in Nat
  BY CatalogIsFinite
<1>8. T \cap L = {}
  <2> SUFFICES ASSUME NEW q \in T, q \in L PROVE FALSE
    OBVIOUS
  <2>1. q <= a /\ q > a /\ q \in Nat
    BY <1>1, <1>2, <1>4, <1>6, <1>7
  <2> QED BY <1>1, <2>1
<1>9. Cardinality(U) = Cardinality(T) + Cardinality(L)
  <2>1. Cardinality(T \cup L) = Cardinality(T) + Cardinality(L) - Cardinality(T \cap L)
    BY <1>3, <1>6, FS_Union
  <2>2. Cardinality(T \cap L) = 0
    BY <1>8, FS_EmptySet
  <2> QED BY <1>3, <1>6, <2>1, <2>2
<1>10. U \in SUBSET Catalog /\ U \subseteq T \cup C
  BY <1>1, <1>2, <1>4, <1>6
<1>11. ASSUME NEW p \in steady, catalog[p] = s, p \notin U
       PROVE  \/ Cardinality(U) >= Quota /\ \A q \in U : q < p
              \/ p \in C /\ p > m /\ \A q \in U : q < p
              \/ p \in A \ C /\ \A q \in U : q < p
  <2>1. p \in Nat /\ p \notin T /\ p \notin L
    BY <1>1, <1>7, <1>11
  <2>2. CASE p <= a
    <3>1. Cardinality(T) >= Quota /\ \A q \in T : q < p
      BY <1>11, <2>1, <2>2 DEF Keeps
    <3>2. k <= 0
      BY <1>1, <1>3, <3>1 DEF k
    <3>3. U = T
      BY <1>6, <3>2
    <3> QED BY <3>1, <3>3
  <2>3. CASE p > a
    <3>1. p \in A /\ \A q \in T : q < p
      <4>1. \A q \in T : q \in Nat /\ q <= a
        BY <1>7
      <4> QED BY <1>1, <1>5, <1>11, <2>1, <2>3, <4>1
    <3>2. CASE p \in C /\ p <= m
      <4>1. p \in N \ L
        BY <1>4, <1>11, <2>1, <3>2
      <4>2. Cardinality(L) >= k /\ \A q \in L : q < p
        BY <1>6, <4>1
      <4>3. Cardinality(U) >= Quota
        BY <1>1, <1>3, <1>6, <1>9, <4>2 DEF k
      <4> QED BY <3>1, <4>2, <4>3
    <3>3. CASE p \in C /\ p > m
      <4>1. \A q \in L : q \in Nat /\ q <= m
        BY <1>1, <1>2, <1>4, <1>6, <1>7
      <4>2. \A q \in L : q < p
        BY <2>1, <3>3, <4>1
      <4> QED BY <3>1, <3>3, <4>2
    <3>4. CASE p \notin C
      BY <1>2, <1>4, <1>6, <3>1, <3>4
    <3> QED BY <2>1, <3>2, <3>3, <3>4
  <2> QED BY <1>1, <2>1, <2>2, <2>3
<1>12. Kept(T, s, m) = U
  BY DEF Kept, L, k, N, C
<1> HIDE DEF U
<1> QED BY <1>10, <1>11, <1>12 DEF PageRight, C, A

LEMMA ReadPageKeeps ==
  ASSUME ScanInv, ReadPage
  PROVE  ScanInv'
<1> DEFINE a == walk.after
           A == ActiveAfter(walk.after)
           C == CatalogPage
           m == IF StopsAt = {} THEN CatalogSize ELSE Min(StopsAt)
           b == IF C = {} THEN walk.after ELSE Max(C)
           U == TakenUpTo(m)
           stops == StopsAt # {} \/ ~HasNextPage \/ walk.pages + 1 = MaxPages
           st == IF stops THEN "done" ELSE "running"
           ex == ~HasNextPage
<1>1. /\ walk.kind # "list" /\ walk.state = "running" /\ UNCHANGED <<catalog, steady>>
      /\ walk' = [walk EXCEPT !.taken = U, !.state = st, !.exhausted = ex, !.after = b, !.pages = @ + 1]
  BY DEF ReadPage, Exhausted
<1>2. /\ ScanTypes /\ CatalogSize \in Nat /\ a \in Nat /\ Quota \in Nat /\ walk.pages \in Nat
      /\ A \in SUBSET Catalog /\ \A q \in A : q > a
  BY ScanAssumption DEF ScanInv, ScanTypes, Quota, ActiveAfter
<1>3. C \in SUBSET A
  BY DEF CatalogPage, Lowest
<1>4. StopsAt \in SUBSET C
  BY DEF StopsAt
<1>5. m \in Nat /\ (StopsAt # {} => m \in StopsAt) /\ (StopsAt = {} => m = CatalogSize)
  <2>1. StopsAt \in SUBSET Nat
    BY <1>2, <1>3, <1>4, CatalogIsFinite
  <2>2. StopsAt # {} => Min(StopsAt) \in StopsAt
    BY <2>1, LeastOf
  <2> QED BY <1>2, <2>1, <2>2
<1>6. b \in Nat /\ a <= b /\ \A q \in C : q <= b
  <2>1. C \in SUBSET (0..CatalogSize) /\ C \in SUBSET Nat
    BY <1>2, <1>3, CatalogIsFinite
  <2> HIDE DEF C
  <2>2. CASE C = {}
    BY <1>2, <2>2
  <2>3. CASE C # {}
    <3>1. Max(C) \in C /\ \A y \in C : y <= Max(C)
      BY <1>2, <2>1, <2>3, GreatestOf
    <3>2. Max(C) \in Nat /\ Max(C) > a
      BY <1>2, <1>3, <2>1, <3>1
    <3> QED BY <1>2, <2>3, <3>1, <3>2
  <2> QED BY <2>2, <2>3
<1>7. ex <=> C = A
  BY DEF HasNextPage
<1>8. StopsAt # {} => \A s \in RoutineSteps : Cardinality(U[s]) >= Quota
  BY <1>5 DEF StopsAt, EveryStepFull
<1>9. StopsAt # {} \/ ex => st = "done"
  OBVIOUS
<1>10. \A s \in RoutineSteps : U[s] = Kept(walk.taken[s], s, m)
  <2> HIDE DEF m
  <2> QED BY DEF TakenUpTo, Kept
<1>11. DOMAIN U = RoutineSteps /\ U = [s \in RoutineSteps |-> U[s]]
  <2> HIDE DEF m
  <2> QED BY DEF TakenUpTo
<1>12. st \in {"done", "running"} /\ ex \in BOOLEAN
  OBVIOUS
<1> HIDE DEF A, C, m, b, U, st, ex, stops
<1>13. ASSUME NEW s \in RoutineSteps
       PROVE  /\ U[s] \in SUBSET Catalog /\ U[s] \subseteq walk.taken[s] \cup C
              /\ \A q \in walk.taken[s] : q \in Nat /\ q <= a
              /\ \A p \in steady : catalog[p] = s /\ p \notin U[s] =>
                   \/ Cardinality(U[s]) >= Quota /\ \A q \in U[s] : q < p
                   \/ p \in C /\ p > m /\ \A q \in U[s] : q < p
                   \/ p \in A \ C /\ \A q \in U[s] : q < p
  <2> DEFINE T == walk.taken[s]
  <2>1. T \in SUBSET Catalog
    BY <1>2 DEF ScanTypes
  <2>2. (\A q \in T : q <= walk.after) /\ Keeps(T, s, walk.after)
    BY <1>1 DEF ScanInv, WalkRight
  <2>3. U[s] = Kept(T, s, m)
    BY <1>10
  <2>4. \A q \in T : q \in Nat
    BY <2>1, CatalogIsFinite
  <2> HIDE DEF T
  <2>5. PageRight(T, s, m)
    BY <1>2, <1>5, <2>1, <2>2, PageKeeps
  <2> QED BY <2>2, <2>3, <2>4, <2>5 DEF T, PageRight, C, A
<1>14. U \in [RoutineSteps -> SUBSET Catalog]
  BY <1>11, <1>13
<1>15. /\ walk'.taken = U /\ walk'.state = st /\ walk'.exhausted = ex /\ walk'.after = b
       /\ walk'.kind = walk.kind
       /\ walk' \in [kind : {"starter", "picker", "list"}, state : {"running", "done", "failed"},
               after : Nat, pages : Nat, taken : [RoutineSteps -> SUBSET Catalog],
               found : SUBSET Catalog, exhausted : BOOLEAN]
  <2>1. walk \in [kind : {"starter", "picker", "list"}, state : {"running", "done", "failed"},
               after : Nat, pages : Nat, taken : [RoutineSteps -> SUBSET Catalog],
               found : SUBSET Catalog, exhausted : BOOLEAN]
    BY <1>2 DEF ScanTypes
  <2>2. walk.pages + 1 \in Nat /\ b \in Nat
    BY <1>2, <1>6
  <2> QED BY ONLY <1>1, <1>12, <1>14, <2>1, <2>2
<1>16. ScanTypes' /\ ListRight'
  BY <1>1, <1>15 DEF ScanInv, ScanTypes, ListRight
<1>17. Quota' = Quota
  BY <1>15 DEF Quota
<1>18. st = "running" => \A s \in RoutineSteps :
         (\A q \in U[s] : q <= b) /\ Keeps(U[s], s, b)
  <2> SUFFICES ASSUME st = "running", NEW s \in RoutineSteps
               PROVE  (\A q \in U[s] : q <= b) /\ Keeps(U[s], s, b)
    OBVIOUS
  <2>1. \A q \in U[s] : q <= b
    BY <1>2, <1>6, <1>13
  <2>2. ASSUME NEW p \in steady, p <= b, catalog[p] = s, p \notin U[s]
        PROVE  Cardinality(U[s]) >= Quota /\ \A q \in U[s] : q < p
    <3>1. p \in Nat /\ p <= CatalogSize
      BY <1>2 DEF ScanTypes, Catalog
    <3>2. ~(p \in C /\ p > m)
      BY <1>2, <1>5, <1>9, <3>1
    <3>3. p \notin A \ C
      <4> SUFFICES ASSUME p \in A \ C PROVE FALSE
        OBVIOUS
      <4>1. p > b
        <5>1. A \in SUBSET Nat /\ IsFiniteSet(A) /\ PageSize \in Int
          BY <1>2, ScanAssumption, CatalogIsFinite
        <5>2. \A q \in C : q < p
          <6>1. LET M == Lowest(A, PageSize) IN \A x \in A \ M, q \in M : q < x
            BY <5>1, LowestAreFirst
          <6> QED BY <6>1 DEF C, A, CatalogPage
        <5>3. C = {} => b = a
          BY DEF b
        <5>4. C # {} => b \in C
          <6>1. C \in SUBSET (0..CatalogSize)
            BY <1>2, <1>3, CatalogIsFinite
          <6>2. C # {} => Max(C) \in C
            BY <1>2, <6>1, GreatestOf
          <6> QED BY <6>2 DEF b
        <5> QED BY <1>2, <5>2, <5>3, <5>4
      <4> QED BY <1>6, <2>2, <3>1, <4>1
    <3> QED BY <1>13, <2>2, <3>2, <3>3
  <2> QED BY <2>1, <2>2 DEF Keeps
<1>19. \A s \in RoutineSteps, p \in steady : catalog[p] = s /\ p \notin U[s] =>
         /\ ex => Cardinality(U[s]) >= Quota
         /\ \A q \in U[s] : q < p
  <2> SUFFICES ASSUME NEW s \in RoutineSteps, NEW p \in steady, catalog[p] = s, p \notin U[s]
               PROVE  (ex => Cardinality(U[s]) >= Quota) /\ \A q \in U[s] : q < p
    OBVIOUS
  <2>1. p \in Nat /\ p <= CatalogSize
    BY <1>2 DEF ScanTypes, Catalog
  <2>2. CASE p \in C /\ p > m /\ \A q \in U[s] : q < p
    <3>1. StopsAt # {}
      BY <1>2, <1>5, <2>1, <2>2
    <3> QED BY <1>8, <2>2, <3>1
  <2>3. CASE p \in A \ C /\ \A q \in U[s] : q < p
    BY <1>7, <2>3
  <2> QED BY <1>13, <2>2, <2>3
<1>20. WalkRight'
  <2>1. walk'.state = "running" => \A s \in RoutineSteps :
          (\A q \in walk'.taken[s] : q <= walk'.after) /\ Keeps(walk.taken[s], s, walk.after)'
    BY <1>1, <1>15, <1>17, <1>18 DEF Keeps
  <2>2. ScanTellsTruth'
    BY <1>1, <1>15, <1>17, <1>19 DEF ScanTellsTruth
  <2> QED BY <2>1, <2>2 DEF WalkRight
<1> QED BY <1>16, <1>20 DEF ScanInv

\* What the answer of a walk says of products that nobody touched meanwhile is true,
\* for any catalog, page size, page cap, quota and batch.
THEOREM WalksTellTheTruth == ScanSpec => []ScanTellsTruth
<1>1. ScanInit => ScanInv
  <2> SUFFICES ASSUME ScanInit PROVE ScanInv
    OBVIOUS
  <2>1. PICK kind \in {"starter", "picker", "list"} :
          walk = [kind |-> kind, state |-> "running", after |-> 0, pages |-> 0,
                  taken |-> NothingTaken, found |-> {}, exhausted |-> FALSE]
    BY DEF ScanInit
  <2>2. /\ walk.kind = kind /\ walk.state = "running" /\ walk.after = 0 /\ walk.pages = 0
        /\ walk.taken = NothingTaken /\ walk.found = {} /\ walk.exhausted = FALSE
    BY <2>1
  <2>3. catalog \in [Catalog -> Shown \cup {Gone}] /\ steady = Catalog
    BY DEF ScanInit
  <2>4. ScanTypes
    BY <2>1, <2>3 DEF ScanTypes, NothingTaken
  <2>5. \A p \in Catalog : ~(p <= 0)
    BY DEF Catalog
  <2>6. WalkRight /\ ListRight
    BY <2>2, <2>3, <2>5 DEF WalkRight, ListRight, Keeps, NothingTaken
  <2> QED BY <2>4, <2>6 DEF ScanInv
<1>2. ScanInv => ScanTellsTruth
  <2> SUFFICES ASSUME ScanInv PROVE ScanTellsTruth
    OBVIOUS
  <2>1. CASE walk.kind = "list"
    <3> SUFFICES ASSUME walk.state = "done", NEW p \in steady
                 PROVE  p \in walk.found <=> catalog[p] # Gone
      BY <2>1 DEF ScanTellsTruth
    <3>1. p \in Nat /\ p <= CatalogSize /\ CatalogSize \in Nat
      BY ScanAssumption DEF ScanInv, ScanTypes, Catalog
    <3>2. walk.after >= CatalogSize /\ walk.after \in Nat
      BY <2>1 DEF ScanInv, ScanTypes, ListRight
    <3>3. p <= walk.after
      BY <3>1, <3>2
    <3> QED BY <2>1, <3>3 DEF ScanInv, ListRight
  <2>2. CASE walk.kind # "list"
    <3>1. walk.state = "done" => ScanTellsTruth
      BY <2>2 DEF ScanInv, WalkRight
    <3> QED BY <3>1 DEF ScanTellsTruth
  <2> QED BY <2>1, <2>2
<1>3. ScanInv /\ [ScanNext]_scanVars => ScanInv'
  <2> SUFFICES ASSUME ScanInv, [ScanNext]_scanVars PROVE ScanInv'
    OBVIOUS
  <2>1. CASE UNCHANGED scanVars
    BY <2>1 DEF scanVars, ScanInv, ScanTypes, WalkRight, ListRight, Keeps, Quota, ScanTellsTruth
  <2>2. CASE ScanFails
    <3>1. /\ walk' = [walk EXCEPT !.state = "failed"] /\ UNCHANGED <<catalog, steady>>
      BY <2>2 DEF ScanFails
    <3>2. ScanTypes' /\ walk'.state = "failed"
      BY <3>1 DEF ScanInv, ScanTypes
    <3> QED BY <3>2 DEF ScanInv, WalkRight, ListRight
  <2> QED BY <2>1, <2>2, ReadPageKeeps, LookUpKeeps, EditKeeps DEF ScanNext
<1> QED BY <1>1, <1>2, <1>3, PTL DEF ScanSpec
=============================================================================
