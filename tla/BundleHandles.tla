--------------------------- MODULE BundleHandles ----------------------------
(***************************************************************************)
(* How routine sets get the handles the storefront links them by: requests *)
(* that create sets at the same time read which numbers are in use, then   *)
(* insert at the first free one; the unique index on (shop, handle) is the *)
(* judge.  Bundles of other shops have their own numbers.                  *)
(***************************************************************************)
EXTENDS Naturals, FiniteSets, FiniteSetsExt

CONSTANTS
  Creators,        \* requests that each create one set
  MaxEarlier,      \* bound: sets created before them
  MaxHandleTries,  \* insertBundleWithUniqueHandle's bound
  NoCreator

ASSUME HandlesAssumption ==
  /\ IsFiniteSet(Creators)
  /\ MaxEarlier \in Nat /\ MaxHandleTries \in Nat \ {0}
  /\ NoCreator \notin Creators

VARIABLES
  holder,   \* by ordinal: the request whose set has that handle; Earlier: of those sets
            \* that were created before, some were deleted since
  tried,    \* by request: the ordinal it tries next
  base,     \* by request: the ordinal it tries first
  phase,    \* by request: idle, insert, created, gave up, failed
  landed    \* history, by request: sets that others inserted since it read

handleVars == <<holder, tried, base, phase, landed>>

\* A request inserts at most one set, and a handle is at most one above those
\* in use.
Ordinals == 1..(MaxEarlier + Cardinality(Creators))

Earlier == "earlier"
Taken == {n \in Ordinals : holder[n] # NoCreator}

HandlesInit ==
  /\ \E left \in SUBSET (1..MaxEarlier) :
       holder = [n \in Ordinals |-> IF n \in left THEN Earlier ELSE NoCreator]
  /\ tried = [r \in Creators |-> 1] /\ base = [r \in Creators |-> 1]
  /\ phase = [r \in Creators |-> "idle"]
  /\ landed = [r \in Creators |-> 0]

\* Mutation: the number of sets, as it once was.
MutNextHandleOrdinal == Cardinality(Taken) + 1

nextHandleOrdinal == Max(Taken \cup {0}) + 1

\* The handles are read once.
ReadHandles(r) ==
  /\ phase[r] = "idle"
  /\ phase' = [phase EXCEPT ![r] = "insert"]
  /\ tried' = [tried EXCEPT ![r] = nextHandleOrdinal]
  /\ base' = [base EXCEPT ![r] = nextHandleOrdinal]
  /\ UNCHANGED <<holder, landed>>

Waiting(r) == phase[r] = "insert"

InsertHandle(r) ==
  /\ Waiting(r) /\ tried[r] \notin Taken
  /\ holder' = [holder EXCEPT ![tried[r]] = r]
  /\ phase' = [phase EXCEPT ![r] = "created"]
  /\ landed' = [q \in Creators |->
                  IF Waiting(q) /\ q # r THEN landed[q] + 1 ELSE landed[q]]
  /\ UNCHANGED <<tried, base>>

\* P2002: the next candidate, up to MaxHandleTries of them.
Collide(r) ==
  /\ Waiting(r) /\ tried[r] \in Taken
  /\ IF tried[r] + 1 - base[r] >= MaxHandleTries
     THEN phase' = [phase EXCEPT ![r] = "gave up"] /\ UNCHANGED tried
     ELSE tried' = [tried EXCEPT ![r] = @ + 1] /\ UNCHANGED phase
  /\ UNCHANGED <<holder, base, landed>>

\* Any other error of the database is the request's.
FailInsert(r) ==
  /\ Waiting(r)
  /\ phase' = [phase EXCEPT ![r] = "failed"]
  /\ UNCHANGED <<holder, tried, base, landed>>

deleteBundle(n) ==
  /\ n \in Taken
  /\ holder' = [holder EXCEPT ![n] = NoCreator]
  /\ UNCHANGED <<tried, base, phase, landed>>

HandlesNext ==
  \/ \E r \in Creators : ReadHandles(r) \/ InsertHandle(r) \/ Collide(r) \/ FailInsert(r)
  \/ \E n \in Ordinals : deleteBundle(n)
HandlesSpec == HandlesInit /\ [][HandlesNext]_handleVars

-----------------------------------------------------------------------------
\* A merchant who has the app to herself is never told that there is no free
\* handle, whatever was created and deleted before: giving up takes as many
\* sets inserted by others, since the handles were read, as attempts were made.
GivesUpOnlyIfOvertaken ==
  \A r \in Creators : phase[r] = "gave up" => landed[r] >= MaxHandleTries
=============================================================================
