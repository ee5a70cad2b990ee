---------------------------- MODULE CatalogScan -----------------------------
(***************************************************************************)
(* The walks over the catalog that a request of the app makes while the    *)
(* merchant goes on editing it (bundles.ts): for the first product of each *)
(* step (the starter set), for the products that the editor offers, and    *)
(* for the products that the listed sets refer to.  Products are numbers,  *)
(* in the order in which Shopify pages through them.                       *)
(***************************************************************************)
EXTENDS Naturals, FiniteSetsExt

CONSTANTS
  CatalogSize, StepCount,   \* products, and ROUTINE_STEPS as 1..StepCount
  PageSize, MaxPages,       \* CATALOG_PAGE_SIZE, MAX_CATALOG_PAGES
  LookupBatch,              \* PRODUCT_LOOKUP_BATCH
  PerStep,                  \* MAX_CANDIDATES_PER_STEP
  MaxEdits                  \* bound: products the merchant changes meanwhile

ASSUME ScanAssumption ==
  {CatalogSize, StepCount, PageSize, MaxPages, LookupBatch, PerStep} \subseteq Nat \ {0}

Catalog == 1..CatalogSize
RoutineSteps == 1..StepCount
Inactive == 0                   \* archived or a draft
Stepless == StepCount + 1       \* active, with no step or one the app does not know
Gone == StepCount + 2           \* deleted
Shown == RoutineSteps \cup {Inactive, Stepless}

VARIABLES
  catalog,   \* what each product is: its step, or one of the three above
  steady,    \* history: products that have not changed since the walk began
  walk       \* the request: its kind, where it stands, what it has gathered
scanVars == <<catalog, steady, walk>>

\* Products kept for each step, and those a listing found.
NothingTaken == [s \in RoutineSteps |-> {}]

ScanInit ==
  /\ catalog \in [Catalog -> Shown]
  /\ steady = Catalog
  /\ \E kind \in {"starter", "picker", "list"} :
       walk = [kind |-> kind, state |-> "running", after |-> 0, pages |-> 0,
               taken |-> NothingTaken, found |-> {}, exhausted |-> FALSE]

\* findFirstProductPerStep wants one product of each step.
Quota == IF walk.kind = "starter" THEN 1 ELSE PerStep

Lowest(S, n) == {x \in S : Cardinality({y \in S : y < x}) < n}
ActiveAfter(p) == {q \in Catalog : q > p /\ catalog[q] \in RoutineSteps \cup {Stepless}}
CatalogPage == Lowest(ActiveAfter(walk.after), PageSize)
HasNextPage == CatalogPage # ActiveAfter(walk.after)

\* What is kept once the visitor has seen the products of the page up to p.
TakenUpTo(p) ==
  [s \in RoutineSteps |->
     walk.taken[s] \cup Lowest({q \in CatalogPage : q <= p /\ catalog[q] = s},
                               Quota - Cardinality(walk.taken[s]))]
EveryStepFull(taken) == \A s \in RoutineSteps : Cardinality(taken[s]) >= Quota
StopsAt == {p \in CatalogPage : EveryStepFull(TakenUpTo(p))}

\* Mutation: running into the page cap passes for the end of the catalog.
MutExhausted == ~HasNextPage \/ walk.pages + 1 = MaxPages

\* Whether the page read is the last there is.
Exhausted == ~HasNextPage

\* scanActiveCatalog reads a page, and ends when the visitor says stop, when
\* there is no next page or after MAX_CATALOG_PAGES.
ReadPage ==
  /\ walk.kind # "list" /\ walk.state = "running"
  /\ walk' = [walk EXCEPT
       !.taken = TakenUpTo(IF StopsAt = {} THEN CatalogSize ELSE Min(StopsAt)),
       !.state = IF StopsAt # {} \/ ~HasNextPage \/ walk.pages + 1 = MaxPages
                 THEN "done" ELSE "running",
       !.exhausted = Exhausted,
       !.after = IF CatalogPage = {} THEN @ ELSE Max(CatalogPage),
       !.pages = @ + 1]
  /\ UNCHANGED <<catalog, steady>>

\* fetchProducts: the next batch of the ids that the listed sets refer to (here:
\* every product).  nodes(ids:) answers null for a product that is gone, and
\* toBundle then gives it no title.
LookUp ==
  /\ walk.kind = "list" /\ walk.state = "running"
  /\ LET batch == Lowest({p \in Catalog : p > walk.after}, LookupBatch) IN
       walk' = [walk EXCEPT
         !.found = @ \cup {p \in batch : catalog[p] # Gone},
         !.after = @ + LookupBatch,
         !.state = IF walk.after + LookupBatch >= CatalogSize THEN "done" ELSE "running"]
  /\ UNCHANGED <<catalog, steady>>

\* A page or a batch is refused: the request fails.
ScanFails ==
  /\ walk.state = "running"
  /\ walk' = [walk EXCEPT !.state = "failed"]
  /\ UNCHANGED <<catalog, steady>>

EditCatalog(p, kind) ==
  /\ walk.state = "running"
  /\ catalog[p] \notin {kind, Gone} /\ Cardinality(Catalog \ steady) < MaxEdits
  /\ catalog' = [catalog EXCEPT ![p] = kind]
  /\ steady' = steady \ {p}
  /\ UNCHANGED walk

ScanNext ==
  \/ ReadPage
  \/ LookUp
  \/ ScanFails
  \/ \E p \in Catalog, kind \in Shown \cup {Gone} : EditCatalog(p, kind)
ScanSpec == ScanInit /\ [][ScanNext]_scanVars

-----------------------------------------------------------------------------
\* What the answer says of products that nobody touched meanwhile is true.  "None
\* in the catalog" is said of a step only when it has none, and a step that the
\* picker did not fill lists all it has; what is kept for a step comes before all
\* that is not; a listed set shows a title for every product there is.
ScanTellsTruth ==
  walk.state = "done" =>
    IF walk.kind = "list"
    THEN \A p \in steady : p \in walk.found <=> catalog[p] # Gone
    ELSE \A s \in RoutineSteps, p \in steady :
           catalog[p] = s /\ p \notin walk.taken[s] =>
             /\ walk.exhausted => Cardinality(walk.taken[s]) >= Quota
             /\ \A q \in walk.taken[s] : q < p

\* "Whether the search reached the end of the catalog rather than its page cap
\* ... so the editor can say that its list is partial" (packages/shared/src/
\* bundle.ts): a picker that does not say so offers every product with a step.
PickerSaysPartial ==
  walk.state = "done" /\ walk.kind = "picker" /\ walk.exhausted =>
    \A p \in steady : catalog[p] \in RoutineSteps => p \in walk.taken[catalog[p]]
=============================================================================
