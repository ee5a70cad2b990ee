------------------------------ MODULE Bundles -------------------------------
(***************************************************************************)
(* Routine sets: what merchants do to them in the app, what they do to the *)
(* products in Shopify, and the products/update job that demotes a set a   *)
(* product no longer fits.  Every request and every job reads the catalog  *)
(* and the table at one moment and writes at another.                      *)
(***************************************************************************)
CONSTANTS
  Ids,       \* ids of the Bundle rows that may ever exist
  Products,
  Steps,     \* ROUTINE_STEPS
  Editors,   \* requests of the app's screens
  Workers,
  None,      \* no value: no step on a product, no field in an update
  Deleted    \* of a product that Shopify no longer has

ASSUME BundlesAssumption == None \notin Steps /\ Deleted \notin Steps \cup {None}

VARIABLES
  bundle,   \* the Bundle table with its items
  serves,   \* Shopify: the step an active product is for; None for a product
            \* that is archived, a draft or has no step; or Deleted
  edit,     \* what each request is doing: a set of at most one
  notices,  \* products with a products/update delivery or job not yet begun
  check,    \* the products/update handler each worker runs: at most one
  blind,    \* history: requests whose premises changed after they read them
  raced     \* history: bundles last made active by such a request

vars == <<bundle, serves, edit, notices, check, blind, raced>>

\* One product per step, no product twice.
Sets == {f \in [Steps -> Products] : \A s, t \in Steps : f[s] = f[t] => s = t}

\* What is said of DRAFT holds of ARCHIVED: neither is offered, neither is checked.
Stored == {b \in Ids : bundle[b].status \in {"DRAFT", "ACTIVE"}}
Active == {b \in Ids : bundle[b].status = "ACTIVE"}

\* What assertActivatable and the products/update job both ask of a product.
Fits(p, s) == serves[p] = s

Offerable(items) == \A s \in Steps : Fits(items[s], s)

Init ==
  /\ bundle = [b \in Ids |-> [status |-> "none", items |-> None]]
  /\ serves \in [Products -> Steps]
  /\ edit = [e \in Editors |-> {}]
  /\ notices = {}
  /\ check = [w \in Workers |-> {}]
  /\ blind = {} /\ raced = {}

-----------------------------------------------------------------------------
(* Shopify.                                                                *)

\* Requests that read a product before it changed, or a bundle before it was
\* written, decide on what is no longer so.
Holding(p) == {e \in Editors : \E x \in edit[e] :
                 x.step = "write" /\ \E s \in Steps : x.items[s] = p}
Writing(b) == {e \in Editors : \E x \in edit[e] : x.id = b}

\* The step, the status or the metafield of a product: products/update.
ChangeProduct(p, s) ==
  /\ serves[p] \notin {s, Deleted}
  /\ serves' = [serves EXCEPT ![p] = s]
  /\ notices' = notices \cup {p}
  /\ blind' = blind \cup Holding(p)
  /\ UNCHANGED <<bundle, edit, check, raced>>

\* products/delete is not subscribed to.
DeleteProduct(p) ==
  /\ serves[p] # Deleted
  /\ serves' = [serves EXCEPT ![p] = Deleted]
  /\ blind' = blind \cup Holding(p)
  /\ UNCHANGED <<bundle, edit, notices, check, raced>>

-----------------------------------------------------------------------------
(* The screens.                                                            *)

\* createStarterBundle: a product that fits each step, as the catalog was
\* scanned; the set starts as a draft.
CreateBundle(b, items) ==
  /\ bundle[b].status = "none"
  /\ Offerable(items)
  /\ bundle' = [bundle EXCEPT ![b] = [status |-> "DRAFT", items |-> items]]
  /\ UNCHANGED <<serves, edit, notices, check, blind, raced>>

\* deleteBundle
DeleteBundle(b) ==
  /\ b \in Stored
  /\ bundle' = [bundle EXCEPT ![b].status = "deleted"]
  /\ raced' = raced \ {b}
  /\ UNCHANGED <<serves, edit, notices, check, blind>>

\* The status the bundle will have.
Target(b, status) == IF status = None THEN bundle[b].status ELSE status

\* updateBundle reads the row.  newItems and status are the fields sent
\* (an update of the title alone leaves this state as it is).
ReadBundle(e, b, newItems, status) ==
  /\ edit[e] = {} /\ b \in Stored
  /\ newItems # None \/ status # None
  /\ edit' = [edit EXCEPT ![e] =
       {[id |-> b, newItems |-> newItems, newStatus |-> status,
         items |-> IF newItems = None THEN bundle[b].items ELSE newItems,
         status |-> Target(b, status), step |-> "fetch"]}]
  /\ UNCHANGED <<bundle, serves, notices, check, blind, raced>>

Ended(e) == edit' = [edit EXCEPT ![e] = {}] /\ blind' = blind \ {e}

\* fetchProducts, and the checks that activation needs.
FetchProducts(e, x) ==
  /\ x \in edit[e] /\ x.step = "fetch"
  /\ IF x.status = "ACTIVE" /\ ~Offerable(x.items)
     THEN Ended(e)
     ELSE /\ edit' = [edit EXCEPT ![e] = {[x EXCEPT !.step = "write"]}]
          /\ UNCHANGED blind
  /\ UNCHANGED <<bundle, serves, notices, check, raced>>

\* The row x asks for, over whatever the row has become.
Updated(r, x) ==
  [status |-> IF x.newStatus = None THEN r.status ELSE x.newStatus,
   items |-> IF x.newItems = None THEN r.items ELSE x.newItems]

\* The transaction.  It fails on a bundle deleted meanwhile.
WriteBundle(e, x) ==
  /\ x \in edit[e] /\ x.step = "write"
  /\ edit' = [edit EXCEPT ![e] = {}]
  /\ IF x.id \in Stored
     THEN /\ bundle' = [bundle EXCEPT ![x.id] = Updated(@, x)]
          /\ raced' = IF e \in blind THEN raced \cup {x.id} ELSE raced \ {x.id}
          /\ blind' = (blind \cup Writing(x.id)) \ {e}
     ELSE UNCHANGED <<bundle, raced>> /\ blind' = blind \ {e}
  /\ UNCHANGED <<serves, notices, check>>

\* A request fails before it writes: the Admin API, the database, the client.
Abandon(e) ==
  /\ edit[e] # {}
  /\ Ended(e)
  /\ UNCHANGED <<bundle, serves, notices, check, raced>>

-----------------------------------------------------------------------------
(* products/update.                                                        *)

Using(p) == {y \in Active \X Steps : bundle[y[1]].items[y[2]] = p}

\* Mutation: the job looks at sets that are not active.
MutAffected(p) == {y \in (Stored \ Active) \X Steps : bundle[y[1]].items[y[2]] = p}

Affected(p) == Using(p)

\* The job begins, and reads which active bundles use the product.
BeginCheck(w, p) ==
  /\ check[w] = {} /\ p \in notices
  /\ notices' = notices \ {p}
  /\ check' = [check EXCEPT ![w] = {[product |-> p, items |-> Affected(p), step |-> "look"]}]
  /\ UNCHANGED <<bundle, serves, edit, blind, raced>>

\* It asks Shopify what the product is now.
LookUp(w, x) ==
  /\ x \in check[w] /\ x.step = "look"
  /\ check' = [check EXCEPT ![w] =
       {[x EXCEPT !.step = "demote", !.items = {y \in @ : ~Fits(x.product, y[2])}]}]
  /\ UNCHANGED <<bundle, serves, edit, notices, blind, raced>>

\* The bundles that hold the items it found broken.
Broken(x) == {y[1] : y \in x.items}

Demote(w, x) ==
  /\ x \in check[w] /\ x.step = "demote"
  /\ bundle' = [b \in Ids |-> IF b \in Broken(x) \cap Active
                              THEN [bundle[b] EXCEPT !.status = "DRAFT"] ELSE bundle[b]]
  /\ raced' = raced \ Broken(x)
  /\ check' = [check EXCEPT ![w] = {}]
  /\ UNCHANGED <<serves, edit, notices, blind>>

\* The attempt fails; the queue runs the job again.
FailCheck(w) ==
  /\ check[w] # {}
  /\ check' = [check EXCEPT ![w] = {}]
  /\ notices' = notices \cup {x.product : x \in check[w]}
  /\ UNCHANGED <<bundle, serves, edit, blind, raced>>

HandleCheck(w) ==
  \/ \E p \in notices : BeginCheck(w, p)
  \/ \E x \in check[w] : LookUp(w, x) \/ Demote(w, x)

Next ==
  \/ \E p \in Products : DeleteProduct(p) \/ \E s \in Steps \cup {None} : ChangeProduct(p, s)
  \/ \E b \in Ids : DeleteBundle(b) \/ \E items \in Sets : CreateBundle(b, items)
  \/ \E e \in Editors :
       \/ Abandon(e)
       \/ \E b \in Ids, items \in Sets \cup {None},
             status \in {None, "DRAFT", "ACTIVE"} : ReadBundle(e, b, items, status)
       \/ \E x \in edit[e] : FetchProducts(e, x) \/ WriteBundle(e, x)
  \/ \E w \in Workers : HandleCheck(w) \/ FailCheck(w)

Spec == Init /\ [][Next]_vars

-----------------------------------------------------------------------------
\* Every products/update has been dealt with.
Settled == notices = {} /\ \A w \in Workers : check[w] = {}

\* The items of b that still exist fit their steps.
Honest(b) == \A s \in Steps : serves[bundle[b].items[s]] \in {s, Deleted}

\* One invariant, enforced at both ends: once every products/update is dealt
\* with, an active bundle holds only products that fit, unless the request
\* that last wrote it decided on what had changed since it looked.
HonestUnlessRaced == Settled => \A b \in Active \ raced : Honest(b)

\* The same without the exception.
OneInvariant == Settled => \A b \in Active : Honest(b)
=============================================================================
