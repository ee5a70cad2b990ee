---------------------------- MODULE BundlesProofs ----------------------------
(***************************************************************************)
(* Proofs about Bundles for every set of bundles, products, steps,         *)
(* requests and workers: the one invariant of a routine set, enforced      *)
(* where it is made active and where a product changes.                    *)
(***************************************************************************)
EXTENDS Bundles, TLAPS

-----------------------------------------------------------------------------
(* Types.                                                                  *)

Status == {"none", "DRAFT", "ACTIVE", "deleted"}
Row    == [status : Status, items : Sets \cup {None}]
Edit   == [id : Ids, newItems : Sets \cup {None}, newStatus : {None, "DRAFT", "ACTIVE"},
           items : Sets, status : {"DRAFT", "ACTIVE"}, step : {"fetch", "write"}]
Check  == [product : Products, items : SUBSET (Ids \X Steps), step : {"look", "demote"}]

BundleTypes ==
  /\ bundle \in [Ids -> Row]
  /\ \A b \in Ids : bundle[b].status # "none" => bundle[b].items \in Sets
  /\ serves \in [Products -> Steps \cup {None, Deleted}]
  /\ edit \in [Editors -> SUBSET Edit]
  /\ \A e \in Editors : \A x, y \in edit[e] : x = y
  /\ notices \subseteq Products
  /\ check \in [Workers -> SUBSET Check]
  /\ \A w \in Workers : \A x, y \in check[w] : x = y

(* The inductive invariant.                                                *)

\* What a request decides on is still so, unless it is blind: the row holds
\* the items it read and is active only if the request knows it, and products
\* it found to fit still do.
Sighted(x) ==
  /\ bundle[x.id].status # "none"
  /\ x.items = IF x.newItems = None THEN bundle[x.id].items ELSE x.newItems
  /\ x.newStatus = None /\ bundle[x.id].status = "ACTIVE" => x.status = "ACTIVE"
  /\ x.newStatus # None => x.status = x.newStatus
  /\ x.step = "write" /\ x.status = "ACTIVE" => Offerable(x.items)

EditsRight ==
  /\ \A e \in Editors \ blind : \A x \in edit[e] : Sighted(x)
  /\ \A e \in Editors : \A x \in edit[e] : bundle[x.id].status # "none"

\* A job will find that this item of the bundle does not fit: one that is to
\* begin, or one under way that read the bundle when it held the product.
Found(b, s) ==
  LET p == bundle[b].items[s]
  IN  \/ p \in notices
      \/ \E w \in Workers : \E x \in check[w] : x.product = p /\ <<b, s>> \in x.items

ItemRight(b, s) == serves[bundle[b].items[s]] \in {s, Deleted} \/ Found(b, s)

BundlesRight == \A b \in Active \ raced : \A s \in Steps : ItemRight(b, s)

BundlesInv == BundleTypes /\ EditsRight /\ BundlesRight

-----------------------------------------------------------------------------
(* What a step has to show.                                                *)

\* A row that only becomes a draft or is deleted surprises no request.
LEMMA SightKept ==
  ASSUME NEW x, x.id \in Ids, Sighted(x), UNCHANGED serves,
         bundle'[x.id].items = bundle[x.id].items,
         bundle'[x.id].status \in {bundle[x.id].status, "DRAFT", "deleted"}
  PROVE  Sighted(x)'
BY DEF Sighted, Offerable, Fits

\* An item is found as long as nobody who found it goes without a word.
LEMMA ItemKept ==
  ASSUME NEW b \in Ids, NEW s \in Steps, ItemRight(b, s), UNCHANGED serves,
         bundle'[b].items = bundle[b].items,
         LET p == bundle[b].items[s]
         IN  Found(b, s) =>
               \/ p \in notices'
               \/ serves[p] \in {s, Deleted}
               \/ \E w \in Workers : \E x \in check'[w] : x.product = p /\ <<b, s>> \in x.items
  PROVE  ItemRight(b, s)'
BY DEF ItemRight, Found

\* The rows that stay active keep their items.
LEMMA ActiveItems ==
  ASSUME BundlesInv, NEW b \in Active, NEW s \in Steps
  PROVE  b \in Ids /\ bundle[b].items \in Sets /\ bundle[b].items[s] \in Products
<1>1. b \in Ids /\ bundle[b].items \in Sets
  BY DEF Active, BundlesInv, BundleTypes
<1> QED BY <1>1 DEF Sets

-----------------------------------------------------------------------------
(* Shopify.                                                                *)

LEMMA ProductKeeps ==
  ASSUME BundlesInv, NEW p \in Products,
         \/ DeleteProduct(p)
         \/ \E s \in Steps \cup {None} : ChangeProduct(p, s)
  PROVE  BundlesInv'
<1> USE DEF BundlesInv
<1>1. /\ UNCHANGED <<bundle, edit, check, raced>>
      /\ blind' = blind \cup Holding(p)
      /\ notices \subseteq notices' /\ notices' \subseteq Products
      /\ serves' \in [Products -> Steps \cup {None, Deleted}]
      /\ \A q \in Products : q # p => serves'[q] = serves[q]
      /\ p \in notices' \/ serves'[p] = Deleted
  BY DEF DeleteProduct, ChangeProduct, BundleTypes
<1>2. BundleTypes'
  BY <1>1 DEF BundleTypes
<1>3. EditsRight'
  <2> SUFFICES ASSUME NEW e \in Editors \ blind', NEW x \in edit[e]
               PROVE  Sighted(x)'
    BY <1>1 DEF EditsRight
  <2>1. Sighted(x) /\ e \notin Holding(p)
    BY <1>1 DEF EditsRight
  <2>2. x \in Edit
    BY DEF BundleTypes
  <2>3. CASE x.step = "write"
    <3>1. \A s \in Steps : x.items[s] \in Products /\ x.items[s] # p
      BY <2>1, <2>2, <2>3 DEF Holding, Edit, Sets
    <3>2. Offerable(x.items)' = Offerable(x.items)
      BY <1>1, <3>1 DEF Offerable, Fits
    <3> QED BY <1>1, <2>1, <3>2 DEF Sighted
  <2>4. CASE x.step # "write"
    BY <1>1, <2>1, <2>4 DEF Sighted
  <2> QED BY <2>3, <2>4
<1>4. BundlesRight'
  <2> SUFFICES ASSUME NEW b \in Active \ raced, NEW s \in Steps
               PROVE  ItemRight(b, s)'
    BY <1>1 DEF BundlesRight, Active
  <2> DEFINE q == bundle[b].items[s]
  <2>1. q \in Products /\ ItemRight(b, s)
    BY ActiveItems DEF BundlesRight
  <2>2. CASE q = p
    BY <1>1, <2>1, <2>2 DEF ItemRight, Found
  <2>3. CASE q # p
    BY <1>1, <2>1, <2>3 DEF ItemRight, Found
  <2> QED BY <2>2, <2>3
<1> QED BY <1>2, <1>3, <1>4

-----------------------------------------------------------------------------
(* The screens.                                                            *)

LEMMA RowKeeps ==
  ASSUME BundlesInv, NEW b \in Ids,
         DeleteBundle(b) \/ \E items \in Sets : CreateBundle(b, items)
  PROVE  BundlesInv'
<1> USE DEF BundlesInv
<1>1. /\ UNCHANGED <<serves, edit, notices, check, blind>>
      /\ bundle' \in [Ids -> Row]
      /\ \A c \in Ids : c # b => bundle'[c] = bundle[c]
      /\ bundle'[b].status \in {"DRAFT", "deleted"} /\ bundle'[b].items \in Sets
      /\ bundle[b].status # "none" =>
           bundle'[b].items = bundle[b].items /\ bundle'[b].status = "deleted"
      /\ raced \ {b} \subseteq raced'
  BY DEF DeleteBundle, CreateBundle, BundleTypes, Row, Stored, Status
<1>2. BundleTypes'
  BY <1>1 DEF BundleTypes
<1>3. \A e \in Editors : \A x \in edit[e] :
        /\ x.id \in Ids /\ bundle'[x.id].status # "none"
        /\ Sighted(x) => Sighted(x)'
  <2> SUFFICES ASSUME NEW e \in Editors, NEW x \in edit[e]
               PROVE  /\ x.id \in Ids /\ bundle'[x.id].status # "none"
                      /\ Sighted(x) => Sighted(x)'
    OBVIOUS
  <2>1. x.id \in Ids /\ bundle[x.id].status # "none"
    BY DEF EditsRight, BundleTypes, Edit
  <2> QED BY <1>1, <2>1, SightKept
<1>4. EditsRight'
  BY <1>1, <1>3 DEF EditsRight
<1>5. BundlesRight'
  <2> SUFFICES ASSUME NEW c \in Ids, bundle'[c].status = "ACTIVE", c \notin raced',
                      NEW s \in Steps
               PROVE  ItemRight(c, s)'
    BY DEF BundlesRight, Active
  <2>1. c # b /\ bundle'[c] = bundle[c] /\ c \in Active \ raced
    BY <1>1 DEF Active
  <2> QED BY <1>1, <2>1 DEF BundlesRight, ItemRight, Found
<1> QED BY <1>2, <1>4, <1>5

LEMMA RequestKeeps ==
  ASSUME BundlesInv, NEW e \in Editors,
         \/ Abandon(e)
         \/ \E b \in Ids, items \in Sets \cup {None},
               status \in {None, "DRAFT", "ACTIVE"} : ReadBundle(e, b, items, status)
         \/ \E x \in edit[e] : FetchProducts(e, x)
  PROVE  BundlesInv'
<1> USE DEF BundlesInv
<1>1. UNCHANGED <<bundle, serves, notices, check, raced>> /\ blind \ {e} \subseteq blind'
  BY DEF Abandon, ReadBundle, FetchProducts, Ended
<1>2. BundlesRight'
  BY <1>1 DEF BundlesRight, Active, ItemRight, Found
<1>3. PICK S \in SUBSET Edit :
        /\ edit' = [edit EXCEPT ![e] = S]
        /\ \A x, y \in S : x = y
        /\ \A x \in S : bundle[x.id].status # "none"
        /\ \A x \in S : e \notin blind' => Sighted(x)
  <2>1. CASE Abandon(e) \/ edit' = [edit EXCEPT ![e] = {}]
    BY <2>1 DEF Abandon, Ended
  <2>2. ASSUME NEW b \in Ids, NEW items \in Sets \cup {None},
               NEW status \in {None, "DRAFT", "ACTIVE"}, ReadBundle(e, b, items, status)
        PROVE  \E S \in SUBSET Edit :
                 /\ edit' = [edit EXCEPT ![e] = S]
                 /\ \A x, y \in S : x = y
                 /\ \A x \in S : bundle[x.id].status # "none"
                 /\ \A x \in S : e \notin blind' => Sighted(x)
    <3> DEFINE z == [id |-> b, newItems |-> items, newStatus |-> status,
                     items |-> IF items = None THEN bundle[b].items ELSE items,
                     status |-> Target(b, status), step |-> "fetch"]
    <3>1. edit' = [edit EXCEPT ![e] = {z}] /\ bundle[b].status \in {"DRAFT", "ACTIVE"}
      BY <2>2 DEF ReadBundle, Stored
    <3>2. z \in Edit
      BY <3>1, BundlesAssumption DEF Edit, Target, BundleTypes
    <3>3. Sighted(z) /\ bundle[z.id].status # "none"
      BY <3>1 DEF Sighted, Target
    <3> DEFINE S == {z}
    <3>4. /\ S \in SUBSET Edit /\ edit' = [edit EXCEPT ![e] = S] /\ \A x, y \in S : x = y
          /\ \A x \in S : Sighted(x) /\ bundle[x.id].status # "none"
      <4> HIDE DEF z
      <4> QED BY <3>1, <3>2, <3>3
    <3> HIDE DEF S
    <3> QED BY <3>4
  <2>3. ASSUME NEW x \in edit[e], FetchProducts(e, x), edit' # [edit EXCEPT ![e] = {}]
        PROVE  \E S \in SUBSET Edit :
                 /\ edit' = [edit EXCEPT ![e] = S]
                 /\ \A y, u \in S : y = u
                 /\ \A y \in S : bundle[y.id].status # "none"
                 /\ \A y \in S : e \notin blind' => Sighted(y)
    <3> DEFINE z == [x EXCEPT !.step = "write"]
    <3>1. /\ edit' = [edit EXCEPT ![e] = {z}] /\ blind' = blind
          /\ x.status = "ACTIVE" => Offerable(x.items)
      BY <2>3 DEF FetchProducts, Ended
    <3>2. /\ x \in Edit /\ z \in Edit /\ bundle[x.id].status # "none"
          /\ e \notin blind => Sighted(x)
      BY DEF BundleTypes, Edit, EditsRight
    <3>3. bundle[z.id].status # "none" /\ e \notin blind' => Sighted(z)
      BY <3>1, <3>2 DEF Sighted, Edit
    <3>4. bundle[z.id].status # "none"
      BY <3>2 DEF Edit
    <3> DEFINE S == {z}
    <3>5. /\ S \in SUBSET Edit /\ edit' = [edit EXCEPT ![e] = S] /\ \A y, u \in S : y = u
          /\ \A y \in S : bundle[y.id].status # "none" /\ (e \notin blind' => Sighted(y))
      <4> HIDE DEF z
      <4> QED BY <3>1, <3>2, <3>3, <3>4
    <3> HIDE DEF S
    <3> QED BY <3>5
  <2> QED BY <2>1, <2>2, <2>3
<1>4. edit'[e] = S /\ \A d \in Editors : d # e => edit'[d] = edit[d]
  BY <1>3 DEF BundleTypes
<1>5. BundleTypes'
  BY <1>1, <1>3, <1>4 DEF BundleTypes
<1>6. EditsRight'
  <2>1. \A x : Sighted(x)' = Sighted(x)
    BY <1>1 DEF Sighted, Offerable, Fits
  <2>2. \A d \in Editors : \A x \in edit'[d] : bundle'[x.id].status # "none"
    BY <1>1, <1>3, <1>4 DEF EditsRight
  <2>3. \A d \in Editors \ blind' : \A x \in edit'[d] : Sighted(x)
    BY <1>1, <1>3, <1>4 DEF EditsRight
  <2> QED BY <2>1, <2>2, <2>3 DEF EditsRight
<1> QED BY <1>2, <1>5, <1>6

\* What is written by a request that is not blind is offered whole, if it is
\* offered at all; every other request that holds the row is blind from then on.
LEMMA WriteKeeps ==
  ASSUME BundlesInv, NEW e \in Editors, NEW x \in edit[e], WriteBundle(e, x)
  PROVE  BundlesInv'
<1> USE DEF BundlesInv
<1> DEFINE b == x.id
<1>x. x \in Edit /\ b \in Ids /\ x.step = "write" /\ bundle[b].status # "none"
  BY DEF WriteBundle, BundleTypes, Edit, EditsRight
<1>1. /\ UNCHANGED <<serves, notices, check>>
      /\ edit' = [edit EXCEPT ![e] = {}]
      /\ \A c \in Ids : c # b => bundle'[c] = bundle[c]
      /\ \A c \in Ids : c # b => (c \in raced' <=> c \in raced)
      /\ bundle' \in [Ids -> Row]
      /\ bundle'[b].status # "none" /\ bundle'[b].items \in Sets
  <2>1. CASE b \in Stored
    <3>1. Updated(bundle[b], x) \in Row
      BY <1>x, <2>1 DEF Updated, Edit, BundleTypes, Row, Status, Stored
    <3>2. Updated(bundle[b], x).status # "none" /\ Updated(bundle[b], x).items \in Sets
      BY <1>x, <2>1, BundlesAssumption DEF Updated, Edit, BundleTypes, Row, Stored
    <3> QED BY <1>x, <2>1, <3>1, <3>2 DEF WriteBundle, BundleTypes
  <2>2. CASE b \notin Stored
    BY <1>x, <2>2 DEF WriteBundle, BundleTypes, Stored
  <2> QED BY <2>1, <2>2
<1>2. edit'[e] = {} /\ \A d \in Editors : d # e => edit'[d] = edit[d]
  BY <1>1 DEF BundleTypes
<1>3. BundleTypes'
  BY <1>1, <1>2 DEF BundleTypes
<1>4. EditsRight'
  <2> SUFFICES ASSUME NEW d \in Editors, NEW z \in edit'[d]
               PROVE  /\ bundle'[z.id].status # "none"
                      /\ d \notin blind' => Sighted(z)'
    BY DEF EditsRight
  <2>1. d # e /\ z \in edit[d] /\ z.id \in Ids /\ bundle[z.id].status # "none"
    BY <1>2 DEF EditsRight, BundleTypes, Edit
  <2>2. bundle'[z.id].status # "none"
    BY <1>1, <2>1
  <2>3. ASSUME d \notin blind' PROVE Sighted(z)'
    <3>1. d \notin blind /\ (b \in Stored => z.id # b)
      BY <2>1, <2>3 DEF WriteBundle, Writing
    <3>2. bundle'[z.id] = bundle[z.id]
      BY <1>1, <2>1, <3>1 DEF WriteBundle
    <3> QED BY <1>1, <2>1, <3>1, <3>2, SightKept DEF EditsRight
  <2> QED BY <2>2, <2>3
<1>5. BundlesRight'
  <2> SUFFICES ASSUME NEW c \in Ids, bundle'[c].status = "ACTIVE", c \notin raced',
                      NEW s \in Steps
               PROVE  ItemRight(c, s)'
    BY DEF BundlesRight, Active
  <2>1. CASE c # b \/ b \notin Stored
    <3>1. bundle'[c] = bundle[c] /\ c \in Active \ raced
      BY <1>1, <2>1 DEF Active, WriteBundle
    <3> QED BY <1>1, <3>1 DEF BundlesRight, ItemRight, Found
  <2>2. CASE c = b /\ b \in Stored
    <3>1. Sighted(x)
      BY <2>2 DEF WriteBundle, EditsRight
    <3>2. bundle'[b] = Updated(bundle[b], x)
      BY <1>x, <2>2 DEF WriteBundle, BundleTypes
    <3>3. bundle'[b].items = x.items /\ x.status = "ACTIVE"
      BY <2>2, <3>1, <3>2 DEF Updated, Sighted
    <3> QED BY <1>x, <1>1, <2>2, <3>1, <3>3 DEF Sighted, Offerable, Fits, ItemRight
  <2> QED BY <2>1, <2>2
<1> QED BY <1>3, <1>4, <1>5

-----------------------------------------------------------------------------
(* products/update.                                                        *)

\* Among these notices or checks there is one that finds p not to fit b at s.
Tell(N, C, b, s, p) == p \in N \/ \E x \in C : x.product = p /\ <<b, s>> \in x.items

\* The check of w becomes S: no row is written, and what was found is still.
CheckBecomes(w, S) ==
  /\ UNCHANGED <<bundle, serves, edit, blind, raced>> /\ notices' \subseteq Products
  /\ check' = [check EXCEPT ![w] = S]
  /\ S \subseteq Check /\ \A x, y \in S : x = y
  /\ \A b \in Active \ raced : \A s \in Steps :
       Tell(notices, check[w], b, s, bundle[b].items[s]) =>
          \/ Tell(notices', S, b, s, bundle[b].items[s])
          \/ serves[bundle[b].items[s]] \in {s, Deleted}

LEMMA LookKeeps ==
  ASSUME BundlesInv, NEW w \in Workers, NEW S, CheckBecomes(w, S)
  PROVE  BundlesInv'
<1> USE DEF BundlesInv, CheckBecomes
<1>1. check'[w] = S /\ \A v \in Workers : v # w => check'[v] = check[v]
  BY DEF BundleTypes
<1>2. BundleTypes'
  BY <1>1 DEF BundleTypes
<1>3. EditsRight'
  BY DEF EditsRight, Sighted, Offerable, Fits
<1>4. BundlesRight'
  <2> SUFFICES ASSUME NEW b \in Active \ raced, NEW s \in Steps
               PROVE  ItemRight(b, s)'
    BY DEF BundlesRight, Active
  <2> DEFINE p == bundle[b].items[s]
  <2>1. b \in Ids /\ ItemRight(b, s)
    BY DEF BundlesRight, Active
  <2>2. ASSUME Found(b, s)
        PROVE  \/ p \in notices'
               \/ serves[p] \in {s, Deleted}
               \/ \E v \in Workers : \E x \in check'[v] : x.product = p /\ <<b, s>> \in x.items
    <3>1. CASE p \in notices \/ \E x \in check[w] : x.product = p /\ <<b, s>> \in x.items
      BY <1>1, <3>1 DEF Tell
    <3>2. CASE \E v \in Workers \ {w} : \E x \in check[v] : x.product = p /\ <<b, s>> \in x.items
      BY <1>1, <3>2
    <3> QED BY <2>2, <3>1, <3>2 DEF Found
  <2> QED BY <2>1, <2>2, ItemKept
<1> QED BY <1>2, <1>3, <1>4

LEMMA CheckKeeps ==
  ASSUME BundlesInv, NEW w \in Workers,
         \/ FailCheck(w)
         \/ \E p \in notices : BeginCheck(w, p)
         \/ \E x \in check[w] : LookUp(w, x)
  PROVE  BundlesInv'
<1> USE DEF BundlesInv
<1>1. ASSUME NEW p \in notices, BeginCheck(w, p)
      PROVE  BundlesInv'
  <2> DEFINE z == [product |-> p, items |-> Affected(p), step |-> "look"]
             S == {z}
  <2>1. /\ UNCHANGED <<bundle, serves, edit, blind, raced>>
        /\ check' = [check EXCEPT ![w] = S] /\ check[w] = {} /\ notices' = notices \ {p}
    BY <1>1 DEF BeginCheck
  <2>2. z \in Check
    BY DEF Check, BundleTypes, Affected, Using, Active
  <2>3. ASSUME NEW b \in Active \ raced, NEW s \in Steps, bundle[b].items[s] = p
        PROVE  <<b, s>> \in z.items
    BY <2>3 DEF Affected, Using
  <2>4. z.product = p
    OBVIOUS
  <2>5. S \in SUBSET Check /\ z \in S /\ \A x, y \in S : x = y
    <3> HIDE DEF z
    <3> QED BY <2>2
  <2>6. notices' \subseteq Products
    BY <2>1 DEF BundleTypes
  <2>7. \A b \in Active \ raced : \A s \in Steps :
          Tell(notices, check[w], b, s, bundle[b].items[s]) =>
             \/ Tell(notices', S, b, s, bundle[b].items[s])
             \/ serves[bundle[b].items[s]] \in {s, Deleted}
    <3> HIDE DEF z, S
    <3> QED BY <2>1, <2>3, <2>4, <2>5 DEF Tell
  <2> HIDE DEF z, S
  <2>8. CheckBecomes(w, S)
    BY <2>1, <2>5, <2>6, <2>7 DEF CheckBecomes
  <2> QED BY <2>8, LookKeeps
<1>2. ASSUME NEW x \in check[w], LookUp(w, x)
      PROVE  BundlesInv'
  <2> DEFINE z == [x EXCEPT !.step = "demote",
                            !.items = {y \in x.items : ~Fits(x.product, y[2])}]
             S == {z}
  <2>1. /\ UNCHANGED <<bundle, serves, edit, blind, raced, notices>>
        /\ check' = [check EXCEPT ![w] = S]
    BY <1>2 DEF LookUp
  <2>2. x \in Check /\ check[w] = {x}
    BY DEF BundleTypes
  <2>3. /\ z \in Check /\ z.product = x.product
        /\ z.items = {y \in x.items : ~Fits(x.product, y[2])}
    BY <2>2 DEF Check
  <2>4. S \in SUBSET Check /\ z \in S /\ \A u, y \in S : u = y
    <3> HIDE DEF z
    <3> QED BY <2>3
  <2>5. notices' \subseteq Products
    BY <2>1 DEF BundleTypes
  <2>6. \A b \in Active \ raced : \A s \in Steps :
          Tell(notices, check[w], b, s, bundle[b].items[s]) =>
             \/ Tell(notices', S, b, s, bundle[b].items[s])
             \/ serves[bundle[b].items[s]] \in {s, Deleted}
    <3> HIDE DEF z, S
    <3> QED BY <2>1, <2>2, <2>3, <2>4, <2>5 DEF Fits, Tell
  <2> HIDE DEF z, S
  <2>7. CheckBecomes(w, S)
    BY <2>1, <2>4, <2>5, <2>6 DEF CheckBecomes
  <2> QED BY <2>7, LookKeeps
<1>3. CASE FailCheck(w)
  <2> DEFINE S == {}
  <2>1. /\ UNCHANGED <<bundle, serves, edit, blind, raced>>
        /\ check' = [check EXCEPT ![w] = S]
        /\ notices' = notices \cup {x.product : x \in check[w]}
    BY <1>3 DEF FailCheck
  <2>2. S \in SUBSET Check /\ \A x, y \in S : x = y
    OBVIOUS
  <2>3. notices' \subseteq Products
    BY <2>1 DEF BundleTypes, Check
  <2>4. \A b \in Active \ raced : \A s \in Steps :
          Tell(notices, check[w], b, s, bundle[b].items[s]) =>
             \/ Tell(notices', S, b, s, bundle[b].items[s])
             \/ serves[bundle[b].items[s]] \in {s, Deleted}
    BY <2>1 DEF Tell
  <2> HIDE DEF S
  <2>5. CheckBecomes(w, S)
    BY <2>1, <2>2, <2>3, <2>4 DEF CheckBecomes
  <2> QED BY <2>5, LookKeeps
<1> QED BY <1>1, <1>2, <1>3

LEMMA DemoteKeeps ==
  ASSUME BundlesInv, NEW w \in Workers, NEW x \in check[w], Demote(w, x)
  PROVE  BundlesInv'
<1> USE DEF BundlesInv
<1>1. /\ UNCHANGED <<serves, edit, notices, blind>>
      /\ check' = [check EXCEPT ![w] = {}] /\ raced' = raced \ Broken(x)
      /\ bundle' \in [Ids -> Row]
      /\ \A b \in Ids : /\ bundle'[b].items = bundle[b].items
                        /\ bundle'[b].status \in {bundle[b].status, "DRAFT"}
                        /\ bundle[b].status = "none" => bundle'[b].status = "none"
                        /\ bundle'[b].status = "none" => bundle[b].status = "none"
                        /\ bundle'[b].status = "ACTIVE" => b \in Active /\ b \notin Broken(x)
  BY DEF Demote, BundleTypes, Row, Status, Active
<1>2. check'[w] = {} /\ check[w] = {x} /\ \A v \in Workers : v # w => check'[v] = check[v]
  BY <1>1 DEF BundleTypes
<1>3. BundleTypes'
  BY <1>1, <1>2 DEF BundleTypes
<1>4. EditsRight'
  <2> SUFFICES ASSUME NEW e \in Editors, NEW z \in edit[e]
               PROVE  /\ bundle'[z.id].status # "none"
                      /\ e \notin blind => Sighted(z)'
    BY <1>1 DEF EditsRight
  <2>1. z.id \in Ids
    BY DEF BundleTypes, Edit
  <2> QED BY <1>1, <2>1, SightKept DEF EditsRight
<1>5. BundlesRight'
  <2> SUFFICES ASSUME NEW b \in Ids, bundle'[b].status = "ACTIVE", b \notin raced',
                      NEW s \in Steps
               PROVE  ItemRight(b, s)'
    BY DEF BundlesRight, Active
  <2>1. b \in Active \ raced /\ b \notin Broken(x)
    BY <1>1
  <2>2. <<b, s>> \notin x.items
    BY <2>1 DEF Broken
  <2>3. ItemRight(b, s)
    BY <2>1 DEF BundlesRight
  <2> QED BY <1>1, <1>2, <2>2, <2>3, ItemKept DEF Found
<1> QED BY <1>3, <1>4, <1>5

-----------------------------------------------------------------------------
(* The theorem.                                                            *)

LEMMA BundlesInvInit == Init => BundlesInv
<1> SUFFICES ASSUME Init PROVE BundlesInv
  OBVIOUS
<1>1. BundleTypes
  BY DEF Init, BundleTypes, Row, Status
<1>2. EditsRight
  BY DEF Init, EditsRight
<1>3. BundlesRight
  BY DEF Init, BundlesRight, Active
<1> QED BY <1>1, <1>2, <1>3 DEF BundlesInv

LEMMA BundlesInvStep == BundlesInv /\ [Next]_vars => BundlesInv'
<1> SUFFICES ASSUME BundlesInv, [Next]_vars PROVE BundlesInv'
  OBVIOUS
<1>1. CASE UNCHANGED vars
  <2>1. BundleTypes'
    BY <1>1 DEF BundlesInv, BundleTypes, vars
  <2>2. EditsRight'
    BY <1>1 DEF BundlesInv, EditsRight, Sighted, Offerable, Fits, vars
  <2>3. BundlesRight'
    BY <1>1 DEF BundlesInv, BundlesRight, ItemRight, Found, Active, vars
  <2> QED BY <2>1, <2>2, <2>3 DEF BundlesInv
<1>2. CASE Next
  BY <1>2, ProductKeeps, RowKeeps, RequestKeeps, WriteKeeps, CheckKeeps, DemoteKeeps
  DEF Next, HandleCheck
<1> QED BY <1>1, <1>2

\* Once every products/update is dealt with, an active set holds only products
\* that fit their steps, however many requests and jobs ran into each other,
\* unless the request that last wrote it decided on what had changed since it
\* looked.
THEOREM ActiveSetsAreHonest == Spec => []HonestUnlessRaced
<1>1. BundlesInv => HonestUnlessRaced
  <2> SUFFICES ASSUME BundlesInv, Settled, NEW b \in Active \ raced, NEW s \in Steps
               PROVE  serves[bundle[b].items[s]] \in {s, Deleted}
    BY DEF HonestUnlessRaced, Honest
  <2> QED BY DEF BundlesInv, BundlesRight, ItemRight, Found, Settled
<1>2. Spec => []BundlesInv
  BY BundlesInvInit, BundlesInvStep, PTL DEF Spec
<1> QED BY <1>1, <1>2, PTL
=============================================================================
