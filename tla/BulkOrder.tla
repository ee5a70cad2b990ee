------------------------------ MODULE BulkOrder ------------------------------
(***************************************************************************)
(* Ordering many variants at once: the quick order list of a product       *)
(* (quick-order-list.js) and the card of one variant in a collection       *)
(* (quick-add-bulk.js), both over the queue of BulkAdd (global.js).  A     *)
(* quantity waits for its debounce, then in the queue for the request      *)
(* under way to end; what is sent carries the last quantity of each        *)
(* variant.                                                                *)
(***************************************************************************)
EXTENDS Functions, SequencesExt, FiniteSets

CONSTANTS
  BulkVariants,
  BulkStock,      \* items of each that the store has
  BulkTop,        \* the largest quantity that validateQuantity lets pass
  MaxPosts,       \* bound: requests of the component under way
  MaxBulkActs     \* bound: what the customer does

ASSUME BulkAssumption ==
  BulkVariants # {} /\ {BulkStock, BulkTop, MaxPosts} \subseteq Nat \ {0}

VARIABLES
  bulkKind,   \* the list, or the card of one variant
  bulkCart,   \* Shopify's cart: the quantity of each variant
  inputs,     \* the page: per variant the input's value, its value attribute, and whether
              \* the section listed it among those in the cart
  waits,      \* changes that wait for their debounce; live: the input is still there
  queue,      \* [v, qty]
  requestStarted,
  posts,      \* requests to /cart/update: the items, and the cart in the answer
  refresh,    \* the section asked for again
  hasPendingQuantityUpdate,
  bulkActs,   \* what the customer did so far
  asked,      \* history: the quantity of each variant that was asked for last
  excused,    \* history: variants of which a request was refused, lost or overlapped
  slips       \* history: why a row may differ from the cart, cleared by a rendering
              \* (overtaken, lost, unheard, skipped); and what happened at all
              \* (invalid, bypassed, overlap)
bulkVars == <<bulkKind, bulkCart, inputs, waits, queue, requestStarted, posts, refresh,
              hasPendingQuantityUpdate, bulkActs, asked, excused, slips>>

CardVariant == CHOOSE v \in BulkVariants : TRUE
BulkRows == IF bulkKind = "list" THEN BulkVariants ELSE {CardVariant}
NoWait == [qty |-> 0, on |-> FALSE, live |-> FALSE]
NoAnswer == [at |-> "idle", items |-> <<>>, cart |-> <<>>, old |-> FALSE]

RowOf(qty) == [value |-> qty, attr |-> qty, inCart |-> qty > 0]

BulkInit ==
  /\ bulkKind \in {"list", "card"}
  /\ bulkCart \in [BulkVariants -> 0..BulkStock]
  /\ inputs = [v \in BulkVariants |-> RowOf(bulkCart[v])]
  /\ waits = [v \in BulkVariants |-> NoWait]
  /\ queue = <<>> /\ requestStarted = FALSE
  /\ posts = [k \in 1..MaxPosts |-> NoAnswer] /\ refresh = NoAnswer
  /\ hasPendingQuantityUpdate = FALSE /\ bulkActs = 0
  /\ asked = bulkCart /\ excused = {} /\ slips = {}

BulkAct == bulkActs < MaxBulkActs /\ bulkActs' = bulkActs + 1
bulkNet == <<bulkCart, posts, refresh>>
Enqueue(v, qty) ==
  /\ queue' = Append(queue, [v |-> v, qty |-> qty])
  /\ asked' = [asked EXCEPT ![v] = qty]

-----------------------------------------------------------------------------
(* The customer.                                                           *)

TypeQuantity(v, qty) ==
  /\ BulkAct
  /\ qty # inputs[v].value
  /\ inputs' = [inputs EXCEPT ![v].value = qty]
  /\ waits' = [waits EXCEPT ![v] = [qty |-> qty, on |-> TRUE, live |-> TRUE]]
  /\ hasPendingQuantityUpdate' = (bulkKind = "list")
  /\ UNCHANGED <<bulkKind, bulkNet, queue, requestStarted, asked, excused, slips>>

\* onChange after the debounce.  Zero is always valid; an invalid value goes back to
\* the attribute, which a valid one has set on the input it was typed into.
Debounced(v) ==
  /\ waits[v].on /\ waits' = [waits EXCEPT ![v] = NoWait]
  /\ IF waits[v].qty <= BulkTop
     THEN /\ Enqueue(v, waits[v].qty)
          /\ inputs' = IF waits[v].live /\ ~(bulkKind = "card" /\ waits[v].qty = 0)
                       THEN [inputs EXCEPT ![v].attr = waits[v].qty] ELSE inputs
          /\ UNCHANGED slips
     ELSE /\ inputs' = [inputs EXCEPT ![v].value = inputs[v].attr]
          /\ slips' = slips \cup {"invalid"}
          /\ UNCHANGED <<queue, asked>>
  /\ UNCHANGED <<bulkKind, bulkNet, requestStarted, hasPendingQuantityUpdate, bulkActs, excused>>

\* The remove button of a row goes to the queue at once.
RemoveRow(v) ==
  /\ BulkAct /\ bulkKind = "list" /\ inputs[v].inCart
  /\ Enqueue(v, 0)
  /\ UNCHANGED <<bulkKind, bulkNet, inputs, waits, requestStarted, hasPendingQuantityUpdate, excused, slips>>

-----------------------------------------------------------------------------
(* The requests.                                                           *)

UnderWay == {k \in 1..MaxPosts : posts[k].at \in {"sent", "answered"}}

\* updateMultipleQty; passed: variants whose queued quantity it goes past.
Post(k, items, passed) ==
  /\ posts[k].at = "idle"
  /\ posts' = [posts EXCEPT ![k] = [NoAnswer EXCEPT !.at = "sent", !.items = items]]
  /\ hasPendingQuantityUpdate' = (hasPendingQuantityUpdate /\ queue' # <<>>)
  /\ excused' = excused \cup passed \cup
       IF UnderWay = {} THEN {} ELSE DOMAIN items \cup UNION {DOMAIN posts[j].items : j \in UnderWay}

\* Mutation: the interval does not look at requestStarted.
MutMaySend == queue # <<>>

\* The interval finds something queued, and no request of its own under way.
MaySend == queue # <<>> /\ ~requestStarted

\* sendRequest merges the queue: the last quantity of each variant counts.
Merged ==
  [v \in {queue[i].v : i \in DOMAIN queue} |->
     queue[CHOOSE i \in DOMAIN queue :
             queue[i].v = v /\ \A j \in DOMAIN queue : queue[j].v = v => j <= i].qty]
SendQueue(k) ==
  /\ MaySend
  /\ requestStarted' = TRUE /\ queue' = <<>>
  /\ Post(k, Merged, {})
  /\ slips' = IF UnderWay = {} THEN slips ELSE slips \cup {"overlap"}
  /\ UNCHANGED <<bulkKind, bulkCart, inputs, waits, refresh, bulkActs, asked>>

\* The button that removes all posts at once, past queue and requestStarted.
RemoveAll(k) ==
  /\ BulkAct /\ bulkKind = "list"
  /\ LET listed == {v \in BulkVariants : inputs[v].inCart} IN
       /\ listed # {}
       /\ queue' = queue
       /\ Post(k, [v \in listed |-> 0], {queue[i].v : i \in DOMAIN queue})
       /\ asked' = [v \in BulkVariants |-> IF v \in listed THEN 0 ELSE asked[v]]
  /\ slips' = slips \cup {"bypassed"}
  /\ UNCHANGED <<bulkKind, bulkCart, inputs, waits, requestStarted, refresh>>

\* The cart becomes c: what was read of it is old.
Aged(r, c) == [r EXCEPT !.old = @ \/ (r.at = "answered" /\ c # bulkCart)]
BulkCartBecomes(c) ==
  /\ bulkCart' = c
  /\ refresh' = Aged(refresh, c)

Updated(items) ==
  [v \in BulkVariants |-> IF v \notin DOMAIN items THEN bulkCart[v]
                          ELSE IF items[v] < BulkStock THEN items[v] ELSE BulkStock]

\* Shopify carries a request out, cut down to the stock, or refuses it.
Fulfil(k) ==
  /\ posts[k].at = "sent"
  /\ LET c == Updated(posts[k].items) IN
       \/ /\ BulkCartBecomes(c)
          /\ posts' = [j \in 1..MaxPosts |->
               IF j = k THEN [posts[k] EXCEPT !.at = "answered", !.cart = c] ELSE Aged(posts[j], c)]
       \/ /\ posts' = [posts EXCEPT ![k].at = "refused"] /\ UNCHANGED <<bulkCart, refresh>>
  /\ UNCHANGED <<bulkKind, inputs, waits, queue, requestStarted, hasPendingQuantityUpdate,
                 bulkActs, asked, excused, slips>>

Render(r) ==
  /\ inputs' = [v \in BulkVariants |-> RowOf(r.cart[v])]
  /\ waits' = [v \in BulkVariants |-> [waits[v] EXCEPT !.live = FALSE]]
  /\ slips' = (slips \ {"overtaken", "lost", "unheard", "skipped"})
                \cup (IF r.old THEN {"overtaken"} ELSE {})

\* renderSections leaves the rows alone while more is to be sent.
Skips(items) ==
  IF bulkKind = "list" THEN queue # <<>> \/ hasPendingQuantityUpdate
  ELSE \E i \in DOMAIN queue : queue[i].v \in DOMAIN items

\* finally: requestStarted ends with any request, also one that did not start it.
Ends(k) == requestStarted' = FALSE /\ posts' = [posts EXCEPT ![k] = NoAnswer]

PostAnswered(k) ==
  /\ posts[k].at = "answered" /\ Ends(k)
  /\ IF Skips(posts[k].items)
     THEN slips' = slips \cup {"skipped"} /\ UNCHANGED <<inputs, waits>>
     ELSE Render(posts[k])
  /\ UNCHANGED <<bulkKind, bulkCart, queue, refresh, hasPendingQuantityUpdate, bulkActs, asked, excused>>

\* Refused, or the answer is lost: an error text, and the rows stay as typed.
PostFails(k) ==
  /\ posts[k].at # "idle" /\ Ends(k)
  /\ excused' = excused \cup DOMAIN posts[k].items
  /\ slips' = slips \cup {"lost"}
  /\ UNCHANGED <<bulkKind, bulkCart, inputs, waits, queue, refresh, hasPendingQuantityUpdate, bulkActs, asked>>

-----------------------------------------------------------------------------
(* What other parts of the page do to the cart.                            *)

\* The card takes no notice of a cart in which its variant no longer is.
Notices(c) == bulkKind = "list" \/ c[CardVariant] > 0

\* cartUpdate of another source: the component asks for its section again.
ChangeElsewhere(v, qty) ==
  /\ BulkAct /\ qty # bulkCart[v]
  /\ LET c == [bulkCart EXCEPT ![v] = qty] IN
       /\ bulkCart' = c /\ posts' = [k \in 1..MaxPosts |-> Aged(posts[k], c)]
       /\ IF Notices(c)
          THEN refresh.at = "idle" /\ refresh' = [NoAnswer EXCEPT !.at = "sent"] /\ UNCHANGED slips
          ELSE refresh' = Aged(refresh, c) /\ slips' = slips \cup {"unheard"}
  /\ asked' = [asked EXCEPT ![v] = qty]
  /\ excused' = IF waits[v].on \/ (\E i \in DOMAIN queue : queue[i].v = v)
                   \/ (\E k \in UnderWay : v \in DOMAIN posts[k].items)
                THEN excused \cup {v} ELSE excused
  /\ UNCHANGED <<bulkKind, inputs, waits, queue, requestStarted, hasPendingQuantityUpdate>>

\* The customer turns the page of the list, which is the same request.
TurnPage ==
  /\ BulkAct /\ bulkKind = "list" /\ refresh.at = "idle"
  /\ refresh' = [NoAnswer EXCEPT !.at = "sent"]
  /\ UNCHANGED <<bulkKind, bulkCart, inputs, waits, queue, requestStarted, posts,
                 hasPendingQuantityUpdate, asked, excused, slips>>

RefreshRead ==
  /\ refresh.at = "sent"
  /\ refresh' = [refresh EXCEPT !.at = "answered", !.cart = bulkCart]
  /\ UNCHANGED <<bulkKind, bulkCart, inputs, waits, queue, requestStarted, posts,
                 hasPendingQuantityUpdate, bulkActs, asked, excused, slips>>

\* The rows are replaced whatever is queued or typed.
RefreshShown ==
  /\ refresh.at = "answered" /\ refresh' = NoAnswer
  /\ Render(refresh)
  /\ UNCHANGED <<bulkKind, bulkCart, queue, requestStarted, posts,
                 hasPendingQuantityUpdate, bulkActs, asked, excused>>

RefreshFails ==
  /\ refresh.at # "idle" /\ refresh' = NoAnswer
  /\ slips' = slips \cup {"lost"}
  /\ UNCHANGED <<bulkKind, bulkCart, inputs, waits, queue, requestStarted, posts,
                 hasPendingQuantityUpdate, bulkActs, asked, excused>>

BulkNext ==
  \/ \E v \in BulkRows :
       \/ \E qty \in 0..BulkTop + 1 : TypeQuantity(v, qty)
       \/ \E qty \in 0..BulkStock : ChangeElsewhere(v, qty)
       \/ Debounced(v) \/ RemoveRow(v)
  \/ \E k \in 1..MaxPosts :
       SendQueue(k) \/ RemoveAll(k) \/ Fulfil(k) \/ PostAnswered(k) \/ PostFails(k)
  \/ TurnPage \/ RefreshRead \/ RefreshShown \/ RefreshFails
BulkSpec == BulkInit /\ [][BulkNext]_bulkVars

-----------------------------------------------------------------------------
BulkAtRest ==
  /\ queue = <<>> /\ UnderWay = {} /\ refresh.at = "idle"
  /\ \A v \in BulkVariants : ~waits[v].on
  /\ \A k \in 1..MaxPosts : posts[k].at = "idle"

\* Once nothing waits, the cart has of every variant what was asked for last (as far
\* as the stock goes), unless its request failed, met or was passed by another; the rows show
\* it, unless a rendering was overtaken or lost, or was skipped for an edit that
\* turned out invalid; and two requests overlap only if everything was removed past
\* the queue.
LastQuantityCounts ==
  /\ BulkAtRest =>
       /\ \A v \in BulkVariants \ excused : bulkCart[v] = Updated(asked)[v]
       /\ \A v \in BulkRows :
            \/ inputs[v].value = bulkCart[v]
            \/ slips \cap {"overtaken", "lost", "unheard"} # {}
            \/ {"skipped", "invalid"} \subseteq slips
  /\ "overlap" \in slips => "bypassed" \in slips
=============================================================================
