------------------------------ MODULE CartPage -------------------------------
(***************************************************************************)
(* The lines of the cart page (cart.js).  A change is asked for by the     *)
(* number of its line, 300 ms after the customer typed it, and each answer *)
(* replaces the whole list in the order in which the answers arrive.       *)
(* While a change is under way the list takes no pointer; the keyboard     *)
(* still reaches it.                                                       *)
(***************************************************************************)
EXTENDS SequencesExt, FiniteSets

CONSTANTS
  CartGoods,     \* what can be in the cart
  LineStock,     \* items of each that the store has
  LineMin, LineMax, LineStep,  \* a quantity rule, which validateQuantity checks: data-min,
                 \* max and step of the input
  MaxCartCalls,  \* bound: requests of the page under way
  MaxCartActs    \* bound: what the customer does

ASSUME CartAssumption == {LineStock, LineMin, LineMax, LineStep, MaxCartCalls} \subseteq Nat \ {0}

VARIABLES
  lineItems,  \* the cart, as Shopify has it: [item, qty] per line
  shownRows,  \* the lines of the page, as rendered
  typed,      \* the value of each line's input
  edit,       \* the change event that waits for the debounce
  cartCalls,  \* the requests: changes of a line, and sections asked for again
  cartError,  \* what the page says: "", adjusted or error
  inert,      \* whether the list takes no pointer
  acts,       \* what the customer did so far
  mishaps     \* history: why the page may differ from the cart, cleared by a rendering:
              \* overtaken (what is rendered was read before the last change),
              \* unheard (a request without a cart in answer, or another tab), dropped (an edit replaced
              \* another line's); astray, a change that met another item; crossed, a
              \* change of the cart between an act and its arrival
cartPageVars == <<lineItems, shownRows, typed, edit, cartCalls, cartError, inert, acts, mishaps>>

\* fresh: the lines are numbered as they were when the customer acted.  live: the
\* input that fired is on the page, and its value is the one in typed; a rendering
\* takes it off the page with the value it has then, qty.
NoEdit == [line |-> 0, qty |-> 0, item |-> "", fresh |-> TRUE, live |-> FALSE]
NoCall == [at |-> "idle", kind |-> "", edit |-> NoEdit, answer |-> "", rows |-> <<>>, old |-> FALSE]
Quantities(rows) == [l \in DOMAIN rows |-> rows[l].qty]
ItemsOf(rows) == [l \in DOMAIN rows |-> rows[l].item]

\* validateQuantity.  An empty input, NaN, is refused as one off the step is.
Valid(qty) == LineMin <= qty /\ qty <= LineMax /\ qty % LineStep = 0

CartPageInit ==
  /\ lineItems \in {s \in SeqOf([item : CartGoods, qty : {q \in 1..LineStock : Valid(q)}],
                                Cardinality(CartGoods)) : IsInjective(ItemsOf(s))}
  /\ shownRows = lineItems /\ typed = Quantities(lineItems)
  /\ edit = NoEdit
  /\ cartCalls = [k \in 1..MaxCartCalls |-> NoCall]
  /\ cartError = "" /\ inert = FALSE /\ acts = 0 /\ mishaps = {}

\* When the cart becomes rows, what was read of it is old, and so may line numbers.
Crossed(e, rows) ==
  IF e.line = 0 THEN e ELSE [e EXCEPT !.fresh = @ /\ ItemsOf(rows) = ItemsOf(lineItems)]
CallsAfter(calls, rows) ==
  [k \in DOMAIN calls |->
     [calls[k] EXCEPT !.old = @ \/ (calls[k].at = "read" /\ rows # lineItems),
                      !.edit = IF calls[k].at = "asked" THEN Crossed(@, rows) ELSE @]]

Act(l, qty) ==
  [line |-> l, qty |-> qty, item |-> shownRows[l].item,
   fresh |-> ItemsOf(shownRows) = ItemsOf(lineItems), live |-> FALSE]

\* updateQuantity sends the change, enableLoading.
Ask(k, e) ==
  /\ cartCalls[k].at = "idle"
  /\ cartCalls' = [cartCalls EXCEPT ![k] = [NoCall EXCEPT !.at = "asked", !.kind = "change", !.edit = e]]
  /\ inert' = TRUE

-----------------------------------------------------------------------------
(* The customer.                                                           *)

\* A change event: the debounce keeps the last one, whichever line it is of.
Type(l, qty) ==
  /\ acts < MaxCartActs /\ acts' = acts + 1
  /\ l \in DOMAIN shownRows /\ (qty # typed[l] \/ typed[l] # shownRows[l].qty)
  /\ typed' = [typed EXCEPT ![l] = qty]
  /\ edit' = [Act(l, 0) EXCEPT !.live = TRUE]
  /\ mishaps' = IF edit.line \notin {0, l} THEN mishaps \cup {"dropped"} ELSE mishaps
  /\ UNCHANGED <<lineItems, shownRows, cartCalls, cartError, inert>>

\* The customer types on in that input before the debounce is over.
TypeOn(qty) ==
  /\ acts < MaxCartActs /\ acts' = acts + 1
  /\ edit.live /\ qty # typed[edit.line]
  /\ typed' = [typed EXCEPT ![edit.line] = qty]
  /\ UNCHANGED <<lineItems, shownRows, edit, cartCalls, cartError, inert, mishaps>>

\* CartRemoveButton does not wait.
PressRemove(l, k) ==
  /\ acts < MaxCartActs /\ acts' = acts + 1
  /\ l \in DOMAIN shownRows
  /\ Ask(k, Act(l, 0))
  /\ UNCHANGED <<lineItems, shownRows, typed, edit, cartError, mishaps>>

ResetInput(l) ==
  IF l \in DOMAIN shownRows THEN [typed EXCEPT ![l] = shownRows[l].qty] ELSE typed

\* What the input holds when the debounce is over.
InputValue == IF edit.live THEN typed[edit.line] ELSE edit.qty

\* validateQuantity, then: an invalid value is reset and not sent.  The line is the
\* input's, also when it is no longer on the page.
Validate(k) ==
  /\ edit # NoEdit /\ edit' = NoEdit
  /\ IF Valid(InputValue)
     THEN Ask(k, [edit EXCEPT !.qty = InputValue, !.live = FALSE]) /\ UNCHANGED typed
     ELSE typed' = ResetInput(edit.line) /\ UNCHANGED <<cartCalls, inert>>
  /\ UNCHANGED <<lineItems, shownRows, cartError, acts, mishaps>>

\* Another part of the page, or another tab, adds an item.
Added(item) ==
  IF \E l \in DOMAIN lineItems : lineItems[l].item = item
  THEN [l \in DOMAIN lineItems |-> IF lineItems[l].item = item
                                   THEN [lineItems[l] EXCEPT !.qty = LineStock] ELSE lineItems[l]]
  ELSE Append(lineItems, [item |-> item, qty |-> LineMin])

\* Mutation: the subscriber takes every update for its own.
MutHears(source) == source \notin {"cart-items", "product-form"}

\* The subscriber of cartUpdate: all sources but its own.
Hears(source) == source # "cart-items"

AddElsewhere(item, k) ==
  /\ acts < MaxCartActs /\ acts' = acts + 1
  /\ lineItems' = Added(item)
  /\ edit' = Crossed(edit, Added(item))
  /\ \E source \in {"product-form", "another tab"} :
       IF source # "another tab" /\ Hears(source)
       THEN /\ cartCalls[k].at = "idle"
            /\ cartCalls' = [CallsAfter(cartCalls, Added(item)) EXCEPT
                               ![k] = [NoCall EXCEPT !.at = "asked", !.kind = "refetch"]]
            /\ UNCHANGED mishaps
       ELSE /\ cartCalls' = CallsAfter(cartCalls, Added(item))
            /\ mishaps' = IF source = "another tab" THEN mishaps \cup {"unheard"} ELSE mishaps
  /\ UNCHANGED <<shownRows, typed, cartError, inert>>

-----------------------------------------------------------------------------
(* The requests.                                                           *)

\* /cart/change.js on a line: more than there is, is refused or cut down; of a line
\* that is not there the answer is no cart.
Changed(e) ==
  IF e.qty = 0 THEN RemoveAt(lineItems, e.line)
  ELSE [lineItems EXCEPT ![e.line].qty = IF e.qty < LineStock THEN e.qty ELSE LineStock]

CarryOut(k) ==
  /\ cartCalls[k].at = "asked" /\ cartCalls[k].kind = "change"
  /\ LET e == cartCalls[k].edit
         answered(answer, rows) ==
           /\ lineItems' = rows /\ edit' = Crossed(edit, rows)
           /\ cartCalls' = [CallsAfter(cartCalls, rows) EXCEPT
                ![k] = [cartCalls[k] EXCEPT !.at = "read", !.answer = answer, !.rows = rows]]
     IN
       /\ \/ e.line \notin DOMAIN lineItems /\ answered("none", lineItems)
          \/ e.line \in DOMAIN lineItems /\ answered("cart", Changed(e))
          \/ e.line \in DOMAIN lineItems /\ e.qty > LineStock /\ answered("errors", lineItems)
       /\ mishaps' = mishaps
            \cup (IF e.line \in DOMAIN lineItems /\ lineItems[e.line].item # e.item
                  THEN {"astray"} ELSE {})
            \cup (IF e.fresh THEN {} ELSE {"crossed"})
  /\ UNCHANGED <<shownRows, typed, cartError, inert, acts>>

\* onCartUpdate asks for the section.
ReadSection(k) ==
  /\ cartCalls[k].at = "asked" /\ cartCalls[k].kind = "refetch"
  /\ cartCalls' = [cartCalls EXCEPT ![k].at = "read", ![k].answer = "cart", ![k].rows = lineItems]
  /\ UNCHANGED <<lineItems, shownRows, typed, edit, cartError, inert, acts, mishaps>>

Finished(k) == cartCalls' = [cartCalls EXCEPT ![k] = NoCall]
Rendered(k) ==
  /\ shownRows' = cartCalls[k].rows /\ typed' = Quantities(cartCalls[k].rows)
  /\ edit' = [edit EXCEPT !.qty = InputValue, !.live = FALSE]
  /\ mishaps' = (mishaps \ {"overtaken", "unheard", "dropped"})
                  \cup (IF cartCalls[k].old THEN {"overtaken"} ELSE {})

ShowSection(k) ==
  /\ cartCalls[k].at = "read" /\ cartCalls[k].kind = "refetch"
  /\ Rendered(k) /\ Finished(k)
  /\ UNCHANGED <<lineItems, cartError, inert, acts>>

\* The quantity differs from the one typed, though no line came or went.  Without
\* an input on the page the comparison throws.
Says(rows, l) ==
  IF Len(rows) # Len(shownRows) THEN ""
  ELSE IF l \notin DOMAIN rows THEN "error"
  ELSE IF rows[l].qty # typed[l] THEN "adjusted" ELSE ""

\* A change is answered; disableLoading, whatever else is under way.
ShowChange(k) ==
  /\ cartCalls[k].at = "read" /\ cartCalls[k].kind = "change" /\ cartCalls[k].answer # "none"
  /\ LET l == cartCalls[k].edit.line IN
       IF cartCalls[k].answer = "cart"
       THEN Rendered(k) /\ cartError' = Says(cartCalls[k].rows, l)
       ELSE /\ typed' = ResetInput(l) /\ cartError' = "error"
            /\ UNCHANGED <<shownRows, edit, mishaps>>
  /\ Finished(k) /\ inert' = FALSE
  /\ UNCHANGED <<lineItems, acts>>

\* No answer, or one that is not a cart: an error text, and the input keeps what
\* was typed.  A section that does not come is logged.
CartCallFails(k) ==
  /\ cartCalls[k].at # "idle"
  /\ mishaps' = mishaps \cup {"unheard"}
  /\ IF cartCalls[k].kind = "change"
     THEN cartError' = "error" /\ inert' = FALSE ELSE UNCHANGED <<cartError, inert>>
  /\ Finished(k)
  /\ UNCHANGED <<lineItems, shownRows, typed, edit, acts>>

CartPageNext ==
  \/ \E qty \in 0..LineMax + 1 : TypeOn(qty)
  \/ \E k \in 1..MaxCartCalls :
    \/ \E l \in 1..Cardinality(CartGoods) :
         PressRemove(l, k) \/ \E qty \in 0..LineMax + 1 : Type(l, qty)
    \/ \E item \in CartGoods : AddElsewhere(item, k)
    \/ Validate(k) \/ CarryOut(k) \/ ReadSection(k)
    \/ ShowSection(k) \/ ShowChange(k) \/ CartCallFails(k)
CartPageSpec == CartPageInit /\ [][CartPageNext]_cartPageVars

-----------------------------------------------------------------------------
\* Once nothing is under way the page shows the cart and its inputs the quantities
\* in it, unless the last rendering was overtaken or something went unheard; and a
\* change meets the item whose line the customer changed, unless the lines were
\* renumbered between the act and its arrival.
PageShowsCart ==
  /\ edit = NoEdit /\ (\A k \in DOMAIN cartCalls : cartCalls[k].at = "idle") =>
       /\ shownRows = lineItems \/ mishaps \cap {"overtaken", "unheard"} # {}
       /\ typed = Quantities(shownRows) \/ mishaps \cap {"unheard", "dropped"} # {}
  /\ "astray" \in mishaps => "crossed" \in mishaps
=============================================================================
