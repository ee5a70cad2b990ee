----------------------------- MODULE ProductPage -----------------------------
(***************************************************************************)
(* A product page: the options the customer selects (VariantSelects in     *)
(* global.js), the answer that brings the variant (product-info.js), its   *)
(* quantity rules, its pickup availability (pickup-availability.js) and    *)
(* the form that adds it (product-form.js).  The drawer, and other tabs,   *)
(* change the cart as well.  Only the request for the variant cancels its  *)
(* predecessor; the others are shown as they arrive.                       *)
(***************************************************************************)
EXTENDS Integers, FiniteSets

CONSTANTS
  ProductVariants,    \* variants of the product, as 1..n
  RuleMax,            \* the quantity rule: at most so many in a cart, NoMax: no limit
  MaxSelections,      \* bound: selections of options
  MaxAdds,            \* bound: submissions of the form
  MaxCartChanges      \* bound: changes of the cart by others

NoMax == 0
NoVariant == 0        \* the options selected make no variant
PickupError == -1     \* the error, with its button to try again

ASSUME ProductAssumption ==
  /\ ProductVariants \subseteq Nat \ {NoVariant} /\ IsFiniteSet(ProductVariants)
  /\ RuleMax \in Nat /\ MaxSelections \in Nat /\ MaxAdds \in Nat /\ MaxCartChanges \in Nat

VARIABLES
  selected,      \* the variant that the options select
  selections,    \* their number
  variantCalls,  \* requests for the variant: [n, variant, read, items, old]
  promises,      \* product:select, per selection: pending, rejected, resolved, misled
                 \* (resolved with another selection's variant) or replaced (never settled)
  pendingPromise,\* the selection whose promise VariantSelects holds
  formVariant,   \* the form's id
  button,        \* disabled, aria (aria-disabled)
  inCart,        \* the cart: items of each variant
  adding,        \* submissions under way: [n, variant, qty, at]
  adds,          \* their number
  changes,       \* the number of changes by others
  notices,       \* changes by another part of this page that it has yet to publish
  rules,         \* what the quantity input was given: variant, items of it in the cart
  limits,        \* min, max and value of the input
  rulesCalls,    \* the section asked for again after a cartUpdate, as variantCalls
  rulesAsked,    \* their number
  firstVariant,  \* the variant that the page was rendered with
  pickup,        \* pickup availability: the variant shown, NoVariant or PickupError
  pickupCalls,   \* requests for it: [n, variant]
  late           \* history: rules, pickup: an answer for another variant came last;
                 \* cart: what the cart has was read before its last change, or that
                 \* change went unheard
productVars == <<selected, selections, variantCalls, promises, pendingPromise, formVariant,
                 button, inCart, adding, adds, changes, notices, rules, limits, rulesCalls, rulesAsked,
                 firstVariant, pickup, pickupCalls, late>>

Least(a, b) == IF a < b THEN a ELSE b

\* setQuantityBoundries: what the cart has counts against the maximum, and a
\* maximum of 0 is no maximum.
Boundaries(r) ==
  LET room == RuleMax - r.items
      lower == IF RuleMax = NoMax THEN 1 ELSE Least(1, room)
  IN [min |-> lower, max |-> IF RuleMax = NoMax THEN NoMax ELSE room, value |-> lower]

\* A request about v.  Shopify reads the cart for its answer, which is old once the
\* cart has another quantity of v.
Call(n, v) == [n |-> n, variant |-> v, read |-> v = NoVariant, items |-> 0, old |-> FALSE]
ReadFor(c) == [c EXCEPT !.read = TRUE, !.items = inCart[c.variant]]
SheetOf(c) == [variant |-> c.variant, items |-> c.items]
CartBecomes(v, qty) ==
  LET Aged(calls) == {[c EXCEPT !.old = @ \/ (c.read /\ c.variant = v /\ qty # inCart[v])] :
                        c \in calls}
  IN /\ inCart' = [inCart EXCEPT ![v] = qty]
     /\ variantCalls' = Aged(variantCalls) /\ rulesCalls' = Aged(rulesCalls)

ProductInit ==
  /\ selected \in ProductVariants /\ formVariant = selected /\ firstVariant = selected
  /\ selections = 0 /\ variantCalls = {} /\ promises = <<>> /\ pendingPromise = 0
  /\ button = [disabled |-> FALSE, aria |-> FALSE]
  /\ inCart = [v \in ProductVariants |-> 0]
  /\ adding = {} /\ adds = 0 /\ changes = 0 /\ notices = 0
  /\ rules = [variant |-> selected, items |-> 0] /\ limits = Boundaries(rules)
  /\ rulesCalls = {} /\ rulesAsked = 0
  /\ pickup = NoVariant /\ pickupCalls = {[n |-> 0, variant |-> selected]}
  /\ late = {}

selecting == <<selected, selections, promises, pendingPromise>>
others    == <<changes, notices>>
sheet     == <<rules, limits>>
asking    == <<rulesCalls, rulesAsked>>
pickupPart == <<firstVariant, pickup, pickupCalls>>

-----------------------------------------------------------------------------
(* Selecting a variant.                                                    *)

\* Mutation: the request under way is not cancelled.
MutAborted(calls) == {}

\* renderProductInfo cancels the request under way.
Aborted(calls) == calls

\* A change of the options: product:select with a promise that replaces the one
\* held, resetProductFormState, and the request.  The cancelled request's catch
\* rejects the promise held by then, which is the new one.
SelectOptions(v) ==
  /\ selections < MaxSelections /\ v # selected
  /\ selected' = v /\ selections' = selections + 1
  /\ LET n == selections + 1
         aborted == Aborted(variantCalls)
     IN /\ variantCalls' = (variantCalls \ aborted) \cup {Call(n, v)}
        /\ pendingPromise' = IF aborted # {} THEN 0 ELSE n
        /\ promises' = [m \in 1..n |->
             IF m = n THEN (IF aborted # {} THEN "rejected" ELSE "pending")
             ELSE IF m = pendingPromise THEN "replaced" ELSE promises[m]]
  /\ button' = [button EXCEPT !.disabled = TRUE]
  /\ UNCHANGED <<formVariant, inCart, adding, adds, others, sheet, asking, pickupPart, late>>

VariantRead(c) ==
  /\ c \in variantCalls /\ ~c.read
  /\ variantCalls' = (variantCalls \ {c}) \cup {ReadFor(c)}
  /\ UNCHANGED <<selecting, formVariant, button, inCart, adding, adds, others, sheet, asking,
                 pickupPart, late>>

SettlePromise(how) ==
  /\ promises' = IF pendingPromise = 0 THEN promises
                 ELSE [promises EXCEPT ![pendingPromise] = how]
  /\ pendingPromise' = 0

\* updateQuantityRules sets the limits, and then takes over the new rules.
TakeRules(r) ==
  /\ limits' = Boundaries(rules)
  /\ rules' = r

\* What the rules shown last leave wrong: they are of another variant than v, or old.
LateAfter(c, v) ==
  (late \ {"rules", "cart"}) \cup (IF c.variant = v THEN {} ELSE {"rules"})
                             \cup (IF c.old THEN {"cart"} ELSE {})

\* handleUpdateProductInfo, of an answer with variant v, none on an error page: the
\* form's id, pickup, rules, and the button, disabled if there is no variant or it is
\* not available.
VariantArrives(c, v, available) ==
  /\ c \in variantCalls /\ c.read /\ variantCalls' = variantCalls \ {c}
  /\ SettlePromise(IF pendingPromise = c.n THEN "resolved" ELSE "misled")
  /\ formVariant' = v
  /\ button' = [button EXCEPT !.disabled = ~(available /\ v # NoVariant)]
  /\ IF available /\ v # NoVariant
     THEN /\ pickupCalls' = pickupCalls \cup {[n |-> c.n, variant |-> v]}
          /\ UNCHANGED pickup
     ELSE pickup' = NoVariant /\ UNCHANGED pickupCalls
  /\ IF v = NoVariant THEN UNCHANGED <<sheet, late>>
     ELSE TakeRules(SheetOf(c)) /\ late' = LateAfter(c, v)
  /\ UNCHANGED <<selected, selections, inCart, adding, adds, others, asking, firstVariant>>

\* The request fails: the button stays disabled.
VariantFails(c) ==
  /\ c \in variantCalls /\ variantCalls' = variantCalls \ {c}
  /\ SettlePromise("rejected")
  /\ UNCHANGED <<selected, selections, formVariant, button, inCart, adding, adds, others, sheet,
                 asking, pickupPart, late>>

-----------------------------------------------------------------------------
(* Adding it to the cart.                                                  *)

\* A disabled button submits nothing, and onSubmitHandler looks at aria-disabled.
CanSubmit == ~button.disabled /\ ~button.aria

\* The input holds what setQuantityBoundries gave it, or what its limits allow.
Allowed == {q \in 0..RuleMax + 1 : q >= limits.min /\ (limits.max # NoMax => q <= limits.max)}
SubmitForm(qty) ==
  /\ CanSubmit /\ adds < MaxAdds
  /\ adds' = adds + 1
  /\ adding' = adding \cup {[n |-> adds + 1, variant |-> formVariant, qty |-> qty, at |-> "sent"]}
  /\ button' = [button EXCEPT !.aria = TRUE]
  /\ UNCHANGED <<selecting, variantCalls, formVariant, inCart, others, sheet, asking, pickupPart, late>>

\* Shopify adds it, or refuses more than the rule allows.
AddToCart(a) ==
  /\ a \in adding /\ a.at = "sent"
  /\ LET total == inCart[a.variant] + a.qty
         fits == RuleMax = NoMax \/ total <= RuleMax
     IN /\ adding' = (adding \ {a}) \cup {[a EXCEPT !.at = IF fits THEN "added" ELSE "refused"]}
        /\ IF fits THEN CartBecomes(a.variant, total) ELSE UNCHANGED <<inCart, variantCalls, rulesCalls>>
  /\ UNCHANGED <<selecting, formVariant, button, adds, others, sheet, rulesAsked, pickupPart, late>>

\* cartUpdate, on which product-info asks for the quantity rules of the variant in
\* the form.
FetchQuantityRules ==
  IF formVariant = NoVariant THEN UNCHANGED asking
  ELSE rulesCalls' = rulesCalls \cup {Call(rulesAsked + 1, formVariant)} /\ rulesAsked' = rulesAsked + 1

\* The end of the handler: cartUpdate after an add, unless it was refused or its
\* answer did not come.
AddEnds(a) ==
  /\ a \in adding /\ adding' = adding \ {a}
  /\ button' = [button EXCEPT !.aria = FALSE]
  /\ \/ a.at = "added" /\ FetchQuantityRules /\ UNCHANGED late
     \/ a.at = "added" /\ late' = late \cup {"cart"} /\ UNCHANGED asking
     \/ a.at # "added" /\ UNCHANGED <<asking, late>>
  /\ UNCHANGED <<selecting, variantCalls, formVariant, inCart, adds, others, sheet, pickupPart>>

\* The drawer, or another part of the page, changes the cart, and publishes that once
\* its answer comes; or it does not come, or it was another tab.
OthersChange(v, qty) ==
  /\ changes < MaxCartChanges /\ changes' = changes + 1
  /\ qty # inCart[v] /\ (RuleMax = NoMax \/ qty <= RuleMax)
  /\ CartBecomes(v, qty)
  /\ \/ notices' = notices + 1 /\ UNCHANGED late
     \/ late' = late \cup {"cart"} /\ UNCHANGED notices
  /\ UNCHANGED <<selecting, formVariant, button, adding, adds, sheet, rulesAsked, pickupPart>>

HearOfChange ==
  /\ notices > 0 /\ notices' = notices - 1
  /\ FetchQuantityRules
  /\ UNCHANGED <<selecting, variantCalls, formVariant, button, inCart, adding, adds, changes, sheet,
                 pickupPart, late>>

RulesRead(c) ==
  /\ c \in rulesCalls /\ ~c.read
  /\ rulesCalls' = (rulesCalls \ {c}) \cup {ReadFor(c)}
  /\ UNCHANGED <<selecting, variantCalls, formVariant, button, inCart, adding, adds, others, sheet,
                 rulesAsked, pickupPart, late>>

\* fetchQuantityRules does not look at the form again.
RulesArrive(c) ==
  /\ c \in rulesCalls /\ c.read /\ rulesCalls' = rulesCalls \ {c}
  /\ TakeRules(SheetOf(c)) /\ late' = LateAfter(c, formVariant)
  /\ UNCHANGED <<selecting, variantCalls, formVariant, button, inCart, adding, adds, others, rulesAsked,
                 pickupPart>>

\* No answer; or an error page, which sets the limits before it throws.
RulesFail(c) ==
  /\ c \in rulesCalls /\ rulesCalls' = rulesCalls \ {c}
  /\ limits' \in {limits, Boundaries(rules)}
  /\ late' = late \cup {"cart"}
  /\ UNCHANGED <<selecting, variantCalls, formVariant, button, inCart, adding, adds, others, rulesAsked,
                 rules, pickupPart>>

-----------------------------------------------------------------------------
(* Pickup availability.                                                    *)

\* Whichever answer arrives is shown, also when another variant was selected since.
PickupArrives(c) ==
  /\ c \in pickupCalls /\ pickupCalls' = pickupCalls \ {c}
  /\ pickup' = c.variant
  /\ late' = IF c.variant = formVariant /\ (\A d \in pickupCalls : d.n <= c.n)
             THEN late \ {"pickup"} ELSE late \cup {"pickup"}
  /\ UNCHANGED <<selecting, variantCalls, formVariant, button, inCart, adding, adds, others, sheet,
                 asking, firstVariant>>

PickupFails(c) ==
  /\ c \in pickupCalls /\ pickupCalls' = pickupCalls \ {c}
  /\ pickup' = PickupError
  /\ UNCHANGED <<selecting, variantCalls, formVariant, button, inCart, adding, adds, others, sheet,
                 asking, firstVariant, late>>

\* onClickRefreshList asks for the variant that the page began with.
RetryPickup ==
  /\ pickup = PickupError
  /\ pickupCalls' = pickupCalls \cup {[n |-> selections, variant |-> firstVariant]}
  /\ UNCHANGED <<selecting, variantCalls, formVariant, button, inCart, adding, adds, others, sheet,
                 asking, firstVariant, pickup, late>>

ProductNext ==
  \/ \E v \in ProductVariants \cup {NoVariant} : SelectOptions(v)
  \/ \E c \in variantCalls :
       \/ VariantRead(c) \/ VariantFails(c)
       \/ \E v \in {c.variant, NoVariant}, available \in BOOLEAN : VariantArrives(c, v, available)
  \/ \E qty \in Allowed : SubmitForm(qty)
  \/ \E a \in adding : AddToCart(a) \/ AddEnds(a)
  \/ HearOfChange \/ \E v \in ProductVariants, qty \in 0..RuleMax + 1 : OthersChange(v, qty)
  \/ \E c \in rulesCalls : RulesRead(c) \/ RulesArrive(c) \/ RulesFail(c)
  \/ RetryPickup \/ \E c \in pickupCalls : PickupArrives(c) \/ PickupFails(c)
ProductSpec == ProductInit /\ [][ProductNext]_productVars

-----------------------------------------------------------------------------
\* A form that can be submitted holds the variant that the options show, and no
\* submission is under way; a promise resolves with its own selection's answer and
\* is pending only while a request is; the rules, and the pickup once nothing is
\* under way, are those of the form's variant, unless an answer for another came
\* last; and once no update of the cart is on its way, rules of the form's variant
\* count the items of it that the cart has, unless what was shown last was read
\* before the cart changed or a change went unheard.
OffersWhatIsSelected ==
  /\ CanSubmit => formVariant = selected /\ adding = {}
  /\ \A m \in DOMAIN promises :
       /\ promises[m] # "misled"
       /\ promises[m] = "pending" => \E c \in variantCalls : c.n = m
  /\ rules.variant = formVariant \/ formVariant = NoVariant \/ "rules" \in late
  /\ variantCalls = {} /\ pickupCalls = {} =>
       pickup \in {NoVariant, PickupError, formVariant} \/ "pickup" \in late
  /\ rulesCalls = {} /\ notices = 0 /\ (\A a \in adding : a.at # "added") =>
       \/ rules.variant # formVariant
       \/ rules.items = inCart[formVariant]
       \/ "cart" \in late
=============================================================================
