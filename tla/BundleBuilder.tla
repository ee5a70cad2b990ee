---------------------------- MODULE BundleBuilder ----------------------------
(***************************************************************************)
(* The storefront section that adds a routine to the cart, one product for *)
(* each step (bundle-builder.js).  A click adds all lines in one request,  *)
(* which Shopify carries out line by line: some may land and others not.   *)
(* The lines carry the click's number, the _bundle_id, by which the        *)
(* section takes back what landed of a request that failed.                *)
(***************************************************************************)
EXTENDS Naturals, FiniteSets

CONSTANTS
  BuilderSteps,   \* the steps of the routine, each with one product
  MaxStock,       \* bound: items of a product that the store has
  MaxClicks       \* bound: clicks on the button

\* A section without a step renders nothing.
ASSUME BuilderAssumption ==
  IsFiniteSet(BuilderSteps) /\ BuilderSteps # {} /\ {MaxStock, MaxClicks} \subseteq Nat

VARIABLES
  chosen,    \* the steps whose radio button is checked
  stock,     \* items the store has of each step's product
  shelf,     \* the steps whose product the storefront shows
  lines,     \* the cart: [click, step]
  click,     \* the click under way, or the last: its number, where it stands, the
             \* HTTP answer, and what discardBundle and classifyFailure have read
  adrift,    \* clicks whose request is still out there though the page gave it up
  says,      \* the message under the button
  cartLink,  \* whether the link to the cart shows
  wronged,   \* history: clicks whose add request, or whose discard, lost its answer
  sold       \* history: clicks that ended with the success message
builderVars == <<chosen, stock, shelf, lines, click, adrift, says, cartLink, wronged, sold>>

\* The button is enabled when the element connects.
BuilderInit ==
  /\ chosen \in SUBSET BuilderSteps
  /\ stock \in [BuilderSteps -> 0..MaxStock]
  /\ shelf = BuilderSteps
  /\ lines = {} /\ adrift = {} /\ wronged = {} /\ sold = {}
  /\ click = [n |-> 0, at |-> "idle", answer |-> "", keys |-> {}, asked |-> {}]
  /\ says = "" /\ cartLink = FALSE

LinesOf(n) == {x \in lines : x.click = n}
builderWorld == <<stock, shelf, lines, adrift>>

\* A radio button changes: clearFeedback, also while a request is under way.
Choose(step) ==
  /\ step \notin chosen
  /\ chosen' = chosen \cup {step}
  /\ says' = "" /\ cartLink' = FALSE
  /\ UNCHANGED <<builderWorld, click, wronged, sold>>

\* onSubmit; setBusy(TRUE) disables the button until the handler ends.
Submit ==
  /\ click.at = "idle" /\ click.n < MaxClicks
  /\ IF chosen # BuilderSteps
     THEN says' = "incomplete" /\ cartLink' = FALSE /\ UNCHANGED click
     ELSE /\ click' = [n |-> click.n + 1, at |-> "asked", answer |-> "", keys |-> {}, asked |-> {}]
          /\ UNCHANGED <<says, cartLink>>
  /\ UNCHANGED <<chosen, builderWorld, wronged, sold>>

\* /cart/add.js: a line lands if there are more of the product than the cart has
\* (which reserves nothing); 422 when one did not.
Landing == {step \in shelf : Cardinality({x \in lines : x.step = step}) < stock[step]}
AddLines(n) ==
  /\ lines' = lines \cup {[click |-> n, step |-> s] : s \in Landing}
  /\ UNCHANGED <<stock, shelf>>

Land ==
  /\ click.at = "asked"
  /\ AddLines(click.n)
  /\ \E answer \in IF Landing = BuilderSteps THEN {"ok", "unreadable", "500"} ELSE {"422"} :
       click' = [click EXCEPT !.at = "landed", !.answer = answer]
  /\ UNCHANGED <<chosen, adrift, says, cartLink, wronged, sold>>

\* The answer is an error, or no JSON, or a status in the body.
IsFailure(answer) == answer # "ok"

\* Otherwise the icon, the publication, and showSuccess.
Receive ==
  /\ click.at = "landed"
  /\ IF IsFailure(click.answer)
     THEN click' = [click EXCEPT !.at = "discarding"] /\ UNCHANGED <<says, cartLink, sold>>
     ELSE /\ click' = [click EXCEPT !.at = "idle"] /\ sold' = sold \cup {click.n}
          /\ says' = "success" /\ cartLink' = TRUE
  /\ UNCHANGED <<chosen, builderWorld, wronged>>

\* fetch rejects: the request may have landed, may be lost, or may land later.
NetworkError ==
  /\ click.at \in {"asked", "landed"}
  /\ click' = [click EXCEPT !.at = "idle"]
  /\ says' = "network" /\ cartLink' = FALSE
  /\ wronged' = wronged \cup {click.n}
  /\ \/ UNCHANGED adrift
     \/ click.at = "asked" /\ adrift' = adrift \cup {click.n}
  /\ UNCHANGED <<chosen, stock, shelf, lines, sold>>

LandLate(n) ==
  /\ n \in adrift /\ adrift' = adrift \ {n}
  /\ AddLines(n)
  /\ UNCHANGED <<chosen, click, says, cartLink, wronged, sold>>

\* Mutation: the lines of the chosen products are discarded, whoever added them.
MutDiscarded(n) == {x \in lines : x.step \in BuilderSteps}

\* discardBundle reads the cart and picks the lines that carry this click's id.
Discarded(n) == LinesOf(n)

ReadCart ==
  /\ click.at = "discarding"
  /\ click' = [click EXCEPT !.keys = Discarded(click.n),
                            !.at = IF Discarded(click.n) = {} THEN "reporting" ELSE "removing"]
  /\ UNCHANGED <<chosen, builderWorld, says, cartLink, wronged, sold>>

\* It sets them to 0.
RemoveLines ==
  /\ click.at = "removing"
  /\ lines' = lines \ click.keys
  /\ click' = [click EXCEPT !.at = "reporting"]
  /\ UNCHANGED <<chosen, stock, shelf, adrift, says, cartLink, wronged, sold>>

\* Either request may fail, or only its answer be lost: discardBundle swallows it.
DiscardFails ==
  /\ click.at \in {"discarding", "removing"}
  /\ click' = [click EXCEPT !.at = "reporting"]
  /\ wronged' = wronged \cup {click.n}
  /\ lines' \in {lines, lines \ click.keys}
  /\ UNCHANGED <<chosen, stock, shelf, adrift, says, cartLink, sold>>

\* reportFailure, and the end of the handler.
Report(reason) ==
  /\ click' = [click EXCEPT !.at = "idle"]
  /\ says' = reason /\ cartLink' = FALSE
  /\ UNCHANGED <<chosen, builderWorld, wronged, sold>>

\* classifyFailure asks for each product in turn, only after a 422; the first
\* that is gone, sold out or does not answer decides.
Unclassified == click.at = "reporting" /\ click.answer # "422" /\ Report("generic")
Classify(step) ==
  /\ click.at = "reporting" /\ click.answer = "422" /\ step \notin click.asked
  /\ \/ step \notin shelf /\ Report("variant_missing")
     \/ step \in shelf /\ stock[step] = 0 /\ Report("unavailable")
     \/ Report("generic")
     \/ /\ step \in shelf /\ stock[step] > 0
        /\ IF click.asked \cup {step} = BuilderSteps
           THEN Report("stock_claimed")
           ELSE /\ click' = [click EXCEPT !.asked = @ \cup {step}]
                /\ UNCHANGED <<chosen, builderWorld, says, cartLink, wronged, sold>>

\* A product is sold out by other customers, or taken off the storefront.
LoseProduct(step) ==
  /\ \/ stock[step] > 0 /\ stock' = [stock EXCEPT ![step] = 0] /\ UNCHANGED shelf
     \/ step \in shelf /\ shelf' = shelf \ {step} /\ UNCHANGED stock
  /\ UNCHANGED <<chosen, lines, click, adrift, says, cartLink, wronged, sold>>

BuilderNext ==
  \/ \E step \in BuilderSteps : Choose(step) \/ Classify(step) \/ LoseProduct(step)
  \/ Submit \/ Land \/ Receive \/ NetworkError \/ Unclassified
  \/ \E n \in adrift : LandLate(n)
  \/ ReadCart \/ RemoveLines \/ DiscardFails
BuilderSpec == BuilderInit /\ [][BuilderNext]_builderVars

-----------------------------------------------------------------------------
\* All or nothing (the comment above discardBundle): once a click has ended, its
\* lines are all in the cart or none is, unless the answer to its request or to
\* the discard was lost; what ended in the success message is in the cart, whatever
\* later clicks take back, and what ended in another is not.
WholeOrNothing ==
  \A n \in 1..click.n :
    (n = click.n => click.at = "idle") =>
      LET steps == {x.step : x \in LinesOf(n)} IN
        /\ steps \in {{}, BuilderSteps} \/ n \in wronged
        /\ n \notin wronged => (n \in sold <=> steps = BuilderSteps)
=============================================================================
