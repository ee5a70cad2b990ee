----------------------------- MODULE MCScreens -----------------------------
(***************************************************************************)
(* What runs in a browser, side by side: the storefront's parts, and the   *)
(* index and the export report of the admin app.  They share no variable;  *)
(* a behaviour is about one of them.                                       *)
(***************************************************************************)
EXTENDS BundleBuilder, CartPage, BulkOrder, ProductPage, StoreSearch, BundleIndex, CatalogReport

CONSTANTS s1, s2, g1, g2, v1, v2, f1, f2

MCSearchTerms == {<<"a">>, <<"a", "b">>, <<"b">>}

VARIABLE scene   \* the part of the app that this behaviour is about

allParts == <<builderVars, cartPageVars, bulkVars, productVars, facetVars, searchVars, indexVars, pickerVars, reportVars>>

\* Every part starts as it does; one that this behaviour is not about has one start.
Init ==
  /\ scene \in {"builder", "cart", "bulk", "product", "filters", "search", "index", "picker", "report"}
  /\ scene # "builder" => chosen = {} /\ stock = [s \in BuilderSteps |-> 0]
  /\ BuilderInit
  /\ scene # "cart" => lineItems = <<>>
  /\ CartPageInit
  /\ scene # "bulk" => bulkKind = "list" /\ bulkCart = [v \in BulkVariants |-> 0]
  /\ BulkInit
  /\ selected = CHOOSE v \in ProductVariants : TRUE   \* the variants are interchangeable
  /\ ProductInit
  /\ scene # "filters" => form = CHOOSE f \in FilterSets : TRUE
  /\ FacetInit
  /\ SearchInit
  /\ IndexInit
  /\ PickerInit
  /\ ReportInit

Next ==
  \/ scene = "builder" /\ BuilderNext
     /\ UNCHANGED <<scene, cartPageVars, bulkVars, productVars, facetVars, searchVars, indexVars, pickerVars, reportVars>>
  \/ scene = "cart" /\ CartPageNext
     /\ UNCHANGED <<scene, builderVars, bulkVars, productVars, facetVars, searchVars, indexVars, pickerVars, reportVars>>
  \/ scene = "bulk" /\ BulkNext
     /\ UNCHANGED <<scene, builderVars, cartPageVars, productVars, facetVars, searchVars, indexVars, pickerVars, reportVars>>
  \/ scene = "product" /\ ProductNext
     /\ UNCHANGED <<scene, builderVars, cartPageVars, bulkVars, facetVars, searchVars, indexVars, pickerVars, reportVars>>
  \/ scene = "filters" /\ FacetNext
     /\ UNCHANGED <<scene, builderVars, cartPageVars, bulkVars, productVars, searchVars, indexVars, pickerVars, reportVars>>
  \/ scene = "search" /\ SearchNext
     /\ UNCHANGED <<scene, builderVars, cartPageVars, bulkVars, productVars, facetVars, indexVars, pickerVars, reportVars>>
  \/ scene = "index" /\ IndexNext
     /\ UNCHANGED <<scene, builderVars, cartPageVars, bulkVars, productVars, facetVars, searchVars, pickerVars, reportVars>>
  \/ scene = "picker" /\ PickerNext
     /\ UNCHANGED <<scene, builderVars, cartPageVars, bulkVars, productVars, facetVars, searchVars, indexVars, reportVars>>
  \/ scene = "report" /\ ReportNext
     /\ UNCHANGED <<scene, builderVars, cartPageVars, bulkVars, productVars, facetVars, searchVars, indexVars, pickerVars>>

Spec == Init /\ [][Next]_<<scene, allParts>>
=============================================================================
