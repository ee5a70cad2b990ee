----------------------------- MODULE StoreSetup -----------------------------
(***************************************************************************)
(* The definitions the theme needs, created by the app itself              *)
(* (store-setup.ts): after an install (store-preparation.ts) and at the    *)
(* "Prepare store" button, so that two runs can work on one shop at once.  *)
(* A metaobject definition is a number, its id; a metafield definition is  *)
(* the id it validates against.                                            *)
(***************************************************************************)
EXTENDS Naturals, FiniteSets

CONSTANTS
  SetupRuns,     \* runs of ensureStoreDefinitions
  Installs,      \* those that an install starts, the others are the button's
  MaxObjects     \* bound: metaobject definitions ever created in the shop

ASSUME SetupAssumption == Installs \subseteq SetupRuns /\ MaxObjects \in Nat

NoDefinition == 0
NotOurs == MaxObjects + 1     \* a merchant's own definition under our key

VARIABLES
  store,      \* the shop's definitions: object, step (routine_step), ingredients
  objects,    \* metaobject definitions ever created
  deletions,  \* history: definitions the merchant deleted
  setup       \* what each run is about to do, the id it holds, its results
setupVars == <<store, objects, deletions, setup>>

SetupInit ==
  /\ store \in [object: {NoDefinition}, step: {NoDefinition, NotOurs},
                ingredients: {NoDefinition, NotOurs}]
  /\ objects = 0 /\ deletions = 0
  /\ setup = [r \in SetupRuns |->
       [at |-> IF r \in Installs THEN "session" ELSE "find",
        id |-> NoDefinition, results |-> {}]]

Goes(r, at) == setup' = [setup EXCEPT ![r].at = at]
GoesWith(r, at, id, definition, outcome) ==
  setup' = [setup EXCEPT ![r] =
    [at |-> at, id |-> id, results |-> @.results \cup {<<definition, outcome>>}]]

\* afterAuth reads the offline session: it is there, or it is not and nothing is
\* prepared, or the database is down, which the try does not cover.
LoadSession(r) ==
  /\ setup[r].at = "session"
  /\ Goes(r, "find") \/ Goes(r, "skipped") \/ Goes(r, "threw")
  /\ UNCHANGED <<store, objects, deletions>>

\* metaobjectDefinitionByType, before the create and, after a refused one, again.
FindObject(r) ==
  /\ setup[r].at \in {"find", "reread"}
  /\ IF store.object # NoDefinition
     THEN GoesWith(r, "step", store.object, "object", "already_present")
     ELSE Goes(r, IF setup[r].at = "find" THEN "create" ELSE "failed")
  /\ UNCHANGED <<store, objects, deletions>>

\* What Shopify answers to a create: the key is TAKEN, or the definition is
\* made, or it is refused for another reason.
Answers(present) == IF present THEN {"TAKEN"} ELSE {"made", "INVALID"}

\* Mutation: every userError passes for "already exists".
MutTolerated(code) == TRUE

\* The codes assertNoUserErrors lets through; for any other it throws.
Tolerated(code) == code \in {"TAKEN", "UNSTRUCTURED_ALREADY_EXISTS"}

CreateObject(r) ==
  /\ setup[r].at = "create" /\ objects < MaxObjects
  /\ \E code \in Answers(store.object # NoDefinition) :
       IF code = "made"
       THEN /\ store' = [store EXCEPT !.object = objects + 1]
            /\ objects' = objects + 1
            /\ GoesWith(r, "step", objects + 1, "object", "created")
       ELSE /\ Goes(r, IF Tolerated(code) THEN "reread" ELSE "failed")
            /\ UNCHANGED <<store, objects>>
  /\ UNCHANGED deletions

Following(field) == IF field = "step" THEN "ingredients" ELSE "reported"

\* metafieldDefinitionCreate: ingredients validates against the id the run holds,
\* and Shopify refuses an id that no metaobject definition has.
CreateField(r, field) ==
  /\ setup[r].at = field
  /\ \E code \in Answers(store[field] # NoDefinition) :
       IF code = "made"
       THEN /\ field = "ingredients" => setup[r].id = store.object
            /\ store' = [store EXCEPT ![field] = setup[r].id]
            /\ GoesWith(r, Following(field), setup[r].id, field, "created")
       ELSE /\ IF Tolerated(code)
               THEN GoesWith(r, Following(field), setup[r].id, field, "already_present")
               ELSE Goes(r, "failed")
            /\ UNCHANGED store
  /\ UNCHANGED <<objects, deletions>>

\* A call throws: nothing was done, or a definition was made and the answer lost.
CallFails(r) ==
  /\ setup[r].at \in {"find", "reread", "create", "step", "ingredients"}
  /\ Goes(r, "failed")
  /\ UNCHANGED deletions
  /\ \/ UNCHANGED <<store, objects>>
     \/ /\ setup[r].at = "create" /\ store.object = NoDefinition /\ objects < MaxObjects
        /\ store' = [store EXCEPT !.object = objects + 1] /\ objects' = objects + 1
     \/ \E field \in {"step", "ingredients"} :
          /\ setup[r].at = field /\ store[field] = NoDefinition
          /\ field = "ingredients" => setup[r].id = store.object
          /\ store' = [store EXCEPT ![field] = setup[r].id]
          /\ UNCHANGED objects

\* A run is over; the merchant presses the button.
PrepareAgain(r) ==
  /\ setup[r].at \in {"failed", "skipped"}
  /\ setup' = [setup EXCEPT ![r] = [at |-> "find", id |-> NoDefinition, results |-> {}]]
  /\ UNCHANGED <<store, objects, deletions>>

\* The merchant deletes the metaobject definition; Shopify deletes with it the
\* metafield definition that refers to it.
DeleteObject ==
  /\ store.object # NoDefinition /\ deletions = 0
  /\ deletions' = 1
  /\ store' = [store EXCEPT !.object = NoDefinition,
                 !.ingredients = IF @ = store.object THEN NoDefinition ELSE @]
  /\ UNCHANGED <<objects, setup>>

SetupNext ==
  \/ \E r \in SetupRuns :
       \/ LoadSession(r) \/ FindObject(r) \/ CreateObject(r)
       \/ \E field \in {"step", "ingredients"} : CreateField(r, field)
       \/ CallFails(r) \/ PrepareAgain(r)
  \/ DeleteObject
SetupSpec == SetupInit /\ [][SetupNext]_setupVars

-----------------------------------------------------------------------------
\* The report is true, whatever ran beside it: unless the merchant deleted one,
\* all three definitions are in the shop once a run has reported, ingredients
\* refers to the metaobject definition there is (or was the merchant's own), and
\* no two runs say that they created the same definition.
ReportIsTrue ==
  deletions = 0 =>
    \A r \in SetupRuns : setup[r].at = "reported" =>
      /\ NoDefinition \notin {store.object, store.step, store.ingredients}
      /\ store.ingredients \in {store.object, NotOurs}
      /\ \A s \in SetupRuns \ {r}, d \in {"object", "step", "ingredients"} :
           ~ {<<d, "created">>} \subseteq setup[r].results \cap setup[s].results
=============================================================================
