----------------------------- MODULE ApiRoutes ------------------------------
(***************************************************************************)
(* One button of the app and its endpoint (web/api.ts, app.ts,             *)
(* api-router.ts, admin-graphql.ts): the steps a route takes, what each    *)
(* may throw, the error the merchant is shown, and the merchant who        *)
(* presses again because of it, also while the server is still busy with   *)
(* a press whose answer was lost.                                          *)
(***************************************************************************)
EXTENDS Naturals, Sequences

CONSTANT MaxPresses   \* bound: how often the merchant presses

ASSUME RoutesAssumption == MaxPresses \in Nat \ {0}

Routes == {"bundles", "starter", "update", "delete", "candidates", "export",
           "exportStatus", "jobs", "retry", "prepare"}
Presses == 1..MaxPresses

VARIABLES
  route,     \* the endpoint of the button
  object,    \* what it acts on: a routine set ("none", "there", "busy": another tab
             \* is writing its slots, "gone"), or a job ("failed", "queued", "gone");
             \* "none": no export in flight
  presses,   \* presses so far
  stage,     \* of each press, the step the server is at
  free,      \* presses that saw no export in flight
  answer,    \* what the press the screen waits for got: "none", "ok", or an error code
  screen,    \* "idle", "waiting", "ok", or the error shown
  cause,     \* history: who failed that press: "none", "merchant", "shopify", "app",
             \* "other": the object changed between its read and its write
  effects,   \* history: things made or queued
  done,      \* history: presses whose change was made
  lost,      \* history: presses whose answer, or their commit's, was lost
  overlap,   \* history: a press began while the server was at an earlier one
  ended      \* history: somebody else changed the object
routeVars == <<route, object, presses, stage, free, answer, screen, cause, effects, done, lost,
               overlap, ended>>

\* Mutation: the starter set's products are fetched again once it is stored.
MutStepsOf(r) ==
  CASE r = "starter" -> <<"session", "shopify", "check", "create", "shopify">>
    [] OTHER -> <<"session", "db">>

\* What a route does, in order; the last step is followed by the answer.
StepsOf(r) ==
  CASE r = "bundles" -> <<"session", "db", "shopify">>
    [] r = "starter" -> <<"session", "shopify", "check", "create">>
    [] r = "update" -> <<"session", "validate", "db", "shopify", "check", "change">>
    [] r = "delete" -> <<"session", "delete">>
    [] r = "candidates" -> <<"session", "shopify">>
    [] r = "export" -> <<"session", "look", "enqueue", "db">>
    [] r \in {"exportStatus", "jobs"} -> <<"session", "db">>
    [] r = "retry" -> <<"session", "requeue", "db">>
    [] r = "prepare" -> <<"session", "shopify", "define", "define">>

Over == Len(StepsOf(route)) + 1
Busy(p) == stage[p] < Over
At(p, step) == Busy(p) /\ StepsOf(route)[stage[p]] = step

RouteInit ==
  /\ route \in Routes
  /\ object = CASE route = "retry" -> "failed"
                [] route \in {"update", "delete"} -> "there"
                [] OTHER -> "none"
  /\ presses = 0 /\ stage = [p \in Presses |-> Over] /\ free = {}
  /\ answer = "none" /\ screen = "idle" /\ cause = "none"
  /\ effects = 0 /\ done = {} /\ lost = {} /\ overlap = FALSE /\ ended = FALSE

Press ==
  /\ screen \notin {"waiting", "ok"} /\ presses < MaxPresses
  /\ presses' = presses + 1 /\ screen' = "waiting"
  /\ stage' = [stage EXCEPT ![presses + 1] = 1] /\ answer' = "none" /\ cause' = "none"
  /\ overlap' = (overlap \/ \E p \in Presses : Busy(p))
  /\ UNCHANGED <<route, object, free, effects, done, lost, ended>>

-----------------------------------------------------------------------------
(* Errors.                                                                 *)

\* What client.request throws: a GraphqlQueryError with the array of errors or
\* without, an HttpResponseError, another Error, or no Error at all.
ThrownShapes == {"graphql", "graphqlBare", "http", "error", "other"}

\* errorsFromThrown: the response that stands for it.
ErrorsFrom(shape) ==
  CASE shape = "graphql" -> {"graphQLErrors", "message"}
    [] shape = "http" -> {"networkStatusCode", "message"}
    [] OTHER -> {"message"}

\* unwrap throws an AdminApiError for any of them, and for no data.
Unwrapped(errors, data) == IF errors # {} \/ ~data THEN "AdminApiError" ELSE "none"

\* apiErrorHandler
CodeOf(thrown) ==
  CASE thrown = "BundleValidationError" -> "validation"
    [] thrown \in {"BundleNotFoundError", "JobNotRetryableError"} -> "not_found"
    [] thrown \in {"UserErrorsError", "AdminApiError"} -> "shopify_api"
    [] OTHER -> "internal"

\* A press is at an end, answered with code; nobody hears of one whose request was
\* given up.
Replies(p, code, who) ==
  /\ stage' = [stage EXCEPT ![p] = Over]
  /\ IF p = presses /\ screen = "waiting"
     THEN answer' = code /\ cause' = who
     ELSE UNCHANGED <<answer, cause>>

Throw(p, thrown, who) ==
  /\ Replies(p, CodeOf(thrown), who)
  /\ UNCHANGED <<route, object, presses, free, screen, effects, done, lost, overlap, ended>>

\* On to the next step, or to the answer.
Advances(p) ==
  IF stage[p] = Len(StepsOf(route))
  THEN Replies(p, "ok", "none")
  ELSE stage' = [stage EXCEPT ![p] = @ + 1] /\ UNCHANGED <<answer, cause>>

Passes(p) ==
  /\ Advances(p)
  /\ UNCHANGED <<route, object, presses, free, screen, effects, done, lost, overlap, ended>>

\* A statement that changes the object; its commit may go unheard.
Writes(p, made) ==
  /\ effects' = effects + made /\ done' = done \cup {p}
  /\ \/ Advances(p) /\ lost' = lost
     \/ Replies(p, CodeOf("Error"), "app") /\ lost' = lost \cup {p}
  /\ UNCHANGED <<route, presses, free, screen, overlap, ended>>

-----------------------------------------------------------------------------
(* The steps.                                                              *)

\* validateAuthenticatedSession turns the request away, without our envelope.
Session(p) ==
  /\ At(p, "session")
  /\ \/ Passes(p)
     \/ /\ Replies(p, "unauthenticated", "merchant")
        /\ UNCHANGED <<route, object, presses, free, screen, effects, done, lost, overlap, ended>>

Validate(p) ==
  At(p, "validate") /\ (Passes(p) \/ Throw(p, "BundleValidationError", "merchant"))

\* Also the row that retryJob reads back, which may have been erased.
Database(p) ==
  /\ At(p, "db")
  /\ \/ object # "gone" /\ Passes(p)
     \/ object = "gone" /\ route = "update" /\ Throw(p, "BundleNotFoundError", "merchant")
     \/ object = "gone" /\ route = "retry" /\ Throw(p, "Error", "other")
     \/ Throw(p, "Error", "app")

CallShopify(p) ==
  /\ At(p, "shopify")
  /\ \/ Passes(p)
     \/ \E shape \in ThrownShapes : Throw(p, Unwrapped(ErrorsFrom(shape), FALSE), "shopify")
     \/ Throw(p, Unwrapped({}, FALSE), "shopify")

\* createStarterBundle finds no product for a step; updateBundle must not
\* activate the set.
Check(p) ==
  At(p, "check") /\ (Passes(p) \/ Throw(p, "BundleValidationError", "merchant"))

Create(p) ==
  /\ At(p, "create")
  /\ \/ Writes(p, 1) /\ object' = "there"
     \/ Throw(p, "Error", "app")

\* The transaction of updateBundle: a set that is gone by now is Prisma's error and
\* not ours, as are slots that another transaction has replaced meanwhile.
Change(p) ==
  /\ At(p, "change")
  /\ \/ object # "gone" /\ Writes(p, 0) /\ UNCHANGED object
     \/ /\ object # "there" \/ \E q \in Presses \ {p} : At(q, "change")
        /\ Throw(p, "Error", "other")
     \/ Throw(p, "Error", "app")

\* deleteBundle: none deleted is 404.
Delete(p) ==
  /\ At(p, "delete")
  /\ \/ object = "there" /\ Writes(p, 0) /\ object' = "gone"
     \/ object = "gone" /\ Throw(p, "BundleNotFoundError", "merchant")
     \/ Throw(p, "Error", "app")

\* requestCatalogExport looks for one in flight, and enqueues one if it saw none.
Look(p) ==
  /\ At(p, "look")
  /\ \/ /\ Advances(p)
        /\ free' = IF object = "queued" THEN free \ {p} ELSE free \cup {p}
        /\ UNCHANGED <<route, object, presses, screen, effects, done, lost, overlap, ended>>
     \/ Throw(p, "Error", "app")

Enqueue(p) ==
  /\ At(p, "enqueue")
  /\ \/ p \notin free /\ Passes(p)
     \/ p \in free /\ Writes(p, 1) /\ object' = "queued"
     \/ p \in free /\ Throw(p, "Error", "app")

\* retryJob: the row that is still FAILED or DEAD.
Requeue(p) ==
  /\ At(p, "requeue")
  /\ \/ object = "failed" /\ Writes(p, 1) /\ object' = "queued"
     \/ object # "failed" /\ Throw(p, "JobNotRetryableError", "merchant")
     \/ Throw(p, "Error", "app")

\* ensureStoreDefinitions: the metaobject definition, then the others.
Define(p) ==
  /\ At(p, "define")
  /\ \/ /\ Advances(p) /\ done' = done \cup {p}
        /\ UNCHANGED <<route, object, presses, free, screen, effects, lost, overlap, ended>>
     \/ Throw(p, "UserErrorsError", "shopify")
     \/ Throw(p, Unwrapped(ErrorsFrom("http"), FALSE), "shopify")

-----------------------------------------------------------------------------
(* The screen, and the others.                                             *)

\* request: the answer arrives, and is what the schema says, or an error.
Receive ==
  /\ screen = "waiting" /\ answer # "none"
  /\ screen' = answer
  /\ UNCHANGED <<route, object, presses, stage, free, answer, cause, effects, done, lost, overlap, ended>>

\* fetch rejects, or the body is not what the schema says.  The server may be
\* anywhere in its steps, and goes on with them.
Lose ==
  /\ screen = "waiting"
  /\ screen' = "unreachable" /\ lost' = lost \cup {presses} /\ answer' = "none"
  /\ UNCHANGED <<route, object, presses, stage, free, cause, effects, done, overlap, ended>>

others == <<route, presses, stage, free, answer, screen, cause, effects, done, lost, overlap>>

\* At any time, once: the worker ends the job, so that the export is over or the
\* job has failed again; another merchant asks for an export; the job is erased;
\* another tab deletes the set, or begins to write its slots.
Elsewhere ==
  /\ ~ended /\ ended' = TRUE
  /\ \/ object = "queued" /\ object' = IF route = "export" THEN "none" ELSE "failed"
     \/ route = "export" /\ object = "none" /\ object' = "queued"
     \/ route \in {"retry", "update", "delete"} /\ object # "gone" /\ object' = "gone"
     \/ route = "update" /\ object = "there" /\ object' = "busy"
  /\ UNCHANGED others

OtherTabEnds ==
  /\ object = "busy" /\ object' = "there"
  /\ UNCHANGED <<others, ended>>

RouteNext ==
  \/ Press \/ Receive \/ Lose \/ Elsewhere \/ OtherTabEnds
  \/ \E p \in Presses :
       \/ Session(p) \/ Validate(p) \/ Database(p) \/ CallShopify(p) \/ Check(p)
       \/ Create(p) \/ Change(p) \/ Delete(p)
       \/ Look(p) \/ Enqueue(p) \/ Requeue(p) \/ Define(p)
RouteSpec == RouteInit /\ [][RouteNext]_routeVars

-----------------------------------------------------------------------------
\* An error tells the merchant what to do.  It blames Shopify exactly when Shopify
\* failed; "our side" is to blame, but for a set or a job that somebody else erased
\* or rewrote between this request's read and its write.  What failed was not done,
\* but for a job that was queued before the app failed to read it back, a commit
\* that the app did not hear of, and definitions made before one was refused.  And
\* pressing again does the thing a second time only for a starter set whose answer
\* was lost, for an export asked for while the server was still at an earlier press,
\* or for a job that somebody else ended in between.
ErrorsAreTrue ==
  /\ screen = "shopify_api" => cause = "shopify"
  /\ screen = "internal" =>
       cause = "app" \/ (cause = "other" /\ (ended \/ (route = "update" /\ overlap)))
  /\ screen \in {"validation", "shopify_api", "internal"} /\ presses \in done =>
       \/ route = "prepare"
       \/ screen = "internal" /\ (route \in {"export", "retry"} \/ presses \in lost)
  /\ effects > 1 => \/ ended
                    \/ route = "starter" /\ lost # {}
                    \/ route = "export" /\ overlap
=============================================================================
