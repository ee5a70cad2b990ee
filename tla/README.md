# Verification of the Shopify production foundation

TLA+ models of the admin app and its integration layer
(`apps/admin-app/src/server`, `packages/shared`, `prisma/schema.prisma`), of its
screens (`apps/admin-app/src/web`) and of the parts of the storefront theme that
keep state (`theme/assets`), the TLC configurations that check them on small
instances, and proofs, checked by TLAPS, of what matters most for instances of
every size. File names without a directory below are under
`src/apps/admin-app/src/server/`.

## 1. The system

One Node process serves HTTP and runs one queue worker; several such processes
may share one PostgreSQL database (rolling deploys, restarts). Everything that
outlives a request is in five tables: `Session`, `Bundle`, `BundleItem`,
`WebhookDelivery`, `Job`.

| Part | State | Operations | Talks to |
|---|---|---|---|
| webhook endpoint (`webhook-router.ts`, `webhook-verify.ts`, `webhook-payload.ts`) | `WebhookDelivery`, `Job` | verify, record delivery and job in a transaction, answer | Shopify, queue |
| job queue (`queue.ts`) | `Job` rows: status, attempts, lock, runAt | enqueue, claim, complete, reschedule, fail, reap | worker, sync log |
| worker (`worker.ts`) | the batch it holds, tick counter, running flag | tick: reap, claim, run handlers in sequence; start, stop | queue, handlers |
| job handlers (`job-handlers.ts`) | none of their own | order.received, product.reconcile, shop.cleanup, compliance.request, inventory.push, catalog.export | tables, Admin API |
| catalog export (`catalog-export.ts`) | the operation id in a job's payload, the report in its result | request, start, poll, summarise | Admin API, queue |
| routine sets (`bundles.ts`, `shared/bundle.ts`) | `Bundle`, `BundleItem` | list, create, update, delete, product picker | Admin API |
| sync log (`sync-log.ts`) | `Job` | list, retry | screens |
| Admin API loops (`throttle.ts`, `store-setup.ts`, `inventory.ts`) | a bucket reading | paced calls, idempotent setup, inventory write | Admin API |
| shutdown (`shutdown.ts`, `index.ts`) | a started flag | stop worker, close server, grace period, disconnect | worker |
| API (`api-router.ts`, `app.ts`, `admin-graphql.ts`, `user-errors.ts`) | none of its own | one route per button; errors become what the merchant reads | all of the above, screens |
| screens (`web/*.tsx`, `web/api.ts`) | what is shown, which buttons are busy, requests under way | load, create, edit, delete, prepare, export, poll, retry | API |
| routine on the storefront (`theme/assets/bundle-builder.js`) | the click under way; the cart is Shopify's | add a set, take back a partial add, say why | Ajax Cart API |
| cart page, bulk ordering, product page, search (`theme/assets/*.js`) | inputs, debounces, queues, promises, caches, the browser's history | change lines, order many variants, select and add a variant, filter, search | Ajax Cart API, section rendering |

What is hard in it: deliveries come more than once and overlap; a worker may
die, or be so slow that its rows are given to another while it still runs; any
statement may fail or succeed unheard; handlers are cut off between two
statements and run again; screens and jobs read the catalog at one moment and
write at another; the merchant presses Retry, uninstalls and comes back at any
time. In a browser, requests overlap, answers overtake each other or are lost,
and each answer replaces what is on the page. What makes each part correct:

* endpoint: a 200 means the job is in the queue; one delivery, one job.
* queue and worker: an attempt belongs to one worker; nobody else's outcome
  counts; the budget is never exceeded and never strands a row; every row is
  served and settles.
* erasing handlers: when one reports success, what it was asked to erase is
  gone, whatever the interruptions, and nothing of anyone else's is.
* catalog export: a report comes from an operation that completed, waiting is
  free, a retry resumes instead of starting again, and the export ends.
* routine sets: an active set holds products that fit their steps; a create
  finds a handle; what a walk over the catalog says of it is so.
* Admin API loops: nothing is refused through the gate's own arithmetic; a setup
  report is true; a stock level takes each quantity once.
* shutdown: the connection is closed once, and on an idle process while the grace
  period lasts.
* API: an error tells the merchant what happened.
* screens and storefront: once nothing is under way, what is shown is what there
  is, or one of a short list of known causes explains it; and what was asked for
  last is what counts.

`PROJECT.json` lists the hazards at their lines, with the properties that
cover them, and every component, modelled or not.

## 2. The modules

| Module | Models |
|---|---|
| `JobQueue` | the `Job` table and any number of worker processes |
| `LeasedQueue` | what the queue promises: jobs handed out under a lease |
| `JobQueueRefinement` | the mapping under which `JobQueue` implements `LeasedQueue` |
| `JobQueueProofs` | theorems about `JobQueue`: its invariants, what a step may do to a row, and that it implements `LeasedQueue` |
| `DeliveryLog` | what `acceptDelivery` promises: delivery and job in one step |
| `WebhookIntake` | the endpoint's requests, statement by statement |
| `WebhookIntakeProofs` | theorems about `WebhookIntake` |
| `ShopData` | the erasing handlers over what the app stores, on top of `DeliveryLog` |
| `ShopDataClaims` | a claim of the comments about uninstalling |
| `ShopDataProofs` | theorems about `ShopData` |
| `CatalogExport` | the export handler, its row, the requests and Shopify's operations |
| `CatalogExportRefinement` | the mapping under which `CatalogExport` implements `LeasedQueue` |
| `CatalogExportProofs` | theorems about `CatalogExport`, and that it implements `LeasedQueue` |
| `ResultFile` | the download of the result file and its summary |
| `ResultFileProofs` | theorems about `ResultFile` |
| `Bundles` | edits of routine sets against product changes and product.reconcile |
| `BundlesProofs` | theorems about `Bundles` |
| `BundleHandles` | concurrent creates and the unique index on handles |
| `CatalogScan` | the walks over the catalog: starter set, picker, list |
| `ThrottleGate` | the gate that paces a loop, against Shopify's bucket |
| `StoreSetup` | two runs that create the definitions of one store |
| `InventoryPush` | attempts of inventory.push for one stock level |
| `ShutdownOrder` | signals, server, worker loop, timer, disconnect |
| `ApiRoutes` | the steps of each route, and a merchant who presses again |
| `ServerProofs` | theorems about the seven parts of the server above, from `BundleHandles` on |
| `SyncLog`, `CatalogReport` | the two sections of the app that poll |
| `BundleIndex` | the list of sets, the editor over it, and its slots |
| `BundleBuilder` | a routine added to the cart, and taken back |
| `CartPage` | the lines of the cart page |
| `BulkOrder` | the quick order list and the quick add card, over `BulkAdd` |
| `ProductPage` | options, form, quantity rules, pickup |
| `StoreSearch` | filters of a collection; predictive search |
| `ScreenProofs` | theorems about the parts in a browser, `CatalogReport` to `StoreSearch` |

`MC*.tla` give TLC the constants' values and symmetries. `MCAdminApp` and
`MCScreens` put parts side by side that share no variable. Their variable
`scene` says which part a behaviour is about; the others keep one initial state.
As no action of a part reads a variable of another, and every property is about
one part, the states and behaviours of each part are those it has alone: nothing
is lost against a run for each, and nothing is gained by their product.

### JobQueue

`row` is the table. `due` and `earlier` stand for `runAt` (which rows are due,
and in what order), `stale` for a `lockedAt` outside the stale window; time is
the steps `BecomeDue` and `LockGoesStale`, so any backoff and any length of
handler is allowed. Of `pc`, `batch`, `current`, `ticks`, `stopping` a worker
has one each: they are the loop of `worker.ts`. A member of `Workers` is one
incarnation of the process, because `lockedBy` holds a fresh UUID. Every SQL
statement is one action and answers, is refused, or commits and loses its answer
(`DbResult`). `expired` is a history variable: claims that a worker still acts
on and that are no longer its own.

Abstracted: the skew between the clocks of two processes; the two updates of
the reaper use one cutoff, here the sets they see at their own moments.
`heldClaim` also compares `attempts`; with fresh worker ids and a sequential
loop the comparison of `lockedBy` decides, and the model keeps both.

### DeliveryLog, WebhookIntake

A request carries one copy of a delivery; the `WebhookDelivery` row and the job
are named by the request that wrote them. `request` is where its handler is.
The row lock that `INSERT ... ON CONFLICT DO NOTHING` waits for is the guard
`~Locked(r)`. The topics are those of `JOB_KIND_BY_TOPIC`, each of which has a
job kind. `DeliveryLog` is the abstraction: one step, `Accept`.

### ShopData

EXTENDS `DeliveryLog` and adds the other tables, the installs of each shop and
the handlers, one delete statement a step. Of the queue only the lease is kept:
a held job may go back to waiting while its handler runs on, a worker may die,
a failed attempt may be repeated (which also covers the merchant's Retry).
`remaining` is a history variable: what each handler was to erase when it began
and has not been erased since. It starts with every shop uninstalled, the
situation in which redactions arrive.

### CatalogExport

The row's payload is the recorded operation id, its result the operation the
report is of. An attempt keeps the payload that its claim returned. The
handler's own writes are by row id, without the claim, as in the code; the
outcomes go through the claim. Reading the result file is one step that
succeeds or throws. What the module keeps of the queue implements `LeasedQueue`,
as `JobQueue` does, so nothing is claimed of the export that rests on a queue it
does not have.

### Bundles

`serves` is Shopify's side: the step an active product is for, `None` when it
is a draft, archived or has none, `Deleted` when it is gone. `edit` is what each
request read; it fetches the catalog and writes later. `check` is the
product.reconcile job, in its three steps; `notices` are the products whose
products/update is not yet handled (intake and queue are other modules: a
notice is never lost). `DRAFT` stands for
`ARCHIVED` too. A set is created from products that fit when it is written: a new set is a draft, and
what drafts hold matters only when one is activated. `blind` and `raced` are history
variables: requests whose premises changed after they read them, and sets that
such a request wrote last.

### BundleHandles, CatalogScan

A handle is its ordinal; the shop starts with the sets some earlier creates left.
Read, insert, collide and retry are separate steps; deletions happen in between.
Titles and handles are never edited (`bundleUpdateSchema` has no handle), so
every handle is one of the numbered ones.

The catalog is products in the order Shopify pages through them, each inactive,
without a step, for a step, or gone; the merchant may change one between two
pages. `walk` is a request: for the starter set (the first of each step), for the
picker (up to `Quota` of each) or for a list (the lookup in batches of ids).
`steady` is a history variable: the products nobody changed meanwhile.

### ThrottleGate, StoreSetup, InventoryPush, ShutdownOrder, ResultFile

`ThrottleGate` keeps two buckets: Shopify's, which other requests spend from,
and the gate's reading of it. Points are whole and time is ticks of the refill;
rounding and jitter are in percent, as in the code. `spent` is what others spent
since the reading.

`StoreSetup` has one action per call. A definition is a number, so that one
deleted and created again is another. An answer is created, TAKEN, or another
refusal. A run that failed may be started again at the button.

`InventoryPush` takes of the queue what lets two attempts of a row overlap: claim,
stale lock, outcome under the claim, Retry. Shopify keeps the keys it has seen.

`ShutdownOrder` keeps the rows that are RUNNING under this worker, those of the tick
under way that have not run, and the number of requests in flight. A tick may end in
an exception: the answer to the claim is lost, or the statement that records an
outcome throws inside `runOne` (`ThrowTick`), and the rest of the batch stays RUNNING
until the reaper finds it (`ReapRow`). `abandoned` is a history variable, the rows
lost in this way. `EndWait` is the race with the timer, which may win at any moment.

`ResultFile` reads a file of any bytes in chunks of any length, cut also within a
character of two bytes, as `readLines` does: `held` is what the decoder keeps of an
unfinished character, `carry` the text after the last line that was yielded, and a
line is counted when it is yielded. One byte stands for what a row is, the others
are its title; products are told apart by where their line stands in the file.

### ApiRoutes

`stage` says at which of the route's steps the server is, for every press: a press
whose answer was lost goes on while the merchant presses again, so that two may look
for an export in flight before either enqueues one (`Look`, `Enqueue`). `object` is
what the route is about: a set, a job, the export; others may erase or rewrite it
between two steps (`Elsewhere`). An update whose set is gone at its write is answered
`internal`, as Prisma's error is no error of ours; a delete is answered `not_found`.
Every step may throw what the code throws there, and the screen shows the error the
router makes of it. `cause`, `effects`, `done`, `lost`, `overlap` and `ended` are history
variables: who failed, what was written, and why a second press could write again.

### SyncLog, CatalogReport, BundleIndex

A request is asked, read and answered in separate steps, in any order with
others. `SyncLog` keeps the statuses of rows and how a timer goes on asking.
`CatalogReport` reads the newest job and the newest report in two steps.
`BundleIndex` keeps of a set the product in one slot; all editors share one modal
id, so the answer to a dismissed one hides the next. Its `slot` and `picker` are
a second, independent part: what a slot offers depends on the candidates alone.
`incidents`, `overtaken`, `torn` and `refetched` are history variables, the known
reasons for which a screen may be behind.

### BundleBuilder, CartPage, BulkOrder, ProductPage, StoreSearch

The Ajax Cart API and section rendering are external and modelled by how the
scripts use them: a cart of lines or of quantities, a stock that a change is cut
down to or refused for, an answer, an error, or none. A timer (debounce, the
interval of `BulkAdd`) is a step that may come at any time after its event, so no
order of two timers is assumed. An item, a variant, a filter choice is a model
value. Each module has one history variable of mishaps (`wronged`, `mishaps`,
`slips` and `excused`, `late`, `blemishes` and `straggler`); a property says that
what is shown is right, or names the mishap that explains it, and a rendering
clears what it repairs.

In `CartPage` a change event waits for the debounce, and the value that is checked
and sent is the one its input holds then (`InputValue`; an input that a rendering
replaced keeps its own); one below the minimum, above the maximum or off the step is
put back and not sent (`Valid`). In `ProductPage` every change of the cart that the
page publishes, the form's or the drawer's, asks for the rules of the variant then in
the form (`FetchQuantityRules`), and an answer counts the cart as it was when it was
read. In `StoreSearch` an error page is cached and rendered like any other: it takes
the filters away and throws, and so does every rendering after it (`Throws`); and a
change of the search field may throw before the new term is noted (`TermChanges`).

## 3. What is checked

| Run | Shows | Bounds |
|---|---|---|
| `queue_safety` | `NeverStranded`, `ColumnsAgree`, `ClaimIdentity`, `OwnAttemptOnly`, `FinishedIsFinal`, and that the queue implements `LeasedQueue` | 2 rows (budgets 2 and 1, one polls, one redacts), 2 incarnations, batches of 2, a reaper every second tick |
| `queue_liveness` | `NoStarvation`, `AttemptsEnd`, `EverythingSettles` | 2 rows, one polling for ever, one of a kind without a handler; 2 incarnations, batches of 1 |
| `webhook_intake` | `OneJobPerDelivery`, `AckMeansQueued`, `EveryRequestEnds`, implements `DeliveryLog` | 5 requests: three copies of one delivery, one of a second, one that does not verify |
| `shop_data` | `Erased`, `ErasedForCause`, `SecondJobNeedsRedaction` | 2 shops, 2 workers, up to two copies of a delivery, four mailings of two topics (one of them of a topic that names no customer), one reinstall |
| `dead_tokens` | violated: `CleansUpDeadTokens` | the same |
| `catalog_export` | `ReportIsReal`, `ResumesPolling`, `DeadIsEarned`, `ExportEnds`, and that the export implements `LeasedQueue` | 1 export, 2 workers, 2 operations, 2 attempts |
| `export_id` | violated: `IdOutlivesAttempt` | the same |
| `bundles` | `HonestUnlessRaced` | 1 set of 2 steps, 2 products, 2 requests, 1 worker |
| `bundles_race` | violated: `OneInvariant` | the same |
| `admin_app` | `RefusedOnlyIfUnforeseen`, `ReportIsTrue`, `ScanTellsTruth`, `WrittenOnce`, `DisconnectsIdle`, `ReportAddsUp`, `ErrorsAreTrue`, `GivesUpOnlyIfOvertaken`, `LogCatchesUp` | bucket of 8, 3 calls; 2 setups; 5 products in pages of 2, one edit; 2 pushes of 2 attempts; 3 jobs in batches of 2, 2 requests, 2 signals; files of up to 2 lines; 3 presses; 3 creates of 2 attempts; 2 rows, 4 changes, 2 requests, one lost |
| `picker_partial` | violated: `PickerSaysPartial` | the catalog of 5 products, 2 of a step kept |
| `screens` | `WholeOrNothing`, `PageShowsCart`, `LastQuantityCounts`, `OffersWhatIsSelected`, `SearchAgrees`, `ScreenKeepsFaith`, `StopsForCause` | 2 steps, 2 clicks, 2 in stock; 2 cart lines under a rule (at least 2, in twos, at most 4), 2 requests, 3 acts; 2 variants in bulk, 2 requests, 3 acts; 2 variants at most 1 of each, 2 selections, 1 add, 1 change by others; 2 filters and 3 terms, 4 acts each; 1 set, 2 products, 2 lists, 2 editors; 2 exports, 2 polls |

Why the bounds are enough to be interesting. Two incarnations suffice for a
late worker against its successor, and with two rows for a batch whose second
row is lost while the first runs; the budgets 2 and 1 give a retry and a last
attempt. Three copies of a delivery give a second that waits for the first while
a third finds what the first left; the proofs cover any number. Two operations give a lost one and its successor; the
model has no more to start, and Shopify then refuses, which the handler takes
for a failure. Two requests and one worker give every interleaving of two
reads and two writes on one set. Three creates with two attempts allow a request
to be overtaken just often enough and just not often enough. Five products in
pages of two, with two pages read at most, reach the end of the catalog, the
page cap, a full step and a stop in the middle of the last page. A file of two
lines is cut within a line, within a character, at and before a newline. In a
browser two requests under way are enough for one to overtake another, and one
act more than requests for something to wait behind both; each mishap that a
property names was seen to be needed: without it TLC finds it violated.

Deadlock is not checked where the system may stop: all requests answered, all
incarnations of the worker gone, all creates done, the customer or the merchant
at the bound of what they do. The `.cfg` says so.

### Fairness

* `JobQueue`: every process that is up goes on (the event loop runs each
  statement and each handler to its end), clocks advance, and the database
  fails only finitely often. A crash or a stop happens only when another worker
  is up or can start: the platform keeps one running. Nothing is assumed of
  merchants, of crashes beyond that, or of which step wins a race.
* `WebhookIntake`: a request that arrived is worked on.
* `CatalogExport`: workers go on, a waiting row is claimed (shown for the queue
  by `NoStarvation`), the reaper comes round for rows nobody holds, and Shopify
  ends the operations it runs. `ExportEnds` supposes that Retry is not pressed
  for ever.
* `SyncLog`: `setInterval` goes on firing while the screen is mounted, a request
  is read and answered, and a reload that waits for a free slot gets one. Only
  finitely many requests fail, and the rows change finitely often
  (`MaxErrors`, `MaxChanges`): `LogCatchesUp` is about the time after that. The
  other parts of `admin_app` have no fairness, and theirs are safety properties.

### What the violations show

1. `dead_tokens`: shop.cleanup that runs after a reinstall deletes the new
   session. `job-handlers.ts:286-289` takes every session for dead.
2. `export_id`: an attempt that lost its row still writes or clears the
   operation id, over what its successor recorded. `job-handlers.ts:468-470`
   wants the id to outlive its attempt.
3. `bundles_race`: `updateBundle` checks what it read and writes without
   reading again; two requests, or a request and a product change, leave an
   active set that does not fit and that nothing demotes. `bundles.ts:315`
   says the invariant is enforced at both ends.
4. `picker_partial`: the picker passes over the products of a step beyond its
   cap and still answers `exhausted: true`, so that the editor does not say that
   its list is partial, which is what `packages/shared/src/bundle.ts:161-168`
   has the flag for.

`HonestUnlessRaced` says that 3 happens only by that window: with it closed,
product.reconcile does keep active sets honest. `SecondJobNeedsRedaction` says
in the same way that the one exception to "no second job"
(`webhook-router.ts:172`) is a redelivery after shop/redact erased the record.

### What the properties leave open

Most properties about screens and storefront have exceptions. Each is a
behaviour of the code that the model reaches; they are listed here because a
reader of the code may want to know of them.

* `bundle-builder.js:86`: when the answer to the add request is lost, nothing is
  discarded, also if the request landed; the discard's own failure is swallowed.
* `cart.js`: one debounce serves all lines, so an edit of one drops a waiting
  edit of another; a line number may meet another item after a renumbering; the
  class that keeps the pointer away goes with the first of two requests.
* `quick-order-list.js:484`: removing everything posts past the queue, and its
  `finally` lets the next queue be sent beside a request under way. Line 214: an
  edit that turns out invalid leaves the rows unrendered.
  `quick-add-bulk.js:27`: the card ignores a cart that lacks its variant.
* `product-info.js:131-137`: cancelling the last selection's request rejects the
  promise of the new one. Line 371: limits are computed from the rules before the
  new ones are taken, so the limits lag one refresh behind: after an item was added
  and taken out again in the drawer the input may be without a limit over an empty
  cart. `OffersWhatIsSelected` therefore speaks of the rules and not of the limits.
  Line 344: a cart that holds the maximum removes the limit. Line 354: a late answer
  brings another variant's rules.
  `pickup-availability.js:40`: the retry asks for the variant the page began with.
* `facets.js:115`: no request is cancelled and none is numbered; a failed one
  leaves spinner and address ahead of the products, and a rendering takes back
  what was ticked meanwhile. An error page takes the filters away and stays in the
  cache: nothing is claimed of the page from then until it is loaded anew.
  `predictive-search.js`: an emptied field cancels nothing, and an older answer may be
  shown last. Line 112: the button's text is matched before the term is noted, which
  throws if it does not match or the term is no regular expression; the open dropdown
  is then of another term than the field's.
* `App.tsx`: that the list shows what the server has is said of one tab alone; what
  another tab or the worker writes shows at the next load.
* `BundleEditor.tsx:117`: the save of a dismissed editor hides the one opened
  since. Line 294: the slot's product stays an option only until another offered
  product is selected. `App.tsx:191`: two opens fetch the candidates twice.
* `CatalogReport.tsx`: if the first load fails, the section does not poll.
  `sync-log.ts:88`: one row of an unknown kind fails the whole list.
* `api-router.ts:218`, `sync-log.ts:225`: the export is queued, or the job put
  back, and the merchant reads of an internal error if reading it back fails.
  `bundles.ts:354`: so does one whose set another tab deleted, or whose slots it
  replaced, between the read and the write of an update. `catalog-export.ts:93`: two
  presses, the second while the server is at the first, enqueue two exports.
* `worker.ts:171`: a statement that throws leaves the rest of its batch RUNNING, also
  when the process is then shut down in order; only the reaper brings it back.
* `bundles.ts:696`: the number of a deleted newest set is given to the next one,
  though line 658 says "The next number no routine set in this shop has used".
* `worker.ts:218-219` reads a row that ran out of attempts under its lock as one
  that killed its workers; a row claimed in the same batch behind such a job pays
  for the same attempts and is DEAD without having been begun.
* `store-preparation.ts:44` says "Never throws", but the session is loaded outside
  the `try` (line 57).
* `job-handlers.ts:155` looks up the ids that `bundle-builder.js:151` makes for a
  click among the ids of bundle rows.

## 4. What is proved

Every invariant and every action property that a passing run checks is also a
theorem, for every value of the constants, except the liveness
properties (last paragraph). Each proof has the same form: an inductive invariant
whose parts are named for what they say, one lemma per kind of step, one case per
action. Below, per module: the theorem, the property in parentheses, and the
invariant with the reason why it is needed. A theorem rests on the named
assumption of its module and on nothing else.

`JobQueueProofs`, for every set of rows and of workers, every budget, batch
size and reaping period (`ConstantsAssumption`):

* `TypeCorrect` (`TypeOK`) and `BudgetHolds` (`NeverStranded`), by one
  induction over `BudgetInv == TypeOK /\ NeverStranded`. Neither half is
  inductive alone: `rescheduleJob` subtracts an attempt, and only the budget
  half says that a RUNNING row has one to give back.
* `ClaimsIdentified` (`ClaimIdentity`) and its corollary `OwnersExclusive` (`OneOwner`), from
  `ClaimInv`: a worker holds claims only between a claim and the end of that
  tick (`Shape`), and `heldClaim` holds of a claim exactly when it has not
  expired (`Identified`). Each action is one of three kinds, with a lemma each:
  it leaves the RUNNING rows alone (`QuietStep`), it takes rows away from
  outside (`TakingStep`), or a worker leaves claims behind (`LeavingStep`).
* `ColumnsAgreeAlways` (`ColumnsAgree`), `AttemptsUndisturbed`
  (`OwnAttemptOnly`) and `FinishedStays` (`FinishedIsFinal`). One lemma,
  `RowChanges`, lists the ways a step may change a row (it appears, is retried,
  reaped, claimed, settled by the holder of a claim on it, or erased) and goes
  through the actions once; each theorem is a case distinction over that list.
  `AttemptsUndisturbed` takes from `ClaimInv` that a worker whose write applies
  still owns the attempt; `FinishedStays` takes from `ColumnsAgree` that
  finishedAt means SUCCEEDED or DEAD.

* `QueueImplementsLeases` (`ImplementsLeasedQueue`), `Spec => Leased!Spec`. The mapping
  reads the phase and the attempts spent off a row, and a lease off a worker: a claim
  it still acts on and that has not expired. `MappingInv` adds to `BudgetInv` and
  `ClaimInv` that a row never written is blank. With it every outcome that arrives
  late maps to a stutter, because by `Identified` its write finds no row; every other
  statement maps to one step of `LeasedQueue`.

`WebhookIntakeProofs`, for every number of requests and deliveries and however
copies overlap (`DeliveryAssumption`):

* `IntakeTypes` (`TypeOK`): the types, and that a delivery is on record exactly
  when its job was created.
* `DeliveriesOnce` (`OneJobPerDelivery`) and `AcksAreTrue` (`AckMeansQueued`).
* `IntakeImplementsLog`: the endpoint implements `DeliveryLog` (`ImplementsLog`),
  that is `Spec => LogSpec`.

They rest on `IntakeInv`: of the copies of one delivery at most one is in an
open transaction that inserted it, and none is while the delivery is on record
(`OneWriter`); a delivery is on record once (`OneRecord`); and what a request
was told, or told Shopify, is on record (`Where`). `OneJobPerDelivery` alone is
not inductive: it says nothing of the transactions about to commit. Every step
but two commits nothing and says nothing (`QuietMove`); `CommitKeeps` and
`RespondKeeps` are those two.

`ShopDataProofs`, for every set of shops, deliveries, bundles and workers
(`ShopDataAssumption`): `RedactionIsWhole` (`Erased`),
`SecondJobIsAfterRedaction` (`SecondJobNeedsRedaction`) and the action property
`NothingErasedWithoutCause` (`ErasedForCause`: a row goes only in a statement of a
handler that is to erase that very row, by its topic, shop and customer). `DataInv` says, for each step a
handler can be at, which tables it has still to go through: what is left of what
it was to erase is in one of those (`LeftToErase`). A row written behind its back
is not among what it was to erase, which is why the claim holds of a handler begun
again after any cut. `RecordsRight` (a job whose delivery is not on record is one of a
redacted shop) is what a second delivery finds.

`CatalogExportProofs`, for every set of exports, requesters, workers and
operations and every budget (`ExportAssumption`): `ReportsAreReal` (`ReportIsReal`),
`DeathIsEarned` (`DeadIsEarned`) and `PollingResumes` (`ResumesPolling`). The handler writes
its row by id, not under its claim, so `ExportInv` has three parts: what the
columns of a row refer to and what it has spent (`RowsRight`), what each attempt
knows of its operation and, unless its export slipped, of its row (`RunsRight`),
and where the id of an operation that runs or has completed is: in the payload, or
in the hands of an attempt about to write it there (`Traceable`). Without the last
part nothing says that a second operation is not begun beside a live one.
The run has one export; that two requests which both saw none in flight leave two
exports side by side (`catalog-export.ts:93`) is covered here, where their number is any.
`ExportImplementsLeases` (`ImplementsLeasedQueue` of `CatalogExportRefinement`): a lease is an
attempt that still holds its row. `ExportInv` supplies what an outcome needs, that an
attempt which holds its row has paid for exactly the attempt the row counts; an
outcome without the row, and each write by id, maps to no step at all.

`ResultFileProofs`, for every file, of any length and however it arrives, and every
size of the sample (`FileAssumption`): `ReportCountsTheFile` (`ReportAddsUp`). `FileInv` says
where the reading is: the decoder holds nothing, or the first half of the last
character received (`HeldRight`); the carry is the text of the file from a place
where a line begins up to there (`CarryRight`); and the numbers are those of the
lines before that place (`CountsRight`), with the sample the first of them
(`SampleRight`). A line that is yielded is then the line at that place, and moves
the place to the beginning of the next. What the report is compared with are sets of
places in the file and their cardinalities, and one line is one step, so that
the behaviour itself is the induction over the file.

`BundlesProofs`, for every set of bundles, products, steps, requests and workers
(`BundlesAssumption`): `ActiveSetsAreHonest` (`HonestUnlessRaced`). An item of an active set
fits its step, or a job that is queued or under way has found the set by its
product (`ItemRight`); and what a request decides on is still so, unless a change
came between its reading and its writing (`Sighted`, and the history `blind`).

`ServerProofs`, the parts of the server that share no variable:

* `PushedOnce` (`WrittenOnce`), from `PushInv`: Shopify knows the key of a row
  exactly when it has written the row, so a retry with the same key is a no-op.
* `DisconnectIsLast` (`DisconnectsIdle`), from `ShutdownInv`: a row RUNNING under the
  worker is one of its tick or was abandoned, and once the worker has stopped and the
  server is closed, nothing can claim or accept again.
* `GivingUpTakesOthers` (`GivesUpOnlyIfOvertaken`), from `HandlesInv`. It counts:
  the sets that landed since a create read the handles are at least the collisions
  it had plus the handles in use at or above its next try. The count uses the library's
  facts on cardinalities, hence the assumption that `Creators` is finite.
* `GateNeverMiscounts` (`RefusedOnlyIfUnforeseen`), from `GateInv`: with nothing
  spent by others the reading is at most what the bucket has, and a wait that is
  over covers the deficit. `NeededIsEnough` is the arithmetic of the rounded-up
  wait, for every deficit, rate and jitter.
* `ReportsAreTrue` (`ReportIsTrue`), from `SetupInv`: until the merchant deletes a
  definition, what a run has seen of the store stays so, and one run at most says
  that it created a kind.
* `ErrorsBlameRightly` (`ErrorsAreTrue`), from `RouteInv`. A press the server is still
  at is the one the screen waits for, or was given up (`RouteTypes`). `StepFacts` says
  of each step of each route what comes after it: once a press has changed something
  only steps remain whose failure the property allows (`UndoneRight`); and without
  others, and without presses that overlap, the object tells how often the thing was
  done (`OnceRight`).
* `WalksTellTheTruth` (`ScanTellsTruth`), from `ScanInv`: everything up to the
  cursor was dealt with, a step keeps its lowest products, and one that is not full
  keeps all. `LowestAreFirst` says what the lowest n of a finite set are, by its
  least element and not by induction.

`ScreenProofs`, the parts that run in a browser, each by an invariant that says:
what is shown is what there is, or a request that will replace it is under way, or
an incident of a short list happened.

* `ScreenIsFaithful` (`ScreenKeepsFaith`), from `IndexInv` and `PickerInv`: a list
  read and not outdated is the sets as they are; while no editor was dismissed at
  most one change is under way, that of the editor on screen.
* `RoutinesAreWhole` (`WholeOrNothing`), from `BuilderInv`: every click that was not
  given up has all of its lines in the cart or none, or is the one under way and
  at a step that says which.
* `FormIsAsSelected` (`OffersWhatIsSelected`), from `ProductInv`: the request under
  way is that of the last selection; an answer counts the cart as it is, or is known to
  be old (`SheetHolds`); and rules that miscount it will be asked for again, or a
  fresh answer to the form's variant is on its way (`RulesComing`).
* `PageAgrees` (`SearchAgrees`), from `FacetInv` and `SearchInv`: as long as the page
  has its filters no error page came, and the last section asked for is shown, on its
  way, or known to be lost; the term looked for is the one in the field, or will be,
  or a change threw.
* `PollingStopsForCause` (`StopsForCause`), from `ReportInv`: what an answer has read of the
  exports so far is still so, or the export was put back (`PollRight`).
* `PageIsTheCart` (`PageShowsCart`), from `CartPageInv`: a cart that was read is the
  cart, or known to be old; an input that differs is about to be sent, or was
  (`InputsRight`); and while the lines are numbered as they were, a line number
  means its item (`EditsMeet`).
* `LastQuantityWins` (`LastQuantityCounts`), from `BulkInv`: what was asked for last
  of a variant is its last entry in the queue, else in every request that carries
  it, else in the cart (`LastWins`); only what goes past the queue can overlap
  (`QueueGates`); `hasPendingQuantityUpdate` stands for something to come (`PendingRight`); and
  a row that differs has a reason that lasts until it is rendered (`RowsRight`).
  `MergedRight`: the merge of the queue gives each variant its last entry.

What the proofs changed in the models: `FindObject` of `StoreSetup` had a CASE with two
arms that both applied; `Crossed` of `CartPage` could turn "no edit" into an edit of line
0, which a debounce would then have sent. Both are corrected. `ResultFile` was a fold
over the lines of a file, about which the provers can say nothing, and became the steps
of the reader itself. Assumptions that the code justifies and that only the proofs
needed are now stated: finitely many `Creators`, natural `Jitters`, a routine with at
least one step (`BuilderSteps`), a list or card with at least one variant (`BulkVariants`).

Only model-checked: what needs fairness (`NoStarvation`, `AttemptsEnd`,
`EverythingSettles`, `EveryRequestEnds`, `ExportEnds`, `LogCatchesUp`), as liveness and ENABLED
are out of the prover's reach. The findings are
counterexamples of TLC and are not proved. No module uses RECURSIVE.

## 5. What is not modelled

* Which header or body the verification of a webhook refuses, and with which
  status: pure checks in a row. The model has their outcome.
* OAuth and session storage: a library. A session appears when a shop is
  installed.
* Configuration, logging, the Prisma client, the GraphQL documents, the texts of
  messages and toasts.
* Of the cart: the drawer, the note, discounts. Of the product page: the change
  to a sibling product, the media gallery, the price per item, quick add modals.
  Of the filters: the fields of the price range, the counts of products, "show
  more". Of the search: choosing a result with the keyboard, the live region.
* The rest of the theme: menus, drawers and dialogs, slideshow, localization
  forms, customer pages, Liquid templates, styles, locales. They open, close and
  animate elements of the page.
* CI, container and deployment files.

## 6. The plan

Done, in order of importance: `JobQueue` with `LeasedQueue`; `DeliveryLog`,
`WebhookIntake`; `ShopData`; `CatalogExport`; `Bundles`, `BundleHandles`,
`CatalogScan`; `ThrottleGate`, `StoreSetup`, `InventoryPush`, `ShutdownOrder`,
`ResultFile`, `ApiRoutes`; the screens; the storefront.

The theorems of section 4 cover what the runs check, but for what is named there.
Next proof: the safety half of `LogCatchesUp`, that an answer which overtakes another
never shows an older page as newer.

Next modules: the table of `webhook-verify.ts` against its documentation; the
cart drawer beside the cart page, both over one cart.
