# Formance Payments: a TLA+ verification project

Formance Payments talks to payment service providers (PSPs) through connectors.
An API process stores what clients ask for in Postgres and starts Temporal
workflows; workers run the workflows, whose activities call the PSP plugins and
write to Postgres; an outbox turns what was written into events on a message
broker. Nothing holds a lock across two of these steps. This project models the
parts where that matters, checks them with TLC and proves the main safety
results with TLAPS.

## 1. Inventory

| Component | State | Operations | Interacts with |
|---|---|---|---|
| Payment initiations (`api/services/payment_initiations_*.go`, `workflow/create_*.go`, `poll_*.go`) | `payment_initiations`, their adjustments and related payments, `tasks`, polling `schedules` | create, approve, reject, delete, retry; one workflow per attempt; one scheduled workflow per asynchronous attempt | PSP plugin, payment fetch, outbox |
| Reversals (`payment_initiations_reversal_create.go`, `workflow/reverse*.go`) | `payment_initiation_reversals` and their adjustments, plus the adjustments of the initiation | create; one workflow per reversal | payment initiations, PSP plugin |
| Event outbox (`storage/outbox.go`, `activities/outbox_*.go`) | `outbox_events`, `events_sent` | insert, poll, publish, mark failed, mark processed, clean up | every writer of an entity, the broker, connector uninstallation |
| Payment fetch (`workflow/fetch_payments.go`) and the plugins' paging | `states` | page through the PSP's payments, store, save the state, continue as new | payments storage, payment initiations, schedules |
| Payments storage (`storage/payments.go`) | `payments`, `payment_adjustments` | upsert with refund and capture amounts; the status derived on reading | fetch, initiations, reversals, webhooks |
| Connectors and their copies (`engine.go`, `manager.go`, `workers.go`) | `connectors`; in every process a map of loaded plugins | load, unload, LISTEN/NOTIFY handlers | every process |
| Connector life cycle, task trees, schedules (`workflow/install_connector.go`, `uninstall_connector.go`, `plugin_workflow.go`, ...) | `schedules`, `workflows_instances`, Temporal schedules | install, update, reset, uninstall; schedule the tasks of the tree | everything with a `connector_id` |
| Health check (`workflow/connector_health_check.go`) | `paused_at` of schedules, the paused flag in Temporal | pause failing schedules; a config update resumes them | instances of the fetches |
| Open banking, payment service users (`workflow/complete_user_link.go`, `delete_psu*.go`, `fetch_open_banking_data.go`, `storage/open_banking_connections.go`) | users, forwarded users, connection attempts, connections, their accounts and payments | forward, link, complete, fetch, delete user / user on connector / connection | provider's sessions and webhooks |
| Webhooks (`workflow/handle_webhooks.go`) | `webhooks`, `webhooks_configs` | receive, verify, translate, store | payments, accounts, open banking |
| Pools, balances | `pools`, `balances` | intervals, aggregation | accounts |
| Connector plugins (`ce/plugins`) | none | HTTP clients of the PSPs | external |

What is hard here: API requests check in one transaction and act in another;
workflows run concurrently with requests and with the periodic fetch; activities
run at least once and may take effect late; the PSP answers late and changes
while it is read page by page; schedules outlive what they poll; every process
has its own copy of the connectors; Temporal and the table are changed one after
the other; publishers time out with a call in flight; rows disappear by cascades.
`PROJECT.json` lists these hazards line by line with the properties that would
catch them.

Correctness, per component: an initiation pays at most once and its records agree
with what the PSP did; reversals refund no more than was paid and are recorded;
an accepted event reaches the broker at least once or is visibly given up; every
record of the PSP is stored and moves its amount once; processes agree with the
connectors table, and an uninstalled connector leaves no schedule; a schedule is
paused only for failures since the last config; a deleted user or connection
leaves no data, and rows agree with the provider.

## 2. Modules

| Module | What it is |
|---|---|
| `Adjustments` | The adjustment rows shared by the next two: which one is the newest, the upsert key, the two conversions of a payment status. |
| `PaymentInitiation` | One initiation: requests, attempts, polls, task, PSP, fetch. |
| `PaymentInitiationProofs` | Its theorems: one attempt at a time, one payment, schedules and tasks. |
| `Reversal` | The reversals of one initiation. |
| `ReversalProofs` | Its theorems: types, a claim for every refund, records of refunds, reversals in turn. |
| `EventDelivery` | Abstract: events are owed until delivered at least once, given up, or removed with their connector. |
| `Outbox` | The outbox, shown to implement `EventDelivery`. |
| `OutboxProofs` | Its type invariant, safety and refinement theorems. |
| `Payments` | `PaymentsUpsert` and the status of a payment, as operators on the two tables. |
| `PaymentsProofs` | What `PaymentsUpsert` does to any tables with any batch. |
| `PaymentFetch` | The fetch workflow with two plugins over `Payments`. |
| `PaymentFetchProofs` | Its theorems: types, amounts, nothing skipped, order of arrival, status. |
| `Connectors` | The connectors table, its notifications and the copies in the processes. |
| `ConnectorLifecycle` | Composes `Connectors` with the workflows that install, update and uninstall, and with the schedules. |
| `ConnectorLifecycleProofs` | Its theorems: types, recorded schedules, periods, converging processes. |
| `HealthCheck` | Pausing failing schedules and resuming them. |
| `HealthCheckProofs` | Its theorems: types, and what is paused, recorded and for which config. |
| `OpenBanking` | One user on one open banking connector. |
| `OpenBankingProofs` | Its theorems: types, the three deletions, the forwarded user, the status. |
| `MC...` | Instances for TLC, one per system module. |

Operators whose name begins with `Bad` are faulty variants of the definition that
follows them: the bugs that the properties must be able to tell from the code.

### PaymentInitiation

All identifiers contain the identifier of the initiation, so one initiation is
enough. Payouts and transfers are the same program with different names; the map
points at either file.

* `row`, `adjs`, `related`: the row and its dependent tables. Deleting the row
  empties them (cascade); a write to a missing row fails for good (foreign key).
* `adjs` is in insertion order (`sort_id`); `at` is `created_at`. `Latest` is the
  order the services use (the status filter of the list follows insertion). The clock
  `now` ticks with every stamped write; an adjustment from the fetch carries the
  `created_at` of the payment instead.
* `req`: an API request is "idle", "checked" (it read the newest adjustment),
  "start" (the task is stored), "done". A request may be abandoned at any point.
* `pc[kind][attempt]`: the next step of the attempt's workflow ("create") and of
  its polling workflow ("poll"). A workflow identifier contains the attempt
  number and is used once (REJECT_DUPLICATE): `ExecuteWorkflow`.
* `psp`, `payAt`: the PSP's view (external). An accepted request that has no
  payment yet is `ACCEPTED`; a refusal is `REFUSED`. Without a polling period the task
  of an accepted request fails with no schedule to poll it (`PluginPolling`).
* `schedRow`, `schedLive`: the polling schedule in Postgres and in Temporal.
* `fetched`, `applying`: the fetch stores a payment and only later updates the
  initiation.

Steps are transactions, Temporal calls and activities. Activities write under
keys fixed by the workflow, so a repeated execution changes nothing and is not a
step of its own. The PSP is assumed to recognise the repeated call of one attempt.

### Reversal

Begins with an initiation in PROCESSING, which `PayoutProcessed` completes.
A workflow validates (`ValidateProcessed`, `ValidateAmount`), claims the
initiation in two steps (`ClaimRead`, `ClaimInsert`), asks the PSP, and records
the answer. The claim's transaction is split because, under READ COMMITTED, a
transaction that waited for the row lock goes on with the row it had selected.
`claimAt` is fixed before the activity, so a repeated claim has the same key.
`Amountless` stands for the panic on a REVERSED adjustment without an amount;
Temporal then blocks the workflow. The PSP may give a refund any status of
`RefundStatuses`.

### Outbox

`row` holds the status of each event's row, `pub` the executions of the activity.
A publisher reads a batch and the retry counts, handles events in order, and
marks the published ones at the end. `Timeout` leaves an execution with one call
in flight (`mode = "late"`) while the schedule may start the next; `Abort` loses
what an execution knew. `delivered`, `failures` and `hard` are history variables.
`ConnectorUninstall` is the cascade on both tables.

### Payments and PaymentFetch

`tables` holds the rows of `payments` (one per original record, with its amounts)
and the adjustments in insertion order; `PaymentsUpsert` inserts rows and
adjustments that are new and applies the amounts of refunds and captures only for
adjustments it inserted. Which reports of a batch are new (`Inserted`) is a set of
positions, `Entries` the reports at these positions, `Total` a sum along the sequence;
both are recursive functions of the length. `psp` is the PSP's list of records: payments, and
reports about earlier ones (`root`). Only a payment can be PENDING: a refund or a
capture is reported once it happened. The list of the generic plugin, sorted by date of
update, is given by the place of every record in it (`Place`: how many records come
up to it), which is the same for every sorting algorithm.

A workflow run reads the saved state (`StatesGet`), calls the plugin (one step per
HTTP request, since the PSP changes in between), stores the batch, saves the
state, and continues as new or ends. "generic" asks by date of update and drops what
exceeds the page; "stripe" first scans for the oldest transaction, cut by a timer
(`ScanTimer`), then asks for what is newer than the last one. A plugin call may
fail and start anew; a storing activity may time out, be repeated, and take effect
later (`late`). The history variable `disturbed` is set when two records are
updated at one instant, or one changes while a call is between two pages: then
both the date filter and the offset paging can lose a record.

### Connectors and ConnectorLifecycle

`Connectors` has the row, and for every process (server or worker) the loaded
plugin, the queue of notifications, a handler that has read the row but not
applied it, and the start of the process: list the table, LISTEN, load. Reading the
row (`ReceiveFails`) and loading the plugin (`HandleFails`, `StartLoad`) may fail; the
code logs the error and goes on. The connection may be lost (`Disconnect`), and comes
back without a backlog (`Listen`). `adrift` marks a process whose copy need not agree
any more: a change that found it not listening or that it lost, a load that failed, a
request that loaded a plugin and then failed to commit. The mark goes when an update
or a deletion reaches the process, since these bring what is current, or when the
process stops. (An insert does not replace a plugin that is loaded.)

`ConnectorLifecycle` adds the install and update requests (load, then commit), the
install, uninstall, update-period and termination workflows, and the makers: the workflows that create
schedules, each with a check of the deletion flag, the row, the period and the
Temporal schedule as separate steps. A maker that is terminated leaves its last
activity in flight (`late`). The task tree is accounts with balances under it, so
that a running schedule creates another one. The provider may refuse the
installation, which is then undone, and the uninstallation (`UninstallRows(FALSE)`),
which then fails after the rows were deleted, with the connector flagged and in
place; the request can be repeated (`runs` counts). `faults` bounds processes that
stop, lost notifications and connections, and requests that are cut short after their
commit. `unapplied` marks an update whose configuration was not handed to the workflow
that changes the schedules. An update looks for the connector outside its transaction,
so it may commit although the row is gone by then; the process keeps what it loaded.

### HealthCheck

The code compares times of runs with the connector's `updated_at` and with nothing
else, so a time is the number of config updates so far. `runs` keeps the last
`Threshold` instances of each schedule. The check lists failing schedules page by
page (by offset), and for each page pauses in Temporal, then notes it in the
table; an update lists noted schedules, resumes, then clears. Activities may be repeated
(`retries`). `disturbed` marks an update whose workflow was not started or that ran
together with a health check.

### OpenBanking

`psu`, `fwd`, `attempts`, `conns`, `data` are the tables, with their foreign keys
and cascades; `users` and `items` are the provider's side (external). `forward` and
`link` are API calls, `complete` and `del` workflows, and every element of
`notices` is a webhook with the workflow that handles it, all concurrent. A request
for a deletion sets the task to PROCESSING (`Request`) and then starts the workflow
(`ExecuteDeletion`), which does nothing if the identifier was used, or stops in between
(`DeletionNotStarted`); `asked` counts the calls on their way. A call of the provider
that deletes (`DeleteCall`) may carry out the deletion, lose its result and be refused
when it is repeated: the task fails with the row in place.

Two plugins: plaid completes a link from a webhook and has data fetched; powens
completes it from the browser's redirect and its webhook creates the connection and
brings the data, once it has passed the trimming that cuts it into one webhook per
account: an announcement without accounts is dropped, whatever its state (`Announce`).
All that comes from outside (requests, webhooks and their
repetition, processes that stop, lost results) draws on one budget, `MaxEvents`.
The history record names the crossings that the code does not protect from:

* `raced`: forwarding together with another forwarding or with a deletion, or a
  process that stops between the provider's call and the row;
* `unserved`: deletions whose last request started no workflow, since it stopped or the
  identifier was taken;
* `unrecorded`: users whose deletion the provider carried out and then refused;
* `overlapped`: connections with a webhook sent before the last one was handled;
* `revived`: connections stored again after the provider's were gone;
* `late`: a webhook handled while the user is removed from the connector.

## 3. Runs

| Run | Bounds | Result |
|---|---|---|
| `pi_core` | 3 requests, 2 attempts, 1 failing poll each; the fetch reports PENDING and SUCCEEDED; about 2.5 million states | all properties hold |
| `pi_live` | 2 requests, 2 attempts | every started attempt is decided |
| `pi_retry` | 3 requests, 3 attempts; the fetch also reports FAILED | **violated**: two payments |
| `reversal_core` | 2 reversals of 1 and 2 on an amount of 2, one lost result, fetched refunds | all properties hold, and every workflow ends or is blocked by a missing amount |
| `reversal_amount` | 2 concurrent reversals | **violated**: more than the amount |
| `outbox` | 2 events (1 of the connector), 2 publishers, batch 1, 2 retries, 3 failures, 2 timeouts or crashes | all properties, the refinement and the liveness hold |
| `payment_fetch` | both plugins, pages of 2, 3 records before the connector, 5 in all, 1 error; 123 thousand states | all properties hold |
| `lifecycle_core` | 2 processes, 1 fault, no update, 1 uninstallation; 4.0 million states, symmetric processes | all properties hold |
| `lifecycle_update` | 1 process, 1 update, 1 uninstallation, no fault; 1.2 million states | all properties hold |
| `lifecycle_orphan` | 1 process, 1 uninstallation | **violated**: a schedule outlives its connector |
| `health_core` | 2 schedules, threshold 2, pages of 1, 1 update, 1 repetition | all properties hold |
| `openbanking` | both plugins, 1 connection, 2 attempts, 2 forwards, 5 events; 594 thousand states | all properties hold |

Why the bounds are enough for the interesting cases: two requests suffice for
each check-then-act race and the third lets create precede both; two attempts
show what a retry does, three what skipping a number does; a batch of one makes
an event wait behind a failing one (larger batches are covered by the proofs); two
aborts let a late call overlap with the next execution and a crash follow; with
two retries an event can fail, be retried and be given up. Three old records and
pages of two make the scan of stripe and the offset of generic span two pages
while two more records arrive; two processes let a workflow step run where the
notification has not arrived; pages of one and two failing schedules make the
offset of the health check skip; five events hold a forward, a link, a session
and two of any webhook, repetition, crash or deletion. Outside the runs, the safety
properties of `openbanking` were also checked with six events (7.9 million states) and
with two connections and five events (1.0 million), and those of the life cycle,
`UninstallEnds` included, with one process, two uninstallations and one fault (276
thousand), without a violation. Deadlock is not checked: a system whose
clients stop asking, or whose work is all done, stops.

The violated properties each quote a line of the code; `PROJECT.json` (`findings`)
gives the line and what happens. In short: failures reported by the fetch are
counted as attempts, so that with stale retries an initiation can be paid twice;
a reversal's amount is checked outside its claim; the uninstallation lists the
schedules once, while a workflow may still create one.

### Behaviours to know of

The models also show the following, which no run repeats. Properties exclude them
through the history variables above, or say nothing about them.

* Approve and reject of one initiation can both succeed.
* A polling error fails the task but leaves the initiation PROCESSING, although
  `poll_payout.go:90` speaks of a failed initiation.
* The row lock of a reversal's claim does not exclude a second claim, and a claim
  whose result was lost refuses its own repetition. `NotOverReversedInTurn` states
  what holds: reversals validated after the earlier ones ended never exceed the amount.
* The generic plugin skips records that share the instant at which a page ends, and
  a record that moves while the pages are read.
* A change of a connector between a process's listing of the table and its LISTEN, or
  while the LISTEN connection is lost, reaches that process neither way, and a
  notification whose read or load fails is dropped. The process stays out of step until
  the next update or deletion of the connector reaches it, or it restarts.
* An uninstallation that the provider refuses fails after it deleted the schedules and
  rows of the connector, and leaves the connector flagged for deletion. A second one
  removes it (unless it is refused, too), but a workflow that was running may have
  created a schedule between the two whose row the first one deleted:
  `SchedulesRecorded` is about the first uninstallation, and is violated by a second.
* The config that an update hands to the schedules is read back from the manager,
  where a slow notification handler may have put the old one.
* A health check and a config update that cross can leave a schedule paused in
  Temporal that the table calls running: no later update resumes it.
* A fetch that continues as new is stored as failed and counts towards the pause,
  although `cmd/worker.go:38` speaks of consecutive errors.
* Deletions of two connections of a user share one workflow identifier: after the
  first succeeded the second is never started and its task stays PROCESSING.
* A user forwarded by two calls, or while being deleted, stays at the provider
  without a row; data of a webhook handled while the user is removed from a
  connector stays in the tables.
* A deletion whose process stops after it stored the task, or whose workflow Temporal
  does not start, leaves a task that is PROCESSING for ever.
* When the provider deletes a user, the result is lost and the repetition is refused,
  the task fails and the forwarded user's row goes on naming a user that is gone.
* powens: a synchronisation in an error state without accounts is trimmed to nothing,
  and the connection stays ACTIVE.
* The deletion of a user that committed but whose result was lost is repeated, finds
  no row, and its task fails although the user is deleted.
* A second approve, or a create after a delete, sets the task of attempt 1 back to
  PROCESSING, and no workflow settles it.
* A status of a payment that is fetched before the payment is related to its
  initiation is lost for the initiation.
* The key of the link status event holds user, connector, status and error only
  (`open_banking_connections.go:121`): the event of a second link with the same outcome
  is dropped as a duplicate. (These events are not in the model.)
* plaid's LOGIN_REPAIRED is ignored: the connection's row stays ERROR until the user
  links it again (`ConnectionStatusIsCurrent` is about powens only).

### Fairness

* `PaymentInitiation`: Temporal runs workflow steps and fires live schedules,
  time reaches `ScheduledAt`, and the PSP decides what it accepted. No fairness
  for API requests, for status changes after the decision, nor for the fetch.
  `MaxPollErrors` says that polls do not fail for ever. `AttemptDecided` excludes
  a deleted initiation: its schedule then polls for ever, since relating the
  payment fails on the foreign key at every poll.
* `Reversal`: the steps of started workflows.
* `Outbox`: the schedule keeps starting the activity, and an execution that is
  neither late nor stopped goes on. `MaxFailures` and `MaxAborts` say that
  failures, timeouts and crashes come to an end.
* `PaymentFetch`: the schedule keeps starting the fetch and its steps go on. None for
  the PSP's changes, errors, timeouts and late activities, which are bounded.
* `ConnectorLifecycle`: processes restart and handle what is queued, and Temporal
  drives the install, uninstall and termination workflows. None for requests,
  faults, updates, the answers of the provider or the creation of schedules.
* `HealthCheck`: runs of schedules that are not paused, the check and the update go on.
  None for the outcome of a run.
* `OpenBanking`: some workflow that can take a step does, or some call that has stored the
  task of a deletion goes on to start its workflow, or stops. Each has finitely many steps
  and the budget is finite, so all of them end. The provider answers every call in the
  end, perhaps with a refusal. None for API calls, users or webhooks.

## 4. Proofs

Every theorem holds for all values of the constants: any number of requests,
attempts, events, processes, schedules, connections, any bounds. TLC checked each
inductive invariant below on the bounds of section 3 before it was proved. A proof
has one step per action; lemmas named after an action state what it changes, and
actions that touch nothing an invariant reads are handled together.

Every safety property of the runs, invariant or action property, is a theorem; of the
properties that the runs check only the liveness properties are not.

The library's induction theorems take a predicate as a parameter and could not be used.
What needs an induction over data is proved from facts about sets instead: a set of
numbers that is not empty has a least element, and the proper-subset order on the
subsets of a finite set is well-founded. The set is then that of the counterexamples
(`PaymentsProofs!LeastElement`) or of the sets that have the property
(`ReversalProofs!SubsetInduction`).

**`PaymentInitiationProofs`**

* `TypeCorrect`: `TypeOK`.
* `OneAttemptAtATime`, `MoneyMovesOnce`: `AttemptsExclusive` and `AtMostOnePayment`,
  under `FetchHidesFailures` (the fetch yields no FAILED adjustment) and
  `FailureFinal` (a failed payment stays failed). `pi_retry` shows that the first
  condition is needed. The two properties are not inductive: nothing in them says
  why a stale attempt number cannot run ahead. `AttemptInv` adds that attempts are
  started in order, each after all earlier ones are lost (`StartedInOrder`); that
  there are fewer FAILED adjustments than the number of the first attempt that is
  not lost (`FailuresCounted`); that a request carries no larger number
  (`RequestsBounded`); and where each workflow is against schedule and PSP
  (`Control`). An upsert adds at most one FAILED adjustment, and the step that
  writes one makes its attempt lost (`CountFailed`).
* `LiveSchedulesAreRecorded`, `SuccessIsEarned`, `SuccessIsFinal`:
  `LiveScheduleRecorded`, `SuccessIsRelated` and the action property
  `SuccessNeverFails`, with no condition on PSP or fetch. `ProgressInv` says of each
  attempt that its two workflows take turns (`TakeTurns`: no poll before the
  attempt's workflow is closed, no live schedule once a poll deletes its row or
  reports success) and that a workflow on its way to success has stored and related
  the payment (`Earned`). A deletion, which takes the relation away, is remembered
  by its request; what is settled stays settled (`SettledKept`).

**`ReversalProofs`**

* `ReversalTypeCorrect`: `TypeOK`.
* `RefundsAreClaimed`: `RefundsClaimed`. The property counts; `ClaimInv` says what
  lies behind the count: the dates fixed for claims are all different
  (`DatesDiffer`), and a reversal that the PSP was asked to refund has its claim in
  the table under its date (`ClaimedFirst`), although another claim may have been
  read as free in between. Mapping refunds to these rows is injective (`ClaimsCount`).
* `RecordedIsRefunded`: `RecordedWasRefunded`. The property compares the sum of the
  REVERSED rows with the sum of the refunds, and neither says which refund a row is
  from. `RecordInv` does: the rows sum up to the amounts of a set of refunds whose
  recording is over, so that a refund that is about to be recorded is not yet among
  them. The operators of the code's sums are shown to be sums (`AmountRefundedIs`,
  `AmountReversedIs`): they do not depend on the order in which the elements are
  taken, and a new row adds its amount or nothing (`NewRow`).
* `InTurnNotOverReversed`: `NotOverReversedInTurn`, from `OrderInv` and `InTurn`.
  `OrderInv` holds of any reversals: rows and refunds are dated in the past, nothing is
  validated before the payout is processed, and without overlap one workflow runs.
  `InTurn` says why a refund that was never counted does no harm: between two reversals
  either every refund counts in the next validation (`Counted`), or the claim of the
  last one is still the newest row, whatever the payment fetch reports about refunds
  related so far (`Stuck`), and the next reversal fails at its claim (`StuckLatest`).
  Without `Stuck` the invariant fails where a claim's result is lost, or the accounts
  are missing, or the payment of the refund is invalid. A refund that ends without being
  REFUNDED is what the condition of the property excludes.

**`OutboxProofs`**

* `OutboxTypeCorrect`: `TypeOK`.
* `SentEventsWereDelivered`, `NoEventIsLost`, `GivenUpAfterRetries`:
  `SentWasDelivered`, `NothingLost`, `FailedAfterRetries`, from `OutboxInv`, which
  adds what executions remember: what they believe published was delivered, and the
  retry counts they read do not exceed the failures that happened. The second is
  why a stale count is harmless.
* `OutboxImplementsEventDelivery`: initial states and steps map to those of
  `EventDelivery` under the mapping at the end of `Outbox`.

**`PaymentsProofs`**

* `UpsertKeepsAmounts`: `AmountsNetOf` is kept by `PaymentsUpsert`, for any tables and any
  batch that have types: repeated reports, reports of one payment in several batches,
  refunds before their payment. The adjustments it appends are the entries of the batch
  whose key is new, once each (`EntriesProperties`), and a total over an appended
  sequence is the sum of the totals (`NetConcat`).

**`PaymentFetchProofs`**

* `Typing`: `TypeOK`, with what it says of saved dates and cursors.
* `AmountsStayNet`: `AmountsNet`, from `UpsertKeepsAmounts`.
* `NothingSkipped`, `PaymentsComeFirst`, `StatusStaysCurrent`:
  `NothingSkippedUnlessDisturbed`, `PaymentBeforeItsReports`, `StatusIsCurrent`.

All five follow from `FetchInv`. It says what the PSP's list looks like (`Records`: dates
of creation grow, a payment comes before its reports and is settled by then), that what is
stored was a record once, with the root and the date it still has (`Tables`), and, for
each way of paging, that whatever the state being built will not ask for again is stored
or in hand (`Calls`, `GenericCalls`, `StripeCalls`, `Answers`): in the batch to be stored,
or among the records collected by the call at work. Batches of activities that timed out
(`LateBatches`) are of records too, so that storing them late adds only what the others do.
For the generic plugin the argument rests on the list's order: unless disturbed, dates of
update differ, places number the records (`CountingNumbers`), and a page that ends at some
place leaves behind only records with later dates. For the status (`NewestIsLatest`): the
adjustments of older records carry earlier dates, and of two adjustments of one record
the PENDING one was stored first, so that the row which `LatestAdjustment` picks is the
current report of the newest record.

**`ConnectorLifecycleProofs`**

* `LifecycleTypeCorrect`: `TypeOK`, with what it needs of handlers, requests,
  workflows and late activities (`Types`).
* `SchedulesAreRecorded`: `SchedulesRecorded`, from `ScheduleInv`: until the
  installation ended nothing that creates schedules was started (`NothingEarly`), and
  until the uninstallation lists them no workflow is terminated and whoever is about
  to create a schedule has recorded it (`RecordedFirst`).
* `PeriodsDoAgree`: `PeriodsAgree`, from `PeriodInv`: an update that was handed over
  carries the period of the row, and each schedule it need not change any more has
  that period, does not exist, or is about to be created with it (`InStep`).
* `ManagersDoConverge`: `ManagersConverge`, from `ManagerInv`. For each process that
  is not adrift, what it has still to handle (a start, a handler that has read, the
  queue) leads to the row (`Converging`); the last notification in a queue is never
  an insert, and a delete only if the connector is gone (`QueueInv`). Both hold through
  errors, lost connections and loads that fail, at any time and in any number.

**`HealthCheckProofs`**

* `HealthCheckTypeCorrect`: `TypeOK`.
* `PausedSchedulesAreRecorded`, `PausedSchedulesRanWithThisConfig`:
  `PausedIsRecorded`, `PausedForThisConfig`, from `PauseInv`: no run is newer than
  the last update (`NotAhead`), Temporal and the table differ only in what the
  activity at work has in hand (`InStep`), and check and update take turns, the check
  with the time of the last update (`TakeTurns`), both unless `disturbed`.

**`OpenBankingProofs`**

* `OpenBankingTypeCorrect`: `TypeOK`, with the steps each kind of webhook, link and
  deletion may be in (`Shapes`).
* `DeletedUserIsErased`: `UserErased`, from `UserInv` (what references the user goes
  with the user) and `ForwardInv`.
* `ForwardedUserDoesAgree`: `ForwardedUserAgrees`, from `ForwardInv`: unless calls
  raced, forwards and removals exclude each other (`TakeTurns`) and the provider has
  at most the user of the row (`AtMostForwarded`). A user the provider deleted stays
  deleted (`StaysDeleted`), since the call that forwarded it is over (`DeletedDone`), and
  the row names one only while the removal is at work or when it was unrecorded.
* `DeletedConnectionIsErased`: `ConnectionErased`, from `ConnectionInv`, the steps of
  the deletion against row, data and provider.
* `RemovedUserHasNoData`: `ConnectorDataErased`, from `ConnectorInv`: no webhook is at
  work during the removal and none finds data after it.
* `StatusDoesFollowProvider`: `ConnectionStatusIsCurrent`, from `StatusInv`: the status
  is what the last webhook of a connection says, unless it overlapped (`Announces`).

Proving `PeriodsAgree` and `ConnectionErased` showed that two exceptions they made
were not needed (a schedule being created, a deletion whose identifier was taken);
they now hold without.

The assumptions are those on the constants that the modules name (`BoundsAssumption`,
`PSPAssumption`, `ReversalAssumption`, `OutboxAssumption`, ...), and the two
conditions on `OneAttemptAtATime` and `MoneyMovesOnce`, which are about the PSP and
the connector and are not assumed of the models.

Two conditions of `FetchAssumption` say what the constants stand for: the history that the
PSP has before the connector is within the bound on its records, and a refund or a capture
is not reported as PENDING.

Only model-checked: the liveness properties (`AttemptDecided`, `ReversalEnds`,
`EventuallySettled`, `EventuallyIngested`, `UninstallEnds`, `EventuallyPaused`,
`DeletionDecided`), which need fairness and ENABLED. The three violated properties are
refuted by TLC's counterexamples.

## 5. Not modelled

* Data: assets, metadata, error texts, event payloads, tokens.
* Initiations: metadata updates; the uninstallation of the connector under a
  running attempt; retry's loop over pages of adjustments (it never advances, so
  it does not end beyond 50 adjustments).
* Fetch: the tasks and initiation updates of a page (`PaymentInitiation` and
  `ConnectorLifecycle` have their side of it), deletions asked for by a plugin, and the
  fetches of accounts, balances, orders and conversions, which are the same workflow.
* The paging of an update's list of schedules (100 to a page, by offset): the model
  reads it at once, which is exact up to 100 schedules.
* Life cycle: reset (an uninstallation followed by an installation under a new
  identifier), plugins that bootstrap on installation, tasks that run once.
* Webhooks that only bring data: they end in the upserts that `Payments` covers;
  their verification is cryptography.
* Open banking: access tokens, deletions of connections that powens announces (its row
  is set to ERROR), pending disconnections and disconnected users (events only),
  repetitions with an idempotency key, several connectors of one user, tink and dummypay.
* Pools, balances, accounts, orders, conversions: single statements and reads.
* Old workflow versions (child workflows that send events).

Most lines of the repository are outside any model's reach: generated clients and
mocks (`pkg/client`, `*_generated.go`), one HTTP client per PSP (`ce/plugins`), the
developer workbench (`tools`), HTTP handlers and schema migrations. The map covers the
engine, workflows and storage code that carry the behaviour above.

## 6. Plan

1. `Adjustments`, `PaymentInitiation`, `Outbox`, `EventDelivery`, `Reversal`; proofs of
   the first and of the outbox. Done.
2. `Payments`, `PaymentFetch`, `Connectors`, `ConnectorLifecycle`, `HealthCheck`,
   `OpenBanking`. Done.
3. Proofs of all safety properties of `PaymentInitiation`, `Reversal`, `Outbox`,
   `PaymentFetch`, `ConnectorLifecycle`, `HealthCheck` and `OpenBanking`. Done.
4. Left: pools and balance intervals; reset; the events of open banking in the outbox.
