# TLA+ specifications of NEW-API-Ultra

NEW-API-Ultra is a gateway between API clients and AI providers. It authenticates a request by an API token, chooses a
provider channel, forwards the request and charges for it; a web interface serves users and administrators. Two kinds
of state are hard to get right. On the server it is money: many request handlers, task pollers, sweeps and
administrators, on several nodes, move the same few quota columns, and any of them may fail or stop half-way. In the
browser it is everything that waits for the network: tabs, dialogs, forms and streams go on while answers are
outstanding, and the answers come late, in any order or not at all. This directory models both in TLA+, checks them
with TLC on small instances and proves the central properties with TLAPS for every instance.

## 1. The system

| Component | State | Operations | Hard behaviour | Module |
|---|---|---|---|---|
| Durable billing operations (`model/billing_operation.go`) | one row per request or task: owner, funding, reserved, requested and actual quota, status | reserve, adjust, settle, refund, link to a task, end a task | concurrent and repeated closes, capacity at its limit, owners deleted between reserve and close | `BillingOperation` |
| Wallet, token and subscription quota (`model/user.go`, `model/token.go`, `model/subscription.go`, `controller/token.go`) | `users.quota`, `tokens.remain_quota`/`used_quota`/`status`, `user_subscriptions.amount_used` | top-up, direct charge, edit, expiry, exhaustion, reset, deletion | written by everybody, partly from rows read earlier; resets ignore outstanding reservations | `BillingOperation` |
| Asynchronous tasks (`controller/relay.go`, `relay/relay_task.go`, `service/task_polling.go`, `service/task_billing.go`, `model/task.go`) | the task row; what a worker has read | submit, link, poll, realtime fetch, timeout sweep | read, ask the provider, write later; crash between reservation and refund | `TaskBilling` |
| Billing session (`service/billing_session.go`) | the in-memory handle of one operation | settle, refund, reserve more, link | a failing refund is only logged | `TaskBilling` (refund, link) |
| System tasks (`model/system_task.go`, `service/system_task.go`) | runs, one lock row per job type | create, claim, take over, renew, finish, clean up | leases without transactions, interrupted runners | `SystemTask` |
| User sessions (`model/user_session.go`, `service/auth_session.go`) and the browser's side (`web/src/lib/auth-session*.ts`, `lib/http-client.ts`, `stores/auth-store.ts`, `routes/__root.tsx`) | session rows with a rotating secret; one cookie, one lock and a memory per tab | log in, refresh, sign out, change security settings, revoke | tabs that refresh at once, lost answers, replay detection, events between tabs | `AuthSession` |
| Playground (`web/src/features/playground`) | messages, stream, chunk buffer, React's queue, local storage | send, stop, regenerate, edit, delete, save, sign out | late chunks, timers, reloads in the middle of an answer | `Playground` |
| Wallet payment (`web/src/features/wallet`) | amount, method, price, dialog, orders; the Creem dialog | change, select, confirm, close | price calculations answered in any order; four hooks that create orders | `Payment` |
| Dialogs for one entity (`web/src/lib/entity-dialog-session.ts`) and the channel key dialog (`multi-key-manage-dialog.tsx`) | session, request, list, confirmation, action | open, load, filter, confirm, act, close | answers for a dialog that shows something else by now | `EntityDialog`, `MultiKeyDialog` |
| Settings forms (`use-settings-form.ts`, `use-update-option.ts`, `use-system-options.ts`, sections) and the options they write (`controller/option.go`, `model/option.go`) | fields, baseline, query cache, requests | type, submit, reset, leave, fetch | saves one by one, each followed by a fetch that resets the form; a first load that fails | `SettingsForm` |
| Relay with channel selection and retries; Midjourney reservations; orders and webhooks; rate limiters; caches | see `PROJECT.json` | | retries, second reservation protocol, repeated webhooks, windows, stale fills | planned |
| Adaptors, relaykit, pricing expressions, logs, migrations, tables, editors and pages of the web interface, desktop shell | | | data conversion, I/O, layout | not modelled |

How they interact. A request handler reserves through a billing session, a thin layer over the transactions of the
billing operation; a task handler then submits to a provider, links the operation to the task row it inserts, and leaves
the rest to the pollers. The pollers and the timeout sweep run inside the system task `async_task_poll`; realtime fetches
run in user requests. All of them end a task through `ApplyTaskBillingTransition`, which closes the operation in the same
transaction. They share state only through the database. The web interface meets the server through requests only;
each page's requests carry the access token that `AuthSession` keeps fresh, and each page has its own way to tell
a current answer from a late one - a generation number, a session of a dialog, an epoch - which is what its module is about.

What makes them correct:

* an operation is closed once and for good, at the right price, and quota is neither created nor lost;
* a finished task is billed, a billed task is delivered, an unfinished task finishes, a reservation is resolved;
* a valid lease is respected, an ended run stays ended, every run ends;
* a page that saw a session end does not go back to it, and no tab is locked out by another one's refresh;
* a late answer changes nothing that it was not asked for, and nothing waits for an answer that will be ignored.

## 2. Modules

`BillingOperation` - one action per transaction of `model/billing_operation.go` and one per other operation that writes
the same rows. A row lock (`lockForUpdate`) makes a transaction atomic; an error rolls it back, so a call that fails is a
step that is not taken. Amounts are integers in `0..MaxQuota`, the 32-bit range scaled down. A row is `live`, `soft`
(deleted, still visible to `Unscoped` reads) or `gone`. Time is abstracted to the bits it decides: a token is expired, a
subscription is active or due. A token edit is given what it read earlier as a parameter, because the handler writes it
back. `token = Unset` is a request without a charged token (playground). A task without an operation (`op = Unset`)
is one written before operations existed, or a free one; it is adopted when it ends. The ghost variables `funded`,
`outside` and `forgiven` record what moved the balances outside of billing operations; no guard that models code reads
them (`OutsideBound` caps them).

`Escrow` - the abstract specification of billing: an operation is opened once against some accounts, may be changed while
open, is closed once; its accounts move by exactly the change of its charge and by nothing else. No columns, clipping, errors,
resets or owners. `BillingOperation` instantiates it as `Ledger` with a refinement mapping: the stage and
the charge of an operation from its status and amounts, its payers from its owner columns, the balance of an account as the column
less the ghosts. `ImplementsEscrow` is checked by the run `billing` and proved in `BillingOperationProofs`.

`TaskBilling` extends `BillingOperation` with the task handler, the provider and the workers. A worker's state is the row
it read and the status it will write; between its read, the provider's answer and its write anything may happen. There is
one action per code path: the reads of the sweep, of a poll and of a fetch; the answers as `updateVideoSingleTask`,
`updateSunoTasks`, `applyGeminiVideoPollingResult` and the two realtime fetches understand them, which differ in what
they take for a failure; and the two writes, `EndTask` for a final status and `UpdateWithStatus` for another. The handler
can be cut off at every step (`HandlerCrashes`), its refund can fail, and the provider may have taken a job whose answer was lost. A task
from before there were operations has a job of its own, named by its task id (`JobOf`, after `GetUpstreamTaskID`).

`SystemTask` - the lease protocol for one job type, one action per SQL statement, because the code uses no transaction.
Time is one bit of the lock - `locked_until` has passed - and one bit per runner that says whether the stored lock had
passed at the `now` that the runner took before. A crashed runner does not come back: a restarted process has a new id.

`AuthSession` - the tabs of one browser and the server. The secrets of a session form a chain, so a secret is its place in
it; the cookie is shared by the tabs, the session in memory is not. A refresh goes through the lock, the request, the
server's decision (rotate, keep within the grace window, race, mismatch, replay), the answer, delays and the deadline, one
action each; a reloaded page leaves its request behind as an orphan that the server may still see. A sign-in, a sign-out,
events between the tabs, 401 answers of other requests and the two transactions of a security change interleave with it.
`Worlds` says whether the browser has `navigator.locks` and how often each outside event may happen.

`Playground` - the chat page. A state update made by a timer or by the network is a function that React runs later
(`queue`); an update made by a click is rendered before the next event; handlers see what the last render saw (`shown`).
`gen` is `requestGenerationRef`, which tells a live request from a stopped one. Text is a sequence of chunks that carry the
request they belong to. Streaming and non-streaming requests, the buffer and its flush timer, editing, the delayed save to
`localStorage`, unmounting, reloading and signing out are actions.

`Payment` - the top-up form. A calculation carries its request number and the generation of the selection it is for; the
two controllers of `lib/payment.ts` decide with them whether an answer counts. Creating an order goes through the hook of
the method, each with its own flag; the payment dialog looks at its three. Creem products have a fourth hook and a dialog of their own
(`CreemProductSelect` to `CreemOrdered`). The two dialogs do not look at each other's flags: leave one with Escape and an order of each may be
under way, so the property is per dialog.

`EntityDialog` - the session coordinator that dialogs for one entity share; `MultiKeyDialog` extends it with the loads,
filter, confirmation and actions of the channel key dialog. React's effects run some time after the render that scheduled
them (`effect`).

`SettingsForm` - one form with its query and its mutations. A submit sends the changed fields one after the other; each
success has the options fetched again, sharing a fetch that is already under way (`lib/http-client.ts`), and a render with
other default values resets the form. `section` is the quota, the pricing or the system-information section: the last one sends
`Normalized` values and builds new default values with every render, the pricing section does not send `Skipped` ones (undefined, null). The query starts
without data; while it is loading there is no form (`Shown`), and when the first request fails or waits for a connection the form is opened
with `Defaults`, the settings written into the page. `Unreadable` values are those a page does not get: `GetOptions` leaves out values with
credentials, `getOptionValue` falls back to the default for what it cannot parse.

The `MC` modules hold the instances' values; `MCBillingOperation` also holds the scenes of its run. The `...Proofs` modules hold the
proofs, `TaskBillingProofs` also those about the tasks of `BillingOperation`. A definition marked "Mutant" is a plausible bug in the definition
that follows it; it is used by no specification and serves to show that a property would notice.

## 3. Runs

| Run | Checks | Bounds | Distinct states |
|---|---|---|---|
| `billing` | `QuotaIsConserved`, `ClosedAtTheRightPrice`, `SubscriptionWithinTotal`, `FinishedTaskIsBilled`, `OperationServesOneTask`, `ImplementsEscrow`, `ClosedIsFinal`, `ChargeMovesExactly`, `NoOverdraft`, `RefundRevivesToken` | five scenes, see below; `MaxQuota = 2` | 379,632 |
| `task_flow` | `ChargedMeansDelivered`, `TasksFinish`, `ReservationIsResolved` | 1 request, 1 task, 1 poller, 1 fetch, 1 sweep, prices 1 and 2, 4 platforms | 89,342 |
| `system_task_lease` | `RunningHasLease`, `ValidLeaseIsRespected`, `EndedRunIsFinal`, `RunsEnd` | 2 runners, 2 runs, `MaxFailures = 2`, `PromptClaims` | 32,333 |
| `auth` | `CheckingIsUnderWay`, `ReuseNeedsALostAnswer`, `SignedOutStaysOut`, `NoSilentSwitch`, `NobodyWaitsForever` | 2 tabs, 2 sessions, 3 retries, ten worlds | 172,450 |
| `playground` | `NoForeignChunks`, `AnswersAreWhole`, `PendingIsLive`, `GenerationEnds` | 3 generations, 1 chunk per answer, 1 of edit, delete, clear, sign-out | 275,457 |
| `payment` | `ReviewedIsCurrent`, `LoadingIsUnderWay`, `OneOrderPerDialog`, `FormSettles` | 3 amounts (one below the minimum), 2 methods with a hook each, 2 Creem products, counters to 5, 2 orders | 652,484 |
| `multi_key` | `ListIsTheOpenOne`, `ConfirmIsForShownList`, `OneActionPerOpening`, `LoadingEnds` | 2 channels, 2 filters, generations to 5, 2 actions | 183,704 |
| `settings` | `OneSaveAtATime`, `OnlyTypedIsSent`, `BaselineIsAccountedFor` | 3 sections, 2 options of 4 values, 2 inputs, 2 submits, 1 change by somebody else, 1 fault, 1 leave | 5,904,818 |
| `refund_after_reset` | `ReservationCanBeRefunded` | as `billing` | violated |
| `auth_change_lost` | `SecurityChangeKeepsTheSession` | as `auth` | violated |
| `playground_next_user` | `ChatsStayWithTheirUser` | 2 users, 2 of edit, delete, clear, sign-out | violated |
| `settings_input_lost` | `NoAutomaticReset` | as `settings`, without the system-information section, others, faults and leaving | violated |

`CHECK_DEADLOCK FALSE` is set everywhere: all operations closed and all rows deleted, all runs ended, a page that is left
with every bound used up are proper ends.

The passing runs, in words, and why the bounds are enough:

* `billing`: five scenes that are never mixed - two requests on a wallet of two and a token of one; a token that its owner
  edits from stale rows while it is charged; two requests on a capped subscription that is reset, ends and is deleted; the
  choice between two subscriptions, capped or not; three tasks, one of them without an operation, that compete for one
  operation. Amounts 0, 1, 2 are "nothing", "some", "all of it", and one more no longer fits, which is what the
  guards tell apart. One user is enough because the operations of different users share no row.
* `task_flow`: one task with a poller, a fetch and a sweep, with failures, crashes, top-ups and the deletion of its owner.
  Each kind of worker meets each other kind; tasks do not touch each other's rows except through the operation, which is in `billing`.
* `system_task_lease`: two runners, two successive runs, up to two failing statements and one crash. A third
  runner adds nothing a second one does not do: TLC agrees on the inductive invariant with three.
* `auth`: worlds of sign-in, sign-out, refreshes, reloads, faults, revocation from another device and a security change,
  with and without the lock, each with two or three outside events. Two tabs are needed for a race and two sessions for a mismatch.
* `playground`: three generations give a request, one that supersedes it and one after it. One chunk per answer is enough to be late, foreign,
  buffered or missing; the order among the chunks of one request is that of the event source.
* `payment`: five calculations can be outstanding at once, answered in any order, over changes of amount, method and dialog; two orders are enough
  for two hooks of one dialog or for both dialogs.
* `multi_key`: the dialog goes back and forth between two channels while loads and an action are outstanding.
* `settings`: two fields, so that a submit has something left to send when the first answer arrives. The stored values, the defaults, a value that is
  normalised or not given back, and one that is not sent all differ, so that the exceptions of `Accounted` are told apart.

Fairness. `task_flow`: a handler goroutine keeps being scheduled (weak fairness of its next step), and the sweep, which
every poll pass begins with, reads each unfinished task again and again and is not refused by the database for ever (weak fairness of the
read, strong fairness of the write); this assumes that `TaskTimeoutMinutes` is positive, its default. Nothing is assumed of
pollers, fetches, the provider or the owner. `system_task_lease`: a runner that is alive loops for ever (strong fairness of the
start of a pass, as its two phases alternate; weak fairness within one), a handler returns, and a lease that nobody renews
runs out; the number of failing statements is bounded and crashes leave one runner alive. `auth`: only the
page's deadline timer, for each tab; the lock, the network and the server may stay silent for ever. `playground`: React
renders what is scheduled, timers fire, and a request is answered or fails in the end. `payment`
and `multi_key`: effects run and every read is answered or fails - a handler returns, and the browser reports a broken connection;
the client sets no time limit of its own here; nothing is assumed of orders and actions. `settings` has no liveness property and no fairness.

### Findings

Four runs check what a comment of the code says and are expected to be violated.

* `refund_after_reset` (`model/billing_operation.go:758`): a subscription is reset while a reservation is outstanding. The
  refund would make `amount_used` negative and is refused, on the request path, as long as `amount_used` stays below the reservation, although `BillingSession.Refund`
  says it reverses the reservation or abandons it.
* `auth_change_lost` (`service/auth_session.go:226`): a security change increments the user's auth version and advances the
  current session in two transactions; a refresh of another tab in between revokes the session that the change was to preserve.
* `playground_next_user` (`use-playground-state.ts:75`): a save that was outstanding at sign-out writes the conversation
  back after it was removed, and the next user of the browser loads it.
* `settings_input_lost` (`use-settings-form.ts:222`): the options fetched after the first request of a submit reset the fields
  that are still to be sent, although the hook's comment excludes automatic resets.

Other disagreements met while modelling, without a run of their own:

* `UpdateToken` accepts a `remain_quota` beyond the limit that a refund checks against (`controller/token.go:326-330`); while
  it stays there, refunds of earlier reservations are refused, against `billing_session.go:56-58`.
* A realtime fetch may write a running status over a task that has ended (`relay/relay_task.go:563`). It is not for good:
  `TasksFinish` holds, because the sweep fails the task again and the refund is replayed; and `ChargedMeansDelivered` holds.
* With `PromptClaims = FALSE`, a claim that is interrupted for longer than the lock's TTL (60 s) starts a run between the two
  statements of the cleanup; the run is never ended and blocks its type, so `RunsEnd` fails.
* A refresh whose session lookup fails in the database is answered 401, so the page becomes anonymous; `docs/authentication.md:73`
  says that temporary failures of the server leave room for another refresh and only a cookie confirmed as invalid has that effect.
* A save's fetch may share a request for the options that was sent before the save (`lib/http-client.ts:63`), so the page may show the old value although
  the options are refreshed "always" after a save (`use-update-option.ts:48`). `BaselineIsAccountedFor` and `OnlyTypedIsSent`
  bound the damage: the old value was a saved one and is not written back.

## 4. Proofs

TLAPS proves, for every value of the constants that satisfies the ASSUMEs:

| Theorem | Statement | Inductive invariant |
|---|---|---|
| `TypeCorrect` | `Spec => []TypeOK` (billing) | `TypeInv`: `TypeOK`, `OpsOwned`, `TasksOwned` |
| `PricesAreRight` | `Spec => []ClosedAtTheRightPrice` | `PriceInv` on top of `TypeInv` |
| `OutcomesAreFinal` | `Spec => ClosedIsFinal` | `TypeInv` |
| `OneTaskPerOperation` | `Spec => []OperationServesOneTask` | `TaskInv`: `PriceInv`, `LinkInv`, `FinishedTaskIsBilled` |
| `FinishedTasksAreBilled` | `Spec => []FinishedTaskIsBilled` | `TaskInv` |
| `SubscriptionsWithinTotal` | `Spec => []SubscriptionWithinTotal` | `TypeInv` and `Capped` |
| `ChargesAreDelivered` | `FlowSpec => []ChargedMeansDelivered` | `FlowInv` |
| `ChargesMoveExactly` | `Spec => ChargeMovesExactly` | `LedgerInv`: `TypeInv`, `FreshHoldsNothing` |
| `NothingIsOverdrawn` | `Spec => NoOverdraft` | `LedgerInv` |
| `RefundsReviveTokens` | `Spec => RefundRevivesToken` | `LedgerInv` |
| `NoQuotaIsLost` | `Spec => []QuotaIsConserved` | `LedgerInv` and `AddsUp` |
| `BillingImplementsEscrow` | `Spec => ImplementsEscrow` | `LedgerInv` |
| `SysTypeCorrect` | `SysSpec => []SysTypeOK` | itself |
| `LeasesRespected` | `SysSpec => ValidLeaseIsRespected` | `LeaseInv`: `SysTypeOK`, `StaleIsExpired` |
| `EndsAreFinal` | `SysSpec => EndedRunIsFinal` | `SysTypeOK` |
| `NoRunWithoutLease` | `PromptClaims => (SysSpec => []RunningHasLease)` | `RunInv` |
| `PaymentTypes`, `ReviewIsCurrent`, `WaitsAreUnderWay`, `OrdersOneByOne` | `Spec => []TypeOK`, `[]ReviewedIsCurrent`, `[]LoadingIsUnderWay`, `[]OneOrderPerDialog` | `PaymentInv` |
| `SavesOneByOne`, `SendsOnlyTyped`, `BaselineIsSaved` | `Spec => []OneSaveAtATime`, `[]OnlyTypedIsSent`, `[]BaselineIsAccountedFor` | `FormInv` |
| `ShownListIsOpen`, `ConfirmsShownList`, `ActionsOneByOne` | `Spec => []ListIsTheOpenOne`, `[]ConfirmIsForShownList`, `[]OneActionPerOpening` | `DialogInv` |
| `AuthTypes`, `CheckingHasARefresh`, `LockPreventsReuse` | `Spec => []TypeOK`, `[]CheckingIsUnderWay`, `[]ReuseNeedsALostAnswer` | `AuthInv` |
| `SignOutIsFinal`, `SwitchNeedsALogin` | `Spec => SignedOutStaysOut`, `NoSilentSwitch` | `AuthInv` |
| `PlaygroundTypes`, `ChunksStayHome`, `WholeAnswers`, `OnlyLivePends` | `Spec => []TypeOK`, `[]NoForeignChunks`, `[]AnswersAreWhole`, `[]PendingIsLive` | `Inv` of `PlaygroundProofs` |

Billing. `TypeOK` is not inductive: a clipped settlement indexes `users`, `tokens` and `subs` with the ids stored in the
operation, and what those accesses return is only known if an open operation names an existing user, and a subscription
when it is funded by one. `OpsOwned` and `TasksOwned` say that; the second is needed because an adopted operation takes
its owner from the task row. With these, the capacity bound (`AdditionalCapacity`) keeps `reserved + delta` in
`0..MaxQuota`, and the floor in `FundingFits` keeps `amount_used` non-negative after a reset.

`LinkInv` says that a task and its operation name each other, and that an operation stored under a task's own id is that task's; so
an adoption and a link cannot meet. `FinishedTaskIsBilled` needs `PriceInv`, because a repeated close of a closed operation is a no-op
only as its first outcome.

The ledger rests on one lemma, `StepMoves`: every step either writes one operation and moves wallet, token and
subscription by the change of its charge (`OperationMoves`), or writes none and changes no account (`AccountsKept`). It is proved action by action, the columns
through `ChargedTokenMoves` and the lemmas beside it. `FreshHoldsNothing` is needed where an operation is opened: what it
held before is then zero, or the quota of the task it adopts. The three action properties and the refinement follow: an
`OperationMoves` step is a `Begin` or a `Change` of `Escrow`, an `AccountsKept` step a stutter.

`QuotaIsConserved` speaks of the sum of the charges of all operations. A charge is a natural number, so the sum is the
number of units of quota held, pairs of an operation and a number up to its charge (`UnitsFrom`); the library's theorems about
cardinalities then do what an induction over the operations would. One assumption is needed and nowhere else used, that
there are finitely many operations (`FiniteAssumption`). `UnitsMove` says that a step that writes one operation changes the number of units by the
change of its share; with `BalancesMove` every account stays short of exactly what operations hold from it (`AddsUp`), which
is the conservation law for wallets, tokens and subscriptions.

Tasks and their workers. `ChargedMeansDelivered` is about workers that write what they read long ago. `FlowInv` therefore says what a
worker's stale row still has in common with the stored one (`ReadInv`: the same task and, when it is a request's, the same operation; only a
fetch has read an ended row), and that a success which a worker is about to write was the job's (`ConclusionInv`). `JobInv` says that a
request that was not submitted has no job and that a row which says success is right; `RequestLinkInv` that the operation of a request belongs to one task. `ConclusionInv` carries
the subtle case: a fetch that has read a success writes a success, so it cannot take a charged task back.

Leases. `StaleIsExpired` says that a runner that believes the lock stale is right, or the lock has been replaced and its belief
withdrawn - the model's form of the condition `locked_until < now` in every WHERE clause. From it a takeover or a cleanup
only ever hits a lease that has run out. `RunInv` adds that a run executes only where it was started (`StartedBy`, `ExecutesStarted`), that
one run of the type is active (`OneActive`), that a claim past its lock statement holds the lock (`ClaimHasLease`, which needs
`PromptClaims`), that a pass which may still take over a stale lock knows that nothing runs and one which may still delete it knows that its
run has been failed (`StaleMeansIdle`), that a claim names a run (`PassTasks`) and that a running run is under the lock of the runner that
started it (`RunningUnderOwnLease`).

Payment. `PaymentInv` adds to the properties that outstanding calculations are no newer than the counters and, when they belong to
the current selection, were asked for what the form shows (`CalcsAreOlder`), that their numbers differ (`IdsAreUnique`), that an
outstanding order keeps its hook busy (`OrdersKeepBusy`, `CreemKeepsBusy`), and that a method is active from the start on (`ReadyHasMethod`).

Settings. `FormInv` adds that the server, the cache and an outstanding fetch hold values the server has had (`OptionsWereSaved`), that
what a submit of the present form has no longer to send is accounted for (`DataWasSaved`), that a changed field was typed (`ChangedWasTyped`), and that submits belong to
this opening of the form or an earlier one (`SubmitsAreOlder`). `BaselineIsAccountedFor` names its exceptions: the client's default where the query has no data or
the server has had a value that a page does not get, a value whose normalised form was stored, and no value at all in the pricing section. The first
one is why `DataWasSaved` is about the present form only: the first answer opens a new form, and a submit of the one with the defaults is then an
older one.

Key dialog. The coordinator's session and request are the newest ones and belong together (`CoordInv`), what is outstanding is no newer
(`AgeInv`), and a request is loaded once (`LoadInv`), so an answer for the current request was asked for under the filter of the
dialog (`FilterInv`). `ConfirmInv` ties the second dialog to the list it was opened from, `ActsInv` an outstanding action of the current session to
the flag that holds back the next one.

Authentication. Three arguments share one invariant, `AuthInv`. An answer with a session is about the session the page has in memory as long
as the epoch of the request lasts (`AnswerInv`): the page never changes its session through a refresh. A session that a page has seen end is not
active, so the server gives out nothing new for it, and the answers that are on the way belong to an earlier epoch (`EndInv`);
a new login gets a session that nothing in the browser knows (`FreshInv`), so it cannot be an ended one. Under the lock, and as long as no answer about a session
was lost, whoever presents a secret presents the current one, and the cookie is the current one unless its successor is on the way to the
tab that holds the lock (`LockInv`, `SecretInv`). `LockInv` has to speak of requests that a reloaded page left behind, too: they count as lost.

Playground. An update that the network or a timer makes is a function that React runs later, so that what the list is now says little
about what it will be. `Inv` therefore speaks of `Final`, the list that the queued updates make of the present one (`RunAll`), next to the list
that has been run and the one that is shown. A mounted page is in one of two modes and a page that was left in a third. At rest (`Quiet`) nothing is queued and no
message waits for anything. With a request (`Busy`) all three lists end with the message of the current generation, preceded by messages of
earlier ones (`Ending`); that message is unfinished as long as a stream or a call is live, and `Final` has it settled from then on; its text in
`Final` followed by the chunks still buffered is what the server has sent. That last equation is why a completion that flushes the buffer first
loses nothing. When the page is left (`Away`) only the last message of what is stored can be unfinished, and its request counts as cut, so that
the load repairs it. `Tagged` says that buffered chunks and queued updates carry the current generation, `Control` how the flags, the
stream, the call and the timer belong together, `Stored` that without an outstanding save the stored conversation is the present one.

What a queue of any length does to a list needs an induction. The library's induction theorems take a predicate as an operator, so
`SetInduction` states the principle for a set and derives it from the well-foundedness of `<`; from it `RunOneMore` (one more queued update is one
more `Run`) and `WithoutKeeps` (what a deletion leaves) follow. For this `RunAll` and `RemoveMessageByKey` are written as recursive functions.

Only model-checked: the liveness properties (`TasksFinish`, `ReservationIsResolved`, `RunsEnd`, `NobodyWaitsForever`, `GenerationEnds`,
`FormSettles`, `LoadingEnds`), which are beyond this prover. Every safety property that a passing run checks is also stated by a theorem.

## 5. Abstractions, limits and what is not modelled

* The database is serializable for the rows a transaction locks. SQLite, MySQL and PostgreSQL reach this by different means
  (`model/locking.go`); the models do not distinguish them.
* The quota caches and the batch updater are left out: billing transactions read the database.
* A price is any quota. How it is computed from tokens, ratios or expressions is not modelled.
* The progress column of a task is abstracted: a running task with progress `100%` is skipped by poller and sweep in the code
  and cannot arise in the model. The adaptors report less than that while a job runs, also to a fetch that brings a finished task
  back; only a reply in the New-API format is stored as it comes and could produce it.
* The nodes agree on the time. A clock that is ahead by more than a lease breaks the lease protocol, as any of its kind.
* A second handler of the same job type may run on after its lease is lost until its next heartbeat; this overlap is in the
  model (`cancelled`), and what the job itself does in it is not, except for the polling job, which is `TaskBilling`.
* The browser model has one browser with one cookie jar. Sessions do not expire by age.
* A closing of the key dialog with an action outstanding, and reopening it, may show the list from before the action; a place
  in it may then name another key. `OneActionPerOpening` says what the client does ensure.

* Steps that the code takes one after the other and a model takes as one, where the properties do not see the difference: the two statements of
  a token's credit, quota and revival (`model/token.go:570-581`, `ChangeTokenQuota`); a failing or ineffective update of a run and the release of its lock (`service/system_task.go`, `model/system_task.go:242-259`,
  `PassFails`); the check of the auth version before a rotation or revocation (`service/auth_session.go:228-230`, `RefreshAuth`); mounting the chat page
  and the load that its `setTimeout(0)` starts (`use-playground-state.ts:81-94`, `Mount`); the end of a submit that sends nothing (`Submit`).
* Conditions left out: a revived token's key prefix (`model/token.go:602`, `Restored`); the auth version checks of a recovered
  refresh (`model/user_session.go:837,854`), which the row's own version stands for; a login, sign-out or security change that is under way when its page is
  reloaded is forgotten (`PageLoad`), and a sign-out request is always answered (`AuthLogout`). `TaskBilling` reserves from a wallet without a token.
* `RefundRevivesToken` speaks of the refund's own step; `ReservationIsResolved` exempts a handler that crashed; `RunningHasLease` holds under
  `PromptClaims`. The `playground` run streams one chunk per answer, so that the order of several is shown by the theorem `WholeAnswers` only.
* The query cache of the settings is not emptied by a long absence; opening the page for the first time is where `SettingsForm` starts.

Most of the repository's TypeScript is not modelled: some thousand files of the web interface are tables, drawers, editors, charts, pages, schemas and translations. They
render props and send one request per click, and have no state that two actors write; a state machine of them would
restate their markup. The share of lines that the models map is therefore small, about 1.4 % of the web sources and some 4,500 lines
of the server; it is the part where interleaving, failure and order matter. Provider adaptors and `relaykit` convert data between wire formats and share nothing.

## 6. Plan

1. Server: the request path of `BillingSession` (settle, reserve more, choice of funding, flags under its mutex) with the
   synchronous relay's retries; the Midjourney reservations; top-ups, redemption and subscription orders with repeated webhooks;
   progress of tasks; rate limiters against a sliding-window specification; the versioned caches.
2. Web: the other dialogs that use the coordinator (channel test, Ollama models, tag batch edit, fetch models, the redemption
   drawer) on top of `EntityDialog`.
3. Proofs: the safety properties of what 1 and 2 add. Those of the present modules are proved.
