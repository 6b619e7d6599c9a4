# A TLA+ model of Stora

Stora is a web shop: a Go backend over PostgreSQL, Stripe, RabbitMQ and Redis.
This directory models what several actors do to its state at once. At the core
is where money and stock move: how an order comes to exist, is paid, fails,
expires, is cancelled, shipped or refunded, while HTTP handlers, Stripe's
webhooks, a background reaper and staff act on the same rows. Around it are the
queue that mails customers, accounts and sessions, the admin gate, carts, the
catalogue, reviews, caches, rate limits and the history seeder. Source paths
below are relative to `src/`.

## Contents

1. [The system](#1-the-system)
2. [Modules](#2-modules)
3. [How the models correspond to the code](#3-how-the-models-correspond-to-the-code)
4. [What the runs check](#4-what-the-runs-check)
5. [Where the code and its comments disagree](#5-where-the-code-and-its-comments-disagree)
6. [What is proved](#6-what-is-proved)
7. [What is not modelled](#7-what-is-not-modelled)
8. [Plan](#8-plan)
9. [Running it](#9-running-it)

## 1. The system

`cmd/api/main.go` wires one process: an HTTP router, a background reaper, an
email consumer, and small services of the shape handler, service, repository.
Nothing prevents several copies of the process, and Go serves every request in
a goroutine, so all coordination is in PostgreSQL: compare-and-set updates
(`UPDATE ... WHERE status = $from`), row locks (`SELECT ... FOR UPDATE`) and
CHECK constraints. No distributed transaction spans PostgreSQL and Stripe: each
multi-step operation is ordered so that an interruption can be repaired by a
retry, a webhook, a page view or the reaper. Those orderings are what is
hard to test and what this project is about.

| Component | State | Operations | Interacts with | What is hard | What makes it correct |
|---|---|---|---|---|---|
| **orders** (`internal/orders`) | `orders.status`, `order_items`, and `products.stock_quantity` | `checkout`, `GetByID` / `ListMine` (which reconcile), `Cancel`, `AdminUpdateStatus`, `AdminRefund`, `MarkPaid`, `MarkPaymentFailed`, `ExpireStaleCheckouts` | cart (reads, empties), products (locks, stock), payments (refunder, reconciler, canceller callbacks) | five ways to release the same order; statuses read before a Stripe call and used after it | stock is conserved; statuses move along the state machine; refunded means money returned |
| **payments** (`internal/payments`) | `payments` rows, one per intent | `CreateIntent`, webhook `onIntentSucceeded` / `onIntentFailed`, `applySucceeded`, `applyFailed`, `Reconcile`, `CancelOrderIntents`, `RefundOrder` | Stripe, orders (`MarkPaid`, `MarkPaymentFailed`), messaging | webhooks late, reordered, repeated, lost; Reconcile and a webhook processing one charge together; the succeeded status doubles as the idempotency key | rows tell the truth about Stripe; every charge is backed by a live order or goes back |
| **Stripe** (external) | PaymentIntents, refunds, events | create, get, cancel, refund, confirm in the browser | payments, the customer's browser | the customer confirms at any moment; a declined intent can be confirmed again | |
| **reaper** (`cmd/api/main.go:319-345`) | a ticker | `ExpireStaleCheckouts` every ten minutes, for orders older than thirty, a hundred at a time | orders, payments | races with the payment it is about to give up on | a stale pending order is resolved even if no webhook arrives |
| **cart** (`internal/cart`) | carts and lines of users and guests | add, update, remove, clear, merge on login | products, orders | the cart read by checkout is stale when its locks are held; merging while the guest still edits | lines are neither lost nor doubled by a merge; quantities stay within stock |
| **product catalogue** (`internal/product`, `internal/imageproc`) | products, images and their files | create, bulk upload, edit, delete, add, upload and delete images | orders (stock), the storefront | the admin form writes back an absolute stock; an image is three files and two statements | stock and held units stay accounted for; one primary image, no missing file |
| **messaging, notifications** (`internal/messaging`, `internal/notifications`, `internal/mailer`) | AMQP connection and channels, queue, dead-letter queue | publish with confirm and retries, reconnect, consume, back off, dead-letter, shut down | payments publishes; the consumer sends mail | a confirm lost though the broker has the message; a channel lost while a delivery is in flight; shutdown in a back-off | a confirmed message is mailed or dead-lettered, never lost; no mail is repeated without a fault |
| **auth** (`internal/auth`) | refresh tokens, reset tokens, 2FA, recovery codes; access tokens in the clients | login, refresh, logout, change and reset password, 2FA setup, enable, use, disable | user, the admin routes | rotation raced by two refreshes; replay detection; a login in flight during a revocation; setup beside a confirmation | one live token per login; honest browsers are not logged out; codes work once |
| **oauth, user and RBAC** (`internal/oauth`, `internal/user`) | users, roles, provider links | register, provider login, assign roles | auth | find-or-create in four statements; counting administrators before writing | an identity keeps its account; an administrator remains |
| **admin gate, audit** (`internal/middleware`, `internal/audit`) | the audit log; roles in tokens | the chain of middlewares, one entry per mutation | auth, user | a role believed until the token expires; an entry written after the fact | a demotion takes hold; no mutation goes unrecorded |
| **rate limiter** (`internal/middleware/ratelimit*.go`) | token buckets in memory or Redis | allow, sweep | every route | sweep racing use; float arithmetic | never more than burst + rate x time |
| **cache, category** (`internal/cache`, `internal/category`) | TTL cache under two keys, the category tree | list, tree, create, update, delete, invalidate | database, Redis or memory | fill racing invalidation; moves that make a cycle | the cache serves the table; every category is in the tree |
| **address book** (`internal/address`) | addresses, default flag | create, update, set default, delete | | clearing and setting are separate statements over a snapshot | one default |
| **reviews** (`internal/review`) | reviews, votes, rating aggregate | create behind a purchase, moderate, delete, vote | orders, products | the aggregate is computed by a trigger from a snapshot | the rating is that of the visible reviews |
| **delivery** (`internal/delivery`) | delivery options | staff edits; the rate a checkout reads | orders | the rate is read after a slow address verification | an order pays a fee its option had |
| **history seeder** (`internal/seed`, `cmd/seedhistory`) | a development database | users, orders, carts, reviews, activity; run again | | interruptions between statements; two runs at once | safe to run again; a finished run leaves a whole history |
| brand, recommend, activity, vitals, crypto, captcha, contact, seo, config, metrics, tracing, the React frontend, deployment | rows, logs, or nothing | CRUD, pure functions, I/O | | little state shared between actors | |

How an order lives, across components:

1. The cart is read, then one transaction locks each product, compares it with
   what the customer was shown, inserts the order, takes the stock and empties
   the cart (`checkout`). The order is `pending_payment`.
2. `CreateIntent` finds the order (reconciling it on the way), reuses the pending
   payment's intent or asks Stripe for one, and hands its client secret to
   the browser, which confirms it with Stripe directly.
3. The outcome comes back by webhook, or by `Reconcile` when anyone looks at the
   pending order, or when the reaper meets it: `MarkPaid` by compare-and-set,
   then the row to `succeeded`, then a message. If the order has died meanwhile
   the charge is recorded and refunded (`applySucceeded`).
4. A failed payment, a cancellation, the reaper, or a refund ends the order. Each
   flips the status by compare-and-set and restocks in the same transaction.
   Cancelling a paid order and refunding go to Stripe first and flip last.

## 2. Modules

| Module | What it is |
|---|---|
| `OrderStatus` | The status vocabulary and the predicates the code asks of it. |
| `StockLedger` | Abstract specification: an order reserves units once, moves between live statuses, and gives its units back once, in the step that makes it dead. |
| `OrderPayments` | The core: orders, payment rows, Stripe intents and every handler that moves them, one action per SQL statement or transaction and per Stripe call. |
| `Checkout` | The checkout transaction at the grain of row locks, with cart edits, price edits, and the transactions that put stock back. |
| `AtLeastOnce` | Abstract specification of the message queue: what was taken is kept until it is dealt with, and it is dealt with in the end. |
| `Messaging` | Publishing with confirms, the broker's queues, consumers, connections, shutdown, crash and restart. |
| `Sessions` | One user's refresh tokens, browsers and passwords. |
| `Identity` | Registration, provider logins, roles. |
| `TwoFactor` | Setup, confirmation, recovery codes and removal of one user's second factor. |
| `Access` | Access tokens with their role, the middlewares in front of an admin handler and the audit entry behind it. |
| `AddressBook` | One user's addresses under READ COMMITTED. |
| `RateLimiter` | Token buckets, in memory with a sweep or in Redis with an expiry. |
| `Cart` | A customer's guest and user carts: editing, merging, being ordered. |
| `Catalogue` | Products edited and deleted over the stock ledger, and their images. Extends `StockLedger`. |
| `Categories` | The category table and the two cached forms of it. |
| `Reviews` | Reviews, votes, and the rating trigger. |
| `Delivery` | Delivery options and the part of a checkout that depends on one. |
| `Seeding` | The history seeder, interrupted and repeated. |
| `MCOrderPayments`, `MCCheckout`, `MCMessaging` | Constants and symmetry sets for TLC. |
| `Accounts`, `Shop` | The components about accounts, and those of the storefront, side by side, with the type invariant of all of them. |
| `MCAccounts`, `MCShop` | Constants, symmetry sets and a combined next-state relation for these two (section 4). |
| `StockLedgerProofs` | The ledger conserves stock. |
| `OrderPaymentsProofs` | Type correctness of `OrderPayments`, with what each worker holds. |
| `StockAndMoneyProofs` | `OrderPayments` implements `StockLedger`, hence conserves stock; the tables say of money only what is true of Stripe; a recorded charge is accounted for; what it takes to return the money of an order and fulfil it. |
| `CheckoutProofs` | Types of `Checkout`; locked checkouts implement `StockLedger`, at the prices shown. |
| `MessagingProofs` | Types of `Messaging`; a confirmed message is kept; it implements the safety of `AtLeastOnce`; repeated mails and dead letters are paid for by faults. |
| `SessionsProofs` | Types of `Sessions`; rotation, replay detection and password changes. |
| `AccountsProofs` | Every invariant and action property of the other account components. |
| `ShopProofs` | The same for the storefront. Extends `StockLedgerProofs`, as `Catalogue` extends `StockLedger`. |

`OrderPayments` and `Checkout` each contain `Ledger == INSTANCE StockLedger`:
the refinement mapping is the identity on `status`, `items` and `stock`, and
`ImplementsLedger == Ledger!Spec` is checked of both. The ledger is the
interface between them: `OrderPayments` takes a whole checkout as one
`Ledger!Reserve` step, and `Checkout` justifies that by showing that the locked,
interleaved transaction is one. `Catalogue` takes orders as the ledger has them
and lets administrators edit the stock beneath. `Messaging` implements
`AtLeastOnce` with `kept` and `handled` defined from where the copies of a
message are.

## 3. How the models correspond to the code

### OrderPayments

*Workers.* A worker is a goroutine serving one call: `Handlers` serve HTTP
requests and webhooks, `Reapers` run the reaper. `req[w]` is its call stack and
local variables: `pc` is the next statement or Stripe call, `order` and
`intent` what it works on, `seen` the status it read earlier, `to` the status it
will write, `left` the intents the reaper has still to void, and `ret` where
`Reconcile` returns. Between two steps of one worker anything another worker,
the customer or Stripe does may happen.

*Steps.* One action is one SQL statement, one transaction, or one Stripe call,
with the branching that follows it until the next such call.

| Code | Actions |
|---|---|
| `checkout` | `PlaceOrder` |
| `Cancel` (and `RefundOrder` for a paid order) | `Cancel`, then `RefundRead`, `RefundStripe`, `MarkRefunded`, then `Release` |
| `AdminRefund` | `AdminRefund`, then as above |
| `AdminUpdateStatus` | `AdminUpdateStatus`, then `StaffSet` (forward) or `Release` (cancel) |
| `onIntentSucceeded`, `applySucceeded` | `OnIntentSucceeded`, `MarkPaid`, `MarkPaidRecheck`, `UpdateSucceeded`, then `Publish` or, for a dead order, `RefundRead` ... |
| `onIntentFailed`, `applyFailed` | `OnIntentFailed`, `UpdateFailed`, `Release`, `Publish` |
| `GetByID`, `ListMine` on a pending order | `ViewOrder`, `ReconcileLatest`, `ReconcileGet`, then `applySucceeded` or `applyFailed` |
| `CreateIntent` | `CreateIntent` (which reconciles), `CreateCheck`, `CreateLatest`, `CreateReuse` or `NewIntent`, `CreateRow` |
| `ExpireStaleCheckouts`, `CancelOrderIntents` | `Reap`, `ReapList`, `CancelIntent`, `ReapGet`, `UpdateCancelled`, `Release` |
| the browser and Stripe | `ConfirmPayment`, `Charge`, `Decline` |

*Compare-and-set.* `TransitionStatus` flips the row only if it still has the
status read; `ReleaseTx` is the transaction that flips and, only when it
flipped, restocks.

*Webhooks.* `events` is a set that never shrinks: an event may be delivered at
any time after it was emitted, in any order, any number of times, or never. A
delivery that the code acknowledges without effect (no row, or row already in
that status) is not a step.

*Faults.* `Crash` ends a worker's call wherever it is: the process died, the
request's context ended, or a statement or Stripe call failed and the handler
returned the error. Where the code goes on after an error instead, that is an
action of its own: `ReconcileFails` (a failed reconcile is logged and the order
loaded before is used), `OrphanRefundFails` (the automatic refund fails and is
logged for a person; `reported`), `CreateReuseFails` (an error while looking for
a reusable intent leads to a new one) and `PublishFails`.

*Abstractions.* Amounts are not kept, since every payment is for its order's
total. Ownership and roles are not kept: any worker may make any call (`Access` has the gate). Stripe's
`requires_action` and `requires_confirmation` are treated by the code like
`requires_payment_method` without an error and are not told apart from it. An
order's age is not kept: any pending order may have passed the reaper's TTL,
which includes every schedule the clock could produce. Refunds are keyed by payment row at
Stripe, so `refunds` is a set. Product ids never become null (`Catalogue` has deletion).
After `Cancel` or `AdminRefund` the order is loaded again for the response; that
read changes nothing, because the order is no longer pending.

### Checkout

A request is named by the order it may place. `ReadCart` is `GetCart`, before the
transaction. `LockProductForUpdate` is one `SELECT ... FOR UPDATE` with the
comparison of stock and price that follows it, in cart order. `Commit` is
everything from `CreateOrder` to COMMIT: other transactions see it at once, and
the rows it touches are locked. `BeginRelease`, `IncrementStock` and
`CommitRelease` are the restocking transactions, whose `UPDATE`s lock the same
rows; `ItemsForRestock` has no ORDER BY, so items come in either direction.
`Abort` is a failure anywhere in a transaction. `DeadlockDetected` is
PostgreSQL's detector: it aborts a transaction that stands in a circle of
waiters. `AddItem`'s insert of a new line waits for a product that a checkout has locked,
because its foreign key takes a key-share lock on the row; a restock's `UPDATE`
holds a weaker lock that it need not wait for. `EditPrice` and
`UpdateItemQuantity` wait for either.

### Messaging

`pub[e]` is the `publishWithRetry` call of an event, `cons[p]` the goroutine
`RunConsumer` of process `p` with its attempt and the delivery it holds, `conn[p]`
its AMQP connection and `life[p]` the process. The broker is the bag `ready` of
waiting copies and the bag `dead`; a copy handed out is held by the consumer as
long as its channel is alive (`live`), and is queued again when it is not. A lost
connection and a lost channel differ, as they do in `broker.go`: the first also
ends the confirms a publisher waits for. `Stop` begins a graceful shutdown, in
which a handler in a back-off gives its message back; `Crash` and `Restart` are
the process dying and its container coming back. Events are one per order and
outcome; what a mail says is left out.

### Accounts

One statement is one step in all of them; a request is a record with a `pc`.

| Code | Actions |
|---|---|
| `Login`, `RefreshTokens`, `Logout` and the cookie handlers | `Sessions`: `Login`, `LoginStore`; `RefreshRead`, `RefreshMark`, `RefreshIssue`, `Revoke`; `Logout`; `Answer` puts the token into the browser's cookie |
| `ChangePassword`, `ForgotPassword`, `ResetPassword` | `Sessions`: `ChangePassword`, `ChangeUpdate`; `ForgotPassword`; `ResetPassword`, `ResetUpdate`, `MarkResetTokenUsed`; both end in `Revoke` |
| `OAuthLogin`, `Register`, `AdminSetRole` | `Identity`: `OAuthLogin`, `GetUserByEmail`, `CreateOAuthUser`, `LinkAccount`, `issueTokens`; `Register`; `AdminSetRole`, `CountByRole`, `UpdateRole` |
| `Setup2FA`, `Enable2FA`, `useRecoveryCode`, `Disable2FA` | `TwoFactor`, under the same names and one action per statement |
| the admin routes' chain, `GenerateTokenPair`, `audit.Middleware` | `Access`: `Auth`, `RequireStaff2FA`, `Handle`, `Record`; `LogIn` or `RefreshAccess`, then `GenerateTokenPair` |
| `address/repository.go` | `AddressBook`: `ResetDefaults` takes a statement's snapshot, `LockRows` waits for the rows in it, `WriteAddress` is the last statement and COMMIT |
| `memoryStore`, `tokenBucketScript` | `RateLimiter`: `FindBucket`, `Allow`, `Sweep`; `RunScript`, `KeyExpires`, `FailsOpen` |

Passwords, bcrypt, TOTP codes and JWT signatures are outcomes. Time in `Access` and
`RateLimiter` is a counter of ticks; tokens of a bucket are whole, so the floats'
rounding is not in the model.

### Shop

| Code | Actions |
|---|---|
| `cart/service.go` | `Cart`: `AddItem`, `resolveCart`, `AddCheck`, `AddWrite`; `UpdateItem`, `UpdateItemQuantity`; `RemoveItem`, `ClearCart`; `Merge`, `MergeLoad`, `MergeStatus`, `MergeExisting`, `MergeMove`, `MergeDelete`, `MergeDiscard`, and `MergeAnswer`, which takes the guest cookie away |
| `checkout` as the cart sees it | `Cart`: `CheckoutReads`, `CheckoutCommits` |
| the product form, `Create`, `BulkCreate`, `Update`, `Delete` | `Catalogue`: `BeginEdit`, `CreateProduct`, `Update`, `Delete` |
| `UploadImage`, `Process`, `AddImage`, `AddImageWithVariants` | `Catalogue`: `UploadImage`, one `Process` per variant, `AddImage`, `UnsetPrimary`, `InsertImage` |
| orders over an edited catalogue | `Catalogue`: `OrderPlaced`, `OrderAdvances`, `OrderDies` with its restocking loop |
| `category/service.go`, `cache` | `Categories`: `ReadMisses`, `QueryList`, `Fill`, `Expire`; each mutation, then `DropList` and `DropTree` |
| `review/service.go`, `products_rating_refresh` | `Reviews`: each write takes its trigger's snapshot, `Refresh` writes the aggregate and commits |
| `delivery`, `resolveShipping` | `Delivery`: `ListOptions`, `CheckoutSent`, `VerifyAddress`, `Rate`, `PlaceWithFee` |
| `seed/history.go` | `Seeding`: one action per insert, the activity as `CheckSentinel`, `LoadJourneys`, `CommitActivity` |

*Ghost variables.* Several of these modules have a variable the code does not, and
their comments say so. Some keep what a property speaks of (`wanted`: the units a
customer has asked for; `owned`: the units the shop should have; `ideal`: a bucket
nobody forgot; `inForce`: the fees an option had during a request; `lead`: the
image last asked to be primary). The others mark that a behaviour has met one of
the races the code leaves open (`raced`, `crowded`, `crossed`, `mixed`, `rushed`,
`hasty`, `unsettled`, `overwritten`, `clashed`, `outdated`, `behind`, `torn`,
`together`, `late`, `excused`). A property that names such a ghost says exactly when the
guarantee is lost, and that it holds in all other interleavings; each ghost is
set by the one step in which the race happens, never by a step that merely could
lead to it.

## 4. What the runs check

| Run | Instance | Properties | Shows |
|---|---|---|---|
| `orders_core` | 1 order, 2 intents, 2 handlers and the reaper, staff edits | `PaidIsCharged`, `RefundedIsReversed`, `RowsTellTheTruth`, `ConfirmOnlyPaid` | what the tables and the messages say about money is true of Stripe, also when the latest payment row is not the one that was paid |
| `orders_ledger` | 2 orders for one product with 2 units, quantities to 2 | `TypeOK`, `StockConserved`, `ImplementsLedger` | any interleaving of handlers and reaper moves stock and statuses as the ledger allows |
| `live_checkout` | 1 order, 1 intent, 2 handlers and the reaper, staff edits, 1 fault; webhooks may never come | `CheckoutResolves` | a pending order is paid, failed or cancelled in the end, also when a call dies half-way |
| `live_orphan` | 1 order, 1 intent confirmed up to twice, 2 handlers, no faults, Stripe redelivers | `ChargeAccounted`, `OrphanSettled` | a recorded charge is backed, refunded, reported or being refunded; a charge on a dead order is settled in the end |
| `checkout_locks` | 2 requests for the last unit of each of 2 products, 2 prices, cart edits | `TypeOK`, `ImplementsLedger`, `PlacedAsShown`, `CheckoutEnds` | locked transactions are as good as serial ones, orders are placed at the shown prices, every checkout ends |
| `messaging` | 1 event, 2 processes that publish and consume, 2 publish attempts, 3 handler attempts, 3 faults, 1 shutdown | `TypeOK`, `ConfirmedIsKept`, `NothingUnearned`, `DeliversAtLeastOnce`, `PublishSettles` | a confirmed message is mailed or dead-lettered whatever fails in between; mails and dead letters are paid for by faults; a publish returns |
| `accounts` | see below | one type invariant, nine invariants and `DemotionTakesHold` | what two requests in flight, and a failed statement, can and cannot do to sessions, identities, second factors, addresses, rate limits and the admin gate |
| `shop` | see below | one type invariant, eight invariants and `SafeToRerun` | the same for carts, products and their images, categories, reviews, delivery rates and the seeder |
| `f_*` | the smallest instance that shows it | one each | section 5 |

*Parts.* The modules about accounts share no state in the code that matters to
their properties, nor do those about the storefront. `MCAccounts` and `MCShop`
therefore put them side by side: the variable `part` says which of them a behaviour
exercises, and the others stay as they start. TLC explores the sum of their
state spaces rather than the product, and a run's state count is that sum.

| Part | Instance |
|---|---|
| sessions | 3 refresh tokens, 1 reset mail, 2 browsers, 2 requests in flight, 1 password change, 1 fault |
| identity | 3 users, 2 addresses, 2 provider accounts, 2 requests, 1 change of address, 1 fault |
| factor | 2 secrets with 2 recovery codes each, 2 requests, 1 fault |
| addresses | 3 addresses, 2 requests in flight, 6 in all, 1 failed transaction |
| limiter | 2 clients, bursts of 2, 1 token a tick, forgotten after 3, 6 ticks, clocks 1 apart, 1 Redis error |
| access | 1 user on 2 devices, tokens of 2 ticks, requests of 1, 4 ticks, 1 change of role or factor, 1 fault |
| cart | 2 products, 2 units each, 2 requests in flight, 4 in all, 1 fault |
| stock, images | 2 products, 2 orders, 1 edit form; 2 image requests, 2 urls; 4 edits, 1 fault |
| categories | 3 categories, 2 requests in flight, 3 edits, 1 fault |
| reviews | 2 authors, 1 product, 2 ratings, 2 transactions, 6 steps of customers and staff, 1 fault |
| delivery | 2 options, one built in, 2 fees, 2 shoppers, 2 edits, 2 orders |
| seeding | 1 user, 2 orders and 1 cart of up to 2 lines, 2 draws of the generator, 3 runs of which 2 at once, 2 interruptions |

What they show, one by one (a few are stated together: `NothingUnearned`, `AccountsStand`,
`FactorHolds`, `CartsAccounted`, `ImagesAsAsked` and `HistoryStands` are conjunctions of the parts named here):

* *Messaging.* `MailsAreEarned`: a fault may cost two more mails, and without one the
  mail goes out once; `DeadLettersAreEarned`: no message is buried before its attempts are
  used up, not even by a shutdown.
* *Sessions.* `OneSessionPerLogin`: however a refresh token is presented, raced or
  replayed, its login has one live token at most. `SessionsEndForAReason`: a
  session does not vanish between exchange and successor unless a statement failed.
  `NoFalseAlarm`: a browser that refreshes one request at a time and gets its answers
  never trips replay detection. `PasswordChangeEndsOldSessions`: the sessions that
  survive a password change are those whose request was in flight at the revocation.
* *Identity.* `OneAccountPerIdentity`: an identity opens one real account, and goes
  on opening it after its address has changed. `AnAdminRemains`: the last
  administrator cannot be demoted, unless two role changes overlap.
* *TwoFactor.* `EnabledIsConfirmed`: the factor that is on is one its owner has.
  `CodesWorkOnce`: also when striking a code off fails.
* *AddressBook.* `OneDefaultAddress`: with the schedules of READ COMMITTED that break
  it named (an address inserted while another request's reset waits, or a default being
  inserted that a reset going through cannot see), and the one operation that leaves
  none (deleting the default).
* *RateLimiter.* `ForgettingIsHarmless`: sweeping a bucket, or letting its key expire,
  changes no later answer.
* *Access.* `DemotionTakesHold` bounds for how long a lost role can still be used;
  `AuditMissesNothing` counts entries against what happened.
* *Cart.* `UnitsAccounted`: over edits, merges and checkouts no unit appears or
  disappears, unless a merge is raced: by another request on these carts, or by a new
  session that replaces the guest cart; `LinesFitStock`: no line outgrows the stock.
* *Catalogue.* `StockAccounted`: stock and held units are what the shop started with
  and its administrators added or took. `PrimaryAsAsked`, `ImagesHaveFiles`.
* *Categories.* `CacheTellsTheTable`, in both forms; `TreeShowsAll`: `buildTree` drops
  nothing.
* *Reviews.* `RatingFollowsReviews`: the rating is that of the reviews a shopper can see,
  unless two transactions on one product overlapped.
* *Delivery.* `FeeOfTheMoment`: an order pays a fee that was in force during its
  request.
* *Seeding.* `HistoryComplete`, `SafeToRerun`, `FunnelMatchesOrders`: what a later run
  makes of what earlier ones left.

Each property of a passing run has a mutant: an operator next to the one it
stands for, marked `Mutant:`, that changes it as a plausible bug would (a
dropped guard, a swapped order, a missing lock), and under which TLC finds that
property violated.

*Bounds.* `MaxQty` units per line, `MaxIntents` intents per order, `MaxTries`
confirmations per intent and `MaxFaults` faults per behaviour bound what would
otherwise grow without end; all are guards in the actions that name them
(`NoIntentLeft` is the call that meets the intent bound). Two workers of the same kind plus
the reaper give every pairwise race and most of the three-way ones; one order is
enough for questions about money, because nothing but stock is shared between
orders, and two orders are used for stock. Two intents are enough for a row that
is not the latest; two confirmations give a decline followed by a charge.
One fault per behaviour is enough to interrupt any call at any point; the
safety theorems of section 6 hold for any number. In `messaging`, three faults are
enough to use up a consumer's attempts, and to lose a confirm, a connection and a
process in one behaviour; one event is enough because events share nothing but the
queue, whose order the consumer does not rely on. In `accounts` and `shop`
two requests in flight give every pairwise race; the `Max...` constants bound requests begun, and
each is large enough for a request to follow on what two overlapping ones left.
The mutants are evidence that the bounds let the interesting cases happen: each
violation needs one of them.

*Deadlock.* All runs say `CHECK_DEADLOCK FALSE`: with bounded orders, intents,
confirmations and requests the system comes to rest when all of them are used.
Being stuck with work outstanding is what the liveness properties exclude.

*Staff.* The runs use `Forward`: staff ship paid orders and cancel pending ones.
`AdminUpdateStatus` accepts a forward edit from any status; see section 5.

*Fairness.* `OrderPayments!Fairness`: a goroutine that is not interrupted takes
its next step (weak fairness; the Go scheduler and the database answer), the
reaper's ticker visits every stale order as long as it stays stale or keeps
becoming it (strong fairness; the query is ordered by age, takes a hundred orders and runs every
ten minutes), and a processing intent settles at Stripe. Nothing is assumed of customers,
staff, page views or webhooks. `WebhookSpec` adds that Stripe redelivers a
success event until a handler takes it, used by `OrphanSettled` only, because
the code itself relies on redelivery for a charge whose order is already dead:
the reaper no longer looks at it. `Checkout!Fairness`: a
transaction that can run again and again gets to run (strong fairness), which
PostgreSQL's lock queues and its deadlock detector provide; `Abort` is not fair.
`Messaging!Fairness`: a publish in progress, a consumer goroutine, and the watcher, exit
and restart of a process go on when they can (weak fairness: they wait for nothing
but RabbitMQ, timers and the container's restart policy); faults, shutdowns and new
events are not fair. The modules about accounts and the storefront state safety only.

`CheckoutResolves` is checked with one intent per order on purpose: with two it
fails, which is run `f_stuck_pending`. `ChargeAccounted` is checked without
faults and with one intent on purpose: a second intent makes it fail, which is run
`f_second_charge`, and so does a crash (section 5).

## 5. Where the code and its comments disagree

Each of these is a run that TLC ends with a counterexample.

| Run | Property | What happens |
|---|---|---|
| `f_second_charge` | `ChargeAccounted` | `RefundOrder` looks at the latest payment row only. When two intents of a cancelled order are charged, the refund of the later one is taken for the refund of the older one, which is neither returned nor logged (`internal/payments/service.go:374`). |
| `f_refund_ship_race` | `NotRefundedAndFulfilled` | Refund and shipment race: the money goes back, the status flip misses, the order stays shipped (`internal/orders/admin.go:105`). |
| `f_stuck_pending` | `CheckoutResolves` | `CreateIntent` finds that the intent it meant to reuse was charged a moment ago, and makes another. The webhook of the first is lost; the reaper finds its charge and hands the order to `Reconcile`, which looks at the latest row only; the order stays pending for ever (`internal/payments/service.go:452`). |
| `f_rating_lost` | `RatingsInSync` | Two reviews of one product are written in overlapping transactions. Each trigger counts from its own snapshot and waits for the product row; the second to commit overwrites the rating with one that misses the first (`migrations/000034_denormalize_product_ratings.up.sql:3`). |

More behaviours follow from the same definitions and are worth knowing,
though no run is kept for them. About orders and payments:

* Two `CreateIntent` calls in flight together (a double tap) both find no pending
  payment, and each creates an intent (`internal/payments/service.go:221` means
  to reuse one). Both can be paid; when both are, the order is confirmed twice and
  the second charge stays.
* For a dead order the row is set to `succeeded` before the refund. A crash in
  between leaves a charge that no event will reopen, because `succeeded` rows are
  skipped (`internal/payments/service.go:360`).
* A `payment_failed` event delivered after the retry succeeded overwrites the paid
  order's row with `failed`, and `RefundOrder` then refuses (`README.md:130` of the
  repository promises the refund).
* Products are locked in cart order, so two carts with the same products in
  opposite order wait for one another until PostgreSQL aborts one
  (`internal/orders/service.go:281`). `CheckoutEnds` holds all the same.
* `AdminUpdateStatus` accepts `processing`, `shipped` or `delivered` from any
  status. From `pending_payment` it fulfils an order nobody paid for, so
  `PaidIsCharged` and `ImplementsLedger` hold only for as long as staff do not
  (`StaffCareful`, section 6); `StockConserved` holds all the same.
* From `cancelled` or `payment_failed` it revives an order whose units were put
  back; a late charge and a refund then restock them a second time, and
  `StockConserved` fails. It is the one thing that makes it fail (`NoStockLost`).
* A success event redelivered after a refund is processed again, because only
  `succeeded` rows are skipped: the row goes from `refunded` back to `succeeded`
  and the confirmation is published once more. `RowsTellTheTruth` still holds:
  the charge did succeed.
* The reaper records an intent as cancelled when Stripe refused to cancel it and
  then reports neither `succeeded` nor `processing`. If the intent was
  processing and was declined in between, the browser can still confirm it;
  such a charge is then settled as an orphan.
* Orders the reaper cannot resolve keep their places at the head of its batch of a
  hundred; enough of them would keep younger ones out.

About the rest:

* `orders/model.go:130` validates the shipping method with
  `oneof=standard express`, while `migrations/000035` introduces delivery options
  "replacing the hardcoded standard/express constants": an option under a new code
  is listed and cannot be ordered. `Delivery` has this as `BuiltIn`.
* A checkout request names the option and not the fee its page showed, so an edit in between
  is charged unseen; a changed product price is refused.
* The repository's `README.md:126` names the merge strategies
  `merge|keep_user|keep_guest`; the code takes `guest` and `user`.
* `AnAdminRemains` does lapse when two administrators are demoted at once: each
  request counts two.
* A category can be moved under its own descendant (`category/service.go:126`
  compares with the category alone); the circle disappears from the tree.
* Deleting the default address leaves none, until the next one is created as
  the first or chosen.
* Writing back the recovery codes replaces the list read before, so of two codes used at
  the same moment one comes back.
* The history seeder says it is deterministic, but `dayWeighted` draws again for
  weekend days and an order in the future has its time drawn again, so the stream
  depends on when a run starts: a later run leaves the orders alone and may add cart
  lines and reviews. An order whose run was interrupted before its items keeps
  none. Two runs at once write the activity twice. `StalePendingOrders` will
  find its pending orders and return units they never took.
* The audit middleware does not defer its entry: a handler that panics after its statement
  leaves no trace.

## 6. What is proved

`tlapm` checks every proof to its leaves. The theorems hold for every value of the
constants that the assumptions allow: any finite set of orders, any products,
any number of handlers and reapers, any bounds.

| Theorem | Statement | Needs |
|---|---|---|
| `StockLedgerProofs!Conservation` | the ledger satisfies `[]StockConserved` | `LedgerAssumption` |
| `OrderPaymentsProofs!TypeCorrect` | `Spec => []TypeOK` | `OrderPaymentsAssumption` |
| `StockAndMoneyProofs!Refinement` | `Spec /\ []StaffCareful => ImplementsLedger` | `OrderPaymentsAssumption` |
| `StockAndMoneyProofs!NoStockLost` | `Spec /\ []NoneRevived => []StockConserved` | `OrderPaymentsAssumption` |
| `StockAndMoneyProofs!RowsTruthful` | `Spec => []RowsTellTheTruth` | `OrderPaymentsAssumption` |
| `StockAndMoneyProofs!RefundFirst` | `Spec => []RefundedIsReversed` | `OrderPaymentsAssumption` |
| `StockAndMoneyProofs!OnlyPaidConfirmed` | `Spec => []ConfirmOnlyPaid` | `OrderPaymentsAssumption` |
| `StockAndMoneyProofs!EachPaidOrderCharged` | for each order `o`, `Spec /\ []PaidEdits(o)` => `o` is charged whenever it is paid, fulfilled or refunded | `OrderPaymentsAssumption` |
| `StockAndMoneyProofs!PaidOnlyIfCharged` | `Spec /\ []StaffCareful => []PaidIsCharged` | `OrderPaymentsAssumption` |
| `StockAndMoneyProofs!EachChargeSettled` | `Spec /\ [][~OrphanDropped]_vars =>` the recorded charge of every order not charged twice is accounted for | `OrderPaymentsAssumption` |
| `StockAndMoneyProofs!ChargesAccounted` | `Spec /\ [][~OrphanDropped]_vars => [](OneChargeEach => ChargeAccounted)` | `OrderPaymentsAssumption` |
| `StockAndMoneyProofs!OnlyTheRace` | `Spec /\ []NoneRevived /\ [][~(ShippedUnderRefund \/ RefundCutShort)]_vars => []NotRefundedAndFulfilled` | `OrderPaymentsAssumption` |
| `CheckoutProofs!CheckoutTypeCorrect` | `Spec => []TypeOK` | `CheckoutAssumption` |
| `CheckoutProofs!ShownPrices` | `Spec => PlacedAsShown` | `CheckoutAssumption` |
| `CheckoutProofs!LocksSuffice` | `Spec => ImplementsLedger` | `CheckoutAssumption` |
| `MessagingProofs!QueueTypeCorrect` | `Spec => []TypeOK` | `MessagingAssumption` |
| `MessagingProofs!ConfirmedKept` | `Spec => []ConfirmedIsKept` | `MessagingAssumption` |
| `MessagingProofs!QueueKeepsItsWord` | `Spec => Promise!Safety` | `MessagingAssumption` |
| `MessagingProofs!NothingEverUnearned` | `Spec => []NothingUnearned` | `MessagingAssumption` |
| `SessionsProofs!SessionTypeCorrect` | `SessionSpec => []SessionTypeOK` | `SessionsAssumption` |
| `SessionsProofs!OneSession` | `SessionSpec => []OneSessionPerLogin` | `SessionsAssumption` |
| `SessionsProofs!SessionsGoOn` | `SessionSpec => []SessionsEndForAReason` | `SessionsAssumption` |
| `SessionsProofs!PasswordChangeEnds` | `SessionSpec => []PasswordChangeEndsOldSessions` | `SessionsAssumption` |
| `SessionsProofs!NobodyFalselyAccused` | `SessionSpec => []NoFalseAlarm` | `SessionsAssumption` |
| `AccountsProofs!AccountsStandAlways` | `IdentitySpec => []AccountsStand` | `IdentityAssumption` |
| `AccountsProofs!FactorHoldsAlways` | `FactorSpec => []FactorHolds` | `TwoFactorAssumption` |
| `AccountsProofs!OneDefaultAlways` | `AddressSpec => []OneDefaultAddress` | `AddressAssumption` |
| `AccountsProofs!ForgettingIsAlwaysHarmless` | `LimiterSpec => []ForgettingIsHarmless` | `LimiterAssumption` |
| `AccountsProofs!Demotion` | `AccessSpec => DemotionTakesHold` | `AccessAssumption` |
| `AccountsProofs!AuditComplete` | `AccessSpec => []AuditMissesNothing` | `AccessAssumption` |
| `AccountsProofs!AccountsTypesCorrect` | the six specifications of accounts `=> []AccountsTypeOK` | their six assumptions |
| `ShopProofs!CartsAlwaysAccounted` | `CartSpec => []CartsAccounted` | `CartAssumption` |
| `ShopProofs!StockAlwaysAccounted` | `CatalogueSpec => []StockAccounted` | `CatalogueAssumption`, `LedgerAssumption` |
| `ShopProofs!ImagesAlwaysAsAsked` | `CatalogueSpec => []ImagesAsAsked` | `CatalogueAssumption`, `LedgerAssumption` |
| `ShopProofs!CacheAlwaysTells` | `CategorySpec => []CacheTellsTheTable` | `CategoryAssumption` |
| `ShopProofs!TreeAlwaysWhole` | `CategorySpec => []TreeShowsAll` | `CategoryAssumption` |
| `ShopProofs!RatingsFollow` | `ReviewSpec => []RatingFollowsReviews` | `ReviewAssumption` |
| `ShopProofs!FairFees` | `DeliverySpec => []FeeOfTheMoment` | `DeliveryAssumption` |
| `ShopProofs!HistoryStandsAlways` | `SeedingSpec => []HistoryStands` | `SeedingAssumption` |
| `ShopProofs!RerunsAreSafe` | `SeedingSpec => SafeToRerun` | `SeedingAssumption` |
| `ShopProofs!ShopTypesCorrect` | the six specifications of the storefront `=> []ShopTypeOK` | their assumptions |

*Assumptions.* `LedgerAssumption` and `OrderPaymentsAssumption` say that orders
are finitely many, stock is a natural number for each product, bounds are
natural numbers, a handler is not a reaper, and staff ask only for statuses the
admin page accepts. The others say that bounds are natural numbers, that what is
counted is finite, and that a value which stands for "none" (`Nobody`, `NoToken`,
`NoGood`, `Top`, ...) is not one of the things it stands in for. Beyond that:
`IdentityAssumption` has at least one user, the administrator a shop is set up
with; `LimiterAssumption` says that a bucket is forgotten no sooner than it is full
again, as is so of the configured limits and ten minutes of idling, and of the
expiry that the Redis script computes; `ReviewAssumption` that
ratings are 1 to 5; `SeedingAssumption` that the generator gives each order and cart
some lines. TLC evaluates all of them in the runs of these modules. No theorem assumes of a
constant anything that the code does not ensure.

*Conditions on behaviours.* What the code leaves to people and to luck is said of
the behaviours a theorem is about, never of the constants, so each theorem covers
every set of edits staff may ask for and every number of faults:

* `StaffCareful`: every forward edit under way starts from an order that has been
  paid for. `AdminUpdateStatus` does not ask (section 5). `PaidEdits(o)` says it of
  one order, which is all that order needs: what staff do with others does it no harm.
* `NoneRevived`: no edit under way starts from a dead order. It is weaker
  (`CarefulRevivesNone`): shipping an unpaid order makes `PaidIsCharged` and the
  refinement fail and loses no stock.
* `OrphanDropped`: a crash or a failed statement in the refund of an orphaned
  charge, after its row became `succeeded`. A behaviour may have any other fault:
  a Stripe refund that fails is reported, a webhook cut short earlier is delivered
  again, and a staff refund cut short leaves the order paid.
* `ShippedUnderRefund`: a forward edit takes effect while `Cancel` or `AdminRefund` is
  between the status it read and the one it will write. `RefundCutShort`: a crash or a
  failed statement between their `MarkRefunded` and that write.

`DisciplineIsCare` ties the first to the runs: when staff ask for forward edits of
paid orders only, as in every cfg here, they are careful throughout. TLC confirms on
one order that the conditions are where they belong: with `pending_payment ->
shipped` among the edits `StockConserved` holds (26,666 states), with `cancelled ->
shipped` it does not; and with two faults, no `OrphanDropped` step and up to two
intents, the statement of `EachChargeSettled` holds (9,139,971 states; too many for a
run of the project). `OnlyTheRace` was checked the same way (96,423 states with one
fault); with either of its two steps let back in it fails.

*Conservation.* The units of a product held by live orders are a set of pairs
(order, number). Reserving adds `want[p]` such pairs and takes as many off the
shelf; releasing does the reverse; `OneOrdersUnits` counts one order's pairs and
the finite-set theorems of the library do the rest. Type correctness is needed
for `stock` to stay natural, which the comparison in `Reserve` gives.

*Types and local variables.* `TypeOK` is not inductive: `Release` adds an
order's items back only if `req[w].order` is an order, which `TypeOK` lets be
`None`. `TypeInv` adds `Sane(req[w])`: at each `pc`, what the worker's record
holds. Its essential part is that a worker at `release` is on its way between
two statuses that the ledger lets an order be released between, which is what
`Cancel`, `AdminRefund`, `AdminUpdateStatus`, the reaper and
`MarkPaymentFailed` each establish from their guards and none may break later.

*Refinement.* `OnlyFourMoveOrders`: of all actions, `PlaceOrder`, `StaffSet`,
`Release` and `MarkPaid` alone touch the ledger's variables. Each is mapped to
`Reserve`, `Advance`, `Release`, `Advance`, or a stutter when the
compare-and-set misses, save a `StaffSet` of an unpaid order, which the ledger does
not allow (`LedgerSteps`). `NoStockLost` cannot go through the refinement, then: it is
an invariant of its own, kept by steps of the ledger (`ConservedByLedger`) and by
edits of an order that holds its units before and after (`EditKeepsUnits`,
`ConservedByMoving`).

*Money.* `RowsTellTheTruth` alone is not inductive: a worker about to write
`succeeded` must know that its intent was charged. `MoneyInv` adds `Backed`
for every worker: whoever is past `onIntentSucceeded` or past a `GetIntent` that
said succeeded holds an intent that Stripe charged; whoever is about to mark a
row refunded holds a refunded intent; whoever is about to call an order refunded
has a refund of that order behind it; and whoever is about to confirm holds an
order that has been paid. `MoneyStands` shows that none of these facts can be
undone by anybody else, so that a fact read before a Stripe call is still true
after it. `OnlyChargedGoOn` adds, order by order, that `MarkPaid` is reached only
with a charge.

*Charges.* `ChargeAccounted` fails once a handler is cut short between writing
`succeeded` and the refund, and once an order is charged twice (section 5). The
theorems say that nothing else makes it fail: of all the ways a step can fail only
`OrphanDropped` is excluded, and an order charged twice does not spoil what is said
of the others. Neither the intents of an order nor the handlers are bounded, and
`OneChargeOf` speaks of charges, not of intents: an order
may have any number of intents that were abandoned, declined or voided. `ChargeInv` lets an
order that was once paid stand for its charge, which no step takes back; that it is
either still paid or its one charge returned follows from `RefundedIsReversed` and
`TheOneCharge`. What is left is the worker inside `RefundOrder` (`RefundOrderSteps`,
`RefundOrderSettles`): if the latest row is the charge, it is returned; if it is another,
the orphan is reported; and a `Cancel` or `AdminRefund` that finds no charge to return is
on an order that was paid (`RefundOnPaid`), whose charge another worker sees to. The
same fact makes a crash of either harmless to the charge.

*Refunds and fulfilment.* `NotRefundedAndFulfilled` is what `f_refund_ship_race`
refutes. `OnlyTheRace` says how much of it stands: apart from a revived order, the edit
of that run and one crash are all there is to fear, whatever webhooks, reaper,
customers and other calls do. `RaceInv` is the invariant behind it. `RefundKnows` says
what a worker that is to return money knows of its order: `Cancel` and `AdminRefund`,
that it still has the status they read, or that another of them has finished; the refund
of an orphaned charge, that the order is dead, which without revivals is for good
(`StatusStands`). So the row that `MarkRefunded` marks is of an order that is dead, or
of one that the same worker is about to call refunded (`WhatIsMarked`), and it leaves
that step by taking it or by a crash (`LeavesRelease`). `PlacedInv` is needed for the
second question of `MarkPaid`: an order that exists and is not pending has been
decided. `LatestStays` keeps the eye on one row, as a newer one is never born refunded.

*Checkout.* Between the comparison of a line with what was shown and the commit,
any statement of anybody else may run. `LinesSecured` is why that is harmless:
every line in the customer's view either has its row locked by this checkout and is
still as shown, or is yet to be locked. Nobody edits a locked row's stock or price,
so at `Commit`, when nothing is left to lock, all lines are as shown. That
gives `PlacedAsShown` and the guard of `Ledger!Reserve` at once; every other step
is an `Advance`, a `Release`, or a stutter of the ledger.

*Messaging.* A confirm says that the broker stored the message at that moment; the
theorem says that it is not lost afterwards. `Kept` is the set of messages with a
copy in the queue, in a consumer's hands on an open channel or in the dead-letter
queue, or with a mail sent, and what has to be shown is that no step takes a message
out of it: an acknowledgement drops a copy only after a mail (`Sound`), a
rejection makes a dead letter of it, and a channel that closes puts it back.
`Traced` adds what `ConfirmedIsKept` lacks to be inductive: a message the broker has
stored but not yet confirmed, and one that a consumer still handles over a channel
that is gone, are kept as well. Every step then adds one message to `Kept` or to
`Handled` or changes neither, which makes it a step of `AtLeastOnce` or a stutter. The
types rest on two counts that no guard repeats: a publish under way has an
attempt left (`AttemptLeft`), and so has a consumer that waits to retry.

`NothingUnearned` bounds mails and dead letters by faults. The inductive form counts what
may still come out without a further fault: `MailsPaid` adds to the mails sent a publish
that may still store a copy, the copies that wait, and the consumers that still
handle one; `DeathsPaid` adds to the dead letters the attempts each consumer has seen
fail, one cut short by a shutdown counting for nothing. Each step moves one of these terms
into another, or adds to them and pays with a fault. The two sums over processes are
cardinalities of finite sets (`Load`), so that `OneProcessMore` says for any number of
processes what one step of one of them changes.

*Sessions.* `OneSessionPerLogin` speaks of tokens at rest and is not inductive:
between the exchange of a token and the storing of the next there is none, and
the request in between owns the login. `OneHeir` counts both: a login is continued by
one token not yet exchanged or by one request that has exchanged a token, never by
two of these. A revoked or expired token counts as not exchanged, because
`MarkRefreshTokenUsed` tests only `used` and a request that read it as live may
still mark it. `Rooted` and `Presented` say that what a cookie, an answer or a request
carries is a row that was stored, so that a fresh row can belong to nobody else.

`Continued` says what replaces an exchanged token as long as nothing has failed, from
which `SessionsEndForAReason` follows. `Current` extends
`PasswordChangeEndsOldSessions` from tokens to the requests about to store one:
once no revocation is outstanding, they have the current password or were under way at
the revocation. `NoFalseAlarm` needs most: `InOrder` says where each token is
(one cookie, one answer, or the request that took it from that cookie), and that it
is unspent, but for the cookie of a browser whose refresh is in flight.

*Identity.* An identity's link and its present address must name one account
(`LinkFits`). A provider login works with an address it read some statements
ago, so `LoginFits` says for each step that the address is still the
identity's, unless the identity is `unsettled`. `Staffed` counts administrators with the
role change that is about to be written: with one change at a time, a demotion
past its count leaves somebody else.

*Second factor.* `Unmixed`: setups and confirmations that keep apart leave one row, and a
confirmation that has checked its code will switch on what it checked. `Unshown`: the codes a
setup is about to store are fresh. `Unrushed`: what a request has taken from the
stored codes and has yet to write back contains no code that was used.

*Addresses.* A request that resets defaults has locked the rows its snapshot showed. `TxFits`
says what is locked is still saved; `Uncrossed`, that of the requests about to write
a default only one can succeed, the others' rows being gone, and that this one
has cleared the default there is. Making this inductive showed a schedule that
the exception `crossed` had missed: a reset that goes through while another request,
which found the book empty, is about to insert its default.

*Limiter.* A bucket may be forgotten when it has been idle for `Ttl`. `Remembered`
relates the last use to when the bucket was last found, and says that the
bucket, refilled to now, is the one that was never forgotten. The
arithmetic is that refilling over two pauses is refilling over their sum, capped or not,
and that `Ttl` suffices to fill any bucket.

*Gate and audit.* `Timely` dates what a device holds: a role in a token was held when
the request that fetched the token began, so it was lost no longer ago than a request, a token's
life and another request. `Audited` equates what happened with the entries written
and the requests that are about to write one.

*Cart.* `Balanced` says what the two carts hold while a merge is under way: a line that has been
copied counts once, though it is in both. `MergesFit` is why: one merge at a
time, and the guest's lines are those it read until it deletes them. The proof found a
schedule outside the run's bounds, which `raced` now names: a merge whose
guest session was replaced by another merge's answer goes on to copy lines of a
cart that the browser no longer has.

*Catalogue.* `Accounted` holds of every product not `overwritten`, and says also what is left of a
deleted one. Its units are counted with the lemmas of `StockLedgerProofs`. `Led`: a
product's primary image is the one last asked for, or one request stands between
its `UPDATE` and its `INSERT`. `UploadFits`: nobody else writes the files of an
upload under way, and no row names them yet.

*Categories.* `CacheTellsTheTable` is kept because whoever has edited the table has
still to drop the keys it names. That every category is reached from the top is
stated without recursion: `Above` is the least set closed under `parent`, and
`Rooted` says that every closed set that contains the category contains the top. A move
below something that is not a descendant preserves this, by an argument about one
closed set at a time.

*Reviews, delivery.* `RatingFollowsReviews` is inductive with the types once the
aggregate is shown to depend on that product's reviews only. `Fair`: the fee a
request has read, and the present one of its option while it is in flight, are among those
in force since it began.

*Seeding.* `Progress` says which rows a run has behind it at each of its loops, whether it
wrote them or found them. `OrderFilled`: an order that is there is whole, torn, or
being filled by one run. `Left` and `Alone`: what a finished stream has
written, and that a later run by itself meets the sentinel. Runs are handled one
loop at a time; nothing is summed.

*Left to TLC.* The liveness properties (`CheckoutResolves`, `OrphanSettled`,
`CheckoutEnds`, `PublishSettles` and the fair half of `DeliversAtLeastOnce`), because fairness
and ENABLED are out of the prover's reach. Every other property of a passing run is a theorem above.

## 7. What is not modelled

* Brands, recommendations, the activity log and web vitals: tables of names,
  append-only logs and read-only queries.
* Encryption, password policy, captcha, TLS: pure functions over bytes, or calls
  to others that change nothing here.
* Contact mail, SEO pages, the demo seed's fixtures and the command that makes missing image
  variants: output, fixtures, one-off.
* Configuration, response encoding, metrics, tracing, logging and the per-request
  middlewares without state.
* The frontend, beyond what its requests carry: the product form's stock is in
  `Catalogue`, the cookies in `Sessions` and `Cart`.
* Deployment, migrations and operations; the constraints, the foreign keys and the
  rating trigger the code leans on are part of the models.

Left out of components that are modelled: amounts and currencies; the text of mails;
search, suggestions, filters and listings; CSV parsing and field validation; profile
fields; the exchange with an OAuth provider; geocoding other than its outcome;
decoding and resizing of images; TOTP, bcrypt and JWT arithmetic; the rounding of the
limiter's floats. Each is a function of one request's data and decides, at most, an
outcome that the model leaves free.

The composition of `Messaging` with `OrderPayments` is at one point only: the set
`notified` of the latter is what is handed to a publisher of the former. Nothing
flows back.

## 8. Plan

1. **Done.** The ledger, orders and payments, checkout's locks; the ledger's
   conservation, type correctness, refinement and the money invariants proved.
2. **Done.** Messaging with its abstract queue; sessions, identities, the second
   factor, the admin gate, addresses, the rate limiter; carts, the catalogue,
   categories, reviews, delivery, the seeder.
3. **Done.** Checkout proved: `TypeOK`, `PlacedAsShown` and `ImplementsLedger` for any
   number of orders and products.
4. **Done.** Messaging proved: types, `ConfirmedIsKept`, the safety half of
   `DeliversAtLeastOnce`. Sessions proved.
5. **Done.** Accounts and storefront proved: every invariant and action property of
   `Identity`, `TwoFactor`, `AddressBook`, `RateLimiter`, `Access`, `Cart`, `Catalogue`,
   `Categories`, `Reviews`, `Delivery` and `Seeding`.
6. **Done.** `NothingUnearned` and `ChargeAccounted` proved, the latter with its two
   conditions in the statement: nothing has failed and no order was charged twice.
7. **Done.** The theorems about stock and money hold for any edits staff may ask for, and
   those about charges for any faults but one, with the condition on the behaviour
   (section 6) in the place of one on the constants.
8. **Done.** `NotRefundedAndFulfilled`, which the code breaks, proved of the behaviours
   without the two steps that break it.
9. **One order, one mail.** The composition of section 7 as a theorem: what
   `ConfirmOnlyPaid` says of `notified`, said of the mails of `Messaging`.

## 9. Running it

From this directory:

    tlc -workers 2 -config orders_core.cfg MCOrderPayments
    tlc -workers 2 -config checkout_locks.cfg MCCheckout
    tlc -workers 2 -config messaging.cfg MCMessaging
    tlc -workers 2 -config accounts.cfg MCAccounts
    tlc -workers 2 -config shop.cfg MCShop
    tlc -workers 2 -config f_rating_lost.cfg Reviews
    tlapm StockLedgerProofs.tla
    tlapm OrderPaymentsProofs.tla
    tlapm StockAndMoneyProofs.tla
    tlapm CheckoutProofs.tla
    tlapm MessagingProofs.tla
    tlapm SessionsProofs.tla
    tlapm AccountsProofs.tla
    tlapm ShopProofs.tla

Each run takes from a second to about two minutes. A proof module takes from a few
seconds to about five minutes the first time, on an otherwise idle machine.
