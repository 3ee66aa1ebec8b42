# garudapanel: a TLA+ verification project

garudapanel is a shop for VPN services: users hold a wallet, buy catalog items
from vendors, and a background worker creates the service on the vendor's x-ui
panel. All durable state is in one PostgreSQL database; the concurrency comes
from HTTP handlers (one goroutine per request), one provisioning worker per
server process, and two tickers (expiry job, rate-limiter cleanup).

The project models the parts that move money and deliver services, the accounts
behind them, the notifications they send, the pages that show them and the
start of the server. It checks them with TLC on small instances, and proves
every invariant that holds there, the three action properties and the two
refinements with TLAPS for every value of the constants.

## 1. Inventory

| component | state | operations | talks to |
|---|---|---|---|
| order engine (`order/service.go`, `repository/order_repository.go`) | `orders`, `order_idempotency_keys`, `provisioning_jobs` rows | `Create`, `Renew` | wallet, catalog, queue, proxy services, hub |
| wallet (`repository/wallet_repository.go`, `DeductTx`) | `wallets`, `wallet_transactions` | deduction, admin top-up | - |
| provisioning worker (`provisioning/worker_v2.go`) and queue | `provisioning_jobs`, its local variables | `ClaimNext`, `handleJob`, `MarkDone`, `MarkFailed` | panel, proxy services, hub |
| x-ui adapter (`xui/`) | clients on the panel (another process) | `Provision` with 3 attempts | panel over HTTP |
| proxy services (`proxy/`, `repository/proxy_repository.go`) | `proxy_services` rows | `Provision`, `Suspend`, `Resume`, `ExtendExpiryTx`, `MarkExpired` | panel, hub |
| rate limiter (`middleware/ratelimit.go`) | buckets in memory, a mutex | `allow`, `cleanup` | in front of every route |
| notification hub (`notification/hub.go`), event bus | one buffered channel per SSE connection, a map of them, a mutex | `WS`, `Notify`; `Publish` | called by orders, worker, proxy |
| audit log (`audit/logger.go`) | `audit_logs` rows, a goroutine per entry | `Log` | called by the guarded routes |
| authentication, roles (`auth/`, `middleware/jwt.go`) | `users` rows; tokens held by callers | `Register`, `Login`, `JWT`, `RequireRole` | creates the wallet, guards the order, vendor and admin routes and the dashboard |
| connection pool (`db/postgres.go`) | 25 connections | every statement; a transaction keeps one | used by all |
| bootstrap (`app/`, `config/`, `db/`, `SeedDemo`) | the schema; the demo user, vendor and items | configuration, wait for PostgreSQL, migrations, seed; once per start | every process of a deployment, on one database |
| vendors, catalog (`repository/vendor_repository.go`, `commerce_repository.go`) | `vendors`, `catalog_items` | plain inserts with unique slugs | read by orders and pages |
| storefront, dashboard (`storefront/`, `dashboard/`) | none | pages made of one to three queries | read orders, services, wallets, catalog |

Not wired into the server, and not modelled: `order/handler.go`,
`provisioning/worker.go` and `engine.go`, `payment`, `receipt`,
`servicecatalog`, `store`, `frontend`, `middleware/rbac.go`.

What is hard here: requests with one idempotency key or one wallet that
interleave; a transaction that is aborted at any statement or whose commit is
acknowledged to nobody; SERIALIZABLE snapshots that are too old to lock a row;
several workers on one queue; panel calls that are carried out although they
fail; crashes between two statements; status writes decided on an older read; an
expiry job racing a renewal; window boundaries of the rate limiter; connections
that end while an event is pushed to them; a registration that is two statements
without a transaction; audit entries written under a context that ends with the
request; roles that change while tokens are about; handlers that hold one
connection of the pool and need a second; a seed of three statements that other
starts, other callers and crashes interrupt; pages put together from queries
that see different states. `PROJECT.json` lists each of these at its line under
`hazards`.

What makes each part correct:

- orders: at most one order per key, paid exactly once, never from an
  uncovered wallet, with exactly one job; what is answered and announced is
  committed; everybody gets an answer;
- queue: a job has one worker, an order one service, `done` means delivered,
  no job is left waiting;
- services: the time renewals pay for is never lost, nothing is marked expired
  before the expiry it was given and the time added to it, or stays active after
  them, `active` means that the client exists;
- rate limiter: a bound on what passes, and no refusal that was not earned;
- hub: no send to a closed channel, one order of events for everybody, and
  nobody hangs on a subscriber;
- accounts: one wallet per user, every guarded change made in the name of an
  account whose password was presented while its role allowed it, an audit trail
  that claims nothing that did not happen;
- start: nobody serves on an incomplete schema or, in development, beside a
  half-made shop that no fault explains, and nothing an earlier start has left
  behind keeps a later one from serving;
- pages: what one page shows agrees with itself, the personal pages and the
  order query show a user's own rows, the service queries those of the vendor
  and user they name (no token is asked for, finding 3), and the checkout page
  promises what the order engine will do.

## 2. Modules

| module | models |
|---|---|
| `Purchase` | the promise of the order engine: atomic purchases, renewals, top-ups |
| `OrderEngine` | `Create`, `Renew`, top-up as interleaved statements of transactions |
| `Delivery` | the promise of the queue: every order delivered and settled at most once, in order |
| `Provisioning` | the job queue and its workers |
| `ProxyLifecycle` | a service row between provisioning, vendor, renewals and expiry job |
| `RateLimiter` | `allow` and `cleanup` |
| `NotificationHub` | `WS` and `Notify` over bounded channels and a mutex |
| `Accounts` | `Register`, `Login`, the guarded and the open routes, the audit entries |
| `Bootstrap` | the start of several processes on one database |
| `Shop` | vendors, catalog, payments and services as the pages see them; builds on `Purchase` |
| `Pages` | the storefront, the dashboard, the order and service queries, over `Shop` |
| `Sums` | sums of money, for the properties that speak of ledgers |
| `MC...` | the constants and symmetry sets of the runs |
| `...Proofs` | theorems and their proofs |

### OrderEngine

A request slot `r` has a control state `pc[r]`, what it was asked (`req`), the
order id it has drawn (`oid`) and the rows its snapshot is too old for
(`stale`). The tables are functions: `idem` over key rows, `orders`, `jobs`,
`ext` over ids, `balance`, `credit` and `debit` per wallet (the ledger is kept
as the two sums). A statement is an action: `Resolve`, `Validate`,
`LockService`, `Reserve`, `Deduct`, `InsertOrder`, `Commit`, `Notify`,
`LockTopUp`, `ApplyTopUp`. The writes of a transaction become visible in
`Commit`, which is the conjunction of `DeductTx`, `CreateTx`, `LinkOrderTx`,
`EnqueueTx` and `ExtendExpiryTx`, one per repository method; before, they show
only as locks (`HoldsKey`, `HoldsWallet`, `HoldsService` read them off `pc`).
`Create` and `Renew` share the actions from `Reserve` on, as they share the
statements.

PostgreSQL is modelled from how the code uses it: `FOR UPDATE` and unique
inserts wait for the holder; a SERIALIZABLE transaction cannot lock a row that
was changed after its snapshot (`MarkStale`); a READ COMMITTED one (top-up)
just waits. Further serialization failures, cancelled contexts and broken
connections are `Abort`; a commit whose answer is lost is the second disjunct
of `Commit`. The worker appears as `Provisioned`. Sequence ids are not given
back by a rollback. Balances are bounded as BIGINT is (`MinBalance`,
`MaxBalance`).

The connection pool is read off `pc` as the locks are: a handler from `Begin`
to the end of its transaction is in `InUse`, and a query outside a transaction
borrows a connection for its one step, so it needs `FreeConn`. `Renew` reads the
order and the price through the pool while its transaction is open
(`ReadPrice`), so a renewal needs a second connection. `Starved` names the
states in which renewals alone have used the pool up; `database/sql` waits
without a limit and no handler sets a deadline, so nothing ends them but the
caller.

The catalog does not change while handlers run, a user has at most one wallet
row (`Register` inserts it once per user id), and callers do not send keys of
the form `renew:...`, which `KeyAssumption` states.

### Provisioning

One action per step of `Start` and `handleJob`: `ClaimNext` (one statement),
`Load`, `CallPanel` (one attempt; a failing one may have created the client),
`Persist` (the transaction), `Notify`, `MarkDone`, `MarkFailed`, and `Crash`
anywhere. Ignored errors (`_ =`) are disjuncts that change nothing. The panel
is taken to answer with the UUID it was sent; of the expiry in its answer
nothing is assumed (`ProxyLifecycle`). `lost` is a history variable with
the jobs that a crash or a lost database answer has left `provisioning` with
nobody to work on them.

`Delivery` states the same from outside: an order is accepted, connected,
delivered, announced and settled, each at most once and in this order. It may be
given up as `failed`, and then be opened again for another try, which is what
the comment at `worker_v2.go:50` has in mind, or as `dead`; nothing happens to
an order that is not open, and `done` and `dead` are final. `ImplementsDelivery`
maps a job's `pending` and `provisioning` to an open order, `failed` with
`dead_letter` to `dead`, its clients, its service and its announcement to the
three sets, and every other step to a stutter. The code never takes the step
`Retry` (finding 2); a repaired `ClaimNext` that does would still have to
implement `Delivery`, and in particular not deliver an order a second time.

### ProxyLifecycle

Handlers run `Provision`, `Suspend`, `Resume` and `Renew` statement by
statement. Two details of PostgreSQL matter: a renewal holds the row from its
`FOR UPDATE` read to its end, and `now()` is the start of the transaction
(`at`). The expiry job's `UPDATE` selects rows (`ExpiryStart`), waits for
locked ones and checks its `WHERE` clause again (`MarkExpired`).

A service's first expiry depends on who created it. `ProvisionStart`, by hand,
writes `now() + duration`. `Deliver`, the worker's transaction, stores what the
panel has answered (`worker_v2.go:113`), which may be any of `PanelExpiries`: a
time in the past, or 0 for 1970, which an answer without the field decodes to
(`xui/client.go:51`). The properties are relative to it: `Granted(s, t)` says
that `t` is at least the first expiry and all the time renewals have bought, and
a full period after the last renewal began. `first`, `paid`, `renewed` (when the
last renewal began) and `touched` (the services suspended before they were ever
active) are history variables. `calm` says that crashes and failing statements
hit the expiry job no more; `ExpiryFails` is one that did.

A duration is one constant. `ExtendExpiryTx` writes `($1 || ' days')::interval`
with a Go `int`; whether the driver sends that as text is outside the model. A
statement it refuses is `RenewAbort` here and `Abort` in `OrderEngine`, so a
build in which renewals always fail has a part of the modelled behaviours and
the safety properties hold of it too.

### RateLimiter

`allow` and `cleanup` each hold the mutex throughout, so each is one step.
`realIP` picks the client a request is counted for from its headers.
`admitted` is a history variable: when a client's requests were let through,
oldest first.

### NotificationHub

A client is one connection with its channel: `cpc` follows `WS` (`Register`,
`Receive`, `Leave`, `Unregister`, `Close`), `clients` is the map, `closed` the
closed channels. A channel is the sequence `sent` of everything ever queued and
the counter `read`; `Room` compares their difference with the capacity.
`Notify` takes the mutex (`mu`), visits the channels of the map in any order
(`todo`), one send or drop per step, and releases the mutex on return; in
between connections read and end. `WS` holds the mutex for one map operation
only, so that is one step. The channel is closed after it has been removed.
`Publish` has no effect: no code subscribes to the bus.

### Accounts

`Register` is two actions, `RegisterUser` and `RegisterWallet`, since nothing
makes its two inserts atomic. `wallets` counts a user's wallet rows: the
`ON CONFLICT` of `EnsureForUser` names a constraint that includes `vendor_id`,
which is NULL here, so it never applies and the count could grow. `Login`
issues a token with the account's role. It stays good (`exp` is not looked at)
and keeps its role when an operator changes the account's (`SetRole`; `Grants`
says which roles are given to whom, no route does it).

A guarded request is `Perform`, `Log` (the entry gets its status and its
goroutine) and `Answer` (the handler returns, which cancels the context the
goroutine uses: `WriteEntry` and `LoseEntry` race with it). `Perform` makes the
change, fails, makes it and takes it for failed because the answer was lost, or,
on `order.create`, changes nothing and answers with the order that the key
already names; the last is logged as `ok` too. `asked` has the route and the
caller of every request, `done` the requests that have changed something, and an
`ok` is `Backed` by the request itself or, for a duplicate, by an order of the
same caller. Requests on the open routes are `PerformOpen`: nobody is asked who
they are, nothing is logged. What the changes are is the subject of the other
modules. Hashing and signing are ideal: only the right password matches, only
tokens that were issued verify. `registered`, `proved`, `asked` and `done` are
history variables.

### Bootstrap

A process `p` follows `app.Run`: `Start` (the configuration), `Ping` (one
attempt of `NewPostgres`), `Migrate` (one file), `Migrated`, and the seed as its
statements `Count`, `InsertUser`, `InsertVendor`, `InsertItems`. A file is one
implicit transaction of `IF NOT EXISTS` statements; processes that create the
same tables at one moment may lose with a duplicate key in the system catalog
(`losers`). A statement succeeds (`Succeeds`), fails, or takes effect although
its answer is lost (`Breaks`, `SeedFails`). Errors of the seed are not reported.
Callers of a serving process may take the address or the slug the seed wants
(`Register`, `CreateVendor`). `calm` says that faults are over for good, `torn`
that a fault has hit a seed between its statements; both are history.

### Shop and Pages

`Shop` composes `Purchase`, which `OrderEngine` implements, with the catalog,
the services of the worker and the two lists the pages show: `ledger` and
`placed`, sequences because the ids of a user's ledger rows and orders are drawn
while the wallet is locked, so that `ORDER BY id` is the order of the commits.
Services that a vendor provisions by hand need no order and are left out.
`ServiceCatalog` has the items an order is accepted for (finding 1); the pages
list the items of `catalog_items`, which is another table.

A page of `Pages` is its list of queries in `Reads`, in the order the handler
makes them; `Query` answers the next one from the shop as it is then, and the
shop moves on in between. A query the page cannot do without (`Needed`) ends it;
the error of any other one is ignored and its value stays zero (`QueryFails`).
`Request` says what callers may ask for: personal pages take the user from the
token, store pages a slug with or without a token, the service queries a vendor
and a user and no token at all. Pages only read, so one at a time is enough.

## 3. Runs

| run | question | instance |
|---|---|---|
| `order_safety` | is money or an order ever lost, doubled or misreported; does the engine implement `Purchase` | 2 handlers, 3 connections, 1 user, 2 keys, 2 vendors, 3 items, 2 orders, faults; 1.4M states |
| `order_liveness` | is every request answered | 2 handlers on 2 connections, a user with and one without a wallet, faults; 359k states |
| `order_foreign_key` (violation) | does a paid order go through on the database as the program fills it | `service_catalog` empty |
| `provisioning` | is a job done twice, a service recorded that does not exist; is every job settled; does the worker implement `Delivery` | 2 workers, 3 jobs, 2 vendors, all faults; 59k states |
| `provisioning_retry` (violation) | is a failed job tried again | 1 job |
| `ratelimit_safety` | how much passes, is a refusal earned | 2 clients, limit 2, window 2, 7 ticks; 27k states |
| `proxy_lifecycle` | is time that renewals paid for lost, a service expired early or active without a client; is an overdue service marked | 2 handlers, 1 service, 3 ticks, 2 renewals, a panel that answers with 1970 or a later time, all faults; 853k states |
| `hub_delivery` | is anything sent to a closed channel, do subscribers see one order, does anybody hang | 2 notifiers, 2 subscribers, capacity 2, 3 events; 47k states |
| `accounts_safety` | is a wallet doubled, a change unaccounted for, an entry untrue | 2 handlers, 2 addresses, changing roles, 2 requests, all faults; 3.9M states |
| `service_routes` (violation) | does a change of a service need a login | the same, without faults |
| `bootstrap` | does anybody serve too early; does everybody serve in the end | 3 processes, 2 of them seeding, 2 files, 2 pings, all faults; 342k states |
| `pages` | do pages agree with themselves; is the checkout page right | 2 users, 2 vendors, 4 items, one of them not in `service_catalog`, 2 purchases and a renewal, limits 2, failing queries; 490k states |

Why the bounds are enough: every conflict in the order engine is between two
transactions over one key, wallet or service; two handlers and two orders allow
a purchase, its duplicate, its retry and a renewal of it. Balances from -1 to 2
with prices 1 and 2 and top-ups -1 and 2 reach zero, the negative, the exactly
covered and the overflowing balance. `MaxOrders` also exercises an exhausted
sequence. Three connections let the two handlers run freely in `order_safety`;
two are the smallest pool that two renewals can use up, which `order_liveness`
needs. Two workers and three jobs let a claim skip a finished job and two
vendors make a panel missing for one of them. `Attempts` and `MaxRetries` are
the code's values; `MaxClaims` 2 leaves room for the second claim that must not
happen. A job that fails once is not claimed again, so with `MaxRetries` 5 no
job of the instance becomes dead; the proof of the refinement covers it. For the
limiter four windows fit in the clock. Rows of different services share nothing
but the expiry job's statement, so one service is enough; two handlers let two
renewals of it race with each other and with the expiry job, or one with a
provisioning, a suspension or a resumption, and three ticks reach before, at and
after its first expiry. In the hub a third event meets a full channel of
capacity 2, and two notifiers and two subscribers suffice to disagree on an
order. Two users leave room for registrations that race and one that failed, the
first of them becomes vendor and administrator between logins, and two requests
allow an order and its duplicate, or a guarded and an open request. Two
processes that seed can meet at every statement of the seed, and a third, in
production, lets callers in before either has seeded; two files let a process be
a file behind another one. Among the pages' items one repeats a slug of its
vendor, one a slug of the other vendor, and one costs nothing and is no item an
order accepts; three ledger entries and three orders overflow lists of two. The
theorems do not depend on any of these bounds.

`order_safety` and `order_liveness` assume that an operator has filled
`service_catalog`; `order_foreign_key` shows what happens otherwise.
`CHECK_DEADLOCK FALSE` is used where the system may really come to rest: the
queue (without jobs its workers wait), the hub (every event has been announced
and every connection has ended), the accounts (all addresses are taken and the
guarded requests are over) and the start (every process serves).

### Fairness

- Order handlers: a goroutine that can run does (WF of `Step`), and PostgreSQL
  queues the waiters of a row as the pool queues the waiters for a connection,
  so one whose lock or connection becomes free again and again gets it (SF of
  `Acquire`). Nothing forces a caller, an abort or the worker.
  `RequestsAnswered` holds unless the pool stays `Starved`.
- Workers: the ticker of a live process fires and each call ends, because the
  HTTP client has a timeout of 15 seconds (WF of `Work`). A crash or a lost
  answer may leave a job `provisioning` for ever; `JobsSettled` promises an end
  to every job that is not `lost` in this way.
- Expiry: the ticker fires, after a crash in the process that takes over (WF of
  `ExpiryStart`), a renewal ends (WF), and the job's `UPDATE`, queued behind row
  locks, gets its turn (SF of `MarkExpired`). A crash or a failing `UPDATE` may
  undo any attempt, so `ExpiredAreMarked` asks for nothing before they are over
  (`calm`) and does not assume that they ever are.
- Hub: a notifier in its loop and a connection that closes its channel run on
  (WF), and who waits for the mutex gets it, because Go hands a mutex over in
  order after a millisecond of waiting (SF of `NotifyLock`, `Unregister`).
  Subscribers are not forced to read or to leave.
- Start: a process that runs goes on, and one that has ended is started again,
  as `restart: unless-stopped` of the compose file says (WF of `Run`). `Boots`
  asks for nothing before faults are over (`calm`), and does not assume that
  they ever are.

## 4. What is proved

For arbitrary constants under the named assumptions (`DataAssumption`,
`BoundAssumption`, `KeyAssumption`, `ProvisioningAssumption`,
`LifecycleAssumption`, `LimiterAssumption`, `HubAssumption`,
`AccountsAssumption`, `BootAssumption`, `ShopAssumption`, `PagesAssumption`),
stated where the constants are declared:

- `OrderEngineProofs`: `TypeOK`, `OneOrderPerKey`, `LedgerBalances`,
  `OneJobPerOrder`, `AnswersTruthful`, `LocksProtect`, `RenewalsPaid`,
  `DebitsMatchOrders`, `NoOverdraft`, `Durable`, and the refinement `Spec =>
  P!Spec`. None of the table properties is inductive: that a commit preserves
  them depends on what the transaction checked several steps earlier. `IndInv`
  therefore carries the checks along: the key a transaction holds is still free
  and nobody else holds it (`KeyHeld`), the wallet it holds still covers the
  price (`WalletHeld`), its id is its own and unused (`IdDrawn`), its request
  passed the checks (`WellFormed`, `Checked`). There is one lemma per action.
  `RenewalsPaid` adds an argument on cardinalities: a commit adds exactly one
  order to the renewals of one service. `DebitsMatchOrders` adds one on sums: a
  commit changes the cost of one order from nothing to its price and leaves
  every other term alone (`SumUpdate`). What a sum is for every length takes an
  induction, and the library's theorem for it has an operator as a parameter,
  which the provers cannot instantiate; the lemma `Induction` therefore speaks
  of a set of numbers and rests on the well-foundedness of `<`. From it come the
  existence and the uniqueness of the partial sums. For the refinement a commit
  maps to `Buy` or `Renew`, an applied top-up to `TopUp`, every other step to a
  stutter.
- `ProvisioningProofs`: `TypeOK`, `ClaimsExclusive`, `OneServicePerOrder`,
  `ServicesReal`, `DoneMeansDelivered`, `NoOrphans`, and the refinement of
  `Delivery`, from an invariant that adds how far a worker is with its job
  (`Progress`) and that a job leaves `pending` by its only claim
  (`ClaimedOnce`). The refinement needs both: that a worker's write comes
  before the verdict is known only from the claim it made several steps before.
  It is proved for every `MaxRetries`, so for jobs that end as dead as well.
- `ProxyLifecycleProofs`: `TypeOK`, `PaidTimeGranted`, `ActiveIsReal`,
  `NoEarlyExpiry`, for any set of panel expiries, from an invariant that adds
  what a handler knows about its service (`Knows`), that a service without a row
  was not renewed and suspended services are recorded as such (`RowOK`), and
  that the expiry job's clock is not ahead. That the last renewal has its full
  period is known only at its commit: its start may lie after the expiry it
  found, and the `CASE` of `ExtendExpiryTx` then counts from the start.
- `NotificationHubProofs`: `TypeOK`, which includes that no channel holds more
  than its capacity, and `SendsSafe`. The latter is not inductive: that a
  connection which closes its channel is in no notifier's loop follows from
  what it did two steps before. `IndInv` adds that what is closed or about to
  be is out of the map (`Connected`), and that a loop only visits channels of
  the map while its notifier holds the mutex (`Looping`). `SameOrder` needs
  more (`OrderInv`): calls under way have events of their own (`Numbered`), and
  the event of such a call is in no channel its loop has still to visit and the
  last one in those it has been sent to (`Newest`). So a send never puts an
  event behind one that another channel has after it.
- `RateLimiterProofs`: `TypeOK`, `AtMostTwice`, `RefusalsEarned`. A bucket
  remembers its last window only, and `AtMostTwice` is about any stretch of a
  window's length. `IndInv` says that the admission times are in order
  (`Sorted`) and that some of the admitted requests opened windows that do not
  overlap, hold at most `Limit` requests each and end with the bucket's
  (`Windows`). Of `2 * Limit + 1` requests in a row the first and the last then
  have a whole window between them. A refusal is earned because the bucket's
  window holds `Limit` requests and began at most a window ago; what the
  cleanup throws away is over.
- `AccountsProofs`: `TypeOK`, `OneWalletPerUser`, `ChangesAccountable`,
  `AuditTruthful`. `IndInv` adds that a registration between its two inserts has
  a user of its own without a wallet (`Registering`), wallets belong to existing
  users (`WalletsOwned`), a token names an account and a role its password was
  presented for (`TokensGenuine`), a handler that has arrived at "ok" has
  something to show for it (`Reporting`), and entries say "ok" only then
  (`EntriesTruthful`). `Backed` is stable: requests keep their route and caller
  and changes are not taken back.
- `BootstrapProofs`: `TypeOK`, `ServesReady`, `OneSeeder`. That a serving
  process has a complete shop beside it depends on a seed that another process
  began: `IndInv` adds that a process past a file has its tables (`Migrating`),
  that the unique address lets one process into the rest of the seed, once and
  for all (`OneSeeder`), and that a seed which was begun is complete, goes on
  or was hit by a fault (`Explained`).
- `PagesProofs`: `TypeOK`, `PagesCoherent`, `CheckoutSound`. A page's queries
  see different states of the shop, so the argument is that what an earlier
  query has read is still true when the next one is made: services and orders
  are only added, a ledger only grows. `IndInv` says of the shop that services
  have orders, each listed once (`OrdersComplete`), and that a wallet is the
  sum of its ledger (`WalletsBalance`); of a page, that its rows belong to its
  user or vendor (`RowsOwned`) and what the summary, the wallet and the
  checkout page know after each query (`SummaryRead`, `WalletRead`,
  `CheckoutRead`). A list that is shorter than its limit is the whole list,
  which is an argument on cardinalities.

`OneJobPerOrder`, `LocksProtect`, `DoneMeansDelivered`, `NoOrphans` and
`OneSeeder` are in no run of their own: the theorems cover them.

Only model-checked: the liveness properties (`RequestsAnswered`, `JobsSettled`,
`ExpiredAreMarked`, `NotifyReturns`, `ClientsLeave`, `Boots`), because fairness
and `ENABLED` are outside the prover's reach. The three violated statements of
section 5 are counterexamples and have nothing to prove.

## 5. Findings

Three statements of the repository do not hold of its code; each is a run with a
counterexample, quoted in `PROJECT.json`:

1. `orders.catalog_id` references `service_catalog`, which nothing fills: on
   the database the program builds, every order is rolled back.
2. A failed job is never tried again and never becomes a dead letter.
3. The "proxy service routes (JWT required)" (`http/server.go:193`) are
   registered without `JWT` or `RequireRole`: services are created, suspended
   and resumed, and listed, for whatever vendor and user the request names.

Observations that need no run, because the code shows them directly and the
models include them:

- `Suspend` calls no panel, although its comment says that it deactivates the
  service there; the client goes on working.
- `Suspend` accepts every status but `suspended`, so a failed service can be
  suspended and resumed into `active`. `ActiveIsReal` excludes exactly the
  services that were suspended while provisioning or after a failure
  (`touched`).
- The "sliding window" limiter (`ratelimit.go:14`) counts in fixed windows;
  `AtMostTwice` is the bound that really holds of a window's length.
- As many concurrent renewals as there are connections wait for each other
  until their callers give up (`Starved`).
- A job whose worker died, or whose last answer was lost, stays `provisioning`:
  nothing reclaims it (`lost`).
- A vendor can provision by hand for an order that the worker delivers as well;
  `OneServicePerOrder` is about the worker's services.
- A seed that dies after its first insert is never repaired: every later start
  finds no vendor, fails on the address and serves without a shop (`torn`).
- An order is accepted from a suspended vendor, and a vendor's product list
  shows inactive items, though the product page calls them not found.
- The checkout page offers a free product to a caller without a wallet, whom
  `DeductTx` then refuses, and every product that has no row in
  `service_catalog`; `CheckoutSound` states these exceptions, and that the
  balance must have been read and not have changed since.
- The audit goroutine loses its entry when the request's context is cancelled
  first, without any fault, and `migrations/005_security.sql:3` speaks of an
  "audit log for all sensitive actions". `AuditTruthful` says that the trail is
  true, not that it is complete.
- Audit entries carry neither user nor role (`FromRequest` fills in neither),
  and a change whose answer was lost is entered as an error.
- A role that was taken back goes on working until its token is thrown away.
- The worker keeps the expiry of the panel's answer and compares it with
  nothing: an answer without the field makes a service that was just paid for
  overdue at once (`PanelExpiries`).
- The interval of `ExtendExpiryTx` is built from an integer parameter as text.
  If the driver refuses that, no renewal "extends service expiry
  transactionally" (the repository's README): each is rolled back.
- A registration that fails between its inserts leaves a user without a wallet
  who cannot register again. `OneWalletPerUser` promises a wallet only to those
  who were answered with 201.

## 6. Not modelled, and the plan

Left out for good: how passwords are hashed, tokens signed and credentials
encrypted (cryptographic data); templates and the QR code (layout); health
probes, security headers, the vendors' and panels' own lists (I/O, or one query
without a second piece of state to disagree with); packages that are not wired.

Planned: a composition of `OrderEngine`, `Provisioning` and `ProxyLifecycle`
over shared order and service rows, replacing `Provisioned`, `Enqueue` and
`Deliver` by the real interface.
