# LeanStock in TLA+

TLA+ models of the core of LeanStock, the multi-tenant warehouse API of this
repository: the TLC configurations that check them on small instances and the
TLAPS proofs that hold for instances of any size. Paths below are relative to
the root of the repository. All definitions are translated from the code;
`PROJECT.json` maps each one to the lines it stands for.

## 1. The system

Clients call an Express API. Each request is handled by a service, which works
on PostgreSQL through Prisma and on Redis through a client of its own. Worker
processes take jobs from two Redis lists; a schedule in the API process puts
jobs there. Several API processes, several workers and many requests run at the
same time, and share nothing but the two databases.

| Component | State it keeps | Operations | Interacts with | What is hard | What makes it correct |
|---|---|---|---|---|---|
| Inventory service `src/services/inventoryService.js` | `Inventory`, `InventoryLot`, `InventoryReservation`, `StockMovement`, `Location.current_volume`, `Product.sold_count` | receive, transfer, sell, reserve, release, expire | lock, email queue, warehouse service (same rows) | check and conditional update are apart; two isolation levels; aggregate, lots and volume are separate rows | no oversell; aggregate = lots; no unit made or lost; capacity; ages and lineage of lots; every hold can be released |
| Warehouse service `src/services/warehouseService.js` | `Warehouse.status`, `is_hidden`; `Location` | create, update, close, hide; create, update, delete locations | the rows transfers and receipts check | unconditional updates between a read and a write of others | requests do not rely on what they read of a location |
| Purchase orders `src/services/purchaseOrderService.js` | `PurchaseOrder`, `PurchaseOrderLine` | create, edit, submit, approve, cancel, receive | stock (receipt), lock, email queue | the order is read outside of the transaction | only approved orders bring stock in; lines and stock agree; completion is noticed; no over-receipt |
| Redis lock `src/utils/redisLock.js` | one key per locked row, with a time to live | acquire in order, run, release in reverse | every operation on stock | lost replies, expiry, GET and DEL apart | mutual exclusion; nothing left behind |
| Job queue `src/jobs/redisQueue.js` | a list per queue, a hash per job; a connection with pending commands | enqueue, reserve, complete, fail, get | API, schedule, worker | crash between two commands; retries | a job is in one place; bounded attempts; jobs end |
| Worker `src/worker.js` | one job per queue in memory | poll, process, mark; shutdown | queue, email, decay, expiry | an error in the bookkeeping after the work | the same |
| Dead stock decay `src/services/decayService.js` | `InventoryLot.last_decay_applied_at`, `PriceHistory`, `DecayAudit` | find candidates, apply | queue, manual trigger, email | overlapping calls over the same candidates; batch of 100 | once per window; the stale lots in turn; discounts add up |
| Schedule `src/jobs/deadStockDecayJob.js` | none | queue decay daily, expiry every five minutes | queue | every API process runs one | jobs are made again and again |
| Email service `src/services/emailService.js` | none | queue a message, send it | queue, provider | a message after a commit may fail | – |
| Auth service `src/services/authService.js` | `User` (failed logins), `RefreshToken`, `AuthToken`, `Tenant.is_active` | sign up, verify, log in, refresh, log out, reset | email queue, admin service | rotation against revocation; tokens used once; a counter read and written apart | a token is exchanged once; a code works once; a lock is earned; every company has an admin |
| Admin, users `adminService.js`, `userService.js` | `Tenant.is_active` | activate, deactivate, list | refresh tokens | deactivation against a login | the tokens a deactivation sees are revoked with it; whom a list shows |
| Catalog `productService.js`, `supplierService.js` | `Product`, `Supplier` | list, create, update, discontinue, deactivate | rows that orders, stock and reports refer to | a check and a write of each request are apart | references hold; history stays |
| Scope, pages of lists `tenantScope.js`, `paginator.js`, `stockMovementService.js` | none | restrict a query to a company; cursor after cursor | every list | the table changes between two pages; equal times | each row once |
| Reports, forecast `reportController.js`, `forecastService.js` | none | low stock, dead stock, decay history, forecast; start decay | decay, email queue | – | computations over stock and movements |
| Middleware, routes, configuration | rate counters in Redis | limit, authenticate, admit by role, validate | Redis, every route | INCR and EXPIRE apart; roles in two places | counters expire; the client offers what the API admits |
| Session of the web client `frontend/src/api/client.ts`, `auth/` | tokens in localStorage, the user, a shared promise | call, refresh, sign in, sign out, load | auth service; other tabs through localStorage | 401s of parallel calls, answers out of order, several tabs | one refresh per expiry; the page shows the account it acts for; calls end |
| Pages of the web client `frontend/src/pages`, `api/leanstock.ts`, `App.tsx` | the cache of queries, a cursor a list | open, leave, load more, change, ask again | every list and change of the API | requests under way while a change is confirmed; cached pages of a walk | own changes appear; walks are complete; no surprise 403 |

## 2. The modules

```
LotProfiles <- InventoryService <- PurchaseOrders <- MCPurchaseOrders
     ^           ^     ^   |
     |           |     |   +-- INSTANCE StockLedger       (abstract)
     |           |     +------ ReservationExpiry          (job over it)
     |           +------------ MCInventoryService
     +-- FifoLots <- MCFifoLots, FifoLotsProofs
ReservationExpiry, PurchaseOrders <- StockProofs
SumLemmas <- StockProofs, FifoLotsProofs, PagesProofs
RedisLock <- RedisLockProofs
JobQueue, DecayService <- WorkerProofs
AuthService <- MCAuthService, AuthServiceProofs
WebClient <- MCWebClient, WebClientProofs
Catalog, Routes <- Pages <- MCPages, PagesProofs
```

**LotProfiles**, the lots of an inventory row as a cumulative profile: `u[e]`
units in lots received at or before `e`. Oldest-first removal is then an
expression without a loop, which is what makes the ledger provable.
**FifoLots** has the loop itself, one lot a step (`inventoryService.js` 134-172
and 369-394), child lots with `parent_lot_id` included, and checks that it
does what the profile operators say (`LoopIsProfile`). `job.queue` is the set of
lots that the query returned and the loop has not come to; `First` is the one that
the `orderBy` puts first, by `received_at` and then by `created_at`.

**InventoryService**. `inv`, `lots`, `volume`, `capacity`, `home`, `warehouse`
and `reservation` are tables; `incoming` and `sold` sum the movements; `call`,
`seen` and `stale` are the requests in flight: what each serves, what its
transaction has read, and whether a row it will write was written by another
since its snapshot. A request is a `Begin...` action (reads and the checks on
them), for a release also `FindReservation` (its second read), and a
`Commit...` action (the WHERE clauses of the conditional updates and all
writes). Row locks or the snapshot hide the writes from others until the
commit, so one step for them loses nothing. `sell` and `transfer` are
Serializable: `Invalidated` marks them `stale` when another commits a write to
a row they write (first updater wins). The others run at READ COMMITTED, where
only the WHERE clauses and the CHECK constraints of the table protect them.
`Abort` is every error path. `SetWarehouseStatus`, `HideWarehouse` and
`UpdateLocation` are the warehouse service; a status other than ACTIVE is
"CLOSED", which stands for MAINTENANCE too, because the code only compares
with ACTIVE. The lock is left out of this module on purpose, because it
orders nothing (section 5).

**StockLedger** is what the operations promise: units on hand and units held,
each entry indivisible and made only if the units are free at that instant.
`InventoryService!Spec` implements it (`ImplementsLedger`).

**ReservationExpiry** adds the job of the worker: `StartJob` scans (ACTIVE and
expired, oldest `expires_at` first, at most `Limit`), `Visit`, `Skip` and
`Expire` go through the batch, `FailJob` is an error that ends the job.

**PurchaseOrders** adds one order. `ReadOrder` and `ReadForReceipt` are
`getPurchaseOrder`, outside of any transaction; `UpdateOrder` is the
unconditional update; `BeginReceipt` and `CommitReceipt` are the Serializable
transaction, whose comparison with what remains uses the copy read before
(`form[c].read`) and whose `freshLines` are those of its snapshot. `Inventory`
is any step of InventoryService, and outdates an open receipt when it writes a
row the receipt writes.

**RedisLock**: `AcquireLock`, `LeaveTry`, `ReleaseGet`, `ReleaseDel`, `Return`
follow `withRedisLock`; `LoseReply`, `Crash` and `TimeToLive` are the failures.

**JobQueue**: each Redis command of `enqueueJob`, `reserveJob`,
`markJobCompleted` and `markJobFailed` is an action, with the poll loop of each
worker; `Restart` is a crash or a deployment, `Hang` a connection that was
closed under a client that does not notice (`redisQueue.js` 33).

**DecayService** (`DecayInit`, `DecayNext`, `DecaySpec`): `Scan` of one of the
`Calls` reads the candidates, `PassOver`, `Decay` and `Fail` visit them, oldest first,
`Stop` is a worker that stops. `Stale` is the query (`decayService.js` 43-64): stock
left, old enough, not decayed within the window, and on offer. `offered` stands for its
conditions on other rows, that the product is not discontinued and the warehouse is
ACTIVE and not hidden, and `Companies` for its condition on the company; `Options` are
what a manager may pass (a company, `thresholdDays`), while the calls in `Daily`, those
of the schedule, pass neither. `Tick`, `Arrive`, `Deplete`, `Offer` and `Reprice` are
time, stock, products and warehouses around it. `Decay` is the transaction of a lot; the
discount and the row of `PriceHistory` it creates are left out.

**AuthService**: accounts and companies. Nothing runs above READ COMMITTED
here, so a request is a chain of steps, one per statement, and `Fail` may end
it between any two (a refusal, an error, a crash): `BeginSignup`,
`CommitSignup`, then `CreateAuthToken` and `QueueEmail`; `ReadAuthToken`,
`ConsumeAuthToken`, then `VerifyEmail` or `ResetPassword`; `Login`, then
`LoginFails`, or `LoginSucceeds` and `IssueToken`; `ReadRefreshToken`,
`RotateToken`. An UPDATE of many rows is two steps (`LogoutAll` and
`RevokeTokens`, `BeginDeactivate` and `CommitDeactivate`), because it sees the
rows that were there when it began. `req` holds how far each request is and
what it has read. A code or a token that has expired is the same as one that
was used or revoked, because the code refuses both alike. Passwords, and users
without a company (SYSTEM_ADMIN), are left out.

**WebClient**: the session of a browser, in tabs that share localStorage. A
script runs to its next `await`, so that an action is what a tab does between
two answers, the continuations of a settled promise included: `Ask` sends a
call; `Refuse`, `Serve`, `Fail`, `End` are what becomes of it on the way;
`HandleRefused` is the 401 branch of `apiRequest` with `refreshTokens` (`JoinsRefresh`
is the shared promise, `MayRetry` the one repetition), `SettleRefresh` settles the
promise for every call that waits for it, `HandleAnswer` is `refreshUser` for
GET /auth/me. `SubmitSignIn` ... `FinishSignOut` are the forms, `LoadPage` a reload,
`EndSession` the server giving up a session. The server is what AuthService
promises: a refresh token is exchanged once. StrictMode's double mount in
development is left out.

**Routes**: tables, no state. Whom the API admits to each route (`Admitted`, pairs
of a route and a role; `Allowed` as a function), the form of its answers
(`AnswerOf`), the form the client reads (`Reads`); of each page the queries it opens,
the changes it offers to a role, its gate, and what it asks again after a change.

**Catalog**: the tables behind the lists (companies, users, products, suppliers,
warehouses, locations, stock, movements, orders, decay audits) and every
handler over them: `Rows` and `Row` are the reads, `Answer` a page of them with
its cursor, `Checked` what a handler refuses by, `Written` what it writes,
`Enforced` what the database still refuses then. `Shaped` and `References` say which
tables there can be: the columns of each, and that rows refer to rows, as the
schema has it. Names, prices and quantities are
a count of how often they changed; that a name is taken, that stock is too
little, that an order is in another state are refusals that may always happen
(`Refused` of Pages). The protocols behind stock, orders and accounts are the
modules above.

**Pages** composes the two with the cache of the client (`@tanstack/react-query`
5, set up in `main.tsx`): `OpenPage`, `LeavePage`, `LoadMore` are what its user
does with a list, `Serve`, `Receive`, `Fail` a request for rows, `Ask`, `WriteOwn`,
`Confirm`, `Refused` a change of the user's own in its steps (checks, write,
`onSuccess`), `AskOther` and `WriteOther` one of a colleague. Its constants are the
viewers and colleagues, the changes they may ask for, the tables at the start (any
that are `Shaped` and keep their `References`) and the page size. `Needs` is a query
that a page comes to need: it may have been dropped after five minutes
(`gcTime`) or be older than 30 seconds (`staleTime`). `Confirm` invalidates by
prefix; a request under way is given up for a new one only if there are rows to
show meanwhile, as the library does. The cache is followed for one query at a
time, because entries do not touch each other.

Definitions whose comment begins with "Variant:" are deliberately faulty forms
of the definition after them (a dropped guard, a wrong order). No
specification uses them; they stand beside the right form so that it can be
replaced by them, to see that the properties notice.

## 3. What the runs check

All runs say `CHECK_DEADLOCK FALSE`, because each model really may stop: when
the bound on units, lots, jobs or time is used up, when all warehouses are
hidden, or when every call has returned.

| Run | Instance | Shows |
|---|---|---|
| `stock` | 1 product, 2 locations, 2 requests, 1 reservation, 2 epochs, quantities 1-2, capacities 1-2, 2 units received | `TypeOK`, `NoOversell`, `NoLeakedHold`, `LotsMatchAggregate`, `UnitsReconcile`, `TransferFits`, `ReceiptsFitTogether`, `AgesConserved`, `VolumeFollowsStock`, and the refinement of `StockLedger` |
| `fifo_lots` | 2 locations, a handful of lots, quantities over several lots | `LoopIsProfile`, `LineageAccounts`, `OldestFirst` |
| `redis_lock` | 2 calls, 3 keys | `NothingLeftBehind`, `OverlapNeedsRefusal`, `DeletesOwnUnlessExpired` |
| `expiry` | 3 reservations, batch of 2, 1 request beside the worker | `BackedReservationsEnd` (liveness) |
| `orders` | 2 requests on an order of 2 lines, bodies of up to 2 entries, capacities 3-4 | `ApprovedBeforeReceived`, `ReceivedMeansComplete`, `CompletionNoticed`, `LinesFollowStock`, `OrderReceiptFits`, `OverReceiptNeedsOverlap` |
| `job_queue` | 3 jobs, 2 workers, 3 attempts | `OnePlace`, `AttemptsBounded`, `EndIsFinal`, `HeldJobsEnd` (liveness) |
| `decay` | 2 lots of 2 companies, a daily call and one of a manager, 2 thresholds, window 2, time 3, batch of 1 | `OncePerWindow`, `StaleLotsDecay` (liveness) |
| `auth_sessions` | 2 users, 2 companies, 2 requests, 3 refresh tokens, 1 code, lock after 2 failures | `OneUsablePerLogin`, `CodeWorksOnce`, `CompanyHasAdmin`, `LockIsEarned` |
| `web_client` | 2 tabs, one of them busy with 2 calls besides its load, 2 users, 2 pairs of tokens | `NoSelfRace`, `PageShowsItsSession`, `CallsEnd` (liveness) |
| `pages` | 10 pages, 5 roles, 2 rows and a free id in each table, pages of 1 row, 1 own change, 1 change of others, 3 visits | `EveryRowOnce`, `OwnChangesShow`, `PagesFitApi`, `HistoryKept` |
| `lock_excludes` | 2 calls | `MutualExclusion` is violated |
| `expiry_stuck` | as `expiry` | `EveryReservationEnds` is violated |

Why the bounds suffice. A race needs two requests on the same rows, and two
locations give a transfer its two sides; a third request meets the first two
only through the same rows again. Quantities 1 and 2 with 2 or 3 units give
requests that take a lot whole, take it in part, or do not fit. Two epochs
tell an old lot from a new one. Products do not interact except through the
volume of a location; one of them is enough to move it. Three keys and two
calls give key sets that are equal, overlap, or are apart. Two decays of a lot
need one window and the threshold before it, which time 3 allows. A batch smaller than
the set of lots is what the 100 of the code are to a company with more: it can be full
of a lot that is passed over. In a batch of one the order of its visits is not
exercised; the order of the lots decides who is in it. Two users
and two companies give two signups that want the same email and different
slugs, or the other way round; three tokens are what two rotations of one
leave behind. Two tabs are the tab and "another one"; two calls of the busy
tab and its GET /auth/me are a call that starts a refresh, one that joins it and
one that comes too late; two pairs are the one refused and the one it was
exchanged for. For lists, two rows and a free id between them with pages of one
row put a page end before, between and behind the rows, and let a row come or go
on either side of the cursor; two movements share their time, so that the id
decides (a fourth id is the user at the page, whom no change concerns); three visits are a walk to its end, or a walk, a return and a page out
of the cache. One change of the user's own and one of others meet at each step
of the other, because each is two steps; the viewers include one without a
company, and every page is opened by every role its gate admits. The theorems below remove the bounds for the properties that matter most.

Each bound of a model is a constant with a comment that says so: `MaxIncoming`
(units ever received), `MaxLots`, `MaxEntries`, `MaxTime`, `LastEpoch`,
`MaxTokens`, `MaxCodes`, `MaxMisses`, `MaxPairs`, `MaxOwn`, `MaxOther`, `MaxVisits`,
and the sets `Calls`, `Signing`, `Wanted` and `Meanwhile`.
Symmetry is used where no liveness property is checked.

## 4. Fairness

- **Expiry.** Time passes (`Lapse`); the schedule queues the job every five
  minutes and the worker takes it up (`StartJob`, `Visit`, `Skip`, `FailJob`:
  weak fairness). `Expire` is strongly fair: a transaction that could commit
  again and again is not aborted every time. Requests owe nothing.
- **Job queue.** A worker that is connected takes its next step. Whether it
  crashes is not restricted. `HeldJobsEnd` assumes that some worker stays
  connected for ever, because the code has no reconnection.
- **Decay.** Time passes; the schedule makes its calls (`Scan` of `Daily`, weak
  fairness), and each of them gets past a lot some time if it comes to that lot again
  and again (`Process`, strong fairness): calls may stop and fail, but not every time
  at the same lot. Nothing is asked of the calls of managers. `StaleLotsDecay` promises
  a lot its turn only while fewer than a batch of lots wait before it.
- **Web client.** Every request of a page is answered or fails, and a tab that
  is open handles its answers (weak fairness): a browser ends each request some
  time, and runs its callbacks. What users and other tabs do is not restricted.

RedisLock, Pages, and the models of requests have no fairness and no liveness property.
How long a key outlives a crash is up to Redis (PX), and whether a list is loaded again
after an error is up to its user.

`REDIS_REQUIRED` is assumed, as in `docker-compose.yml` (47, 88) and in
production (`src/config/env.js` 213): without it a failed Redis command is
answered with `null` and jobs live in the memory of the API process.

## 5. Where the code and its documents differ

Two runs show a difference between the code and what the repository says of it:

- `lock_excludes`: `acquireLock` (`redisLock.js` 17) takes `null`, the answer
  of Redis for a held key, as success. The locks exclude nobody; what holds in
  `stock` holds by the transactions alone.
- `expiry_stuck`: a release without `reservation_id` leaves the reservation
  ACTIVE; its expiry later asks for units that are not reserved, is refused by
  the CHECK of the table, and ends the job, every time.

Others were met while modelling and have no run.

Stock and orders:

- A receipt compares the volume with a capacity that may have been lowered since
  (`inventoryService.js` 246-255, default isolation level): `ReceiptsFitTogether`
  says that nothing else overfills a location.
- A reservation that was ended since it was read is marked again (600-605, 641-644).
- What remains of an order line is compared with a copy read before the
  transaction, and a body that names a line twice compares both entries with the
  same remainder (`purchaseOrderService.js` 155-160), so that more may come in than
  was ordered; `OverReceiptNeedsOverlap` says that nothing else leads there. The
  orders page sends the remainder of the first open line of an order it has cached,
  and leaves its buttons enabled meanwhile (`OrdersPage.tsx` 90-103, 155-158): a
  double click is two overlapping receipts.
- A transition overwrites a cancellation that came in between (127), and so does a
  receipt, when the cancellation came between its read of the order and its
  transaction (218-220). `ApprovedBeforeReceived` does not see either.
- With `low_stock` the list of stock filters after reading five pages, so that a
  page with fewer hits than its size ends the walk (`inventoryService.js` 467-482;
  `README.md` 109 says "List (cursor-paginated)").
- Rows of stock are never deleted, so that a location that once had stock can
  never be (`warehouseService.js` 152).
- An admin without a company may move a location to a warehouse of another one
  (`warehouseService.js` 136), and is offered creations that `tenantIdForWrite` refuses.
- Two updates of a supplier at the same time may leave the products of both
  (`supplierService.js` 87).

Jobs and decay:

- A job held by a worker that stops is lost (`redisQueue.js` 217).
- A decay that lost a race has committed its price (`decayService.js` 153); each
  discount starts from the catalog's, which no decay changes, so that the "10%
  discount per cycle" of `README.md` 170 never adds up (125).
- The job looks at the 100 oldest candidates (`decayService.js` 66). A lot whose product
  is at the cap is passed over without a date (128-131) and is a candidate again at once,
  so that 100 of them keep every younger lot from being looked at, where `README.md` 169
  says that the job "Finds lots older than 30 days". Lots below the cap can do the same:
  they come back after 72 hours and stand before younger ones, so that three daily
  batches of them take every turn. `StaleLotsDecay` promises a lot
  its turn only while less than a batch waits before it.
- A crash between INCR and EXPIRE leaves a rate counter without an end
  (`rateLimiter.js` 12-15): the address is refused for ever. The limiter of the API
  runs before `authenticate`, so that its key is always the address.

Accounts and sessions:

- A second verification code, used after the company was deactivated, activates
  it again (`authService.js` 475-485); a slow failing login writes the count it has
  read, and with it may lift a lock others have set (326-332).
- Two tabs that exchange the same stored token race: the loser clears the tokens of
  the winner (`client.ts` 125-131). A logout or a login while a refresh is under way
  is overwritten by its answer (`client.ts` 92-95). `NoSelfRace` and
  `PageShowsItsSession` name these as the only ways there.
- A 429, a 500 or a lost answer of GET /auth/me signs the user out
  (`AuthProvider.tsx` 31-35). A wrong current password is answered with 401, so that
  the client exchanges its token and sends the change again.
- The cache of queries outlives a logout: the next account of the tab may see it.
- "All refresh tokens" (`ResetPasswordPage.tsx` 40) leaves out one that is being
  exchanged at that moment (`authService.js` 445).

Pages:

- Hiding or renaming a warehouse does not ask for the locations again, deleting a
  location not for the warehouses, and a new user of a company not for the list of
  companies, all of which show it (`Forgotten` in Pages).
- An invalidation does not give up a first load that is under way, whose older
  answer then counts as fresh; this is why `OwnChangesShow` speaks of lists that
  were on display when the change was confirmed.
- The orders page offers its buttons to every role, and the reports page asks for
  any job id that is typed, whatever the role (`Unguarded` in Pages; `RolesPage.tsx`
  56 says that the gates mirror the checks).
- Changing a filter after "Load more" keeps the cursor of the old filter
  (`WarehousesPage.tsx` 268, `ProductsPage.tsx` 165).

## 6. What is proved

With TLAPS, for every value of the constants that satisfies their named
assumptions: any quantities, epochs and bounds, any sets of requests, tabs, users,
calls, workers and keys, any viewers, changes and sound tables; products, locations,
reservations and the lines of an order are finite sets, because sums go over them, and
the ids of the catalog, because a page has the first rows of a list.

| Module | Theorem | Says |
|---|---|---|
| StockProofs | `TypeCorrect` | `Spec => []TypeOK`; no reserved quantity is ever negative |
| | `NeverOversold` | `Spec => []NoOversell` |
| | `LotsAlwaysMatch` | `Spec => []LotsMatchAggregate` |
| | `Refinement` | `Spec => ImplementsLedger` |
| | `AlwaysReconciled` | `Spec => []UnitsReconcile` |
| | `NeverLeaked` | `Spec => []NoLeakedHold` |
| | `VolumeAlwaysFollows` | `Spec => VolumeFollowsStock` |
| | `TransfersAlwaysFit` | `Spec => TransferFits` |
| | `ReceiptsAlwaysFit` | `Spec => ReceiptsFitTogether` |
| | `AgesAlwaysConserved` | `Spec => AgesConserved` |
| | `ExpiryIsRequests` | `ExpirySpec => Spec` |
| | `ExpiryKeepsStock` | `ExpirySpec => [](NoOversell /\ NoLeakedHold)` |
| | `ApprovedBeforeReceivedHolds` | `OrdersSpec => []ApprovedBeforeReceived` |
| | `ReceivedMeansCompleteHolds` | `OrdersSpec => []ReceivedMeansComplete` |
| | `CompletionNoticedHolds` | `OrdersSpec => CompletionNoticed` |
| | `LinesAlwaysFollow` | `OrdersSpec => LinesFollowStock` |
| | `OrderReceiptsFit` | `OrdersSpec => OrderReceiptFits` |
| | `OverReceiptsOverlap` | `OrdersSpec => OverReceiptNeedsOverlap` |
| | `OrdersNeverOversell` | `OrdersSpec => []NoOversell` |
| | `OrdersKeepLots` | `OrdersSpec => []LotsMatchAggregate` |
| | `OrdersReconciled` | `OrdersSpec => []UnitsReconcile` |
| FifoLotsProofs | `LoopComputesProfile` | `Spec => []LoopIsProfile` |
| | `LineageAlwaysAccounts` | `Spec => []LineageAccounts` |
| | `AlwaysOldestFirst` | `Spec => OldestFirst` |
| AuthServiceProofs | `RotationIsChain` | `Spec => []OneUsablePerLogin` |
| | `CodesWorkOnce` | `Spec => []CodeWorksOnce` |
| | `CompaniesHaveAdmins` | `Spec => []CompanyHasAdmin` |
| | `LocksAreEarned` | `Spec => []LockIsEarned` |
| RedisLockProofs | `NothingLeftBehindHolds` | `Spec => []NothingLeftBehind` |
| | `DeletesOwnHolds` | `Spec => DeletesOwnUnlessExpired` |
| | `OverlapsAreRefused` | `Spec => []OverlapNeedsRefusal` |
| WorkerProofs | `OnePlaceHolds` | `Spec => []OnePlace` |
| | `AttemptsBoundedHolds` | `Spec => []AttemptsBounded` |
| | `EndIsFinalHolds` | `Spec => EndIsFinal` |
| | `DecayedOncePerWindow` | `DecaySpec => []OncePerWindow` |
| WebClientProofs | `RacesAreOfTwoTabs` | `Spec => []NoSelfRace` |
| | `PagesShowTheirSession` | `Spec => []PageShowsItsSession` |
| | `WebClientTypes` | `Spec => []TypeOK` |
| PagesProofs | `RowsSeenOnce` | `Spec => []EveryRowOnce` |
| | `OwnChangesAlwaysShow` | `Spec => []OwnChangesShow` |
| | `PagesAlwaysFit` | `Spec => []PagesFitApi` |
| | `HistoryIsKept` | `Spec => HistoryKept` |

**The ledger.** `NoOversell` is not inductive: a commit subtracts a quantity
that was compared with a row read earlier. `IInv` adds `ChecksHold`: as long as
a request is open, what it read had enough units available for its quantity
(for a release, enough reserved, unless the reservation's quantity has replaced
the body's). At the commit the WHERE clause says the row is as it was read, so
the check holds of the present row. `LotsMatchAggregate` needs that profiles
are monotone, which `IInv` says too, and the lemmas about `AddLot`,
`KeptLots`, `TakenLots` and `MergeLots`. The invariant falls into a half about
stock, one about requests and one about places, each action disturbs known
parts, and there is a lemma per action. The refinement uses the same invariant:
at a commit the guard of the ledger's entry follows from `ChecksHold`.

**Sums.** Units of a product over the locations, of a location over the products,
of an inventory row over its reservations, of a body over its entries are folds, and
a fold is a recursive function. SumLemmas proves about it what the rest cites (the sum
when one value changes, of no more than one value, over a partition by a key, of sums),
each by the smallest subset of the domain for which it fails. `UnitsReconcile` and
`AgesConserved` then follow from what a commit does to one row, or two of a product.
`NoLeakedHold` needs `HoldsRead`: a call that has read a reservation carries its
product, location and quantity, which no update changes, so that a release and the
expiry of one reservation, each checked against its status, take off the hold what
they take off the reserved quantity. `TransferFits` needs `SnapshotsHold`: a transfer
that is not stale has the capacity the location has now.

**The loop.** InventoryService has no loop over lots: it works with profiles.
`LoopComputesProfile` is what entitles it to. `LoopOK` says of an open loop that while
units remain to be taken the lots it has not come to are all those with units left
(`job.queue` equals `Queue`), and that what it has done so far is what the profile
operators say of the units taken so far (`Drawn`), from the table as it was at the
start. A step takes from the first lot in the order; the lots that are older are then
empty, so that the profile falls from the oldest end, as `KeptLots` says, and the child
lot adds to the destination what `TakenLots` takes away. At the end nothing remains,
because `Start` has compared the quantity with the units on hand. `OldestFirst` follows
from the same invariant. `LineageAccounts` needs `ParentsFirst`: a lot is created after
its parent. With it the recursion of `RootOf` along parents has a solution
(`RootTableExists`) and gives a child the root of its parent (`RootStep`), and what holds
of a lot whenever it holds of its parent holds of all lots (`ByParent`), each shown by
the first lot for which it would fail. A step then changes the family of one receipt:
a sale moves units from on hand to sold, a transfer to a new member.

**The job.** Whatever its batch holds and however it fails, `ReservationExpiry` takes
steps of requests or leaves the stock alone; the theorems on requests hold beside it.

**Decay.** Two calls may hold the same candidate, so `OncePerWindow` needs
`CandidatesRested` (what a call read of a candidate was outside of the window
then, hence is now) and `LastIsAudit` (`last_decay_applied_at` is the date of
the last audit). The conditional update then compares the two. Which options the calls
were given, and what becomes of products and warehouses, does not matter to it.

**Accounts.** `Typed` says, besides types, what a request holds in each of its
places: a login or a mail is for a user that exists, a code or token it has
read is a row. Rows never go away (`TypedStep`), which keeps this true for the
requests that do not move. On top of it each property has an invariant of its
own: `LoginsAreOld` (a login bears the number of its first token, so a new one
is new), `CodesFresh` (a request that acts on a code is the only one, and the
code has done nothing yet), `DeactivatesCompany` (only companies that exist are
deactivated), `MissesCover` (no count, in a row or in the hands of a request,
exceeds the failures).

**The lock.** `NothingLeftBehind` needs `TokensKnown` (a token under a key is in
the list of its call, unless the reply was lost) and `ReturnsEmpty`. That a release
deletes its own token needs `TokenOwned`: between the GET and the DEL the token is
still there, or the key is among those that have timed out. Another call's DEL could
take it away, but only by the same invariant of that other call, that is after a
timeout. `OverlapNeedsRefusal` follows from `HeldUntilLeft`: until a call leaves the try, each
key it took without being refused is under its token or has timed out. The DEL of
another call does not disturb this, again by `TokenOwned`. Both `Min` and `Max` are shown to choose a key of the call, `Max` because
a call has taken a bounded set of keys at any time (`KeysChosen`).

**The queue.** The invariant has two parts. `Places`: a job is once in the list, or
with one worker, or nowhere, and nowhere before it was pushed. `Counts` relates the
three counts of attempts, in the hash, in a worker's memory and the runs there were,
label by label: they agree where the job is in the list, and differ by one while a
worker has counted an attempt that it has not yet run. A dropped job has no
such relation, which is why the properties are about what the counts bound.

**Orders.** `SnapshotCurrent` carries both directions of the status: a receipt that
is not outdated still sees the lines as they are, because whoever writes a line also
writes the row of the order, which every open receipt is going to write. `ApprovalKept`
says that approval is never taken back, and that who holds a right to receive has it
from one. For the stock, `ReceiptInv` adds what a receipt has checked: its body asks of
each entry no more than remained in the copy it read (`Remains`), and unless it is
outdated the body fits the locations (`Fits`). The requests on the stock keep their own
invariant beside it, and a receipt of many entries changes it row by row: what its
entries bring to a row is a sum over the body, grouped by line, location and product.

**The web client.** A step of one tab leaves the others as they are, and disturbs them
if it changes the stored tokens (`Effect`). `NoSelfRace` speaks of one tab but needs an
invariant over all tabs and pairs: `OnTheWay` (a pair on its way to a tab was never
stored or presented, and is on its way to that tab alone), `UsedOnce` (the token of an
answered refresh is used, and by that refresh alone) and `SpentGone` (a used token whose
exchange is over is stored nowhere, and presented only by tabs that were disturbed).
`PageShowsItsSession` is a matter of each tab: `Loads` (a page that loads has nothing
else under way, and waits for the refresh that it has begun) and `Session` (as long as
nothing has interfered, the user, the request for the user and the refresh are those of
the stored pair), with `SameOwner`, that an exchange stays with its account.

**The pages.** `Client` is what every step keeps. Of it, `Standing` says that the
tables stay sound while changes pass between their checks and their writes: a row of
stock is never deleted, and a movement starts and ends where there is stock, so that
the foreign key of the stock refuses to delete a place that a movement names, whatever
arrived after the check. This is `HistoryIsKept`, and with it the order of the list of
movements, by their times, never changes; the other lists are ordered by id
(`OrderStays`). Which page asks for and offers what is a
table, and what a role is admitted to another; `PagesAlwaysFit` compares them page by
page, and needs of the steps that only who is not admitted is turned away (`Admits`).

For `RowsSeenOnce`, `Kept` says that the last of `history` is the list as it is, and
that every row it ever held still has its place in the order. `Walked` says that each
answer, kept or under way, is a page of the list as it was at one read: the rows from
its cursor to the next one, which is among them (`PageOf`), and that the pages left
behind join at their stops. An answer is such a page because the first rows of an
ordered set, those with few before them, are all that come before the last of them
(`ReadAndShown`). A row that was there at all of these reads is then on the one page
that begins before it and does not end before it.

For `OwnChangesAlwaysShow`, a lemma for each change says which tables it writes, one
for each list says from which tables it is made, and together, page by page, that a
change offered there either leaves a list of the page alone, or is followed by asking
for the list again, or is one of the four in `Forgotten` (`Covers`). `Dues` follows the request
from there: its answer, or the request under way in place of an older one, is of
a read after the change.

**Only model-checked.** Liveness and `ENABLED` are out of the prover's reach:
`BackedReservationsEnd`, `HeldJobsEnd`, `StaleLotsDecay` and `CallsEnd`
are checked by TLC alone. Every other property of a passing run is a theorem.

## 7. Not modelled

- **Email service**: its jobs go through the queue of JobQueue; building and sending
  a message is I/O.
- **Forecast**: sums and divisions over movements that were read once; no state, and
  no order of events changes what a test would see.
- **Configuration and start**: read the environment.
- **Wire protocol of Redis** (`RedisConnection`): that replies belong to commands in
  order is assumed by JobQueue and RedisLock; several BLPOPs on one connection and
  the buffer kept after an error (`redisQueue.js` 81) are not modelled.
- **Rate limiter**: a counter of one key, see section 5 for what a crash does to it.
- **A failure after the commit** (mail, or the release of a lock in `finally`): the
  client is told of a failure and may try again; models of requests end at the commit.
- **Left out of modules that are there**: wording, formatting and validation beyond
  the values a body may carry; names and their uniqueness; the products of a supplier;
  audit rows; filters and search; the sums of reports. Companies are many in Catalog
  and AuthService, one elsewhere, because no other statement looks across them.

What would come next: clients that try again after a failure behind the commit;
receipts of orders as entries of `StockLedger`; `RedisConnection` under `JobQueue`.
