# Budget API: a TLA+ model of the service, checked and in part proved

The budget API is one Node.js process (routing-controllers on Express) over
PostgreSQL (TypeORM), Redis (ioredis) and, for configuration values, MongoDB. All
paths below are relative to the repository; `src/src/...` in `PROJECT.json` is its
`src/` directory.

What makes the code hard to test is always the same thing. The event loop runs one
callback at a time, so the code between two `await`s is atomic; at every `await` any
other request, another process, or the end of this one may come in between; no handler
uses a transaction, a lock or an isolation level. Every module here takes **one action
per stretch of code between two awaits**, which is one SQL statement, Redis command or
MongoDB call, and lets everything else interleave.

## 1. Inventory

| Component | State | Operations | What is hard | What makes it correct |
|---|---|---|---|---|
| Authentication (`services/AuthService.ts`, `repositories/{User,RefreshToken}Repository.ts`) | tables `user` and `refresh_token`, INSERTs nobody awaits, the exp claims of signed tokens, the database clock | register, login, refresh, logout | races of registrations; `refresh` acts on a row read two awaits ago; `issueTokenPair` does not await its INSERT; a rejected INSERT is only logged; crashes; two clocks | accounts are unique; a token, its row and its account stay together; an ended token buys nothing; a refresh costs its token; every request is answered |
| User profile (`services/UserService.ts`) | table `user` | getMe, updateMe | a password change races with `bcrypt.compare` | a login proves a password the account really had |
| Transactions (`services/TransactionService.ts` and repository) | table `transaction`, soft deletes | create, getOne, paged and filtered list, update, delete, monthly sum | update is two statements; UPDATE and soft delete do not look at `deletedAt`; a page and its total are two statements, and each page is cut from another list | rows change for their owner only, never come back; a deleted row is not answered; what paging misses or repeats has a cause |
| Budget limits (`services/BudgetLimitService.ts` and repository) | table `budget_limit` | upsert, listByMonth | find-then-insert upsert; a list made of many statements; decimals rounded by the column and percentages by the code | one limit per key; what is answered was true at some moment; exact thresholds |
| Categories (`services/CategoryService.ts` and repository) | table `category`, soft deletes | create, list, update, delete | the same two-statement update; transactions and limits name categories that nobody checks, deleted ones included | as transactions |
| Configuration (`services/ConfigService.ts`, `repositories/ConfigRepository.ts`) | collection `configs`, Redis entries `key` and `{tag}key` with a time to live | getByKey, setByKey, getByMultiKeys, expireConfigs, keys | stale fills, half-done sets, entries that no set refreshes, duplicate keys | an answer belongs to the key asked; staleness has a cause and ends |
| Process lifecycle (`index.ts`, `libs/Kernel.ts`, `providers/*`) | phase, signal handlers, force-exit timer, server, Redis client, DataSource, connections | register, boot, signals, close loop, forced exit | requests and unawaited work while providers close; repeated signals; connections that never end | resources outlive requests; each provider closes once; a shutdown ends |
| Kafka consumers (`providers/KafkaProvider.ts`, `libs/kafka/*`, `decorators/KafkaListener.ts`) | registry of listener classes, running consumers, producer; at the brokers: topics, group offsets, partition owners | load, connect, registerConsumer, eachMessage, commit, shutdown | a throwing handler is swallowed; `run` is not awaited; rebalances, crashes and restarts between handling and commit; a disconnect that fails is only logged | no message is committed unhandled; one bad message holds up none behind it; handlers have their producer |
| Background jobs (`providers/JobsProvider.ts`, `libs/queue/Queueable.ts`) | queue classes, running queues; in Redis: jobs with attempts and stalls | load, dispatch, process, retry, close one by one | a job whose lock was lost runs twice; other processes share the queue; retries with backoff; queues still work while others close, or failed to | jobs end; a handler beyond the one a job has is owed to a lost lock |
| GraphQL server and data loaders (`providers/GraphqlProvider.ts`, `middlewares/graphql/*`, `libs/graphql/index.ts`) | sessions in Redis, the loader's cache and batches | authenticate, authChecker, load, batch, evict | one loader for all requests; a failed batch becomes empty results, cached; the session is compared after an await | a load is answered what its own key said; a guarded field needs a session |
| HTTP pipeline (middlewares, interceptors, `libs/jwt.ts`) | none | authenticate, authorise, transform, map errors | nothing interleaves: each decision is one step | not modelled on its own (section 6) |
| MongoDB connection, sockets | connection | reconnect; echo | what the driver emits after a failed connect | not modelled (section 6) |
| Environment, logging, Swagger, S3, bots, helpers | none | parsing and wiring | - | not modelled: no state changes |

Interactions: controllers call services, services call repositories and each other
(`BudgetLimitService` sums through `TransactionRepository`); every handler reaches the
tables through TypeORM and so shares them with all others; `AuthenticationMiddleware`
hands the user of a verified access token to the handlers; a shutdown closes the
providers under the requests still running and under the INSERTs of
`issueTokenPair`. Kafka listeners and queue classes are loaded by the same
`loadModulesFromPatterns`, which logs a file that throws and goes on without it; Kafka
is booted before the queues and closed after them. At this commit the providers of
Kafka, jobs, GraphQL, MongoDB and sockets are commented out of `libs/Kernel.ts`; the
first three are modelled at the places those comments give them. `PROJECT.json` lists every component with its sources, and every
hazard at the line where it bites.

## 2. Modules

| Module | Stands for | Correspondence |
|---|---|---|
| `AuthService` | the four endpoints of `AuthController` and the password half of `updateMe` | `users`, `rows` are the tables, `pending` the INSERTs sent by `issueTokenPair` and not awaited, `jwt` what each signed token says. A request lives in a slot: `body` what it carries, `pc` the await it stands at, `local` its locals, `reply` its answer. `register` waits for two SELECTs at once (`Promise.all`), so they are two actions in either order. `ended`, `late`, `held` are history that only properties read. |
| `TokenLifecycle` | the abstract promise: unsigned, inFlight, live, revoked, or lost; one owner for good | no counterpart in the code; it says what the refresh-token store means |
| `AuthRefinement` | the mapping from the tables, pending INSERTs and signatures to `TokenLifecycle` | `TokenState`, `TokenOwner` |
| `AuthServiceProofs`, `AuthRefinementProofs` | proofs | section 5 |
| `BudgetMath` | the column's and `Math.round`'s rounding, the status | money in thousandths; `Percents` holds both outcomes where a double may fall to either side of a half |
| `BudgetMathProofs`, `BudgetsProofs` | proofs | section 5 |
| `Budgets` | the transaction, budget-limit and category endpoints of several users | one action per statement. `tx`, `limits`, `cats` are the tables; `local.page`, `local.seen` how far a client has paged; `truths` collects what was true of a user's month during a request, `walk` what happened to a list while it was paged through; `gone`, `late` as above |
| `ConfigCache` | `ConfigService` over `ConfigRepository` and Redis | `cache` holds plain and tagged entries; `local.fill` and `local.drop` are the commands still to send; `unsettled` records for which keys a cache write was overtaken or failed |
| `Lifecycle` | one process from bootstrap to exit | `phase`, `at` the two bootstrap loops and the closing loop; `armed` the `process.once` handlers; `conn` the connections; `behind` the work that no client waits for |
| `WorkerStages` | the hooks a worker process runs through | `stage`, `at` (the place in the hook's loop), `serverTypes` (SERVER_TYPE) |
| `KafkaConsumers` | `KafkaProvider`, `KafkaConsumerRunner`, `@KafkaListener` | `registry` is `kafkaConsumerDefinitions`, `consumers` the runner's list, `stuck` those whose disconnect failed, `member`/`position`/`resolved` each consumer's run loop; `owner`, `committed`, `log` are the brokers' (external) |
| `JobQueue` | `JobsProvider`, `Queueable` | `workers` is `queueWorkerDefinitions`, `runningJobs` the provider's, `processing` the queues with a process handler, `unclosed` those whose close failed; `job`, `tries`, `stalls`, `lock` are what Redis holds (Bull, external); `running` counts each job's handlers in this process and in all others together |
| `Workers` | composes the two in one process | `Shutdown`, `Crash`, `Restart`; a crash empties what the process held and leaves what the brokers and Redis hold; behind Kafka's close (`stage = "closed"`) it still is a process, with whatever was not stopped |
| `GraphqlServer` | `authenticationMiddleware`, `authChecker`, `createDataLoader`, `handleBatch` | `entry` is the loader's `cacheMap`, `batch` its batches (a promise is the batch it was loaded in); `session`, `item` belong to others and change at any time; `matched`, `may`, `mayCached` are history |
| `ConfigCacheProofs`, `LifecycleProofs`, `WorkersProofs`, `GraphqlServerProofs` | proofs | section 5 |
| `MC...` | instances for TLC | sets of values, symmetry, and in `MCBudgetMath` a one-variable machine that spends |

Operators named as mutants in a comment (`RefreshKeep`, `OwnsAny`, ...) are not part of
any specification. Each is a plausible bug in one definition; `PROJECT.json` pairs each
property with one that breaks it, which shows the property is not vacuous. Each proved
module states its inductive invariant `IInv`, as a conjunction of named parts, beside its
properties; one run of the module checks it.

## 3. Runs

| Run | Question | Instance |
|---|---|---|
| `auth_accounts` | do racing registrations, logins, refreshes and password changes keep accounts unique, pairs with their account and logins honest; and when nothing fails, is every request answered and every signed token stored? | 1 account and room for two, 3 colliding registrations, 2 emails, usernames and passwords, 2 requests, 2 tokens |
| `auth_sessions` | over chains of logins, refreshes and logouts with every fault and both clocks, does an ended token buy anything, does a refresh cost its token, and do the handlers implement `TokenLifecycle`? | 1 account, 2 requests, 3 tokens, failed statements, crashes |
| `budget_math` | where do rounding and thresholds fall? | every limit to 2.50, every spending to 3.00, in cents |
| `budgets_limits` | do racing upserts leave one limit, and do upsert and list tell the truth? | 1 user, 2 categories, 2 transactions, 2 requests; a limit of 0.004 |
| `budgets_ledger` | do two users keep to their own transactions and categories, does a deletion stick, and what may a client miss or see twice that pages through a list meanwhile? (checks `IInv` too) | 2 users, 2 transactions, 1 category of one type, 2 requests, pages of 1, unfiltered or of expenses only |
| `config_cache` | does each position of each read answer the key asked for there, and the last position of each existing key answer at all? | 2 keys, 2 values, 2 calls |
| `config_heals` | is staleness always caused by an overtaken or failed write, does it end, and is a key named twice in one read answered where it is named last? | 1 key with its two entries, an empty value, failures, 2 calls |
| `lifecycle` | do requests have their resources, does the closing loop run once, does a shutdown end? | 2 connections, 3 signals, each any number of times |
| `lifecycle_signals` | (violated) is a further signal ignored? | 1 signal, 1 connection |
| `workers_messages` | is a message committed that no handler came back from, and does each reach its group while the process stays up? | 3 listeners of one topic, one reading from the beginning but with a broken file; 2 messages, 2 rebalances; crashes, restarts, failed disconnects |
| `workers_jobs` | when do two handlers run one job, which handlers outlive the producer, and does every job end while the process stays up? | 2 queues, one run by other processes, too, and two jobs at a time here; 1 job, 2 attempts, 1 stall; 1 listener; crashes, restarts, failed closes and disconnects |
| `graphql` | is each load answered what its own key said, and a guarded field only with a session? | 2 requests, 2 keys, 2 batches, 2 tokens of one user, each way through `authChecker` |

**Bounds.** Two requests in flight are what every race in this code needs: each property
relates one handler's locals to the tables another changes, and a third request only
adds another writer of the same kind. Three tokens allow a chain of two refreshes
beside a concurrent one (`auth_sessions`). `TokenLeft`, `RowLeft` and the free ids keep
requests that mint a token or a row from starting when no fresh one is left; in the code
uuids and keys do not run out. `Registrations` are the bodies sent to `/auth/register`:
two that want one username, two that want one email. `PageLimit` 1 over two rows makes
every list two pages long, so that a row can move between them. `MaxLog` (2 messages of a
topic) puts one message behind a bad one, `MaxMoves` (2 rebalances at somebody's whim,
beside those a crash or a dead consumer causes) moves a partition under a running
handler, and away from a group that has not committed yet. `Attempts` 2 gives a retry and a last attempt (the code: 20), `MaxStalls` 1 is
Bull's default. `Batches` 2: two requests wait for two promises at most, and the cache
may keep both. Request slots are reused without limit, so behaviours are not bounded
in length. The proofs of section 5 need none of these bounds. The values of `Budgets` are
chosen on the edges: 0.105 is stored as 0.11, a limit of 0.004 as 0.00, and 0.11 of a
limit of 0.12 is a warning. Symmetry is used in safety runs only, on sets whose members
no constant of the instance tells apart. Runs that disable the deadlock check say why: clients may
stop, an instance runs out of tokens, a process ends. `workers_messages`,
`workers_jobs` and `graphql` keep it.

**Fairness.** `AuthService!FairSpec`: a continuation that is ready runs (the event loop
starves nobody) and an INSERT that was sent is answered; weak fairness is enough because
no handler waits for another. Clients, clocks and faults owe nothing, and `auth_accounts`, which
asks for liveness, has no faults because the code does not retry: a rejected INSERT is lost.
`ConfigCache!FairSpec`: calls go on, and Redis drops an expired entry, because every entry
is written with SETEX; the property speaks only of keys that are eventually written no more.
`Lifecycle!FairSpec`: timers fire, awaited closes return, statements are answered, and
an event loop with nothing to wait for ends. Nothing is assumed of clients, who may
keep a request busy for ever, nor of whoever sends signals: the forced exit is what ends
a shutdown then.
`Workers!FairSpec`: some consumer goes on reading and committing; some job goes on, which is
to be taken by this process, to end in whatever process runs it, to be due, or to be found
without a lock that nobody is left to renew. Other processes need not take anything. Nobody owes a restart, a message or a rebalance, so both
properties end their promise when the process leaves `stage = "up"`, and `MessagesReachListeners`
when no running consumer is left for the feed. That handlers return is assumed: neither
kafkajs nor Bull gives them a limit here.

## 4. What the checks show

All properties of the passing runs hold. A few deserve words.

- `RefreshConsumesToken` says a pair from `refresh` has cost the token presented. It
  does not say a token buys only one pair: two concurrent refreshes may both pass
  `findValid`, because `revokeByToken` ignores how many rows it changed.
- `RefreshAfterEndFails` counts a token as ended when a logout or refresh that found its
  row was acknowledged, or a clock passed. A logout that overtakes the unawaited INSERT
  updates no row, is answered 200, and the row arrives live afterwards.
- `SignedTokensStored` needs an environment without faults; under faults a client may
  hold a token whose row never comes ("lost" in `TokenLifecycle`).
- `ToldTheTruth` is weaker than a snapshot on purpose: each figure of an answer was true
  at some moment of the request, not all of them at one moment.
- `StatusThresholds`: the percentage is rounded before it is compared, so "exceeded" begins
  at 99.5% and "warning" at 79.5% of the limit, and what happens exactly there depends on
  how the double falls.
- `StaleOnlyAfterRace` gives the only two causes of a stale plain entry (`setCache`, which has no caller, would be a
  third: it writes the cache alone); `CacheHeals` says
  that staleness, including that of `{tag}key` entries, which `setByKey` never
  touches, ends with the time to live.
- `RequestsHaveResources` covers requests whose client still waits. A handler whose client
  hung up no longer holds `server.close()` and may find Redis gone; it never finds the
  database gone, because nobody destroys the DataSource.

- `DeletedStaysDeleted` and `OwnersOnly` hold for transactions and categories alike, although
  UPDATE and soft delete filter by id and user only: writing to a deleted row never brings it back.
- `PagesMissNothing`, `PagesRepeatNothing`: paging by offset is cut from a moving list. A row
  that stayed is missed only if another left the list meanwhile, and repeated only if one
  arrived. Rows that share their sort key are excepted: `findList` gives them no order, so
  even an unchanging list may show one twice and another never.
- `OffsetsCoverHandling` says what is committed was handled, whatever crashes and rebalances:
  behind the first commit of a group delivery is at least once, and a message may be handled
  twice. Before it only a group that reads from the beginning has that: any other starts at the
  end of the log whenever the partition changes hands, and what was written since it last did is
  in `skipped`, which the property excepts; `SkippedBefore`, proved along, says nothing behind
  the first commit ever is. A handler that throws
  counts as one that came back: its error is only logged and its offset committed.
- `MessagesReachListeners` is about groups: without a group id of their own, two classes on
  one topic share a group and each message reaches only one of them. It has the same exception: a
  group without a commit that does not read from the beginning never sees a message written
  while the partition was moving.
- `OverlapsFollowStalls`: nothing keeps two handlers from one job. A job whose lock was lost is
  handed out again, here (with a concurrency above 1) or to another process, while its first
  handler works on, and its late outcome is refused. What holds is the account: one handler while
  the job is active, none when it is over, and one more for each lock that was lost at most.
- `HandlersHaveProducer` excepts what the code lets happen: a consumer whose own
  `disconnect()` failed, or a queue whose own `close()` failed, is logged and passed over, the
  producer is disconnected all the same, and their handlers may work on without it.
- `GuardedNeedsSession` excepts one request: a body that begins with `query Introspection` is
  taken for an introspection by `authenticate` (`authenticationMiddleware.ts:13`), and
  `authChecker` (`GraphqlProvider.ts:74`) lets it reach any field without a session. For every other
  request the session must have matched, and hold the role where the field asks for one.
- `LoadsAnswerTheirKey` allows nothing for an answer only if a batch failed or the item was
  away since the promise was made; `createDataLoader` caches such empty results like any other.

- `MultiGetComplete` is weaker than the comment at `src/services/ConfigService.ts:49`, "to return the
  correctly indexed array of values": the hashmap keeps one index per missing key, so of a key that
  is named twice only the last position is filled, and the others stay null although the document
  exists. For every key that is not named again further on the comment is right.

One statement of the source is not what the code does (`PROJECT.json`, findings):
`src/index.ts:44` logs "Shutdown already in progress. Ignoring ${signal}.", but the handlers are
installed with `process.once`: a second signal of the same kind meets no handler and ends the process
in the middle of its shutdown.

## 5. What is proved

TLAPS proves what follows for every value of the constants: any number of users,
requests, rows, tokens, keys, connections, listeners, queues and jobs, any page size and
any fault. In every component the argument is the same. None of the properties is inductive alone,
because a handler acts on locals it read some awaits ago; `IInv` says what those locals, the
tables and the history still have to do with each other. `InitInv` and `StepInv` show that
`Init` gives it and every step keeps it (one lemma per action or kind of action, one step per
conjunct that the action can disturb); `Invariant` is `Spec => []IInv`, and each property follows
from it. A run checks each `IInv` on a small instance too; that of `Budgets` in `budgets_ledger`,
where its conjuncts about limits have nothing to say (no limits there), so that for those
the proof is all there is beside the properties of `budgets_limits` that follow from them. All
safety invariants and action properties of the passing runs are theorems.

**Assumptions.** Only those the modules name, which TLC evaluates on every run: `None` and the like
are no values; tables, bodies and queries have their types (what the DTO validators let
through); operations are among those of the module; row ids, and job ids, are finite sets;
`PageLimit` is in 1..100, as `TransactionQuerySchema` demands, and a list is filtered by a type
or by none, a category has a type; there is a listener and a queue at
least, at least one attempt per job, and room for one job in each queue.

- **`AuthServiceProofs`.** `TokensAgree`: a signed token names an existing account by
  id and email, its row and its pending INSERT carry the same id, a pending INSERT has no row
  yet, an acknowledged revocation left a revoked row. `HandlerInv`, per handler and await:
  before `issue` the local id and email are one account's (`NamesAccount`); a login's local
  hash is among the passwords held; a refresh past `find` has a row with the local user id,
  and if it began late it can only stand before `jwt.verify` with an expired token; past
  `revoke` the row is revoked. `AnswerInv`: what an answer said stays true. The step proof is
  split by conjunct (`TypeNext`, `UniqueNext`, `AgreeNext`, `SlotsNext`); `GrowsNext` says
  which parts of the tables only grow. From it `TypeCorrect`, `AccountsStayUnique`,
  `PairsStayWithTheirAccount`, `EndedTokensNeverRefresh`, `RefreshAlwaysConsumes` and
  `LoginsUseHeldPasswords`.
- **`AuthRefinementProofs`**: `AuthImplementsLifecycle`, `Spec => RefinesLifecycle`, one lemma
  per kind of step (`RefinesIssue`, `RefinesRevoke`, `RefinesStore`, `RefinesLose`); all else
  stutters. It uses `Invariant`: without `TokensAgree` an INSERT could bring back a revoked token.
- **`BudgetMathProofs`**: `ExceededFrom`, `WarningFrom`, `MoreSpentEscalates` and `StoredIsNear`, for
  all amounts, from what integer division satisfies (`DivAtLeast`, `PercentNearest`); and of the
  machine of `MCBudgetMath`, whatever its bounds, `AlwaysNearest`, `AlwaysThresholds` and `AlwaysEscalates`.
- **`BudgetsProofs`**: `UniqueLimits`, `OnlyOwners`, `StaysDeleted`, `NothingMissed`, `NothingRepeated`, `ToldTrue`.
  `GoneStamped` and `LateNamesGone` link an acknowledged deletion to the stamp on the row;
  `UpdatesFound` says the UPDATE of an upsert names the limit of its key. The paging theorems
  rest on ranks: `Rank(r, x)` is the number of rows above x in the list as it is now.
  `PagesOfRanks`: until a row leaves, a row that stayed is among those shown or its rank is
  not below what was cut so far; until one arrives, a row shown has a rank below it and was
  shown once. `Ranks` shows that departures only lower a rank and arrivals only raise it,
  `FirstByRank` that a row whose amount no other shares is on the first n pages just when its
  rank is below n times the page size, although the order among equals is any. `ToldTrue` needs
  four conjuncts: `FactsNoted` (what holds now is in the history), `LimitsStored` (the column has
  whole cents, so rounding it again changes nothing), `UpsertsNoted` (an upsert noted the limit
  it wrote, though another may have overwritten it since) and `ListsNoted` (a list told or
  still holds each category once, `LimitsUnique` being what gives that). It also needs that the sum the
  query takes over the rows it finds is what the history says is spent, a fold over all
  rows: `SumIsSpent`. Both folds are recursive functions over subsets; the section on sums
  shows that they exist and that neither the order nor members worth 0 matter
  (`TotalAny`, `TotalSupport`, `TotalFollows`). The induction goes by a smallest counterexample
  (`LeastSet`, from `WFMin` of the library over cardinalities), because the library's induction
  rules take an operator as parameter, which the installed provers cannot instantiate.
- **`ConfigCacheProofs`**: `OwnKeys`, `StaleEntries`, `MultiGet`. `FillsFresh` and
  `StaleOnlyBeforeSet`: for a key that is not marked as overtaken or failed, whatever a
  call is about to write is what the collection holds, and an entry that differs has a `setByKey` under way
  that will correct it. `FillsWritten`, `ResultsWritten`: everything held for a key was written for that key.
- **`LifecycleProofs`**: `RequestsSafe`, `ClosedOnce`. `Opened`, `Served` and `Told` say for
  each place of the three loops which resources are open, which traffic there can be, and what timer and flag say.
- **`GraphqlServerProofs`**: `OwnKeys`, `Guarded`. `MaySay` follows a promise through its batch: whatever state
  the batch is in, all it can still say for its key is something the key could say since the
  promise was made (`WaitersTold` for requests, `EntriesTold` for the cache). `OrderMatches`:
  in whatever order the service answers, each key is matched with its own item.
- **`WorkersProofs`**: `OffsetsCovered`, `OverlapsStalled`, `ProducerOutlivesHandlers`. The invariant is proved in
  three parts (`KafkaInv`, `JobsInv`, `StageInv`) because each action changes one half of the
  process. `OwnersHandled`: the position of the member that owns a partition is covered by what
  handlers came back from, which a rebalance, a crash or a commit could otherwise break, and
  by `SkippedBefore` what the group began behind lies before it; `LockedActive`: only an active job
  has a lock, so an outcome that counts takes the one handler an active job is allowed;
  `HandlersProcessed`, `ProcessingListed`, `ProcessingUp`: a handler at work has its queue, the
  queue is still listed as running unless its close failed, and listed queues exist only before Kafka's close begins, so
  the order in which the Kernel closes its providers is what keeps the producer there.

**Only model-checked**, and why:

- Liveness (`RequestsAnswered`, `SignedTokensStored`, `CacheHeals`, `ShutdownEnds`,
  `MessagesReachListeners`, `JobsEnd`): it needs fairness and ENABLED, which this prover does not do.
- The violated property (`lifecycle_signals`), which does not hold.

## 6. Abstractions and what is not modelled

- Passwords are compared as values: bcrypt is taken to accept exactly the password hashed.
  Signatures cannot be guessed, so clients present only tokens that were signed.
- Access tokens are not state: they are verified by signature alone. `updateMe` and all
  endpoints of `Budgets` start with the user such a token names.
- A failed statement is an action that answers 500 and may come before or after
  the statement took effect (`DbError`). A crash loses the handlers and any of the unsent INSERTs.
- `decimal(15,2)` rounds; its overflow is a failed statement. The code divides doubles: a
  percentage that is exactly a half may come out just below it (0.09 of 0.40 gives 22, 9.95
  of 10.00 gives 99 and so "warning"), so `Percents` is a set, with both outcomes at a half
  and one elsewhere. Beyond about 10^12 in money a quotient's error could also reach
  past a percentage that is not a half; that is not modelled.
- Soft deletion is a flag; time of day appears only as months and as the two expiry clocks.
- The list of transactions is modelled with its filter by type (none and `expense` in
  `budgets_ledger`, any in the proofs) and its sorting by amount; the
  filters by category and by date select rows in the same way, and sorting by date is sorting
  by another value. Of a category only its type is kept.
- `ConfigCache`: expiry may come at any time; `None` stands for a missing entry or document.
  The getters that convert what `getByKey` returned appear as its two outcomes, the value or an
  error (`Return`): a missing value cannot be split, and a text need not be JSON.
  No endpoint calls the readers and `setByKey` at this commit; they are the service's interface.
  `Fail` answers 500 for every command. The pipeline that fills the cache behind a
  multi-key read is gentler: `exec()` does not reject when a single command of it fails, so the
  caller is then told ok. No property speaks of that answer, and for the cache the
  missing effect is one `Evict` has anyway.
- `Lifecycle`: node 20's `server.close()` drops connections that carry no request. The
  clients' behaviour, and the event loop's, are modelled from what the code relies on.
- `KafkaConsumers`: a topic has one partition; a member reads in order from the committed
  offset, commits between messages, and only the owner's commit is accepted. A `disconnect()` that fails
  leaves its member as it was. Groups whose
  members listen to different topics are left out of the instance.
- `JobQueue`: the locks, stalls and backoffs are Bull's. A stalled job is found by any worker of
  its queue; the outcome of a worker that lost its lock is refused. The job's outcome is a choice.
  All other worker processes of a shared queue are one place, `"elsewhere"`, which may run any
  number of handlers; one of them can end without an outcome, with its process or because the
  lock it had is another's there. A `close()` that fails leaves the queue at work.
- `GraphqlServer`: the resolver of `DemoResolver` stands for any that loads one key. The
  `createUser` mutation (one INSERT), subscriptions, uploads and error texts are left out.

Not modelled, and why:

- HTTP pipeline: `AuthenticationMiddleware` and the error handler decide in one step from
  the request alone; their effect is in the inputs and answers of the modules above.
- MongoDB connection: what its reconnect does depends on the events the installed mongoose
  emits after a failed connect, which the code does not settle; `SequenceRepository` has no caller.
- Sockets, S3, bots: demonstrations and thin clients without callers. Environment, logging,
  documentation pages: no state any property depends on.
- Methods without callers: `revokeAllByUser`, `softDeleteById` of limits, `setCache`, ...

## 7. Plan

Done, in this order: `AuthService` with its refinement and proofs; `BudgetMath`; `Budgets`;
`ConfigCache`; `Lifecycle`; categories and pages in `Budgets`; `KafkaConsumers` and `JobQueue`,
composed in `Workers`; `GraphqlServer`; the inductive invariants of all components, and the
theorems on every safety property. What is left:

1. `TypeOK` of the handlers' locals in `Budgets`, which the proofs so far need only in part.
2. An abstract specification of a consumer group (a message is handled before it is
   committed, by whoever owns it) and of a cached value, with their refinements.
