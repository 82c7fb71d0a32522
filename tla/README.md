# Verification of squn

squn is a TypeScript data-access library: one API over PostgreSQL, MySQL, SQL
Server and SQLite adapters, with transactions, a connection pool, a result
cache, migrations, pagination and mapping. This directory holds TLA+ modules
that model its stateful core and the algorithms around it, TLC configurations
that model-check them, and TLAPS proofs about them. `PROJECT.json` lists every component, run, seeded
fault, mapped definition, hazard and theorem; paths there start with `src/`,
the root of the repository, so the library's own code is under `src/src/`.
Paths in this file are relative to the library's code (`src/src/`), those of
documents to the repository.

Run `tlc -config X.cfg M` for a run of module `M`, and `tlapm MProofs.tla` for
a proof.

## The execution model

JavaScript runs one task at a time, to its next `await`. Every module uses that
grain: a method, a timer callback or the stretch of an `async` function between
two awaits is one action, and everything it assigns is in that action. What
interleaves is the order in which calls are made, answers arrive and timers
fire. Nothing in squn persists state of its own, so there are no restarts to
model; what survives is on the database server, which is external and modelled
from how the adapters use it.

## Inventory

| Component | State it keeps | Operations | Interacts with | What is hard | What makes it correct |
|---|---|---|---|---|---|
| `pool/` | idle list, acquired set, queue of waiters, drained flag, counters; per connection state, use count, times | acquire, release, acquire timer, reaper tick, both halves of drain | clients; hooks | timers against releases, recycling while clients wait, drain against clients | no sharing, no leak, bound, queue is fair and live, drain ends |
| `transaction/atomic.ts` | one nesting flag for the process; per call the attempt | runAtomically | adapter's transactions, nested calls | overlapping calls, failures at each await, lost answer of COMMIT, retries | writes at most once, nothing left open, flag honest, settles |
| `transaction/transaction.ts`, `savepoint.ts`, `db.ts` | state, savepoint depth | execute, query, savepoint, commit, rollback, mark*, dispose; Savepoint.rollback, release; db.transaction | adapter's transaction on one reserved connection | concurrent tasks of a callback, the state is checked before an await and set after it | savepoints restore exactly, a throw leaves nothing, always ended and released, state tells the truth |
| `cache/cached-db.ts` | Map of results, counters | query, invalidate, delegated calls | adapter; writers behind its back | a query overtaken by writes and invalidations, concurrent misses, expiry | bound, freshness, staleness only where a query was overtaken |
| `cache/query-cache.ts` | Map with weak references, reaper | get, set, clear, reap | garbage collector | LRU order with TTL, age and collection | bound, LRU, never an expired entry |
| `migrations/` | the tracking table on the server | runMigrations, rollbackMigration | adapter's transactions | several runners, the applied set is read once, lost answers | applied exactly once, record and schema agree |
| `connections/`, `readonly/`, the lookups of `db.ts` | registry Map, round-robin index, active name; the MSSQL driver's pool | operations by name, use(), ping, getRead, getWrite, failover, forTenant, assertWritable | adapters | failovers that overlap, servers that go and return, a pool the process shares | an operation reaches the server it was routed to, reads rotate, the active one was promoted rightly |
| `async/cursor.ts`, `pagination/` | cursor: rows, index, fetched, closed | next, close, stream; cursorPage, offsetPage | a table others write | next() before the first fetch answers, close during a fetch, writes between pages | every row once and in order, page numbers agree with rows |
| `async/timeout.ts`, `abort.ts`, `clock.ts`, `transaction/deadlock.ts` | attempt, start of the transaction, timers | withTimeout, resolveTimeout, retryWithDeadlockBackoff | errors of the adapters | late answers, which errors count | no call outlives the budget, only deadlocks are retried, at most maxRetries times |
| `adapters/` | handle or driver pool | execute, executeBatch, beginTransaction and what it returns, close | drivers | release of the connection on every path, one handle for all (SQLite) | one user per connection, answered work durable, undone work gone |
| `sql/`, `core/`, `api/`, `cache/param-buffer.ts` | one buffer per prepared query | pure functions | each other | numbering of placeholders through four layers and four dialects | every value arrives at the placeholder it was written for |
| `mapping/`, `core/type-*.ts` | none | pure functions | - | splitting joined rows, what each driver returns for a type | a row is mapped to what its table holds, a join nests as it was joined |
| `config/`, `connections/` loading, `auth/` | none after startup | merging and checks | environment | precedence at several depths | the most specific source wins, contradictions are refused |
| `errors/`, `logging/`, `types/` | none | constructors, output | - | - | not a subject of TLC, see the end |

Interactions: the adapters are the only way to the database. `runAtomically`
and `db.transaction()` each hold one connection the driver reserved for them;
the `ConnectionPool` of `pool/` is squn's own pool for whoever uses it and is
not the driver's. `CachedDb` wraps an adapter and is one to its callers.

## Modules

### ConnectionPool (`pool/`)

State: `state`, `useCount` of every `PooledConnection`; `idle`, `acquired`,
`queue`, `drained` of the pool; `created`, `destroyed` of `PoolStats`; what each
client holds and how far each `drain()` is. Time is two booleans per connection,
`aged` and `stale`: the two comparisons with limits the code makes. Connections
are drawn from a set of identities, which bounds how many are ever created.

`acquire()` is `AcquireIdle`, `AcquireNew` and `AcquireQueued`: the call recurses
over idle connections it must recycle, so one action destroys all of those above
the one it takes. `release()` is `ReleaseRecycle`, `ReleaseHandOff`,
`ReleaseIdle`. `Drain` is `drain()` up to its race, `DrainPoll` and
`DrainTimeout` the two promises of the race, `DrainFinish` the rest. The hooks,
the averages of the statistics and `healthCheck` are left out.

`PoolPromise` is the abstract specification: an allocator of exclusive leases, at
most `Max` of them, to clients who wait only while all are leased and, where nothing
is recycled (`InTurn`), are served in the order they came. Of the pool it sees what
clients hold, the queue, and whether `drain()` was called; the idle list, the
reaper, the counts and the waiting of a drain are stutters.

- `PoolRecycling.cfg` (3 clients, max 2, queue of 1, 4 identities, 2 uses, age,
  reaper, 2 drains): `NoSharing`, `PoolBound`, `NoIdleWhileWaiting`, and
  `Accounted`: what clients hold is what the pool believes they hold, and created
  connections are idle, held or counted as destroyed. Three clients on two
  connections make one wait; four identities let every connection be recycled and
  replaced; two drains let one finish under the other.
- `PoolProgress.cfg` (4 clients, max 2, queue of 2): without recycling the
  pool implements `PoolPromise` (`ImplementsAllocator`), serves every waiter without
  help of its timer (`EveryWaiterSettles`), and every drain ends (`DrainEnds`). Four clients
  are two holders, and two waiters to be overtaken.

Fairness (`FairSpec`): the timers of a drain fire. `EveryWaiterSettles` assumes
in addition that clients release what they hold, as part of its statement.

### AtomicBlock and AtomicPromise (`transaction/atomic.ts`)

`pc` is what a call of `runAtomically()` awaits: a connection, BEGIN, SET
TRANSACTION, its callback, COMMIT, ROLLBACK, or the pause before a retry.
`inAtomic` is the flag on `globalThis`. `held`, `tx` and `applied` are the
reserved connection, the transaction on the server, and how often the writes of
the call took effect. Every statement may fail; COMMIT may take effect and still
fail for the client; callbacks may throw, make nested calls, or swallow the error
of a failed statement, after which COMMIT of an aborted transaction succeeds and
applies nothing.

`AtomicPromise` is the abstract specification: the writes take effect at most
once, nothing after the call has settled, and resolving means that they have.
The refinement mapping takes `result` from `pc`.

- `AtomicRetry.cfg` (3 calls, 1 or 2 connections, 2 attempts, nesting, one call with an
  isolation level, one that swallows errors): `AllOrNothing`, `NothingLeftOpen`
  (no connection, transaction or nesting flag outlives the calls, except what a
  failed SET TRANSACTION loses), `RetryFromCleanSlate`, `ImplementsPromise`,
  `EveryBlockSettles`. Three calls on two connections make a call wait for a
  connection. On one connection they reach the deadlock of the flag: a call ends
  and lowers it (atomic.ts:152) while the callback of another, which holds the
  connection, makes a nested call; that one is let through and waits for the connection
  its parent holds until it returns.

Fairness: statements that were sent are answered, callbacks and pauses end, and
the driver's pool serves whoever keeps asking (strong fairness of `Reserve`, as
its queue is first come first served). `EveryBlockSettles` is therefore not "every call
settles": it assumes, in its statement, that the connections are not held up for good
(`HeldUp`), where each is held either by a callback that awaits a call it made or by
a call whose SET TRANSACTION failed (`Abandoned`). It says that those two are the only
ways for a call not to settle.

### Transaction (`transaction/transaction.ts`, `savepoint.ts`, `db.ts`, `adapters/postgres.ts`)

One `db.transaction()` whose callback runs several tasks. The client has `state`,
`depth`, `released`, `fn` and `outcome`. The connection has the queue `sent` of
statements in the order they were sent, and the server's transaction: `server`,
`work` (whose effects it holds), `points` (its savepoints), `durable` (whose
effects are committed). A call checks the state and sends in one action; the
server executes the oldest statement and its caller goes on in another. Sets of
statement ids stand for effects, so a savepoint is exact when it restores the set.

`EndIfActive` is the two `if (tx.state === "ACTIVE")` of `db.transaction()`;
`Committed`, `RolledBack`, `EndFails` are the answers to commit and rollback with
the release in `finally`; `ConnectionLost` may come at any time, also with a
COMMIT on its way that did or did not take effect. `Mark` is `markTimedOut()` and
`markFailed()`. History variables (`ends`, `late`, `marked`, `handles`) remember
what the properties relate.

- `TransactionTasks.cfg` (2 tasks, 6 calls): `SavepointExact`, `NothingEscapes`,
  `EndsReleased`, `StateHonest`. Six calls allow a savepoint, a statement, a
  savepoint of the other task, a rollback to the first, a third savepoint, and
  an end: names are given again if the depth ever went back.
- `TransactionThrow.cfg`: `ThrowLeavesNothing`, that is `NothingEscapes` without
  the exception for statements sent while the end is on its way, fails: the state
  stays ACTIVE until ROLLBACK is answered (transaction.ts:62), a statement of
  another task is sent behind it and commits by itself.

### CachedDb and QueryCache (`cache/`)

`CachedDb`: `entries` is the Map in insertion order, `call` what the `query()` of
each caller knows since it missed, `db` the version of the data behind each key,
`floor` its version at the last invalidation. `Hit` and `Miss` are `query()` up to
its await, `Read` the database's part, `Store` the rest, with eviction before the
key is set even if the key is there. A `Map.set()` of a present key keeps its
place. The counters, the key function and the contents of the arrays are left out.

`QueryCache`: `kept` is the Map, whose order is the recency; an entry says whether
the garbage collector has left its query `alive`. `get`, `set`, `clear` and `reap`
are one action each, as none of them awaits. `latest` and `since` are history: what
was last stored under a text, and which others were stored or found after its last
use. What a deletion leaves of a Map is in `MapOrder`, which both caches extend.

- `Caches.cfg` explores behaviours of either cache (module `MCCaches`). `CachedDb`
  with 3 keys, maxSize 2, 2 callers, TTL 1, clock to 2, one write: `TypeOK`, that
  no key is there twice and the bound holds, and `CacheHonest`: an entry older
  than the last invalidation of its key was stored by a query the invalidation
  overtook, and an entry's first hit is at most one TTL after its rows were read.
  Three keys overfill the cache; two callers miss one key together; a clock of 2
  lets an entry expire. `invalidate()` may cover any set of keys, which is what a
  RegExp without the g flag can select. `QueryCache` with 3 texts, maxSize 2, idle
  time 1, age 2, clock to 3, so that an entry that is used in time still ages out:
  `LeastRecentlyUsed`.

### Migrations (`migrations/runner.ts`)

Several processes call `runMigrations()`, each with a prefix of the list as its
release knows it, and `rollbackMigration()`. `pc` is the statement a call waits
for, `at` its migration, `applied` what a runner read before its loop. On the
server `recorded` is the tracking table, `ups` and `downs` count how often each
script took effect. `row` is what an open transaction did to the row of its
migration: an INSERT waits for another transaction that has touched the row and
fails on a duplicate, a DELETE waits for another one and may find nothing, which
the code does not notice. `ran` with `Locking` is a script that locks the schema
against another run of it. `Continue` is the loop up to its next await.
Databases without transactional DDL are left out.

- `MigrationRace.cfg` (2 migrations, 2 runners, one of an older release, 2
  rollbacks, every statement and COMMIT failing at will):
  `RecordMatchesSchema`, `InOrder`, `ReportHonest`, `EveryCallSettles`. Two
  runners race for one migration, two rollbacks meet a runner and each other, and
  the older runner stops before the newer one's last. Two rollbacks of one
  migration may both run its `down`, with one record to delete
  (runner.ts:161-178): `RecordMatchesSchema` leaves such a migration out.

Fairness: statements that are not blocked are answered, and a client whose
ROLLBACK fails has lost its connection, which ends the transaction as well.

### Adapters (`adapters/`)

The four adapters as their callers use them at the same time. A behaviour has one
`dialect`; `Postgres`, `Mysql`, `Mssql` and `Sqlite` are the operations of each
file (`PgBegin`, `MyCommit`, `MsSavepoint`, `LiteBatch`, ...). The driver's pool is
the set `free`, the server a session per connection: `sess` has the set of `work`
whose effects it holds and, in `marks`, what that set was at each savepoint;
`durable` is the work that was committed, and `mine` what each caller was answered. What differs between the files is kept: PostgreSQL and
MSSQL release a connection only when the transaction has ended, MySQL in a
`finally`; a failed START TRANSACTION of MySQL keeps its connection; SQLite has one
handle that all callers share, so that plain statements join whatever transaction
is open; a `commit()` of MSSQL that fails has rolled back; a batch is
row by row and not one transaction, on every adapter.

- `AdaptersAll.cfg` (2 callers, 2 connections, one with two statements, one with a
  statement and a batch of two rows, a savepoint each): `WorkHonest` (what was
  answered is durable, what was rolled back is not), `ConnectionsKept` (no two
  transactions share a connection, none is free and in use, none is lost),
  `BatchPrefix`. States after a failed COMMIT of MySQL are not explored further;
  they are the subject of the next run.
- `MysqlFailedCommit.cfg`: `Pinned` fails: after a failed COMMIT the connection is
  released, and the `rollback()` that follows releases it again, from under
  another transaction (mysql.ts:159).

### Connections (`connections/`, `db.ts`, `readonly/guard.ts`)

Which server an operation reaches. `Operation`, `Scoped` and `Resolved` are the
ways to name a connection, `Checked` a caller that asks the guard first, `Tenant`
a tenant's; `getRead`, `getReadRandom`, `getWrite` the group; `failover`,
`PingAnswered`, `PingRefused` a failover with its awaits. `Down` and `Recovers` are
the servers'. `global` and `pools` are the pool that `mssql.connect()` keeps for
the process: the first configuration wins until somebody closes it.

The replicas of a group are a list of places, in which a name may stand twice; a
group without replicas reads from its writer (`getReadOfWriter`).

- `ConnectionsRouting.cfg` (4 connections, two of them MSSQL and one of these
  read-only, a group with 2 replicas and one without, 3 standbys, 2 failovers, 3 reads,
  2 outages): `RoutedRight`, `PromotedFirst`, and that the system never stops. Two failovers
  overlap with a server that goes down between their pings.

### Scans (`async/cursor.ts`, `api/query.ts`, `pagination/`)

One table that others write, read through a cursor that several readers share, by
keyset pages in both directions, and by an offset page whose two queries run at
two moments.

- `ScansUnderWrites.cfg` (4 rows, two with the same key, pages of 2 up to the second
  or of 0, 2 readers, one write at any moment): `CursorOnce`, `KeysetComplete`,
  `OffsetHonest`. The statements say where the code gives no guarantee: readers whose
  first fetches are separated by a write, rows with the key of the last one of a page, a
  write between page and count. An offset page of size 0 counts rows and says that
  there are no pages and no next one (offset.ts:69), which `OffsetHonest` states.

### Deadlines (`async/timeout.ts`, `abort.ts`, `clock.ts`, `transaction/deadlock.ts`)

`call` is what each call of `withTimeout()` knows: the limit it asked for, the `ms` it
got from `resolveTimeout()`, when it began, whether its timer has fired, and how it
ended. The calls of a transaction may overlap; `elapsed` is the time since the
transaction began, which does not pass over a timer that is due. A function that
heeds its signal rejects when the timer fires, another settles whenever it likes.
`retry` is `retryWithDeadlockBackoff()`: `attempt`, the errors it went on after and
the pauses it made; the function may throw any of `Failures` at each attempt.

`DeadlinesKept` is checked by `AlgorithmsBounded.cfg`: two calls, one of which heeds its
signal, with limits that are shorter and longer than the budget and none, and four
retries, after which the pause has reached the longest delay. As calls and retries
share no state, no behaviour of that run has both.

### Binding (`sql/`, `api/`, `core/param-builder.ts`, `core/tvp/`, `cache/param-buffer.ts`)

A statement is the sequence of its placeholders, each with the value its author
meant, which the code never looks at; `Bound` says what each server binds there,
after the translation its adapter makes. `made` are the fragments a caller
holds, `loop` is what the function that runs has so far: none of them awaits, so
one runs at a time, and a step is one iteration of its loop: an interpolation of the tag, a
fragment of `sqlJoin`, a clause of `build()`, a name of `buildParams()`, a value of
`bind()`. The typed writes of `api/execute.ts`, stored procedures and tables are one step
each. `buffer` is what a prepared query keeps between its calls.

`AlgorithmsBounded.cfg` checks `BindingExact` over all texts of up to three placeholders
that can be composed with two fragments at hand (so fragments in fragments in fragments, each
dropped or kept by a condition), all texts of up to three names with scalars,
arrays, missing and superfluous parameters in every dialect, all objects of up to three
columns, tables of two rows and two columns, and calls of one prepared query with up to three
values on a buffer that starts with room for one: where a number can be off by one,
the buffer too small or an order reversed, no more is needed.

### Configuration (`config/`, `auth/`, `connections/env-loader.ts`, `config-file.ts`)

`settings` is the last call of one of the functions that find settings: what it was
given and what it returned. A value is a leaf or an object, an object a function of its
own keys (a method that an instance inherits is none), a missing value is `Undefined`. `deepMerge` is unfolded
to three levels, which is all there is: it goes on only where the preset has an
object too, and the deepest one of the presets is `log.logger`. `resolveConfig` takes the
environment of its argument, else of the user's `env`, else of the variables, and
overwrites `env` with it; `createConnection` is `resolveConfig`, `validateConfig` and, in
production, `validateProductionConfig`. The rest are the sources of a connection, the
named connections of the environment, `validateAuth`, what `mssql.ts` makes of a login, what
`mysql.ts` makes of its options, and a configuration file.

`validateAuth` and the login are two steps, because nothing in the library calls the first:
a driver is given a login as it came. `LoginRight` says what it is given, the method
too: an Azure login is always a service principal with the secret it has or an empty one, also
where `validateAuth` let it pass for its managed identity. `PoolRight` says that beside
a URL the other options of `mysql.ts` are not looked at, and that user and password stay as the URL
spells them.

`SettingsExact` says of each what the sources come to, setting by setting, not object by
object. `AlgorithmsBounded.cfg` asks it of all presets under configurations that give, leave
out, nullify or undefine keys at each level (a logger that is an object of functions
and one that is an instance of a class among them), that name an environment or do not,
variables that are numbers, begin with one or are not, logins of every type, and
URLs with and without parts: the places where a level can be skipped need no more.

### Rows (`core/type-handler.ts`, `type-mapper.ts`, `mapping/`, `api/query.ts`, `prepared.ts`)

`mapping` is the function that runs on a result: the mapper of a table, a class mapper, a
single, first or scalar answer are one step; `splitAndMap()` goes through the columns
(`SplitsColumn`) and then through the rows (`NestsRow`), with what it has so far.

What reaches the mapper of a table is what a driver answers for a row that the table
holds. Drivers are external: `Drivers` are the forms they may answer each handler's types in (a number as
a number, a bigint or a text, JSON parsed or as text, ...), in every
combination, and `Form` gives the answer. `fromDb` has all 17 handlers of `BUILT_IN_HANDLERS`. A number becomes
the double nearest to it (`Nearest`). The JSON handler parses every string
(type-handler.ts:69), so a text of a json column that the driver has parsed already is parsed a second
time, which fails: `RowsExact` says so. No write of the library goes through `toDb`
(execute.ts sends values as they are), so nothing is said of a round trip.

`RowsExact` holds in every step of `splitAndMap()`: of the rows read so far, every parent is
there once, in the order of their first rows, with the objects its last row joins; an object
without a key or without a mapper is null, and without any mapper nothing comes back.
The columns of `splitOn` are taken to be columns of the result behind its first, in its
order (`RowsAssumption`), as the doc of the function means them. `AlgorithmsBounded.cfg` has
tables of nine types under every form of answer, with columns too many and too few, and joins
of up to three rows with no, one and two split points and up to three mappers, with keys that
repeat, objects that are missing in one row and there in another.

`MCAlgorithms` lets one of these components move at a time, with the others at rest: they
share no state.

## Properties and seeded faults

Every property of a passing run has a mutant: an operator beside the definition
it replaces, with a plausible slip in it (an off-by-one in a bound, a forgotten
release, a counter that follows the live savepoints), under which TLC finds the
property violated with the run's own configuration. In `ConnectionPool` and
`AtomicBlock` they carry the comment "Seeded fault", in the modules of the
adapters, the algorithms, scans, connections and the query cache "Mutant"; in
`Transaction`, `CachedDb` and `Migrations` they stand directly before the
definition and extend its name (`NextDepthTwice`, `KeptButFirst`, ...). No
action uses them.

## Proofs

Each `*Proofs` module extends the module it is about, states an inductive
invariant, and proves for every value of the constants that it holds initially,
is kept by every action (one step of the proof each) and implies the properties.
The assumptions are those named in the modules (`PoolAssumption`,
`AtomicAssumption`, `TransactionAssumption`, `MigrationsAssumption`,
`ConnectionsAssumption`, `CachedDbAssumption`, `QueryCacheAssumption`,
`AdaptersAssumption`, `ScanAssumption`, `BindingAssumption`, `DeadlinesAssumption`,
`RowsAssumption`, `ConfigurationAssumption`): they say what the constants are and bound no size, and TLC evaluates them in every run.

- `ConnectionPoolProofs`: `PoolTypeCorrect`, `PoolNoSharing`, `PoolNoLeak`,
  `PoolNoIdleWhileWaiting`, `PoolWithinMax`, `PoolAccounted`, `PoolHandedOutFresh`
  (what a client is handed has not reached its age or use limit) and
  `PoolNoOvertaking`, whose assumption is that nothing is recycled, as a client
  that comes while a recycled connection's place is free is served before those
  who wait. `Inv` adds to them that an
  identity that was never created is in no one's hands (`Uncreated`), that only
  waiting clients are queued (`WaitersOK`), what a drain that is under way has
  made of the pool (`DrainsOK`), and `Bounded`. The bound needs care: a drain lets
  go of connections that clients still hold and later hand back, so what is
  inductive counts the open connections and the held ones together.
  `PoolImplementsAllocator` is the refinement of `PoolPromise`, with recycling and
  without; it needs in addition that a queue means that all is leased where nothing
  is recycled (`QueueAtMax`).
- `AtomicBlockProofs`: type correctness, `AllOrNothing`, `NothingLeftOpen`, `FlagHonest`,
  `RetryFromCleanSlate`, and `ImplementsPromise`, the refinement of
  `AtomicPromise`. `Stage` says for each value of `pc` what a call holds, what
  transaction the server has for it and how often its writes took effect;
  `Counted` bounds its attempts.
- `TransactionProofs`: type correctness, `SavepointExact`, `NothingEscapes`,
  `EndsReleased`, `StateHonest`. Two invariants: `Naming` (the names of the
  savepoints on the server, on their way and in the hands of the tasks are
  distinct and below `depth`, and a savepoint holds what its handle was created
  over), and one of the ending (what is sent behind an end is late, and the server
  has no transaction only after an end or a lost connection).
- `MigrationsProofs`: `MigrationsTyped`, `MigrationsRecordMatchesSchema`,
  `MigrationsInOrder`, `MigrationsReportHonest`. `RowKnown` is what a call knows of the row of its migration
  while others work: one that has inserted it is the only one, one that means to
  delete it still finds it or another rollback is after it; `OrderKnown` that a
  runner has left nothing before its migration undone, which the stale set
  `applied` still tells, because what was once recorded stays recorded or was
  undone by hand. For the reports, the runners that claim a migration are counted
  against how often it was applied (`Claimed`): a claim is made in no other step
  than the COMMIT that takes effect.
- `AdaptersProofs`: `AdaptersTyped`, `AdaptersConnectionsKept`, `AdaptersWorkHonest`,
  `AdaptersBatchPrefix`. Few steps concern connections: they are sorted into those
  that leave them alone, take a free one, give one back, and
  lose it (`KInv`). `LiteOK` is what SQLite needs, where there is nothing to take: the handle
  is open for whoever is between BEGIN and the end, so a second BEGIN is refused.
  `EndedFoul` says that on MySQL only a failed COMMIT leaves a transaction that has
  already given its connection back. `WInv` is about the work: a piece of it is in
  one place from the moment it is sent (`Apart`), and what a caller was answered
  after a savepoint is not in what that savepoint goes back to (`Follow`), so that a
  ROLLBACK TO removes that and nothing else. It is inductive only while no COMMIT
  of MySQL has failed, as the runs also assume.
- `ConnectionsProofs`: `ConnectionsPromotedFirst` and `ConnectionsRoutedRight`. A
  failover that is under way was refused by every standby before the one it pings
  (`Trying`), whatever others promote meanwhile. The pool of the process is that of
  an MSSQL connection (`PoolOfMssql`), which is all an operation that reaches a wrong
  server needs (`Reached`). The reads are full rounds over the replicas and the
  beginning of another one (`Rotated`), as long as the index modulo their number;
  turns are counted by place in the list, so a name may stand in several, and a group
  with an empty list has no rounds: its reads reach the writer.
  Of `Configuration`: `SettingsAlwaysExact`. Objects are laid over each other (`Over`), and a
  chain of `??` takes the first value that is defined: reading a key of the former is the
  latter applied to that key in each source (`GetOverDefined`). The merge is read level by level
  (`LoggerMerged`, `SectionMerged`, `RootMerged`, together `MergedRight`), where a user's
  value that is no object hides what the preset has below it. What an environment variable
  says is read the same way by every adapter (`Reads`). The invariant is the property
  itself, as each call stands alone.
- `CachesProofs`, of `CachedDb`: `CachedDbTypes` and `CachedDbHonest`. What an entry claims of its
  rows, its call claimed before (`CallOK`, `EntryOK`), and the database is never behind
  an invalidation. What a deletion leaves is an enumeration of the places that are
  kept, in order, so the keys stay unique and their number does not grow.
  Of `QueryCache`: `QueryCacheLeastRecentlyUsed`. An entry is what was last stored
  under its key, and all entries behind it were stored or found after its last use
  (`ByRecency`). So the first entry of a full cache has been followed by as many
  others as it takes to lose its place (`FirstIsFollowed`), which is what
  `Missed` keeps; the reaper, a lookup and the collector take only what is not due.
- `StatementsProofs`, of `Scans`: `ScansCursorOnce`, `ScansKeysetComplete`, `ScansOffsetHonest`. That a
  finite set has an ordered enumeration is proved by counting the rows before
  each (`AscendingOrder`), so that no induction is needed. `CursorInv`: as long as
  the queries of a cursor ran at one moment, all that was fetched is what the
  table held then, and what was handed out is the beginning of it. `KeysetInv`:
  a scan has rows in order, none beyond its cursor, and of the rows that stayed
  every key up to the cursor. `OffsetInv`: a page and its count are those of the
  table of their moments.
  Of `Binding`: `BindingAlwaysExact`. The numbers of a fragment go up, each names a
  parameter and each parameter is named (`InOrder`), which every operation on fragments
  keeps; then the number of a placeholder is its place among the placeholders
  (`NumberIsRank`), and the four servers, which go by the number, the place, or the first
  occurrence of a name, bind the same. A text with names is not in order when
  PostgreSQL uses a number again: there each number names its own value, elsewhere the
  place does (`PlacesRight`), and as long as no array was expanded `paramOrder` has the name of
  every placeholder (`OrderRight`), which is what the further rows of a batch need. The buffer
  has the values of the present call in its first places (`Holds`).
  Of `Rows`: `RowsAlwaysExact`. Whatever form a driver answers a value in, its
  handler reads it as that value, a number as its double, and refuses only a text of a json
  column that was parsed before (`ReadRight`, `MapperRight`), for every type and form. The segments so
  far, and the one that grows, are the columns read, cut before each column of `splitOn`
  (`Segmented`): as these are distinct and in order, the next cut is the next of them. A row then
  either is the first of its parent, which comes last among the first rows (`NewParent`), or replaces
  what an earlier one joined (`OldParent`).
- `AtomicBlockProofs`, of `Deadlines`: `DeadlinesAlwaysKept`. A timer was set to end with
  the first of the call's limit and the budget (`Timed`), and time does not pass
  over a timer that is due; that is what makes the limits of overlapping calls
  independent of each other. For the retries, the k-th pause is the one of the k-th attempt
  (`Paused`), the loop is one attempt behind its pauses while it sleeps, and a delay
  is half of the next until it is the longest, for which the powers of two are counted
  as subsets (`TwoDoubles`).

Only model-checked: liveness (`EveryWaiterSettles`, `DrainEnds`,
`EveryBlockSettles`, `EveryCallSettles`), which is out of the prover's reach. Every
invariant that a passing run checks is a theorem.

## Findings

Two runs find what the repository says violated by what the code does:

| Run | Where | What |
|---|---|---|
| `transaction_throw` | transaction/transaction.ts:62 | statements sent behind ROLLBACK commit by themselves |
| `mysql_failed_commit` | adapters/mysql.ts:159 | a connection is released twice, the second time from under another transaction |

The models also contain these divergences, which properties leave out by name and
no run is spent on:

- A connection recycled on release is destroyed and not replaced for a waiter
  (pool.ts:137), although PRD.md:3518 says it "destroys and replaces the
  connection". `PoolPromise` lets a pool that recycles pass clients over;
  `EveryWaiterSettles` is checked without recycling.
- `drain()` without `timeoutMs` destroys connections in use at once (pool.ts:176);
  docs/guide/pool.md:104: "drain waits indefinitely".
- The nesting flag is one per process and the first call that ends lowers it
  (atomic.ts:152); docs/guide/transactions.md:14: nesting "throws
  `AtomicNestingError`". A nested call that is let through can wait for the connection its
  parent holds, for good: `HeldUp` names it.
- A SET TRANSACTION that fails does so outside the `try` block (atomic.ts:70): its
  transaction stays open; docs/guide/transactions.md:5: "rolls back automatically on
  error". `Abandoned` names the exception.
- A query that an invalidation overtakes stores its old rows (cached-db.ts:108);
  docs/guide/cache.md:46: "Invalidate after writes to keep the cache consistent".
  `StaleOnlyIfOvertaken` names it.
- A limit given with a call is capped by the budget of the transaction
  (timeout.ts:32); PRD.md:987 says that it "takes precedence over tx budget".
- The read-only guard is only ever called by callers: `createConnections()` sends
  writes to read-only connections; docs/guide/error-handling.md:119 speaks of "a
  write on a readonly connection" that is blocked.
- `validateAuth()` accepts an Azure login for its managed identity (PRD.md:1978: "requires
  no secrets"), but mssql.ts:67-78 sends every Azure login as a service principal, this one
  with an empty secret; `acquireAzureToken()` has a path for it that nothing calls, nor
  does anything call `validateAuth()`. `LoginRight` says what is sent.
- `splitAndMap()` keeps of several children of one parent the last (nested-mapper.ts:52);
  its doc (nested-mapper.ts:6) says that it deduplicates "by the first column (primary key)
  of each segment", which it does for parents only. `LastRow` names it.
- docs/guide/config.md:17 names the key `environment` and the variable `SQUN_ENV`; the code
  reads `env`, `BUN_ENV` and `NODE_ENV` (resolve.ts). `EnvironmentOf` has the latter.

## Bounds

Every bound is a constant of a configuration: the sets of clients, calls, tasks,
callers, connections and keys; `MaxCalls` (calls of a transaction's tasks);
`MaxTime` and `MaxNow` (clocks) and `MaxVersion` (writes) of the caches; `MaxOps`,
`MaxMarks` and `Rows` (statements, savepoints and rows of a batch) of the adapters;
`MaxReads` and `MaxOutages` of the connections; `MaxWrites` and `MaxPage` of the
scans; `MaxElapsed` (time) of the deadlines; `MaxPlaces` and `MaxMade` (placeholders of a text
and fragments at hand), and `Capacity`, the room of the first `ParamBuffer`, of the
statements; `N` (migrations) and
`Length` (how many of them a caller knows); `UseCap` stops the use
counter of a pooled connection one past the limit the code compares it with,
where every larger value behaves the same. Symmetry is used only where the
interchangeable values occur in no other constant, and in no run with a liveness
property. Deadlock is checked for the connections only: the other systems may come
to rest when their callers have nothing more to do or a bound is reached.

## Plan

Done, in the order of how much can go wrong: the pool and runAtomically with their
abstract specifications, the Transaction with savepoints, the caches, the
migrations, the adapters, connections and failover, scans, and the algorithms.

Next:

1. `Adapters` as an implementation of one abstract adapter, which `Transaction` and
   `AtomicBlock` then use in place of their own server.
2. Runs that lose connections in the middle of a batch or between two servers.

## Not modelled

Parts that are left out whole:

- The text of SQL: its formatting, and the patterns of `injection-detector.ts` and
  `url-validator.ts`, which are parameters where something depends on them.
- `errors/`, `logging/`, `types/`: constructors, output and compile-time types.
- The hooks of the pool, hit and miss counters, and averages of statistics;
  `createRouter()` and `freeze()`, which are an object literal each; the registry of
  mappers and decorators, which only record; `concurrent()`, which is `Promise.all`.
- Scripts, benchmarks, examples.

Details of modelled parts that are left out, and why:

- Pool: hooks that throw after the waiter has been taken from the queue
  (pool.ts:149). Idle time counts from the last acquire (reaper.ts:28): `stale` may
  become true at any time, which includes it.
- `CachedDb`: the array a miss returns is the one it stored (cached-db.ts:109), and a
  RegExp with the g flag skips keys (:191): the rows are versions, not arrays.
- Adapters: a deadlock victim of MySQL, whose transaction is gone before its client
  knows; a pool closed under open transactions; the `bulk-load` strategy of MSSQL,
  which only rejects; `close()` of an MSSQL adapter whose pool is stale, which
  forgets the newer one. PostgreSQL answers the COMMIT of an aborted transaction and
  drops it, and a caller that went on after an error is promised nothing
  (`WorkHonest`); SQLite runs plain statements inside another caller's
  transaction, and they are promised nothing either.
- Binding: `upsertMysql` names each placeholder twice and is always refused
  (execute.ts:109): left out of `BindingExact`. `sqlJoin` and `build()` drop the
  tables of their fragments and the sentinels of nested fragments keep their
  numbers, so `InterpolatesFragment`, `Joins` and `AddsClause` take tables only where the
  code carries them. Arrays in the rows of `executeBatch`, whose names are not in
  `paramOrder` (param-builder.ts:49).
- Rows: `TypeHandlerRegistry.toDb` and `register`, which nothing in the library calls;
  the forms drivers have of their own for uuid, date and time; a text in a json column
  that is JSON itself, which a second parse turns into something else instead of failing; which
  refusal comes first when a row has several faults (the order of the columns); a `splitOn` in another
  order than the columns, which attaches objects under each other's names
  (nested-mapper.ts:43); user-written mappers of the segments, for which the identity stands.
- Configuration: names with underscores (env-loader.ts:17), and the field AUTH_TYPE is one
  word; the methods a logger inherits
  from its class, which `deepMerge` does not copy, so that a logger of that kind is merged
  with the preset's into one that logs as the preset's; `acquireAzureToken()`, which nothing calls.
  `validateProductionConfig` looks at `config.connection` and not at the options of
  the adapter.
- Connections: a standby behind MSSQL is pinged through the pool of the process, as
  `PingAnswered` has it. `createConnections()` uses neither groups nor failover:
  they are exported for callers.
- Scans: negative page sizes, whose LIMIT each database treats in its own way; rows whose key is null, the text of a cursor (`encodeCursor()`), and
  `prevCursor`, which nothing says how to follow.
- Retries: the pause of `calculateRetryDelay()` is any whole number between half the
  delay and the delay (the random part of the code is a fraction of milliseconds).
