# A TLA+ model of pgstatsmon

pgstatsmon polls a set of Postgres servers for statistics and exposes them as
Prometheus metrics.  It is one node.js process: an event loop whose callbacks
run to completion and interleave freely.  There are no threads, and nothing is
stored on disk; what is hard is the order of callbacks, the array indices they
keep while they wait, and the timers that race the answers.

## The system

| Component | State | Operations | Correct when |
|---|---|---|---|
| Monitor (`lib/pgstatsmon.js` 142-989) | `pm_pgs`, `pm_pools`, `pm_state`, `pm_data` (four arrays with one index), `pm_interval_object`, `ind` of `connect` | the resolver's `added` and `removed`, `setup_backend` and its callback, `wait_and_remove`, `start`, `stop`, `tick` with a queue of at most ten backends, claims, barriers, `tickPgQuery` | the arrays describe the same backends; every callback finds the slot it meant; each claim has one holder; locks and timestamps are given up; ticks end |
| Recording (`record`, 997-1208) | the rows of the last poll by statkey | one call per query result | counters are exact between resets and never too high; a bad value stays out of the counters of other rows |
| Postgres client (`lib/pgclient.js`) | `destroyed`, `client_had_err`, a timer and an `aborted` flag per query | `query`, `destroy`, replies, `onRowTimeout`, deferred errors | each query is answered once |
| Backend setup (`lib/dbinit.js`) | per attempt: the superuser's client, `pg_version`, a connect timer | a pipeline of seven functions, five of which change or skip to change the server | the client is destroyed on every path, the callback called once, and after a success the server has what the queries use |
| Query catalogue (`lib/queries.js`) | none | `getQueries` | the SQL of the highest version the server reaches |
| Targets, configuration, DTrace, packaging | - | I/O | not modelled |

The resolver (vmapi or static) announces and withdraws backends; the monitor
makes a cueball pool with one connection for each, sets it up through dbinit,
and on every interval claims each pool's connection, sends all queries at once
through PGClient, and hands the results to `record`.  The four arrays and the
closures' indices are the shared state.  cueball, vasync, verror, backoff and
node-postgres are libraries outside the source: they are modelled from how the
code uses them and are marked external in the map.

## Modules

* `PgMon` - the monitor.  One action per callback; every action of the code is
  taken whole, with the exception it may raise.  A raised exception ends the
  process (`smf/manifests/pgstatsmon.xml` starts node with
  `--abort-on-uncaught-exception`), so it is a state, `thrown`, and the end.
  - `Added`, `SetupBackend`, `SetupReturns`: discovery and setup.  `ind` is
    shared by all `added` handlers, so a deferred setup is the constant
    `LastAdded`, resolved when it runs.
  - `Removed`, `RetryRemoval`: the `removed` handler together with the first
    `is_running`, and each backoff that expires.
  - `FirstTick`, `IntervalFires`, `StartWorker`, `ClaimFails`, `ClaimGranted`,
    `QueryError`, `QueryEnd`, `Drain`, `QueueEnd`: a tick.  A worker is the
    closure of one queue entry: its index, pool, running queries and errors.
    `start` announces backends and begins the first tick in one turn of the
    event loop, so the entries of that tick find no slot set up.
  - `Stop`: the loop that splices the array it runs over.
  - `Connected`, `DestroyClient`: cueball.  It does not learn that an idle
    connection has died, since PGClient keeps the error to itself.
  - `Forgotten` bounds how early a backend is announced again after it was
    withdrawn: when nothing of its life before is left.  The resolvers poll in
    minutes, a removal takes seconds.
  - Data is reduced to whose it is: the query list of a slot is the backend
    whose version chose it, a stored result the backend it came from.
  - Not in it: `pm_old_data` (kept for debugging and spliced with the others),
    targets and probes.  Two setups with the same slot and backend are one
    element.
* `BackendMetrics` - what the monitor promises about one backend's data,
  without arrays, indices and ticks: announced, set up once, then its own last
  rows of each query until it is withdrawn.  `QuietSpec` implements it
  (`KeepsMetrics`); the mapping finds the backend's slot.
* `Record` - `record` for one backend and one query with one counter and one
  gauge.  Postgres is the environment: rows grow, are reset with or without a
  later reset time, vanish and come back.  The JavaScript operators are
  modelled by what they do, strings included.  A poll may read a null or a NaN
  instead of the value; `spoiled` counts how often a row was read so.  What is
  counted as an error for a NaN, and the choice of labels, are left out: labels
  are the row.
* `QueryAnswer` - what a query promises its caller: rows, then one answer.
* `PgClient` - PGClient with its timers and node-postgres' queue.  It
  implements `QueryAnswer` (`AnswersOnce`), with the last event the caller has
  seen as the mapping.
* `QueryCatalogue` - the queries of `lib/queries.js` and `getQueries`.  A SQL
  text is the version it is written for and the functions it calls; the choice
  is the code's loop over the keys in JavaScript's order.  `BestQueries` is what
  it should choose.
* `DbInit` - `setup_monitoring_user` with its caller `setup_backend`, for one
  backend and several attempts.  `Callback` is vasync's pipeline: the next
  function, or `Finish`, which destroys the client, unlocks the slot and, on
  success, chooses the queries.  `Connected` and `ConnectTimeout` are the two
  ends of `connect_to_database`; `RunFunction` calls the current function;
  `OnRow`, `OnEnd`, `OnSqlError` and `OnNoAnswer` are the events of PGClient,
  which come as `QueryAnswer` allows.  `Execute` is Postgres: a statement that was
  sent is executed whenever the server likes, also after its query has timed
  out and the next attempt has begun.
* `BackendSetup` - what the monitor relies on: a setup is repeated until it
  succeeds once, and then the server has the role and every function its
  queries call, or was a standby.  `DbInit` implements it (`SetupKeepsPromise`).
* `MCPgMon`, `MCRecord`, `MCPgClient`, `MCDbInit` - instances for TLC.
* `PgMonProofs`, `TickProofs` (about `Spec`) and `QuietProofs` (about `QuietSpec`),
  `RecordProofs`, `PgClientProofs`, `QueryCatalogueProofs`, `DbInitProofs` and
  `DbInitProgressProofs` - theorems.

Operators commented *Mutant* are not part of the model.  Each is a plausible
bug of the definition that follows it, and shows that some property of a run
notices it; `PROJECT.json` lists which.

## Runs

| Run | Specification and bounds | Shows |
|---|---|---|
| `quiet_safety` | `QuietSpec`, 2 backends, 2 queries, 2 overlapping ticks, 2 in flight | `NeverThrows`, `TrackedIsDiscovered`, `SamplesBelongToBackend`, `ClaimsHaveOneHolder`, `PendingStateIsAccurate`, `SetupLockHeld`, `KeepsMetrics`, `EntriesMoveOn` |
| `quiet_liveness` | `FairQuietSpec`, 2 backends, 1 query, 2 overlapping ticks, 1 in flight | `TicksEnd`, `EventuallySetUp`, `PolledForever` |
| `dynamic_safety` | `Spec`, 2 backends, 1 query, 2 ticks, 1 in flight | `TypeOK`, `SlotsAligned`, `SetupComplete`, `HandlesAreLive` |
| `record_counters` | 2 rows with own keys, values and growth to 2, 1 later reset time, 1 NaN in each | `TypeOK`, `NeverOvercounts`, `NothingLost` |
| `client_answers` | `FinishingSpec`, 3 queries on one connection | `AnsweredIsSettled`, `WaitingIsDue`, `AnswersOnce`, `EveryQueryAnswered` |
| `backend_setup` | `FairSpec`, 2 attempts, the whole catalogue, versions 9.3, 9.4, 9.6 and 10 | `ClientDestroyed`, `NeverThrows`, `QueriesFitServer`, `QueriesCanRun`, `SomethingIsDue`, `SetupKeepsPromise`, `EveryStepCounts`, `AttemptsEnd` |
| `misattribution` | `LeavingSpec`, 3 backends, 1 query, 1 tick, 2 in flight | a disagreement, below |
| `removal_aborts`, `timeout_release`, `shared_statkey`, `client_hang`, `superuser_leak` | as small as possible | disagreements, below |

Why the bounds are enough.  The hazards of the monitor are about two slots,
one of which moves, and about two ticks that meet at one backend: two backends
and two tick identifiers have both; two queries give a barrier that is partly
done.  One in flight with two backends makes a worker wait for another.  A
tick identifier is reused when its tick has ended, so ticks go on for ever, and
no other counter of the monitor grows: backoffs stop at the code's own two.
In `Record` a row can have a value before it is first read, and growth counts from
then, so growth to two covers a reset after which the new value has passed the
old one.  One bad value in a row is enough to spoil its counter for good;
the run reads NaN, the proofs cover nulls as well.  The versions of `backend_setup` lie on both sides of every version number
in the code; with two attempts the statements of the first can be executed
during the second, and a third would add no new pair.  With three queries `PgClient` has one that is answered, one that is
active and one that waits.

`QuietSpec` is an assumption about the environment, not about the code:
backends are withdrawn only while no callback holds an index and after their
setup.  It is what static discovery gives (nothing is ever withdrawn) and the
most under which the properties of `quiet_safety` hold: `removal_aborts` and
`misattribution` show two of them fail without it.  `dynamic_safety` has no such
assumption; `CHECK_DEADLOCK FALSE` is set where the process may abort or stop,
for `PgClient`, where every query may be done, and for `DbInit`, where the setup
or its attempts may be over.

Fairness.  node runs due timers, immediates and callbacks of finished I/O, so
those actions are weakly fair.  The interval is strongly fair: it runs after the
immediates, and fires however often announcements of other backends queue new
ones.  A setup succeeds and a claim is granted
infinitely often only if they are possible again and again: these are strongly
fair, which says that a backend is not down for ever.  That a query always calls back
is what `PgClient` shows, if a server that begins a result finishes it
(`ServerFinishes`); `client_hang` shows that the code needs this assumption.
`DbInit` makes it as well: `Progress` of an attempt is its connect timer, the call
of the next function, or the answer to its query, one of which is always due;
nothing is assumed of the connection or of when a statement is executed.

## Where code and documentation disagree

* `removal_aborts` - a backend that is withdrawn before it is set up aborts the
  process: `is_running` calls `forEach` of a missing `pm_state[pi]`.
* `misattribution` - a query that ends after another backend was withdrawn has
  its rows stored in the slot that has moved to its index, and its metrics named
  after the backend of that slot.  `LeavingSpec` keeps to the ordinary case: a
  backend that is idle leaves once, no removal is forced, and nothing is
  announced or set up during a tick.
* `timeout_release` - a timeout that is not the first error of its barrier
  releases the connection instead of closing it.
* `shared_statkey` - `pg_stat_replication` does not select its statkey, so the
  rows of all replicas share one key and counters mix them.
* `client_hang` - a query that stalls after its first row is never answered.
* `superuser_leak` - the connect timer of dbinit looks for a property that
  PGClient does not have; a connection that comes up after it stays open as
  superuser, one more for each retry.

`PROJECT.json` quotes the passages of the documentation.

## What is proved

For every value of the constants, from the named assumptions of each module:

* `PgMonProofs`, about `Spec` (with all removals and `stop`): `TypeOK`,
  `SlotsAligned`, `SetupComplete`, `HandlesAreLive`.  Types alone are not
  inductive: an `EXCEPT` at an index needs the index in range, and that the arrays
  have one length; a claim that is granted needs its worker to know its pool.
  `IInv` is types, equal arrays with complete slots, and `WorkersKnowPool`;
  `HInv` adds that the keys of pools are known and that a live handle is a claim.
  There is one step per action; what splicing, taking every second element and
  giving up a handle do to the arrays are lemmas.
* `QuietProofs`, about `QuietSpec`: `NeverThrows`, `TrackedIsDiscovered`,
  `SamplesBelongToBackend`, `ClaimsHaveOneHolder`, `PendingStateIsAccurate`,
  `SetupLockHeld`, and that the monitor implements `BackendMetrics`
  (`KeepsMetrics`).  The invariant `QInv` adds to `HInv` what every callback
  assumes of the slot it has kept the index of.  A deferred setup and a setup under
  way find their slot, the latter locked and not yet set up; a worker past the
  queue finds its own backend's slot, set up; a worker whose claim failed has
  this as its only error and waits for nothing, and every other one that is querying
  holds the claim of its pool, alone; a timestamp is somebody's.  For the
  refinement, a slot that waits for its setup has no queries.  There is one lemma per
  action; `RemovalMoves` says which slot each one was before a splice.
* `TickProofs`, about `Spec`: `EntriesMoveOn`, with removals and stale indices.
  A callback of a queue entry leaves nothing of it, or the entry further on, or
  it throws; one lemma per callback says which.  It needs that a tick has one
  entry for an index (`OneEntryEach`, inductive with the types): without that
  the callback of one entry could be undone by its twin.
* `PgClientProofs`, about `Spec`: `TypeOK`, `AnsweredIsSettled`, `WaitingIsDue` and
  the implementation of `QueryAnswer`.  `Settled` says where a query can still be
  answered from: the queue has no duplicates, a deferred error's query has left
  it, and an answered query is in neither and has no timer.  `WaitingIsDue` is the
  converse for a query that waits: only a server that stalls after a row can
  keep its caller waiting, which is what `ServerFinishes` excludes.
* `QueryCatalogueProofs`, for any catalogue of the schema and any version:
  `ChoosesBest`, that `getQueries` returns `BestQueries`.  The code's loop is a fold
  over the keys in JavaScript's order, so this is an induction, over the finite
  set of keys that have been visited; the predicate is a family of sets, as an
  operator cannot be passed to a lemma.  `CatalogueAccepted`: no version makes the
  real catalogue raise `getQueries`' assertion.
* `DbInitProofs`, for any number of attempts and any versions and catalogue
  that `getQueries` accepts and whose queries call only what the pipeline creates
  for a version (`CatalogueAssumption`, `CallsAssumption`): `TypeOK`,
  `ClientDestroyed`, `NeverThrows`, `QueriesFitServer`, `QueriesCanRun`, and that
  `DbInit` implements `BackendSetup`.  The real catalogue meets both assumptions
  for every version, not only for those of the run: `CatalogueAccepted` and
  `CallsAreCreated`.  The invariant has four parts.  `Control`: only the latest
  attempt is under way, its timer is armed exactly before it has a client, and a
  client is destroyed exactly when its attempt is over.  `Asked`: an open query is
  that of the current function, so that an event continues the right one.
  `Known`: the version is right from the third function on.  `Made`: a statement
  that was executed, or a function that was passed, has left its trace in the
  server, which nobody removes.  `Chosen` and `Runnable` add what a backend that is
  set up has been given, and that its server keeps what that needs.
* `DbInitProgressProofs`, about `Spec`: `SomethingIsDue` and `EveryStepCounts`.
  While the lock is held, the timer, a function to call or an answer is outstanding
  (`Heard`: a query that has its answer has called back), and each of these lowers `Left`, which nothing raises: an attempt is over
  after at most `2 * Len(Funcs)` of them.
* `RecordProofs`: `TypeOK` for any statkeys and bad values, which says of a
  counter that it is a number or NaN, and of a gauge that it is never NaN.  For
  queries with unique statkeys, bad values included: `NeverOvercounts`, for textual
  columns too, and `NothingLost`, for columns that arrive as numbers;
  `shared_statkey` shows that keys of their own are needed.  `Covered` says that
  what the next poll would add is covered by the true growth as well, and that
  the value kept of an unspoiled row is a number.  `Exact` says how the row that
  is kept relates to the row in Postgres: the same reset time, from which the
  statistic only grew, and a row that was never read has left no trace.

Every invariant and every action property that a passing run checks is stated by
a theorem.  Only model-checked are the temporal properties under fairness:
`TicksEnd`, `EventuallySetUp`, `PolledForever`, `EveryQueryAnswered` and
`AttemptsEnd`.  The prover has no rule for `ENABLED`, so that weak fairness makes a
step happen cannot be concluded in a proof.  What is proved of them is the part
that is about the code: that something is due (`WaitingIsDue`, `SomethingIsDue`) and that what is due moves things on (`EntriesMoveOn`,
`EveryStepCounts`).  What the recursive `Digits` yields for columns compared as
text is not proved either; `NothingLost` excludes those columns.

## Plan

1. Done: `PgMon` with `BackendMetrics`, `Record`, `PgClient` with `QueryAnswer`,
   `DbInit` with `BackendSetup`, `QueryCatalogue`, and the proofs above.
2. Done: the proofs for `QuietSpec`, that of `BackendMetrics` included, those for
   the catalogue, and the safety half of the liveness of ticks, queries and setups.
3. Done: `Record` with nulls and NaN.
4. Left, each certain from a line of the code and listed as a hazard without a run of
   its own: a textual counter loses the growth from 9 to 10 and falls from 10 to
   9; a NaN that was kept makes a counter NaN; a gauge is stale for one interval
   after a reset; `stop()` leaves every second pool open.

## Not modelled

* The targets only pass values on to bunyan and to artedi's collector; what a
  counter adds up to and what a gauge shows are variables of `Record`.  When a
  gauge expires is decided by the collector's clock.
* Configuration is read once at start; DTrace probes and logs change no state;
  packaging is scripts.  The one fact taken from it is that node aborts.
* Of the monitor: `initializeMetrics`, which makes the targets, and
  `pm_old_data`, which nothing reads.
