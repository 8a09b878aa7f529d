# Verification of the Currency Rate Aggregator

TLA+ specifications of the service in `src/`, the TLC configurations that check
them on small instances, and TLAPS proofs of what matters most for every value
of the constants. Line numbers are those of the sources.

    tlc -workers 2 -config MCAggregator.cfg MCAggregator    # one run
    tlapm AggregatorProofs.tla                               # one proof module

## 1. The system

A Go process answers `/rates`, `/convert` and `/history` over HTTP. Rates come
from several bank sites, are kept in a TTL cache and saved to PostgreSQL. A
scheduler refreshes configured currencies in the background.

| component | state | operations | talks to |
|---|---|---|---|
| rate aggregator (`internal/service/aggregator.go`) | none of its own; clients, cache, store, metrics | `FetchRates`, `RefreshRates`, the fan-out with `errgroup` | cache, clients, store, metrics |
| rate cache (`internal/cache/ttl_cache.go`) | map of entries with an expiry, `RWMutex` | `Get`, `Set` | called by the aggregator |
| rate limiter (`internal/ratelimit/limiter.go`) | map of counting windows by address, `Mutex` | `Allow` | called by the HTTP middleware |
| scheduler (`internal/service/scheduler.go`) | list of currencies, ticker | `Run`, `refreshAll` | aggregator |
| process lifecycle (`cmd/server/main.go`) | contexts, server, `schedulerDone`, store handle | start, signal, shutdown, exit | all |
| rate store (`internal/storage`) | table `rates` | `SaveRates` (one transaction), `History`, `HistoryByDate` | PostgreSQL |
| bank clients (`internal/bankclient`) | none; an `http.Client` with a timeout each | `FetchRate` of four sources | bank sites |
| HTTP API (`internal/httpapi`) | none | handlers, middleware, error mapping | aggregator, store, limiter, metrics |
| configuration (`internal/config`, `bankclient/factory.go`) | the values read | `Load`, `NewClients` | environment; `main` |
| metrics (`internal/metrics`) | counters under a mutex | `Observe...`, `/metrics` | HTTP API, aggregator |
| domain, migrations, generated files | none | `NormalizeCurrency`, plain records, SQL | |

What is hard in it, component by component, and what makes it correct:

* **Aggregator.** Any number of requests and the scheduler run at once. Each
  starts one goroutine per client and one collector, and the request's context
  may end at any step. Banks fail one by one. Correct means: no usable quote is
  lost, no goroutine is left behind, nothing is served that was not saved, a
  canceled request returns, and the counters agree with what happened. Nothing
  merges concurrent misses, so a slow request may overwrite a newer result.
* **Cache.** `Get` reads the time before it takes the read lock, and deletes an
  expired entry in a second critical section. Correct means: no live entry is
  deleted, and every answer is one the map could give at one instant.
* **Limiter.** `Allow` reads the time before it takes the mutex, and each call
  drops the closed windows of all clients. Correct means: windows overlap by the
  wait for the mutex and no more, every admission was counted by a window,
  denials are justified, no open window is dropped.
* **Scheduler.** Rounds may fail, be slower than the interval, or be canceled.
  Correct means: each complete round asks for each currency once, no burst of
  rounds, and `Run` returns when its context ends.
* **Lifecycle.** One timeout covers the server's shutdown and the wait for the
  scheduler; the store is closed by a deferred call. Correct means: nothing in
  flight meets a closed store unless the timeout expired, and the process ends.
* **Store.** All rows of a result or none, also when the process dies between two
  statements; an error at the commit does not tell which. A history is whole or an
  error, and every connection goes back to the pool.
* **HTTP API.** Errors have to be told apart in the right order, refused requests
  cost no call but are counted, a date at the end of a range stands for the whole day.
* **Clients.** A site may answer anything or hang. Correct means: the best rates do
  not depend on the order of the answers, one good source for each call is enough when the
  write timeout is long enough for all of them, and an answer is only ever lost to the encoder
  because a site sent no number or the conversion is beyond `float64`.
* **Configuration.** Numbers wrap, lists repeat and have gaps, one variable has an old
  name. Correct means: durations are as written, each named bank is asked once, and
  nothing that starts makes a ticker panic.
* **Metrics.** Pages are written while requests end, and may break off. Correct means:
  each page shows one instant, buckets and counts included.

`PROJECT.json` lists these hazards at their lines with the properties that
cover them.

## 2. Modules

| module | models | composed with |
|---|---|---|
| `RateCache` | what the aggregator relies on in a cache: atomic answers, no live entry hidden, entries dropped only when over | |
| `TTLCache` | `TTLCache.Get/Set`, one action per critical section | implements `RateCache` |
| `Aggregator` | `FetchRates`, `RefreshRates`, `fetchFreshRates`, the counters | `RateCache` by `INSTANCE` |
| `RateLimiter` | `Allow`, `deleteExpiredLocked` | |
| `Scheduler` | `NewScheduler`'s list, `Run`, `refreshAll`, the ticker | part of `Server` |
| `Server` | `main` from its start to its exit | `Scheduler` by `INSTANCE` |
| `RateLog` | what callers of the store rely on: saves as one step, readers of one instant | |
| `RateStore` | `OpenPostgresStore`, `SaveRates`, `History`, `HistoryByDate`, a crash of the process | implements `RateLog` |
| `HttpApi` | middleware, routes, handlers, error to status mapping | |
| `Config` | `Load`, `NewClients`, the checks of `NewScheduler` | |
| `BankClients` | `FetchRate` of each client, the selection of the best rates, the one or two calls of a request, the numbers of a conversion, the answer to the user and the write deadline | |
| `Service` | `main`: the process starts with a configuration and serves a request | extends `Config`, `BankClients` by `INSTANCE` |
| `Metrics` | observations, snapshot and page of `/metrics` | |
| `MC...` | constants for TLC | |
| `TTLCacheProofs`, `AggregatorProofs`, `RateStoreProofs`, `ServerProofs`, `HttpApiProofs` | theorems about the module they are named after | |
| `MiddlewareProofs` | theorems about the two tables of the HTTP middleware, `RateLimiter` and `Metrics` | |
| `ServiceProofs` | theorems about `Service`, so about `Config` and `BankClients` in it | |
| `FoldLemmas` | sums, loops and the greatest of a finite set, for all of these | |

### How the models correspond to the code

**TTLCache.** `entries` is the map, `now[p]` the local variable of `Get`. `GetBegin`
is `now := c.now()`; `GetHit`, `GetAbsent` and `GetExpired` are the read-locked
lookup and its three outcomes; `GetEvict` is the write-locked second check. A
critical section is one action, so the mutex has no variable. The refinement
mapping sends the pending second section of an expired `Get` to an answer that was
already given: a miss is decided at the lookup, and the eviction is `RateCache`'s
`Forget`.

**Aggregator.** `pc[r]` is where the call of request `r` is: `lookup`, `collect` (the
receive loop), `drain` (waiting for the workers after `ctx.Done()`), `assemble`,
`save`, `publish`, `done`. `worker[r][c]` is the goroutine for client `c`. The channel
has capacity for every client and one reader, so its content is the set of workers
in state `sent`. A request runs once, so the `RateResult` it computes is named by
the request; `sources[r]` and `updatedAt[r]` are its fields. Prices do not matter
to control: an answer is usable (`rate`), of another currency (`foreign`) or an `error`.
`SaveFails` may leave the rows committed, because an error of `tx.Commit` does not
say what the server did. `begunAt` is a history variable.

**RateLimiter.** `AllowBegin` reads the time; `Open`, `Count` and `Deny` are the three
outcomes of the critical section, each after dropping the closed windows. `MaxStall`
bounds how long a call waits for the mutex. `admitted` and `opened` are history.

**Scheduler.** `pos` is the loop index of `refreshAll`, `tick` the one-place channel of
`time.Ticker`, which drops ticks when it is full. A refresh returns well or with an
error. `rounds`, `began` (the ticks that had fired when a round began) and `calls` are history. It has no run of its own: `Server` supplies the
context that ends it and the fairness it runs under.

**Server.** `main` follows the function from `OpenPostgresStore` to its return;
`listener` is the goroutine of `ListenAndServe`; `expired` is `shutdownCtx`; `aborted`
says that `server.Close` was called. `net/http` is external: `Shutdown` first closes
the listener, then waits until no request is active or its context ends. Failures
before the goroutines start call `os.Exit(1)`, which runs no deferred call.

**RateStore.** `pc[c]` is the statement a call is at, `conn` the calls that hold a
connection of the pool. `staged[s]` are the rows of an open transaction and `table` the
committed ones. `AwaitDone` is the goroutine of `database/sql` that rolls a transaction back
when its context ends, between any two statements. `Commit` is the server's commit and
`Committed` or `CommitUnknown` what `tx.Commit` reports of it. A history call is one
`SELECT`, which sees the rows committed at that moment; `Scan` reads them one by one.
`Crash` ends the process between any two statements: calls are gone, the server discards open
transactions, and a commit that was under way may or may not have happened; the process opens
the store again. The mapping to `RateLog` sends a save to the log when all its rows are committed.

**HttpApi.** `pc[r]` follows a request through the limiter, the mux, the parameters and the
calls to `observe`, where `requestMetrics` counts it after the handler has returned. An
error is the set of sentinels it matches with `errors.Is`, and `StatusOf` is the switch
over them. A bank or a row of the table with a currency that is none makes such an error too, after the call. Parameters are valid or not; dates are kept, because the end of a range is
computed from them. `/health` stands for all routes that call nothing. `RateLimiter`,
`Aggregator` and `RateStore` say what the calls answer; here they answer anything
those allow. The bodies of `/rates` and `/convert` are `BankClients`'.

**Config.** `env` is the environment, `next` the variable `Load` is at in `Order`, `cfg` what it has
read. Texts are data: a value is blank, a text, a list, or a number with a unit or without one.
`FromSeconds` is `time.Duration(seconds) * time.Second` in words that wrap, as an `int64` does.
`Setup` is what `main` does with the values before it serves: `NewClients`, whose result is a sequence
of bank names, and the two checks of `NewScheduler`. `Unique` is the loop of the two list functions and `Named`
what it can find in a list.

**BankClients.** `request` is what the user asked for and `currency` what `FetchRates` is asked for now. A
conversion between two foreign currencies makes two calls one after the other: `SecondCall` is `handlers.go:204`,
which keeps the first call's best buying price in `bought` and starts a new fan-out. `got[i]` is what client `i` got
from its site in this call, `arrived` the order of the results channel, `waited` the time since the header of
the request was read and `began` its value when the call began. Only sites take time, at
most the timeout of the `http.Client`. A reply is good or not (status, syntax, result code, date) and
has rows; `CBRQuote` and `JSONQuote` are the checks of the numbers. A `float64` is `NaN`, `Inf` or a
number of units, compared as floating point numbers are; results below a unit are cut off and those above `MaxFloat`
are `Inf`. `Times` and `Over` are the product and the quotient, and `Conversion` the rates of the steps, the amount
and the rate of the whole (`handlers.go:178`, `191`, `208`, `215`). `Collected` is the collector's loop over
the answers and `Best` the selection's over the quotes. `Respond` selects, encodes and writes at once: an encoding
error leaves status 200 without a body, and a write after the deadline is lost. `spoiled` is history: a site sent
the first call no number.

**Metrics.** A critical section is an action: an observation, or `Snapshot`. `WritePrometheus` then
writes section by section and stops at the first error. Its specification is `MetricsSpec`. A series or counter without an entry is zero. `log`
is the history of observations, against which a page is compared.

## 3. Runs

| run | instance | properties |
|---|---|---|
| `cache` | 2 callers, 2 keys, 2 results, TTL 2, time to 4 | `TypeOK`, `EvictsOnlyExpired`, `ImplementsRateCache` |
| `aggregator` | 2 handlers and the scheduler, 1 bank, 1 currency, store, TTL 1, time to 2 | `TypeOK`, `ServedIsPersisted`, `CountersReconcile`, `RegressOnlyByOverlap` |
| `aggregator_banks` | a handler and the scheduler, 2 banks, fairness, time stands | `NothingUsableIsLost`, `NoOrphanWorkers`, `CollectingEnds`, `CanceledReturns` |
| `limiter` | 2 calls, 2 addresses, limit 2, window 3, waits up to 1, time to 4 | `TypeOK`, `AdmissionsFitWindows`, `OverlapIsWait`, `DenialJustified`, `DropsOnlyClosed` |
| `server` | 2 requests, 4 entries for 3 currencies, 3 ticks | `TypeOK`, `CleanShutdown`, `RoundIsComplete`, `RoundsArePaced`, `Terminates`, `GracefulShutdown` |
| `store` | 2 saves of up to 2 rows, a history call, 2 currencies, 2 times, limits 0 and 9 with default 2 and maximum 3 | `TypeOK`, `NoConnectionLeak`, `HistoryIsWhole` |
| `store_log` | the same with 1 currency and 1 time, and a crash | `AllOrNothing`, `ImplementsRateLog` |
| `service` | each duration blank, a text, zero, negative, in range and wrapping; integers and lists; up to 4 banks; rates, and conversions of one and of two calls | `TypeOK`, `DurationsAsWritten`, `EveryNamedBankOnce`, `BestIsBest`, `BodyUnlessNotANumber`, `LongWriteTimeoutIsEnough` |
| `service_slow` | the same | `HangingSourceBlocksNothing` is violated (section 6) |
| `metrics` | 2 scrapes, 2 series, 2 buckets, 2 durations, 3 observations | `MetricsTypeOK`, `PagesAreOneInstant` |
| `http` | 2 requests, every route, method and kind of parameter, days of 2 instants | `TypeOK`, `EveryRequestIsCounted`, `AnswersAreEarned`, `WholeDays` |
| `http_no_rates` | 1 request | `NoRatesIs503` is violated (section 6) |

What they show: `NothingUsableIsLost`, a partial failure of the banks costs only the
failed quotes; `NoOrphanWorkers`, no goroutine outlives its call; `ServedIsPersisted`,
what the cache holds and serves was saved by a request that succeeded;
`RegressOnlyByOverlap`, an older result replaces a newer one only when their requests
overlapped; `CountersReconcile`, `/metrics` agrees with what happened; `EvictsOnlyExpired`,
an eviction never takes a live entry; `AdmissionsFitWindows`, `OverlapIsWait` and `DenialJustified`, a client
gets no more than the limit for each window, whose overlap is at most a call's wait, and no less;
`DropsOnlyClosed`, serving one client never renews another's window; `RoundIsComplete` and
`RoundsArePaced`, a round asks for everything, and between the beginnings of two rounds the interval ends
at least once, so ticks missed in a slow round are not caught up in a burst; `CleanShutdown`,
`Terminates` and `GracefulShutdown`, nothing in flight meets a closed store within the timeout, the
process ends in any case, and without the timeout when requests and refreshes return; `AllOrNothing`, `HistoryIsWhole` and `NoConnectionLeak`, the store
never keeps part of a result, never returns part of an answer as the whole and
gives every connection back; `ImplementsRateLog`, callers may think of
a save as one step, crashes included; `EveryRequestIsCounted`, `AnswersAreEarned` and `WholeDays`,
refused requests are counted, what is refused or malformed costs no call and nothing else is answered with 400 unless
a bank or the store returned a currency that is none, a conversion has no gap, and dates stand for whole days;
`DurationsAsWritten` and `EveryNamedBankOnce`, a process that serves does what its
environment says; `BestIsBest`, `BodyUnlessNotANumber` and `LongWriteTimeoutIsEnough`, the best quotes win in any
order, an empty 200 needs a bank that sent no number to one of the calls or a conversion that by exact arithmetic is
beyond `float64`, and a write timeout above the clients' timeouts in all the calls of a request is enough for an
answer in time, with a body but for these two cases;
`PagesAreOneInstant`, `/metrics` never mixes two moments.

**Bounds.** Bounds are in the guards of `Tick` (`MaxTime`, `MaxStall`), `Fire` (`MaxTicks`), `Crash`
(`MaxCrashes`) and the observations (`MaxLog`). Time has to pass an expiry and go on, so `MaxTime` exceeds the TTL or
the window. A window of 3 and a wait of 1 tell a window that ends early from one that overlaps by the wait.
Overwriting a newer result needs two requests in flight and a third
that can see the outcome; partial failure needs two banks; a wrong sweep of the
limiter needs two addresses; a pile of ticks needs more ticks than the channel holds; that a currency is
asked once although it is named twice needs a repeated entry. One crash meets both savers and the reader at every pair of
statements. In `service` a duration has 5 bits and a second is 4, so 4 seconds wrap to something negative, 8 to
zero and 9 to something positive; the write timeout by default equals that of the clients, as in the code
(10 s both), 3 is enough for one call, 5 and two seconds are enough for two, and 3 is not. The number 1 is 6 units and
the largest is 30, so both a large amount and a large price make a product overflow, and a price of one unit
makes a quotient do so. Three observations are enough to separate two sections and two scrapes.
A disabled cache (`TTL <= 0`) and a service without a database (`HasStore = FALSE`) are covered by the proofs, which hold for every integer TTL.
A request asks once, so runs end in states without a successor and the deadlock
check is off where that is so; it is on for the cache, the limiter and the metrics, where calls
repeat.

**Fairness.** Go schedules every goroutine that can run, so the program's own steps
are weakly fair. Bank clients carry an `http.Client` timeout, so they answer. Nothing
bounds a call to the database but its context: a save is only fair once the request
is canceled, and a scheduler's refresh only once the scheduler is. That these end then (`CanceledReturns`, `SchedulerFairness`)
is an assumption on the driver and the server, which the code does not guarantee: `lib/pq` sends a cancel request over
a second connection and goes on reading the first, and `tx.Commit` and `tx.Rollback` take no context. `RateStore`
has no fairness and claims nothing about it. In `Server`
only `main` is fair; that time passes (`TimePasses`), that requests end (`RequestsEnd`) and that the
scheduler's goroutine runs and its canceled refreshes return (`SchedulerFairness`) are stated in the
properties that need them, so `Terminates` holds although requests hang and the scheduler never moves.
Handlers, signals, ticks, crashes and cancellations are never fair.

## 4. Proofs

Every invariant, every action property and both refinements of the runs that pass are proved, for every
value of the constants under the modules' named assumptions. These say that model values such as
`None` are not data (`AggregatorAssumption`, `NoneAssumption`, `TTLAssumption`), that bounds, limits and durations are
numbers, and in `ConfigAssumption` and `ServiceAssumption` what the environment and the sites can be: half of the words
are negative, what a parser lets through fits into a word, a default is a duration of the code, and a reply has rows of
numbers or texts. TLC evaluates all of them on each instance. One theorem has a hypothesis of its own, `MaxStall < Window`.

* **TTLCacheProofs.** `IInv` adds to the type that the time a `Get` read is not ahead of the
  clock and that a disabled cache is empty. `EvictionIsSafe` follows because an entry expired at an
  earlier time is expired now. `Refinement` shows each action to be an action of
  `RateCache` or a stutter, so what is proved of `Aggregator` with `RateCache` holds with the locked map.
* **AggregatorProofs.** `IInv` relates the stage of each request to its workers, answers,
  times and outcome (`RequestOK`), and each cache entry to its request (`EntriesOK`,
  `ServedIsPersisted`). The properties are not inductive alone: that a result holds all
  usable quotes needs that all workers are `taken` from `assemble` on, and that a
  served result was saved needs `saved` at `publish`. From it follow `TypeCorrect`,
  `PartialFailure`, `WorkersEnd`, `ServedCorrect` and `Monotonic`. For `CountersAgree` a counter has to be the size of
  a set that one step makes larger by at most one element; `Tallies` adds that these sets are finite, since the
  theorem allows any set of requests.
* **RateStoreProofs.** `IInv` says where a call holds a connection (`Pooled`), what the table holds of a save at each
  statement (`Stored`), that no two rows, committed or not, share an id (`Rows`), and that what a reader has read and has
  still to read is together the page of the rows it saw (`Reading`). `RankNumbersRows` and `PageByRank` show that
  `ORDER BY` and `LIMIT` give the first rows of a strict order, so that `HistoriesAreWhole` is a fact about `Page`. For
  `TransactionsImplementLog` a save is in the log as soon as the table shows all its rows; each of the steps, the crash
  and the lost answer of a commit included, is then a `Save`, a `Read` or a stutter of `RateLog`.
* **ServerProofs.** `TickIsNew` says that a tick still in the channel fired after the current round began; it survives the
  round because the channel holds one tick, and gives `RoundsWaitForTicks`. `Rounds` says which currencies a round has
  asked for by the index of its loop. It needs that
  `Unique` lists every configured currency once, which `UniqueListsAll` shows turn by turn. `Stopping` relates where `main`
  is to the listener, the requests, the connections and the store; `ShutdownIsClean` needs it because what `Shutdown`
  waited for must still be true when the store closes two steps later.
* **HttpApiProofs.** `Along` is what is known of a request at each stage. `OnTheWay` says that the legs left and the steps
  done of a conversion make one path, from which `ConversionsAreEarned` follows, and `Totals` that each counter is the size of a finite
  set of finished requests. `DaysAreWhole` is arithmetic on the range that `Along` records, for a day of any length.
* **MiddlewareProofs, the limiter.** `IInv` adds that a waiting call's time lies between `clock - MaxStall` and
  `clock`. `LastWindow`: every window that was opened is over or is the one in the map, hence `WindowsAreFixed`. `WindowsCount`:
  what a window counts was admitted since it began, hence `DenialsAreJustified`. `SpareFits` counts what the current window may
  still admit along with what a stretch has admitted, which makes the bound of `AdmissionsFit` inductive. This theorem
  assumes `MaxStall < Window`: a call that waits as long as a window lasts can reopen a window with the start time of one
  that was dropped, and start times no longer tell how many windows a stretch has touched. TLC shows it with
  `Window`, `MaxStall` 3 and `Limit` 1, so the hypothesis cannot go without another way to tell windows apart.
* **MiddlewareProofs, the metrics.** `MetricsInv` says that the map and the counters are what the history of observations
  makes of them, and that each page, with the copy it is written from, shows the history up to one point of its scrape.
  `HistogramGrows` gives what one observation adds to a count, a sum and each bucket. `MetricsTypeCorrect` and `PagesAreWhole` follow.
* **ServiceProofs.** `ConfigInv` says that what `Load` has passed is the value of what was written and no error
  (`ReadAsWritten`), and that a process that runs has passed everything and the checks of `NewScheduler`. With
  `WrapKeeps`, a product that a duration can hold is not changed by the wrap, `DurationsAreAsWritten` follows for every
  width of an integer; with `UniqueNames` and `ConcatOnce`, no two banks of the concatenated list are equal, hence
  `NamedBanksAreAskedOnce`. `ServiceInv` adds what each client may have got, that a response is the `Answer` to what
  arrived, and by `InCall` in which of its calls a request is and how much time that leaves (`LongWriteTimeoutsHelp`).
  `BestOfQuotes` shows of the selection's loop that its result is a quote no other one beats; it needs that
  a quote has a buying price that is not a number exactly when its selling price is none (`ClientRates`), which is what the
  clients return. `SelectionIsBest` follows. For `BodiesAreWritten`, `PricesAreEarned` says that without a site that sent no number all
  prices are numbers, and `TimesIsExact`, `OverIsExact` and `ConversionFits` that cutting off makes a result only smaller: what
  exact arithmetic keeps below `MaxFloat` does not overflow on the way.

The folds of the models (`FoldLeft`, `SumFunction`, `FlattenSeq`) are recursive functions over sets, and induction over a
formula is out of the prover's reach. `FoldLemmas` gets round it with induction over a set: `NumberInduction` and `SetInduction`
take the set of those numbers or subsets for which the formula holds. `LoopExists` gives what a fold over a sequence computes one turn
at a time, `SumAdds` the sum of a set with one more element.

Only model-checked are the liveness properties, which need fairness and `ENABLED`: `CollectingEnds`, `CanceledReturns`,
`Terminates` and `GracefulShutdown`; and the two violations, which are counterexamples.

## 5. Not modelled

What strings contain: spaces, letters, digits, XML, JSON, character sets, URLs and addresses are
abstracted to blank, valid, invalid or which item they name, and `NormalizeCurrency` to a function of
the items. Rows and dates of replies that decide nothing. Rounding of a `float64` other than towards zero. Whether
the driver returns from a server that hangs. Logging, including the middleware for it. PostgreSQL, `database/sql`, `net/http` and the ticker are
external and modelled from how the code uses them. The clock of the models never goes back; the cache
uses wall time without a monotonic reading (`ttl_cache.go:25`). Migrations run before
the server starts. Generated mocks and the OpenAPI file have no behaviour.

## 6. Disagreements found

`http_no_rates`. `service/aggregator.go:173` joins `ErrNoRatesAvailable` with the errors of the
clients. The timeout of an `http.Client` matches `context.DeadlineExceeded`, which the handlers test
first (`handlers.go:118`, `340`). When every source failed and one of them timed out, the answer is
504, which `openapi.yaml:432` explains as "Request exceeded its context deadline.", a deadline the
context does not have; the documented answer is 503, "No source returned a usable rate."

`service_slow`. `README.md:37` promises that the failure of one source does not block the result if
another one returned a correct rate. The collector waits for every client, a hanging site makes its
client wait for its 10 s, and the connection's write deadline, 10 s by default (`config.go:17`) and
started before, is over when the handler writes: the user gets nothing. `LongWriteTimeoutIsEnough` shows what
helps: a `WRITE_TIMEOUT` above the clients' timeouts in all the calls of a request, so above 20 s for a conversion
between two foreign currencies, as long as its number of seconds does not wrap.

Seen while modelling, without a run:

* `ratelimit/limiter.go:8` calls the window "the fixed counting window". `Allow` reads `now` at line 35
  before the mutex. A call that read the time inside a window may take the mutex after another call, with a later
  time, has dropped that window as closed; it opens a window with the old time, which overlaps the first.
  `OverlapIsWait` bounds the overlap by the wait.
* `/rates` and `/convert` answer 500 when the save fails (`handlers.go:125`, `347`), a status the contract
  does not list for them.
* A price written `NaN` or `Inf` by the Bank of Russia, or a conversion whose amount and prices are beyond `float64`, gives
  status 200 with an empty body: `parsed <= 0` is false of `NaN` (`cbr_client.go:166`), amounts and prices have no upper bound
  (`handlers.go:191`, `208`, `215`, `178`), and the encoder's error is ignored (`handlers.go:424`).
* `README.md:98` says that incorrect sources are excluded from the result. A quote of `NaN` takes part in the selection, where
  it is the best price when it arrives first. `BestIsBest` sets such quotes aside; among equal quotes the first to arrive wins.
* A bank or a row of the database with a currency that is none makes the handlers answer 400 to a well-formed
  request, after the call (`aggregator.go:155`, `211`; `handlers.go:120`, `248`).
* A number of seconds that wraps to another duration is accepted (`config.go:161`); the only wrapped value that is
  rejected is an interval that `NewScheduler` finds not positive.

## 7. Plan

Done, in the order of their importance: cache and its refinement, aggregator, limiter,
scheduler inside the lifecycle, store with crashes and its refinement, HTTP API, configuration, clients and
their composition, metrics, and proofs of all their safety properties. Next:

1. `AdmissionsFit` without its hypothesis, with windows told apart by more than their start time.
2. Stronger properties where a theorem now carries them: what a denied call has cost the window it met, and
   what a scheduler's refresh publishes for a request that waits.
3. `RateService`: the abstract promise of the aggregator, refined by `Aggregator`.
