------------------------------ MODULE Aggregator ------------------------------
(***************************************************************************)
(* internal/service/aggregator.go: FetchRates and RefreshRates of one      *)
(* Aggregator, run by any number of goroutines at once.  A request that    *)
(* is not answered by the cache asks every bank client in a goroutine of   *)
(* its own, collects the answers from a channel, saves the usable ones to  *)
(* the store and then puts the result in the cache.                        *)
(*                                                                         *)
(* A request runs once, so the RateResult it computes is named by it:      *)
(* sources[r] and updatedAt[r] are its fields.  BestBuy and BestSell are   *)
(* functions of the sources and the prices play no part here.  The channel *)
(* has room for every client and is drained by one collector, so it is the *)
(* set of the clients whose worker is "sent".  Currency codes are already  *)
(* normalised: every caller in src/ does it (handlers.go, scheduler.go).   *)
(***************************************************************************)
EXTENDS Integers, FiniteSets

CONSTANTS
    Fetchers,    \* calls of FetchRates, by HTTP handlers
    Refreshers,  \* calls of RefreshRates, by the scheduler
    Clients,     \* a.clients
    Currencies,
    HasStore,    \* a.store != nil: DATABASE_URL is set
    TTL, MaxTime, None, Miss

Requests == Fetchers \cup Refreshers

\* A usable rate, a rate of another currency, any error of FetchRate.
Answers == {"rate", "foreign", "error"}
Outcomes == {"ok", "canceled", "noRates", "saveFailed"}

ASSUME AggregatorAssumption ==
    /\ Fetchers \cap Refreshers = {}
    /\ HasStore \in BOOLEAN
    /\ TTL \in Int
    /\ MaxTime \in Nat
    /\ None \notin Requests \cup {Miss} \cup Nat \cup Answers \cup Outcomes
    /\ Miss \notin Requests
    /\ None \notin [value : Requests, expiresAt : Int]
    /\ None \notin [currency : Currencies, at : Nat]

VARIABLES
    clock, entries, asked, reply,  \* the cache, see RateCache
    pc,          \* [Requests -> where the call is]
    currency,    \* [Requests -> its argument]
    canceled,    \* [Requests -> ctx is done]
    begunAt,     \* [Requests -> when it was called] (history)
    worker,      \* [Requests -> [Clients -> the errgroup goroutine]]
    answer,      \* [Requests -> [Clients -> what the client returned]]
    sources,     \* [Requests -> the clients whose rate was accepted]
    updatedAt,   \* [Requests -> UpdatedAt of its result]
    saved,       \* the requests whose sources are committed to the store
    outcome,     \* [Requests -> what the call returned]
    hits, misses,  \* [Currencies -> Nat], rate_cache_{hits,misses}_total
    bankErrors   \* [Clients -> Nat], bank_request_errors_total

cacheVars == <<clock, entries, asked, reply>>
fanVars == <<worker, answer, sources>>
metricVars == <<hits, misses, bankErrors>>
vars == <<cacheVars, pc, currency, canceled, begunAt, fanVars, updatedAt, saved,
          outcome, metricVars>>

Cache == INSTANCE RateCache WITH Callers <- Fetchers, Results <- Requests

Stages == {"idle", "lookup", "collect", "drain", "assemble", "save", "publish", "done"}
WorkerStates == {"none", "calling", "sent", "taken", "quit"}

Init ==
    /\ Cache!Init
    /\ pc = [r \in Requests |-> "idle"]
    /\ currency = [r \in Requests |-> None]
    /\ canceled = [r \in Requests |-> FALSE]
    /\ begunAt = [r \in Requests |-> None]
    /\ worker = [r \in Requests |-> [c \in Clients |-> "none"]]
    /\ answer = [r \in Requests |-> [c \in Clients |-> None]]
    /\ sources = [r \in Requests |-> {}]
    /\ updatedAt = [r \in Requests |-> None]
    /\ saved = {}
    /\ outcome = [r \in Requests |-> None]
    /\ hits = [k \in Currencies |-> 0]
    /\ misses = [k \in Currencies |-> 0]
    /\ bankErrors = [c \in Clients |-> 0]

Goto(r, stage) == pc' = [pc EXCEPT ![r] = stage] /\ UNCHANGED outcome

Return(r, result) ==
    /\ pc' = [pc EXCEPT ![r] = "done"]
    /\ outcome' = [outcome EXCEPT ![r] = result]

------------------------------------------------------------------------------
(* FetchRates and RefreshRates up to the fan-out.                          *)

Called(r, k) ==
    /\ pc[r] = "idle"
    /\ currency' = [currency EXCEPT ![r] = k]
    /\ begunAt' = [begunAt EXCEPT ![r] = clock]

\* One goroutine per client, or ErrNoRatesAvailable without any.
FanOut(r) ==
    /\ worker' = [worker EXCEPT ![r] = [c \in Clients |-> "calling"]]
    /\ IF Clients = {} THEN Return(r, "noRates") ELSE Goto(r, "collect")
    /\ UNCHANGED <<answer, sources>>

\* ctx.Err() on entry
CallCanceled(r, k) ==
    /\ Called(r, k)
    /\ canceled[r]
    /\ Return(r, "canceled")
    /\ UNCHANGED <<cacheVars, canceled, fanVars, updatedAt, saved, metricVars>>

FetchRates(r, k) ==
    /\ r \in Fetchers
    /\ Called(r, k)
    /\ ~canceled[r]
    /\ Cache!Ask(r, k)
    /\ Goto(r, "lookup")
    /\ UNCHANGED <<canceled, fanVars, updatedAt, saved, metricVars>>

RefreshRates(r, k) ==
    /\ r \in Refreshers
    /\ Called(r, k)
    /\ ~canceled[r]
    /\ FanOut(r)
    /\ UNCHANGED <<cacheVars, canceled, updatedAt, saved, metricVars>>

CacheHit(r) ==
    /\ pc[r] = "lookup"
    /\ Cache!AnswerHit(r)
    /\ hits' = [hits EXCEPT ![currency[r]] = @ + 1]
    /\ Return(r, "ok")
    /\ UNCHANGED <<currency, canceled, begunAt, fanVars, updatedAt, saved, misses, bankErrors>>

CacheMiss(r) ==
    /\ pc[r] = "lookup"
    /\ Cache!AnswerMiss(r)
    /\ misses' = [misses EXCEPT ![currency[r]] = @ + 1]
    /\ FanOut(r)
    /\ UNCHANGED <<currency, canceled, begunAt, updatedAt, saved, hits, bankErrors>>

------------------------------------------------------------------------------
(* fetchFreshRates: the workers.                                           *)

\* client.FetchRate returns and its result goes into the channel, which
\* always has room.
ClientAnswers(r, c) ==
    /\ worker[r][c] = "calling"
    /\ \E a \in Answers : answer' = [answer EXCEPT ![r][c] = a]
    /\ worker' = [worker EXCEPT ![r][c] = "sent"]
    /\ UNCHANGED <<cacheVars, pc, currency, canceled, begunAt, sources, updatedAt, saved,
                   outcome, metricVars>>

\* The worker's select took ctx.Done() instead of the send.
ClientDropped(r, c) ==
    /\ worker[r][c] = "calling"
    /\ canceled[r]
    /\ worker' = [worker EXCEPT ![r][c] = "quit"]
    /\ UNCHANGED <<cacheVars, pc, currency, canceled, begunAt, answer, sources, updatedAt,
                   saved, outcome, metricVars>>

------------------------------------------------------------------------------
(* fetchFreshRates: the collector.                                         *)

\* Mutants: the loop ends at the first usable rate; it receives once more
\* than there are clients; a rate of another currency is not counted as a
\* bank error.
FirstRateEnds(r, c) == answer[r][c] = "rate" \/ \A d \in Clients : worker'[r][d] = "taken"
OneReceiveTooMany(r, c) == FALSE
CountsErrorsOnly(a) == a = "error"

\* for range a.clients: one receive per client
LastReceive(r, c) == \A d \in Clients : worker'[r][d] = "taken"

\* recordBankRequestError: the client failed or normalizeFetchedRate did
IsBankError(a) == a # "rate"

Receive(r, c) ==
    /\ pc[r] = "collect"
    /\ worker[r][c] = "sent"
    /\ worker' = [worker EXCEPT ![r][c] = "taken"]
    /\ sources' = IF answer[r][c] = "rate"
                  THEN [sources EXCEPT ![r] = @ \cup {c}] ELSE sources
    /\ bankErrors' = IF IsBankError(answer[r][c])
                     THEN [bankErrors EXCEPT ![c] = @ + 1] ELSE bankErrors
    /\ Goto(r, IF LastReceive(r, c) THEN "assemble" ELSE "collect")
    /\ UNCHANGED <<cacheVars, currency, canceled, begunAt, answer, updatedAt, saved, hits, misses>>

\* The collector's select took ctx.Done(); it still waits for the workers.
CollectCanceled(r) ==
    /\ pc[r] = "collect"
    /\ canceled[r]
    /\ Goto(r, "drain")
    /\ UNCHANGED <<cacheVars, currency, canceled, begunAt, fanVars, updatedAt, saved, metricVars>>

\* Mutant of WorkersExited: the caller does not wait for the errgroup.
WaitsForNobody(r) == TRUE

\* workers.Wait()
WorkersExited(r) == \A c \in Clients : worker[r][c] # "calling"

Drained(r) ==
    /\ pc[r] = "drain"
    /\ WorkersExited(r)
    /\ Return(r, "canceled")
    /\ UNCHANGED <<cacheVars, currency, canceled, begunAt, fanVars, updatedAt, saved, metricVars>>

\* All answers are in: the errors of the errgroup and of ctx come first.
AssembleCanceled(r) ==
    /\ pc[r] = "assemble"
    /\ WorkersExited(r)
    /\ canceled[r] \/ \E c \in Clients : worker[r][c] = "quit"
    /\ Return(r, "canceled")
    /\ UNCHANGED <<cacheVars, currency, canceled, begunAt, fanVars, updatedAt, saved, metricVars>>

AssembleNothing(r) ==
    /\ pc[r] = "assemble"
    /\ WorkersExited(r)
    /\ ~canceled[r]
    /\ sources[r] = {}
    /\ Return(r, "noRates")
    /\ UNCHANGED <<cacheVars, currency, canceled, begunAt, fanVars, updatedAt, saved, metricVars>>

\* Mutants of ResultTime: the time of day without the date, a day being two
\* ticks, and a time rounded down below the epoch of the clock.
TimeOfDay == clock % 2
RoundedDownTime == clock - 1

\* UpdatedAt: a.now()
ResultTime == clock

Assemble(r) ==
    /\ pc[r] = "assemble"
    /\ WorkersExited(r)
    /\ ~canceled[r] /\ \A c \in Clients : worker[r][c] # "quit"
    /\ sources[r] # {}
    /\ updatedAt' = [updatedAt EXCEPT ![r] = ResultTime]
    /\ Goto(r, "save")
    /\ UNCHANGED <<cacheVars, currency, canceled, begunAt, fanVars, saved, metricVars>>

------------------------------------------------------------------------------
(* fetchFreshRates: saving, then publishing.                               *)

\* Without a store there is nothing to save.
Save(r) ==
    /\ pc[r] = "save"
    /\ saved' = IF HasStore THEN saved \cup {r} ELSE saved
    /\ Goto(r, "publish")
    /\ UNCHANGED <<cacheVars, currency, canceled, begunAt, fanVars, updatedAt, metricVars>>

\* Mutants of SaveFails: the error is logged and the result published all
\* the same; the store is called with context.Background().
SaveFailureIgnored(r) ==
    /\ pc[r] = "save"
    /\ HasStore
    /\ Goto(r, "publish")
    /\ UNCHANGED <<cacheVars, currency, canceled, begunAt, fanVars, updatedAt, saved, metricVars>>
SaveOutlivesContext(r) ==
    /\ pc[r] = "save"
    /\ HasStore
    /\ ~canceled[r]
    /\ Return(r, "saveFailed")
    /\ UNCHANGED <<cacheVars, currency, canceled, begunAt, fanVars, updatedAt, saved, metricVars>>

\* SaveRates is all or nothing, but an error does not tell which: the
\* connection may break after the server committed.
SaveFails(r) ==
    /\ pc[r] = "save"
    /\ HasStore
    /\ saved' \in {saved, saved \cup {r}}
    /\ Return(r, "saveFailed")
    /\ UNCHANGED <<cacheVars, currency, canceled, begunAt, fanVars, updatedAt, metricVars>>

Publish(r) ==
    /\ pc[r] = "publish"
    /\ Cache!Put(currency[r], r)
    /\ Return(r, "ok")
    /\ UNCHANGED <<currency, canceled, begunAt, fanVars, updatedAt, saved, metricVars>>

------------------------------------------------------------------------------
(* The environment.                                                        *)

\* The HTTP client goes away, or the process is told to stop.
Cancel(r) ==
    /\ pc[r] # "done"
    /\ ~canceled[r]
    /\ canceled' = [canceled EXCEPT ![r] = TRUE]
    /\ UNCHANGED <<cacheVars, pc, currency, begunAt, fanVars, updatedAt, saved, outcome,
                   metricVars>>

CacheSteps ==
    /\ Cache!Tick \/ \E k \in Currencies : Cache!Forget(k)
    /\ UNCHANGED <<pc, currency, canceled, begunAt, fanVars, updatedAt, saved, outcome,
                   metricVars>>

Begin(r) == \E k \in Currencies : CallCanceled(r, k) \/ FetchRates(r, k) \/ RefreshRates(r, k)
Lookup(r) == CacheHit(r) \/ CacheMiss(r)
Worker(r, c) == ClientAnswers(r, c) \/ ClientDropped(r, c)
Collect(r) ==
    \/ \E c \in Clients : Receive(r, c)
    \/ CollectCanceled(r)
    \/ Drained(r)
    \/ AssembleCanceled(r)
    \/ AssembleNothing(r)
    \/ Assemble(r)
Finish(r) == Save(r) \/ SaveFails(r) \/ Publish(r)

Next ==
    \/ \E r \in Requests : Begin(r) \/ Collect(r) \/ Finish(r) \/ Cancel(r)
    \/ \E r \in Fetchers : Lookup(r)
    \/ \E r \in Requests, c \in Clients : Worker(r, c)
    \/ CacheSteps

Spec == Init /\ [][Next]_vars

\* The program's own steps are taken; a bank client answers within the
\* timeout of its http.Client.  Nothing bounds a call to the database except
\* its ctx, so a save is only promised to end once that is done.
Fairness ==
    /\ \A r \in Requests :
           /\ WF_vars(Collect(r))
           /\ WF_vars((~HasStore /\ Save(r)) \/ Publish(r))
           /\ WF_vars(canceled[r] /\ SaveFails(r))
    /\ \A r \in Fetchers : WF_vars(Lookup(r))
    /\ \A r \in Requests, c \in Clients : WF_vars(Worker(r, c))

FairSpec == Spec /\ Fairness

------------------------------------------------------------------------------
(* Properties.                                                             *)

TypeOK ==
    /\ Cache!TypeOK
    /\ pc \in [Requests -> Stages]
    /\ currency \in [Requests -> Currencies \cup {None}]
    /\ canceled \in [Requests -> BOOLEAN]
    /\ begunAt \in [Requests -> Nat \cup {None}]
    /\ worker \in [Requests -> [Clients -> WorkerStates]]
    /\ answer \in [Requests -> [Clients -> Answers \cup {None}]]
    /\ sources \in [Requests -> SUBSET Clients]
    /\ updatedAt \in [Requests -> Nat \cup {None}]
    /\ saved \in SUBSET Requests
    /\ outcome \in [Requests -> Outcomes \cup {None}]
    /\ hits \in [Currencies -> Nat]
    /\ misses \in [Currencies -> Nat]
    /\ bankErrors \in [Clients -> Nat]

\* A partial failure of the banks costs nothing but the failed quotes: a
\* result is built from every usable quote and only from those, and "no
\* rates" is returned only when each client answered without one.
NothingUsableIsLost ==
    \A r \in Requests :
        /\ updatedAt[r] # None => /\ sources[r] # {}
                                  /\ sources[r] = {c \in Clients : answer[r][c] = "rate"}
                                  /\ \A c \in Clients : answer[r][c] # None
        /\ outcome[r] = "noRates" => \A c \in Clients : answer[r][c] \in Answers \ {"rate"}

\* No goroutine of the fan-out outlives the call that started it, also when
\* the call is canceled half way.
NoOrphanWorkers ==
    \A r \in Requests : pc[r] = "done" => \A c \in Clients : worker[r][c] # "calling"

\* r is a finished request for k whose result may be shown: it succeeded on
\* its own, and its quotes are in the store when there is one.
Servable(r, k) ==
    /\ outcome[r] = "ok" /\ updatedAt[r] # None /\ currency[r] = k
    /\ HasStore => r \in saved

\* What the cache holds and what it has served is the persisted result of a
\* successful request for that same currency; a canceled or failed request
\* never shows up there, however its failure interleaved with the others.
ServedIsPersisted ==
    /\ \A k \in Currencies : entries[k] # None => Servable(entries[k].value, k)
    /\ \A r \in Fetchers : reply[r] \in Requests => Servable(reply[r], currency[r])

\* A slow request may overwrite a newer result in the cache, but only one
\* that was published while it was itself running: a request that starts
\* after a result was published never brings back an older one.
RegressOnlyByOverlap ==
    [][\A k \in Currencies :
           entries[k] # None /\ entries'[k] # None /\ entries'[k] # entries[k] =>
               \/ updatedAt[entries'[k].value] >= updatedAt[entries[k].value]
               \/ begunAt[entries'[k].value] <= entries[k].expiresAt - TTL]_vars

\* The counters on /metrics agree with what happened: every lookup is a hit
\* or a miss, and every answer that was received and not used is an error of
\* its bank.
CountersReconcile ==
    /\ \A k \in Currencies :
           LET asking == {r \in Fetchers : currency[r] = k}
           IN  /\ hits[k] = Cardinality({r \in asking : reply[r] \in Requests})
               /\ misses[k] = Cardinality({r \in asking : reply[r] = Miss})
    /\ \A c \in Clients :
           bankErrors[c] = Cardinality({r \in Requests :
                               worker[r][c] = "taken" /\ c \notin sources[r]})

\* The banks cannot hold a request for ever: one that is collecting answers
\* gets to the store or returns.
CollectingEnds ==
    \A r \in Requests : pc[r] = "collect" ~> pc[r] \in {"save", "publish", "done"}

\* A canceled request returns, wherever the cancellation finds it, even if
\* the database never answers.
CanceledReturns ==
    \A r \in Requests : canceled[r] /\ pc[r] # "idle" ~> pc[r] = "done"
==============================================================================
