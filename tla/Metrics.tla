-------------------------------- MODULE Metrics --------------------------------
(***************************************************************************)
(* internal/metrics/http.go: the counters and the histogram of request     *)
(* durations under one mutex, and /metrics, which copies them under the    *)
(* mutex and then writes the copy while observations go on.  A critical    *)
(* section is one action.  Of a page the numbers are modelled, section by  *)
(* section, and that the connection may break before any of them.          *)
(***************************************************************************)
EXTENDS Integers, SequencesExt

CONSTANTS
    Scrapes,    \* requests of /metrics
    Labels,     \* method, path and status of a request
    Names,      \* currencies and banks
    Buckets,    \* upper bounds of the histogram
    Seconds,    \* durations of requests
    MaxLog      \* bound on the observations, for model checking

ASSUME MetricsAssumption ==
    /\ Buckets \subseteq Int
    /\ Seconds \subseteq Nat
    /\ MaxLog \in Nat

\* Hits and misses of the cache by currency, errors by bank.
Counters == {"cacheHits", "cacheMisses", "bankRequestErrors"}

VARIABLES
    series,    \* [Labels -> count, sum and buckets]; zero when the map has no entry
    counters,  \* [Counters -> [Names -> Nat]]
    pc,        \* [Scrapes -> the section that is written next]
    snapshot,  \* [Scrapes -> the copy of series and counters]
    page,      \* [Scrapes -> [section -> what was written]]
    log,       \* the observations so far (history)
    begun      \* [Scrapes -> length of log when the scrape arrived] (history)

metricsVars == <<series, counters, pc, snapshot, page, log, begun>>

NoSeries == [count |-> 0, sum |-> 0, buckets |-> [b \in Buckets |-> 0]]
Nothing == [series |-> [l \in Labels |-> NoSeries], counters |-> [c \in Counters |-> [n \in Names |-> 0]]]

MetricsInit ==
    /\ series = Nothing.series
    /\ counters = Nothing.counters
    /\ pc = [s \in Scrapes |-> "idle"]
    /\ snapshot = [s \in Scrapes |-> Nothing]
    /\ page = [s \in Scrapes |-> <<>>]
    /\ log = <<>>
    /\ begun = [s \in Scrapes |-> 0]

Within(seconds, bound) == seconds <= bound

\* Mutant of Incremented: the first request of a series only creates it.
OnlyCreated(entry) == IF entry = NoSeries THEN 0 ELSE entry.count + 1

Incremented(entry) == entry.count + 1

ObserveRequest(l, seconds) ==
    /\ Len(log) < MaxLog
    /\ series' = [series EXCEPT ![l] =
           [count |-> Incremented(@),
            sum |-> @.sum + seconds,
            buckets |-> [b \in Buckets |->
                            @.buckets[b] + IF Within(seconds, b) THEN 1 ELSE 0]]]
    /\ log' = Append(log, [of |-> <<"requests", l>>, seconds |-> seconds])
    /\ UNCHANGED <<counters, pc, snapshot, page, begun>>

\* ObserveCacheHit, ObserveCacheMiss, ObserveBankRequestError
Observe(c, n) ==
    /\ Len(log) < MaxLog
    /\ counters' = [counters EXCEPT ![c][n] = @ + 1]
    /\ log' = Append(log, [of |-> <<c, n>>, seconds |-> 0])
    /\ UNCHANGED <<series, pc, snapshot, page, begun>>

\* ServeHTTP sends the status and calls WritePrometheus.
ServeHTTP(s) ==
    /\ pc[s] = "idle"
    /\ pc' = [pc EXCEPT ![s] = "snapshot"]
    /\ page' = [page EXCEPT ![s] = <<>>]
    /\ begun' = [begun EXCEPT ![s] = Len(log)]
    /\ UNCHANGED <<series, counters, snapshot, log>>

\* Mutant of Copied: the copy shares the slices of the buckets with the map.
BucketsShared(s, section) ==
    CASE section = "requests" -> [l \in Labels |-> snapshot[s].series[l].count]
      [] section = "durations" ->
             [l \in Labels |-> [snapshot[s].series[l] EXCEPT !.buckets = series[l].buckets]]
      [] section \in Counters -> snapshot[s].counters[section]

\* What a section writes, from the snapshot.
Copied(s, section) ==
    CASE section = "requests" -> [l \in Labels |-> snapshot[s].series[l].count]
      [] section = "durations" -> snapshot[s].series
      [] section \in Counters -> snapshot[s].counters[section]

Snapshot(s) ==
    /\ pc[s] = "snapshot"
    /\ snapshot' = [snapshot EXCEPT ![s] = [series |-> series, counters |-> counters]]
    /\ pc' = [pc EXCEPT ![s] = "requests"]
    /\ UNCHANGED <<series, counters, page, log, begun>>

After == [requests |-> "durations", durations |-> "cacheHits", cacheHits |-> "cacheMisses",
          cacheMisses |-> "bankRequestErrors", bankRequestErrors |-> "idle"]

Write(s) ==
    /\ pc[s] \in DOMAIN After
    /\ page' = [page EXCEPT ![s] = Append(@, Copied(s, pc[s]))]
    /\ pc' = [pc EXCEPT ![s] = After[pc[s]]]
    /\ UNCHANGED <<series, counters, snapshot, log, begun>>

\* The first error of a write ends the page.
WriteFails(s) ==
    /\ pc[s] \in DOMAIN After
    /\ pc' = [pc EXCEPT ![s] = "idle"]
    /\ UNCHANGED <<series, counters, snapshot, page, log, begun>>

MetricsNext ==
    \/ \E l \in Labels, t \in Seconds : ObserveRequest(l, t)
    \/ \E c \in Counters, n \in Names : Observe(c, n)
    \/ \E s \in Scrapes : ServeHTTP(s) \/ Snapshot(s) \/ Write(s) \/ WriteFails(s)

MetricsSpec == MetricsInit /\ [][MetricsNext]_metricsVars

------------------------------------------------------------------------------
MetricsTypeOK ==
    /\ series \in [Labels -> [count : Nat, sum : Nat, buckets : [Buckets -> Nat]]]
    /\ counters \in [Counters -> [Names -> Nat]]
    /\ pc \in [Scrapes -> DOMAIN After \cup {"idle", "snapshot"}]
    /\ \A s \in Scrapes : Len(page[s]) <= 5 /\ begun[s] \in 0 .. Len(log)
    /\ \A l \in Labels, b \in Buckets : series[l].buckets[b] <= series[l].count

\* Those of the observations that are of x.
Seen(x, entries) == {i \in DOMAIN entries : entries[i].of = x}
Tally(c, entries) == [name \in Names |-> Cardinality(Seen(<<c, name>>, entries))]

\* The histogram of l after some observations, by its definition.
Histogram(l, entries) ==
    LET of == Seen(<<"requests", l>>, entries)
    IN  [count |-> Cardinality(of),
         sum |-> SumFunction([i \in of |-> entries[i].seconds]),
         buckets |-> [b \in Buckets |-> Cardinality({i \in of : entries[i].seconds <= b})]]

\* A page with some observations.
PageOf(entries) ==
    <<[l \in Labels |-> Cardinality(Seen(<<"requests", l>>, entries))],
      [l \in Labels |-> Histogram(l, entries)],
      Tally("cacheHits", entries), Tally("cacheMisses", entries),
      Tally("bankRequestErrors", entries)>>

\* Every page, also one that was cut off, shows the observations before one
\* instant of its scrape: nothing of what was counted when it was asked for is
\* missing, no section runs ahead of another one, and no bucket ahead of the
\* count of its histogram, however many requests end while it is written.
PagesAreOneInstant ==
    \A s \in Scrapes : \E n \in begun[s] .. Len(log) :
        IsPrefix(page[s], PageOf(SubSeq(log, 1, n)))
==============================================================================
