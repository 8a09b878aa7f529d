--------------------------- MODULE AggregatorProofs ---------------------------
(***************************************************************************)
(* Proofs about Aggregator for every set of requests, clients and          *)
(* currencies, with or without a store, for every TTL.  One inductive      *)
(* invariant carries them all: what the stage of a request says about its  *)
(* workers, answers, times and outcome, and what the cache holds.          *)
(***************************************************************************)
EXTENDS Aggregator, FiniteSetTheorems, TLAPS

\* The stage of a request and its fan-out.
StageOK(r) ==
    /\ pc[r] = "lookup" <=> (r \in Fetchers /\ asked[r] # None)
    /\ pc[r] \in {"idle", "lookup"} => \A c \in Clients : worker[r][c] = "none"
    /\ pc[r] \in {"assemble", "save", "publish"} => \A c \in Clients : worker[r][c] = "taken"
    /\ pc[r] = "done" => \A c \in Clients : worker[r][c] # "calling"
    /\ outcome[r] # None <=> pc[r] = "done"

\* The collected sources and the answers that were received.
AnswersOK(r) ==
    /\ \A c \in Clients : worker[r][c] \in {"sent", "taken"} => answer[r][c] \in Answers
    /\ sources[r] = {c \in Clients : worker[r][c] = "taken" /\ answer[r][c] = "rate"}
    /\ outcome[r] = "noRates" => \A c \in Clients : worker[r][c] = "taken" /\ c \notin sources[r]

\* The result of a request: stamped while the request ran, and saved before
\* it is published.
ResultOK(r) ==
    /\ pc[r] # "idle" => begunAt[r] \in Nat
    /\ pc[r] \in {"save", "publish"} => updatedAt[r] # None
    /\ pc[r] = "publish" /\ HasStore => r \in saved
    /\ updatedAt[r] # None =>
           /\ pc[r] \in {"save", "publish", "done"}
           /\ \A c \in Clients : worker[r][c] = "taken"
           /\ sources[r] # {}
           /\ begunAt[r] <= updatedAt[r]
           /\ updatedAt[r] <= clock
    /\ begunAt[r] # None => begunAt[r] <= clock

\* A Get in progress asks for the currency of its request, and a request
\* that has not been answered has no reply.
LookupOK(r) ==
    r \in Fetchers => /\ asked[r] # None => asked[r].currency = currency[r]
                      /\ pc[r] \in {"idle", "lookup"} => reply[r] = None

RequestOK(r) == StageOK(r) /\ AnswersOK(r) /\ ResultOK(r) /\ LookupOK(r)

\* An entry was published no earlier than the result was stamped.
EntriesOK ==
    \A k \in Currencies :
        entries[k] # None => updatedAt[entries[k].value] <= entries[k].expiresAt - TTL

IInv ==
    /\ TypeOK
    /\ \A r \in Requests : RequestOK(r)
    /\ EntriesOK
    /\ ServedIsPersisted

------------------------------------------------------------------------------
LEMMA InitIInv == Init => IInv
<1> SUFFICES ASSUME Init PROVE IInv
  OBVIOUS
<1> USE AggregatorAssumption DEF Init, Cache!Init
<1>1. TypeOK
  BY DEF TypeOK, Cache!TypeOK, Stages, WorkerStates
<1>2. \A r \in Requests : RequestOK(r)
  <2> SUFFICES ASSUME NEW r \in Requests PROVE RequestOK(r)
    BY Zenon
  <2>1. r \in Fetchers => asked[r] = None
    OBVIOUS
  <2>2. sources[r] = {c \in Clients : worker[r][c] = "taken" /\ answer[r][c] = "rate"}
    OBVIOUS
  <2>3. StageOK(r)
    BY <2>1 DEF StageOK
  <2>4. AnswersOK(r)
    BY <2>2 DEF AnswersOK, Outcomes
  <2> QED
    BY <2>3, <2>4 DEF RequestOK, ResultOK, LookupOK
<1>3. EntriesOK /\ ServedIsPersisted
  BY DEF EntriesOK, ServedIsPersisted, Requests
<1> QED
  BY <1>1, <1>2, <1>3 DEF IInv

\* The steps of Next, by what they do to the cache and to one request.
LEMMA NextCases ==
  ASSUME Next
  PROVE  \/ \E r \in Requests, k \in Currencies :
                CallCanceled(r, k) \/ FetchRates(r, k) \/ RefreshRates(r, k)
         \/ \E r \in Fetchers : CacheHit(r) \/ CacheMiss(r)
         \/ \E r \in Requests, c \in Clients :
                ClientAnswers(r, c) \/ ClientDropped(r, c) \/ Receive(r, c)
         \/ \E r \in Requests :
                \/ CollectCanceled(r) \/ Drained(r)
                \/ AssembleCanceled(r) \/ AssembleNothing(r) \/ Assemble(r)
                \/ Save(r) \/ SaveFails(r) \/ Publish(r) \/ Cancel(r)
         \/ CacheSteps
  BY DEF Next, Begin, Lookup, Worker, Collect, Finish

\* What the operators shared by several actions preserve.
LEMMA CalledType ==
  ASSUME TypeOK, NEW r \in Requests, NEW k \in Currencies, Called(r, k)
  PROVE  /\ currency' \in [Requests -> Currencies \cup {None}]
         /\ begunAt' \in [Requests -> Nat \cup {None}]
<1>1. currency' \in [Requests -> Currencies \cup {None}]
  BY DEF Called, TypeOK
<1>2. begunAt' \in [Requests -> Nat \cup {None}]
  BY DEF Called, TypeOK, Cache!TypeOK
<1> QED
  BY <1>1, <1>2

LEMMA FanOutType ==
  ASSUME TypeOK, NEW r \in Requests, FanOut(r)
  PROVE  /\ pc' \in [Requests -> Stages]
         /\ outcome' \in [Requests -> Outcomes \cup {None}]
         /\ worker' \in [Requests -> [Clients -> WorkerStates]]
<1>1. pc' \in [Requests -> Stages]
  BY DEF FanOut, Stages, TypeOK, Goto, Return
<1>2. outcome' \in [Requests -> Outcomes \cup {None}]
  BY DEF FanOut, Outcomes, TypeOK, Goto, Return
<1>3. worker' \in [Requests -> [Clients -> WorkerStates]]
  BY DEF FanOut, WorkerStates, TypeOK
<1> QED
  BY <1>1, <1>2, <1>3

LEMMA CacheType ==
  ASSUME TypeOK, UNCHANGED cacheVars
  PROVE  Cache!TypeOK'
  BY DEF TypeOK, Cache!TypeOK, cacheVars

LEMMA NextType == TypeOK /\ [Next]_vars => TypeOK'
<1> SUFFICES ASSUME TypeOK, [Next]_vars PROVE TypeOK'
  OBVIOUS
<1>a. Fetchers \subseteq Requests
  BY DEF Requests
<1>1. ASSUME NEW r \in Requests, NEW k \in Currencies, CallCanceled(r, k) PROVE TypeOK'
  <2>1. Called(r, k) /\ Cache!TypeOK'
    BY <1>1, CacheType DEF CallCanceled, cacheVars
  <2> QED
    BY <1>1, <2>1, CalledType
    DEF CallCanceled, Return, Stages, Outcomes, TypeOK, fanVars, metricVars
<1>2. ASSUME NEW r \in Requests, NEW k \in Currencies, FetchRates(r, k) PROVE TypeOK'
  <2>1. Called(r, k) /\ r \in Fetchers
    BY <1>2 DEF FetchRates
  <2>2. [currency |-> k, at |-> clock] \in Cache!Call
    BY DEF Cache!Call, Cache!TypeOK, TypeOK
  <2>3. Cache!TypeOK'
    BY <1>2, <2>2 DEF FetchRates, Cache!Ask, Cache!TypeOK, TypeOK
  <2> QED
    BY <1>2, <2>1, <2>3, CalledType
    DEF FetchRates, Goto, Stages, TypeOK, fanVars, metricVars
<1>3. ASSUME NEW r \in Requests, NEW k \in Currencies, RefreshRates(r, k) PROVE TypeOK'
  <2>1. Called(r, k) /\ FanOut(r) /\ Cache!TypeOK'
    BY <1>3, CacheType DEF RefreshRates, cacheVars
  <2>2. UNCHANGED <<canceled, answer, sources, updatedAt, saved, metricVars>>
    BY <1>3 DEF RefreshRates, FanOut
  <2> QED
    BY <2>1, <2>2, CalledType, FanOutType DEF TypeOK, metricVars
<1>4. ASSUME NEW r \in Fetchers, CacheHit(r) PROVE TypeOK'
  <2>1. asked[r] \in Cache!Call
    BY <1>4 DEF CacheHit, Cache!AnswerHit, Cache!TypeOK, TypeOK
  <2>2. entries[asked[r].currency] \in Cache!Entry
    BY <1>4, <2>1 DEF CacheHit, Cache!AnswerHit, Cache!LiveAt, Cache!TypeOK, Cache!Call, TypeOK
  <2>3. entries[asked[r].currency].value \in Requests
    BY <2>2 DEF Cache!Entry
  <2>4. Cache!TypeOK'
    BY <1>4, <2>3 DEF CacheHit, Cache!AnswerHit, Cache!TypeOK, TypeOK
  <2>5. hits' \in [Currencies -> Nat]
    <3>1. CASE currency[r] \in Currencies
      BY <1>4, <3>1 DEF CacheHit, TypeOK
    <3>2. CASE currency[r] \notin Currencies
      BY <1>4, <3>2 DEF CacheHit, TypeOK
    <3> QED
      BY <3>1, <3>2
  <2> QED
    BY <1>4, <1>a, <2>4, <2>5 DEF CacheHit, Return, TypeOK, Stages, Outcomes, fanVars
<1>5. ASSUME NEW r \in Fetchers, CacheMiss(r) PROVE TypeOK'
  <2>1. Cache!TypeOK'
    BY <1>5 DEF CacheMiss, Cache!AnswerMiss, Cache!TypeOK, TypeOK
  <2>2. FanOut(r) /\ r \in Requests
    BY <1>5, <1>a DEF CacheMiss
  <2>3. UNCHANGED <<currency, canceled, begunAt, answer, sources, updatedAt, saved, hits,
                    bankErrors>>
    BY <1>5 DEF CacheMiss, FanOut
  <2>4. misses' \in [Currencies -> Nat]
    <3>1. CASE currency[r] \in Currencies
      BY <1>5, <3>1 DEF CacheMiss, TypeOK
    <3>2. CASE currency[r] \notin Currencies
      BY <1>5, <3>2 DEF CacheMiss, TypeOK
    <3> QED
      BY <3>1, <3>2
  <2> QED
    BY <2>1, <2>2, <2>3, <2>4, FanOutType DEF TypeOK
<1>6. ASSUME NEW r \in Requests, NEW c \in Clients, ClientAnswers(r, c) PROVE TypeOK'
  <2>1. worker' \in [Requests -> [Clients -> WorkerStates]]
    BY <1>6 DEF ClientAnswers, WorkerStates, TypeOK
  <2>2. answer' \in [Requests -> [Clients -> Answers \cup {None}]]
    BY <1>6 DEF ClientAnswers, TypeOK
  <2> QED
    BY <1>6, <2>1, <2>2, CacheType DEF ClientAnswers, TypeOK, metricVars
<1>7. ASSUME NEW r \in Requests, NEW c \in Clients, ClientDropped(r, c) PROVE TypeOK'
  <2>1. worker' \in [Requests -> [Clients -> WorkerStates]]
    BY <1>7 DEF ClientDropped, WorkerStates, TypeOK
  <2> QED
    BY <1>7, <2>1, CacheType DEF ClientDropped, TypeOK, metricVars
<1>8. ASSUME NEW r \in Requests, NEW c \in Clients, Receive(r, c) PROVE TypeOK'
  <2>1. worker' \in [Requests -> [Clients -> WorkerStates]]
    BY <1>8 DEF Receive, WorkerStates, TypeOK
  <2>2. sources' \in [Requests -> SUBSET Clients] /\ bankErrors' \in [Clients -> Nat]
    BY <1>8 DEF Receive, TypeOK
  <2> QED
    BY <1>8, <2>1, <2>2, CacheType DEF Receive, Goto, Stages, TypeOK
<1>9. ASSUME NEW r \in Requests,
                \/ CollectCanceled(r) \/ Drained(r)
                \/ AssembleCanceled(r) \/ AssembleNothing(r) \/ Cancel(r)
      PROVE  TypeOK'
  BY <1>9, CacheType
  DEF CollectCanceled, Drained, AssembleCanceled, AssembleNothing, Cancel,
      Goto, Return, fanVars, metricVars, Stages, Outcomes, TypeOK
<1>10. ASSUME NEW r \in Requests, Assemble(r) PROVE TypeOK'
  <2>1. updatedAt' \in [Requests -> Nat \cup {None}]
    BY <1>10 DEF Assemble, ResultTime, Cache!TypeOK, TypeOK
  <2> QED
    BY <1>10, <2>1, CacheType DEF Assemble, Goto, fanVars, metricVars, Stages, TypeOK
<1>11. ASSUME NEW r \in Requests, Save(r) \/ SaveFails(r) PROVE TypeOK'
  BY <1>11, CacheType
  DEF Save, SaveFails, Goto, Return, fanVars, metricVars, Stages, Outcomes, TypeOK
<1>12. ASSUME NEW r \in Requests, Publish(r) PROVE TypeOK'
  <2>1. [value |-> r, expiresAt |-> clock + TTL] \in Cache!Entry
    BY AggregatorAssumption DEF Cache!Entry, Cache!TypeOK, TypeOK
  <2>2. Cache!TypeOK'
    BY <1>12, <2>1 DEF Publish, Cache!Put, Cache!TypeOK, TypeOK
  <2> QED
    BY <1>12, <2>2 DEF Publish, Return, fanVars, metricVars, Stages, Outcomes, TypeOK
<1>13. CASE CacheSteps
  <2>1. clock' \in Nat
    BY <1>13 DEF CacheSteps, Cache!Tick, Cache!Forget, Cache!TypeOK, TypeOK
  <2>2. Cache!TypeOK'
    BY <1>13, <2>1 DEF CacheSteps, Cache!Tick, Cache!Forget, Cache!TypeOK, TypeOK
  <2> QED
    BY <1>13, <2>2 DEF CacheSteps, fanVars, metricVars, TypeOK
<1>14. CASE UNCHANGED vars
  BY <1>14, CacheType DEF vars, cacheVars, fanVars, metricVars, TypeOK
<1> QED
  BY <1>1, <1>2, <1>3, <1>4, <1>5, <1>6, <1>7, <1>8, <1>9, <1>10, <1>11, <1>12, <1>13,
     <1>14, NextCases

------------------------------------------------------------------------------
(* Each step moves one request; the others keep their part of the state.   *)

Same(q) ==
    /\ pc'[q] = pc[q] /\ outcome'[q] = outcome[q]
    /\ currency'[q] = currency[q] /\ begunAt'[q] = begunAt[q]
    /\ worker'[q] = worker[q] /\ answer'[q] = answer[q] /\ sources'[q] = sources[q]
    /\ updatedAt'[q] = updatedAt[q]
    /\ q \in Fetchers => asked'[q] = asked[q] /\ reply'[q] = reply[q]
    /\ q \in saved => q \in saved'

LEMMA SameIsOK ==
  ASSUME TypeOK, TypeOK', NEW q \in Requests, RequestOK(q), Same(q), clock <= clock'
  PROVE  RequestOK(q)'
<1>1. StageOK(q)'
  BY DEF RequestOK, StageOK, Same
<1>2. AnswersOK(q)'
  BY DEF RequestOK, AnswersOK, Same
<1>3. LookupOK(q)'
  BY DEF RequestOK, LookupOK, Same
<1>4. ResultOK(q)'
  <2>1. begunAt[q] \in Nat \cup {None} /\ updatedAt[q] \in Nat \cup {None}
    BY DEF TypeOK
  <2>2. clock \in Nat /\ clock' \in Nat
    BY DEF TypeOK, Cache!TypeOK
  <2> QED
    BY <2>1, <2>2, AggregatorAssumption DEF RequestOK, ResultOK, Same
<1> QED
  BY <1>1, <1>2, <1>3, <1>4 DEF RequestOK

\* The steps by which a request moves, without the environment's.
Step(r) ==
    \/ \E k \in Currencies : CallCanceled(r, k) \/ FetchRates(r, k) \/ RefreshRates(r, k)
    \/ r \in Fetchers /\ (CacheHit(r) \/ CacheMiss(r))
    \/ \E c \in Clients : ClientAnswers(r, c) \/ ClientDropped(r, c) \/ Receive(r, c)
    \/ CollectCanceled(r) \/ Drained(r)
    \/ AssembleCanceled(r) \/ AssembleNothing(r) \/ Assemble(r)
    \/ Save(r) \/ SaveFails(r) \/ Publish(r) \/ Cancel(r)

LEMMA OthersSame ==
  ASSUME TypeOK, NEW r \in Requests, Step(r), NEW q \in Requests, q # r
  PROVE  Same(q) /\ clock' = clock
<1> USE DEF TypeOK
<1>0. q \in Fetchers => asked \in [Fetchers -> Cache!Call \cup {None}]
                       /\ reply \in [Fetchers -> Requests \cup {None, Miss}]
  BY DEF Cache!TypeOK
<1>1. ASSUME NEW k \in Currencies, CallCanceled(r, k) PROVE Same(q) /\ clock' = clock
  BY <1>1 DEF CallCanceled, Called, Return, Same, cacheVars, fanVars
<1>2. ASSUME NEW k \in Currencies, FetchRates(r, k) PROVE Same(q) /\ clock' = clock
  BY <1>0, <1>2 DEF FetchRates, Called, Goto, Cache!Ask, Same, fanVars
<1>3. ASSUME NEW k \in Currencies, RefreshRates(r, k) PROVE Same(q) /\ clock' = clock
  BY <1>3 DEF RefreshRates, Called, FanOut, Return, Goto, Same, cacheVars
<1>4. CASE r \in Fetchers /\ CacheHit(r)
  BY <1>0, <1>4 DEF CacheHit, Cache!AnswerHit, Return, Same, fanVars
<1>5. CASE r \in Fetchers /\ CacheMiss(r)
  BY <1>0, <1>5 DEF CacheMiss, Cache!AnswerMiss, FanOut, Return, Goto, Same
<1>6. ASSUME NEW c \in Clients, ClientAnswers(r, c) \/ ClientDropped(r, c)
      PROVE  Same(q) /\ clock' = clock
  BY <1>6 DEF ClientAnswers, ClientDropped, Same, cacheVars
<1>7. ASSUME NEW c \in Clients, Receive(r, c) PROVE Same(q) /\ clock' = clock
  BY <1>7 DEF Receive, Goto, Same, cacheVars
<1>8. CASE CollectCanceled(r) \/ Drained(r) \/ AssembleCanceled(r) \/ AssembleNothing(r)
  BY <1>8 DEF CollectCanceled, Drained, AssembleCanceled, AssembleNothing, Goto, Return,
              Same, cacheVars, fanVars
<1>9. CASE Assemble(r) \/ Save(r) \/ SaveFails(r) \/ Cancel(r)
  BY <1>9 DEF Assemble, Save, SaveFails, Cancel, Goto, Return, Same, cacheVars, fanVars
<1>10. CASE Publish(r)
  BY <1>10 DEF Publish, Cache!Put, Return, Same, fanVars
<1> QED
  BY <1>1, <1>2, <1>3, <1>4, <1>5, <1>6, <1>7, <1>8, <1>9, <1>10 DEF Step

\* A request that moves keeps its own part of the invariant.
LEMMA OwnIsOK ==
  ASSUME TypeOK, TypeOK', NEW r \in Requests, RequestOK(r), Step(r)
  PROVE  RequestOK(r)'
<1> USE AggregatorAssumption DEF RequestOK
<1>0. /\ clock \in Nat
      /\ r \in Fetchers => asked \in [Fetchers -> Cache!Call \cup {None}]
                         /\ reply \in [Fetchers -> Requests \cup {None, Miss}]
  BY DEF TypeOK, Cache!TypeOK
<1>1. ASSUME NEW k \in Currencies, CallCanceled(r, k) PROVE RequestOK(r)'
  <2>1. StageOK(r)'
    BY <1>1 DEF CallCanceled, Called, Return, StageOK, TypeOK, cacheVars, fanVars, Outcomes
  <2>2. AnswersOK(r)' /\ LookupOK(r)'
    BY <1>1 DEF CallCanceled, Called, Return, AnswersOK, LookupOK, StageOK, TypeOK, cacheVars, fanVars
  <2>3. ResultOK(r)'
    BY <1>0, <1>1 DEF CallCanceled, Called, Return, ResultOK, TypeOK, cacheVars, fanVars
  <2> QED
    BY <2>1, <2>2, <2>3
<1>2. ASSUME NEW k \in Currencies, FetchRates(r, k) PROVE RequestOK(r)'
  <2>1. [currency |-> k, at |-> clock] \in Cache!Call
    BY <1>0 DEF Cache!Call
  <2>2. [currency |-> k, at |-> clock] # None
    BY <1>0
  <2>3. StageOK(r)'
    BY <1>0, <1>2, <2>2 DEF FetchRates, Called, Goto, Cache!Ask, StageOK, TypeOK, fanVars
  <2>4. AnswersOK(r)'
    BY <1>2 DEF FetchRates, Called, Goto, AnswersOK, TypeOK, fanVars
  <2>5. LookupOK(r)'
    BY <1>0, <1>2 DEF FetchRates, Called, Goto, Cache!Ask, LookupOK, TypeOK
  <2>6. ResultOK(r)'
    BY <1>0, <1>2 DEF FetchRates, Called, Goto, Cache!Ask, ResultOK, TypeOK, fanVars
  <2> QED
    BY <2>3, <2>4, <2>5, <2>6
<1>3. ASSUME FanOut(r), pc[r] \in {"idle", "lookup"},
             UNCHANGED <<clock, updatedAt>>, pc[r] = "idle" => r \notin Fetchers,
             r \in Fetchers => asked'[r] = None /\ begunAt'[r] = begunAt[r],
             r \notin Fetchers => begunAt'[r] = clock
      PROVE  RequestOK(r)'
  <2>1. /\ pc'[r] \in {"collect", "done"}
        /\ outcome'[r] = IF pc'[r] = "done" THEN "noRates" ELSE outcome[r]
        /\ pc'[r] = "done" => Clients = {}
    BY <1>3 DEF FanOut, Return, Goto, TypeOK
  <2>2. \A c \in Clients : worker'[r][c] = "calling"
    BY <1>3 DEF FanOut, TypeOK
  <2>3. sources'[r] = {} /\ answer'[r] = answer[r]
    BY <1>3 DEF FanOut, AnswersOK, StageOK
  <2>4. outcome[r] = None /\ updatedAt[r] = None
    BY <1>3 DEF StageOK, ResultOK
  <2>5. StageOK(r)'
    BY <1>3, <2>1, <2>2, <2>4 DEF StageOK, Outcomes
  <2>6. AnswersOK(r)'
    BY <2>1, <2>2, <2>3, <2>4 DEF AnswersOK, Outcomes
  <2>7. ResultOK(r)'
    BY <1>0, <1>3, <2>1, <2>4 DEF ResultOK
  <2>8. LookupOK(r)'
    BY <1>3, <2>1 DEF LookupOK
  <2> QED
    BY <2>5, <2>6, <2>7, <2>8
<1>4. ASSUME NEW k \in Currencies, RefreshRates(r, k) PROVE RequestOK(r)'
  <2>1. r \notin Fetchers
    BY <1>4 DEF RefreshRates
  <2> QED
    BY <1>3, <1>4, <2>1 DEF RefreshRates, Called, cacheVars, TypeOK
<1>5. CASE r \in Fetchers /\ CacheHit(r)
  <2>1. /\ pc'[r] = "done" /\ outcome'[r] = "ok" /\ asked'[r] = None
        /\ pc[r] = "lookup"
    BY <1>0, <1>5 DEF CacheHit, Cache!AnswerHit, Return, TypeOK
  <2>2. UNCHANGED <<clock, begunAt, worker, answer, sources, updatedAt>>
    BY <1>5 DEF CacheHit, Cache!AnswerHit, fanVars
  <2>3. StageOK(r)'
    BY <2>1, <2>2 DEF StageOK, Outcomes
  <2>4. AnswersOK(r)'
    BY <2>1, <2>2 DEF AnswersOK
  <2>5. ResultOK(r)' /\ LookupOK(r)'
    BY <2>1, <2>2 DEF ResultOK, LookupOK
  <2> QED
    BY <2>3, <2>4, <2>5
<1>6. CASE r \in Fetchers /\ CacheMiss(r)
  <2>1. FanOut(r) /\ pc[r] = "lookup" /\ asked'[r] = None
    BY <1>0, <1>6 DEF CacheMiss, Cache!AnswerMiss
  <2> QED
    BY <1>3, <1>6, <2>1 DEF CacheMiss, Cache!AnswerMiss
<1>7. ASSUME NEW c \in Clients, ClientAnswers(r, c) \/ ClientDropped(r, c)
      PROVE  RequestOK(r)'
  <2>1. /\ worker[r][c] = "calling"
        /\ UNCHANGED <<clock, asked, reply, pc, currency, begunAt, sources, updatedAt,
                       saved, outcome>>
    BY <1>7 DEF ClientAnswers, ClientDropped, cacheVars
  <2>2. /\ worker'[r][c] \in {"sent", "quit"}
        /\ worker'[r][c] = "sent" => answer'[r][c] \in Answers
        /\ \A d \in Clients \ {c} : worker'[r][d] = worker[r][d] /\ answer'[r][d] = answer[r][d]
    BY <1>7 DEF ClientAnswers, ClientDropped, TypeOK
  <2>3. StageOK(r)'
    BY <2>1, <2>2 DEF StageOK
  <2>4. AnswersOK(r)'
    BY <2>1, <2>2 DEF AnswersOK
  <2>5. ResultOK(r)' /\ LookupOK(r)'
    BY <2>1, <2>2 DEF ResultOK, LookupOK
  <2> QED
    BY <2>3, <2>4, <2>5
<1>8. ASSUME NEW c \in Clients, Receive(r, c) PROVE RequestOK(r)'
  <2>1. /\ pc[r] = "collect" /\ worker[r][c] = "sent"
        /\ UNCHANGED <<clock, asked, reply, currency, begunAt, answer, updatedAt, saved, outcome>>
    BY <1>8 DEF Receive, Goto, cacheVars
  <2>2. /\ worker'[r][c] = "taken"
        /\ \A d \in Clients \ {c} : worker'[r][d] = worker[r][d]
    BY <1>8 DEF Receive, TypeOK
  <2>3. sources'[r] = IF answer[r][c] = "rate" THEN sources[r] \cup {c} ELSE sources[r]
    BY <1>8 DEF Receive, TypeOK
  <2>4. /\ pc'[r] \in {"assemble", "collect"}
        /\ pc'[r] = "assemble" => \A d \in Clients : worker'[r][d] = "taken"
    BY <1>8 DEF Receive, Goto, LastReceive, TypeOK
  <2>5. StageOK(r)'
    BY <2>1, <2>2, <2>4 DEF StageOK
  <2>6. AnswersOK(r)'
    BY <2>1, <2>2, <2>3 DEF AnswersOK, StageOK, Outcomes
  <2>7. ResultOK(r)' /\ LookupOK(r)'
    BY <2>1, <2>4 DEF ResultOK, LookupOK
  <2> QED
    BY <2>5, <2>6, <2>7
<1>9. ASSUME pc[r] \notin {"idle", "lookup", "done"},
             UNCHANGED <<clock, asked, reply, currency, begunAt, worker, answer, sources>>,
             saved \subseteq saved',
             \/ pc'[r] = "drain" /\ outcome'[r] = outcome[r] /\ updatedAt'[r] = updatedAt[r]
                /\ pc[r] = "collect"
             \/ pc'[r] = "save" /\ outcome'[r] = outcome[r] /\ updatedAt'[r] = clock
                /\ pc[r] = "assemble" /\ sources[r] # {}
             \/ pc'[r] = "publish" /\ outcome'[r] = outcome[r] /\ updatedAt'[r] = updatedAt[r]
                /\ pc[r] = "save" /\ (HasStore => r \in saved')
             \/ pc'[r] = "done" /\ outcome'[r] \in Outcomes \ {"noRates"}
                /\ updatedAt'[r] = updatedAt[r] /\ WorkersExited(r)
             \/ pc'[r] = "done" /\ outcome'[r] = "noRates" /\ updatedAt'[r] = updatedAt[r]
                /\ pc[r] = "assemble" /\ sources[r] = {}
      PROVE  RequestOK(r)'
  <2>1. StageOK(r)'
    BY <1>9 DEF StageOK, WorkersExited, Outcomes
  <2>2. AnswersOK(r)'
    BY <1>9 DEF AnswersOK, StageOK, Outcomes
  <2>3. ResultOK(r)'
    BY <1>0, <1>9 DEF ResultOK, StageOK
  <2>4. LookupOK(r)'
    BY <1>9 DEF LookupOK
  <2> QED
    BY <2>1, <2>2, <2>3, <2>4
<1>10. CASE CollectCanceled(r) \/ Drained(r) \/ AssembleCanceled(r) \/ AssembleNothing(r)
  BY <1>9, <1>10 DEF CollectCanceled, Drained, AssembleCanceled, AssembleNothing, Goto, Return,
                     TypeOK, Outcomes, cacheVars, fanVars
<1>11. CASE Assemble(r)
  BY <1>9, <1>11 DEF Assemble, ResultTime, Goto, TypeOK, cacheVars, fanVars
<1>12. CASE Save(r)
  BY <1>9, <1>12 DEF Save, Goto, TypeOK, cacheVars, fanVars
<1>13. CASE SaveFails(r) \/ Publish(r)
  <2>1. WorkersExited(r)
    BY <1>13 DEF SaveFails, Publish, StageOK, WorkersExited
  <2>2. UNCHANGED <<clock, asked, reply>>
    BY <1>13 DEF SaveFails, Publish, Cache!Put, cacheVars
  <2> QED
    BY <1>9, <1>13, <2>1, <2>2 DEF SaveFails, Publish, Return, Outcomes, TypeOK, fanVars
<1>14. CASE Cancel(r)
  BY <1>14 DEF Cancel, StageOK, AnswersOK, ResultOK, LookupOK, cacheVars, fanVars
<1> QED
  BY <1>1, <1>2, <1>4, <1>5, <1>6, <1>7, <1>8, <1>10, <1>11, <1>12, <1>13, <1>14 DEF Step

------------------------------------------------------------------------------
(* The cache: what is served is finished, and stays as it is.              *)

\* A finished request never changes again in what makes it servable.
LEMMA FinishedStays ==
  ASSUME TypeOK, NEW r \in Requests, RequestOK(r), Step(r), outcome[r] # None
  PROVE  /\ outcome'[r] = outcome[r] /\ updatedAt'[r] = updatedAt[r]
         /\ currency'[r] = currency[r] /\ saved \subseteq saved'
<1>1. pc[r] = "done" /\ \A c \in Clients : worker[r][c] # "calling"
  BY DEF RequestOK, StageOK
<1> QED
  BY <1>1
  DEF Step, CallCanceled, FetchRates, RefreshRates, Called, CacheHit, CacheMiss, ClientAnswers,
      ClientDropped, Receive, CollectCanceled, Drained, AssembleCanceled, AssembleNothing,
      Assemble, Save, SaveFails, Publish, Cancel

LEMMA ServableStays ==
  ASSUME TypeOK, NEW r \in Requests, Step(r), RequestOK(r), NEW q \in Requests,
         NEW k, Servable(q, k)
  PROVE  Servable(q, k)' /\ updatedAt'[q] = updatedAt[q]
<1>1. CASE q # r
  BY <1>1, OthersSame DEF Same, Servable
<1>2. CASE q = r
  BY <1>2, FinishedStays, AggregatorAssumption DEF Servable, Outcomes
<1> QED
  BY <1>1, <1>2

\* Publish stores its own result; no other step of a request touches the map.
LEMMA PublishStores ==
  ASSUME TypeOK, NEW r \in Requests, RequestOK(r), Step(r)
  PROVE  \/ entries' = entries
         \/ /\ Publish(r) /\ currency[r] \in Currencies
            /\ entries' = [entries EXCEPT ![currency[r]] =
                                [value |-> r, expiresAt |-> clock + TTL]]
<1>1. CASE Publish(r) /\ currency[r] \in Currencies
  BY <1>1 DEF Publish, Cache!Put
<1>2. CASE Publish(r) /\ currency[r] \notin Currencies
  BY <1>2 DEF Publish, Cache!Put, TypeOK, Cache!TypeOK
<1>3. CASE ~Publish(r)
  BY <1>3
  DEF Step, CallCanceled, FetchRates, Cache!Ask, RefreshRates, CacheHit, Cache!AnswerHit,
      CacheMiss, Cache!AnswerMiss, ClientAnswers, ClientDropped, Receive, CollectCanceled,
      Drained, AssembleCanceled, AssembleNothing, Assemble, Save, SaveFails, Cancel,
      cacheVars
<1> QED
  BY <1>1, <1>2, <1>3

\* The result being published can be served from then on.
LEMMA PublishServable ==
  ASSUME TypeOK, NEW r \in Requests, RequestOK(r), Publish(r), currency[r] \in Currencies
  PROVE  Servable(r, currency[r])' /\ UNCHANGED <<currency, updatedAt, clock>>
  BY DEF RequestOK, ResultOK, Publish, Cache!Put, Return, Servable, TypeOK

LEMMA StepEntries ==
  ASSUME IInv, NEW r \in Requests, Step(r), NEW k \in Currencies, entries'[k] # None
  PROVE  /\ Servable(entries[k].value, k)'
         /\ updatedAt'[entries'[k].value] <= entries'[k].expiresAt - TTL
<1> USE AggregatorAssumption
<1>1. TypeOK /\ RequestOK(r) /\ entries \in [Currencies -> Cache!Entry \cup {None}] /\ clock \in Nat
  BY DEF IInv, TypeOK, Cache!TypeOK
<1>2. CASE entries'[k] = entries[k]
  <2>1. entries[k].value \in Requests
    BY <1>1, <1>2 DEF Cache!Entry
  <2>2. /\ Servable(entries[k].value, k)
        /\ updatedAt[entries[k].value] <= entries[k].expiresAt - TTL
    BY <1>2 DEF IInv, ServedIsPersisted, EntriesOK
  <2>3. /\ Servable(entries[k].value, k)'
        /\ updatedAt'[entries[k].value] = updatedAt[entries[k].value]
    <3> DEFINE q == entries[k].value
    <3>1. q' = q
      BY <1>2
    <3>2. \A x \in Requests : Servable(x, k) => Servable(x, k)' /\ updatedAt'[x] = updatedAt[x]
      BY <1>1, ServableStays
    <3>3. Servable(q, k)' <=> (outcome'[q] = "ok" /\ updatedAt'[q] # None /\ currency'[q] = k
                               /\ (HasStore => q \in saved'))
      BY <3>1 DEF Servable
    <3> QED
      BY <2>1, <2>2, <3>2, <3>3 DEF Servable
  <2> QED
    BY <1>2, <2>2, <2>3
<1>3. CASE entries'[k] # entries[k]
  <2>1. /\ Publish(r) /\ currency[r] = k
        /\ entries'[k] = [value |-> r, expiresAt |-> clock + TTL]
    BY <1>1, <1>3, PublishStores
  <2>2. Servable(r, k)' /\ updatedAt' = updatedAt /\ entries'[k].value = r
    BY <1>1, <2>1, PublishServable DEF Servable
  <2>3. updatedAt[r] \in Nat /\ updatedAt[r] <= clock
    BY <1>1, <2>1 DEF Publish, RequestOK, ResultOK, TypeOK
  <2>4. entries'[k].expiresAt - TTL = clock
    BY <1>1, <2>1
  <2>5. Servable(entries[k].value, k)'
    BY <2>2 DEF Servable
  <2> QED
    BY <2>2, <2>3, <2>4, <2>5
<1> QED
  BY <1>2, <1>3

\* What a request was answered with, after any step.
LEMMA StepReplies ==
  ASSUME IInv, NEW r \in Requests, Step(r), NEW q \in Fetchers, reply'[q] \in Requests
  PROVE  Servable(reply[q], currency[q])'
<1> USE AggregatorAssumption
<1>0. /\ TypeOK /\ RequestOK(r) /\ RequestOK(q) /\ q \in Requests
      /\ asked \in [Fetchers -> Cache!Call \cup {None}]
      /\ reply \in [Fetchers -> Requests \cup {None, Miss}]
      /\ entries \in [Currencies -> Cache!Entry \cup {None}]
  BY DEF IInv, TypeOK, Cache!TypeOK, Requests
<1>1. \A x \in Requests : \A k : Servable(x, k) => Servable(x, k)'
  BY <1>0, ServableStays
<1>2. CASE reply'[q] = reply[q] /\ currency'[q] = currency[q]
  <2>1. Servable(reply[q], currency[q])
    BY <1>2 DEF IInv, ServedIsPersisted
  <2> QED
    BY <1>1, <1>2, <2>1 DEF Servable
<1>3. CASE r = q /\ CacheHit(r)
  <2>1. /\ asked[q] \in Cache!Call /\ asked[q].currency = currency[q]
        /\ Cache!LiveAt(entries[currency[q]], asked[q].at)
        /\ reply'[q] = entries[currency[q]].value /\ currency' = currency
    BY <1>0, <1>3 DEF CacheHit, Cache!AnswerHit, RequestOK, LookupOK
  <2>2. currency[q] \in Currencies
    BY <2>1 DEF Cache!Call
  <2>3. Servable(entries[currency[q]].value, currency[q])
    BY <2>1, <2>2 DEF IInv, ServedIsPersisted, Cache!LiveAt
  <2> QED
    BY <1>1, <2>1, <2>3 DEF Servable
<1>4. CASE r = q /\ ~CacheHit(r)
  <2>1. ASSUME NEW k \in Currencies, CallCanceled(r, k) PROVE reply'[q] = None
    BY <1>0, <1>4, <2>1 DEF CallCanceled, Called, RequestOK, LookupOK, cacheVars
  <2>2. ASSUME NEW k \in Currencies, FetchRates(r, k) PROVE reply'[q] = None
    BY <1>0, <1>4, <2>2 DEF FetchRates, Cache!Ask
  <2>3. CASE CacheMiss(r)
    BY <1>0, <1>4, <2>3 DEF CacheMiss, Cache!AnswerMiss
  <2>4. ASSUME NEW k \in Currencies, RefreshRates(r, k) PROVE FALSE
    BY <1>0, <1>4, <2>4 DEF RefreshRates
  <2>5. CASE \/ \E c \in Clients : ClientAnswers(r, c) \/ ClientDropped(r, c) \/ Receive(r, c)
             \/ CollectCanceled(r) \/ Drained(r)
             \/ AssembleCanceled(r) \/ AssembleNothing(r) \/ Assemble(r)
             \/ Save(r) \/ SaveFails(r) \/ Publish(r) \/ Cancel(r)
    <3>1. UNCHANGED <<reply, currency>>
      BY <2>5
      DEF ClientAnswers, ClientDropped, Receive, CollectCanceled, Drained, AssembleCanceled,
          AssembleNothing, Assemble, Save, SaveFails, Publish, Cache!Put, Cancel, cacheVars
    <3> QED
      BY <1>2, <3>1
  <2> QED
    BY <1>4, <2>1, <2>2, <2>3, <2>4, <2>5 DEF Step
<1> QED
  BY <1>0, <1>2, <1>3, <1>4, OthersSame DEF Same

------------------------------------------------------------------------------
LEMMA NextIInv == IInv /\ [Next]_vars => IInv'
<1> SUFFICES ASSUME IInv, [Next]_vars PROVE IInv'
  OBVIOUS
<1>0. TypeOK /\ TypeOK' /\ \A q \in Requests : RequestOK(q)
  BY NextType DEF IInv
<1>1. ASSUME NEW r \in Requests, Step(r) PROVE IInv'
  <2>1. \A q \in Requests : RequestOK(q)'
    <3> SUFFICES ASSUME NEW q \in Requests PROVE RequestOK(q)'
      OBVIOUS
    <3>1. CASE q = r
      BY <1>0, <1>1, <3>1, OwnIsOK
    <3>2. CASE q # r
      <4>1. Same(q) /\ clock' = clock
        BY <1>0, <1>1, <3>2, OthersSame
      <4>2. clock <= clock'
        BY <1>0, <4>1 DEF TypeOK, Cache!TypeOK
      <4> QED
        BY <1>0, <4>1, <4>2, SameIsOK
    <3> QED
      BY <3>1, <3>2
  <2>2. EntriesOK' /\ ServedIsPersisted'
    BY <1>1, StepEntries, StepReplies DEF EntriesOK, ServedIsPersisted
  <2> QED
    BY <1>0, <2>1, <2>2 DEF IInv
<1>2. CASE CacheSteps \/ UNCHANGED vars
  <2>1. /\ UNCHANGED <<pc, outcome, currency, begunAt, fanVars, updatedAt, saved, asked, reply>>
        /\ clock <= clock'
        /\ \A k \in Currencies : entries'[k] # None => entries'[k] = entries[k]
    BY <1>0, <1>2 DEF CacheSteps, Cache!Tick, Cache!Forget, vars, cacheVars, TypeOK, Cache!TypeOK
  <2>2. \A q \in Requests : Same(q)
    BY <2>1 DEF Same, fanVars
  <2>3. \A q \in Requests : RequestOK(q)'
    BY <1>0, <2>1, <2>2, SameIsOK
  <2>4. EntriesOK'
    BY <2>1 DEF IInv, EntriesOK
  <2>5. ServedIsPersisted'
    BY <2>1 DEF IInv, ServedIsPersisted, Servable
  <2> QED
    BY <1>0, <2>3, <2>4, <2>5 DEF IInv
<1>3. CASE Next
  <2>1. (\E r \in Requests : Step(r)) \/ CacheSteps
    BY <1>3, NextCases DEF Step, Requests
  <2> QED
    BY <1>1, <1>2, <2>1
<1> QED
  BY <1>2, <1>3

\* The inductive invariant holds in every reachable state.
THEOREM IInvHolds == Spec => []IInv
  BY InitIInv, NextIInv, PTL DEF Spec

\* Type correctness of the aggregator.
THEOREM TypeCorrect == Spec => []TypeOK
<1>1. IInv => TypeOK
  BY DEF IInv
<1> QED
  BY <1>1, IInvHolds, PTL

\* Whatever is cached or was served from the cache is the result of a
\* request that succeeded for that currency, in the store if there is one.
THEOREM ServedCorrect == Spec => []ServedIsPersisted
<1>1. IInv => ServedIsPersisted
  BY DEF IInv
<1> QED
  BY <1>1, IInvHolds, PTL

\* A call that has returned has no worker left.
THEOREM WorkersEnd == Spec => []NoOrphanWorkers
<1>1. IInv => NoOrphanWorkers
  BY DEF IInv, RequestOK, StageOK, NoOrphanWorkers
<1> QED
  BY <1>1, IInvHolds, PTL

\* A result holds all the usable quotes, and "no rates" means there were none.
THEOREM PartialFailure == Spec => []NothingUsableIsLost
<1>1. IInv => NothingUsableIsLost
  <2> SUFFICES ASSUME IInv, NEW r \in Requests
               PROVE  /\ updatedAt[r] # None =>
                             /\ sources[r] # {}
                             /\ sources[r] = {c \in Clients : answer[r][c] = "rate"}
                             /\ \A c \in Clients : answer[r][c] # None
                      /\ outcome[r] = "noRates" =>
                             \A c \in Clients : answer[r][c] \in Answers \ {"rate"}
    BY DEF NothingUsableIsLost
  <2>1. AnswersOK(r) /\ ResultOK(r)
    BY DEF IInv, RequestOK
  <2>2. ASSUME updatedAt[r] # None
        PROVE  /\ sources[r] # {}
               /\ sources[r] = {c \in Clients : answer[r][c] = "rate"}
               /\ \A c \in Clients : answer[r][c] # None
    <3>1. sources[r] # {} /\ \A c \in Clients : worker[r][c] = "taken"
      BY <2>1, <2>2 DEF ResultOK
    <3>2. \A c \in Clients : answer[r][c] \in Answers
      BY <2>1, <3>1 DEF AnswersOK
    <3>3. sources[r] = {c \in Clients : answer[r][c] = "rate"}
      BY <2>1, <3>1 DEF AnswersOK
    <3> QED
      BY <3>1, <3>2, <3>3, AggregatorAssumption
  <2>3. ASSUME outcome[r] = "noRates", NEW c \in Clients PROVE answer[r][c] \in Answers \ {"rate"}
    BY <2>1, <2>3 DEF AnswersOK
  <2> QED
    BY <2>2, <2>3
<1> QED
  BY <1>1, IInvHolds, PTL

\* Only a request that was already running when a result was published can
\* replace it by an older one.
THEOREM Monotonic == Spec => RegressOnlyByOverlap
<1> DEFINE Ordered ==
        \A k \in Currencies :
            entries[k] # None /\ entries'[k] # None /\ entries'[k] # entries[k] =>
                \/ updatedAt[entries'[k].value] >= updatedAt[entries[k].value]
                \/ begunAt[entries'[k].value] <= entries[k].expiresAt - TTL
<1>1. IInv /\ [Next]_vars => [Ordered]_vars
  <2> SUFFICES ASSUME IInv, Next, NEW k \in Currencies,
                      entries[k] # None, entries'[k] # None, entries'[k] # entries[k]
               PROVE  \/ updatedAt[entries'[k].value] >= updatedAt[entries[k].value]
                      \/ begunAt[entries'[k].value] <= entries[k].expiresAt - TTL
    OBVIOUS
  <2>0. /\ TypeOK /\ \A q \in Requests : RequestOK(q)
        /\ entries \in [Currencies -> Cache!Entry \cup {None}]
    BY DEF IInv, TypeOK, Cache!TypeOK
  <2>1. PICK r \in Requests : Publish(r) /\ entries'[k].value = r
    <3>1. ~CacheSteps
      BY DEF CacheSteps, Cache!Tick, Cache!Forget, TypeOK, Cache!TypeOK, IInv
    <3>2. PICK r \in Requests : Step(r)
      BY <3>1, NextCases DEF Step, Requests
    <3>3. /\ Publish(r) /\ currency[r] \in Currencies
          /\ entries' = [entries EXCEPT ![currency[r]] =
                              [value |-> r, expiresAt |-> clock + TTL]]
      BY <2>0, <3>2, PublishStores
    <3> QED
      BY <2>0, <3>3
  <2>2. begunAt[r] \in Nat /\ updatedAt[r] \in Nat /\ begunAt[r] <= updatedAt[r]
    BY <2>0, <2>1 DEF Publish, RequestOK, ResultOK, TypeOK
  <2>3. /\ entries[k].value \in Requests /\ entries[k].expiresAt \in Int
        /\ updatedAt[entries[k].value] \in Nat
        /\ updatedAt[entries[k].value] <= entries[k].expiresAt - TTL
    BY <2>0 DEF IInv, EntriesOK, ServedIsPersisted, Servable, Cache!Entry, TypeOK
  <2> QED
    BY <2>1, <2>2, <2>3, AggregatorAssumption
<1> QED
  BY <1>1, IInvHolds, PTL DEF Spec, RegressOnlyByOverlap

------------------------------------------------------------------------------
(* The counters.  Each step moves one request, and it counts the request   *)
(* exactly when the request joins the set that the counter stands for.     *)

WasHit(q, k) == currency[q] = k /\ reply[q] \in Requests
WasMiss(q, k) == currency[q] = k /\ reply[q] = Miss
WasError(q, c) == worker[q][c] = "taken" /\ c \notin sources[q]

HitsOf(k) == {q \in Fetchers : WasHit(q, k)}
MissesOf(k) == {q \in Fetchers : WasMiss(q, k)}
ErrorsOf(c) == {q \in Requests : WasError(q, c)}

\* Stronger than CountersReconcile: only finitely many are counted, whatever
\* the sets of requests are.
Tallies ==
    /\ \A k \in Currencies :
           /\ IsFiniteSet(HitsOf(k)) /\ hits[k] = Cardinality(HitsOf(k))
           /\ IsFiniteSet(MissesOf(k)) /\ misses[k] = Cardinality(MissesOf(k))
    /\ \A c \in Clients :
           IsFiniteSet(ErrorsOf(c)) /\ bankErrors[c] = Cardinality(ErrorsOf(c))

\* The steps after the lookup keep what the cache answered.
LEMMA AnsweredStays ==
  ASSUME NEW r \in Requests,
         \/ \E c \in Clients : ClientAnswers(r, c) \/ ClientDropped(r, c) \/ Receive(r, c)
         \/ CollectCanceled(r) \/ Drained(r)
         \/ AssembleCanceled(r) \/ AssembleNothing(r) \/ Assemble(r)
         \/ Save(r) \/ SaveFails(r) \/ Publish(r) \/ Cancel(r)
  PROVE  UNCHANGED <<currency, reply, hits, misses>>
  BY DEF ClientAnswers, ClientDropped, Receive, CollectCanceled, Drained, AssembleCanceled,
         AssembleNothing, Assemble, Save, SaveFails, Publish, Cache!Put, Cancel, cacheVars,
         metricVars

LEMMA HitStep ==
  ASSUME TypeOK, NEW r \in Fetchers, RequestOK(r), CacheHit(r), NEW k \in Currencies
  PROVE  /\ currency[r] \in Currencies
         /\ hits' = [hits EXCEPT ![currency[r]] = @ + 1] /\ misses' = misses
         /\ ~WasHit(r, k) /\ (WasHit(r, k)' <=> k = currency[r])
         /\ ~WasMiss(r, k) /\ ~WasMiss(r, k)'
<1> USE AggregatorAssumption
<1>1. /\ asked[r] \in Cache!Call /\ asked[r].currency = currency[r]
      /\ reply[r] = None /\ currency' = currency
  BY DEF CacheHit, Cache!AnswerHit, TypeOK, Cache!TypeOK, RequestOK, LookupOK
<1>2. currency[r] \in Currencies
  BY <1>1 DEF Cache!Call
<1>3. entries[currency[r]] \in Cache!Entry
  BY <1>1, <1>2 DEF CacheHit, Cache!AnswerHit, Cache!LiveAt, TypeOK, Cache!TypeOK
<1>4. reply'[r] \in Requests
  BY <1>1, <1>3 DEF CacheHit, Cache!AnswerHit, TypeOK, Cache!TypeOK, Cache!Entry
<1> QED
  BY <1>1, <1>2, <1>4 DEF CacheHit, WasHit, WasMiss

LEMMA MissStep ==
  ASSUME TypeOK, NEW r \in Fetchers, RequestOK(r), CacheMiss(r), NEW k \in Currencies
  PROVE  /\ currency[r] \in Currencies
         /\ misses' = [misses EXCEPT ![currency[r]] = @ + 1] /\ hits' = hits
         /\ ~WasMiss(r, k) /\ (WasMiss(r, k)' <=> k = currency[r])
         /\ ~WasHit(r, k) /\ ~WasHit(r, k)'
<1> USE AggregatorAssumption
<1>1. /\ asked[r] \in Cache!Call /\ asked[r].currency = currency[r]
      /\ reply[r] = None /\ currency' = currency
  BY DEF CacheMiss, Cache!AnswerMiss, TypeOK, Cache!TypeOK, RequestOK, LookupOK
<1>2. currency[r] \in Currencies
  BY <1>1 DEF Cache!Call
<1>3. reply'[r] = Miss
  BY DEF CacheMiss, Cache!AnswerMiss, TypeOK, Cache!TypeOK
<1> QED
  BY <1>1, <1>2, <1>3 DEF CacheMiss, WasHit, WasMiss

\* Every other step leaves the answers of the cache as they were.
LEMMA NoLookupStep ==
  ASSUME TypeOK, NEW r \in Requests, RequestOK(r), Step(r),
         ~(r \in Fetchers /\ (CacheHit(r) \/ CacheMiss(r))), NEW k \in Currencies
  PROVE  /\ hits' = hits /\ misses' = misses
         /\ r \in Fetchers => /\ WasHit(r, k)' <=> WasHit(r, k)
                              /\ WasMiss(r, k)' <=> WasMiss(r, k)
<1> USE AggregatorAssumption
<1>0. r \in Fetchers => reply \in [Fetchers -> Requests \cup {None, Miss}]
  BY DEF TypeOK, Cache!TypeOK
<1>1. ASSUME NEW j \in Currencies, CallCanceled(r, j) \/ FetchRates(r, j) \/ RefreshRates(r, j)
      PROVE  /\ hits' = hits /\ misses' = misses
             /\ r \in Fetchers => reply[r] = None /\ reply'[r] = None
  BY <1>0, <1>1
  DEF CallCanceled, FetchRates, RefreshRates, Called, Cache!Ask, RequestOK, LookupOK, cacheVars,
      metricVars
<1>2. CASE \E j \in Currencies : CallCanceled(r, j) \/ FetchRates(r, j) \/ RefreshRates(r, j)
  BY <1>1, <1>2 DEF WasHit, WasMiss
<1>3. CASE ~\E j \in Currencies : CallCanceled(r, j) \/ FetchRates(r, j) \/ RefreshRates(r, j)
  <2>1. UNCHANGED <<currency, reply, hits, misses>>
    BY <1>3, AnsweredStays DEF Step
  <2> QED
    BY <2>1 DEF WasHit, WasMiss
<1> QED
  BY <1>2, <1>3

\* A received answer is an error of its bank or one of the sources.
LEMMA ReceiveCounts ==
  ASSUME TypeOK, NEW r \in Requests, RequestOK(r), NEW c \in Clients, Receive(r, c)
  PROVE  /\ \A d \in Clients : d # c => (WasError(r, d)' <=> WasError(r, d))
         /\ \/ bankErrors' = bankErrors /\ (WasError(r, c)' <=> WasError(r, c))
            \/ /\ bankErrors' = [bankErrors EXCEPT ![c] = @ + 1]
               /\ ~WasError(r, c) /\ WasError(r, c)'
<1>1. /\ worker'[r] = [worker[r] EXCEPT ![c] = "taken"] /\ worker[r][c] = "sent"
      /\ sources'[r] = IF answer[r][c] = "rate" THEN sources[r] \cup {c} ELSE sources[r]
  BY DEF Receive, TypeOK
<1>2. c \notin sources[r]
  BY <1>1 DEF RequestOK, AnswersOK
<1>3. /\ worker'[r][c] = "taken"
      /\ \A d \in Clients : d # c => worker'[r][d] = worker[r][d]
  BY <1>1 DEF TypeOK
<1> QED
  BY <1>1, <1>2, <1>3 DEF Receive, IsBankError, WasError

\* Every other step of a request leaves its errors as they were.
LEMMA NoReceiveStep ==
  ASSUME TypeOK, NEW r \in Requests, RequestOK(r), Step(r), ~\E c \in Clients : Receive(r, c)
  PROVE  bankErrors' = bankErrors /\ \A c \in Clients : WasError(r, c)' <=> WasError(r, c)
<1>1. ASSUME FanOut(r), pc[r] \in {"idle", "lookup"}
      PROVE  \A c \in Clients : WasError(r, c)' <=> WasError(r, c)
  BY <1>1 DEF FanOut, TypeOK, RequestOK, StageOK, WasError
<1>2. CASE \E k \in Currencies : RefreshRates(r, k)
  BY <1>1, <1>2 DEF RefreshRates, Called, metricVars
<1>3. CASE r \in Fetchers /\ CacheMiss(r)
  BY <1>1, <1>3 DEF CacheMiss
<1>4. CASE \E c \in Clients : ClientAnswers(r, c) \/ ClientDropped(r, c)
  BY <1>4 DEF ClientAnswers, ClientDropped, TypeOK, WasError, metricVars
<1>5. CASE \/ \E k \in Currencies : CallCanceled(r, k) \/ FetchRates(r, k)
           \/ CacheHit(r) \/ CollectCanceled(r) \/ Drained(r)
           \/ AssembleCanceled(r) \/ AssembleNothing(r) \/ Assemble(r)
           \/ Save(r) \/ SaveFails(r) \/ Publish(r) \/ Cancel(r)
  <2>1. UNCHANGED <<worker, sources, bankErrors>>
    BY <1>5
    DEF CallCanceled, FetchRates, CacheHit, CollectCanceled, Drained, AssembleCanceled,
        AssembleNothing, Assemble, Save, SaveFails, Publish, Cancel, fanVars, metricVars
  <2> QED
    BY <2>1 DEF WasError
<1> QED
  BY <1>2, <1>3, <1>4, <1>5 DEF Step

LEMMA StepTallies ==
  ASSUME TypeOK, NEW r \in Requests, RequestOK(r), Step(r), Tallies
  PROVE  Tallies'
<1>0. Fetchers \subseteq Requests
  BY DEF Requests
<1>1. ASSUME NEW k \in Currencies
      PROVE  /\ IsFiniteSet(HitsOf(k))' /\ hits'[k] = Cardinality(HitsOf(k))'
             /\ IsFiniteSet(MissesOf(k))' /\ misses'[k] = Cardinality(MissesOf(k))'
  <2>0. /\ hits \in [Currencies -> Nat] /\ misses \in [Currencies -> Nat]
        /\ IsFiniteSet(HitsOf(k)) /\ hits[k] = Cardinality(HitsOf(k))
        /\ IsFiniteSet(MissesOf(k)) /\ misses[k] = Cardinality(MissesOf(k))
    BY DEF TypeOK, Tallies
  <2>1. \A q \in Fetchers : q # r => /\ (WasHit(q, k)' <=> WasHit(q, k))
                                     /\ (WasMiss(q, k)' <=> WasMiss(q, k))
    BY <1>0, OthersSame DEF Same, WasHit, WasMiss
  <2>2. \/ HitsOf(k)' = HitsOf(k) /\ hits'[k] = hits[k]
        \/ /\ r \notin HitsOf(k) /\ HitsOf(k)' = HitsOf(k) \cup {r}
           /\ hits'[k] = hits[k] + 1
    <3>1. CASE r \in Fetchers /\ CacheHit(r)
      <4>1. CASE k = currency[r]
        BY <2>0, <2>1, <3>1, <4>1, HitStep DEF HitsOf, WasHit, WasMiss
      <4>2. CASE k # currency[r]
        BY <2>0, <2>1, <3>1, <4>2, HitStep DEF HitsOf, WasHit, WasMiss
      <4> QED
        BY <4>1, <4>2
    <3>2. CASE r \in Fetchers /\ CacheMiss(r)
      BY <2>1, <3>2, MissStep DEF HitsOf, WasHit, WasMiss
    <3>3. CASE ~(r \in Fetchers /\ (CacheHit(r) \/ CacheMiss(r)))
      BY <2>1, <3>3, NoLookupStep DEF HitsOf, WasHit, WasMiss
    <3> QED
      BY <3>1, <3>2, <3>3
  <2>3. \/ MissesOf(k)' = MissesOf(k) /\ misses'[k] = misses[k]
        \/ /\ r \notin MissesOf(k) /\ MissesOf(k)' = MissesOf(k) \cup {r}
           /\ misses'[k] = misses[k] + 1
    <3>1. CASE r \in Fetchers /\ CacheMiss(r)
      <4>1. CASE k = currency[r]
        BY <2>0, <2>1, <3>1, <4>1, MissStep DEF MissesOf, WasHit, WasMiss
      <4>2. CASE k # currency[r]
        BY <2>0, <2>1, <3>1, <4>2, MissStep DEF MissesOf, WasHit, WasMiss
      <4> QED
        BY <4>1, <4>2
    <3>2. CASE r \in Fetchers /\ CacheHit(r)
      BY <2>1, <3>2, HitStep DEF MissesOf, WasHit, WasMiss
    <3>3. CASE ~(r \in Fetchers /\ (CacheHit(r) \/ CacheMiss(r)))
      BY <2>1, <3>3, NoLookupStep DEF MissesOf, WasHit, WasMiss
    <3> QED
      BY <3>1, <3>2, <3>3
  <2>4. IsFiniteSet(HitsOf(k)') /\ hits'[k] = Cardinality(HitsOf(k)')
    BY <2>0, <2>2, FS_AddElement
  <2>5. IsFiniteSet(MissesOf(k)') /\ misses'[k] = Cardinality(MissesOf(k)')
    BY <2>0, <2>3, FS_AddElement
  <2> QED
    BY <2>4, <2>5
<1>2. ASSUME NEW c \in Clients
      PROVE  IsFiniteSet(ErrorsOf(c))' /\ bankErrors'[c] = Cardinality(ErrorsOf(c))'
  <2>0. /\ bankErrors \in [Clients -> Nat]
        /\ IsFiniteSet(ErrorsOf(c)) /\ bankErrors[c] = Cardinality(ErrorsOf(c))
    BY DEF TypeOK, Tallies
  <2>1. \A q \in Requests : q # r => (WasError(q, c)' <=> WasError(q, c))
    BY OthersSame DEF Same, WasError
  <2>2. \/ ErrorsOf(c)' = ErrorsOf(c) /\ bankErrors'[c] = bankErrors[c]
        \/ /\ r \notin ErrorsOf(c) /\ ErrorsOf(c)' = ErrorsOf(c) \cup {r}
           /\ bankErrors'[c] = bankErrors[c] + 1
    <3>1. CASE \E d \in Clients : Receive(r, d)
      <4>1. PICK d \in Clients : Receive(r, d)
        BY <3>1
      <4>2. \/ WasError(r, c)' <=> WasError(r, c)
            \/ ~WasError(r, c) /\ WasError(r, c)'
        BY <4>1, ReceiveCounts
      <4>3. CASE c = d
        BY <2>0, <2>1, <4>1, <4>3, ReceiveCounts DEF ErrorsOf, WasError
      <4>4. CASE c # d
        BY <2>0, <2>1, <4>1, <4>4, ReceiveCounts DEF ErrorsOf, WasError
      <4> QED
        BY <4>3, <4>4
    <3>2. CASE ~\E d \in Clients : Receive(r, d)
      BY <2>1, <3>2, NoReceiveStep DEF ErrorsOf, WasError
    <3> QED
      BY <3>1, <3>2
  <2>3. IsFiniteSet(ErrorsOf(c)') /\ bankErrors'[c] = Cardinality(ErrorsOf(c)')
    BY <2>0, <2>2, FS_AddElement
  <2> QED
    BY <2>3
<1> QED
  BY <1>1, <1>2 DEF Tallies

\* Steps of the environment count nothing.
LEMMA QuietTallies ==
  ASSUME Tallies, UNCHANGED <<currency, reply, worker, sources, hits, misses, bankErrors>>
  PROVE  Tallies'
<1>1. /\ \A k \in Currencies : HitsOf(k)' = HitsOf(k) /\ MissesOf(k)' = MissesOf(k)
      /\ \A c \in Clients : ErrorsOf(c)' = ErrorsOf(c)
  BY DEF HitsOf, MissesOf, ErrorsOf, WasHit, WasMiss, WasError
<1> QED
  BY <1>1 DEF Tallies

\* The counters on /metrics are the numbers of what happened.
THEOREM CountersAgree == Spec => []CountersReconcile
<1>1. Init => Tallies
  <2> SUFFICES ASSUME Init PROVE Tallies
    OBVIOUS
  <2> USE AggregatorAssumption DEF Init, Cache!Init
  <2>1. \A k \in Currencies : HitsOf(k) = {} /\ MissesOf(k) = {}
    BY DEF HitsOf, MissesOf, WasHit, WasMiss, Requests
  <2>2. \A c \in Clients : ErrorsOf(c) = {}
    BY DEF ErrorsOf, WasError
  <2> QED
    BY <2>1, <2>2, FS_EmptySet DEF Tallies
<1>2. Tallies /\ IInv /\ [Next]_vars => Tallies'
  <2> SUFFICES ASSUME Tallies, IInv, [Next]_vars PROVE Tallies'
    OBVIOUS
  <2>1. CASE CacheSteps \/ UNCHANGED vars
    BY <2>1, QuietTallies
    DEF CacheSteps, Cache!Tick, Cache!Forget, vars, cacheVars, fanVars, metricVars
  <2>2. ASSUME NEW r \in Requests, Step(r) PROVE Tallies'
    BY <2>2, StepTallies DEF IInv
  <2> QED
    BY <2>1, <2>2, NextCases DEF Step, Requests
<1>3. Tallies => CountersReconcile
  <2>1. /\ \A k : HitsOf(k) = {r \in {q \in Fetchers : currency[q] = k} : reply[r] \in Requests}
        /\ \A k : MissesOf(k) = {r \in {q \in Fetchers : currency[q] = k} : reply[r] = Miss}
        /\ \A c : ErrorsOf(c) = {r \in Requests : worker[r][c] = "taken" /\ c \notin sources[r]}
    BY DEF HitsOf, MissesOf, ErrorsOf, WasHit, WasMiss, WasError
  <2> QED
    BY <2>1 DEF Tallies, CountersReconcile
<1> QED
  BY <1>1, <1>2, <1>3, IInvHolds, PTL DEF Spec
==============================================================================
