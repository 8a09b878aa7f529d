-------------------------------- MODULE HttpApi --------------------------------
(***************************************************************************)
(* internal/httpapi: a request on its way through the middleware           *)
(*     requestMetrics(requestLogger(rateLimitMiddleware(mux)))             *)
(* to a handler, its calls of the aggregator or of the store, the status   *)
(* that goes out, and the counter that is kept of it.                      *)
(*                                                                         *)
(* What the limiter, the aggregator and the store answer is theirs, see    *)
(* RateLimiter, Aggregator and RateStore.  An error is the set of the      *)
(* sentinel errors it matches with errors.Is.  Query parameters are valid  *)
(* or not, except the dates; rates, amounts and the bodies of /rates and   *)
(* /convert are those of BankClients.                                      *)
(***************************************************************************)
EXTENDS Integers, SequencesExt, FiniteSets

CONSTANTS
    Requests,
    HasStore,  \* h.history is not nil: DATABASE_URL is set
    Day,       \* instants in a day
    LastDay,   \* bound on the dates that are asked for
    None

ASSUME ApiAssumption ==
    /\ HasStore \in BOOLEAN
    /\ Day \in Nat \ {0}
    /\ LastDay \in Nat

RUB == "RUB"
Codes == {RUB, "USD", "EUR"}

\* "/health" stands for the routes that call nothing: /metrics and pprof too.
Routes == {"/health", "/rates", "/convert", "/rates/history", "/rates/history/by-date"}

\* A bound of the range: a date is its first instant.
Bounds == [at : 0 .. Day * (LastDay + 1), dateOnly : {FALSE}]
             \cup [at : {Day * d : d \in 0 .. LastDay}, dateOnly : {TRUE}]

VARIABLES
    pc,        \* [Requests -> where it is]
    req,       \* [Requests -> route, method and parameters]
    canceled,  \* [Requests -> r.Context() is done]
    legs,      \* [Requests -> currencies convertAmount still has to fetch]
    steps,     \* [Requests -> the exchange steps so far]
    calls,     \* [Requests -> calls of FetchRates, History, HistoryByDate]
    range,     \* [Requests -> from and to as they reach the store]
    failure,   \* [Requests -> the error of its last call] (history)
    status,    \* [Requests -> the status sent]
    total      \* [label and status -> Nat], http_requests_total

callVars == <<legs, steps, calls, range, failure>>
vars == <<pc, req, canceled, callVars, status, total>>

Labels == Routes \cup {"unmatched"}
Statuses == {200, 400, 404, 405, 429, 499, 500, 503, 504}

\* The errors that the handlers tell apart.
Sentinels == {"canceled", "deadlineExceeded", "invalidCurrency", "noRates"}

\* None is neither a status nor an error.
ASSUME NoneAssumption == None \notin Statuses /\ \A err \in SUBSET Sentinels : None # err

Init ==
    /\ pc = [r \in Requests |-> "idle"]
    /\ req = [r \in Requests |-> None]
    /\ canceled = [r \in Requests |-> FALSE]
    /\ legs = [r \in Requests |-> <<>>]
    /\ steps = [r \in Requests |-> <<>>]
    /\ calls = [r \in Requests |-> 0]
    /\ range = [r \in Requests |-> None]
    /\ failure = [r \in Requests |-> None]
    /\ status = [r \in Requests |-> None]
    /\ total = [x \in Labels \X Statuses |-> 0]

Goto(r, stage) == pc' = [pc EXCEPT ![r] = stage] /\ UNCHANGED status

\* writeJSON or writeError, then back through the middleware
Write(r, s) ==
    /\ status' = [status EXCEPT ![r] = s]
    /\ pc' = [pc EXCEPT ![r] = "observe"]

------------------------------------------------------------------------------
(* The middleware and the routes.                                          *)

Inputs ==
    [route : Routes \cup {"/other"}, get : BOOLEAN, valid : BOOLEAN,
     from : Codes, to : Codes, since : Bounds, until : Bounds]

\* Only the parameters of the route are told apart, and only in a request
\* that could be answered.
Input(i) ==
    /\ (i.route = "/convert" /\ i.get /\ i.valid) \/ (i.from = "USD" /\ i.to = RUB)
    /\ \/ i.route = "/rates/history/by-date" /\ i.get /\ i.valid
       \/ i.since = [at |-> 0, dateOnly |-> TRUE] /\ i.until = i.since
    /\ i.route \in {"/health", "/other"} => i.valid

Arrive(r) ==
    /\ pc[r] = "idle"
    /\ \E i \in Inputs : Input(i) /\ req' = [req EXCEPT ![r] = i]
    /\ Goto(r, "limit")
    /\ UNCHANGED <<canceled, callVars, total>>

\* Mutant of Refused: the refusal is written outside of the metrics.
RefusedUncounted(r) ==
    /\ status' = [status EXCEPT ![r] = 429]
    /\ pc' = [pc EXCEPT ![r] = "done"]

Refused(r) == Write(r, 429)

\* limiter.Allow(clientIP(r))
Limit(r) ==
    /\ pc[r] = "limit"
    /\ Refused(r) \/ Goto(r, "mux")
    /\ UNCHANGED <<req, canceled, callVars, total>>

Mux(r) ==
    /\ pc[r] = "mux"
    /\ IF req[r].route = "/other" THEN Write(r, 404)
       ELSE IF ~req[r].get THEN Write(r, 405)
       ELSE IF req[r].route = "/health" THEN Write(r, 200)
       ELSE Goto(r, "parse")
    /\ UNCHANGED <<req, canceled, callVars, total>>

\* requestMetrics, after the handler has returned.  metricPathLabel keeps
\* the paths without a route under one label.
Label(r) == IF req[r].route \in Routes THEN req[r].route ELSE "unmatched"

Observe(r) ==
    /\ pc[r] = "observe"
    /\ total' = [total EXCEPT ![<<Label(r), status[r]>>] = @ + 1]
    /\ Goto(r, "done")
    /\ UNCHANGED <<req, canceled, callVars>>

------------------------------------------------------------------------------
(* Parameters.                                                             *)

\* convertAmount: RUB needs no rate.
Leg(code) == IF code = RUB THEN <<>> ELSE <<code>>

\* Mutants: a date ends at its first instant; the legs in the wrong order.
UntilMidnight(b) == b.at
LegsReversed(from, to) == Leg(to) \o Leg(from)

\* parseHistoryDateRange: a date as the end of the range includes its day.
Upper(b) == IF b.dateOnly THEN b.at + Day ELSE b.at

Legs(from, to) == Leg(from) \o Leg(to)

ParseFails(r) ==
    /\ pc[r] = "parse"
    /\ \/ ~req[r].valid
       \/ /\ req[r].route = "/rates/history/by-date"
          /\ req[r].since.at >= Upper(req[r].until)
    /\ Write(r, 400)
    /\ UNCHANGED <<req, canceled, callVars, total>>

ParseRates(r) ==
    /\ pc[r] = "parse"
    /\ req[r].valid
    /\ req[r].route = "/rates"
    /\ legs' = [legs EXCEPT ![r] = <<req[r].from>>]
    /\ Goto(r, "fetch")
    /\ UNCHANGED <<req, canceled, steps, calls, range, failure, total>>

\* from = to is answered at once, with rate 1 and no steps.
ParseConvert(r) ==
    /\ pc[r] = "parse"
    /\ req[r].valid
    /\ req[r].route = "/convert"
    /\ IF req[r].from = req[r].to
       THEN Write(r, 200) /\ UNCHANGED legs
       ELSE Goto(r, "fetch") /\ legs' = [legs EXCEPT ![r] = Legs(req[r].from, req[r].to)]
    /\ UNCHANGED <<req, canceled, steps, calls, range, failure, total>>

ParseHistory(r) ==
    /\ pc[r] = "parse"
    /\ req[r].valid
    /\ \/ req[r].route = "/rates/history" /\ UNCHANGED range
       \/ /\ req[r].route = "/rates/history/by-date"
          /\ req[r].since.at < Upper(req[r].until)
          /\ range' = [range EXCEPT ![r] = [from |-> req[r].since.at,
                                            to |-> Upper(req[r].until)]]
    /\ IF HasStore THEN Goto(r, "query") ELSE Write(r, 500)
    /\ UNCHANGED <<req, canceled, legs, steps, calls, failure, total>>

------------------------------------------------------------------------------
(* The calls and their errors.                                             *)

\* Mutant of StatusOf: no rates are a bad gateway.
BadGateway(err) == IF "noRates" \in err THEN 502 ELSE 500

\* The switch of ratesHandler, writeRatesError and the history handlers.
StatusOf(err) ==
    IF "canceled" \in err THEN 499
    ELSE IF "deadlineExceeded" \in err THEN 504
    ELSE IF "invalidCurrency" \in err THEN 400
    ELSE IF "noRates" \in err THEN 503
    ELSE 500

\* What FetchRates may return: ctx.Err(); ErrNoRatesAvailable joined with
\* the errors of the clients, of which the timeout of an http.Client
\* matches DeadlineExceeded and an answer in no valid currency is
\* ErrInvalidCurrencyCode (normalizeFetchedRate); a failed save, whose
\* connection may have timed out.
FetchErrors(r) ==
    (IF canceled[r] THEN {{"canceled"}} ELSE {})
        \cup {{"noRates"} \cup joined : joined \in SUBSET {"deadlineExceeded", "invalidCurrency"}}
        \cup (IF HasStore THEN {{}, {"deadlineExceeded"}} ELSE {})

\* The store normalizes the currency of every row it reads.
QueryErrors(r) ==
    (IF canceled[r] THEN {{"canceled"}} ELSE {})
        \cup {{}, {"deadlineExceeded"}, {"invalidCurrency"}}

Called(r) == calls' = [calls EXCEPT ![r] = @ + 1]

\* BestBuy takes from to roubles, BestSell roubles to to.
Step(r) ==
    LET k == Head(legs[r])
    IN  IF steps[r] = <<>> /\ k = req[r].from THEN <<k, RUB>> ELSE <<RUB, k>>

FetchRates(r) ==
    /\ pc[r] = "fetch"
    /\ legs[r] # <<>>
    /\ Called(r)
    /\ steps' = [steps EXCEPT ![r] = Append(@, Step(r))]
    /\ legs' = [legs EXCEPT ![r] = Tail(@)]
    /\ IF Len(legs[r]) = 1 THEN Write(r, 200) ELSE Goto(r, "fetch")
    /\ UNCHANGED <<req, canceled, range, failure, total>>

FetchFails(r) ==
    /\ pc[r] = "fetch"
    /\ legs[r] # <<>>
    /\ Called(r)
    /\ \E err \in FetchErrors(r) :
           /\ failure' = [failure EXCEPT ![r] = err]
           /\ Write(r, StatusOf(err))
    /\ UNCHANGED <<req, canceled, legs, steps, range, total>>

History(r) ==
    /\ pc[r] = "query"
    /\ Called(r)
    /\ Write(r, 200)
    /\ UNCHANGED <<req, canceled, legs, steps, range, failure, total>>

HistoryFails(r) ==
    /\ pc[r] = "query"
    /\ Called(r)
    /\ \E err \in QueryErrors(r) :
           /\ failure' = [failure EXCEPT ![r] = err]
           /\ Write(r, StatusOf(err))
    /\ UNCHANGED <<req, canceled, legs, steps, range, total>>

\* The client goes away before the answer is written.  net/http gives the
\* context no deadline.
Cancel(r) ==
    /\ pc[r] \notin {"idle", "observe", "done"}
    /\ ~canceled[r]
    /\ canceled' = [canceled EXCEPT ![r] = TRUE]
    /\ UNCHANGED <<pc, req, callVars, status, total>>

Parse(r) == ParseFails(r) \/ ParseRates(r) \/ ParseConvert(r) \/ ParseHistory(r)
Call(r) == FetchRates(r) \/ FetchFails(r) \/ History(r) \/ HistoryFails(r)

Next == \E r \in Requests :
    Arrive(r) \/ Limit(r) \/ Mux(r) \/ Parse(r) \/ Call(r) \/ Observe(r) \/ Cancel(r)

Spec == Init /\ [][Next]_vars

------------------------------------------------------------------------------
TypeOK ==
    /\ pc \in [Requests -> {"idle", "limit", "mux", "parse", "fetch", "query", "observe",
                            "done"}]
    /\ req \in [Requests -> Inputs \cup {None}]
    /\ canceled \in [Requests -> BOOLEAN]
    /\ legs \in [Requests -> Seq(Codes)]
    /\ steps \in [Requests -> Seq(Codes \X Codes)]
    /\ calls \in [Requests -> 0 .. 2]
    /\ range \in [Requests -> [from : Nat, to : Nat] \cup {None}]
    /\ failure \in [Requests -> (SUBSET Sentinels) \cup {None}]
    /\ status \in [Requests -> Statuses \cup {None}]
    /\ total \in [Labels \X Statuses -> Nat]

\* http_requests_total counts every finished request once, under its route
\* and the status its client was sent, the refused ones included.
EveryRequestIsCounted ==
    \A label \in Labels, s \in Statuses :
        total[<<label, s>>] = Cardinality({r \in Requests :
                              pc[r] = "done" /\ Label(r) = label /\ status[r] = s})

\* The client is at fault: no handler needs a call to find out.
Malformed(r) ==
    \/ ~req[r].valid
    \/ req[r].route = "/rates/history/by-date" /\ req[r].since.at >= Upper(req[r].until)

\* A conversion that is answered with 200 leads from one currency to the
\* other without a gap, and used one fresh answer for each end that is not
\* roubles.  A request that is refused, has no route or is malformed has
\* cost no call at all, and a well-formed one is only answered with 400
\* when its last call met a currency that is none in what a bank or the
\* store returned.
AnswersAreEarned ==
    \A r \in Requests :
        /\ status[r] \in {404, 405, 429} => calls[r] = 0
        /\ status[r] # None /\ Malformed(r) => calls[r] = 0 /\ status[r] # 200
        /\ status[r] = 400 /\ ~Malformed(r) =>
               failure[r] # None /\ "invalidCurrency" \in failure[r]
        /\ status[r] = 200 /\ req[r].route = "/convert" /\ req[r].from # req[r].to =>
               /\ calls[r] = Len(steps[r])
               /\ steps[r] # <<>>
               /\ steps[r][1][1] = req[r].from
               /\ Last(steps[r])[2] = req[r].to
               /\ \A i \in 1 .. Len(steps[r]) - 1 : steps[r][i][2] = steps[r][i + 1][1]

\* "Date-only values include the whole day": with dates at both ends the
\* store is asked for every instant of these days and for no other.
WholeDays ==
    \A r \in Requests :
        range[r] # None /\ req[r].since.dateOnly /\ req[r].until.dateOnly =>
            \A t \in 0 .. Day * (LastDay + 2) :
                (t >= range[r].from /\ t < range[r].to) <=>
                    t \div Day \in (req[r].since.at \div Day) .. (req[r].until.at \div Day)

\* openapi.yaml, 503: "No source returned a usable rate."
NoRatesIs503 ==
    \A r \in Requests :
        failure[r] # None /\ "noRates" \in failure[r] => status[r] = 503
==============================================================================
