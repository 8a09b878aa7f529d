----------------------------- MODULE BankClients -----------------------------
(***************************************************************************)
(* internal/bankclient and what a request makes of it: each client asks    *)
(* its site, which may answer anything or hang until the timeout of the    *)
(* http.Client; fetchFreshRates selects the best of the quotes; the        *)
(* handler of /rates writes the result.  That of /convert does this for    *)
(* each of its two currencies that is not the rouble, one after the other, *)
(* and writes an amount, while the connection's write deadline runs.       *)
(*                                                                         *)
(* One request that misses the cache, in a service without a database.     *)
(* Cancellation, the cache and saving are Aggregator's.  The program's own *)
(* steps take no time.  A float64 is NaN, Inf or a number of units, cut    *)
(* off below the unit and above MaxFloat; none here is negative.           *)
(***************************************************************************)
EXTENDS Integers, SequencesExt

CONSTANTS
    Replies,        \* [bank with a site -> what its site may answer]
    Requests,       \* [from, to, amount]
    NoAmount,       \* the amount of /rates, whose currency is from and to
    ClientTimeout,  \* of each http.Client
    One, MaxFloat,  \* the number 1 and the largest, in units
    NaN, Inf,       \* float64 has them, strconv.ParseFloat returns them
    Blank, Garbled, \* a text that is empty, one that is no number
    NoRate,         \* FetchRate returns an error
    Asked, Timeout, Unasked  \* see got

VARIABLES
    clients,       \* names of the banks, fixed at the start
    writeTimeout,  \* server.WriteTimeout, fixed at the start
    request,       \* one of Requests
    currency,      \* that FetchRates is called for
    bought,        \* what the first of two calls returned as BestBuy.Buy
    spoiled,       \* a bank sent that call no number (history)
    waited,        \* time since the header of the request was read
    began,         \* its value when FetchRates was called
    got,           \* [index in clients -> Asked, or what FetchRate got: a reply
                   \* of its site, Timeout, or Unasked when it needs no site]
    arrived,       \* indices in the order of the results channel
    response       \* what the user gets

vars == <<clients, writeTimeout, request, currency, bought, spoiled, waited, began,
          got, arrived, response>>

from == request.from
to == request.to
amount == request.amount

NoResponse == [status |-> "none"]

\* A conversion of a currency to itself asks no bank and is none of Requests.
InitRequest ==
    /\ request \in Requests
    /\ currency = IF from = "RUB" THEN to ELSE from
    /\ bought = One
    /\ spoiled = FALSE
    /\ waited = 0
    /\ began = 0
    /\ got = <<>>
    /\ arrived = <<>>
    /\ response = NoResponse

------------------------------------------------------------------------------
(* Prices.  Only those of the Bank of Russia are text; a number of JSON is  *)
(* finite.                                                                  *)

\* a > b of float64
Greater(a, b) == NaN \notin {a, b} /\ b # Inf /\ (a = Inf \/ a > b)

\* parseCBRDecimal: parsed <= 0 is false of NaN.
Decimal(text) == text \notin {Blank, Garbled} /\ (text = NaN \/ Greater(text, 0))

\* Mutant of Divisible: the nominal is not checked.
AnyNominal(n) == TRUE

Divisible(n) == n > 0

\* value / float64(v.Nominal)
Quotient(value, n) ==
    IF n = 0 THEN Inf ELSE IF value \in {NaN, Inf} THEN value ELSE value \div n

Quote(buy, sell) == [buy |-> buy, sell |-> sell]

\* cbrValute.rate
CBRQuote(row) ==
    CASE row.unit # Blank /\ Decimal(row.unit) -> Quote(row.unit, row.unit)
      [] row.unit = Blank /\ Decimal(row.value) /\ Divisible(row.nominal) ->
             Quote(Quotient(row.value, row.nominal), Quotient(row.value, row.nominal))
      [] OTHER -> NoRate

JSONQuote(row) == IF row.buy > 0 /\ row.sell > 0 THEN Quote(row.buy, row.sell) ELSE NoRate

RowQuote(bank, row) == IF bank = "Bank of Russia" THEN CBRQuote(row) ELSE JSONQuote(row)

\* What the answer of a site is worth.  It is good when its status, syntax,
\* result code and date are; rows of other categories, bases and targets
\* count as rows of another currency.  The first row of the currency decides,
\* even if it cannot be used.
SiteRate(bank, reply) ==
    LET matching == {k \in DOMAIN reply.rows : reply.rows[k].code = currency}
    IN  IF reply.good /\ matching # {} THEN RowQuote(bank, reply.rows[Min(matching)]) ELSE NoRate

\* DefaultMockBanks, with prices that keep their order.
MockRate(bank) ==
    CASE currency \notin {"USD", "EUR"} \/ bank = "Offline Bank" -> NoRate
      [] bank = "North Bank" -> Quote(3 * One, 5 * One)
      [] bank = "Metro Bank" -> Quote(2 * One, 4 * One)

Mock == {"North Bank", "Metro Bank", "Offline Bank"}

\* The clients that ask no site: rubles cost one ruble.
Local(i) == clients[i] \in Mock \/ currency = "RUB"
LocalRate(i) == IF clients[i] \in Mock THEN MockRate(clients[i]) ELSE Quote(One, One)

\* What FetchRate returns.
FetchRate(i) ==
    CASE got[i] = Unasked -> LocalRate(i)
      [] got[i] = Timeout -> NoRate
      [] OTHER -> SiteRate(clients[i], got[i])

------------------------------------------------------------------------------
Pending(i) == got[i] = Asked
Return(i, what) ==
    /\ Pending(i)
    /\ got' = [got EXCEPT ![i] = what]
    /\ arrived' = Append(arrived, i)
    /\ UNCHANGED <<clients, writeTimeout, request, currency, bought, spoiled, waited, began,
                   response>>

\* The request arrives and every client is asked.
Accept ==
    /\ got = <<>>
    /\ got' = [i \in DOMAIN clients |-> Asked]
    /\ UNCHANGED <<clients, writeTimeout, request, currency, bought, spoiled, waited, began,
                   arrived, response>>

ReturnLocal(i) == Local(i) /\ Return(i, Unasked)

SiteAnswers(i) == ~Local(i) /\ \E reply \in Replies[clients[i]] : Return(i, reply)

\* client.Do fails with the timeout of the http.Client.
TimedOut(i) == ~Local(i) /\ waited = began + ClientTimeout /\ Return(i, Timeout)

\* Only sites let time pass, and no site longer than the timeout.
Tick ==
    /\ \E i \in DOMAIN got : Pending(i)
    /\ \A i \in DOMAIN got : Pending(i) => ~Local(i)
    /\ waited < began + ClientTimeout
    /\ waited' = waited + 1
    /\ UNCHANGED <<clients, writeTimeout, request, currency, bought, spoiled, began,
                   got, arrived, response>>

\* Mutant of BetterBuy: the lowest price a bank buys for.
LowerBuy(rate, best) == Greater(best.buy, rate.buy)

BetterBuy(rate, best) == Greater(rate.buy, best.buy)
BetterSell(rate, best) == Greater(best.sell, rate.sell)

Better(side, rate, best) ==
    IF side = "buy" THEN BetterBuy(rate, best) ELSE BetterSell(rate, best)

\* The loop over sources[1:]
Best(side, sources) ==
    FoldLeft(LAMBDA best, rate : IF Better(side, rate, best) THEN rate ELSE best,
             sources[1], sources)

\* The loop of the collector: an error is not one of the sources.
Collected(rates) ==
    FoldLeft(LAMBDA sources, rate : IF rate = NoRate THEN sources ELSE Append(sources, rate),
             <<>>, rates)

Usable == Collected([k \in DOMAIN arrived |-> FetchRate(arrived[k])])

\* * and / of float64
Float(x) == IF x > MaxFloat THEN Inf ELSE x

Times(a, b) ==
    IF NaN \in {a, b} \/ {a, b} = {0, Inf} THEN NaN
    ELSE IF Inf \in {a, b} THEN Inf
    ELSE Float((a * b) \div One)

Over(a, b) ==
    IF NaN \in {a, b} \/ {a, b} \in {{0}, {Inf}} THEN NaN
    ELSE IF b = 0 \/ a = Inf THEN Inf
    ELSE IF b = Inf THEN 0
    ELSE Float((a * One) \div b)

\* fromRates.BestBuy.Buy and toRates.BestSell.Sell; roubles change by one.
Bought == IF currency = from THEN Best("buy", Usable).buy ELSE bought
Sold == IF to = "RUB" THEN One ELSE Best("sell", Usable).sell

\* The numbers of a conversion: the rates of its steps, the amount in the
\* other currency and the rate of the whole.
Conversion ==
    LET rubles == Times(amount, Bought)
        stepRate == Over(One, Sold)
        converted == Times(rubles, stepRate)
    IN  {Bought, stepRate, converted, Over(converted, amount)}

\* /rates shows all quotes; JSON has neither NaN nor Inf.
Shown ==
    IF amount = NoAmount THEN UNION {{rate.buy, rate.sell} : rate \in ToSet(Usable)} ELSE Conversion
Encodable == Shown \cap {NaN, Inf} = {}

\* net/http: no deadline unless the timeout is positive.
InTime == writeTimeout <= 0 \/ waited < writeTimeout

\* What the handler makes of it.
Answer ==
    IF Usable = <<>> THEN [status |-> "no rates", delivered |-> InTime]
    ELSE [status |-> "ok", delivered |-> InTime, body |-> Encodable,
          bestBuy |-> Best("buy", Usable), bestSell |-> Best("sell", Usable)]

\* Every client has returned, and FetchRates goes on.
AllReturned == got # <<>> /\ \A i \in DOMAIN got : got[i] # Asked

\* The Bank of Russia sent the words NaN or Inf for a price.
SentNoNumber ==
    \E i \in DOMAIN got :
        /\ clients[i] = "Bank of Russia" /\ got[i] \notin {Timeout, Unasked}
        /\ \E k \in DOMAIN got[i].rows :
               {got[i].rows[k].unit, got[i].rows[k].value} \cap {NaN, Inf} # {}

LastCall == currency = to \/ to = "RUB"

\* convertAmount calls FetchRates for the other currency.
SecondCall ==
    /\ response = NoResponse
    /\ AllReturned
    /\ Usable # <<>>
    /\ ~LastCall
    /\ bought' = Bought
    /\ spoiled' = SentNoNumber
    /\ currency' = to
    /\ began' = waited
    /\ got' = [i \in DOMAIN clients |-> Asked]
    /\ arrived' = <<>>
    /\ UNCHANGED <<clients, writeTimeout, request, waited, response>>

\* The handler writes.  An error of the encoder comes after the status and is
\* ignored.
Respond ==
    /\ response = NoResponse
    /\ AllReturned
    /\ LastCall \/ Usable = <<>>
    /\ response' = Answer
    /\ UNCHANGED <<clients, writeTimeout, request, currency, bought, spoiled, waited, began,
                   got, arrived>>

Next ==
    \/ Accept
    \/ \E i \in DOMAIN got : ReturnLocal(i) \/ SiteAnswers(i) \/ TimedOut(i)
    \/ Tick
    \/ SecondCall
    \/ Respond

------------------------------------------------------------------------------
Answered == response.status # "none"

\* Whatever the order in which the quotes come in: no quote buys for more
\* than the best buy and none sells for less than the best sell, quotes that
\* are not a number aside; and a best price that is not a number only comes
\* from the quote that arrived first, so it needs a bank that sent one.
BestIsBest ==
    response.status = "ok" =>
        LET sources == ToSet(Usable) IN
        /\ {response.bestBuy, response.bestSell} \subseteq sources
        /\ \A s \in sources : /\ ~Greater(s.buy, response.bestBuy.buy)
                              /\ ~Greater(response.bestSell.sell, s.sell)
        /\ NaN \in {response.bestBuy.buy, response.bestSell.sell} => Usable[1].buy = NaN

\* A number of the conversion is beyond float64 by exact arithmetic: the
\* roubles, a rouble's worth, the amount or the rate.
Exceeds(a, b) == a > MaxFloat * b
OutOfRange ==
    /\ amount # NoAmount
    /\ {Bought, Sold} \cap {NaN, Inf} = {}
    /\ \/ Exceeds(amount * Bought, One)
       \/ Exceeds(One * One, Sold)
       \/ Exceeds(amount * Bought, Sold)
       \/ Exceeds(Bought * One, Sold)

Excused == spoiled \/ SentNoNumber \/ OutOfRange

\* A status 200 with no body after it needs a bank that itself sent the words
\* NaN or Inf for a price, to either call, or an amount and prices whose
\* conversion no float64 can hold: no division by a nominal, no zero times
\* infinity and no rounding on the way spoils an answer otherwise.
BodyUnlessNotANumber == response.status = "ok" /\ ~response.body => Excused

\* Sources that fail, hang or send rubbish do not stop the answer as long as
\* one returned a rate: the user gets it in time, and with a body.
OneSourceIsEnough ==
    Answered /\ Usable # <<>> =>
        response.status = "ok" /\ response.delivered /\ (response.body \/ Excused)
==============================================================================
