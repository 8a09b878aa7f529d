------------------------------ MODULE MCService ------------------------------
(* Durations in 5 bits: a second is 4, so 4 seconds wrap to something          *)
(* negative, 8 to zero and 9 to something positive.  The defaults keep what    *)
(* matters of their order: WRITE_TIMEOUT is the timeout of the clients.  The   *)
(* number 1 is 6 units and the largest is 5.                                   *)
EXTENDS Service, TLC

Listed(items) == [form |-> "list", items |-> items]
Text == [form |-> "text"]
Number(n) == [form |-> "integer", n |-> n]
Unit(n) == [form |-> "duration", n |-> n]

MCDefault == [s \in Durations |-> 2] @@ ("PORT" :> 3) @@ ("RATE_LIMIT_REQUESTS_PER_MINUTE" :> 6)
             @@ ("SCHEDULER_CURRENCIES" :> <<"USD", "EUR">>) @@ ("RATE_SOURCES" :> <<"cbr">>)

MCNormal == "USD" :> "USD" @@ " usd" :> "USD" @@ "EUR" :> "EUR" @@ "dollar" :> "dollar"
            @@ "cbr" :> "cbr" @@ " CBR" :> "cbr" @@ "tbank" :> "tbank" @@ "mock" :> "mock"
            @@ "frankfurter" :> "frankfurter" @@ " " :> NoText

AnyDuration == {Blank, Text, Unit(0), Unit(3), Number(-1), Number(2), Number(4), Number(8), Number(9)}
AnyInteger == {Text, Number(0), Number(1), Number(5)}
AnyCurrencies == {Listed(<<" usd", " ", "USD", "EUR">>), Listed(<<" ", " ">>), Listed(<<"USD", "dollar">>)}
AnySources == {Blank, Listed(<<"tbank", "cbr", " CBR">>), Listed(<<"mock", "cbr">>),
               Listed(<<"frankfurter", "mock">>), Listed(<<" ", " ">>), Listed(<<"cbr", "dollar">>)}

Unset == [s \in Settings \cup {"RATE_SOURCE"} |-> Blank]

\* One duration and the sources at a time, or one of the other settings.
MCEnvironments ==
    {[Unset EXCEPT !["RATE_SOURCES"] = r, !["RATE_SOURCE"] = o] :
         r \in AnySources, o \in {Blank, Listed(<<"tbank">>), Listed(<<"dollar">>)}}
    \cup {[Unset EXCEPT ![s] = d] : s \in Durations, d \in AnyDuration}
    \cup {[Unset EXCEPT ![s] = n] : s \in {"PORT", "RATE_LIMIT_REQUESTS_PER_MINUTE"}, n \in AnyInteger}
    \cup {[Unset EXCEPT !["SCHEDULER_CURRENCIES"] = c] : c \in AnyCurrencies}
    \cup {[Unset EXCEPT !["WRITE_TIMEOUT"] = w, !["RATE_SOURCES"] = Listed(<<"cbr", "tbank">>)] :
         w \in {Blank, Unit(3), Unit(5), Number(2)}}
    \cup {[Unset EXCEPT !["RATE_SOURCES"] = Listed(<<"tbank", "cbr", "frankfurter">>)]}

MCRequests ==
    {[from |-> c, to |-> c, amount |-> NoAmount] : c \in {"USD", "RUB"}}
    \cup {[from |-> "USD", to |-> t, amount |-> a] : t \in {"RUB", "EUR"}, a \in {6, 12}}
    \cup {[from |-> "RUB", to |-> "EUR", amount |-> 6]}

Row(c, u, v, n) == [code |-> c, unit |-> u, value |-> v, nominal |-> n]
CBRRows == {<<>>, <<Row("USD", 18, 18, 1)>>, <<Row("EUR", 6, 6, 1), Row("USD", NoText, 24, 2)>>,
            <<Row("USD", NoText, 24, 0), Row("USD", 18, 18, 1)>>, <<Row("USD", NaN, 18, 1)>>,
            <<Row("EUR", 1, 1, 1), Row("USD", NoText, Inf, 1)>>, <<Row("USD", Garbled, 18, 1)>>,
            <<Row("USD", NoText, 0, 1)>>}
JSONRow(c, b, s) == [code |-> c, buy |-> b, sell |-> s]
Bad == [good |-> FALSE, rows |-> <<>>]
Good(rows) == [good |-> TRUE, rows |-> rows]

MCReplies ==
    "Bank of Russia" :> {Bad} \cup {Good(r) : r \in CBRRows}
    @@ "T-Bank" :> {Bad, Good(<<JSONRow("EUR", 6, 18)>>), Good(<<JSONRow("USD", 12, 30)>>),
                    Good(<<JSONRow("USD", 24, 0)>>)}
    @@ "Frankfurter" :> {Bad, Good(<<JSONRow("EUR", 24, 24)>>), Good(<<JSONRow("USD", 30, 30)>>)}
==============================================================================
