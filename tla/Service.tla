------------------------------- MODULE Service -------------------------------
(***************************************************************************)
(* cmd/server/main.go puts the parts together: the settings that were read *)
(* choose the clients and the write timeout of the server, and with them   *)
(* what a request gets.                                                     *)
(***************************************************************************)
EXTENDS Config

CONSTANTS Replies, Requests, NoAmount, ClientTimeout, One, MaxFloat, NaN, Inf, Garbled,
          NoRate, Asked, Timeout, Unasked  \* see BankClients

\* Numbers of the Bank of Russia are text, those of the others are JSON; both
\* parsers refuse one that is beyond float64.
Numbers == -MaxFloat .. MaxFloat
Texts == Numbers \cup {NaN, Inf, NoText, Garbled}

ASSUME ServiceAssumption ==
    /\ ClientTimeout \in Nat
    /\ One \in Nat \ {0} /\ MaxFloat \in Nat /\ MaxFloat >= 5 * One
    /\ \A r \in Requests : IF r.amount = NoAmount THEN r.from = r.to
                           ELSE r.from # r.to /\ r.amount \in 1 .. MaxFloat
    /\ NaN # Inf /\ {NaN, Inf, NoText, Garbled, NoAmount} \cap Int = {}
    /\ {NaN, Inf} \cap {NoText, Garbled} = {}
    /\ NoRate \notin [buy : Int \cup {NaN, Inf}, sell : Int \cup {NaN, Inf}]
    /\ Asked \notin {Timeout, Unasked} /\ Timeout # Unasked
    /\ DOMAIN Replies = {"Bank of Russia", "Frankfurter", "T-Bank"}
    /\ \A bank \in DOMAIN Replies : \A reply \in Replies[bank] :
           /\ reply \notin {Asked, Timeout, Unasked}
           /\ \A k \in DOMAIN reply.rows :
                  LET row == reply.rows[k] IN
                  IF bank = "Bank of Russia"
                  THEN row.unit \in Texts /\ row.value \in Texts /\ row.nominal \in Int
                  ELSE row.buy \in Numbers /\ row.sell \in Numbers
           /\ Len(reply.rows) \in Nat /\ DOMAIN reply.rows = 1 .. Len(reply.rows)

\* See BankClients.
VARIABLES request, currency, bought, spoiled, waited, began, got, arrived, response

Banks == INSTANCE BankClients WITH
    clients <- NewClients,
    writeTimeout <- cfg["WRITE_TIMEOUT"],
    Blank <- NoText

requestVars == <<request, currency, bought, spoiled, waited, began, got, arrived, response>>
serviceVars == <<vars, requestVars>>

ServiceInit == Init /\ Banks!InitRequest

Starts == Next /\ UNCHANGED requestVars

Serves == phase = "running" /\ UNCHANGED vars /\ Banks!Next

ServiceNext == Starts \/ Serves

ServiceSpec == ServiceInit /\ [][ServiceNext]_serviceVars

------------------------------------------------------------------------------
(* What BankClients promises, of the process that main has started.         *)
BestIsBest == Banks!BestIsBest
BodyUnlessNotANumber == Banks!BodyUnlessNotANumber

\* "If one source fails, the result is not blocked as long as another one
\* returned a correct rate" (README.md:37): the failure here is to hang.
HangingSourceBlocksNothing ==
    (\E i \in DOMAIN got : got[i] = Timeout) => Banks!OneSourceIsEnough

\* How many calls of FetchRates the request may take, one after the other.
Calls == IF request.amount = NoAmount \/ "RUB" \in {request.from, request.to} THEN 1 ELSE 2

\* Failing and hanging sources block nothing for who writes a WRITE_TIMEOUT
\* longer than the timeouts of the clients in all the calls that the request
\* takes, with a unit or as seconds, as long as it does not wrap around.
LongWriteTimeoutIsEnough ==
    /\ env["WRITE_TIMEOUT"].form \in {"duration", "integer"}
    /\ Written(env["WRITE_TIMEOUT"]) \in Calls * ClientTimeout + 1 .. Largest
    => Banks!OneSourceIsEnough
==============================================================================
