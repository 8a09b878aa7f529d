----------------------------- MODULE HttpApiProofs -----------------------------
(***************************************************************************)
(* Proofs about HttpApi for every set of requests, length of a day and     *)
(* range of dates, with and without a store.                               *)
(***************************************************************************)
EXTENDS HttpApi, FiniteSetTheorems, SequenceTheorems, TLAPS

------------------------------------------------------------------------------
(* What is kept of each request on its way.                                *)

\* Nothing was called yet and nothing is known of the parameters.
Untouched(r) == calls[r] = 0 /\ steps[r] = <<>> /\ range[r] = None

\* The legs of a conversion that are done and those that are left.
OnTheWay(r) ==
    \/ steps[r] = <<>> /\ legs[r] = Legs(req[r].from, req[r].to)
    \/ /\ RUB \notin {req[r].from, req[r].to}
       /\ steps[r] = <<<<req[r].from, RUB>>>>
       /\ legs[r] = <<req[r].to>>

Fetching(r) ==
    /\ calls[r] = Len(steps[r])
    /\ range[r] = None
    /\ \/ req[r].route = "/rates" /\ steps[r] = <<>> /\ Len(legs[r]) = 1
       \/ req[r].route = "/convert" /\ req[r].from # req[r].to /\ OnTheWay(r)

\* The steps of a conversion that was answered.
Led(r) ==
    /\ calls[r] = Len(steps[r])
    /\ \/ RUB \in {req[r].from, req[r].to} /\ steps[r] = <<<<req[r].from, req[r].to>>>>
       \/ steps[r] = <<<<req[r].from, RUB>>, <<RUB, req[r].to>>>>

Along(r) ==
    /\ pc[r] # "idle" => req[r] \in Inputs /\ Input(req[r])
    /\ pc[r] \in {"observe", "done"} <=> status[r] # None
    /\ pc[r] \in {"idle", "limit", "mux", "parse"} => Untouched(r)
    /\ pc[r] = "fetch" => Fetching(r)
    /\ pc[r] = "query" => calls[r] = 0 /\ req[r].route \notin {"/rates", "/convert"}
    /\ range[r] # None => range[r] = [from |-> req[r].since.at, to |-> Upper(req[r].until)]
    /\ pc[r] \in {"fetch", "query"} => ~Malformed(r)
    /\ status[r] \in {404, 405, 429} => calls[r] = 0
    /\ status[r] # None /\ Malformed(r) => calls[r] = 0 /\ status[r] # 200
    /\ status[r] = 400 /\ ~Malformed(r) => failure[r] # None /\ "invalidCurrency" \in failure[r]
    /\ status[r] = 200 /\ req[r].route = "/convert" /\ req[r].from # req[r].to => Led(r)

\* The requests that were counted under a route and a status.
Counted(label, s) == {r \in Requests : pc[r] = "done" /\ Label(r) = label /\ status[r] = s}

Totals ==
    \A label \in Labels, s \in Statuses :
        /\ IsFiniteSet(Counted(label, s))
        /\ total[<<label, s>>] = Cardinality(Counted(label, s))

\* The inductive invariant.
IInv == TypeOK /\ (\A r \in Requests : Along(r)) /\ Totals

------------------------------------------------------------------------------
LEMMA LegsOfTwo ==
    ASSUME NEW from \in Codes, NEW to \in Codes, from # to
    PROVE  Legs(from, to) = IF from = RUB THEN <<to>>
                            ELSE IF to = RUB THEN <<from>> ELSE <<from, to>>
<1>1. <<>> \o <<to>> = <<to>> /\ <<from>> \o <<>> = <<from>>
  <2>1. <<to>> \in Seq(Codes) /\ <<from>> \in Seq(Codes)
    OBVIOUS
  <2> QED
    BY <2>1, ConcatEmptySeq
<1>2. <<from>> \o <<to>> = <<from, to>>
  <2>1. <<from>> \in Seq(Codes) /\ <<to>> \in Seq(Codes) /\ <<from, to>> \in Seq(Codes)
    OBVIOUS
  <2>2. Len(<<from>>) = 1 /\ Len(<<to>>) = 1 /\ Len(<<from, to>>) = 2
    OBVIOUS
  <2>3. /\ <<from>> \o <<to>> \in Seq(Codes)
        /\ Len(<<from>> \o <<to>>) = 2
        /\ \A i \in 1 .. 2 : (<<from>> \o <<to>>)[i] = <<from, to>>[i]
    BY <2>1, <2>2, ConcatProperties
  <2> QED
    BY <2>1, <2>2, <2>3, SeqEqual
<1> QED
  BY <1>1, <1>2 DEF Legs, Leg

\* Sequences of one and two elements.
LEMMA ShortSequences ==
    ASSUME NEW S, NEW a \in S, NEW b \in S
    PROVE  /\ Append(<<>>, a) = <<a>> /\ Append(<<a>>, b) = <<a, b>>
           /\ Tail(<<a>>) = <<>> /\ Tail(<<a, b>>) = <<b>>
<1>1. /\ <<>> \in Seq(S) /\ <<a>> \in Seq(S) /\ <<b>> \in Seq(S) /\ <<a, b>> \in Seq(S)
      /\ Len(<<>>) = 0 /\ Len(<<a>>) = 1 /\ Len(<<b>>) = 1 /\ Len(<<a, b>>) = 2
  OBVIOUS
<1>2. Append(<<>>, a) = <<a>>
  <2>1. /\ Append(<<>>, a) \in Seq(S)
        /\ Len(Append(<<>>, a)) = 1
        /\ Append(<<>>, a)[1] = a
    BY <1>1, AppendProperties
  <2> QED
    BY <1>1, <2>1, SeqEqual
<1>3. Append(<<a>>, b) = <<a, b>>
  <2>1. /\ Append(<<a>>, b) \in Seq(S)
        /\ Len(Append(<<a>>, b)) = 2
        /\ \A i \in 1 .. 2 : Append(<<a>>, b)[i] = <<a, b>>[i]
    BY <1>1, AppendProperties
  <2> QED
    BY <1>1, <2>1, SeqEqual
<1>4. Tail(<<a>>) = <<>>
  BY <1>1, HeadTailProperties, EmptySeq
<1>5. Tail(<<a, b>>) = <<b>>
  <2>1. /\ Tail(<<a, b>>) \in Seq(S)
        /\ Len(Tail(<<a, b>>)) = 1
        /\ Tail(<<a, b>>)[1] = b
    BY <1>1, HeadTailProperties
  <2> QED
    BY <1>1, <2>1, SeqEqual
<1> QED
  BY <1>2, <1>3, <1>4, <1>5

\* A date and the end of its day are instants.
LEMMA UpperType == \A b \in Bounds : b.at \in Nat /\ Upper(b) \in Nat
<1>1. Day \in Nat /\ LastDay \in Nat
  BY ApiAssumption
<1>2. ASSUME NEW d \in 0 .. LastDay PROVE Day * d \in Nat
  BY <1>1
<1>3. ASSUME NEW b \in Bounds PROVE b.at \in Nat
  <2>1. 0 .. Day * (LastDay + 1) \subseteq Nat
    OBVIOUS
  <2>2. {Day * d : d \in 0 .. LastDay} \subseteq Nat
    BY <1>2
  <2> QED
    BY <2>1, <2>2 DEF Bounds
<1> QED
  BY <1>1, <1>3 DEF Upper

------------------------------------------------------------------------------
(* A step of one request leaves the others alone.                          *)

RequestStep(r) ==
    Arrive(r) \/ Limit(r) \/ Mux(r) \/ Parse(r) \/ Call(r) \/ Observe(r) \/ Cancel(r)

Same(q) ==
    /\ pc'[q] = pc[q] /\ req'[q] = req[q] /\ legs'[q] = legs[q] /\ steps'[q] = steps[q]
    /\ calls'[q] = calls[q] /\ range'[q] = range[q] /\ status'[q] = status[q]
    /\ failure'[q] = failure[q]

LEMMA OthersStay ==
    ASSUME TypeOK, NEW r \in Requests, RequestStep(r), NEW q \in Requests, q # r
    PROVE  Same(q)
<1> USE DEF TypeOK, Same, Goto, Write, callVars
<1>1. CASE Arrive(r) \/ Limit(r) \/ Mux(r) \/ Observe(r) \/ Cancel(r)
  BY <1>1 DEF Arrive, Limit, Refused, Mux, Observe, Cancel
<1>2. CASE ParseFails(r) \/ ParseRates(r) \/ ParseConvert(r) \/ ParseHistory(r)
  BY <1>2 DEF ParseFails, ParseRates, ParseConvert, ParseHistory
<1>3. CASE FetchRates(r) \/ FetchFails(r) \/ History(r) \/ HistoryFails(r)
  BY <1>3 DEF FetchRates, FetchFails, History, HistoryFails, Called
<1> QED
  BY <1>1, <1>2, <1>3 DEF RequestStep, Parse, Call

LEMMA SameAlong ==
    ASSUME NEW q \in Requests, Along(q), Same(q)
    PROVE  Along(q)'
BY DEF Same, Along, Untouched, Fetching, OnTheWay, Led, Malformed

------------------------------------------------------------------------------
(* The request that takes the step.                                        *)

LEMMA InputType ==
    ASSUME NEW i \in Inputs
    PROVE  /\ i.from \in Codes /\ i.to \in Codes
           /\ i.since \in Bounds /\ i.until \in Bounds
           /\ i.route \in Routes \cup {"/other"}
BY DEF Inputs

\* What the legs and steps of a conversion become by one more answer.
LEMMA OneMoreLeg ==
    ASSUME NEW r \in Requests, req[r] \in Inputs, Fetching(r), legs[r] # <<>>,
           req[r].route = "/convert"
    PROVE  LET done == Append(steps[r], Step(r))
               left == Tail(legs[r])
           IN  \/ /\ Len(legs[r]) = 1
                  /\ Len(done) = Len(steps[r]) + 1 /\ left = <<>>
                  /\ \/ RUB \in {req[r].from, req[r].to} /\ done = <<<<req[r].from, req[r].to>>>>
                     \/ done = <<<<req[r].from, RUB>>, <<RUB, req[r].to>>>>
               \/ /\ Len(legs[r]) = 2
                  /\ steps[r] = <<>>
                  /\ RUB \notin {req[r].from, req[r].to}
                  /\ done = <<<<req[r].from, RUB>>>> /\ left = <<req[r].to>>
<1> DEFINE from == req[r].from
           to == req[r].to
<1>1. from \in Codes /\ to \in Codes /\ RUB \in Codes /\ from # to
  BY InputType DEF Fetching, Codes
<1>2. /\ <<from, RUB>> \in Codes \X Codes /\ <<RUB, to>> \in Codes \X Codes
      /\ <<from, to>> \in Codes \X Codes
  BY <1>1
<1> HIDE DEF from, to
<1>3. CASE steps[r] = <<>> /\ legs[r] = Legs(from, to)
  <2>1. CASE from = RUB
    <3>1. legs[r] = <<to>>
      BY <1>1, <1>3, <2>1, LegsOfTwo
    <3>2. Step(r) = <<from, to>>
      BY <1>1, <1>3, <2>1, <3>1 DEF Step, to, from
    <3>3. Tail(<<to>>) = <<>>
      BY <1>1, ShortSequences
    <3>4. Append(<<>>, <<from, to>>) = <<<<from, to>>>>
      BY <1>2, ShortSequences
    <3>5. Len(<<to>>) = 1 /\ Len(<<>>) = 0 /\ Len(<<<<from, to>>>>) = 1
      OBVIOUS
    <3>6. /\ Append(steps[r], Step(r)) = <<<<from, to>>>> /\ Tail(legs[r]) = <<>>
          /\ Len(legs[r]) = 1 /\ Len(steps[r]) = 0 /\ RUB \in {from, to}
      BY <1>3, <2>1, <3>1, <3>2, <3>3, <3>4, <3>5
    <3> QED
      BY <3>5, <3>6 DEF from, to
  <2>2. CASE to = RUB
    <3>1. legs[r] = <<from>>
      BY <1>1, <1>3, <2>2, LegsOfTwo
    <3>2. Step(r) = <<from, to>>
      BY <1>1, <1>3, <2>2, <3>1 DEF Step, to, from
    <3>3. Tail(<<from>>) = <<>>
      BY <1>1, ShortSequences
    <3>4. Append(<<>>, <<from, to>>) = <<<<from, to>>>>
      BY <1>2, ShortSequences
    <3>5. Len(<<from>>) = 1 /\ Len(<<>>) = 0 /\ Len(<<<<from, to>>>>) = 1
      OBVIOUS
    <3>6. /\ Append(steps[r], Step(r)) = <<<<from, to>>>> /\ Tail(legs[r]) = <<>>
          /\ Len(legs[r]) = 1 /\ Len(steps[r]) = 0 /\ RUB \in {from, to}
      BY <1>3, <2>2, <3>1, <3>2, <3>3, <3>4, <3>5
    <3> QED
      BY <3>5, <3>6 DEF from, to
  <2>3. CASE from # RUB /\ to # RUB
    <3>1. legs[r] = <<from, to>>
      BY <1>1, <1>3, <2>3, LegsOfTwo
    <3>2. Step(r) = <<from, RUB>>
      BY <1>1, <1>3, <2>3, <3>1 DEF Step, to, from
    <3> QED
      BY <1>1, <1>2, <1>3, <2>3, <3>1, <3>2, ShortSequences DEF from, to
  <2> QED
    BY <2>1, <2>2, <2>3
<1>4. CASE RUB \notin {from, to} /\ steps[r] = <<<<from, RUB>>>> /\ legs[r] = <<to>>
  <2>1. Step(r) = <<RUB, to>>
    BY <1>1, <1>4 DEF Step, to, from
  <2>2. Tail(<<to>>) = <<>>
    BY <1>1, ShortSequences
  <2>3. Append(<<<<from, RUB>>>>, <<RUB, to>>) = <<<<from, RUB>>, <<RUB, to>>>>
    BY <1>2, ShortSequences
  <2>4. /\ Len(<<to>>) = 1 /\ Len(<<<<from, RUB>>>>) = 1
        /\ Len(<<<<from, RUB>>, <<RUB, to>>>>) = 2
    OBVIOUS
  <2> QED
    BY <1>4, <2>1, <2>2, <2>3, <2>4 DEF from, to
<1> QED
  BY <1>3, <1>4 DEF Fetching, OnTheWay, from, to

LEMMA OwnStep ==
    ASSUME TypeOK, NEW r \in Requests, Along(r), RequestStep(r)
    PROVE  Along(r)'
<1> USE NoneAssumption DEF Along, Untouched, Write, Goto, callVars, Statuses, Malformed
<1>0. /\ r \in DOMAIN pc /\ r \in DOMAIN req /\ r \in DOMAIN canceled /\ r \in DOMAIN legs
      /\ r \in DOMAIN steps /\ r \in DOMAIN calls /\ r \in DOMAIN range /\ r \in DOMAIN status
      /\ r \in DOMAIN failure
  BY DEF TypeOK
<1>1. CASE Arrive(r)
  BY <1>0, <1>1 DEF Arrive, Fetching, Led
<1>2. CASE Limit(r)
  BY <1>0, <1>2 DEF Limit, Refused, Fetching, Led
<1>3. CASE Mux(r)
  BY <1>0, <1>3 DEF Mux, Fetching, Led, Input
<1>4. CASE ParseFails(r)
  <2>1. /\ pc[r] = "parse" /\ Malformed(r)
        /\ pc'[r] = "observe" /\ status'[r] = 400
        /\ req' = req /\ range' = range /\ calls' = calls
    BY <1>0, <1>4 DEF ParseFails
  <2> QED
    BY <2>1 DEF Fetching, Led
<1>5. CASE ParseRates(r)
  BY <1>0, <1>5 DEF ParseRates, Fetching, Led
<1>6. CASE ParseConvert(r)
  BY <1>0, <1>6 DEF ParseConvert, Fetching, OnTheWay, Led
<1>7. CASE ParseHistory(r)
  <2>1. /\ pc[r] = "parse" /\ req[r] \in Inputs /\ calls[r] = 0 /\ req[r].valid
        /\ req' = req /\ calls' = calls /\ steps' = steps /\ failure' = failure
        /\ req[r].route \in {"/rates/history", "/rates/history/by-date"}
        /\ range'[r] # None => range'[r] = [from |-> req[r].since.at, to |-> Upper(req[r].until)]
    BY <1>0, <1>7 DEF ParseHistory
  <2>2. ~Malformed(r)
    <3>1. req[r].since.at \in Nat /\ Upper(req[r].until) \in Nat
      BY <2>1, InputType, UpperType
    <3> QED
      BY <1>7, <2>1, <3>1 DEF ParseHistory
  <2>3. \/ pc'[r] = "query" /\ status' = status
        \/ pc'[r] = "observe" /\ status'[r] = 500
    BY <1>0, <1>7 DEF ParseHistory
  <2>4. ~Malformed(r)' /\ status[r] = None
    BY <2>1, <2>2 DEF Upper
  <2> HIDE DEF Malformed
  <2> QED
    BY <2>1, <2>3, <2>4 DEF Fetching, Led, Upper
<1>8. CASE FetchRates(r)
  <2>1. /\ pc[r] = "fetch" /\ Fetching(r) /\ legs[r] # <<>> /\ req[r] \in Inputs
        /\ calls'[r] = calls[r] + 1
        /\ steps'[r] = Append(steps[r], Step(r))
        /\ legs'[r] = Tail(legs[r])
        /\ req'[r] = req[r] /\ range'[r] = range[r] /\ range[r] = None
    BY <1>0, <1>8 DEF FetchRates, Called, Fetching
  <2>2. CASE req[r].route = "/rates"
    <3>1. Len(legs[r]) = 1
      BY <2>1, <2>2 DEF Fetching
    <3> QED
      BY <1>0, <1>8, <2>1, <2>2, <3>1 DEF FetchRates
  <2>3. CASE req[r].route = "/convert"
    <3>0. \/ /\ Len(legs[r]) = 1
             /\ Len(steps'[r]) = Len(steps[r]) + 1
             /\ \/ RUB \in {req[r].from, req[r].to} /\ steps'[r] = <<<<req[r].from, req[r].to>>>>
                \/ steps'[r] = <<<<req[r].from, RUB>>, <<RUB, req[r].to>>>>
          \/ /\ Len(legs[r]) = 2
             /\ steps[r] = <<>>
             /\ RUB \notin {req[r].from, req[r].to}
             /\ steps'[r] = <<<<req[r].from, RUB>>>> /\ legs'[r] = <<req[r].to>>
      BY <2>1, <2>3, OneMoreLeg
    <3>1. CASE Len(legs[r]) = 1
      <4>1. Led(r)'
        BY <2>1, <2>3, <3>0, <3>1 DEF Led, Fetching
      <4>2. pc'[r] = "observe" /\ status'[r] = 200
        BY <1>0, <1>8, <3>1 DEF FetchRates
      <4> QED
        BY <2>1, <4>1, <4>2
    <3>2. CASE Len(legs[r]) = 2
      <4>1. Fetching(r)'
        BY <2>1, <2>3, <3>0, <3>2 DEF OnTheWay, Fetching
      <4>2. pc'[r] = "fetch" /\ status'[r] = status[r]
        BY <1>0, <1>8, <3>2 DEF FetchRates
      <4> QED
        BY <2>1, <4>1, <4>2
    <3> QED
      BY <3>0, <3>1, <3>2
  <2> QED
    BY <2>1, <2>2, <2>3 DEF Fetching
<1>9. CASE FetchFails(r)
  <2>1. PICK err \in FetchErrors(r) :
            failure' = [failure EXCEPT ![r] = err] /\ Write(r, StatusOf(err))
    BY <1>9 DEF FetchFails
  <2>2. failure'[r] = err /\ status'[r] = StatusOf(err) /\ pc'[r] = "observe" /\ err # None
    <3>1. err \in SUBSET Sentinels
      BY DEF FetchErrors, Sentinels
    <3>2. err # None
      BY <3>1
    <3> QED
      BY <1>0, <2>1, <3>2
  <2>3. /\ pc[r] = "fetch" /\ ~Malformed(r)
        /\ req' = req /\ range' = range /\ range[r] = None
    BY <1>9 DEF FetchFails, Fetching
  <2>4. StatusOf(err) \in {499, 504, 400, 503, 500} /\ (StatusOf(err) = 400 => "invalidCurrency" \in err)
    BY DEF StatusOf
  <2> QED
    BY <2>2, <2>3, <2>4
<1>10. CASE History(r)
  BY <1>0, <1>10 DEF History, Called
<1>11. CASE HistoryFails(r)
  <2>1. PICK err \in QueryErrors(r) :
            failure' = [failure EXCEPT ![r] = err] /\ Write(r, StatusOf(err))
    BY <1>11 DEF HistoryFails
  <2>2. failure'[r] = err /\ status'[r] = StatusOf(err) /\ pc'[r] = "observe" /\ err # None
    <3>1. err \in SUBSET Sentinels
      BY DEF QueryErrors, Sentinels
    <3>2. err # None
      BY <3>1
    <3> QED
      BY <1>0, <2>1, <3>2
  <2>3. /\ pc[r] = "query" /\ ~Malformed(r)
        /\ req' = req /\ range' = range
    BY <1>11 DEF HistoryFails
  <2>4. StatusOf(err) \in {499, 504, 400, 503, 500} /\ (StatusOf(err) = 400 => "invalidCurrency" \in err)
    BY DEF StatusOf
  <2> QED
    BY <2>2, <2>3, <2>4
<1>12. CASE Observe(r)
  BY <1>0, <1>12 DEF Observe, Led
<1>13. CASE Cancel(r)
  BY <1>0, <1>13 DEF Cancel, Fetching, OnTheWay, Led
<1> QED
  BY <1>1, <1>2, <1>3, <1>4, <1>5, <1>6, <1>7, <1>8, <1>9, <1>10, <1>11, <1>12, <1>13
     DEF RequestStep, Parse, Call

Stages == {"limit", "mux", "parse", "fetch", "query", "observe", "done"}

\* The type of what Write and Goto change.
Moved ==
    /\ pc' \in [Requests -> Stages \cup {"idle"}]
    /\ status' \in [Requests -> Statuses \cup {None}]

LEMMA MoveType ==
    ASSUME TypeOK, NEW r \in Requests
    PROVE  /\ \A s \in Statuses : Write(r, s) => Moved
           /\ \A stage \in Stages : Goto(r, stage) => Moved
BY DEF TypeOK, Write, Goto, Moved, Stages

\* A request makes two calls at most.
LEMMA CallsBound ==
    ASSUME TypeOK, NEW r \in Requests, Along(r), Call(r)
    PROVE  calls[r] + 1 \in 0 .. 2
<1>1. CASE pc[r] = "fetch" /\ legs[r] # <<>>
  <2>1. Fetching(r)
    BY <1>1 DEF Along
  <2>2. Len(<<>>) = 0 /\ Len(<<<<req[r].from, RUB>>>>) = 1
    OBVIOUS
  <2>3. CASE steps[r] = <<>>
    BY <2>1, <2>2, <2>3 DEF Fetching
  <2>4. CASE steps[r] = <<<<req[r].from, RUB>>>>
    <3>1. calls[r] = 1
      BY <2>1, <2>2, <2>4 DEF Fetching
    <3> QED
      BY <3>1
  <2> QED
    BY <2>1, <2>3, <2>4 DEF Fetching, OnTheWay
<1>2. CASE pc[r] = "query"
  BY <1>2 DEF Along
<1> QED
  BY <1>1, <1>2 DEF Call, FetchRates, FetchFails, History, HistoryFails

LEMMA TypeStep ==
    ASSUME TypeOK, NEW r \in Requests, Along(r), RequestStep(r)
    PROVE  TypeOK'
<1>0. Moved => pc' \in [Requests -> {"idle", "limit", "mux", "parse", "fetch", "query", "observe",
                                      "done"}]
               /\ status' \in [Requests -> Statuses \cup {None}]
  BY DEF Moved, Stages
<1>1. CASE Arrive(r)
  <2>1. Moved
    BY <1>1, MoveType DEF Arrive, Stages
  <2> QED
    BY <1>0, <1>1, <2>1 DEF TypeOK, Arrive, callVars
<1>2. CASE Limit(r)
  <2>1. Moved
    BY <1>2, MoveType DEF Limit, Refused, Stages, Statuses
  <2> QED
    BY <1>0, <1>2, <2>1 DEF TypeOK, Limit, callVars
<1>3. CASE Mux(r)
  <2>1. Moved
    BY <1>3, MoveType DEF Mux, Stages, Statuses
  <2> QED
    BY <1>0, <1>3, <2>1 DEF TypeOK, Mux, callVars
<1>4. CASE ParseFails(r)
  <2>1. Moved
    BY <1>4, MoveType DEF ParseFails, Statuses
  <2> QED
    BY <1>0, <1>4, <2>1 DEF TypeOK, ParseFails, callVars
<1>5. CASE ParseRates(r) \/ ParseConvert(r) \/ ParseHistory(r)
  <2>1. req[r] \in Inputs
    BY <1>5 DEF Along, ParseRates, ParseConvert, ParseHistory
  <2>2. req[r].from \in Codes /\ req[r].to \in Codes
    BY <2>1, InputType
  <2>3. CASE ParseRates(r)
    <3>1. Moved
      BY <2>3, MoveType DEF ParseRates, Stages
    <3>2. <<req[r].from>> \in Seq(Codes)
      BY <2>2
    <3>3. legs' \in [Requests -> Seq(Codes)]
      BY <2>3, <3>2 DEF ParseRates, TypeOK
    <3> QED
      BY <1>0, <2>3, <3>1, <3>3 DEF TypeOK, ParseRates
  <2>4. CASE ParseConvert(r)
    <3>1. Moved
      BY <2>4, MoveType DEF ParseConvert, Stages, Statuses
    <3>2. req[r].from # req[r].to => Legs(req[r].from, req[r].to) \in Seq(Codes)
      <4>1. /\ <<req[r].from>> \in Seq(Codes) /\ <<req[r].to>> \in Seq(Codes)
            /\ <<req[r].from, req[r].to>> \in Seq(Codes)
        BY <2>2
      <4> QED
        BY <2>2, <4>1, LegsOfTwo
    <3>3. legs' \in [Requests -> Seq(Codes)]
      BY <2>4, <3>2 DEF ParseConvert, TypeOK
    <3> QED
      BY <1>0, <2>4, <3>1, <3>3 DEF TypeOK, ParseConvert
  <2>5. CASE ParseHistory(r)
    <3>1. Moved
      BY <2>5, MoveType DEF ParseHistory, Stages, Statuses
    <3>2. [from |-> req[r].since.at, to |-> Upper(req[r].until)] \in [from : Nat, to : Nat]
      BY <2>1, InputType, UpperType
    <3>3. range' \in [Requests -> [from : Nat, to : Nat] \cup {None}]
      BY <2>5, <3>2 DEF ParseHistory, TypeOK
    <3> QED
      BY <1>0, <2>5, <3>1, <3>3 DEF TypeOK, ParseHistory
  <2> QED
    BY <1>5, <2>3, <2>4, <2>5
<1>6. CASE Call(r)
  <2>1. calls' \in [Requests -> 0 .. 2]
    BY <1>6, CallsBound
       DEF TypeOK, Call, FetchRates, FetchFails, History, HistoryFails, Called
  <2>2. CASE FetchRates(r)
    <3>1. pc[r] = "fetch" /\ legs[r] # <<>> /\ req[r] \in Inputs /\ legs[r] \in Seq(Codes)
          /\ steps[r] \in Seq(Codes \X Codes)
      BY <2>2 DEF FetchRates, Along, TypeOK
    <3>2. Head(legs[r]) \in Codes /\ RUB \in Codes /\ Tail(legs[r]) \in Seq(Codes)
      BY <3>1, HeadTailProperties DEF Codes
    <3>3. Step(r) \in Codes \X Codes
      BY <3>2 DEF Step
    <3>4. Append(steps[r], Step(r)) \in Seq(Codes \X Codes)
      BY <3>1, <3>3, AppendProperties
    <3>5. legs' \in [Requests -> Seq(Codes)] /\ steps' \in [Requests -> Seq(Codes \X Codes)]
      BY <2>2, <3>2, <3>4 DEF FetchRates, TypeOK
    <3>6. Moved
      BY <2>2, MoveType DEF FetchRates, Stages, Statuses
    <3> QED
      BY <1>0, <2>1, <2>2, <3>5, <3>6 DEF FetchRates, TypeOK
  <2>3. CASE FetchFails(r)
    <3>1. PICK err \in FetchErrors(r) :
              failure' = [failure EXCEPT ![r] = err] /\ Write(r, StatusOf(err))
      BY <2>3 DEF FetchFails
    <3>2. err \in SUBSET Sentinels
      BY DEF FetchErrors, Sentinels
    <3>3. failure' \in [Requests -> (SUBSET Sentinels) \cup {None}]
      BY <3>1, <3>2 DEF TypeOK
    <3>4. Moved
      BY <3>1, MoveType DEF StatusOf, Statuses
    <3> QED
      BY <1>0, <2>1, <2>3, <3>3, <3>4 DEF FetchFails, TypeOK
  <2>4. CASE History(r)
    <3>1. Moved
      BY <2>4, MoveType DEF History, Statuses
    <3> QED
      BY <1>0, <2>1, <2>4, <3>1 DEF History, TypeOK
  <2>5. CASE HistoryFails(r)
    <3>1. PICK err \in QueryErrors(r) :
              failure' = [failure EXCEPT ![r] = err] /\ Write(r, StatusOf(err))
      BY <2>5 DEF HistoryFails
    <3>2. err \in SUBSET Sentinels
      BY DEF QueryErrors, Sentinels
    <3>3. failure' \in [Requests -> (SUBSET Sentinels) \cup {None}]
      BY <3>1, <3>2 DEF TypeOK
    <3>4. Moved
      BY <3>1, MoveType DEF StatusOf, Statuses
    <3> QED
      BY <1>0, <2>1, <2>5, <3>3, <3>4 DEF HistoryFails, TypeOK
  <2> QED
    BY <1>6, <2>2, <2>3, <2>4, <2>5 DEF Call
<1>7. CASE Observe(r)
  <2>1. Label(r) \in Labels /\ status[r] \in Statuses
    BY <1>7 DEF Label, Labels, Observe, Along, TypeOK
  <2>2. total' \in [Labels \X Statuses -> Nat]
    BY <1>7, <2>1 DEF Observe, TypeOK
  <2>3. Moved
    BY <1>7, MoveType DEF Observe, Stages
  <2> QED
    BY <1>0, <1>7, <2>2, <2>3 DEF TypeOK, Observe, callVars
<1>8. CASE Cancel(r)
  BY <1>8 DEF TypeOK, Cancel, callVars
<1> QED
  BY <1>1, <1>2, <1>3, <1>4, <1>5, <1>6, <1>7, <1>8 DEF RequestStep, Parse

\* Only Observe counts, and it counts the request that it ends.
LEMMA TotalsStep ==
    ASSUME IInv, NEW r \in Requests, RequestStep(r)
    PROVE  Totals'
<1> USE DEF IInv
<1>1. \A q \in Requests : q # r => Same(q)
  BY OthersStay
<1>2. CASE ~Observe(r)
  <2>1. total' = total /\ pc[r] # "done" /\ pc'[r] # "done"
    BY <1>2
       DEF RequestStep, Arrive, Limit, Refused, Mux, Parse, ParseFails, ParseRates, ParseConvert,
           ParseHistory, Call, FetchRates, FetchFails, History, HistoryFails, Cancel, Goto,
           Write, TypeOK
  <2>2. ASSUME NEW label \in Labels, NEW s \in Statuses
        PROVE  Counted(label, s)' = Counted(label, s)
    BY <1>1, <2>1 DEF Counted, Same, Label
  <2> QED
    BY <2>1, <2>2 DEF Totals
<1>3. CASE Observe(r)
  <2>1. /\ pc[r] = "observe" /\ pc'[r] = "done" /\ req' = req /\ status' = status
        /\ Label(r) \in Labels /\ status[r] \in Statuses
        /\ total' = [total EXCEPT ![<<Label(r), status[r]>>] = @ + 1]
    BY <1>3 DEF Observe, Goto, TypeOK, Label, Labels, Along
  <2> SUFFICES ASSUME NEW label \in Labels, NEW s \in Statuses
               PROVE  /\ IsFiniteSet(Counted(label, s)')
                      /\ total'[<<label, s>>] = Cardinality(Counted(label, s)')
    BY DEF Totals
  <2>2. /\ IsFiniteSet(Counted(label, s))
        /\ total[<<label, s>>] = Cardinality(Counted(label, s))
        /\ total \in [Labels \X Statuses -> Nat]
    BY DEF Totals, TypeOK
  <2>3. CASE Label(r) = label /\ status[r] = s
    <3>1. Counted(label, s)' = Counted(label, s) \cup {r} /\ r \notin Counted(label, s)
      BY <1>1, <2>1, <2>3 DEF Counted, Same, Label
    <3>2. total'[<<label, s>>] = total[<<label, s>>] + 1
      BY <2>1, <2>2, <2>3
    <3> QED
      BY <2>2, <3>1, <3>2, FS_AddElement
  <2>4. CASE ~(Label(r) = label /\ status[r] = s)
    <3>1. Counted(label, s)' = Counted(label, s)
      BY <1>1, <2>1, <2>4 DEF Counted, Same, Label
    <3>2. total'[<<label, s>>] = total[<<label, s>>]
      BY <2>1, <2>2, <2>4
    <3> QED
      BY <2>2, <3>1, <3>2
  <2> QED
    BY <2>3, <2>4
<1> QED
  BY <1>2, <1>3

------------------------------------------------------------------------------
LEMMA InitIInv == Init => IInv
<1> SUFFICES ASSUME Init PROVE IInv
  OBVIOUS
<1>1. <<>> \in Seq(Codes) /\ <<>> \in Seq(Codes \X Codes)
  OBVIOUS
<1>2. TypeOK
  BY <1>1 DEF Init, TypeOK
<1>3. \A r \in Requests : Along(r)
  BY NoneAssumption DEF Init, Along, Untouched, Statuses
<1>4. \A label \in Labels, s \in Statuses : Counted(label, s) = {}
  BY DEF Init, Counted
<1>5. \A label \in Labels, s \in Statuses : total[<<label, s>>] = 0
  BY DEF Init
<1>6. Totals
  BY <1>4, <1>5, FS_EmptySet DEF Totals
<1> QED
  BY <1>2, <1>3, <1>6 DEF IInv

LEMMA NextIInv == IInv /\ [Next]_vars => IInv'
<1> SUFFICES ASSUME IInv, [Next]_vars PROVE IInv'
  OBVIOUS
<1>1. CASE UNCHANGED vars
  <2>1. TypeOK'
    BY <1>1 DEF vars, callVars, IInv, TypeOK
  <2>2. \A q \in Requests : Same(q)
    BY <1>1 DEF vars, callVars, Same
  <2>3. \A q \in Requests : Along(q)'
    BY <2>2, SameAlong DEF IInv
  <2>4. Totals'
    BY <1>1 DEF vars, callVars, IInv, Totals, Counted, Label
  <2> QED
    BY <2>1, <2>3, <2>4 DEF IInv
<1>2. ASSUME NEW r \in Requests, RequestStep(r) PROVE IInv'
  <2>1. TypeOK'
    BY <1>2, TypeStep DEF IInv
  <2>2. \A q \in Requests : Along(q)'
    BY <1>2, OwnStep, OthersStay, SameAlong DEF IInv
  <2>3. Totals'
    BY <1>2, TotalsStep
  <2> QED
    BY <2>1, <2>2, <2>3 DEF IInv
<1> QED
  BY <1>1, <1>2 DEF Next, RequestStep

\* The inductive invariant holds in every reachable state.
THEOREM IInvHolds == Spec => []IInv
<1> QED
  BY InitIInv, NextIInv, PTL DEF Spec

\* Type correctness: no request makes more than two calls, and every status
\* that is sent is one that the handlers know.
THEOREM TypeCorrect == Spec => []TypeOK
<1>1. IInv => TypeOK
  BY DEF IInv
<1> QED
  BY <1>1, IInvHolds, PTL

\* http_requests_total counts every finished request once, for any number of
\* requests in any interleaving.
THEOREM RequestsAreCounted == Spec => []EveryRequestIsCounted
<1>1. IInv => EveryRequestIsCounted
  BY DEF IInv, Totals, Counted, EveryRequestIsCounted
<1> QED
  BY <1>1, IInvHolds, PTL

\* What is refused or malformed has cost no call, a well-formed request is only
\* answered with 400 when its last call met an invalid currency in what a bank
\* or the store returned, and a conversion that was answered leads from one
\* currency to the other with one answer for each end but roubles.
THEOREM ConversionsAreEarned == Spec => []AnswersAreEarned
<1>1. ASSUME IInv, NEW r \in Requests, status[r] = 200, req[r].route = "/convert",
             req[r].from # req[r].to
      PROVE  /\ calls[r] = Len(steps[r])
             /\ steps[r] # <<>>
             /\ steps[r][1][1] = req[r].from
             /\ Last(steps[r])[2] = req[r].to
             /\ \A i \in 1 .. Len(steps[r]) - 1 : steps[r][i][2] = steps[r][i + 1][1]
  <2>1. Led(r)
    BY <1>1 DEF IInv, Along
  <2>2. CASE steps[r] = <<<<req[r].from, req[r].to>>>>
    <3>1. Len(steps[r]) = 1
      BY <2>2
    <3> QED
      BY <2>1, <2>2, <3>1 DEF Led, Last
  <2>3. CASE steps[r] = <<<<req[r].from, RUB>>, <<RUB, req[r].to>>>>
    <3>1. Len(steps[r]) = 2
      BY <2>3
    <3>2. \A i \in 1 .. 1 : i = 1
      OBVIOUS
    <3> QED
      BY <2>1, <2>3, <3>1, <3>2 DEF Led, Last
  <2> QED
    BY <2>1, <2>2, <2>3 DEF Led
<1>2. IInv => AnswersAreEarned
  BY <1>1 DEF IInv, Along, AnswersAreEarned
<1> QED
  BY <1>2, IInvHolds, PTL

------------------------------------------------------------------------------
(* Days                                                                    *)

LEMMA DayOfInstant ==
    ASSUME NEW t \in Nat
    PROVE  /\ t \div Day \in Nat
           /\ Day * (t \div Day) <= t
           /\ t < Day * (t \div Day) + Day
BY ApiAssumption

LEMMA MoreDays ==
    ASSUME NEW m \in Nat, NEW n \in Nat
    PROVE  /\ m <= n <=> Day * m <= Day * n
           /\ m < n <=> Day * m + Day <= Day * n
BY ApiAssumption

LEMMA DayOfMidnight ==
    ASSUME NEW d \in Nat
    PROVE  (Day * d) \div Day = d
BY ApiAssumption

\* A range of dates has the instants of these days and no other.
THEOREM DaysAreWhole == Spec => []WholeDays
<1>1. ASSUME IInv, NEW r \in Requests, range[r] # None, req[r].since.dateOnly,
             req[r].until.dateOnly, NEW t \in 0 .. Day * (LastDay + 2)
      PROVE  (t >= range[r].from /\ t < range[r].to) <=>
                 t \div Day \in (req[r].since.at \div Day) .. (req[r].until.at \div Day)
  <2>1. req[r] \in Inputs /\ range[r] = [from |-> req[r].since.at, to |-> Upper(req[r].until)]
    BY <1>1 DEF IInv, Along, Untouched
  <2>2. PICK a \in 0 .. LastDay : req[r].since.at = Day * a
    BY <1>1, <2>1, InputType DEF Bounds
  <2>3. PICK b \in 0 .. LastDay : req[r].until.at = Day * b
    BY <1>1, <2>1, InputType DEF Bounds
  <2>4. range[r].from = Day * a /\ range[r].to = Day * b + Day
    BY <1>1, <2>1, <2>2, <2>3 DEF Upper
  <2>5. a \in Nat /\ b \in Nat /\ t \in Nat /\ t \div Day \in Nat /\ Day \in Nat
    BY ApiAssumption, DayOfInstant
  <2>6. req[r].since.at \div Day = a /\ req[r].until.at \div Day = b
    BY <2>2, <2>3, <2>5, DayOfMidnight
  <2> DEFINE d == t \div Day
  <2>7. Day * a <= t <=> a <= d
    <3>1. a <= d => Day * a <= Day * d
      BY <2>5, MoreDays
    <3>2. d < a => Day * d + Day <= Day * a
      BY <2>5, MoreDays
    <3>3. Day * d <= t /\ t < Day * d + Day /\ Day * d \in Nat /\ Day * a \in Nat /\ d \in Nat
      BY <2>5, DayOfInstant
    <3> HIDE DEF d
    <3> QED
      BY <2>5, <3>1, <3>2, <3>3
  <2>8. t < Day * b + Day <=> d <= b
    <3>1. d <= b => Day * d <= Day * b
      BY <2>5, MoreDays
    <3>2. b < d => Day * b + Day <= Day * d
      BY <2>5, MoreDays
    <3>3. Day * d <= t /\ t < Day * d + Day /\ Day * d \in Nat /\ Day * b \in Nat /\ d \in Nat
      BY <2>5, DayOfInstant
    <3> HIDE DEF d
    <3> QED
      BY <2>5, <3>1, <3>2, <3>3
  <2> QED
    BY <2>4, <2>5, <2>6, <2>7, <2>8
<1>2. IInv => WholeDays
  BY <1>1 DEF WholeDays
<1> QED
  BY <1>2, IInvHolds, PTL
==============================================================================
