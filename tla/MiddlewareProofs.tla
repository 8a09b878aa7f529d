--------------------------- MODULE MiddlewareProofs ---------------------------
(***************************************************************************)
(* Proofs about the two tables the HTTP middleware keeps.                  *)
(*                                                                         *)
(* RateLimiter (Init, Next, Spec), for every set of handlers and           *)
(* addresses, every limit and window: a window never counts past the       *)
(* limit, a window is dropped only when it is over, the windows of one     *)
(* address overlap by no more than the time a call waits for the mutex,    *)
(* and what any stretch of a window admits fits the windows it touched.    *)
(*                                                                         *)
(* Metrics (MetricsInit, MetricsNext, MetricsSpec), for every set of       *)
(* labels, names and buckets: the map and the counters are what the        *)
(* observations say, and every page shows one instant of its scrape.       *)
(***************************************************************************)
EXTENDS RateLimiter, Metrics, FoldLemmas, SequenceTheorems, TLAPS

------------------------------------------------------------------------------
(* The rate limiter                                                        *)

\* The time a call read is never ahead of the clock, nor behind it by more
\* than the bound while the call waits.
ReadsThePast ==
    \A h \in Handlers : /\ now[h] <= clock
                        /\ call[h] = "locking" => clock - now[h] <= MaxStall
IInv == TypeOK /\ ReadsThePast

LEMMA UnexpiredType ==
  TypeOK => \A h \in Handlers : Unexpired(now[h]) \in [Keys -> WindowEntry \cup {None}]
  BY DEF TypeOK, Unexpired

\* Counting a request leaves the end of the window alone.
LEMMA CountedEntry ==
  ASSUME NEW e \in WindowEntry
  PROVE  /\ [e EXCEPT !.count = @ + 1] # None
         /\ [e EXCEPT !.count = @ + 1].resetAt = e.resetAt
  BY LimiterAssumption DEF WindowEntry

LEMMA InitIInv == Init => IInv
  BY LimiterAssumption DEF Init, IInv, TypeOK, ReadsThePast, Times

LEMMA NextIInv == IInv /\ [Next]_vars => IInv'
<1> SUFFICES ASSUME IInv, [Next]_vars PROVE IInv'
  OBVIOUS
<1>a. \A h \in Handlers : Unexpired(now[h]) \in [Keys -> WindowEntry \cup {None}]
  BY UnexpiredType DEF IInv
<1>b. \A t \in Times : t \in Int
  BY LimiterAssumption DEF Times
<1>c. \A h \in Handlers : Log(key[h]) => admitted' \in [Keys -> [Times -> Nat]]
  BY DEF Log, IInv, TypeOK
<1> USE LimiterAssumption DEF IInv
<1>1. ASSUME NEW h \in Handlers, NEW k \in Keys, AllowBegin(h, k) PROVE IInv'
  <2>1. TypeOK'
    BY <1>1 DEF AllowBegin, TypeOK
  <2>2. ReadsThePast'
    BY <1>1, <1>b DEF AllowBegin, TypeOK, ReadsThePast
  <2> QED
    BY <2>1, <2>2
<1>2. ASSUME NEW h \in Handlers, Open(h) PROVE IInv'
  <2>1. [count |-> 1, resetAt |-> ResetAt(now[h])] \in WindowEntry
    BY <1>b DEF WindowEntry, ResetAt, TypeOK
  <2>2. clients' \in [Keys -> WindowEntry \cup {None}]
    BY <1>2, <1>a, <2>1 DEF Open
  <2>3. TypeOK'
    BY <1>2, <1>c, <2>2 DEF Open, TypeOK
  <2>4. ReadsThePast'
    BY <1>2 DEF Open, TypeOK, ReadsThePast
  <2> QED
    BY <2>3, <2>4
<1>3. ASSUME NEW h \in Handlers, Count(h) PROVE IInv'
  <2> DEFINE u == Unexpired(now[h])
  <2>1. u \in [Keys -> WindowEntry \cup {None}] /\ u[key[h]] = clients[key[h]]
    BY <1>3, <1>a DEF Count, Unexpired, TypeOK
  <2>2. u[key[h]] \in WindowEntry /\ u[key[h]].count < Limit
    BY <1>3, <2>1 DEF Count, Full, WindowEntry, TypeOK
  <2>3. [u[key[h]] EXCEPT !.count = @ + 1] \in WindowEntry
    BY <2>2 DEF WindowEntry
  <2>4. clients' \in [Keys -> WindowEntry \cup {None}]
    <3>1. clients' = [u EXCEPT ![key[h]] = [u[key[h]] EXCEPT !.count = @ + 1]]
      BY <1>3 DEF Count
    <3> HIDE DEF u
    <3> QED
      BY <2>1, <2>3, <3>1
  <2>5. TypeOK'
    BY <1>3, <1>c, <2>4 DEF Count, TypeOK
  <2>6. ReadsThePast'
    BY <1>3 DEF Count, TypeOK, ReadsThePast
  <2> QED
    BY <2>5, <2>6
<1>4. ASSUME NEW h \in Handlers, Deny(h) PROVE IInv'
  BY <1>4, <1>a DEF Deny, TypeOK, ReadsThePast
<1>5. CASE Tick
  BY <1>5, <1>b DEF Tick, TypeOK, ReadsThePast, Times
<1>6. CASE UNCHANGED vars
  BY <1>6 DEF vars, TypeOK, ReadsThePast
<1> QED
  BY <1>1, <1>2, <1>3, <1>4, <1>5, <1>6 DEF Next, Allow

\* The inductive invariant holds in every reachable state.
THEOREM IInvHolds == Spec => []IInv
  BY InitIInv, NextIInv, PTL DEF Spec

\* Type correctness; in particular no window counts past the limit.
THEOREM TypeCorrect == Spec => []TypeOK
<1>1. IInv => TypeOK
  BY DEF IInv
<1> QED
  BY <1>1, IInvHolds, PTL

------------------------------------------------------------------------------
\* deleteExpiredLocked, run by the call of any client, takes away only
\* windows that are over.
THEOREM DropIsSafe == Spec => DropsOnlyClosed
<1> DEFINE Safe == \A k \in Keys :
             clients[k] # None /\ clients'[k] = None => clients[k].resetAt <= clock
<1>1. IInv /\ [Next]_vars => [Safe]_vars
  <2> SUFFICES ASSUME IInv, Next, NEW k \in Keys, clients[k] # None, clients'[k] = None
               PROVE  clients[k].resetAt <= clock
    OBVIOUS
  <2> USE LimiterAssumption DEF IInv
  <2>1. PICK h \in Handlers : Open(h) \/ Count(h) \/ Deny(h)
    BY DEF Next, Allow, AllowBegin, Tick
  <2>a. now[h] \in Int /\ clock \in Int /\ now[h] <= clock /\ key[h] \in Keys
    BY DEF TypeOK, ReadsThePast, Times
  <2>2. Unexpired(now[h])[k] = None
    <3>1. CASE Open(h)
      <4>1. [count |-> 1, resetAt |-> ResetAt(now[h])] # None
        BY <2>a DEF ResetAt
      <4>2. Unexpired(now[h]) \in [Keys -> WindowEntry \cup {None}]
        BY UnexpiredType
      <4>3. clients' = [Unexpired(now[h]) EXCEPT
                            ![key[h]] = [count |-> 1, resetAt |-> ResetAt(now[h])]]
        BY <3>1 DEF Open
      <4> QED
        BY <4>1, <4>2, <4>3
    <3>2. CASE Count(h)
      <4> DEFINE u == Unexpired(now[h])
      <4>1. u \in [Keys -> WindowEntry \cup {None}]
        BY UnexpiredType
      <4>2. u[key[h]] \in WindowEntry
        BY <2>a, <3>2, <4>1 DEF Count
      <4>3. clients' = [u EXCEPT ![key[h]] = [u[key[h]] EXCEPT !.count = @ + 1]]
        BY <3>2 DEF Count
      <4>4. [u[key[h]] EXCEPT !.count = @ + 1] # None
        BY <4>2, CountedEntry
      <4> HIDE DEF u
      <4>5. u[k] = None
        BY <4>1, <4>3, <4>4
      <4> QED
        BY <4>5 DEF u
    <3>3. CASE Deny(h)
      BY <3>3 DEF Deny
    <3> QED
      BY <2>1, <3>1, <3>2, <3>3
  <2>3. clients[k] \in WindowEntry /\ now[h] >= clients[k].resetAt
    BY <2>2 DEF Unexpired, Closed, TypeOK
  <2> QED
    BY <2>a, <2>3 DEF WindowEntry
<1> QED
  BY <1>1, IInvHolds, PTL DEF Spec, DropsOnlyClosed

------------------------------------------------------------------------------
\* A window that was opened is over, or it is the one the map holds.
LastWindow ==
    \A k \in Keys : \A s \in opened[k] :
        s + Window <= clock \/ (clients[k] # None /\ clients[k].resetAt = s + Window)

LEMMA WindowsFollow == Spec => [](LastWindow /\ OverlapIsWait)
<1> DEFINE Inv == LastWindow /\ OverlapIsWait
<1>1. Init => Inv
  BY DEF Init, LastWindow, OverlapIsWait
<1>2. IInv /\ Inv /\ [Next]_vars => Inv'
  <2> SUFFICES ASSUME IInv, Inv, [Next]_vars PROVE Inv'
    OBVIOUS
  <2> USE LimiterAssumption DEF IInv, TypeOK, ReadsThePast, Times
  <2>1. ASSUME NEW h \in Handlers, Open(h) PROVE Inv'
    <3> DEFINE u == Unexpired(now[h])
               w == [count |-> 1, resetAt |-> ResetAt(now[h])]
    <3>1. now[h] <= clock /\ clock - MaxStall <= now[h] /\ clock' = clock
      BY <2>1 DEF Open
    <3>2. u \in [Keys -> WindowEntry \cup {None}] /\ u[key[h]] = None
      BY <2>1, UnexpiredType DEF Open
    <3>3. clients' = [u EXCEPT ![key[h]] = w]
      BY <2>1 DEF Open
    <3>4. \A s \in opened[key[h]] : s + Window <= clock
      <4>1. clients[key[h]] = None \/ clients[key[h]].resetAt <= clock
        BY <3>1, <3>2 DEF Unexpired, Closed, WindowEntry
      <4> QED
        BY <4>1 DEF LastWindow
    <3>5. opened' = [opened EXCEPT ![key[h]] = @ \cup {now[h]}]
      BY <2>1 DEF Open
    <3>6. w # None /\ w.resetAt = now[h] + Window
      BY DEF ResetAt
    <3>7. \A k \in Keys : u[k] = clients[k] \/ clients[k] = None \/ clients[k].resetAt <= clock
      BY <3>1 DEF Unexpired, Closed, WindowEntry
    <3> HIDE DEF u, w
    <3>8. LastWindow'
      <4> SUFFICES ASSUME NEW k \in Keys, NEW s \in opened'[k]
                   PROVE  \/ s + Window <= clock
                          \/ clients'[k] # None /\ clients'[k].resetAt = s + Window
        BY <3>1 DEF LastWindow
      <4>1. CASE k = key[h]
        BY <4>1, <3>2, <3>3, <3>4, <3>5, <3>6
      <4>2. CASE k # key[h]
        <5>1. s \in opened[k] /\ clients'[k] = u[k]
          BY <4>2, <3>2, <3>3, <3>5
        <5> QED
          BY <5>1, <3>7 DEF LastWindow
      <4> QED
        BY <4>1, <4>2
    <3>9. OverlapIsWait'
      BY <3>1, <3>4, <3>5 DEF OverlapIsWait
    <3> QED
      BY <3>8, <3>9
  <2>2. ASSUME NEW h \in Handlers, Count(h) \/ Deny(h) PROVE Inv'
    <3> DEFINE u == Unexpired(now[h])
    <3>1. now[h] <= clock /\ UNCHANGED <<clock, opened>>
      BY <2>2 DEF Count, Deny
    <3>2. u \in [Keys -> WindowEntry \cup {None}]
      BY UnexpiredType
    <3>3. \A k \in Keys : u[k] = clients[k] \/ clients[k] = None \/ clients[k].resetAt <= clock
      BY <3>1 DEF Unexpired, Closed, WindowEntry
    <3>4. \A k \in Keys : u[k] # None =>
                clients'[k] # None /\ clients'[k].resetAt = u[k].resetAt
      <4>1. CASE Deny(h)
        BY <4>1 DEF Deny
      <4>2. CASE Count(h)
        <5>1. clients' = [u EXCEPT ![key[h]] = [u[key[h]] EXCEPT !.count = @ + 1]]
          BY <4>2 DEF Count
        <5>0. u[key[h]] # None /\ key[h] \in Keys
          BY <4>2 DEF Count
        <5> HIDE DEF u
        <5>2. u[key[h]] \in WindowEntry
          BY <3>2, <5>0
        <5>3. /\ [u[key[h]] EXCEPT !.count = @ + 1] # None
              /\ [u[key[h]] EXCEPT !.count = @ + 1].resetAt = u[key[h]].resetAt
          BY <5>2, CountedEntry
        <5> QED
          BY <3>2, <5>1, <5>3
      <4> QED
        BY <2>2, <4>1, <4>2
    <3> HIDE DEF u
    <3>5. LastWindow'
      BY <3>1, <3>3, <3>4 DEF LastWindow
    <3> QED
      BY <3>1, <3>5 DEF OverlapIsWait
  <2>3. CASE UNCHANGED <<clients, opened>> /\ clock' \in Times /\ clock' >= clock
    BY <2>3 DEF LastWindow, OverlapIsWait
  <2> QED
    BY <2>1, <2>2, <2>3 DEF Next, Allow, AllowBegin, Tick, vars
<1> QED
  BY <1>1, <1>2, IInvHolds, PTL DEF Spec

\* A call that waited for the mutex opens its window with an old time, but
\* only by as much as it waited; without waiting calls the windows of one
\* client are the fixed windows the comment in limiter.go speaks of.
THEOREM WindowsAreFixed == Spec => []OverlapIsWait
  BY WindowsFollow, PTL

------------------------------------------------------------------------------
(* What was admitted, and what the windows say.                            *)

Span(t, u) == {x \in Times : t <= x /\ x < u}

\* The windows of k that the stretch of one Window from t on can have touched.
Touched(k, t) == {s \in opened[k] : t - Window - MaxStall < s /\ s < t + Window}

\* The requests that the current window of k may still admit, if it counts
\* for the stretch from t on.
Spare(k, t) ==
    IF clients[k] # None /\ clients[k].resetAt - Window \in Touched(k, t)
    THEN Limit - clients[k].count ELSE 0

\* Every window was opened, and what it has counted was admitted since.
WindowsCount ==
    \A k \in Keys : clients[k] # None =>
        /\ clients[k].resetAt - Window \in opened[k]
        /\ SumOf(admitted[k], Span(clients[k].resetAt - Window, clock + 1)) >= clients[k].count

OpenedBefore == \A k \in Keys : \A s \in opened[k] : s <= clock

\* What the windows still spare is within the limit, too.
SpareFits ==
    \A k \in Keys, t \in Times :
        SumOf(admitted[k], Span(t, t + Window)) + Spare(k, t) <= Limit * Cardinality(Touched(k, t))

LEMMA AdmittedIsSum == \A k, t, u : AdmittedIn(k, t, u) = SumOf(admitted[k], Span(t, u))
  BY DEF AdmittedIn, SumOf, Span

LEMMA SpanFinite ==
    /\ \A t, u : Span(t, u) \in SUBSET Times /\ IsFiniteSet(Span(t, u))
    /\ IsFiniteSet(Times)
<1>1. IsFiniteSet(Times)
  BY LimiterAssumption, FS_Interval DEF Times
<1> QED
  BY <1>1, FS_Subset DEF Span

\* What a step does to the window and the requests of one client.
Quiet(k) ==
    /\ clients'[k] = None \/ clients'[k] = clients[k]
    /\ opened'[k] = opened[k] /\ admitted'[k] = admitted[k]

Opens(k, h) ==
    /\ call[h] = "locking" /\ clock' = clock
    /\ clients[k] = None \/ clients[k].resetAt <= now[h]
    /\ clients'[k] = [count |-> 1, resetAt |-> now[h] + Window]
    /\ opened'[k] = opened[k] \cup {now[h]}
    /\ admitted'[k] = [admitted[k] EXCEPT ![clock] = @ + 1]

Counts(k, h) ==
    /\ call[h] = "locking" /\ clock' = clock
    /\ clients[k] # None /\ clients[k].count < Limit /\ now[h] < clients[k].resetAt
    /\ clients'[k] = [clients[k] EXCEPT !.count = @ + 1]
    /\ opened'[k] = opened[k]
    /\ admitted'[k] = [admitted[k] EXCEPT ![clock] = @ + 1]

LEMMA EffectOnClient ==
    ASSUME IInv, [Next]_vars, NEW k \in Keys
    PROVE  Quiet(k) \/ \E h \in Handlers : Opens(k, h) \/ Counts(k, h)
<1> USE DEF IInv
<1>1. ASSUME NEW h \in Handlers, Open(h) \/ Count(h)
      PROVE  /\ key[h] \in Keys /\ call[h] = "locking" /\ clock' = clock
             /\ \A x \in Keys : admitted'[x] = IF x = key[h]
                                               THEN [admitted[x] EXCEPT ![clock] = @ + 1]
                                               ELSE admitted[x]
  BY <1>1 DEF Open, Count, Log, TypeOK
<1>2. \A h \in Handlers : /\ Unexpired(now[h]) \in [Keys -> WindowEntry \cup {None}]
                          /\ Unexpired(now[h])[k] = None \/ Unexpired(now[h])[k] = clients[k]
                          /\ Unexpired(now[h])[k] = None =>
                                 clients[k] = None \/ clients[k].resetAt <= now[h]
                          /\ Unexpired(now[h])[k] # None => clients[k] # None /\ now[h] < clients[k].resetAt
  <2> SUFFICES ASSUME NEW h \in Handlers
               PROVE  /\ Unexpired(now[h]) \in [Keys -> WindowEntry \cup {None}]
                      /\ Unexpired(now[h])[k] = None \/ Unexpired(now[h])[k] = clients[k]
                      /\ Unexpired(now[h])[k] = None =>
                             clients[k] = None \/ clients[k].resetAt <= now[h]
                      /\ Unexpired(now[h])[k] # None =>
                             clients[k] # None /\ now[h] < clients[k].resetAt
    OBVIOUS
  <2>1. Unexpired(now[h])[k] = IF Closed(clients[k], now[h]) THEN None ELSE clients[k]
    BY DEF Unexpired
  <2>2. clients[k] # None => clients[k].resetAt \in Int
    BY DEF TypeOK, WindowEntry
  <2>3. now[h] \in Int
    BY LimiterAssumption DEF TypeOK, Times
  <2> QED
    BY <2>1, <2>2, <2>3, UnexpiredType DEF Closed
<1>3. ASSUME NEW h \in Handlers, Open(h)
      PROVE  Quiet(k) \/ Opens(k, h)
  <2>1. /\ clients' = [Unexpired(now[h]) EXCEPT
                           ![key[h]] = [count |-> 1, resetAt |-> now[h] + Window]]
        /\ Unexpired(now[h])[key[h]] = None
        /\ opened' = [opened EXCEPT ![key[h]] = @ \cup {now[h]}]
    BY <1>3 DEF Open, ResetAt
  <2>2. CASE k = key[h]
    BY <1>1, <1>2, <1>3, <2>1, <2>2 DEF Opens, TypeOK
  <2>3. CASE k # key[h]
    BY <1>1, <1>2, <1>3, <2>1, <2>3 DEF Quiet, TypeOK
  <2> QED
    BY <2>2, <2>3
<1>4. ASSUME NEW h \in Handlers, Count(h)
      PROVE  Quiet(k) \/ Counts(k, h)
  <2> DEFINE u == Unexpired(now[h])
  <2>1. /\ clients' = [u EXCEPT ![key[h]] = [u[key[h]] EXCEPT !.count = @ + 1]]
        /\ u[key[h]] # None /\ ~Full(clients[key[h]]) /\ opened' = opened
    BY <1>4 DEF Count
  <2>2. u \in [Keys -> WindowEntry \cup {None}] /\ (u[k] = None \/ u[k] = clients[k])
    BY <1>2
  <2>3. CASE k = key[h]
    <3>1. u[k] = clients[k] /\ clients[k] # None /\ now[h] < clients[k].resetAt
      BY <1>2, <2>1, <2>3
    <3>2. clients[k].count < Limit
      BY <2>1, <2>3, <3>1, LimiterAssumption DEF Full, TypeOK, WindowEntry
    <3> HIDE DEF u
    <3>3. clients'[k] = [clients[k] EXCEPT !.count = @ + 1]
      BY <2>1, <2>2, <2>3, <3>1
    <3> QED
      BY <1>1, <1>4, <2>1, <2>3, <3>1, <3>2, <3>3 DEF Counts
  <2>4. CASE k # key[h]
    <3> HIDE DEF u
    <3>1. clients'[k] = u[k]
      BY <2>1, <2>2, <2>4
    <3> QED
      BY <1>1, <1>4, <2>1, <2>2, <2>4, <3>1 DEF Quiet
  <2> QED
    BY <2>3, <2>4
<1>5. ASSUME NEW h \in Handlers, Deny(h) PROVE Quiet(k)
  BY <1>2, <1>5 DEF Deny, Quiet
<1>6. ASSUME NEW h \in Handlers, NEW x \in Keys, AllowBegin(h, x) PROVE Quiet(k)
  BY <1>6 DEF AllowBegin, Quiet
<1>7. CASE Tick \/ UNCHANGED vars
  BY <1>7 DEF Tick, vars, Quiet
<1> QED
  BY <1>3, <1>4, <1>5, <1>6, <1>7 DEF Next, Allow

\* One more request counts for the stretches that hold its time.
LEMMA OneMore ==
    ASSUME IInv, NEW k \in Keys, admitted'[k] = [admitted[k] EXCEPT ![clock] = @ + 1],
           NEW t \in Int, NEW u \in Int
    PROVE  SumOf(admitted'[k], Span(t, u)) =
               SumOf(admitted[k], Span(t, u)) + IF t <= clock /\ clock < u THEN 1 ELSE 0
<1>1. /\ admitted[k] \in [Times -> Nat] /\ clock \in Times
      /\ Span(t, u) \in SUBSET Times /\ IsFiniteSet(Span(t, u))
  BY SpanFinite DEF IInv, TypeOK
<1>2. clock \in Span(t, u) <=> t <= clock /\ clock < u
  BY <1>1 DEF Span
<1> QED
  BY <1>1, <1>2, SumIncrements

\* A longer stretch has no fewer requests.
LEMMA Longer ==
    ASSUME IInv, NEW k \in Keys, NEW s, NEW t, NEW u, NEW v, Span(t, u) \subseteq Span(s, v)
    PROVE  /\ SumOf(admitted[k], Span(t, u)) \in Nat
           /\ SumOf(admitted[k], Span(t, u)) <= SumOf(admitted[k], Span(s, v))
<1>1. \A x \in Span(s, v) : admitted[k][x] \in Nat
  BY SpanFinite DEF IInv, TypeOK
<1>2. IsFiniteSet(Span(s, v))
  BY SpanFinite
<1> QED
  BY <1>1, <1>2, SumGrows

WindowInv == WindowsCount /\ OpenedBefore

LEMMA TimeTypes ==
    ASSUME IInv
    PROVE  /\ clock \in Nat /\ Window \in Nat \ {0} /\ MaxStall \in Nat /\ Limit \in Nat \ {0}
           /\ \A h \in Handlers : /\ now[h] \in Nat /\ now[h] <= clock
                                  /\ call[h] = "locking" => clock - now[h] <= MaxStall
           /\ \A k \in Keys : /\ \A s \in opened[k] : s \in Nat
                              /\ clients[k] # None => /\ clients[k] \in WindowEntry
                                                      /\ clients[k].count \in 1 .. Limit
                                                      /\ clients[k].resetAt \in Int
BY LimiterAssumption DEF IInv, TypeOK, ReadsThePast, Times, WindowEntry

LEMMA CountedFields ==
    ASSUME IInv, NEW k \in Keys, NEW h \in Handlers, Counts(k, h)
    PROVE  /\ clients'[k].count = clients[k].count + 1
           /\ clients'[k].resetAt = clients[k].resetAt
BY TimeTypes DEF Counts, WindowEntry

LEMMA WindowsFilled == Spec => []WindowInv
<1>1. Init => WindowInv
  BY DEF Init, WindowInv, WindowsCount, OpenedBefore
<1>2. IInv /\ IInv' /\ WindowInv /\ [Next]_vars => WindowInv'
  <2> SUFFICES ASSUME IInv, IInv', WindowInv, [Next]_vars, NEW k \in Keys
               PROVE  /\ clients'[k] # None =>
                            /\ clients'[k].resetAt - Window \in opened'[k]
                            /\ SumOf(admitted'[k], Span(clients'[k].resetAt - Window, clock' + 1))
                                   >= clients'[k].count
                      /\ \A s \in opened'[k] : s <= clock'
    BY DEF WindowInv, WindowsCount, OpenedBefore
  <2>1. clock \in Nat /\ clock' \in Nat /\ clock <= clock'
    <3>1. clock \in Nat /\ clock' \in Nat
      BY LimiterAssumption DEF IInv, TypeOK, Times
    <3>2. clock' = clock \/ clock' = clock + 1
      BY DEF Next, Allow, AllowBegin, Open, Count, Deny, Tick, vars
    <3> QED
      BY <3>1, <3>2
  <2>2. clients[k] # None =>
            /\ clients[k].resetAt - Window \in opened[k]
            /\ SumOf(admitted[k], Span(clients[k].resetAt - Window, clock + 1)) >= clients[k].count
    BY DEF WindowInv, WindowsCount
  <2>3. \A s \in opened[k] : s \in Nat /\ s <= clock
    BY TimeTypes DEF WindowInv, OpenedBefore
  <2>4. CASE Quiet(k)
    <3>1. ASSUME clients[k] # None, clients'[k] = clients[k]
          PROVE  SumOf(admitted[k], Span(clients[k].resetAt - Window, clock' + 1)) >= clients[k].count
      <4> DEFINE t == clients[k].resetAt - Window
      <4>1. Span(t, clock + 1) \subseteq Span(t, clock' + 1)
        BY <2>1, LimiterAssumption DEF Span, Times
      <4>2. /\ SumOf(admitted[k], Span(t, clock + 1)) \in Nat
            /\ SumOf(admitted[k], Span(t, clock + 1)) <= SumOf(admitted[k], Span(t, clock' + 1))
        BY <4>1, Longer
      <4>3. SumOf(admitted[k], Span(t, clock' + 1)) \in Nat
        BY Longer
      <4>4. clients[k].count \in Nat /\ SumOf(admitted[k], Span(t, clock + 1)) >= clients[k].count
        BY <2>2, <3>1, TimeTypes
      <4> HIDE DEF t
      <4>5. SumOf(admitted[k], Span(t, clock' + 1)) >= clients[k].count
        BY <4>2, <4>3, <4>4
      <4> QED
        BY <4>5 DEF t
    <3> QED
      BY <2>1, <2>2, <2>3, <2>4, <3>1 DEF Quiet
  <2>5. ASSUME NEW h \in Handlers, Opens(k, h)
        PROVE  /\ clients'[k].resetAt - Window \in opened'[k]
               /\ SumOf(admitted'[k], Span(clients'[k].resetAt - Window, clock' + 1))
                      >= clients'[k].count
               /\ \A s \in opened'[k] : s <= clock'
    <3>1. clients'[k].resetAt - Window = now[h] /\ clients'[k].count = 1 /\ clock' = clock
      BY <2>5, TimeTypes DEF Opens
    <3>2. now[h] \in Int /\ now[h] <= clock /\ clock + 1 \in Int
      BY <2>1, TimeTypes
    <3>3. SumOf(admitted'[k], Span(now[h], clock + 1)) = SumOf(admitted[k], Span(now[h], clock + 1)) + 1
      BY <2>1, <2>5, <3>2, OneMore DEF Opens
    <3>4. SumOf(admitted[k], Span(now[h], clock + 1)) \in Nat
      BY Longer
    <3>5. SumOf(admitted'[k], Span(now[h], clock + 1)) >= 1
      BY <3>3, <3>4
    <3> QED
      BY <2>3, <2>5, <3>1, <3>2, <3>5 DEF Opens
  <2>6. ASSUME NEW h \in Handlers, Counts(k, h)
        PROVE  /\ clients'[k].resetAt - Window \in opened'[k]
               /\ SumOf(admitted'[k], Span(clients'[k].resetAt - Window, clock' + 1))
                      >= clients'[k].count
               /\ \A s \in opened'[k] : s <= clock'
    <3> DEFINE t == clients[k].resetAt - Window
    <3>1. clients[k] # None /\ clock' = clock /\ opened'[k] = opened[k]
      BY <2>6 DEF Counts
    <3>2. t \in Int /\ t <= clock
      BY <2>2, <2>3, <3>1
    <3>3. clients'[k].resetAt - Window = t /\ clients'[k].count = clients[k].count + 1
      BY <2>6, CountedFields
    <3>4. SumOf(admitted[k], Span(t, clock + 1)) >= clients[k].count /\ clients[k].count \in Nat
      BY <2>2, <3>1, TimeTypes
    <3>5. SumOf(admitted[k], Span(t, clock + 1)) \in Nat
      BY Longer
    <3> HIDE DEF t
    <3>6. SumOf(admitted'[k], Span(t, clock + 1)) = SumOf(admitted[k], Span(t, clock + 1)) + 1
      BY <2>1, <2>6, <3>2, OneMore DEF Counts
    <3>7. SumOf(admitted'[k], Span(t, clock + 1)) >= clients[k].count + 1
      BY <3>4, <3>5, <3>6
    <3> QED
      BY <2>2, <2>3, <3>1, <3>3, <3>7 DEF t
  <2> QED
    BY <2>4, <2>5, <2>6, EffectOnClient
<1> QED
  BY <1>1, <1>2, IInvHolds, PTL DEF Spec

\* A request is denied only when the limit was used by requests of the same
\* client, less than one Window and one wait ago.
THEOREM DenialsAreJustified == Spec => DenialJustified
<1> DEFINE Just == \A h \in Handlers :
           call[h] = "locking" /\ call'[h] = "denied" =>
               AdmittedIn(key[h], clock - Window - MaxStall + 1, clock + 1) >= Limit
<1>1. IInv /\ WindowInv /\ [Next]_vars => [Just]_vars
  <2> SUFFICES ASSUME IInv, WindowInv, Next, NEW h \in Handlers,
                      call[h] = "locking", call'[h] = "denied"
               PROVE  SumOf(admitted[key[h]], Span(clock - Window - MaxStall + 1, clock + 1)) >= Limit
    BY AdmittedIsSum
  <2>1. Deny(h)
    BY DEF Next, Allow, AllowBegin, Open, Count, Deny, Tick, IInv, TypeOK
  <2> DEFINE k == key[h]
             t == clients[k].resetAt - Window
             from == clock - Window - MaxStall + 1
  <2>2. k \in Keys /\ clients[k] # None /\ now[h] < clients[k].resetAt /\ Full(clients[k])
    <3>1. k \in Keys /\ Unexpired(now[h])[k] # None /\ Full(clients[k])
      BY <2>1 DEF Deny, IInv, TypeOK
    <3>2. clients[k] # None /\ ~Closed(clients[k], now[h])
      BY <3>1 DEF Unexpired
    <3> QED
      BY <3>1, <3>2, TimeTypes DEF Closed
  <2>3. clients[k].count >= Limit /\ clients[k].count \in Nat
    BY <2>2, TimeTypes DEF Full
  <2>4. SumOf(admitted[k], Span(t, clock + 1)) >= clients[k].count
    BY <2>2 DEF WindowInv, WindowsCount
  <2>5. from <= t /\ from \in Int /\ t \in Int
    BY <2>2, TimeTypes
  <2>6. Span(t, clock + 1) \subseteq Span(from, clock + 1)
    BY <2>5, LimiterAssumption, TimeTypes DEF Span, Times
  <2> HIDE DEF t, from
  <2>7. /\ SumOf(admitted[k], Span(t, clock + 1)) \in Nat
        /\ SumOf(admitted[k], Span(t, clock + 1)) <= SumOf(admitted[k], Span(from, clock + 1))
        /\ SumOf(admitted[k], Span(from, clock + 1)) \in Nat
    BY <2>2, <2>6, Longer
  <2>8. SumOf(admitted[k], Span(from, clock + 1)) >= Limit
    BY <2>3, <2>4, <2>7, LimiterAssumption
  <2> QED
    BY <2>8 DEF from
<1> QED
  BY <1>1, IInvHolds, WindowsFilled, PTL DEF Spec, DenialJustified

\* What is known of one client before a step.
LEMMA FitStep ==
    ASSUME IInv, WindowInv, LastWindow, SpareFits, MaxStall < Window, [Next]_vars,
           NEW k \in Keys, NEW t \in Times, IsFiniteSet(opened[k])
    PROVE  SumOf(admitted'[k], Span(t, t + Window)) + Spare(k, t)'
               <= Limit * Cardinality(Touched(k, t)')
<1> DEFINE n == Cardinality(Touched(k, t))
           a == SumOf(admitted[k], Span(t, t + Window))
           in == t <= clock /\ clock < t + Window
<1>1. /\ IsFiniteSet(Touched(k, t)) /\ n \in Nat /\ a \in Nat
      /\ t \in Nat /\ t + Window \in Int /\ Limit * n \in Nat
  <2>1. IsFiniteSet(Touched(k, t))
    BY FS_Subset DEF Touched
  <2>2. n \in Nat
    BY <2>1, FS_CardinalityType
  <2>3. a \in Nat
    BY Longer
  <2>4. t \in Nat
    BY LimiterAssumption DEF Times
  <2> HIDE DEF n, a
  <2> QED
    BY <2>1, <2>2, <2>3, <2>4, LimiterAssumption
<1>2. a + Spare(k, t) <= Limit * n
  BY DEF SpareFits
<1>3. Spare(k, t) \in Nat
  BY TimeTypes DEF Spare
<1>4. clients[k] # None => clients[k].resetAt - Window \in opened[k]
  BY DEF WindowInv, WindowsCount
<1> HIDE DEF n, a
<1>5. CASE Quiet(k)
  <2>1. Touched(k, t)' = Touched(k, t) /\ SumOf(admitted'[k], Span(t, t + Window)) = a
    BY <1>5 DEF Quiet, Touched, a
  <2>2. Spare(k, t)' = Spare(k, t) \/ Spare(k, t)' = 0
    BY <1>5, <2>1 DEF Quiet, Spare
  <2>3. a + Spare(k, t)' <= Limit * n
    BY <1>1, <1>2, <1>3, <2>2
  <2> QED
    BY <2>1, <2>3 DEF n
<1>6. ASSUME NEW h \in Handlers, Counts(k, h)
      PROVE  SumOf(admitted'[k], Span(t, t + Window)) + Spare(k, t)'
                 <= Limit * Cardinality(Touched(k, t)')
  <2> DEFINE s == clients[k].resetAt - Window
  <2>1. Touched(k, t)' = Touched(k, t) /\ clients[k] # None
    BY <1>6 DEF Counts, Touched
  <2>2. /\ clients'[k].count = clients[k].count + 1 /\ clients'[k].resetAt = clients[k].resetAt
        /\ clients[k].count \in Nat /\ clients[k].count < Limit
        /\ clients'[k] # None
    BY <1>6, <2>1, TimeTypes, CountedFields, CountedEntry DEF Counts
  <2>3. SumOf(admitted'[k], Span(t, t + Window)) = a + IF in THEN 1 ELSE 0
    BY <1>1, <1>6, OneMore DEF Counts, a
  <2>4. s \in Nat /\ s <= clock /\ clock - Window - MaxStall < s
    <3>1. s \in opened[k]
      BY <1>4, <2>1
    <3>2. s \in Nat /\ s <= clock
      BY <3>1, TimeTypes DEF WindowInv, OpenedBefore
    <3>3. now[h] < clients[k].resetAt /\ clock - now[h] <= MaxStall
      BY <1>6, TimeTypes DEF Counts
    <3> QED
      BY <2>1, <3>2, <3>3, TimeTypes
  <2>5. CASE in
    <3>1. s \in Touched(k, t)
      BY <1>1, <1>4, <2>1, <2>4, <2>5, TimeTypes DEF Touched
    <3>2. Spare(k, t) = Limit - clients[k].count /\ Spare(k, t)' = Limit - (clients[k].count + 1)
      BY <2>1, <2>2, <3>1 DEF Spare
    <3>3. a + 1 + Spare(k, t)' <= Limit * n
      BY <1>1, <1>2, <2>2, <3>2, TimeTypes
    <3> QED
      BY <2>1, <2>3, <2>5, <3>3 DEF n
  <2>6. CASE ~in
    <3>1. Spare(k, t)' <= Spare(k, t) /\ Spare(k, t)' \in Int
      BY <2>1, <2>2, TimeTypes DEF Spare
    <3>2. a + Spare(k, t)' <= Limit * n
      BY <1>1, <1>2, <1>3, <3>1
    <3>3. SumOf(admitted'[k], Span(t, t + Window)) = a
      BY <1>1, <2>3, <2>6
    <3> QED
      BY <2>1, <3>2, <3>3 DEF n
  <2> QED
    BY <2>5, <2>6
<1>7. ASSUME NEW h \in Handlers, Opens(k, h)
      PROVE  SumOf(admitted'[k], Span(t, t + Window)) + Spare(k, t)'
                 <= Limit * Cardinality(Touched(k, t)')
  <2>1. now[h] \in Nat /\ now[h] <= clock /\ clock - now[h] <= MaxStall
    BY <1>7, TimeTypes DEF Opens
  <2>2. now[h] \notin opened[k]
    <3>1. ASSUME now[h] \in opened[k] PROVE FALSE
      <4>1. ~(now[h] + Window <= clock)
        BY <2>1, TimeTypes
      <4>2. clients[k] # None /\ clients[k].resetAt = now[h] + Window
        BY <3>1, <4>1 DEF LastWindow
      <4> QED
        BY <1>7, <2>1, <4>2, TimeTypes DEF Opens
    <3> QED
      BY <3>1
  <2>3. /\ clients'[k] # None /\ clients'[k].count = 1 /\ clients'[k].resetAt - Window = now[h]
        /\ opened'[k] = opened[k] \cup {now[h]}
    <3>1. [count |-> 1, resetAt |-> now[h] + Window] # None
      BY <2>1, LimiterAssumption
    <3> QED
      BY <1>7, <2>1, <3>1, LimiterAssumption DEF Opens
  <2>4. SumOf(admitted'[k], Span(t, t + Window)) = a + IF in THEN 1 ELSE 0
    BY <1>1, <1>7, OneMore DEF Opens, a
  <2>5. a <= Limit * n
    BY <1>1, <1>2, <1>3
  <2>6. CASE t - Window - MaxStall < now[h] /\ now[h] < t + Window
    <3>1. Touched(k, t)' = Touched(k, t) \cup {now[h]} /\ now[h] \notin Touched(k, t)
      BY <2>2, <2>3, <2>6 DEF Touched
    <3>2. Cardinality(Touched(k, t)') = n + 1
      BY <1>1, <3>1, FS_AddElement DEF n
    <3>3. Spare(k, t)' = Limit - 1
      BY <2>3, <3>1 DEF Spare
    <3>4. Limit * (n + 1) = Limit * n + Limit
      BY <1>1, LimiterAssumption
    <3>5. a + 1 + (Limit - 1) <= Limit * n + Limit /\ a + (Limit - 1) <= Limit * n + Limit
      BY <1>1, <2>5, LimiterAssumption
    <3>6. SumOf(admitted'[k], Span(t, t + Window)) + Spare(k, t)' <= Limit * (n + 1)
      <4>1. CASE in
        BY <2>4, <3>3, <3>4, <3>5, <4>1
      <4>2. CASE ~in
        BY <1>1, <2>4, <3>3, <3>4, <3>5, <4>2
      <4> QED
        BY <4>1, <4>2
    <3> QED
      BY <3>2, <3>6
  <2>7. CASE ~(t - Window - MaxStall < now[h] /\ now[h] < t + Window)
    <3>1. ~in
      BY <1>1, <2>1, <2>7, TimeTypes
    <3>2. Touched(k, t)' = Touched(k, t) /\ now[h] \notin Touched(k, t)'
      BY <2>3, <2>7 DEF Touched
    <3>3. Spare(k, t)' = 0
      BY <2>3, <3>2 DEF Spare
    <3>4. SumOf(admitted'[k], Span(t, t + Window)) + 0 = a
      BY <1>1, <2>4, <3>1
    <3> QED
      BY <2>5, <3>2, <3>3, <3>4 DEF n
  <2> QED
    BY <2>6, <2>7
<1> QED
  BY <1>5, <1>6, <1>7, EffectOnClient

\* No stretch of one Window admits more than the windows it touched have
\* counted, for every limit, when no call waits for the mutex as long as a
\* window lasts.  (Then a window could be opened twice at the same time, and
\* the start times would not tell the two apart.)
THEOREM AdmissionsFit ==
    ASSUME MaxStall < Window
    PROVE  Spec => []AdmissionsFitWindows
<1> DEFINE Starts == \A k \in Keys : IsFiniteSet(opened[k])
<1>1. IInv => Starts
  BY SpanFinite, FS_Subset DEF IInv, TypeOK
<1>2. Init => SpareFits
  <2> SUFFICES ASSUME Init, NEW k \in Keys, NEW t \in Times
               PROVE  SumOf(admitted[k], Span(t, t + Window)) + Spare(k, t)
                          <= Limit * Cardinality(Touched(k, t))
    BY DEF SpareFits
  <2>1. Touched(k, t) = {} /\ Spare(k, t) = 0
    BY DEF Init, Touched, Spare
  <2>2. SumOf(admitted[k], Span(t, t + Window)) = 0
    <3>1. \A x \in Span(t, t + Window) : admitted[k][x] = 0
      BY SpanFinite DEF Init
    <3> QED
      BY <3>1, SpanFinite, SumOfZeros
  <2> QED
    BY <2>1, <2>2, FS_EmptySet, LimiterAssumption
<1>3. IInv /\ WindowInv /\ LastWindow /\ SpareFits /\ [Next]_vars => SpareFits'
  BY <1>1, FitStep DEF SpareFits
<1>4. IInv /\ SpareFits => AdmissionsFitWindows
  <2> SUFFICES ASSUME IInv, SpareFits, NEW k \in Keys, NEW t \in Times
               PROVE  SumOf(admitted[k], Span(t, t + Window)) <= Limit * Cardinality(Touched(k, t))
    BY AdmittedIsSum DEF AdmissionsFitWindows, Touched
  <2>1. Spare(k, t) \in Nat
    BY TimeTypes DEF Spare
  <2>2. SumOf(admitted[k], Span(t, t + Window)) \in Nat
    BY Longer
  <2>3. Limit * Cardinality(Touched(k, t)) \in Nat
    <3>1. Cardinality(Touched(k, t)) \in Nat
      BY <1>1, FS_Subset, FS_CardinalityType DEF Touched
    <3> QED
      BY <3>1, LimiterAssumption
  <2> QED
    BY <2>1, <2>2, <2>3 DEF SpareFits
<1> HIDE DEF Starts
<1> QED
  BY <1>2, <1>3, <1>4, IInvHolds, WindowsFilled, WindowsFollow, PTL DEF Spec

------------------------------------------------------------------------------
(* Metrics: observations                                                   *)

Entries == [of : ({"requests"} \X Labels) \cup (Counters \X Names), seconds : Nat]

LEMMA SeenGrows ==
    ASSUME NEW entries \in Seq(Entries), NEW e \in Entries, NEW x
    PROVE  LET n == Len(entries) + 1
               more == Append(entries, e)
           IN  /\ Seen(x, more) = Seen(x, entries) \cup (IF e.of = x THEN {n} ELSE {})
               /\ n \notin Seen(x, entries) /\ IsFiniteSet(Seen(x, entries))
               /\ more[n] = e
               /\ \A i \in Seen(x, entries) : more[i] = entries[i] /\ entries[i] \in Entries
<1> DEFINE m == Len(entries)
           more == Append(entries, e)
<1>1. m \in Nat /\ DOMAIN entries = 1 .. m /\ \A i \in 1 .. m : entries[i] \in Entries
  BY LenProperties
<1>2. /\ more \in Seq(Entries) /\ Len(more) = m + 1 /\ DOMAIN more = 1 .. m + 1
      /\ \A i \in 1 .. m : more[i] = entries[i]
      /\ more[m + 1] = e
  BY AppendProperties, LenProperties
<1> HIDE DEF m, more
<1>3. 1 .. m + 1 = (1 .. m) \cup {m + 1} /\ m + 1 \notin 1 .. m
  BY <1>1
<1>4. IsFiniteSet(Seen(x, entries))
  <2>1. Seen(x, entries) \subseteq 1 .. m
    BY <1>1 DEF Seen
  <2> QED
    BY <1>1, <2>1, FS_Interval, FS_Subset
<1> QED
  BY <1>1, <1>2, <1>3, <1>4 DEF Seen, m, more

LEMMA CountGrows ==
    ASSUME NEW entries \in Seq(Entries), NEW e \in Entries, NEW x
    PROVE  /\ Cardinality(Seen(x, entries)) \in Nat
           /\ Cardinality(Seen(x, Append(entries, e))) =
                  Cardinality(Seen(x, entries)) + IF e.of = x THEN 1 ELSE 0
<1> DEFINE S == Seen(x, entries)
           n == Len(entries) + 1
<1>1. IsFiniteSet(S) /\ n \notin S
      /\ Seen(x, Append(entries, e)) = S \cup (IF e.of = x THEN {n} ELSE {})
  BY SeenGrows
<1> HIDE DEF S, n
<1>2. Cardinality(S) \in Nat /\ Cardinality(S \cup {n}) = Cardinality(S) + 1
  BY <1>1, FS_CardinalityType, FS_AddElement
<1>3. CASE e.of = x
  BY <1>1, <1>2, <1>3 DEF S
<1>4. CASE e.of # x
  BY <1>1, <1>2, <1>4 DEF S
<1> QED
  BY <1>3, <1>4

Histograms == [count : Nat, sum : Nat, buckets : [Buckets -> Nat]]

\* One more observation of l counts in its histogram, and in no other.
LEMMA HistogramGrows ==
    ASSUME NEW entries \in Seq(Entries), NEW e \in Entries, NEW l
    PROVE  LET old == Histogram(l, entries)
           IN  /\ old \in Histograms
               /\ \A b \in Buckets : old.buckets[b] <= old.count
               /\ Histogram(l, Append(entries, e)) =
                      IF e.of = <<"requests", l>>
                      THEN [count |-> old.count + 1,
                            sum |-> old.sum + e.seconds,
                            buckets |-> [b \in Buckets |->
                                            old.buckets[b] + IF e.seconds <= b THEN 1 ELSE 0]]
                      ELSE old
<1> DEFINE x == <<"requests", l>>
           S == Seen(x, entries)
           n == Len(entries) + 1
           more == Append(entries, e)
           T == Seen(x, more)
           f == [i \in S |-> entries[i].seconds]
           g == [i \in T |-> more[i].seconds]
           Low(b) == {i \in S : entries[i].seconds <= b}
           LowT(b) == {i \in T : more[i].seconds <= b}
<1>1. /\ IsFiniteSet(S) /\ n \notin S /\ T = S \cup (IF e.of = x THEN {n} ELSE {})
      /\ more[n] = e
      /\ \A i \in S : more[i] = entries[i] /\ entries[i] \in Entries
  <2> HIDE DEF x
  <2>1. /\ Seen(x, Append(entries, e)) =
               Seen(x, entries) \cup (IF e.of = x THEN {Len(entries) + 1} ELSE {})
        /\ Len(entries) + 1 \notin Seen(x, entries) /\ IsFiniteSet(Seen(x, entries))
        /\ Append(entries, e)[Len(entries) + 1] = e
    BY SeenGrows
  <2>2. \A i \in Seen(x, entries) : Append(entries, e)[i] = entries[i] /\ entries[i] \in Entries
    BY SeenGrows
  <2> QED
    BY <2>1, <2>2
<1>2. /\ Histogram(l, entries) = [count |-> Cardinality(S), sum |-> SumOf(f, S),
                                  buckets |-> [b \in Buckets |-> Cardinality(Low(b))]]
      /\ Histogram(l, more) = [count |-> Cardinality(T), sum |-> SumOf(g, T),
                               buckets |-> [b \in Buckets |-> Cardinality(LowT(b))]]
  <2>1. SumFunction(f) = SumOf(f, S) /\ SumFunction(g) = SumOf(g, T)
    <3>1. \A h : SumFunction(h) = SumOf(h, DOMAIN h)
      BY DEF SumFunction, SumFunctionOnSet, FoldFunctionOnSet, SumOf, MapThenSumSet
    <3> HIDE DEF S, T
    <3>2. DOMAIN f = S /\ DOMAIN g = T
      OBVIOUS
    <3> QED
      BY <3>1, <3>2
  <2> QED
    BY <2>1 DEF Histogram
<1>3. \A i \in S : f[i] \in Nat
  BY <1>1 DEF Entries
<1>4. e.seconds \in Nat
  BY DEF Entries
<1> HIDE DEF S, T, n, more, x
<1>5. Cardinality(S) \in Nat /\ Cardinality(S \cup {n}) = Cardinality(S) + 1
  BY <1>1, FS_CardinalityType, FS_AddElement
<1>6. SumOf(f, S) \in Nat
  <2> HIDE DEF f
  <2> QED
    BY <1>1, <1>3, SumGrows
<1>7. ASSUME NEW b \in Buckets
      PROVE  /\ IsFiniteSet(Low(b)) /\ Cardinality(Low(b)) \in Nat
             /\ Cardinality(Low(b)) <= Cardinality(S)
             /\ Cardinality(Low(b) \cup {n}) = Cardinality(Low(b)) + 1
  <2>1. Low(b) \in SUBSET S /\ n \notin Low(b)
    BY <1>1
  <2> HIDE DEF Low
  <2> QED
    BY <1>1, <2>1, FS_Subset, FS_CardinalityType, FS_AddElement
<1> HIDE DEF f, g, Low, LowT
<1>8. Histogram(l, entries) \in Histograms
      /\ \A b \in Buckets : Histogram(l, entries).buckets[b] <= Histogram(l, entries).count
  <2> DEFINE low == [b \in Buckets |-> Cardinality(Low(b))]
  <2>1. low \in [Buckets -> Nat]
    BY <1>7
  <2>2. \A b \in Buckets : low[b] <= Cardinality(S)
    BY <1>7
  <2> HIDE DEF low
  <2>3. Histogram(l, entries) = [count |-> Cardinality(S), sum |-> SumOf(f, S), buckets |-> low]
    BY <1>2 DEF low
  <2> QED
    BY <1>5, <1>6, <2>1, <2>2, <2>3 DEF Histograms
<1>9. CASE e.of = x
  <2>1. T = S \cup {n}
    BY <1>1, <1>9
  <2>2. SumOf(g, T) = SumOf(f, S) + e.seconds
    <3>1. g[n] = e.seconds /\ \A i \in S : g[i] = f[i]
      BY <1>1, <2>1 DEF f, g
    <3>2. \A y \in S \cup {n} : g[y] \in Int
      BY <1>3, <1>4, <3>1
    <3>3. SumOf(g, S \cup {n}) = SumOf(g, S) + g[n]
      BY <1>1, <3>2, SumAdds
    <3>4. SumOf(g, S) = SumOf(f, S)
      BY <1>1, <1>3, <3>1, SumDependsOn
    <3> QED
      BY <2>1, <3>1, <3>3, <3>4
  <2>3. ASSUME NEW b \in Buckets
        PROVE  Cardinality(LowT(b)) = Cardinality(Low(b)) + IF e.seconds <= b THEN 1 ELSE 0
    <3>1. LowT(b) = Low(b) \cup (IF e.seconds <= b THEN {n} ELSE {})
      BY <1>1, <2>1 DEF Low, LowT
    <3>2. CASE e.seconds <= b
      BY <1>7, <3>1, <3>2
    <3>3. CASE ~(e.seconds <= b)
      <4>1. LowT(b) = Low(b)
        BY <3>1, <3>3
      <4>2. (IF e.seconds <= b THEN 1 ELSE 0) = 0
        BY <3>3, Zenon
      <4>3. Cardinality(Low(b)) \in Nat
        BY <1>7
      <4>4. \A k \in Nat : k = k + 0
        OBVIOUS
      <4> QED
        BY <4>1, <4>2, <4>3, <4>4
    <3> QED
      BY <3>2, <3>3
  <2>4. [b \in Buckets |-> Cardinality(LowT(b))] =
            [b \in Buckets |-> Cardinality(Low(b)) + IF e.seconds <= b THEN 1 ELSE 0]
    BY <2>3
  <2> QED
    BY <1>2, <1>5, <1>8, <1>9, <2>1, <2>2, <2>4 DEF x, more
<1>10. CASE e.of # x
  <2>1. T = S
    BY <1>1, <1>10
  <2>2. f = g /\ \A b \in Buckets : Low(b) = LowT(b)
    BY <1>1, <2>1 DEF f, g, Low, LowT
  <2>3. Histogram(l, more) = Histogram(l, entries)
    BY <1>2, <2>1, <2>2
  <2> QED
    BY <1>8, <1>10, <2>3 DEF x, more
<1> QED
  BY <1>9, <1>10

------------------------------------------------------------------------------
(* Metrics: pages                                                          *)

\* What the map and the counters hold after some observations.
StateOf(entries) ==
    [series |-> [l \in Labels |-> Histogram(l, entries)],
     counters |-> [c \in Counters |-> Tally(c, entries)]]

Sections == [Labels -> Nat] \cup [Labels -> Histograms] \cup [Names -> Nat]

LEMMA PageType ==
    ASSUME NEW entries \in Seq(Entries)
    PROVE  /\ Len(PageOf(entries)) = 5
           /\ PageOf(entries) \in Seq(Sections)
           /\ StateOf(entries).series \in [Labels -> Histograms]
           /\ StateOf(entries).counters \in [Counters -> [Names -> Nat]]
<1>1. ASSUME NEW l \in Labels
      PROVE  /\ Cardinality(Seen(<<"requests", l>>, entries)) \in Nat
             /\ Histogram(l, entries) \in Histograms
  <2>1. [of |-> <<"requests", l>>, seconds |-> 0] \in Entries
    BY DEF Entries
  <2> QED
    BY <2>1, CountGrows, HistogramGrows
<1>2. ASSUME NEW c \in Counters PROVE Tally(c, entries) \in [Names -> Nat]
  <2>1. ASSUME NEW name \in Names PROVE Cardinality(Seen(<<c, name>>, entries)) \in Nat
    <3>1. [of |-> <<c, name>>, seconds |-> 0] \in Entries
      BY DEF Entries
    <3> QED
      BY <3>1, CountGrows
  <2> QED
    BY <2>1 DEF Tally
<1>3. /\ [l \in Labels |-> Cardinality(Seen(<<"requests", l>>, entries))] \in Sections
      /\ [l \in Labels |-> Histogram(l, entries)] \in Sections
  BY <1>1 DEF Sections
<1>4. /\ Tally("cacheHits", entries) \in Sections /\ Tally("cacheMisses", entries) \in Sections
      /\ Tally("bankRequestErrors", entries) \in Sections
  BY <1>2 DEF Sections, Counters
<1>5. PageOf(entries) \in Seq(Sections) /\ Len(PageOf(entries)) = 5
  <2>1. \A a, b, c, d, e \in Sections :
            <<a, b, c, d, e>> \in Seq(Sections) /\ Len(<<a, b, c, d, e>>) = 5
    OBVIOUS
  <2> QED
    BY <1>3, <1>4, <2>1 DEF PageOf
<1> QED
  BY <1>1, <1>2, <1>5 DEF StateOf

\* An observation leaves the ones before it alone.
LEMMA PrefixStays ==
    ASSUME NEW entries \in Seq(Entries), NEW e \in Entries, NEW n \in 0 .. Len(entries)
    PROVE  /\ SubSeq(Append(entries, e), 1, n) = SubSeq(entries, 1, n)
           /\ SubSeq(entries, 1, n) \in Seq(Entries)
           /\ SubSeq(entries, 1, Len(entries)) = entries
<1> DEFINE more == Append(entries, e)
<1>1. Len(entries) \in Nat /\ DOMAIN entries = 1 .. Len(entries)
  BY LenProperties
<1>2. /\ more \in Seq(Entries) /\ Len(more) = Len(entries) + 1
      /\ \A i \in 1 .. Len(entries) : more[i] = entries[i]
  BY AppendProperties
<1> HIDE DEF more
<1>3. /\ SubSeq(entries, 1, n) = [i \in 1 .. n |-> entries[i]]
      /\ SubSeq(more, 1, n) = [i \in 1 .. n |-> more[i]]
  BY <1>1, <1>2, SubSeqProperties
<1>4. SubSeq(entries, 1, Len(entries)) = entries
  BY <1>1, SubSeqProperties
<1>5. SubSeq(entries, 1, n) \in Seq(Entries)
  BY <1>1, SubSeqProperties
<1> QED
  BY <1>1, <1>2, <1>3, <1>4, <1>5 DEF more

\* The sections before the one that is written next
Written == [requests |-> 0, durations |-> 1, cacheHits |-> 2, cacheMisses |-> 3,
            bankRequestErrors |-> 4]

\* The page of s has the first k sections of the page with some observations,
\* and so has the copy it is written from.
Shows(s, entries, k) ==
    /\ Len(page[s]) = k
    /\ \A i \in 1 .. k : page[s][i] = PageOf(entries)[i]
    /\ pc[s] = "snapshot" => k = 0
    /\ pc[s] \in DOMAIN After => snapshot[s] = StateOf(entries) /\ k = Written[pc[s]]

OneInstant(s) ==
    \E n \in begun[s] .. Len(log), k \in 0 .. 5 : Shows(s, SubSeq(log, 1, n), k)

MetricsInv ==
    /\ log \in Seq(Entries)
    /\ series = StateOf(log).series /\ counters = StateOf(log).counters
    /\ pc \in [Scrapes -> DOMAIN After \cup {"idle", "snapshot"}]
    /\ begun \in [Scrapes -> Nat] /\ \A s \in Scrapes : begun[s] <= Len(log)
    /\ snapshot = [s \in Scrapes |-> snapshot[s]]
    /\ page \in [Scrapes -> Seq(Sections)]
    /\ \A s \in Scrapes : OneInstant(s)

LEMMA MetricsTypes == MetricsInv => MetricsTypeOK
<1> SUFFICES ASSUME MetricsInv PROVE MetricsTypeOK
  OBVIOUS
<1> USE DEF MetricsInv
<1>1. series \in [Labels -> Histograms] /\ counters \in [Counters -> [Names -> Nat]]
  BY PageType
<1>2. ASSUME NEW s \in Scrapes PROVE Len(page[s]) <= 5 /\ begun[s] \in 0 .. Len(log)
  <2>1. \E k \in 0 .. 5 : Len(page[s]) = k
    BY DEF OneInstant, Shows
  <2>2. begun[s] \in Nat /\ begun[s] <= Len(log) /\ Len(log) \in Nat
    BY LenProperties
  <2> QED
    BY <2>1, <2>2
<1>3. ASSUME NEW l \in Labels, NEW b \in Buckets PROVE series[l].buckets[b] <= series[l].count
  <2>1. [of |-> <<"requests", l>>, seconds |-> 0] \in Entries
    BY DEF Entries
  <2>2. series[l] = Histogram(l, log)
    BY DEF StateOf
  <2> QED
    BY <2>1, <2>2, HistogramGrows
<1> QED
  BY <1>1, <1>2, <1>3 DEF MetricsTypeOK, Histograms

LEMMA MetricsPages == MetricsInv => PagesAreOneInstant
<1> SUFFICES ASSUME MetricsInv, NEW s \in Scrapes
             PROVE  \E n \in begun[s] .. Len(log) : IsPrefix(page[s], PageOf(SubSeq(log, 1, n)))
  BY DEF PagesAreOneInstant
<1>1. PICK n \in begun[s] .. Len(log), k \in 0 .. 5 : Shows(s, SubSeq(log, 1, n), k)
  BY DEF MetricsInv, OneInstant
<1> DEFINE entries == SubSeq(log, 1, n)
           p == PageOf(entries)
<1>2. page[s] \in Seq(Sections) /\ log \in Seq(Entries) /\ begun[s] \in Nat /\ Len(log) \in Nat
  BY LenProperties DEF MetricsInv
<1>3. entries \in Seq(Entries)
  <2>1. n \in 0 .. Len(log)
    BY <1>2
  <2> QED
    BY <1>2, <2>1, SubSeqProperties
<1>4. p \in Seq(Sections) /\ Len(p) = 5
  BY <1>3, PageType
<1> HIDE DEF entries
<1>5. Len(page[s]) = k /\ \A i \in 1 .. k : page[s][i] = p[i]
  BY <1>1 DEF Shows, entries
<1> HIDE DEF p
<1>6. SubSeq(page[s], 1, k) = [i \in 1 .. k |-> page[s][i]] /\ SubSeq(p, 1, k) = [i \in 1 .. k |-> p[i]]
  BY <1>2, <1>4, <1>5, SubSeqProperties
<1>7. IsPrefix(page[s], p)
  BY <1>4, <1>5, <1>6 DEF IsPrefix
<1> QED
  BY <1>7 DEF p, entries

LEMMA InitMetrics == MetricsInit => MetricsInv
<1> SUFFICES ASSUME MetricsInit PROVE MetricsInv
  OBVIOUS
<1> USE DEF MetricsInit
<1>1. log = <<>> /\ log \in Seq(Entries) /\ Len(log) = 0
  OBVIOUS
<1>2. ASSUME NEW x PROVE Seen(x, log) = {} /\ Cardinality(Seen(x, log)) = 0
  BY <1>1, FS_EmptySet DEF Seen
<1>3. ASSUME NEW l PROVE Histogram(l, log) = NoSeries
  <2> DEFINE f == [i \in {} |-> log[i].seconds]
  <2>1. Seen(<<"requests", l>>, log) = {} /\ Cardinality({}) = 0
    BY <1>2, FS_EmptySet
  <2>2. SumFunction(f) = 0
    <3>1. SumFunction(f) = SumOf(f, DOMAIN f)
      <4> HIDE DEF f
      <4> QED
        BY DEF SumFunction, SumFunctionOnSet, FoldFunctionOnSet, SumOf, MapThenSumSet
    <3>2. DOMAIN f = {} /\ IsFiniteSet({})
      BY FS_EmptySet
    <3> HIDE DEF f
    <3> QED
      BY <3>1, <3>2, SumOfZeros
  <2>3. \A b \in Buckets : {i \in {} : log[i].seconds <= b} = {}
    OBVIOUS
  <2> QED
    BY <2>1, <2>2, <2>3 DEF Histogram, NoSeries
<1>4. series = StateOf(log).series
  BY <1>3 DEF StateOf, Nothing
<1>5. counters = StateOf(log).counters
  BY <1>2 DEF StateOf, Nothing, Tally
<1>6. ASSUME NEW s \in Scrapes PROVE OneInstant(s)
  <2>1. Shows(s, SubSeq(log, 1, 0), 0)
    BY DEF Shows, After
  <2>2. begun[s] = 0 /\ 0 \in 0 .. Len(log) /\ 0 \in 0 .. 5
    BY <1>1
  <2> QED
    BY <2>1, <2>2 DEF OneInstant
<1>7. <<>> \in Seq(Sections)
  OBVIOUS
<1> QED
  BY <1>1, <1>4, <1>5, <1>6, <1>7 DEF MetricsInv

Recorded(ser, l, t) ==
    [ser EXCEPT ![l] =
        [count |-> @.count + 1, sum |-> @.sum + t,
         buckets |-> [b \in Buckets |-> @.buckets[b] + IF t <= b THEN 1 ELSE 0]]]
Counted(cnt, c, name) == [cnt EXCEPT ![c][name] = @ + 1]

\* One more observation changes the state as it changes what is observed.
LEMMA RequestGrows ==
    ASSUME NEW entries \in Seq(Entries), NEW e \in Entries,
           NEW l \in Labels, NEW t \in Nat, e = [of |-> <<"requests", l>>, seconds |-> t]
    PROVE  /\ StateOf(Append(entries, e)).counters = StateOf(entries).counters
           /\ StateOf(Append(entries, e)).series = Recorded(StateOf(entries).series, l, t)
<1> DEFINE more == Append(entries, e)
           ser == StateOf(entries).series
           cnt == StateOf(entries).counters
<1>9. /\ ser = [k \in Labels |-> Histogram(k, entries)]
      /\ cnt = [d \in Counters |-> Tally(d, entries)]
      /\ StateOf(more).series = [k \in Labels |-> Histogram(k, more)]
      /\ StateOf(more).counters = [d \in Counters |-> Tally(d, more)]
  BY DEF StateOf
<1>1. ASSUME NEW c \in Counters PROVE Tally(c, more) = Tally(c, entries)
  <2>1. ASSUME NEW name \in Names
        PROVE  Cardinality(Seen(<<c, name>>, more)) = Cardinality(Seen(<<c, name>>, entries))
    <3>1. e.of # <<c, name>>
      BY DEF Counters
    <3> QED
      BY <3>1, CountGrows
  <2> QED
    BY <2>1 DEF Tally
<1>2. ASSUME NEW k \in Labels, k # l PROVE Histogram(k, more) = Histogram(k, entries)
  <2>1. e.of # <<"requests", k>>
    BY <1>2
  <2> QED
    BY <2>1, HistogramGrows
<1>3. LET old == Histogram(l, entries) IN
      Histogram(l, more) = [count |-> old.count + 1, sum |-> old.sum + t,
                            buckets |-> [b \in Buckets |->
                                            old.buckets[b] + IF t <= b THEN 1 ELSE 0]]
  <2>1. e.of = <<"requests", l>> /\ e.seconds = t
    OBVIOUS
  <2> QED
    BY <2>1, HistogramGrows
<1> HIDE DEF more, ser, cnt
<1>4. [k \in Labels |-> Histogram(k, more)] =
          [ser EXCEPT ![l] =
              [count |-> @.count + 1, sum |-> @.sum + t,
               buckets |-> [b \in Buckets |-> @.buckets[b] + IF t <= b THEN 1 ELSE 0]]]
  BY <1>2, <1>3, <1>9
<1>5. [d \in Counters |-> Tally(d, more)] = cnt
  BY <1>1, <1>9
<1> QED
  BY <1>4, <1>5, <1>9 DEF more, ser, cnt, Recorded

LEMMA CounterGrows ==
    ASSUME NEW entries \in Seq(Entries), NEW e \in Entries,
           NEW c \in Counters, NEW name \in Names, e = [of |-> <<c, name>>, seconds |-> 0]
    PROVE  /\ StateOf(Append(entries, e)).series = StateOf(entries).series
           /\ StateOf(Append(entries, e)).counters = Counted(StateOf(entries).counters, c, name)
<1> DEFINE more == Append(entries, e)
           ser == StateOf(entries).series
           cnt == StateOf(entries).counters
<1>9. /\ ser = [k \in Labels |-> Histogram(k, entries)]
      /\ cnt = [d \in Counters |-> Tally(d, entries)]
      /\ StateOf(more).series = [k \in Labels |-> Histogram(k, more)]
      /\ StateOf(more).counters = [d \in Counters |-> Tally(d, more)]
  BY DEF StateOf
<1>1. ASSUME NEW l \in Labels PROVE Histogram(l, more) = Histogram(l, entries)
  <2>1. e.of # <<"requests", l>>
    BY DEF Counters
  <2> QED
    BY <2>1, HistogramGrows
<1>2. ASSUME NEW d \in Counters, d # c PROVE Tally(d, more) = Tally(d, entries)
  <2>1. ASSUME NEW m \in Names
        PROVE  Cardinality(Seen(<<d, m>>, more)) = Cardinality(Seen(<<d, m>>, entries))
    <3>1. e.of # <<d, m>>
      BY <1>2
    <3> QED
      BY <3>1, CountGrows
  <2> QED
    BY <2>1 DEF Tally
<1>3. Tally(c, more) = [Tally(c, entries) EXCEPT ![name] = @ + 1]
  <2>1. ASSUME NEW m \in Names, m # name
        PROVE  Cardinality(Seen(<<c, m>>, more)) = Cardinality(Seen(<<c, m>>, entries))
    <3>1. e.of # <<c, m>>
      BY <2>1
    <3> QED
      BY <3>1, CountGrows
  <2>2. Cardinality(Seen(<<c, name>>, more)) = Cardinality(Seen(<<c, name>>, entries)) + 1
    <3>1. e.of = <<c, name>>
      OBVIOUS
    <3> QED
      BY <3>1, CountGrows
  <2> HIDE DEF more
  <2> QED
    BY <2>1, <2>2 DEF Tally
<1> HIDE DEF more, ser, cnt
<1>4. [l \in Labels |-> Histogram(l, more)] = ser
  BY <1>9, <1>1
<1>5. [cnt EXCEPT ![c][name] = @ + 1] = [d \in Counters |-> IF d = c THEN [cnt[c] EXCEPT ![name] = @ + 1]
                                                            ELSE cnt[d]]
  BY <1>9
<1>6. \A d \in Counters : cnt[d] = Tally(d, entries)
  BY <1>9
<1>7. [d \in Counters |-> Tally(d, more)] =
          [d \in Counters |-> IF d = c THEN [cnt[c] EXCEPT ![name] = @ + 1] ELSE cnt[d]]
  BY <1>2, <1>3, <1>6
<1> QED
  BY <1>4, <1>5, <1>7, <1>9 DEF more, ser, cnt, Counted

\* A scrape that does nothing keeps its instant.
LEMMA InstantStays ==
    ASSUME MetricsInv, NEW s \in Scrapes,
           log' = log \/ \E e \in Entries : log' = Append(log, e),
           pc'[s] = pc[s], page'[s] = page[s], snapshot'[s] = snapshot[s], begun'[s] = begun[s]
    PROVE  OneInstant(s)'
<1>1. PICK n \in begun[s] .. Len(log), k \in 0 .. 5 : Shows(s, SubSeq(log, 1, n), k)
  BY DEF MetricsInv, OneInstant
<1>2. log \in Seq(Entries) /\ Len(log) \in Nat /\ n \in 0 .. Len(log)
  BY LenProperties DEF MetricsInv
<1>3. SubSeq(log', 1, n) = SubSeq(log, 1, n) /\ Len(log') \in Nat /\ Len(log') >= Len(log)
  <2>1. CASE log' = log
    BY <1>2, <2>1
  <2>2. ASSUME NEW e \in Entries, log' = Append(log, e)
        PROVE  SubSeq(log', 1, n) = SubSeq(log, 1, n) /\ Len(log') = Len(log) + 1
    BY <1>2, <2>2, PrefixStays, AppendProperties
  <2> QED
    BY <1>2, <2>1, <2>2
<1>4. n \in begun'[s] .. Len(log')
  BY <1>2, <1>3
<1> DEFINE seen == SubSeq(log, 1, n)
<1>5. seen = SubSeq(log', 1, n)
  BY <1>3
<1>6. /\ Len(page'[s]) = k /\ \A i \in 1 .. k : page'[s][i] = PageOf(seen)[i]
      /\ pc'[s] = "snapshot" => k = 0
      /\ pc'[s] \in DOMAIN After => snapshot'[s] = StateOf(seen) /\ k = Written[pc'[s]]
  BY <1>1 DEF Shows
<1> HIDE DEF seen
<1> QED
  BY <1>4, <1>5, <1>6 DEF OneInstant, Shows

LEMMA CopiedSections ==
    ASSUME NEW s
    PROVE  /\ Copied(s, "requests") = [l \in Labels |-> snapshot[s].series[l].count]
           /\ Copied(s, "durations") = snapshot[s].series
           /\ \A c \in Counters : Copied(s, c) = snapshot[s].counters[c]
BY DEF Copied, Counters

LEMMA NextMetrics == MetricsInv /\ [MetricsNext]_metricsVars => MetricsInv'
<1> SUFFICES ASSUME MetricsInv, MetricsNext \/ UNCHANGED metricsVars PROVE MetricsInv'
  OBVIOUS
<1> USE DEF MetricsInv
<1>1. log \in Seq(Entries) /\ Len(log) \in Nat
  BY LenProperties
<1>2. ASSUME NEW e \in Entries, log' = Append(log, e),
             series' = StateOf(log').series, counters' = StateOf(log').counters,
             UNCHANGED <<pc, snapshot, page, begun>>
      PROVE  MetricsInv'
  <2>1. log' \in Seq(Entries) /\ Len(log') = Len(log) + 1
    BY <1>1, <1>2, AppendProperties
  <2>2. ASSUME NEW s \in Scrapes PROVE OneInstant(s)'
    BY <1>2, InstantStays
  <2>3. \A s \in Scrapes : begun'[s] <= Len(log')
    BY <1>1, <1>2, <2>1
  <2> QED
    BY <1>2, <2>1, <2>2, <2>3
<1>3. ASSUME NEW l \in Labels, NEW t \in Seconds, ObserveRequest(l, t) PROVE MetricsInv'
  <2> DEFINE e == [of |-> <<"requests", l>>, seconds |-> t]
  <2>1. t \in Nat /\ e \in Entries
    BY MetricsAssumption DEF Entries
  <2>2. /\ log' = Append(log, e) /\ UNCHANGED <<counters, pc, snapshot, page, begun>>
        /\ series' = Recorded(series, l, t)
    BY <1>3 DEF ObserveRequest, Incremented, Within, Recorded
  <2>3. e = [of |-> <<"requests", l>>, seconds |-> t]
    OBVIOUS
  <2> HIDE DEF e
  <2>4. series = StateOf(log).series /\ counters = StateOf(log).counters
    OBVIOUS
  <2> HIDE DEF MetricsInv
  <2>5. /\ StateOf(Append(log, e)).counters = StateOf(log).counters
        /\ StateOf(Append(log, e)).series = Recorded(StateOf(log).series, l, t)
    BY <1>1, <2>1, <2>3, RequestGrows
  <2>6. series' = StateOf(log').series /\ counters' = StateOf(log').counters
    BY <2>2, <2>4, <2>5, Zenon
  <2> QED
    BY <1>2, <2>1, <2>2, <2>6, Zenon
<1>4. ASSUME NEW c \in Counters, NEW name \in Names, Observe(c, name) PROVE MetricsInv'
  <2> DEFINE e == [of |-> <<c, name>>, seconds |-> 0]
  <2>1. e \in Entries
    BY DEF Entries
  <2>2. /\ log' = Append(log, e) /\ UNCHANGED <<series, pc, snapshot, page, begun>>
        /\ counters' = Counted(counters, c, name)
    BY <1>4 DEF Observe, Counted
  <2>3. e = [of |-> <<c, name>>, seconds |-> 0]
    OBVIOUS
  <2> HIDE DEF e
  <2>4. series = StateOf(log).series /\ counters = StateOf(log).counters
    OBVIOUS
  <2> HIDE DEF MetricsInv
  <2>5. /\ StateOf(Append(log, e)).series = StateOf(log).series
        /\ StateOf(Append(log, e)).counters = Counted(StateOf(log).counters, c, name)
    BY <1>1, <2>1, <2>3, CounterGrows
  <2>6. series' = StateOf(log').series /\ counters' = StateOf(log').counters
    BY <2>2, <2>4, <2>5, Zenon
  <2> QED
    BY <1>2, <2>1, <2>2, <2>6, Zenon
<1>5. ASSUME NEW s \in Scrapes, ServeHTTP(s) PROVE MetricsInv'
  <2>1. /\ pc' = [pc EXCEPT ![s] = "snapshot"] /\ page' = [page EXCEPT ![s] = <<>>]
        /\ begun' = [begun EXCEPT ![s] = Len(log)] /\ UNCHANGED <<series, counters, snapshot, log>>
    BY <1>5 DEF ServeHTTP
  <2>2. ASSUME NEW r \in Scrapes, r # s PROVE OneInstant(r)'
    BY <2>1, <2>2, InstantStays
  <2>3. OneInstant(s)'
    <3>1. begun'[s] = Len(log') /\ page'[s] = <<>> /\ pc'[s] = "snapshot"
      BY <2>1
    <3>2. Len(log') \in begun'[s] .. Len(log') /\ 0 \in 0 .. 5 /\ "snapshot" \notin DOMAIN After
      BY <1>1, <2>1, <3>1 DEF After
    <3> QED
      BY <3>1, <3>2 DEF OneInstant, Shows
  <2>4. <<>> \in Seq(Sections)
    OBVIOUS
  <2> QED
    BY <1>1, <2>1, <2>2, <2>3, <2>4
<1>6. ASSUME NEW s \in Scrapes, Snapshot(s) PROVE MetricsInv'
  <2>1. /\ pc[s] = "snapshot" /\ pc' = [pc EXCEPT ![s] = "requests"]
        /\ snapshot' = [snapshot EXCEPT ![s] = [series |-> series, counters |-> counters]]
        /\ UNCHANGED <<series, counters, page, log, begun>>
    BY <1>6 DEF Snapshot
  <2>2. ASSUME NEW r \in Scrapes, r # s PROVE OneInstant(r)'
    BY <2>1, <2>2, InstantStays
  <2>3. OneInstant(s)'
    <3>1. Len(page[s]) = 0
      BY <2>1 DEF OneInstant, Shows
    <3>2. [series |-> series, counters |-> counters] = StateOf(log)
      BY DEF StateOf
    <3>3. pc'[s] = "requests" /\ snapshot'[s] = StateOf(log) /\ Len(page'[s]) = 0
      BY <2>1, <3>1, <3>2
    <3>4. Written["requests"] = 0
      BY DEF Written
    <3>5. ASSUME NEW n, n = Len(log) PROVE OneInstant(s)'
      <4>1. n \in begun'[s] .. Len(log') /\ SubSeq(log', 1, n) = log
        BY <1>1, <2>1, <3>5, PrefixStays, SubSeqProperties
      <4>2. /\ Len(page'[s]) = 0 /\ \A i \in 1 .. 0 : page'[s][i] = PageOf(SubSeq(log', 1, n))[i]
            /\ pc'[s] # "snapshot" /\ snapshot'[s] = StateOf(SubSeq(log', 1, n))
            /\ Written[pc'[s]] = 0
        <5>1. \A i \in 1 .. 0 : page'[s][i] = PageOf(SubSeq(log', 1, n))[i]
          OBVIOUS
        <5> QED
          BY <3>3, <3>4, <4>1, <5>1
      <4> QED
        BY <4>1, <4>2 DEF OneInstant, Shows
    <3> QED
      BY <3>5
  <2>4. "requests" \in DOMAIN After
    BY DEF After
  <2> QED
    BY <2>1, <2>2, <2>3, <2>4
<1>7. ASSUME NEW s \in Scrapes, Write(s) PROVE MetricsInv'
  <2>1. /\ pc[s] \in DOMAIN After /\ page' = [page EXCEPT ![s] = Append(@, Copied(s, pc[s]))]
        /\ pc' = [pc EXCEPT ![s] = After[pc[s]]] /\ UNCHANGED <<series, counters, snapshot, log, begun>>
    BY <1>7 DEF Write
  <2>2. ASSUME NEW r \in Scrapes, r # s PROVE OneInstant(r)'
    BY <2>1, <2>2, InstantStays
  <2>3. PICK n \in begun[s] .. Len(log), k \in 0 .. 5 : Shows(s, SubSeq(log, 1, n), k)
    BY DEF OneInstant
  <2> DEFINE seen == SubSeq(log, 1, n)
  <2>4. seen \in Seq(Entries)
    <3>1. n \in 0 .. Len(log)
      BY <1>1
    <3> QED
      BY <1>1, <3>1, SubSeqProperties
  <2> HIDE DEF seen
  <2>5. /\ Len(page[s]) = k /\ \A i \in 1 .. k : page[s][i] = PageOf(seen)[i]
        /\ snapshot[s] = StateOf(seen) /\ k = Written[pc[s]]
    BY <2>1, <2>3 DEF Shows, seen
  <2>6. /\ k + 1 \in 1 .. 5
        /\ Copied(s, pc[s]) = PageOf(seen)[k + 1]
        /\ After[pc[s]] \in DOMAIN After => Written[After[pc[s]]] = k + 1
        /\ After[pc[s]] \in DOMAIN After \cup {"idle"} /\ After[pc[s]] # "snapshot"
    <3> HIDE DEF MetricsInv
    <3>1. CASE pc[s] = "requests"
      <4>1. snapshot[s].series = [l \in Labels |-> Histogram(l, seen)]
        BY <2>5 DEF StateOf
      <4>2. \A l \in Labels : Histogram(l, seen).count = Cardinality(Seen(<<"requests", l>>, seen))
        BY DEF Histogram
      <4>3. Copied(s, "requests") = [l \in Labels |-> snapshot[s].series[l].count]
        BY CopiedSections
      <4>6. Copied(s, pc[s]) = [l \in Labels |-> Cardinality(Seen(<<"requests", l>>, seen))]
        BY <3>1, <4>1, <4>2, <4>3
      <4>4. PageOf(seen)[1] = [l \in Labels |-> Cardinality(Seen(<<"requests", l>>, seen))]
        BY DEF PageOf
      <4>5. k = 0 /\ After[pc[s]] = "durations" /\ Written["durations"] = 1
        BY <2>5, <3>1 DEF Written, After
      <4> QED
        BY <4>4, <4>5, <4>6 DEF After
    <3>2. CASE pc[s] = "durations"
      <4>4. Copied(s, "durations") = snapshot[s].series
        BY CopiedSections
      <4>1. Copied(s, pc[s]) = [l \in Labels |-> Histogram(l, seen)]
        BY <2>5, <3>2, <4>4 DEF StateOf
      <4>2. PageOf(seen)[2] = [l \in Labels |-> Histogram(l, seen)]
        BY DEF PageOf
      <4>3. k = 1 /\ After[pc[s]] = "cacheHits" /\ Written["cacheHits"] = 2
        BY <2>5, <3>2 DEF Written, After
      <4> QED
        BY <4>1, <4>2, <4>3 DEF After
    <3>3. CASE pc[s] = "cacheHits"
      BY <2>5, <3>3 DEF Written, After, Copied, PageOf, StateOf, Counters
    <3>4. CASE pc[s] = "cacheMisses"
      BY <2>5, <3>4 DEF Written, After, Copied, PageOf, StateOf, Counters
    <3>5. CASE pc[s] = "bankRequestErrors"
      BY <2>5, <3>5 DEF Written, After, Copied, PageOf, StateOf, Counters
    <3> QED
      BY <2>1, <3>1, <3>2, <3>3, <3>4, <3>5 DEF After
  <2>7. Copied(s, pc[s]) \in Sections
    BY <2>4, <2>6, PageType
  <2>8. /\ page'[s] = Append(page[s], PageOf(seen)[k + 1]) /\ page' \in [Scrapes -> Seq(Sections)]
        /\ pc'[s] = After[pc[s]] /\ snapshot'[s] = StateOf(seen)
        /\ page[s] \in Seq(Sections)
    BY <2>1, <2>5, <2>6, <2>7
  <2>9. Len(page'[s]) = k + 1 /\ \A i \in 1 .. k + 1 : page'[s][i] = PageOf(seen)[i]
    <3>1. /\ Len(page'[s]) = k + 1 /\ \A i \in 1 .. k : page'[s][i] = page[s][i]
          /\ page'[s][k + 1] = PageOf(seen)[k + 1]
      BY <2>5, <2>6, <2>7, <2>8, AppendProperties
    <3>2. 1 .. k + 1 = (1 .. k) \cup {k + 1}
      OBVIOUS
    <3> QED
      BY <2>5, <3>1, <3>2
  <2>10. OneInstant(s)'
    <3>1. k + 1 \in 0 .. 5 /\ n \in begun'[s] .. Len(log') /\ seen = SubSeq(log', 1, n)
      BY <2>1, <2>6 DEF seen
    <3> QED
      BY <2>6, <2>8, <2>9, <3>1 DEF OneInstant, Shows
  <2> QED
    BY <2>1, <2>2, <2>6, <2>8, <2>10
<1>8. ASSUME NEW s \in Scrapes, WriteFails(s) PROVE MetricsInv'
  <2>1. pc' = [pc EXCEPT ![s] = "idle"] /\ UNCHANGED <<series, counters, snapshot, page, log, begun>>
    BY <1>8 DEF WriteFails
  <2>2. ASSUME NEW r \in Scrapes, r # s PROVE OneInstant(r)'
    BY <2>1, <2>2, InstantStays
  <2>3. OneInstant(s)'
    <3>1. PICK n \in begun[s] .. Len(log), k \in 0 .. 5 : Shows(s, SubSeq(log, 1, n), k)
      BY DEF OneInstant
    <3>2. pc'[s] = "idle" /\ "idle" \notin DOMAIN After
      BY <2>1 DEF After
    <3> QED
      BY <2>1, <3>1, <3>2 DEF OneInstant, Shows
  <2> QED
    BY <2>1, <2>2, <2>3
<1>9. CASE UNCHANGED metricsVars
  <2>1. \A s \in Scrapes : OneInstant(s)'
    BY <1>9, InstantStays DEF metricsVars
  <2> QED
    BY <1>9, <2>1 DEF metricsVars
<1> QED
  BY <1>3, <1>4, <1>5, <1>6, <1>7, <1>8, <1>9 DEF MetricsNext

LEMMA MetricsHolds == MetricsSpec => []MetricsInv
  BY InitMetrics, NextMetrics, PTL DEF MetricsSpec

\* Counters and histograms are numbers, no bucket holds more than its
\* histogram counts, and a page has at most five sections.
THEOREM MetricsTypeCorrect == MetricsSpec => []MetricsTypeOK
  BY MetricsHolds, MetricsTypes, PTL

\* However many requests end while a page is written, and wherever the
\* connection breaks, what is on it was true of one instant of the scrape, for
\* any number of scrapes at a time and of observations before it.
THEOREM PagesAreWhole == MetricsSpec => []PagesAreOneInstant
  BY MetricsHolds, MetricsPages, PTL
===============================================================================
