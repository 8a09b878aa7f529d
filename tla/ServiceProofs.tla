----------------------------- MODULE ServiceProofs -----------------------------
(***************************************************************************)
(* What a process that serves can rely on, and what its answers are worth, *)
(* for every environment, every width of an integer and every length of a  *)
(* second, whatever the sites of the banks answer.                         *)
(***************************************************************************)
EXTENDS Service, FoldLemmas, SequenceTheorems, TLAPS

------------------------------------------------------------------------------
(* Configuration                                                           *)

\* Half of the words are negative.
LEMMA WordsOfInt64 ==
    /\ Words \in Nat /\ Words > 0 /\ Words \div 2 \in Nat /\ 2 * (Words \div 2) = Words
    /\ Largest \in Nat /\ Int64 \subseteq Int
<1> DEFINE h == Words \div 2
<1>1. Words \in Nat /\ Words % 2 = 0 /\ Second \in Nat \ {0} /\ h > Second
  BY ConfigAssumption
<1>2. h \in Nat /\ 2 * h = Words
  BY <1>1
<1> HIDE DEF h
<1>3. Largest = h - 1 /\ Int64 = -h .. Largest
  BY DEF Largest, Int64, h
<1>4. h >= 1 /\ Words > 0
  BY <1>1, <1>2
<1> QED
  BY <1>2, <1>3, <1>4 DEF h

\* Whatever is multiplied is a word afterwards, and what a word can hold does
\* not change.
LEMMA WrapKeeps ==
    ASSUME NEW x \in Int
    PROVE  Wrap(x) \in Int64 /\ (x \in 1 .. Largest => Wrap(x) = x)
<1> DEFINE h == Words \div 2
           y == x + h
<1>1. Words \in Nat \ {0} /\ h \in Nat /\ 2 * h = Words /\ y \in Int
  BY WordsOfInt64
<1>2. Wrap(x) = (y % Words) - h /\ Int64 = -h .. (h - 1) /\ Largest = h - 1
  BY DEF Wrap, Int64, Largest
<1> HIDE DEF h
<1>3. y % Words \in 0 .. Words - 1
  <2> HIDE DEF y
  <2> QED
    BY <1>1
<1>4. Wrap(x) \in Int64
  BY <1>1, <1>2, <1>3
<1>5. ASSUME x \in 1 .. Largest PROVE Wrap(x) = x
  <2>1. y \in 0 .. Words - 1
    BY <1>1, <1>2, <1>5
  <2>2. y % Words = y
    BY <1>1, <2>1
  <2> QED
    BY <1>1, <1>2, <2>2
<1> QED
  BY <1>4, <1>5

\* Load reads each setting once.
LEMMA OrderOfSettings ==
    /\ Len(Order) = 9
    /\ \A i \in 1 .. 9 : Order[i] \in Settings
    /\ \A i, j \in 1 .. 9 : Order[i] = Order[j] => i = j
    /\ Durations \subseteq {Order[i] : i \in 1 .. 9}
    /\ Durations \subseteq Settings
    /\ "SCHEDULER_INTERVAL" \in Durations
<1>1. /\ Len(Order) = 9
      /\ \A i, j \in 1 .. 9 : Order[i] = Order[j] => i = j
  BY DEF Order
<1>2. Order[2] = "READ_TIMEOUT" /\ Order[3] = "WRITE_TIMEOUT" /\ Order[4] = "SHUTDOWN_TIMEOUT"
      /\ Order[5] = "CACHE_TTL" /\ Order[6] = "SCHEDULER_INTERVAL"
  BY DEF Order
<1>3. Durations \subseteq {Order[i] : i \in 1 .. 9}
  BY <1>2 DEF Durations
<1>4. \A i \in 1 .. 9 : Order[i] \in Settings
  BY <1>1 DEF Settings, ToSet, Order
<1> QED
  BY <1>1, <1>3, <1>4 DEF Durations

\* What has been read can be used and is the value of what was written.
ReadAsWritten ==
    \A i \in 1 .. next - 1 : cfg[Order[i]] = Value(Order[i]) /\ Value(Order[i]) # Error

\* The settings that follow have not been read.
NotRead == \A i \in next .. 9 : cfg[Order[i]] = None

\* The invariant of the configuration.
ConfigInv ==
    /\ env \in Environments
    /\ next \in 1 .. 10
    /\ cfg = [s \in Settings |-> cfg[s]]
    /\ phase \in {"load", "running", "exited"}
    /\ ReadAsWritten
    /\ NotRead
    /\ phase = "running" => next = 10 /\ SchedulerAccepts /\ NewClients # <<>>

LEMMA InitConfig == Init => ConfigInv
<1> SUFFICES ASSUME Init PROVE ConfigInv
  OBVIOUS
<1>1. ReadAsWritten
  BY DEF Init, ReadAsWritten
<1>2. NotRead
  BY OrderOfSettings DEF Init, NotRead
<1> QED
  BY <1>1, <1>2 DEF Init, ConfigInv

LEMMA SameValue == env' = env => \A i \in 1 .. 9 : Value(Order[i])' = Value(Order[i])
BY DEF Value, envDuration, envInt, envPort, envStringList, envRateSources, Items, SourceItems

LEMMA NextConfig == ConfigInv /\ (Next \/ UNCHANGED vars) => ConfigInv'
<1> SUFFICES ASSUME ConfigInv, Next \/ UNCHANGED vars PROVE ConfigInv'
  OBVIOUS
<1> USE DEF ConfigInv
<1>1. CASE Read
  <2>1. /\ env' = env /\ next \in 1 .. 9 /\ next' = next + 1 /\ phase' = phase /\ phase = "load"
        /\ Order[next] \in Settings
        /\ cfg' = [cfg EXCEPT ![Order[next]] = Value(Order[next])]
        /\ Value(Order[next]) # Error
    BY <1>1, OrderOfSettings DEF Read, Usable
  <2>2. cfg' = [s \in Settings |-> cfg'[s]]
    BY <2>1
  <2>3. ASSUME NEW i \in 1 .. next' - 1
        PROVE cfg'[Order[i]] = Value(Order[i]) /\ Value(Order[i]) # Error
    <3>1. CASE i = next
      BY <2>1, <3>1
    <3>2. CASE i # next
      <4>1. i \in 1 .. next - 1 /\ i \in 1 .. 9
        BY <2>1, <3>2
      <4>2. Order[i] # Order[next] /\ Order[i] \in Settings
        BY <2>1, <3>2, <4>1, OrderOfSettings
      <4> QED
        BY <2>1, <4>1, <4>2 DEF ReadAsWritten
    <3> QED
      BY <3>1, <3>2
  <2>4. ReadAsWritten'
    <3>1. \A i \in 1 .. next' - 1 : i \in 1 .. 9
      BY <2>1
    <3> QED
      BY <2>1, <2>3, <3>1, SameValue DEF ReadAsWritten
  <2>5. NotRead'
    <3>1. ASSUME NEW i \in next' .. 9 PROVE cfg'[Order[i]] = None
      <4>1. i \in next .. 9 /\ i # next /\ i \in 1 .. 9
        BY <2>1
      <4>2. Order[i] # Order[next] /\ Order[i] \in Settings
        BY <2>1, <4>1, OrderOfSettings
      <4> QED
        BY <2>1, <4>1, <4>2 DEF NotRead
    <3> QED
      BY <3>1 DEF NotRead
  <2> QED
    BY <2>1, <2>2, <2>4, <2>5
<1>2. CASE ReadFails
  <2>1. ReadAsWritten'
    BY <1>2, SameValue DEF ReadAsWritten, ReadFails
  <2> QED
    BY <1>2, <2>1 DEF ReadFails, NotRead
<1>3. CASE Setup
  <2>1. ReadAsWritten'
    BY <1>3, SameValue DEF ReadAsWritten, Setup
  <2>2. next = 10
    BY <1>3, OrderOfSettings DEF Setup
  <2> QED
    BY <1>3, <2>1, <2>2 DEF Setup, SchedulerAccepts, NewClients, NotRead
<1>4. CASE UNCHANGED vars
  <2>1. ReadAsWritten'
    BY <1>4, SameValue DEF ReadAsWritten, vars
  <2> QED
    BY <1>4, <2>1 DEF vars, SchedulerAccepts, NewClients, NotRead
<1> QED
  BY <1>1, <1>2, <1>3, <1>4 DEF Next

\* A duration that has been read is what envDuration makes of it.
LEMMA DurationRead ==
    ASSUME ConfigInv, NEW s \in Durations
    PROVE  /\ cfg[s] = None \/ (cfg[s] = envDuration(s) /\ envDuration(s) # Error)
           /\ phase = "running" => cfg[s] = envDuration(s) /\ envDuration(s) # Error
<1>1. PICK i \in 1 .. 9 : s = Order[i]
  BY OrderOfSettings
<1>2. Value(s) = envDuration(s)
  <2>1. s \notin {"PORT", "RATE_LIMIT_REQUESTS_PER_MINUTE", "SCHEDULER_CURRENCIES", "RATE_SOURCES"}
    BY DEF Durations
  <2> QED
    BY <2>1 DEF Value
<1>3. i \in 1 .. next - 1 \/ i \in next .. 9
  BY DEF ConfigInv
<1>4. i \in 1 .. next - 1 => cfg[s] = Value(s) /\ Value(s) # Error
  BY <1>1 DEF ConfigInv, ReadAsWritten
<1>5. i \in next .. 9 => cfg[s] = None
  BY <1>1 DEF ConfigInv, NotRead
<1>6. phase = "running" => i \in 1 .. next - 1
  BY DEF ConfigInv
<1>7. cfg[s] = None \/ (cfg[s] = Value(s) /\ Value(s) # Error)
  BY <1>3, <1>4, <1>5
<1>8. phase = "running" => cfg[s] = Value(s) /\ Value(s) # Error
  BY <1>4, <1>6
<1> QED
  BY <1>2, <1>7, <1>8

LEMMA ConfigTypes == ConfigInv => TypeOK
<1> SUFFICES ASSUME ConfigInv PROVE TypeOK
  OBVIOUS
<1>1. ASSUME NEW s \in Durations PROVE cfg[s] \in {None} \cup Int64
  <2>1. ASSUME envDuration(s) # Error PROVE envDuration(s) \in Int64
    <3>1. Default[s] \in Int64
      <4>1. Default[s] \in 1 .. Largest
        BY ConfigAssumption
      <4> QED
        BY <4>1, WordsOfInt64 DEF Int64
    <3>2. env[s].form \in {"duration", "integer"} => env[s].n \in Int64
      BY ConfigAssumption, OrderOfSettings DEF ConfigInv
    <3>3. env[s].form = "integer" => FromSeconds(env[s].n) \in Int64
      <4>1. Second \in Int
        BY ConfigAssumption
      <4>2. \A n \in Int : n * Second \in Int
        BY <4>1
      <4> QED
        BY <3>2, <4>2, WordsOfInt64, WrapKeeps DEF FromSeconds
    <3> QED
      BY <2>1, <3>1, <3>2, <3>3 DEF envDuration
  <2> QED
    BY <2>1, DurationRead
<1>2. next \in 1 .. Len(Order) + 1
  BY OrderOfSettings DEF ConfigInv
<1> QED
  BY <1>1, <1>2 DEF TypeOK, ConfigInv

\* A process that serves has every duration as it was written.
LEMMA ConfigDurations == ConfigInv => DurationsAsWritten
<1> SUFFICES ASSUME ConfigInv, phase = "running", NEW s \in Durations
             PROVE  DurationAsWritten(s)
  BY DEF DurationsAsWritten, ConfigInv, SchedulerAccepts
<1>1. cfg[s] = envDuration(s) /\ envDuration(s) # Error
  BY DurationRead
<1>2. env[s] # Blank => env[s].form \in {"duration", "integer"} /\ env[s].n > 0
  BY <1>1 DEF envDuration
<1>3. env[s].form \in {"duration", "integer"} => env[s].n \in Int /\ env[s] # Blank
  BY ConfigAssumption, OrderOfSettings, WordsOfInt64 DEF ConfigInv, Blank
<1>4. CASE env[s] = Blank
  BY <1>1, <1>3, <1>4 DEF envDuration, DurationAsWritten
<1>5. CASE env[s].form = "duration"
  BY <1>1, <1>2, <1>3, <1>5 DEF envDuration, Written, DurationAsWritten
<1>6. CASE env[s].form = "integer"
  <2> DEFINE x == env[s].n * Second
  <2>1. Second \in Nat \ {0} /\ env[s].n \in Nat \ {0}
    BY <1>2, <1>3, <1>6, ConfigAssumption
  <2>2. x \in Nat /\ x >= 1
    BY <2>1
  <2>3. cfg[s] = Wrap(x) /\ Written(env[s]) = x
    BY <1>1, <1>2, <1>3, <1>6 DEF envDuration, FromSeconds, Written
  <2>4. x <= Largest => Wrap(x) = x
    BY <2>2, WrapKeeps, WordsOfInt64
  <2> HIDE DEF x
  <2> QED
    BY <1>2, <1>3, <1>6, <2>3, <2>4 DEF DurationAsWritten
<1> QED
  BY <1>2, <1>4, <1>5, <1>6

------------------------------------------------------------------------------
(* The lists                                                               *)

Codes == {Normal[i] : i \in DOMAIN Normal}

\* One turn of the loop over the items.
Add(seen, item) ==
    IF Normal[item] \in ToSet(seen) \cup {NoText} THEN seen ELSE Append(seen, Normal[item])

LEMMA UniqueIsALoop ==
    ASSUME NEW items \in Seq(DOMAIN Normal)
    PROVE  \E u : /\ u[0] = <<>>
                  /\ \A n \in 1 .. Len(items) : u[n] = Add(u[n - 1], items[n])
                  /\ Unique(items) = u[Len(items)]
<1> DEFINE len == Len(items)
           D == 1 .. len
           V == Seq(Codes)
           step == [i \in D |-> [v \in V |-> Add(v, items[i])]]
           Eq(f) == f = [U \in SUBSET D |->
                           IF U = {} THEN <<>> ELSE Add(f[U \ {Max(U)}], items[Max(U)])]
           iter == CHOOSE f : Eq(f)
<1>1. len \in Nat /\ DOMAIN items = D /\ \A i \in D : items[i] \in DOMAIN Normal
  BY LenProperties
<1>2. <<>> \in V /\ \A v \in V, i \in D : Add(v, items[i]) \in V
  BY <1>1 DEF Add, Codes
<1>3. PICK f : IsLoop(f, len, V, <<>>, step)
  <2> HIDE DEF V
  <2>1. TurnsOf(step, len, V)
    BY <1>2 DEF TurnsOf
  <2> HIDE DEF step, len
  <2> QED
    BY <1>1, <1>2, <2>1, LoopOfSets
<1>4. Eq([U \in SUBSET D |-> f[U]])
  <2>1. f \in [SUBSET D -> V] /\ f[{}] = <<>>
    BY <1>3 DEF IsLoop
  <2>2. ASSUME NEW U \in SUBSET D, U # {}
        PROVE  f[U] = Add(f[U \ {Max(U)}], items[Max(U)])
    <3>1. Max(U) \in D /\ f[U] = step[Max(U)][f[U \ {Max(U)}]]
      BY <1>3, <2>2 DEF IsLoop
    <3>2. f[U \ {Max(U)}] \in V
      BY <2>1
    <3> QED
      BY <3>1, <3>2
  <2> QED
    BY <2>1, <2>2
<1>5. Eq(iter)
  <2> HIDE DEF Eq
  <2> QED
    BY <1>4, Zenon
<1>6. Unique(items) = iter[D]
  BY <1>1 DEF Unique, FoldLeft, MapThenFoldSet, Max, Add
<1> HIDE DEF iter
<1> DEFINE u == [n \in 0 .. len |-> iter[1 .. n]]
<1>7. ASSUME NEW n \in D PROVE u[n] = Add(u[n - 1], items[n])
  <2>1. n \in Nat \ {0} /\ 1 .. n \in SUBSET D /\ n \in 0 .. len /\ n - 1 \in 0 .. len
    BY <1>1
  <2>2. Max(1 .. n) = n /\ (1 .. n) \ {n} = 1 .. (n - 1) /\ 1 .. n # {}
    BY <2>1, LastOfPrefix
  <2>3. iter[1 .. n] = Add(iter[1 .. (n - 1)], items[n])
    BY <1>5, <2>1, <2>2
  <2> QED
    BY <2>1, <2>3
<1>8. u[0] = <<>> /\ u[len] = iter[D]
  BY <1>1, <1>5
<1> HIDE DEF u
<1> QED
  BY <1>6, <1>7, <1>8

\* A list keeps what it names, once.
LEMMA UniqueNames ==
    ASSUME NEW items \in Seq(DOMAIN Normal)
    PROVE  /\ Unique(items) \in Seq(Codes)
           /\ ToSet(Unique(items)) = Named(items)
           /\ \A i, j \in 1 .. Len(Unique(items)) :
                  Unique(items)[i] = Unique(items)[j] => i = j
<1>1. /\ Len(items) \in Nat /\ DOMAIN items = 1 .. Len(items)
      /\ \A n \in 1 .. Len(items) : items[n] \in DOMAIN Normal
  BY LenProperties
<1>2. PICK u : /\ u[0] = <<>>
               /\ \A n \in 1 .. Len(items) : u[n] = Add(u[n - 1], items[n])
               /\ Unique(items) = u[Len(items)]
  BY UniqueIsALoop
<1> DEFINE Good(n) == /\ u[n] \in Seq(Codes)
                      /\ ToSet(u[n]) = {Normal[items[i]] : i \in 1 .. n} \ {NoText}
                      /\ \A i, j \in 1 .. Len(u[n]) : u[n][i] = u[n][j] => i = j
           T == {n \in Nat : n <= Len(items) => Good(n)}
<1>3. 0 \in T
  <2>1. ToSet(u[0]) = {} /\ Len(u[0]) = 0 /\ u[0] \in Seq(Codes)
    BY <1>2 DEF ToSet
  <2>2. 1 .. 0 = {}
    OBVIOUS
  <2>3. Good(0)
    BY <2>1, <2>2
  <2> QED
    BY <2>3
<1>4. ASSUME NEW n \in Nat, n \in T PROVE n + 1 \in T
  <2> SUFFICES ASSUME n + 1 <= Len(items) PROVE Good(n + 1)
    OBVIOUS
  <2> DEFINE s == u[n]
             c == Normal[items[n + 1]]
  <2>1. Good(n) /\ n + 1 \in 1 .. Len(items) /\ (n + 1) - 1 = n
    BY <1>1, <1>4
  <2>2. c \in Codes /\ u[n + 1] = Add(s, items[n + 1])
    BY <1>1, <1>2, <2>1 DEF Codes
  <2>3. {Normal[items[i]] : i \in 1 .. n + 1} = {Normal[items[i]] : i \in 1 .. n} \cup {c}
    <3>1. 1 .. n + 1 = (1 .. n) \cup {n + 1}
      OBVIOUS
    <3> QED
      BY <3>1
  <2>4. /\ s \in Seq(Codes) /\ Len(s) \in Nat /\ DOMAIN s = 1 .. Len(s)
        /\ ToSet(s) = {Normal[items[i]] : i \in 1 .. n} \ {NoText}
        /\ \A i, j \in 1 .. Len(s) : s[i] = s[j] => i = j
    BY <2>1, LenProperties
  <2> HIDE DEF s, c, T, Good
  <2>5. CASE c \in ToSet(s) \cup {NoText}
    <3>1. u[n + 1] = s
      BY <2>2, <2>5 DEF Add, c
    <3>2. ToSet(s) = {Normal[items[i]] : i \in 1 .. n + 1} \ {NoText}
      BY <2>3, <2>4, <2>5
    <3> QED
      BY <2>4, <3>1, <3>2 DEF Good
  <2>6. CASE c \notin ToSet(s) \cup {NoText}
    <3>1. u[n + 1] = Append(s, c)
      BY <2>2, <2>6 DEF Add, c
    <3>2. /\ Append(s, c) \in Seq(Codes) /\ Len(Append(s, c)) = Len(s) + 1
          /\ \A i \in 1 .. Len(s) : Append(s, c)[i] = s[i]
          /\ Append(s, c)[Len(s) + 1] = c
          /\ DOMAIN Append(s, c) = 1 .. Len(s) + 1
      BY <2>2, <2>4, AppendProperties, LenProperties
    <3>3. \A i \in 1 .. Len(s) : s[i] # c
      BY <2>4, <2>6 DEF ToSet
    <3>4. ASSUME NEW i \in 1 .. Len(s) + 1, NEW j \in 1 .. Len(s) + 1,
                 Append(s, c)[i] = Append(s, c)[j]
          PROVE  i = j
      <4>1. i \in 1 .. Len(s) \/ i = Len(s) + 1
        BY <2>4
      <4>2. j \in 1 .. Len(s) \/ j = Len(s) + 1
        BY <2>4
      <4> QED
        BY <2>4, <3>2, <3>3, <3>4, <4>1, <4>2
    <3>5. ToSet(Append(s, c)) = ToSet(s) \cup {c}
      <4>1. 1 .. Len(s) + 1 = (1 .. Len(s)) \cup {Len(s) + 1}
        BY <2>4
      <4> QED
        BY <2>4, <3>2, <4>1 DEF ToSet
    <3>6. ToSet(Append(s, c)) = {Normal[items[i]] : i \in 1 .. n + 1} \ {NoText}
      BY <2>3, <2>4, <2>6, <3>5
    <3> QED
      BY <3>1, <3>2, <3>4, <3>6 DEF Good
  <2> QED
    BY <2>5, <2>6
<1>5. Len(items) \in T
  <2> HIDE DEF T
  <2> QED
    BY <1>1, <1>3, <1>4, NumberInduction
<1>6. Good(Len(items))
  BY <1>1, <1>5
<1>7. Named(items) = {Normal[items[i]] : i \in 1 .. Len(items)} \ {NoText}
  BY <1>1 DEF Named, ToSet
<1> QED
  BY <1>2, <1>6, <1>7

------------------------------------------------------------------------------
(* The clients                                                             *)

Names == UNION {ToSet(BanksOf[source]) : source \in Sources}

LEMMA ConcatOnce ==
    ASSUME NEW S, NEW s \in Seq(S), NEW t \in Seq(S), IsInjective(s), IsInjective(t),
           ToSet(s) \cap ToSet(t) = {}
    PROVE  s \o t \in Seq(S) /\ IsInjective(s \o t) /\ ToSet(s \o t) = ToSet(s) \cup ToSet(t)
<1> DEFINE m == Len(s)
           n == Len(t)
           st == s \o t
<1>1. m \in Nat /\ n \in Nat /\ DOMAIN s = 1 .. m /\ DOMAIN t = 1 .. n
  BY LenProperties
<1>2. /\ st \in Seq(S) /\ Len(st) = m + n /\ DOMAIN st = 1 .. (m + n)
      /\ \A i \in 1 .. (m + n) : st[i] = IF i <= m THEN s[i] ELSE t[i - m]
  BY ConcatProperties, LenProperties
<1> HIDE DEF st, m, n
<1>3. ASSUME NEW i \in 1 .. m, NEW j \in 1 .. n PROVE s[i] # t[j]
  BY <1>1, <1>3 DEF ToSet
<1>4. ASSUME NEW i \in DOMAIN st, NEW j \in DOMAIN st, st[i] = st[j] PROVE i = j
  <2>1. CASE i <= m /\ j <= m
    BY <1>1, <1>2, <1>4, <2>1 DEF IsInjective
  <2>2. CASE i > m /\ j > m
    <3>1. i - m \in DOMAIN t /\ j - m \in DOMAIN t /\ t[i - m] = t[j - m]
      BY <1>1, <1>2, <1>4, <2>2
    <3>2. i - m = j - m
      BY <3>1 DEF IsInjective
    <3> QED
      BY <1>1, <1>2, <3>2
  <2>3. CASE i <= m /\ j > m
    <3>1. i \in 1 .. m /\ j - m \in 1 .. n /\ s[i] = t[j - m]
      BY <1>1, <1>2, <1>4, <2>3
    <3> QED
      BY <1>3, <3>1
  <2>4. CASE i > m /\ j <= m
    <3>1. j \in 1 .. m /\ i - m \in 1 .. n /\ s[j] = t[i - m]
      BY <1>1, <1>2, <1>4, <2>4
    <3> QED
      BY <1>3, <3>1
  <2> QED
    BY <1>1, <1>2, <2>1, <2>2, <2>3, <2>4
<1>5. ToSet(st) = ToSet(s) \cup ToSet(t)
  <2>1. ASSUME NEW i \in 1 .. (m + n) PROVE st[i] \in ToSet(s) \cup ToSet(t)
    <3>1. CASE i <= m
      <4>1. i \in DOMAIN s /\ st[i] = s[i]
        BY <1>1, <1>2, <3>1
      <4> QED
        BY <4>1 DEF ToSet
    <3>2. CASE i > m
      <4>1. i - m \in DOMAIN t /\ st[i] = t[i - m]
        BY <1>1, <1>2, <3>2
      <4> QED
        BY <4>1 DEF ToSet
    <3> QED
      BY <1>1, <3>1, <3>2
  <2>2. ASSUME NEW i \in 1 .. m PROVE s[i] \in ToSet(st)
    <3>1. i \in DOMAIN st /\ st[i] = s[i]
      BY <1>1, <1>2
    <3> QED
      BY <3>1 DEF ToSet
  <2>3. ASSUME NEW i \in 1 .. n PROVE t[i] \in ToSet(st)
    <3>1. m + i \in DOMAIN st /\ st[m + i] = t[i]
      BY <1>1, <1>2
    <3> QED
      BY <3>1 DEF ToSet
  <2> QED
    BY <1>1, <1>2, <2>1, <2>2, <2>3 DEF ToSet
<1> QED
  BY <1>2, <1>4, <1>5 DEF IsInjective, st

\* FlattenSeq appends one sequence after another.
LEMMA FlattenIsALoop ==
    ASSUME NEW S, NEW seqs, NEW n \in Nat \ {0}, Len(seqs) = n,
           \A i \in 1 .. n : seqs[i] \in Seq(S)
    PROVE  \E u : /\ u[0] = <<>>
                  /\ \A i \in 1 .. n : u[i] = u[i - 1] \o seqs[i]
                  /\ FlattenSeq(seqs) = u[n]
<1> DEFINE V == Seq(S)
           step == [i \in 1 .. n |-> [v \in V |-> v \o seqs[i]]]
           Eq(f) == f = [i \in 1 .. n |-> IF i = 1 THEN seqs[i] ELSE f[i - 1] \o seqs[i]]
           flatten == CHOOSE f : Eq(f)
<1>1. <<>> \in V /\ \A i \in 1 .. n, v \in V : v \o seqs[i] \in V
  BY ConcatProperties
<1>2. PICK u \in [0 .. n -> V] : u[0] = <<>> /\ \A i \in 1 .. n : u[i] = step[i][u[i - 1]]
  <2> HIDE DEF V
  <2>1. TurnsOf(step, n, V)
    BY <1>1 DEF TurnsOf
  <2> HIDE DEF step
  <2> QED
    BY <1>1, <2>1, LoopExists
<1>3. ASSUME NEW i \in 1 .. n PROVE u[i] = u[i - 1] \o seqs[i]
  <2>1. i - 1 \in 0 .. n
    OBVIOUS
  <2>2. u[i - 1] \in V
    BY <1>2, <2>1
  <2> HIDE DEF V
  <2> QED
    BY <1>2, <2>2
<1>4. 1 \in 1 .. n /\ u[1] = seqs[1]
  <2>1. 1 \in 1 .. n /\ 1 - 1 = 0
    OBVIOUS
  <2>2. <<>> \o seqs[1] = seqs[1]
    BY <2>1, ConcatEmptySeq
  <2> QED
    BY <1>2, <1>3, <2>1, <2>2
<1>5. Eq([i \in 1 .. n |-> u[i]])
  <2>1. ASSUME NEW i \in 1 .. n, i # 1 PROVE i - 1 \in 1 .. n
    BY <2>1
  <2> QED
    BY <1>3, <1>4, <2>1
<1>6. Eq(flatten)
  <2> HIDE DEF Eq
  <2> QED
    BY <1>5, Zenon
<1>7. FlattenSeq(seqs) = flatten[n]
  BY DEF FlattenSeq
<1> HIDE DEF flatten
<1> DEFINE w == [i \in 0 .. n |-> IF i = 0 THEN <<>> ELSE flatten[i]]
<1>8. ASSUME NEW i \in 1 .. n PROVE w[i] = w[i - 1] \o seqs[i]
  <2>1. i - 1 \in 0 .. n /\ i \in 0 .. n /\ w[i] = flatten[i]
    OBVIOUS
  <2>2. CASE i = 1
    <3>1. w[i - 1] = <<>> /\ flatten[i] = seqs[i]
      BY <1>6, <2>1, <2>2
    <3>2. <<>> \o seqs[i] = seqs[i]
      BY ConcatEmptySeq
    <3> QED
      BY <2>1, <3>1, <3>2
  <2>3. CASE i # 1
    <3>1. w[i - 1] = flatten[i - 1]
      BY <2>1, <2>3
    <3>2. flatten[i] = flatten[i - 1] \o seqs[i]
      <4> HIDE DEF w
      <4> QED
        BY <1>6, <2>3
    <3> QED
      BY <2>1, <3>1, <3>2
  <2> QED
    BY <2>2, <2>3
<1>9. w[0] = <<>> /\ w[n] = flatten[n]
  OBVIOUS
<1> HIDE DEF w
<1> QED
  BY <1>7, <1>8, <1>9

\* The sets of banks of the four sources.
LEMMA BanksBySource ==
    /\ ToSet(BanksOf["cbr"]) = {"Bank of Russia"} /\ ToSet(BanksOf["frankfurter"]) = {"Frankfurter"}
    /\ ToSet(BanksOf["mock"]) = {"North Bank", "Metro Bank", "Offline Bank"}
    /\ ToSet(BanksOf["tbank"]) = {"T-Bank"}
<1>1. \A a : ToSet(<<a>>) = {a}
  BY DEF ToSet
<1>2. \A a, b, c : ToSet(<<a, b, c>>) = {a, b, c}
  BY DEF ToSet
<1>3. ToSet(<<"North Bank", "Metro Bank", "Offline Bank">>) = {"North Bank", "Metro Bank", "Offline Bank"}
  BY <1>2, Zenon
<1>4. /\ ToSet(<<"Bank of Russia">>) = {"Bank of Russia"} /\ ToSet(<<"T-Bank">>) = {"T-Bank"}
      /\ ToSet(<<"Frankfurter">>) = {"Frankfurter"}
  BY <1>1, Zenon
<1> QED
  BY <1>3, <1>4 DEF BanksOf

\* Each source has banks of its own.
LEMMA BanksAreApart ==
    /\ \A source \in Sources : BanksOf[source] \in Seq(Names) /\ IsInjective(BanksOf[source])
    /\ \A a, b \in Sources : a # b => ToSet(BanksOf[a]) \cap ToSet(BanksOf[b]) = {}
<1>1. /\ BanksOf["cbr"] = <<"Bank of Russia">> /\ BanksOf["frankfurter"] = <<"Frankfurter">>
      /\ BanksOf["mock"] = <<"North Bank", "Metro Bank", "Offline Bank">>
      /\ BanksOf["tbank"] = <<"T-Bank">>
  BY DEF BanksOf
<1>3. Sources = {"cbr", "frankfurter", "mock", "tbank"}
  BY DEF Sources
<1>4. {"Bank of Russia", "Frankfurter", "North Bank", "Metro Bank", "Offline Bank", "T-Bank"} \subseteq Names
  BY BanksBySource, <1>3 DEF Names
<1>5. \A source \in Sources : BanksOf[source] \in Seq(Names)
  <2>1. \A a \in Names : <<a>> \in Seq(Names)
    OBVIOUS
  <2>2. \A a, b, c \in Names : <<a, b, c>> \in Seq(Names)
    OBVIOUS
  <2> QED
    BY <1>1, <1>3, <1>4, <2>1, <2>2
<1>6. \A source \in Sources : IsInjective(BanksOf[source])
  <2>1. \A a : IsInjective(<<a>>)
    BY DEF IsInjective
  <2>2. ASSUME NEW a, NEW b, NEW c, a # b, a # c, b # c PROVE IsInjective(<<a, b, c>>)
    <3>1. DOMAIN <<a, b, c>> = {1, 2, 3}
      OBVIOUS
    <3> QED
      BY <2>2, <3>1 DEF IsInjective
  <2>3. IsInjective(<<"North Bank", "Metro Bank", "Offline Bank">>)
    <3>1. "North Bank" # "Metro Bank" /\ "North Bank" # "Offline Bank" /\ "Metro Bank" # "Offline Bank"
      OBVIOUS
    <3> QED
      BY <2>2, <3>1
  <2> QED
    BY <1>1, <1>3, <2>1, <2>3
<1> QED
  BY BanksBySource, <1>3, <1>5, <1>6

LEMMA BanksAreNamed ==
    Names \subseteq {"Bank of Russia", "Frankfurter", "T-Bank", "North Bank", "Metro Bank", "Offline Bank"}
BY BanksBySource DEF Names, Sources

LEMMA ClientsOf ==
    ASSUME NEW named \in Seq(Sources), IsInjective(named), Len(named) > 0
    PROVE  LET names == FlattenSeq([i \in DOMAIN named |-> BanksOf[named[i]]])
           IN  /\ names \in Seq(Names) /\ IsInjective(names)
               /\ ToSet(names) = UNION {ToSet(BanksOf[source]) : source \in ToSet(named)}
<1> DEFINE n == Len(named)
           seqs == [i \in DOMAIN named |-> BanksOf[named[i]]]
           Union(k) == UNION {ToSet(BanksOf[named[i]]) : i \in 1 .. k}
<1>1. n \in Nat \ {0} /\ DOMAIN named = 1 .. n /\ \A i \in 1 .. n : named[i] \in Sources
  BY LenProperties
<1>2. /\ Len(seqs) = n
      /\ \A i \in 1 .. n : seqs[i] = BanksOf[named[i]] /\ seqs[i] \in Seq(Names)
  BY <1>1, BanksAreApart
<1> HIDE DEF n, seqs
<1>3. PICK u : /\ u[0] = <<>>
               /\ \A i \in 1 .. n : u[i] = u[i - 1] \o seqs[i]
               /\ FlattenSeq(seqs) = u[n]
  <2>1. n \in Nat \ {0} /\ Len(seqs) = n /\ \A i \in 1 .. n : seqs[i] \in Seq(Names)
    BY <1>1, <1>2
  <2> QED
    BY <2>1, FlattenIsALoop, Zenon
<1> DEFINE Good(k) == u[k] \in Seq(Names) /\ IsInjective(u[k]) /\ ToSet(u[k]) = Union(k)
           T == {k \in Nat : k <= n => Good(k)}
<1>4. 0 \in T
  <2>1. ToSet(<<>>) = {} /\ <<>> \in Seq(Names) /\ IsInjective(<<>>)
    BY DEF ToSet, IsInjective
  <2>2. Union(0) = {}
    OBVIOUS
  <2> QED
    BY <1>3, <2>1, <2>2
<1>5. ASSUME NEW k \in Nat, k \in T PROVE k + 1 \in T
  <2> SUFFICES ASSUME k + 1 <= n PROVE Good(k + 1)
    OBVIOUS
  <2> DEFINE next1 == BanksOf[named[k + 1]]
  <2>1. Good(k) /\ k + 1 \in 1 .. n /\ (k + 1) - 1 = k
    BY <1>1, <1>5
  <2>2. u[k + 1] = u[k] \o next1
    BY <1>2, <1>3, <2>1
  <2>3. next1 \in Seq(Names) /\ IsInjective(next1)
    BY <1>1, <2>1, BanksAreApart
  <2>4. ASSUME NEW i \in 1 .. k PROVE ToSet(BanksOf[named[i]]) \cap ToSet(next1) = {}
    <3>1. i \in 1 .. n /\ i # k + 1
      BY <1>1, <2>1
    <3>2. named[i] # named[k + 1]
      BY <1>1, <2>1, <3>1 DEF IsInjective
    <3> QED
      BY <1>1, <2>1, <3>1, <3>2, BanksAreApart
  <2>5. Union(k) \cap ToSet(next1) = {}
    BY <2>4
  <2>6. Union(k + 1) = Union(k) \cup ToSet(next1)
    <3>1. 1 .. k + 1 = (1 .. k) \cup {k + 1}
      OBVIOUS
    <3> QED
      BY <3>1
  <2> HIDE DEF next1, Union
  <2>7. u[k] \in Seq(Names) /\ IsInjective(u[k]) /\ ToSet(u[k]) = Union(k)
    BY <2>1
  <2>8. /\ u[k] \o next1 \in Seq(Names) /\ IsInjective(u[k] \o next1)
        /\ ToSet(u[k] \o next1) = ToSet(u[k]) \cup ToSet(next1)
    BY <2>3, <2>5, <2>7, ConcatOnce
  <2> QED
    BY <2>2, <2>6, <2>7, <2>8
<1>6. n \in T
  <2> HIDE DEF T
  <2> QED
    BY <1>1, <1>4, <1>5, NumberInduction
<1>7. Good(n)
  BY <1>1, <1>6
<1>8. Union(n) = UNION {ToSet(BanksOf[source]) : source \in ToSet(named)}
  <2>1. ToSet(named) = {named[i] : i \in 1 .. n}
    BY <1>1 DEF ToSet
  <2> QED
    BY <2>1
<1> QED
  BY <1>3, <1>7, <1>8 DEF seqs

\* The sources of a process that serves are those that were named.
LEMMA SourcesRead ==
    ASSUME ConfigInv, phase = "running"
    PROVE  /\ SourceItems \in Seq(DOMAIN Normal)
           /\ cfg["RATE_SOURCES"] = Unique(SourceItems)
           /\ Named(SourceItems) # {} /\ Named(SourceItems) \subseteq Sources
<1>1. Order[9] = "RATE_SOURCES" /\ 9 \in 1 .. next - 1
  BY DEF Order, ConfigInv
<1>2. cfg["RATE_SOURCES"] = Value("RATE_SOURCES") /\ Value("RATE_SOURCES") # Error
  BY <1>1 DEF ConfigInv, ReadAsWritten
<1>3. Value("RATE_SOURCES") = List(SourceItems, Sources)
  BY DEF Value, Durations, envRateSources
<1>4. SourceItems \in Seq(DOMAIN Normal)
  BY ConfigAssumption DEF ConfigInv, Lists, SourceItems, Items
<1> QED
  BY <1>2, <1>3, <1>4 DEF List

\* The clients are the banks of what was named, each of them once.
LEMMA ClientsRead ==
    ASSUME ConfigInv, phase = "running"
    PROVE  /\ NewClients \in Seq(Names) /\ IsInjective(NewClients)
           /\ ToSet(NewClients) = UNION {ToSet(BanksOf[s]) : s \in Named(SourceItems)}
<1> DEFINE named == cfg["RATE_SOURCES"]
<1>1. named = Unique(SourceItems) /\ SourceItems \in Seq(DOMAIN Normal)
      /\ Named(SourceItems) # {} /\ Named(SourceItems) \subseteq Sources
  BY SourcesRead
<1> HIDE DEF named
<1>2. named \in Seq(Codes) /\ ToSet(named) = Named(SourceItems)
      /\ \A i, j \in 1 .. Len(named) : named[i] = named[j] => i = j
  BY <1>1, UniqueNames
<1>3. Len(named) \in Nat /\ DOMAIN named = 1 .. Len(named) /\ named \in [1 .. Len(named) -> Codes]
  BY <1>2, LenProperties
<1>4. \A i \in 1 .. Len(named) : named[i] \in Sources
  BY <1>1, <1>2, <1>3 DEF ToSet
<1>5. named \in Seq(Sources)
  BY <1>3, <1>4
<1>6. Len(named) > 0
  <2>1. Len(named) # 0
    BY <1>1, <1>2, <1>3 DEF ToSet
  <2> QED
    BY <1>3, <2>1
<1>7. IsInjective(named)
  BY <1>2, <1>3 DEF IsInjective
<1> QED
  BY <1>2, <1>5, <1>6, <1>7, ClientsOf DEF NewClients, named

LEMMA ConfigBanks == ConfigInv => EveryNamedBankOnce
<1> SUFFICES ASSUME ConfigInv, phase = "running"
             PROVE  /\ IsInjective(NewClients)
                    /\ env["RATE_SOURCES"] # Blank =>
                           LET named == Named(env["RATE_SOURCES"].items)
                           IN /\ named \subseteq Sources
                              /\ ToSet(NewClients) = UNION {ToSet(BanksOf[s]) : s \in named}
  BY DEF EveryNamedBankOnce
<1>1. env["RATE_SOURCES"] # Blank => SourceItems = env["RATE_SOURCES"].items
  BY DEF SourceItems, Items
<1> QED
  BY <1>1, SourcesRead, ClientsRead

------------------------------------------------------------------------------
(* The quotes                                                              *)

Odd == {NaN, Inf}
Finite == 0 .. MaxFloat
Floats == Finite \cup Odd

\* What is no number of its own, and what is none at all.
LEMMA NoNumbers ==
    /\ NaN # Inf /\ NaN \notin Int /\ Inf \notin Int /\ NoText \notin Int /\ Garbled \notin Int
    /\ NaN \notin {NoText, Garbled} /\ Inf \notin {NoText, Garbled}
    /\ One \in Nat \ {0} /\ MaxFloat \in Nat /\ MaxFloat >= 5 * One
<1>1. /\ NaN # Inf /\ {NaN, Inf, NoText, Garbled, NoAmount} \cap Int = {}
      /\ {NaN, Inf} \cap {NoText, Garbled} = {}
  BY ServiceAssumption, Zenon
<1>2. One \in Nat \ {0} /\ MaxFloat \in Nat /\ MaxFloat >= 5 * One
  BY ServiceAssumption, Zenon
<1> QED
  BY <1>1, <1>2

\* A price that is not a number comes with another one.
Quotes == {q \in [buy : Floats, sell : Floats] : q.buy = NaN <=> q.sell = NaN}

OddQuote(q) == {q.buy, q.sell} \cap Odd # {}

\* What a client may get: nothing yet, and then its site or no site.
Outcomes(i) ==
    {Asked} \cup IF Banks!Local(i) THEN {Unasked} ELSE {Timeout} \cup Replies[NewClients[i]]

\* Products of numbers that are in order are in order.
LEMMA ProductsInOrder ==
    ASSUME NEW a \in Nat, NEW b \in Nat, NEW c \in Nat, NEW d \in Nat, a <= b, c <= d
    PROVE  a * c <= b * d
<1>1. (b - a) * c >= 0 /\ b * (d - c) >= 0
  OBVIOUS
<1>2. b * d = a * c + (b - a) * c + b * (d - c)
  OBVIOUS
<1> QED
  BY <1>1, <1>2

\* A factor can be cancelled.
LEMMA Cancels ==
    ASSUME NEW a \in Nat, NEW b \in Nat, NEW c \in Nat, b * c < a * c
    PROVE  b < a
<1> SUFFICES ASSUME a <= b PROVE FALSE
  OBVIOUS
<1>1. a * c <= b * c
  BY ProductsInOrder
<1>2. a * c \in Int /\ b * c \in Int
  OBVIOUS
<1> QED
  BY <1>1, <1>2

\* So does a factor that is multiplied with.
LEMMA Scales ==
    ASSUME NEW x \in Nat, NEW y \in Nat, NEW m \in Nat \ {0}, NEW n \in Nat \ {0}, x < y
    PROVE  x * (m * n) < y * (m * n)
<1> DEFINE c == m * n
<1>1. c \in Nat /\ c > 0
  OBVIOUS
<1> HIDE DEF c
<1>2. (x + 1) * c <= y * c
  BY <1>1, ProductsInOrder
<1>3. (x + 1) * c = x * c + c /\ x * c \in Nat /\ y * c \in Nat
  BY <1>1
<1>4. x * c < y * c
  BY <1>1, <1>2, <1>3
<1> QED
  BY <1>4 DEF c

LEMMA Regroups ==
    ASSUME NEW a \in Nat, NEW b \in Nat, NEW c \in Nat, NEW d \in Nat
    PROVE  (a * b) * (c * d) = (a * c) * (b * d) /\ (a * b) * (c * d) = (a * d) * (c * b)
OBVIOUS

\* Integer division cuts off.
LEMMA QuotientFits ==
    ASSUME NEW x \in Nat, NEW n \in Nat \ {0}
    PROVE  x \div n \in Nat /\ n * (x \div n) <= x /\ x \div n <= x
<1>1. x \div n \in Nat /\ n * (x \div n) <= x
  OBVIOUS
<1>2. x \div n <= n * (x \div n)
  BY <1>1, ProductsInOrder
<1> QED
  BY <1>1, <1>2

\* A price of the Bank of Russia that no JSON can show was sent as one.
LEMMA CBRQuotes ==
    ASSUME NEW row, row.unit \in Texts, row.value \in Texts, row.nominal \in Int,
           Banks!CBRQuote(row) # NoRate
    PROVE  /\ Banks!CBRQuote(row) \in Quotes
           /\ OddQuote(Banks!CBRQuote(row)) => {row.unit, row.value} \cap Odd # {}
<1>1. \A text \in Texts : Banks!Decimal(text) => text \in (1 .. MaxFloat) \cup Odd
  BY NoNumbers DEF Texts, Numbers, Banks!Decimal, Banks!Greater, Odd
<1>2. \A text \in Texts : Banks!Decimal(text) => text \in Floats
  BY <1>1, NoNumbers DEF Floats, Finite
<1>3. ASSUME NEW x \in Floats
      PROVE  Banks!Quote(x, x) \in Quotes /\ (OddQuote(Banks!Quote(x, x)) => x \in Odd)
  BY DEF Banks!Quote, Quotes, OddQuote
<1>4. CASE row.unit # NoText /\ Banks!Decimal(row.unit)
  <2>1. Banks!CBRQuote(row) = Banks!Quote(row.unit, row.unit)
    BY <1>4 DEF Banks!CBRQuote
  <2>2. row.unit \in Floats
    BY <1>2, <1>4
  <2>3. OddQuote(Banks!Quote(row.unit, row.unit)) => row.unit \in Odd
    BY <1>3, <2>2
  <2>4. row.unit \in Odd => {row.unit, row.value} \cap Odd # {}
    OBVIOUS
  <2> QED
    BY <1>3, <2>1, <2>2, <2>3, <2>4
<1>5. CASE row.unit = NoText /\ Banks!Decimal(row.value) /\ row.nominal > 0
  <2> DEFINE x == Banks!Quotient(row.value, row.nominal)
  <2>1. Banks!CBRQuote(row) = Banks!Quote(x, x)
    BY <1>5 DEF Banks!CBRQuote, Banks!Divisible
  <2>2. row.value \in Floats
    BY <1>2, <1>5
  <2>3. row.value \in Odd => x = row.value
    BY <1>5 DEF Banks!Quotient, Odd
  <2>4. row.value \notin Odd => x \in Finite
    <3>1. ASSUME row.value \in Finite PROVE row.value \div row.nominal \in Finite
      BY <1>5, <3>1, NoNumbers, QuotientFits DEF Finite
    <3> QED
      BY <1>5, <2>2, <3>1 DEF Banks!Quotient, Odd, Floats
  <2>5. x \in Floats /\ (x \in Odd => row.value \in Odd)
    BY NoNumbers, <2>2, <2>3, <2>4 DEF Floats, Odd, Finite
  <2> HIDE DEF x
  <2>6. OddQuote(Banks!Quote(x, x)) => row.value \in Odd
    BY <1>3, <2>5
  <2>7. row.value \in Odd => {row.unit, row.value} \cap Odd # {}
    OBVIOUS
  <2> QED
    BY <1>3, <2>1, <2>5, <2>6, <2>7
<1> QED
  BY <1>4, <1>5 DEF Banks!CBRQuote, Banks!Divisible

\* The other prices are numbers.
LEMMA NumberQuotes ==
    ASSUME NEW a \in Finite, NEW b \in Finite
    PROVE  Banks!Quote(a, b) \in Quotes /\ ~OddQuote(Banks!Quote(a, b))
BY NoNumbers DEF Banks!Quote, Quotes, OddQuote, Floats, Finite, Odd

\* Client i got a price from the Bank of Russia that is not a number.
OddSent(i) ==
    /\ NewClients[i] = "Bank of Russia" /\ got[i] \notin {Timeout, Unasked}
    /\ \E k \in DOMAIN got[i].rows : {got[i].rows[k].unit, got[i].rows[k].value} \cap Odd # {}

LEMMA SitesReply ==
    ASSUME NewClients \in Seq(Names), NEW i \in DOMAIN NewClients, ~Banks!Local(i)
    PROVE  NewClients[i] \in DOMAIN Replies
<1>1. NewClients[i] \in Names
  OBVIOUS
<1>2. NewClients[i] \notin {"North Bank", "Metro Bank", "Offline Bank"}
  BY DEF Banks!Local, Banks!Mock
<1> QED
  BY <1>1, <1>2, BanksAreNamed, ServiceAssumption

LEMMA ClientRates ==
    ASSUME NewClients \in Seq(Names), NEW i \in DOMAIN NewClients,
           got[i] \in Outcomes(i), got[i] # Asked, Banks!FetchRate(i) # NoRate
    PROVE  /\ Banks!FetchRate(i) \in Quotes
           /\ OddQuote(Banks!FetchRate(i)) => OddSent(i)
<1> DEFINE bank == NewClients[i]
           reply == got[i]
           matching == {k \in DOMAIN reply.rows : reply.rows[k].code = currency}
           m == Min(matching)
           row == reply.rows[m]
<1>1. bank \in Names
  OBVIOUS
<1>0. \A n \in 1 .. 5 : n * One \in Finite /\ One \in Finite
  BY NoNumbers DEF Finite
<1>2. CASE Banks!Local(i)
  <2>1. got[i] = Unasked
    BY <1>2 DEF Outcomes
  <2>2. Banks!FetchRate(i) = Banks!LocalRate(i)
    BY <2>1 DEF Banks!FetchRate
  <2>3. CASE bank \in Banks!Mock
    <3>1. Banks!LocalRate(i) = Banks!MockRate(bank)
      BY <2>3 DEF Banks!LocalRate
    <3>2. Banks!MockRate(bank) \in {NoRate, Banks!Quote(3 * One, 5 * One), Banks!Quote(2 * One, 4 * One)}
      BY <2>3 DEF Banks!MockRate, Banks!Mock
    <3> QED
      BY <1>0, <2>2, <3>1, <3>2, NumberQuotes
  <2>4. CASE bank \notin Banks!Mock
    <3>1. Banks!LocalRate(i) = Banks!Quote(One, One)
      BY <2>4 DEF Banks!LocalRate
    <3> QED
      BY <1>0, <2>2, <3>1, NumberQuotes
  <2> QED
    BY <2>3, <2>4
<1>3. CASE ~Banks!Local(i)
  <2>1. bank \in DOMAIN Replies
    BY <1>3, SitesReply
  <2>2. got[i] \in {Timeout} \cup Replies[bank]
    BY <1>3 DEF Outcomes
  <2>3. got[i] \in Replies[bank] /\ got[i] \notin {Timeout, Unasked}
    <3>1. got[i] # Timeout
      <4>1. Timeout # Unasked
        BY ServiceAssumption
      <4> QED
        BY <4>1 DEF Banks!FetchRate
    <3> QED
      BY <2>1, <2>2, <3>1, ServiceAssumption
  <2>4. /\ \A k \in DOMAIN reply.rows :
               IF bank = "Bank of Russia"
               THEN /\ reply.rows[k].unit \in Texts /\ reply.rows[k].value \in Texts
                    /\ reply.rows[k].nominal \in Int
               ELSE reply.rows[k].buy \in Numbers /\ reply.rows[k].sell \in Numbers
        /\ Len(reply.rows) \in Nat /\ DOMAIN reply.rows = 1 .. Len(reply.rows)
    BY <2>1, <2>3, ServiceAssumption
  <2>5. Banks!FetchRate(i) = Banks!SiteRate(bank, reply)
    BY <2>3 DEF Banks!FetchRate
  <2>6. matching # {} /\ Banks!FetchRate(i) = Banks!RowQuote(bank, row)
    BY <2>5 DEF Banks!SiteRate, Banks!Min, Min
  <2>7. m \in DOMAIN reply.rows
    <3>1. matching \subseteq 1 .. Len(reply.rows)
      BY <2>4
    <3>2. IsFiniteSet(matching) /\ matching \in SUBSET Int
      <4>1. IsFiniteSet(1 .. Len(reply.rows)) /\ 1 .. Len(reply.rows) \in SUBSET Int
        <5>1. \A n \in Nat : IsFiniteSet(1 .. n) /\ 1 .. n \in SUBSET Int
          BY FS_Interval
        <5> QED
          BY <2>4, <5>1, Zenon
      <4> HIDE DEF matching
      <4> QED
        BY <3>1, <4>1, FS_Subset
    <3> HIDE DEF matching
    <3>3. m \in matching
      BY <2>6, <3>2, MinExists
    <3> QED
      BY <3>3 DEF matching
  <2> HIDE DEF m
  <2>8. CASE bank = "Bank of Russia"
    <3>1. Banks!FetchRate(i) = Banks!CBRQuote(row)
      BY <2>6, <2>8 DEF Banks!RowQuote
    <3>2. row.unit \in Texts /\ row.value \in Texts /\ row.nominal \in Int
      BY <2>4, <2>7, <2>8
    <3>3. /\ Banks!CBRQuote(row) \in Quotes
          /\ OddQuote(Banks!CBRQuote(row)) => {row.unit, row.value} \cap Odd # {}
      BY <3>1, <3>2, CBRQuotes
    <3> QED
      BY <2>3, <2>7, <2>8, <3>1, <3>3 DEF OddSent
  <2>9. CASE bank # "Bank of Russia"
    <3>1. Banks!FetchRate(i) = Banks!Quote(row.buy, row.sell) /\ row.buy > 0 /\ row.sell > 0
      BY <2>6, <2>9 DEF Banks!RowQuote, Banks!JSONQuote
    <3>2. row.buy \in Finite /\ row.sell \in Finite
      <4>1. row.buy \in Numbers /\ row.sell \in Numbers
        BY <2>4, <2>7, <2>9
      <4>2. \A x \in Numbers : x > 0 => x \in Finite
        BY NoNumbers DEF Numbers, Finite
      <4> HIDE DEF row
      <4> QED
        BY <3>1, <4>1, <4>2
    <3> QED
      BY <3>1, <3>2, NumberQuotes
  <2> QED
    BY <2>8, <2>9
<1> QED
  BY <1>2, <1>3

------------------------------------------------------------------------------
(* The best of the quotes                                                  *)

\* The collector keeps what is a rate.
LEMMA CollectedAreRates ==
    ASSUME NEW S, NEW rates, NEW n \in Nat, DOMAIN rates = 1 .. n,
           \A k \in 1 .. n : rates[k] # NoRate => rates[k] \in S
    PROVE  Banks!Collected(rates) \in Seq(S)
<1> DEFINE Keep(v, k) == IF rates[k] = NoRate THEN v ELSE Append(v, rates[k])
           D == 1 .. n
           V == Seq(S)
           step == [k \in D |-> [v \in V |-> Keep(v, k)]]
           Eq(f) == f = [U \in SUBSET D |->
                           IF U = {} THEN <<>> ELSE Keep(f[U \ {Max(U)}], Max(U))]
           iter == CHOOSE f : Eq(f)
<1>1. <<>> \in V /\ \A v \in V, k \in D : Keep(v, k) \in V
  OBVIOUS
<1>2. PICK f : IsLoop(f, n, V, <<>>, step)
  <2> HIDE DEF V, Keep
  <2>1. TurnsOf(step, n, V)
    BY <1>1 DEF TurnsOf
  <2> HIDE DEF step
  <2> QED
    BY <1>1, <2>1, LoopOfSets
<1>3. Eq([U \in SUBSET D |-> f[U]])
  <2>1. f \in [SUBSET D -> V] /\ f[{}] = <<>>
    BY <1>2 DEF IsLoop
  <2>2. ASSUME NEW U \in SUBSET D, U # {}
        PROVE  f[U] = Keep(f[U \ {Max(U)}], Max(U))
    <3>1. Max(U) \in D /\ f[U] = step[Max(U)][f[U \ {Max(U)}]]
      BY <1>2, <2>2 DEF IsLoop
    <3>2. f[U \ {Max(U)}] \in V
      BY <2>1
    <3> HIDE DEF Keep, V
    <3> QED
      BY <3>1, <3>2
  <2> HIDE DEF Keep
  <2> QED
    BY <2>1, <2>2
<1>4. Eq(iter)
  <2> HIDE DEF Eq
  <2> QED
    BY <1>3, Zenon
<1>5. Banks!Collected(rates) = iter[D]
  BY DEF Banks!Collected, Banks!FoldLeft, Banks!MapThenFoldSet, Banks!Max, Max
<1> HIDE DEF iter
<1> DEFINE T == {k \in Nat : k <= n => iter[1 .. k] \in V}
<1>6. 0 \in T
  <2>1. iter[{}] = <<>> /\ 1 .. 0 = {}
    BY <1>4
  <2> QED
    BY <1>1, <2>1
<1>7. ASSUME NEW k \in Nat, k \in T PROVE k + 1 \in T
  <2> SUFFICES ASSUME k + 1 <= n PROVE iter[1 .. k + 1] \in V
    OBVIOUS
  <2>1. k + 1 \in D /\ 1 .. k + 1 \in SUBSET D /\ iter[1 .. k] \in V /\ k + 1 \in Nat \ {0} /\ (k + 1) - 1 = k
    BY <1>7
  <2>2. Max(1 .. k + 1) = k + 1 /\ (1 .. k + 1) \ {k + 1} = 1 .. k /\ 1 .. k + 1 # {}
    BY <2>1, LastOfPrefix
  <2> HIDE DEF Keep
  <2>3. iter[1 .. k + 1] = Keep(iter[1 .. k], k + 1)
    BY <1>4, <2>1, <2>2
  <2> HIDE DEF V
  <2> QED
    BY <1>1, <2>1, <2>3
<1>8. n \in T
  <2> HIDE DEF T
  <2> QED
    BY <1>6, <1>7, NumberInduction
<1> QED
  BY <1>5, <1>8

\* One turn of the selection.
Turn(side, best, rate) == IF Banks!Better(side, rate, best) THEN rate ELSE best

LEMMA BestIsALoop ==
    ASSUME NEW S, NEW sources \in Seq(S), Len(sources) > 0, NEW side
    PROVE  \E u : /\ u[0] = sources[1]
                  /\ \A k \in 1 .. Len(sources) : u[k] = Turn(side, u[k - 1], sources[k])
                  /\ Banks!Best(side, sources) = u[Len(sources)]
<1> DEFINE n == Len(sources)
           D == 1 .. n
           step == [k \in D |-> [v \in S |-> Turn(side, v, sources[k])]]
           Eq(f) == f = [U \in SUBSET D |->
                           IF U = {} THEN sources[1]
                           ELSE Turn(side, f[U \ {Max(U)}], sources[Max(U)])]
           iter == CHOOSE f : Eq(f)
<1>1. n \in Nat /\ 1 \in D /\ DOMAIN sources = D /\ \A k \in D : sources[k] \in S
  BY LenProperties
<1> HIDE DEF n
<1>2. sources[1] \in S /\ \A v \in S, k \in D : Turn(side, v, sources[k]) \in S
  BY <1>1 DEF Turn
<1>3. PICK f : IsLoop(f, n, S, sources[1], step)
  <2>1. TurnsOf(step, n, S)
    BY <1>2 DEF TurnsOf
  <2> HIDE DEF step
  <2> QED
    BY <1>1, <1>2, <2>1, LoopOfSets
<1>4. Eq([U \in SUBSET D |-> f[U]])
  <2>1. f \in [SUBSET D -> S] /\ f[{}] = sources[1]
    BY <1>3 DEF IsLoop
  <2>2. ASSUME NEW U \in SUBSET D, U # {}
        PROVE  f[U] = Turn(side, f[U \ {Max(U)}], sources[Max(U)])
    <3>1. Max(U) \in D /\ f[U] = step[Max(U)][f[U \ {Max(U)}]]
      BY <1>3, <2>2 DEF IsLoop
    <3>2. f[U \ {Max(U)}] \in S
      BY <2>1
    <3> QED
      BY <3>1, <3>2
  <2> QED
    BY <2>1, <2>2
<1>5. Eq(iter)
  <2> HIDE DEF Eq
  <2> QED
    BY <1>4, Zenon
<1>6. Banks!Best(side, sources) = iter[D]
  BY <1>1 DEF Banks!Best, Banks!FoldLeft, Banks!MapThenFoldSet, Banks!Max, Max, Turn
<1> HIDE DEF iter
<1> DEFINE u == [k \in 0 .. n |-> iter[1 .. k]]
<1>7. ASSUME NEW k \in D PROVE u[k] = Turn(side, u[k - 1], sources[k])
  <2>1. k \in Nat \ {0} /\ 1 .. k \in SUBSET D /\ k \in 0 .. n /\ k - 1 \in 0 .. n
    BY <1>1
  <2>2. Max(1 .. k) = k /\ (1 .. k) \ {k} = 1 .. (k - 1) /\ 1 .. k # {}
    BY <2>1, LastOfPrefix
  <2>3. iter[1 .. k] = Turn(side, iter[1 .. (k - 1)], sources[k])
    BY <1>5, <2>1, <2>2
  <2> QED
    BY <2>1, <2>3
<1>8. u[0] = sources[1] /\ u[n] = iter[D]
  <2>1. 1 .. 0 = {} /\ 0 \in 0 .. n /\ n \in 0 .. n
    BY <1>1
  <2>2. iter[{}] = sources[1]
    BY <1>5
  <2> QED
    BY <2>1, <2>2
<1> HIDE DEF u
<1> QED
  BY <1>6, <1>7, <1>8 DEF n

\* > is a strict order of the prices that are numbers; NaN is in no relation.
LEMMA GreaterIsStrict ==
    /\ \A a, b \in Floats : Banks!Greater(a, b) => a # NaN /\ b # NaN /\ ~Banks!Greater(b, a)
    /\ \A a, b, c \in Floats : Banks!Greater(a, b) /\ Banks!Greater(b, c) => Banks!Greater(a, c)
    /\ \A a \in Floats : ~Banks!Greater(a, a)
BY NoNumbers DEF Banks!Greater, Floats, Finite, Odd

LEMMA BestOfQuotes ==
    ASSUME NEW sources \in Seq(Quotes), Len(sources) > 0
    PROVE  LET buy == Banks!Best("buy", sources)
               sell == Banks!Best("sell", sources)
           IN  /\ {buy, sell} \subseteq ToSet(sources)
               /\ \A s \in ToSet(sources) : /\ ~Banks!Greater(s.buy, buy.buy)
                                            /\ ~Banks!Greater(sell.sell, s.sell)
               /\ NaN \in {buy.buy, sell.sell} => sources[1].buy = NaN
<1> DEFINE n == Len(sources)
           D == 1 .. n
<1>1. n \in Nat /\ 1 \in D /\ DOMAIN sources = D /\ \A k \in D : sources[k] \in Quotes
  BY LenProperties
<1>2. \A k \in D : /\ sources[k].buy \in Floats /\ sources[k].sell \in Floats
                   /\ sources[k].buy = NaN <=> sources[k].sell = NaN
  BY <1>1 DEF Quotes
<1>3. ToSet(sources) = {sources[k] : k \in D}
  BY <1>1 DEF ToSet
<1>4. LET buy == Banks!Best("buy", sources)
      IN  /\ buy \in ToSet(sources)
          /\ \A k \in D : ~Banks!Greater(sources[k].buy, buy.buy)
          /\ buy.buy = NaN => sources[1].buy = NaN
  <2>1. PICK u : /\ u[0] = sources[1]
                 /\ \A k \in D : u[k] = Turn("buy", u[k - 1], sources[k])
                 /\ Banks!Best("buy", sources) = u[n]
    BY BestIsALoop
  <2> HIDE DEF n
  <2> DEFINE Good(k) == /\ \E j \in D : u[k] = sources[j]
                        /\ \A j \in 1 .. k : ~Banks!Greater(sources[j].buy, u[k].buy)
                        /\ u[k].buy = NaN => sources[1].buy = NaN
             T == {k \in Nat : k <= n => Good(k)}
  <2>2. 0 \in T
    BY <1>1, <2>1
  <2>3. ASSUME NEW k \in Nat, k \in T PROVE k + 1 \in T
    <3> SUFFICES ASSUME k + 1 <= n PROVE Good(k + 1)
      OBVIOUS
    <3> DEFINE rate == sources[k + 1]
    <3>1. Good(k) /\ k + 1 \in D /\ (k + 1) - 1 = k
      BY <1>1, <2>3
    <3>2. u[k + 1] = IF Banks!Greater(rate.buy, u[k].buy) THEN rate ELSE u[k]
      BY <2>1, <3>1 DEF Turn, Banks!Better, Banks!BetterBuy
    <3>3. rate.buy \in Floats /\ u[k].buy \in Floats
      BY <1>2, <3>1
    <3>4. \A j \in 1 .. k + 1 : j \in D /\ (j \in 1 .. k \/ j = k + 1)
      BY <1>1, <3>1
    <3>5. CASE Banks!Greater(rate.buy, u[k].buy)
      <4>1. u[k + 1] = rate /\ rate.buy # NaN
        BY <3>2, <3>3, <3>5, GreaterIsStrict
      <4>2. ASSUME NEW j \in 1 .. k + 1 PROVE ~Banks!Greater(sources[j].buy, rate.buy)
        <5>1. CASE j = k + 1
          BY <3>3, <5>1, GreaterIsStrict
        <5>2. CASE j \in 1 .. k
          <6>1. ~Banks!Greater(sources[j].buy, u[k].buy) /\ sources[j].buy \in Floats
            BY <1>2, <3>1, <3>4, <5>2
          <6> QED
            BY <3>3, <3>5, <6>1, GreaterIsStrict
        <5> QED
          BY <3>4, <5>1, <5>2
      <4> QED
        BY <3>1, <4>1, <4>2
    <3>6. CASE ~Banks!Greater(rate.buy, u[k].buy)
      BY <3>1, <3>2, <3>4, <3>6
    <3> QED
      BY <3>5, <3>6
  <2>4. n \in T
    <3> HIDE DEF T
    <3> QED
      BY <1>1, <2>2, <2>3, NumberInduction
  <2> QED
    BY <1>1, <1>3, <2>1, <2>4
<1>5. LET sell == Banks!Best("sell", sources)
      IN  /\ sell \in ToSet(sources)
          /\ \A k \in D : ~Banks!Greater(sell.sell, sources[k].sell)
          /\ sell.sell = NaN => sources[1].sell = NaN
  <2>1. PICK u : /\ u[0] = sources[1]
                 /\ \A k \in D : u[k] = Turn("sell", u[k - 1], sources[k])
                 /\ Banks!Best("sell", sources) = u[n]
    BY BestIsALoop
  <2> HIDE DEF n
  <2> DEFINE Good(k) == /\ \E j \in D : u[k] = sources[j]
                        /\ \A j \in 1 .. k : ~Banks!Greater(u[k].sell, sources[j].sell)
                        /\ u[k].sell = NaN => sources[1].sell = NaN
             T == {k \in Nat : k <= n => Good(k)}
  <2>2. 0 \in T
    BY <1>1, <2>1
  <2>3. ASSUME NEW k \in Nat, k \in T PROVE k + 1 \in T
    <3> SUFFICES ASSUME k + 1 <= n PROVE Good(k + 1)
      OBVIOUS
    <3> DEFINE rate == sources[k + 1]
    <3>1. Good(k) /\ k + 1 \in D /\ (k + 1) - 1 = k
      BY <1>1, <2>3
    <3>2. u[k + 1] = IF Banks!Greater(u[k].sell, rate.sell) THEN rate ELSE u[k]
      BY <2>1, <3>1 DEF Turn, Banks!Better, Banks!BetterSell
    <3>3. rate.sell \in Floats /\ u[k].sell \in Floats
      BY <1>2, <3>1
    <3>4. \A j \in 1 .. k + 1 : j \in D /\ (j \in 1 .. k \/ j = k + 1)
      BY <1>1, <3>1
    <3>5. CASE Banks!Greater(u[k].sell, rate.sell)
      <4>1. u[k + 1] = rate /\ rate.sell # NaN
        BY <3>2, <3>3, <3>5, GreaterIsStrict
      <4>2. ASSUME NEW j \in 1 .. k + 1 PROVE ~Banks!Greater(rate.sell, sources[j].sell)
        <5>1. CASE j = k + 1
          BY <3>3, <5>1, GreaterIsStrict
        <5>2. CASE j \in 1 .. k
          <6>1. ~Banks!Greater(u[k].sell, sources[j].sell) /\ sources[j].sell \in Floats
            BY <1>2, <3>1, <3>4, <5>2
          <6> QED
            BY <3>3, <3>5, <6>1, GreaterIsStrict
        <5> QED
          BY <3>4, <5>1, <5>2
      <4> QED
        BY <3>1, <4>1, <4>2
    <3>6. CASE ~Banks!Greater(u[k].sell, rate.sell)
      BY <3>1, <3>2, <3>4, <3>6
    <3> QED
      BY <3>5, <3>6
  <2>4. n \in T
    <3> HIDE DEF T
    <3> QED
      BY <1>1, <2>2, <2>3, NumberInduction
  <2> QED
    BY <1>1, <1>3, <2>1, <2>4
<1> QED
  BY <1>1, <1>2, <1>3, <1>4, <1>5

------------------------------------------------------------------------------
(* Requests                                                                *)

First == IF Banks!from = "RUB" THEN Banks!to ELSE Banks!from

Waiting == got = <<>> /\ arrived = <<>> /\ response = Banks!NoResponse

\* The clients have been asked; the handler answers when all have returned.
Underway ==
    /\ phase = "running"
    /\ got = [i \in DOMAIN NewClients |-> got[i]]
    /\ \A i \in DOMAIN NewClients : got[i] \in Outcomes(i)
    /\ arrived \in Seq(DOMAIN NewClients)
    /\ \A k \in DOMAIN arrived : got[arrived[k]] # Asked
    /\ \/ response = Banks!NoResponse
       \/ response = Banks!Answer /\ \A i \in DOMAIN NewClients : got[i] # Asked

\* Where the calls of FetchRates are: the second began when the first ended.
InCall ==
    /\ request \in Requests
    /\ waited \in began .. began + ClientTimeout
    /\ bought \in Floats /\ (bought \in Odd => spoiled)
    /\ spoiled \in BOOLEAN
    /\ \/ currency = First /\ began = 0
       \/ currency = Banks!to /\ Calls = 2 /\ began \in 0 .. ClientTimeout

\* The invariant of the service.
ServiceInv == ConfigInv /\ InCall /\ (Waiting \/ Underway)

LEMMA Timeouts == ClientTimeout \in Nat
BY ServiceAssumption, Zenon

LEMMA InitService == ServiceInit => ServiceInv
<1> SUFFICES ASSUME ServiceInit PROVE ServiceInv
  OBVIOUS
<1>1. ConfigInv
  BY InitConfig DEF ServiceInit
<1>2. InCall
  <2>1. /\ request \in Requests /\ currency = First /\ bought = One /\ spoiled = FALSE
        /\ waited = 0 /\ began = 0
    BY DEF ServiceInit, Banks!InitRequest, First
  <2>2. One \in Floats /\ One \notin Odd
    BY NoNumbers DEF Floats, Finite, Odd
  <2>3. 0 \in 0 .. 0 + ClientTimeout
    BY Timeouts
  <2> QED
    BY <2>1, <2>2, <2>3 DEF InCall
<1> QED
  BY <1>1, <1>2 DEF ServiceInit, Banks!InitRequest, ServiceInv, Waiting

\* What an answer is made of.
LEMMA SameAnswer == UNCHANGED <<cfg, request, currency, bought, waited, got, arrived>> =>
    /\ Banks!Answer' = Banks!Answer
    /\ NewClients' = NewClients
    /\ \A i \in DOMAIN NewClients : Outcomes(i)' = Outcomes(i)
<1> SUFFICES ASSUME UNCHANGED <<cfg, request, currency, bought, waited, got, arrived>>
             PROVE  /\ Banks!Answer' = Banks!Answer
                    /\ NewClients' = NewClients
                    /\ \A i \in DOMAIN NewClients : Outcomes(i)' = Outcomes(i)
  OBVIOUS
<1>1. NewClients' = NewClients
  BY DEF NewClients
<1>2. \A i \in DOMAIN NewClients : Outcomes(i)' = Outcomes(i)
  BY <1>1 DEF Outcomes, Banks!Local
<1>3. Banks!Usable' = Banks!Usable
  BY <1>1 DEF Banks!Usable, Banks!FetchRate, Banks!LocalRate, Banks!MockRate, Banks!SiteRate
<1>4. Banks!Encodable' = Banks!Encodable
  BY <1>3 DEF Banks!Encodable, Banks!Shown, Banks!Conversion, Banks!Bought, Banks!Sold,
              Banks!from, Banks!to, Banks!amount
<1>5. Banks!InTime' = Banks!InTime
  BY DEF Banks!InTime
<1> QED
  BY <1>1, <1>2, <1>3, <1>4, <1>5 DEF Banks!Answer

\* A quote that no JSON can show comes from a price that was sent as one.
Earned == {q \in Quotes : OddQuote(q) => Banks!SentNoNumber}

\* When all have returned, the quotes are those of the clients.
LEMMA UsableIsEarned ==
    ASSUME ServiceInv, Underway, \A i \in DOMAIN NewClients : got[i] # Asked
    PROVE  Banks!Usable \in Seq(Earned)
<1>1. NewClients \in Seq(Names)
  BY ClientsRead DEF ServiceInv, Underway
<1> DEFINE rates == [k \in DOMAIN arrived |-> Banks!FetchRate(arrived[k])]
<1>2. Len(arrived) \in Nat /\ DOMAIN arrived = 1 .. Len(arrived) /\ arrived \in Seq(DOMAIN NewClients)
  BY LenProperties DEF Underway
<1>3. ASSUME NEW k \in 1 .. Len(arrived), rates[k] # NoRate PROVE rates[k] \in Earned
  <2>1. k \in DOMAIN arrived /\ arrived[k] \in DOMAIN NewClients /\ rates[k] = Banks!FetchRate(arrived[k])
    BY <1>2
  <2>2. got[arrived[k]] \in Outcomes(arrived[k]) /\ got[arrived[k]] # Asked /\ arrived[k] \in DOMAIN got
    BY <2>1 DEF Underway
  <2>3. /\ Banks!FetchRate(arrived[k]) \in Quotes
        /\ OddQuote(Banks!FetchRate(arrived[k])) => OddSent(arrived[k])
    BY <1>1, <1>3, <2>1, <2>2, ClientRates
  <2>4. OddSent(arrived[k]) => Banks!SentNoNumber
    BY <2>2 DEF OddSent, Odd, Banks!SentNoNumber
  <2> QED
    BY <2>1, <2>3, <2>4 DEF Earned
<1>4. Banks!Collected(rates) \in Seq(Earned)
  <2>1. DOMAIN rates = 1 .. Len(arrived)
    BY <1>2
  <2> HIDE DEF rates
  <2> QED
    BY <1>2, <1>3, <2>1, CollectedAreRates
<1> QED
  BY <1>4 DEF Banks!Usable

\* The best of them, if there is one: each is a quote of a client.
LEMMA BestIsEarned ==
    ASSUME Banks!Usable \in Seq(Earned), Banks!Usable # <<>>
    PROVE  /\ Banks!Usable \in Seq(Quotes) /\ Len(Banks!Usable) > 0
           /\ Banks!Best("buy", Banks!Usable) \in Earned
           /\ Banks!Best("sell", Banks!Usable) \in Earned
<1> DEFINE sources == Banks!Usable
<1>1. sources \in Seq(Earned) /\ sources # <<>>
  OBVIOUS
<1> HIDE DEF sources
<1>2. sources \in Seq(Quotes)
  <2>1. \A q \in Earned : q \in Quotes
    BY DEF Earned
  <2> HIDE DEF Earned
  <2> QED
    BY <1>1, <2>1
<1>3. Len(sources) > 0
  <2>1. Len(sources) \in Nat /\ Len(sources) # 0
    BY <1>1, <1>2, LenProperties, EmptySeq
  <2> QED
    BY <2>1
<1>4. Banks!Best("buy", sources) \in ToSet(sources) /\ Banks!Best("sell", sources) \in ToSet(sources)
  BY <1>2, <1>3, BestOfQuotes
<1>5. \A q \in ToSet(sources) : q \in Earned
  BY <1>1 DEF ToSet
<1> QED
  BY <1>2, <1>3, <1>4, <1>5 DEF sources

\* So are the prices of a conversion, those of the first call included.
LEMMA PricesAreEarned ==
    ASSUME InCall, Banks!Usable \in Seq(Earned), Banks!Usable # <<>>
    PROVE  /\ Banks!Bought \in Floats /\ (Banks!Bought \in Odd => spoiled \/ Banks!SentNoNumber)
           /\ Banks!Sold \in Floats /\ (Banks!Sold \in Odd => Banks!SentNoNumber)
<1>1. \A q \in Earned : /\ q.buy \in Floats /\ (q.buy \in Odd => Banks!SentNoNumber)
                        /\ q.sell \in Floats /\ (q.sell \in Odd => Banks!SentNoNumber)
  BY DEF Earned, Quotes, OddQuote
<1>2. /\ Banks!Best("buy", Banks!Usable) \in Earned
      /\ Banks!Best("sell", Banks!Usable) \in Earned
  BY BestIsEarned
<1>3. One \in Floats /\ One \notin Odd
  BY NoNumbers DEF Floats, Finite, Odd
<1> QED
  BY <1>1, <1>2, <1>3 DEF InCall, Banks!Bought, Banks!Sold

LEMMA NextService == ServiceInv /\ [ServiceNext]_serviceVars => ServiceInv'
<1> SUFFICES ASSUME ServiceInv, ServiceNext \/ UNCHANGED serviceVars PROVE ServiceInv'
  BY DEF serviceVars, vars, requestVars
<1> USE DEF ServiceInv
<1>0. UNCHANGED requestVars => InCall'
  BY DEF requestVars, InCall, First, Calls, Banks!from, Banks!to
<1>1. CASE Starts
  <2>1. UNCHANGED requestVars /\ phase = "load"
    BY <1>1 DEF Starts, Next, Read, ReadFails, Setup
  <2>2. ConfigInv'
    BY <1>1, NextConfig DEF Starts
  <2>3. Waiting
    BY <2>1 DEF Underway
  <2> QED
    BY <1>0, <2>1, <2>2, <2>3 DEF requestVars, Waiting, Banks!NoResponse
<1>2. CASE UNCHANGED serviceVars
  <2>1. UNCHANGED vars /\ UNCHANGED requestVars /\ phase' = phase
    BY <1>2 DEF serviceVars, vars
  <2>2. ConfigInv'
    BY <2>1, NextConfig
  <2>3. Waiting => Waiting'
    BY <2>1 DEF requestVars, Waiting, Banks!NoResponse
  <2>4. Underway => Underway'
    <3>1. UNCHANGED <<cfg, request, currency, bought, waited, got, arrived, response, phase>>
      BY <2>1 DEF vars, requestVars
    <3> QED
      BY <3>1, SameAnswer DEF Underway, Banks!NoResponse
  <2> QED
    BY <1>0, <2>1, <2>2, <2>3, <2>4
<1>3. CASE Serves
  <2>1. UNCHANGED vars /\ phase = "running" /\ phase' = phase /\ Banks!Next
    BY <1>3 DEF Serves, vars
  <2>2. ConfigInv'
    BY <2>1, NextConfig
  <2>3. NewClients \in Seq(Names) /\ NewClients # <<>> /\ NewClients' = NewClients
    BY <2>1, ClientsRead DEF NewClients, vars, ConfigInv
  <2> DEFINE D == DOMAIN NewClients
  <2>4. D # {}
    <3>1. D = 1 .. Len(NewClients) /\ Len(NewClients) \in Nat
      BY <2>3, LenProperties
    <3>2. Len(NewClients) # 0
      BY <2>3, EmptySeq
    <3> QED
      BY <3>1, <3>2
  <2>5. \A i \in D : currency' = currency => Outcomes(i)' = Outcomes(i)
    BY <2>3 DEF Outcomes, Banks!Local
  <2>6. Waiting => DOMAIN got = {}
    BY DEF Waiting
  <2>7. Underway => DOMAIN got = D /\ got # <<>>
    BY <2>4 DEF Underway
  <2>12. UNCHANGED <<request, currency, bought, spoiled, waited, began>> => InCall'
    BY DEF InCall, First, Calls, Banks!from, Banks!to
  <2>8. CASE Banks!Accept
    <3>1. /\ got' = [i \in D |-> Asked]
          /\ UNCHANGED <<request, currency, bought, spoiled, waited, began, arrived, response>>
      BY <2>8 DEF Banks!Accept
    <3>2. Waiting
      BY <2>7, <2>8 DEF Banks!Accept
    <3>4. \A i \in D : Asked \in Outcomes(i)
      BY DEF Outcomes
    <3>5. arrived' = <<>> /\ response' = Banks!NoResponse
      BY <3>1, <3>2 DEF Waiting
    <3>6. <<>> \in Seq(D) /\ DOMAIN <<>> = {}
      OBVIOUS
    <3>7. Underway'
      BY <2>1, <2>3, <2>5, <3>1, <3>4, <3>5, <3>6 DEF Underway, Banks!NoResponse
    <3> QED
      BY <2>2, <2>12, <3>1, <3>7
  <2>9. ASSUME NEW i \in DOMAIN got,
               Banks!ReturnLocal(i) \/ Banks!SiteAnswers(i) \/ Banks!TimedOut(i)
        PROVE  ServiceInv'
    <3>1. Underway /\ i \in D
      BY <2>6, <2>7, <2>9
    <3>2. PICK what \in Outcomes(i) \ {Asked} : Banks!Return(i, what)
      <4>1. CASE Banks!ReturnLocal(i)
        BY <4>1, ServiceAssumption DEF Banks!ReturnLocal, Outcomes
      <4>2. CASE Banks!SiteAnswers(i)
        <5>1. NewClients[i] \in DOMAIN Replies
          BY <2>3, <3>1, <4>2, SitesReply DEF Banks!SiteAnswers
        <5>2. Asked \notin Replies[NewClients[i]]
          BY <5>1, ServiceAssumption
        <5> QED
          BY <4>2, <5>2 DEF Banks!SiteAnswers, Outcomes
      <4>3. CASE Banks!TimedOut(i)
        BY <4>3, ServiceAssumption DEF Banks!TimedOut, Outcomes
      <4> QED
        BY <2>9, <4>1, <4>2, <4>3
    <3>3. /\ got[i] = Asked /\ got' = [got EXCEPT ![i] = what] /\ arrived' = Append(arrived, i)
          /\ UNCHANGED <<request, currency, bought, spoiled, waited, began, response>>
      BY <3>2 DEF Banks!Return, Banks!Pending
    <3>4. response = Banks!NoResponse
      BY <3>1, <3>3 DEF Underway
    <3>5. /\ got' = [j \in D |-> got'[j]]
          /\ \A j \in D : got'[j] = IF j = i THEN what ELSE got[j]
      BY <3>1, <3>3 DEF Underway
    <3>6. /\ arrived \in Seq(D) /\ Len(arrived) \in Nat /\ DOMAIN arrived = 1 .. Len(arrived)
          /\ arrived' \in Seq(D) /\ DOMAIN arrived' = 1 .. Len(arrived) + 1
          /\ \A k \in 1 .. Len(arrived) : arrived'[k] = arrived[k]
          /\ arrived'[Len(arrived) + 1] = i
      BY <3>1, <3>3, AppendProperties, LenProperties DEF Underway
    <3>7. ASSUME NEW k \in DOMAIN arrived' PROVE got'[arrived'[k]] # Asked
      <4>1. CASE k \in 1 .. Len(arrived)
        <5>1. k \in DOMAIN arrived /\ arrived'[k] = arrived[k]
          BY <3>6, <4>1
        <5>2. arrived[k] \in D /\ got[arrived[k]] # Asked
          <6>1. got[arrived[k]] # Asked
            BY <3>1, <5>1 DEF Underway
          <6>2. arrived[k] \in D
            <7> HIDE DEF D
            <7> QED
              BY <3>6, <5>1
          <6> QED
            BY <6>1, <6>2
        <5> QED
          BY <3>2, <3>5, <5>1, <5>2
      <4>2. CASE k = Len(arrived) + 1
        BY <3>1, <3>2, <3>5, <3>6, <4>2
      <4> QED
        BY <3>6, <4>1, <4>2
    <3>8. \A j \in D : got'[j] \in Outcomes(j)'
      BY <2>5, <3>1, <3>2, <3>3, <3>5 DEF Underway
    <3>9. Underway'
      BY <2>1, <2>3, <3>1, <3>3, <3>4, <3>5, <3>6, <3>7, <3>8 DEF Underway, Banks!NoResponse
    <3> QED
      BY <2>2, <2>12, <3>3, <3>9
  <2>10. CASE Banks!Tick
    <3>1. /\ \E i \in DOMAIN got : got[i] = Asked
          /\ waited < began + ClientTimeout /\ waited' = waited + 1
          /\ UNCHANGED <<request, currency, bought, spoiled, began, got, arrived, response>>
      BY <2>10 DEF Banks!Tick, Banks!Pending
    <3>2. Underway /\ response = Banks!NoResponse
      BY <2>6, <2>7, <3>1 DEF Underway
    <3>3. Underway'
      BY <2>1, <2>3, <2>5, <3>1, <3>2 DEF Underway, Banks!NoResponse
    <3>4. InCall'
      <4>1. waited' \in began .. began + ClientTimeout
        BY <3>1, Timeouts DEF InCall
      <4> QED
        BY <3>1, <4>1 DEF InCall, First, Calls, Banks!from, Banks!to
    <3> QED
      BY <2>2, <3>3, <3>4
  <2>11. CASE Banks!Respond
    <3>1. /\ got # <<>> /\ \A i \in DOMAIN got : got[i] # Asked
          /\ response' = Banks!Answer
          /\ UNCHANGED <<request, currency, bought, spoiled, waited, began, got, arrived>>
      BY <2>11 DEF Banks!Respond, Banks!AllReturned
    <3>2. Underway
      BY <3>1 DEF Waiting
    <3>3. Banks!Answer' = Banks!Answer
      BY <2>1, <3>1, SameAnswer DEF vars
    <3>4. Underway'
      BY <2>1, <2>3, <2>5, <2>7, <3>1, <3>2, <3>3 DEF Underway
    <3> QED
      BY <2>2, <2>12, <3>1, <3>4
  <2>13. CASE Banks!SecondCall
    <3>1. /\ got # <<>> /\ \A i \in DOMAIN got : got[i] # Asked
          /\ response = Banks!NoResponse /\ Banks!Usable # <<>>
          /\ currency # Banks!to /\ Banks!to # "RUB"
          /\ bought' = Banks!Bought /\ spoiled' = Banks!SentNoNumber
          /\ currency' = Banks!to /\ began' = waited
          /\ got' = [i \in D |-> Asked] /\ arrived' = <<>>
          /\ UNCHANGED <<request, waited, response>>
      BY <2>13 DEF Banks!SecondCall, Banks!AllReturned, Banks!LastCall
    <3>2. Underway /\ \A i \in D : got[i] # Asked
      BY <2>7, <3>1 DEF Waiting
    <3>3. currency = Banks!from /\ Banks!from # "RUB" /\ began = 0
      BY <3>1 DEF InCall, First
    <3>4. Banks!Bought \in Floats /\ (Banks!Bought \in Odd => Banks!SentNoNumber)
      <4>1. Banks!Usable \in Seq(Earned)
        BY <3>2, UsableIsEarned
      <4>2. Banks!Best("buy", Banks!Usable) \in Earned
        BY <3>1, <4>1, BestIsEarned
      <4> QED
        BY <3>3, <4>2 DEF Banks!Bought, Earned, Quotes, OddQuote
    <3>5. Calls = 2
      <4>1. request \in Requests
        BY DEF InCall
      <4>2. request.amount # NoAmount
        BY <3>1, <3>3, <4>1, ServiceAssumption DEF Banks!from, Banks!to
      <4> QED
        BY <3>1, <3>3, <4>2 DEF Calls, Banks!from, Banks!to
    <3>6. InCall'
      <4>1. waited \in 0 .. ClientTimeout /\ waited \in waited .. waited + ClientTimeout
        BY <3>3, Timeouts DEF InCall
      <4>2. Calls' = Calls /\ Banks!to' = Banks!to /\ request' \in Requests
        BY <3>1 DEF Calls, Banks!to, InCall
      <4>3. spoiled' \in BOOLEAN
        BY <3>1 DEF Banks!SentNoNumber
      <4> QED
        BY <3>1, <3>4, <3>5, <4>1, <4>2, <4>3 DEF InCall
    <3>7. \A i \in D : Asked \in Outcomes(i)'
      BY DEF Outcomes
    <3>8. <<>> \in Seq(D) /\ DOMAIN <<>> = {}
      OBVIOUS
    <3>9. Underway'
      BY <2>1, <2>3, <3>1, <3>7, <3>8 DEF Underway, Banks!NoResponse
    <3> QED
      BY <2>2, <3>6, <3>9
  <2> QED
    BY <2>1, <2>8, <2>9, <2>10, <2>11, <2>13 DEF Banks!Next
<1> QED
  BY <1>1, <1>2, <1>3 DEF ServiceNext

\* What was written is what the quotes of the clients make of it.
LEMMA AnswerWritten ==
    ASSUME ServiceInv, Banks!Answered
    PROVE  phase = "running" /\ response = Banks!Answer /\ Banks!Usable \in Seq(Earned)
<1>1. Underway /\ response = Banks!Answer /\ \A i \in DOMAIN NewClients : got[i] # Asked
  BY DEF ServiceInv, Waiting, Underway, Banks!Answered, Banks!NoResponse
<1> QED
  BY <1>1, UsableIsEarned DEF Underway

\* The selection, of what was written.
LEMMA BestWritten ==
    ASSUME ServiceInv, response.status = "ok"
    PROVE  /\ Banks!Usable \in Seq(Earned) /\ Banks!Usable # <<>>
           /\ response = [status |-> "ok", delivered |-> Banks!InTime,
                          body |-> Banks!Encodable,
                          bestBuy |-> Banks!Best("buy", Banks!Usable),
                          bestSell |-> Banks!Best("sell", Banks!Usable)]
<1>1. Banks!Answered
  BY DEF Banks!Answered
<1>2. response = Banks!Answer /\ Banks!Usable \in Seq(Earned)
  BY <1>1, AnswerWritten
<1>3. Banks!Usable # <<>>
  BY <1>2 DEF Banks!Answer
<1> QED
  BY <1>2, <1>3 DEF Banks!Answer

LEMMA AnswerIsBest == ServiceInv => BestIsBest
<1> SUFFICES ASSUME ServiceInv, response.status = "ok"
             PROVE  LET sources == ToSet(Banks!Usable) IN
                    /\ {response.bestBuy, response.bestSell} \subseteq sources
                    /\ \A s \in sources : /\ ~Banks!Greater(s.buy, response.bestBuy.buy)
                                          /\ ~Banks!Greater(response.bestSell.sell, s.sell)
                    /\ NaN \in {response.bestBuy.buy, response.bestSell.sell} =>
                           Banks!Usable[1].buy = NaN
  BY DEF BestIsBest, Banks!BestIsBest, Banks!ToSet, ToSet
<1>1. /\ response.bestBuy = Banks!Best("buy", Banks!Usable)
      /\ response.bestSell = Banks!Best("sell", Banks!Usable)
  BY BestWritten
<1>2. Banks!Usable \in Seq(Quotes) /\ Len(Banks!Usable) > 0
  BY BestWritten, BestIsEarned
<1> QED
  BY <1>1, <1>2, BestOfQuotes

\* A product: what no float64 can hold is Inf, the rest is cut off.
LEMMA TimesIsExact ==
    ASSUME NEW a \in Finite, NEW b \in Finite
    PROVE  \/ Banks!Times(a, b) = Inf /\ Banks!Exceeds(a * b, One)
           \/ Banks!Times(a, b) \in Finite /\ Banks!Times(a, b) * One <= a * b
<1>1. a \in Nat /\ b \in Nat /\ a * b \in Nat /\ One \in Nat \ {0} /\ MaxFloat \in Nat
  BY NoNumbers DEF Finite
<1> DEFINE q == (a * b) \div One
<1>2. Banks!Times(a, b) = IF q > MaxFloat THEN Inf ELSE q
  <2>1. NaN \notin {a, b} /\ Inf \notin {a, b} /\ {a, b} # {0, Inf}
    BY <1>1, NoNumbers
  <2> QED
    BY <2>1 DEF Banks!Times, Banks!Float
<1>3. q \in Nat /\ One * q <= a * b
  BY <1>1, QuotientFits
<1> HIDE DEF q
<1>4. CASE q > MaxFloat
  <2>1. (MaxFloat + 1) * One <= q * One
    BY <1>1, <1>3, <1>4, ProductsInOrder
  <2>2. (MaxFloat + 1) * One = MaxFloat * One + One /\ q * One = One * q /\ MaxFloat * One \in Nat
    BY <1>1, <1>3
  <2>3. MaxFloat * One < a * b
    BY <1>1, <1>3, <2>1, <2>2
  <2> QED
    BY <1>2, <1>4, <2>3 DEF Banks!Exceeds
<1>5. CASE ~(q > MaxFloat)
  BY <1>1, <1>2, <1>3, <1>5 DEF Finite
<1> QED
  BY <1>4, <1>5

\* A quotient of something that is not nothing, likewise.
LEMMA OverIsExact ==
    ASSUME NEW a \in Finite, NEW b \in Finite, a > 0 \/ b > 0
    PROVE  \/ Banks!Over(a, b) = Inf /\ Banks!Exceeds(a * One, b)
           \/ Banks!Over(a, b) \in Finite /\ Banks!Over(a, b) * b <= a * One
<1>1. a \in Nat /\ b \in Nat /\ a * One \in Nat /\ One \in Nat \ {0} /\ MaxFloat \in Nat
  BY NoNumbers DEF Finite
<1>2. NaN \notin {a, b} /\ Inf \notin {a, b} /\ {a, b} \notin {{0}, {Inf}}
  BY <1>1, NoNumbers
<1>3. CASE b = 0
  <2>1. Banks!Over(a, b) = Inf
    BY <1>2, <1>3 DEF Banks!Over
  <2>2. a * One > 0 /\ MaxFloat * b = 0
    BY <1>1, <1>3
  <2> QED
    BY <2>1, <2>2 DEF Banks!Exceeds
<1>4. CASE b # 0
  <2> DEFINE q == (a * One) \div b
  <2>1. Banks!Over(a, b) = IF q > MaxFloat THEN Inf ELSE q
    BY <1>2, <1>4 DEF Banks!Over, Banks!Float
  <2>2. q \in Nat /\ b * q <= a * One
    BY <1>1, <1>4, QuotientFits
  <2> HIDE DEF q
  <2>3. CASE q > MaxFloat
    <3>1. (MaxFloat + 1) * b <= q * b
      BY <1>1, <2>2, <2>3, ProductsInOrder
    <3>2. (MaxFloat + 1) * b = MaxFloat * b + b /\ q * b = b * q /\ MaxFloat * b \in Nat
      BY <1>1, <2>2
    <3>3. MaxFloat * b < a * One
      BY <1>1, <1>4, <2>2, <3>1, <3>2
    <3> QED
      BY <2>1, <2>3, <3>3 DEF Banks!Exceeds
  <2>4. CASE ~(q > MaxFloat)
    BY <1>1, <2>1, <2>2, <2>4 DEF Finite
  <2> QED
    BY <2>3, <2>4
<1> QED
  BY <1>3, <1>4

\* What is cut off on the way only makes the result smaller: a conversion that
\* overflows does so by exact arithmetic.
LEMMA ConversionFits ==
    ASSUME Banks!Bought \in Finite, Banks!Sold \in Finite, Banks!amount \in 1 .. MaxFloat,
           ~Banks!OutOfRange
    PROVE  Banks!Conversion \cap Odd = {}
<1> DEFINE a == Banks!amount
           b == Banks!Bought
           s == Banks!Sold
           r == Banks!Times(a, b)
           p == Banks!Over(One, s)
           c == Banks!Times(r, p)
           t == Banks!Over(c, a)
<1>1. /\ ~Banks!Exceeds(a * b, One) /\ ~Banks!Exceeds(One * One, s)
      /\ ~Banks!Exceeds(a * b, s) /\ ~Banks!Exceeds(b * One, s)
  <2>1. Banks!amount # NoAmount
    <3>1. {NaN, Inf, NoText, Garbled, NoAmount} \cap Int = {}
      BY ServiceAssumption, Zenon
    <3> QED
      BY <3>1
  <2>2. {Banks!Bought, Banks!Sold} \cap {NaN, Inf} = {}
    BY NoNumbers DEF Finite
  <2> QED
    BY <2>1, <2>2 DEF Banks!OutOfRange
<1>2. /\ a \in Nat \ {0} /\ a \in Finite /\ b \in Finite /\ s \in Finite
      /\ One \in Nat \ {0} /\ One \in Finite /\ MaxFloat \in Nat
  BY NoNumbers DEF Finite
<1> HIDE DEF a, b, s
<1>3. r \in Finite /\ r * One <= a * b
  BY <1>1, <1>2, TimesIsExact
<1>4. p \in Finite /\ p * s <= One * One
  BY <1>1, <1>2, OverIsExact
<1>5. b \in Nat /\ s \in Nat
  BY <1>2 DEF Finite
<1>6. s # 0
  <2>1. MaxFloat * 0 = 0 /\ One * One > 0
    BY <1>2
  <2> QED
    BY <1>1, <2>1 DEF Banks!Exceeds
<1> HIDE DEF r, p
<1>7. r \in Nat /\ p \in Nat
  BY <1>3, <1>4 DEF Finite
<1>8. (r * One) * (p * s) <= (a * b) * (One * One)
  <2>1. r * One \in Nat /\ p * s \in Nat /\ a * b \in Nat /\ One * One \in Nat
    BY <1>2, <1>5, <1>7
  <2> QED
    BY <1>3, <1>4, <2>1, ProductsInOrder
<1>9. c \in Finite /\ c * One <= r * p
  <2>1. ASSUME Banks!Exceeds(r * p, One) PROVE FALSE
    <3>1. MaxFloat * One < r * p
      BY <2>1 DEF Banks!Exceeds
    <3>2. ((MaxFloat * s) * (One * One)) < ((a * b) * (One * One))
      <4>1. (MaxFloat * One) * (One * s) < (r * p) * (One * s)
        BY <1>2, <1>5, <1>6, <1>7, <3>1, Scales
      <4>2. /\ (MaxFloat * One) * (One * s) = (MaxFloat * s) * (One * One)
            /\ (r * p) * (One * s) = (r * One) * (p * s)
        BY <1>2, <1>5, <1>7, Regroups
      <4>3. (MaxFloat * s) * (One * One) \in Nat /\ (r * One) * (p * s) \in Nat
            /\ (a * b) * (One * One) \in Nat
        BY <1>2, <1>5, <1>7
      <4> QED
        BY <1>8, <4>1, <4>2, <4>3
    <3>3. MaxFloat * s \in Nat /\ a * b \in Nat /\ One * One \in Nat
      BY <1>2, <1>5
    <3>4. MaxFloat * s < a * b
      BY <3>2, <3>3, Cancels
    <3> QED
      BY <1>1, <3>4 DEF Banks!Exceeds
  <2> QED
    BY <1>3, <1>4, <2>1, TimesIsExact
<1> HIDE DEF c
<1>10. c \in Nat
  BY <1>9 DEF Finite
<1>11. t \in Finite
  <2>1. ASSUME Banks!Exceeds(c * One, a) PROVE FALSE
    <3>1. MaxFloat * a < r * p
      <4>1. MaxFloat * a < c * One
        BY <2>1 DEF Banks!Exceeds
      <4>2. MaxFloat * a \in Nat /\ c * One \in Nat /\ r * p \in Nat
        BY <1>2, <1>7, <1>10
      <4> QED
        BY <1>9, <4>1, <4>2
    <3>2. (MaxFloat * s) * (a * One) < (b * One) * (a * One)
      <4>1. (MaxFloat * a) * (One * s) < (r * p) * (One * s)
        BY <1>2, <1>5, <1>6, <1>7, <3>1, Scales
      <4>2. /\ (MaxFloat * a) * (One * s) = (MaxFloat * s) * (a * One)
            /\ (r * p) * (One * s) = (r * One) * (p * s)
            /\ (a * b) * (One * One) = (b * One) * (a * One)
        BY <1>2, <1>5, <1>7, Regroups
      <4>3. (MaxFloat * s) * (a * One) \in Nat /\ (r * One) * (p * s) \in Nat
            /\ (b * One) * (a * One) \in Nat
        BY <1>2, <1>5, <1>7
      <4> QED
        BY <1>8, <4>1, <4>2, <4>3
    <3>3. MaxFloat * s \in Nat /\ b * One \in Nat /\ a * One \in Nat
      BY <1>2, <1>5
    <3>4. MaxFloat * s < b * One
      BY <3>2, <3>3, Cancels
    <3> QED
      BY <1>1, <3>4 DEF Banks!Exceeds
  <2>2. a > 0
    BY <1>2
  <2> QED
    BY <1>2, <1>9, <2>1, <2>2, OverIsExact
<1>12. Banks!Conversion = {b, p, c, t}
  BY DEF Banks!Conversion, a, b, s, r, p, c
<1> HIDE DEF t
<1>13. Finite \cap Odd = {}
  BY NoNumbers DEF Finite, Odd
<1> QED
  BY <1>2, <1>4, <1>9, <1>11, <1>12, <1>13

LEMMA BodyIsWritten == ServiceInv => BodyUnlessNotANumber
<1> SUFFICES ASSUME ServiceInv, response.status = "ok", ~response.body,
                    ~spoiled, ~Banks!SentNoNumber
             PROVE  Banks!OutOfRange
  BY DEF BodyUnlessNotANumber, Banks!BodyUnlessNotANumber, Banks!Excused
<1>1. Banks!Usable \in Seq(Earned) /\ Banks!Usable # <<>> /\ ~Banks!Encodable
  BY BestWritten
<1>2. CASE Banks!amount = NoAmount
  <2>1. PICK q \in Banks!ToSet(Banks!Usable) : {q.buy, q.sell} \cap Odd # {}
    BY <1>1, <1>2 DEF Banks!Encodable, Banks!Shown, Odd
  <2>2. q \in Earned
    BY <1>1, <2>1 DEF Banks!ToSet
  <2> QED
    BY <2>1, <2>2 DEF Earned, OddQuote
<1>3. CASE Banks!amount # NoAmount
  <2>1. Banks!Conversion \cap Odd # {}
    BY <1>1, <1>3 DEF Banks!Encodable, Banks!Shown, Odd
  <2>2. Banks!amount \in 1 .. MaxFloat
    BY <1>3, ServiceAssumption DEF ServiceInv, InCall, Banks!amount
  <2>3. Banks!Bought \in Finite /\ Banks!Sold \in Finite
    BY <1>1, PricesAreEarned DEF ServiceInv, Floats
  <2> QED
    BY <2>1, <2>2, <2>3, ConversionFits
<1> QED
  BY <1>2, <1>3

LEMMA LongTimeoutDelivers == ServiceInv => LongWriteTimeoutIsEnough
<1> SUFFICES ASSUME ServiceInv,
                    env["WRITE_TIMEOUT"].form \in {"duration", "integer"},
                    Written(env["WRITE_TIMEOUT"]) \in Calls * ClientTimeout + 1 .. Largest,
                    Banks!Answered, Banks!Usable # <<>>
             PROVE  response.status = "ok" /\ response.delivered /\ (response.body \/ Banks!Excused)
  BY DEF LongWriteTimeoutIsEnough, Banks!OneSourceIsEnough
<1>1. phase = "running" /\ response = Banks!Answer
  BY AnswerWritten
<1>2. response.status = "ok" /\ response.delivered = Banks!InTime
  BY <1>1 DEF Banks!Answer
<1>3. response.body \/ Banks!Excused
  BY <1>2, BestWritten, BodyIsWritten DEF BodyUnlessNotANumber, Banks!BodyUnlessNotANumber, Banks!Encodable
<1>4. DurationAsWritten("WRITE_TIMEOUT")
  BY <1>1, ConfigDurations DEF ServiceInv, DurationsAsWritten, Durations
<1>5. env["WRITE_TIMEOUT"] # Blank
  BY DEF Blank
<1>6. waited \in 0 .. Calls * ClientTimeout /\ Calls * ClientTimeout \in Nat
  <2>1. Calls = 1 \/ Calls = 2
    BY DEF Calls
  <2> QED
    BY <2>1, Timeouts DEF ServiceInv, InCall
<1>7. Written(env["WRITE_TIMEOUT"]) <= Largest /\ Written(env["WRITE_TIMEOUT"]) \in Int
  BY <1>6, WordsOfInt64
<1>8. cfg["WRITE_TIMEOUT"] = Written(env["WRITE_TIMEOUT"])
  BY <1>4, <1>5, <1>7 DEF DurationAsWritten
<1>9. waited < cfg["WRITE_TIMEOUT"]
  BY <1>6, <1>7, <1>8
<1> QED
  BY <1>2, <1>3, <1>9 DEF Banks!InTime

------------------------------------------------------------------------------
(* What every run of the service satisfies                                 *)

LEMMA ServiceHolds == ServiceSpec => []ServiceInv
<1>1. ServiceInit => ServiceInv
  BY InitService
<1>2. ServiceInv /\ [ServiceNext]_serviceVars => ServiceInv'
  BY NextService
<1> QED
  BY <1>1, <1>2, PTL DEF ServiceSpec

\* Type correctness of the configuration: a duration that was read is a word,
\* whatever was multiplied by a second (config.Load).
THEOREM TypeCorrect == ServiceSpec => []TypeOK
<1>1. ServiceInv => TypeOK
  BY ConfigTypes DEF ServiceInv
<1> QED
  BY <1>1, ServiceHolds, PTL

\* A process that serves has every duration as it was written, or by default,
\* but for seconds that no duration can hold, and no ticker has an interval on
\* which it panics (config.envDuration, scheduler.NewScheduler).
THEOREM DurationsAreAsWritten == ServiceSpec => []DurationsAsWritten
<1>1. ServiceInv => DurationsAsWritten
  BY ConfigDurations DEF ServiceInv
<1> QED
  BY <1>1, ServiceHolds, PTL

\* Each bank of each source that is named is asked once per request, however
\* often and in whatever letters a source is named (config.envRateSources,
\* bankclient.NewClients).
THEOREM NamedBanksAreAskedOnce == ServiceSpec => []EveryNamedBankOnce
<1>1. ServiceInv => EveryNamedBankOnce
  BY ConfigBanks DEF ServiceInv
<1> QED
  BY <1>1, ServiceHolds, PTL

\* In whatever order the quotes arrive, the selection of fetchFreshRates is
\* the best of them, quotes that are not a number aside.
THEOREM SelectionIsBest == ServiceSpec => []BestIsBest
<1>1. ServiceInv => BestIsBest
  BY AnswerIsBest
<1> QED
  BY <1>1, ServiceHolds, PTL

\* A status 200 without a body needs a bank that sent NaN or Inf for a price,
\* to either call, or an amount and prices whose conversion is beyond float64
\* by exact arithmetic (cbrValute.rate, convertAmount, writeJSON).
THEOREM BodiesAreWritten == ServiceSpec => []BodyUnlessNotANumber
<1>1. ServiceInv => BodyUnlessNotANumber
  BY BodyIsWritten
<1> QED
  BY <1>1, ServiceHolds, PTL

\* One source per call that returned a rate is enough, for an answer in time
\* and with a body, for who writes a WRITE_TIMEOUT longer than the timeouts of
\* the clients in all the calls the request takes (main, convertAmount,
\* http.Server.WriteTimeout).
THEOREM LongWriteTimeoutsHelp == ServiceSpec => []LongWriteTimeoutIsEnough
<1>1. ServiceInv => LongWriteTimeoutIsEnough
  BY LongTimeoutDelivers
<1> QED
  BY <1>1, ServiceHolds, PTL

===============================================================================
