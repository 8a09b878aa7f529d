----------------------------- MODULE ServerProofs -----------------------------
(***************************************************************************)
(* Proofs about Server for every set of requests and every list of         *)
(* currencies.                                                             *)
(***************************************************************************)
EXTENDS Server, FoldLemmas, SequenceTheorems, TLAPS

------------------------------------------------------------------------------
(* The currencies of the scheduler                                         *)

\* One turn of the loop in NewScheduler.
Add(seen, code) == IF code \in ToSet(seen) THEN seen ELSE Append(seen, code)

\* The fold is the loop: what it holds after the n-th entry comes from what it
\* held before it.
LEMMA UniqueIsALoop ==
    ASSUME NEW C, NEW list \in Seq(C)
    PROVE  \E u : /\ u[0] = <<>>
                  /\ \A n \in 1 .. Len(list) : u[n] = Add(u[n - 1], list[n])
                  /\ Sched!Unique(list) = u[Len(list)]
<1> DEFINE D == 1 .. Len(list)
           pick == [U \in SUBSET D |-> Max(U)]
           step == [i \in D |-> [v \in Seq(C) |-> Add(v, list[i])]]
           Eq(f) == f = [U \in SUBSET D |->
                           IF U = {} THEN <<>> ELSE Add(f[U \ {Max(U)}], list[Max(U)])]
           iter == CHOOSE f : Eq(f)
<1>1. Len(list) \in Nat /\ DOMAIN list = D
  BY LenProperties
<1>2. IsFiniteSet(D)
  BY <1>1, FS_Interval
<1>3. ASSUME NEW U \in SUBSET D, U # {} PROVE Max(U) \in U
  <2>1. U \in SUBSET Int
    OBVIOUS
  <2>2. IsFiniteSet(U)
    <3> HIDE DEF D
    <3> QED
      BY <1>2, FS_Subset
  <2> QED
    BY <1>3, <2>1, <2>2, MaxExists
<1>4. \E f : Eq(f)
  <2>1. \A U \in SUBSET D : U # {} => pick[U] \in U
    BY <1>3
  <2>2. \A i \in D, v \in Seq(C) : step[i][v] \in Seq(C)
    BY DEF Add
  <2>3. <<>> \in Seq(C)
    OBVIOUS
  <2> HIDE DEF pick, step
  <2>4. PICK f : IsFold(f, D, Seq(C), <<>>, pick, step)
    <3> HIDE DEF D
    <3>1. Foldable(D, Seq(C), <<>>, pick, step)
      BY <1>2, <2>1, <2>2, <2>3 DEF Foldable
    <3> QED
      BY <3>1, FoldExists
  <2>5. ASSUME NEW U \in SUBSET D, U # {}
        PROVE  f[U] = Add(f[U \ {Max(U)}], list[Max(U)])
    <3>1. pick[U] = Max(U) /\ Max(U) \in D
      BY <1>3, <2>5 DEF pick
    <3>2. f[U \ {Max(U)}] \in Seq(C)
      BY <2>4 DEF IsFold
    <3>3. f[U] = step[Max(U)][f[U \ {Max(U)}]]
      BY <2>4, <2>5, <3>1 DEF IsFold
    <3> QED
      BY <3>1, <3>2, <3>3 DEF step
  <2>6. f[{}] = <<>>
    BY <2>4 DEF IsFold
  <2>7. Eq([U \in SUBSET D |-> f[U]])
    BY <2>5, <2>6
  <2> QED
    BY <2>7
<1>5. Eq(iter)
  <2> HIDE DEF Eq
  <2> QED
    BY <1>4, Zenon
<1>6. Sched!Unique(list) = iter[D]
  BY <1>1 DEF Sched!Unique, Sched!FoldLeft, Sched!MapThenFoldSet, Sched!ToSet, ToSet, Sched!Max, Max, Add
<1> HIDE DEF iter
<1> DEFINE u == [n \in 0 .. Len(list) |-> iter[1 .. n]]
<1>7. u[0] = <<>>
  BY <1>1, <1>5
<1>8. ASSUME NEW n \in 1 .. Len(list) PROVE u[n] = Add(u[n - 1], list[n])
  <2>1. /\ n \in Nat \ {0}
        /\ 1 .. n \in SUBSET D
        /\ 1 .. n # {}
        /\ (1 .. n) \ {n} = 1 .. (n - 1)
    <3>1. n \in Nat \ {0} /\ n <= Len(list)
      BY <1>1
    <3>2. 1 .. n \in SUBSET D
      BY <1>1, <3>1
    <3>3. n \in 1 .. n
      BY <3>1
    <3>4. \A x : x \in (1 .. n) \ {n} <=> x \in 1 .. (n - 1)
      BY <3>1
    <3> QED
      BY <3>1, <3>2, <3>3, <3>4
  <2>2. Max(1 .. n) = n
    <3>1. IsFiniteSet(1 .. n) /\ 1 .. n \in SUBSET Int
      BY FS_Interval
    <3>2. Max(1 .. n) \in 1 .. n /\ \A y \in 1 .. n : Max(1 .. n) >= y
      BY <2>1, <3>1, MaxExists
    <3> QED
      BY <3>2
  <2>3. iter[1 .. n] = Add(iter[(1 .. n) \ {Max(1 .. n)}], list[Max(1 .. n)])
    BY <1>5, <2>1
  <2>4. u[n] = iter[1 .. n] /\ u[n - 1] = iter[1 .. (n - 1)]
    BY <1>1
  <2> QED
    BY <2>1, <2>2, <2>3, <2>4
<1>9. u[Len(list)] = iter[D]
  BY <1>1
<1> QED
  BY <1>6, <1>7, <1>8, <1>9

\* The loop keeps every code of the list, once.
LEMMA UniqueListsAll ==
    ASSUME NEW C, NEW list \in Seq(C)
    PROVE  /\ Sched!Unique(list) \in Seq(C)
           /\ ToSet(Sched!Unique(list)) = ToSet(list)
           /\ \A i, j \in 1 .. Len(Sched!Unique(list)) :
                  Sched!Unique(list)[i] = Sched!Unique(list)[j] => i = j
<1>1. Len(list) \in Nat /\ DOMAIN list = 1 .. Len(list) /\ \A n \in 1 .. Len(list) : list[n] \in C
  BY LenProperties
<1>2. PICK u : /\ u[0] = <<>>
               /\ \A n \in 1 .. Len(list) : u[n] = Add(u[n - 1], list[n])
               /\ Sched!Unique(list) = u[Len(list)]
  BY UniqueIsALoop
<1> DEFINE Good(n) == /\ u[n] \in Seq(C)
                      /\ ToSet(u[n]) = {list[i] : i \in 1 .. n}
                      /\ \A i, j \in 1 .. Len(u[n]) : u[n][i] = u[n][j] => i = j
           T == {n \in Nat : n <= Len(list) => Good(n)}
<1>3. 0 \in T
  <2>1. ToSet(u[0]) = {} /\ Len(u[0]) = 0 /\ u[0] \in Seq(C)
    BY <1>2 DEF ToSet
  <2>2. 1 .. 0 = {}
    OBVIOUS
  <2>3. Good(0)
    BY <2>1, <2>2
  <2> QED
    BY <2>3
<1>4. ASSUME NEW n \in Nat, n \in T PROVE n + 1 \in T
  <2> SUFFICES ASSUME n + 1 <= Len(list) PROVE Good(n + 1)
    OBVIOUS
  <2> DEFINE code == list[n + 1]
             v == u[n]
             w == u[n + 1]
  <2>1. n + 1 \in 1 .. Len(list) /\ n <= Len(list)
    BY <1>1
  <2>2. Good(n) /\ w = Add(v, code) /\ code \in C
    <3>1. (n + 1) - 1 = n
      OBVIOUS
    <3> QED
      BY <1>1, <1>2, <1>4, <2>1, <3>1
  <2>3. {list[i] : i \in 1 .. n + 1} = {list[i] : i \in 1 .. n} \cup {code}
    <3>1. 1 .. n + 1 = (1 .. n) \cup {n + 1}
      OBVIOUS
    <3> QED
      BY <3>1
  <2>4. CASE code \in ToSet(v)
    BY <2>2, <2>3, <2>4 DEF Add
  <2>5. CASE code \notin ToSet(v)
    <3>1. /\ w = Append(v, code) /\ w \in Seq(C) /\ Len(w) = Len(v) + 1
          /\ \A i \in 1 .. Len(v) : w[i] = v[i]
          /\ w[Len(v) + 1] = code
      BY <2>2, <2>5 DEF Add
    <3>2. Len(v) \in Nat /\ DOMAIN v = 1 .. Len(v) /\ DOMAIN w = 1 .. Len(v) + 1
      BY <2>2, <3>1, LenProperties
    <3> HIDE DEF v, w, code
    <3>3. ToSet(w) = ToSet(v) \cup {code}
      BY <3>1, <3>2 DEF ToSet
    <3>4. \A i \in 1 .. Len(v) : v[i] # code
      BY <2>5, <3>2 DEF ToSet
    <3>5. \A i, j \in 1 .. Len(w) : w[i] = w[j] => i = j
      <4>1. \A i \in 1 .. Len(w) : i \in 1 .. Len(v) \/ i = Len(v) + 1
        BY <3>1, <3>2
      <4>2. \A i, j \in 1 .. Len(v) : v[i] = v[j] => i = j
        BY <2>2 DEF v
      <4> QED
        BY <3>1, <3>4, <4>1, <4>2
    <3> QED
      BY <2>2, <2>3, <3>1, <3>3, <3>5 DEF v, w
  <2> QED
    BY <2>4, <2>5
<1>5. \A n \in Nat : n \in T
  <2> HIDE DEF T
  <2> QED
    BY <1>3, <1>4, NumberInduction
<1>6. Good(Len(list))
  <2> HIDE DEF Good
  <2>1. \A n \in Nat : n <= Len(list) => Good(n)
    BY <1>5
  <2> QED
    BY <1>1, <2>1
<1> QED
  BY <1>1, <1>2, <1>6 DEF ToSet

------------------------------------------------------------------------------
(* The inductive invariant                                                 *)

Listed == Len(Sched!currencies)

\* What has been asked for in a round, by the index of the loop.
Rounds ==
    /\ pc = "fetchFresh" => pos <= Listed
    /\ pc \in {"refreshAll", "fetchFresh"} =>
           \A i \in 1 .. Listed :
               calls[Sched!currencies[i]] =
                   IF i < pos \/ (i = pos /\ pc = "fetchFresh") THEN 1 ELSE 0
    /\ pc = "select" /\ ~canceled => \A i \in 1 .. Listed : calls[Sched!currencies[i]] = 1

\* How far the shutdown is, against what is still running.
Stopping ==
    /\ main \in {"opening", "setup", "running", "shutdown"} => ~aborted
    /\ main \in {"shutdown", "join", "closing", "exited"} => listener = "closed"
    /\ main \in {"join", "closing"} /\ ~expired => Idle /\ ~aborted
    /\ main = "closing" /\ ~expired => pc = "stopped"
    /\ store = "closed" => main \in {"closing", "exited", "killed"}

\* A tick that waits in the channel came after the last round began.
TickIsNew == began <= fired /\ (tick => began < fired)

IInv == TypeOK /\ TickIsNew /\ Rounds /\ Stopping /\ CleanShutdown

\* The scheduler's codes are those of its configuration, each once.
LEMMA CurrenciesListAll ==
    /\ Sched!ToSet(Configured) = ToSet(Configured)
    /\ Listed \in Nat
    /\ \A i \in 1 .. Listed : Sched!currencies[i] \in ToSet(Configured)
    /\ \A i, j \in 1 .. Listed : Sched!currencies[i] = Sched!currencies[j] => i = j
    /\ \A code \in ToSet(Configured) : \E i \in 1 .. Listed : Sched!currencies[i] = code
<1>1. Sched!ToSet(Configured) = ToSet(Configured)
  BY DEF Sched!ToSet, ToSet
<1>2. /\ Sched!currencies \in Seq(ToSet(Configured))
      /\ ToSet(Sched!currencies) = ToSet(Configured)
      /\ \A i, j \in 1 .. Listed : Sched!currencies[i] = Sched!currencies[j] => i = j
  BY SchedulerAssumption, UniqueListsAll DEF Sched!currencies, Listed
<1>3. Listed \in Nat /\ DOMAIN Sched!currencies = 1 .. Listed
  BY <1>2, LenProperties DEF Listed
<1> QED
  BY <1>1, <1>2, <1>3 DEF ToSet

LEMMA InitIInv == Init => IInv
<1> SUFFICES ASSUME Init PROVE IInv
  OBVIOUS
<1> USE SchedulerAssumption DEF Init, Sched!Init
<1>1. calls = [code \in ToSet(Configured) |-> 0]
  <2>1. calls = [code \in Sched!ToSet(Configured) |-> 0]
    BY DEF Sched!NoCalls
  <2>2. Sched!ToSet(Configured) = ToSet(Configured)
    BY CurrenciesListAll
  <2> QED
    BY <2>1, <2>2
<1>2. TypeOK
  <2>1. Sched!ToSet(Configured) = ToSet(Configured) /\ Listed \in Nat
    BY CurrenciesListAll
  <2>2. calls \in [Sched!ToSet(Configured) -> Nat]
    BY <1>1, <2>1
  <2>3. pos \in 1 .. Len(Sched!currencies) + 1
    BY <2>1 DEF Listed
  <2>4. fired \in 0 .. MaxTicks /\ rounds \in Nat /\ began \in Nat
    OBVIOUS
  <2>5. Sched!TypeOK
    BY <2>2, <2>3, <2>4 DEF Sched!TypeOK
  <2> QED
    BY <2>5 DEF TypeOK
<1>3. Rounds
  BY <1>1, CurrenciesListAll DEF Rounds
<1>4. TickIsNew /\ Stopping /\ CleanShutdown
  BY DEF TickIsNew, Stopping, CleanShutdown
<1> QED
  BY <1>2, <1>3, <1>4 DEF IInv

\* The part of the invariant that is about the scheduler.
SchedInv == Sched!TypeOK /\ TickIsNew /\ Rounds

LEMMA SchedStep ==
    ASSUME SchedInv, Sched!Next
    PROVE  SchedInv'
<1> DEFINE L == Listed
           code(i) == Sched!currencies[i]
<1>1. L \in Nat /\ Sched!ToSet(Configured) = ToSet(Configured)
  BY CurrenciesListAll
<1>2. \A i \in 1 .. L : code(i) \in ToSet(Configured)
  BY CurrenciesListAll
<1>3. \A i, j \in 1 .. L : code(i) = code(j) => i = j
  BY CurrenciesListAll
<1>4. L = Len(Sched!currencies)
  BY DEF Listed
<1> USE DEF SchedInv, Sched!TypeOK, TickIsNew
<1>5. CASE Sched!Refresh
  <2>1. /\ pc = "refreshAll" /\ pos \in 1 .. L /\ pc' = "fetchFresh"
        /\ calls' = [calls EXCEPT ![code(pos)] = @ + 1]
        /\ UNCHANGED <<canceled, pos, ticking, tick, fired, rounds, began>>
    BY <1>1, <1>4, <1>5 DEF Sched!Refresh
  <2>2. calls[code(pos)] = 0 /\ calls' \in [Sched!ToSet(Configured) -> Nat]
    BY <1>1, <1>2, <2>1 DEF Rounds
  <2>3. ASSUME NEW i \in 1 .. L
        PROVE  calls'[code(i)] = IF i < pos' \/ (i = pos' /\ pc' = "fetchFresh") THEN 1 ELSE 0
    <3>1. calls[code(i)] = IF i < pos THEN 1 ELSE 0
      BY <2>1 DEF Rounds
    <3>2. CASE i = pos
      BY <1>1, <1>2, <2>1, <2>2, <3>2
    <3>3. CASE i # pos
      <4>1. calls'[code(i)] = calls[code(i)]
        BY <1>1, <1>2, <1>3, <2>1, <3>3
      <4> QED
        BY <2>1, <3>1, <3>3, <4>1
    <3> QED
      BY <3>2, <3>3
  <2>4. Rounds'
    BY <1>1, <2>1, <2>3 DEF Rounds, Listed
  <2> QED
    BY <1>4, <2>1, <2>2, <2>4
<1>6. CASE \E err \in BOOLEAN : Sched!Refreshed(err)
  <2>1. /\ pc = "fetchFresh" /\ pc' = "refreshAll" /\ pos' = pos + 1
        /\ UNCHANGED <<canceled, ticking, tick, fired, rounds, began, calls>>
    BY <1>6 DEF Sched!Refreshed, Sched!After
  <2>2. pos \in 1 .. L /\ pos' \in 1 .. L + 1
    BY <1>1, <1>4, <2>1 DEF Rounds
  <2>3. ASSUME NEW i \in 1 .. L PROVE calls'[code(i)] = IF i < pos' THEN 1 ELSE 0
    BY <1>1, <2>1, <2>2 DEF Rounds
  <2>4. Rounds'
    BY <2>1, <2>3 DEF Rounds, Listed
  <2> QED
    BY <1>4, <2>1, <2>2, <2>4
<1>7. CASE Sched!RoundOver
  <2>1. /\ pc = "refreshAll" /\ (pos > L \/ canceled) /\ pc' = "select" /\ ticking' = TRUE
        /\ UNCHANGED <<canceled, pos, tick, fired, rounds, began, calls>>
    BY <1>4, <1>7 DEF Sched!RoundOver
  <2>2. pos > L => \A i \in 1 .. L : calls[code(i)] = 1
    BY <1>1, <1>4, <2>1 DEF Rounds
  <2>3. Rounds'
    BY <2>1, <2>2 DEF Rounds, Listed
  <2> QED
    BY <2>1, <2>3
<1>8. CASE Sched!Ticked
  <2>1. /\ pc' = "refreshAll" /\ pos' = 1 /\ tick /\ tick' = FALSE /\ rounds' = rounds + 1
        /\ began' = fired
        /\ calls' = [c \in Sched!ToSet(Configured) |-> 0]
        /\ UNCHANGED <<canceled, ticking, fired>>
    BY <1>8 DEF Sched!Ticked, Sched!NoCalls
  <2>2. \A i \in 1 .. L : calls'[code(i)] = 0
    BY <1>1, <1>2, <2>1
  <2>3. Rounds'
    BY <2>1, <2>2 DEF Rounds, Listed
  <2>4. calls' \in [Sched!ToSet(Configured) -> Nat] /\ pos' \in 1 .. Len(Sched!currencies) + 1
    BY <1>1, <1>4, <2>1
  <2>5. rounds' \in Nat /\ began' \in Nat /\ TickIsNew'
    BY <2>1
  <2> QED
    BY <2>1, <2>3, <2>4, <2>5
<1>9. CASE Sched!Stop
  BY <1>9 DEF Sched!Stop, Rounds
<1>10. CASE Sched!Fire
  BY <1>10, SchedulerAssumption DEF Sched!Fire, Rounds
<1>11. CASE Sched!Cancel
  BY <1>11 DEF Sched!Cancel, Rounds
<1> QED
  BY <1>5, <1>6, <1>7, <1>8, <1>9, <1>10, <1>11 DEF Sched!Next, Sched!Steps, Sched!Run

\* Every step of the process is one of the scheduler, or leaves it alone.
LEMMA StepOfScheduler ==
    ASSUME TypeOK, [Next]_vars
    PROVE  Sched!Next \/ UNCHANGED schedVars
<1>1. CASE SchedulerStep \/ Signal
  BY <1>1 DEF SchedulerStep, Signal, Sched!Next
<1>2. CASE ListenFails
  <2>1. canceled \in BOOLEAN
    BY DEF TypeOK, Sched!TypeOK
  <2> QED
    BY <1>2, <2>1 DEF ListenFails, Sched!Next, Sched!Cancel, schedVars
<1>3. CASE SecondSignal \/ Listen \/ (\E h \in Handlers : Accept(h) \/ Respond(h)) \/ Expire
           \/ MainStep \/ UNCHANGED vars
  BY <1>3 DEF vars, SecondSignal, Listen, Accept, Respond, Expire, MainStep, OpenStore, StartFails,
              Start, BeginShutdown, ShutdownDone, ShutdownFails, Join, CloseStore, Exit
<1> QED
  BY <1>1, <1>2, <1>3 DEF Next

LEMMA SchedInvStep == IInv /\ [Next]_vars => SchedInv'
<1> SUFFICES ASSUME IInv, [Next]_vars PROVE SchedInv'
  OBVIOUS
<1>1. SchedInv /\ TypeOK
  BY DEF IInv, TypeOK, SchedInv
<1>2. CASE UNCHANGED schedVars
  BY <1>1, <1>2
     DEF schedVars, SchedInv, Sched!TypeOK, TickIsNew, Rounds, Listed
<1> QED
  BY <1>1, <1>2, SchedStep, StepOfScheduler

\* The scheduler's end is final.
LEMMA StoppedStays ==
    ASSUME TypeOK, [Next]_vars, pc = "stopped" PROVE pc' = "stopped"
BY StepOfScheduler
   DEF schedVars, Sched!Next, Sched!Steps, Sched!Run, Sched!Refresh, Sched!Refreshed,
       Sched!RoundOver, Sched!Ticked, Sched!Stop, Sched!Fire, Sched!Cancel

\* The type of main's own state, and how far the shutdown is.
ServerInv == TypeOK /\ Stopping /\ CleanShutdown

LEMMA ServerStep == IInv /\ [Next]_vars => ServerInv'
<1> SUFFICES ASSUME IInv, [Next]_vars PROVE ServerInv'
  OBVIOUS
<1>0. Sched!TypeOK' /\ (pc = "stopped" => pc' = "stopped")
  BY SchedInvStep, StoppedStays DEF SchedInv, IInv
<1> USE DEF IInv, TypeOK, Stopping, CleanShutdown, Idle, Started, ServerInv
<1>1. CASE SchedulerStep \/ Signal \/ UNCHANGED vars
  BY <1>0, <1>1 DEF SchedulerStep, Signal, serverVars, vars
<1>2. CASE SecondSignal \/ Listen
  BY <1>0, <1>2 DEF SecondSignal, Listen
<1>3. CASE ListenFails
  BY <1>0, <1>3 DEF ListenFails
<1>4. ASSUME NEW h \in Handlers, Accept(h) PROVE ServerInv'
  BY <1>0, <1>4 DEF Accept
<1>5. ASSUME NEW h \in Handlers, Respond(h) PROVE ServerInv'
  BY <1>0, <1>5 DEF Respond
<1>6. CASE Expire
  BY <1>0, <1>6 DEF Expire
<1>7. CASE OpenStore \/ StartFails \/ Start
  BY <1>0, <1>7 DEF OpenStore, StartFails, Start
<1>8. CASE BeginShutdown
  BY <1>0, <1>8 DEF BeginShutdown
<1>9. CASE ShutdownDone \/ ShutdownFails
  <2>1. CASE ShutdownDone
    BY <1>0, <2>1 DEF ShutdownDone
  <2>2. CASE ShutdownFails
    BY <1>0, <2>2 DEF ShutdownFails, DeadlineOver
  <2> QED
    BY <1>9, <2>1, <2>2
<1>10. CASE Join
  BY <1>0, <1>10 DEF Join, Joined
<1>11. CASE CloseStore \/ Exit
  BY <1>0, <1>11 DEF CloseStore, Exit
<1> QED
  BY <1>1, <1>2, <1>3, <1>4, <1>5, <1>6, <1>7, <1>8, <1>9, <1>10, <1>11 DEF Next, MainStep

\* The inductive invariant holds in every reachable state.
THEOREM IInvHolds == Spec => []IInv
<1>1. IInv /\ [Next]_vars => IInv'
  BY SchedInvStep, ServerStep DEF IInv, SchedInv, ServerInv
<1> QED
  BY <1>1, InitIInv, PTL DEF Spec

\* Type correctness of the process and its scheduler.
THEOREM TypeCorrect == Spec => []TypeOK
<1>1. IInv => TypeOK
  BY DEF IInv
<1> QED
  BY <1>1, IInvHolds, PTL

\* When the store is closed within the timeout, no request and no refresh is
\* left that could meet it, for any number of requests.
THEOREM ShutdownIsClean == Spec => []CleanShutdown
<1>1. IInv => CleanShutdown
  BY DEF IInv
<1> QED
  BY <1>1, IInvHolds, PTL

\* A full round asks for every configured currency exactly once, for any
\* configured list, however often it repeats a code.
THEOREM RoundsAreComplete == Spec => []RoundIsComplete
<1>1. IInv => RoundIsComplete
  <2> SUFFICES ASSUME IInv, pc = "select", ~canceled, NEW code \in ToSet(Configured)
               PROVE  calls[code] = 1
    BY CurrenciesListAll DEF RoundIsComplete, Sched!RoundIsComplete
  <2>1. \A i \in 1 .. Listed : calls[Sched!currencies[i]] = 1
    BY DEF IInv, Rounds
  <2>2. PICK i \in 1 .. Listed : Sched!currencies[i] = code
    BY CurrenciesListAll
  <2> QED
    BY <2>1, <2>2
<1> QED
  BY <1>1, IInvHolds, PTL

\* Between the beginnings of two rounds the interval ends at least once,
\* however many ticks a long round has missed and whatever fails in it: the
\* channel holds one tick, so the scheduler never catches up in a burst.
THEOREM RoundsWaitForTicks == Spec => RoundsArePaced
<1>1. IInv /\ [Next]_vars => [rounds' # rounds => fired > began]_(Sched!vars)
  <2> SUFFICES ASSUME IInv, [Next]_vars, rounds' # rounds PROVE fired > began
    BY DEF Sched!vars
  <2>1. TypeOK /\ TickIsNew /\ fired \in Int /\ began \in Int
    BY DEF IInv, TypeOK, Sched!TypeOK
  <2>2. Sched!Next
    BY <2>1, StepOfScheduler DEF schedVars
  <2>3. Sched!Ticked
    BY <2>2
       DEF Sched!Next, Sched!Steps, Sched!Run, Sched!Refresh, Sched!Refreshed,
           Sched!RoundOver, Sched!Stop, Sched!Fire, Sched!Cancel
  <2> QED
    BY <2>1, <2>3 DEF Sched!Ticked, TickIsNew
<1> QED
  BY <1>1, IInvHolds, PTL DEF Spec, RoundsArePaced, Sched!RoundsArePaced
==============================================================================
