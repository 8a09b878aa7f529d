------------------------------ MODULE RateLimiter ------------------------------
(***************************************************************************)
(* internal/ratelimit/limiter.go: one counting window per client address.  *)
(* Allow reads the time before it takes the mutex, so a call that has to    *)
(* wait for the lock decides with an old time, after calls that read a     *)
(* later one.  Under the lock it drops every closed window and then counts *)
(* the request; that critical section is one action.                       *)
(***************************************************************************)
EXTENDS Integers, FiniteSetsExt

CONSTANTS
    Handlers,   \* goroutines that call Allow
    Keys,       \* client addresses
    Limit,      \* l.limit; New replaces values below 1
    Window,
    MaxStall,   \* bound on the time a call waits for the mutex
    MaxTime,    \* bound on the clock, for model checking
    None        \* no window

Times == 0 .. MaxTime
WindowEntry == [count : 1 .. Limit, resetAt : Int]

ASSUME LimiterAssumption ==
    /\ Limit \in Nat \ {0}
    /\ Window \in Nat \ {0}
    /\ MaxStall \in Nat
    /\ MaxTime \in Nat
    /\ None \notin [count : Int, resetAt : Int]

VARIABLES
    clock,
    clients,   \* [Keys -> window or None], l.clients
    call,      \* [Handlers -> state of its Allow]
    key,       \* [Handlers -> argument of Allow]
    now,       \* [Handlers -> the local variable now of Allow]
    admitted,  \* [Keys -> [Times -> requests admitted then]] (history)
    opened     \* [Keys -> the start times of its windows] (history)

vars == <<clock, clients, call, key, now, admitted, opened>>

Init ==
    /\ clock = 0
    /\ clients = [k \in Keys |-> None]
    /\ call = [h \in Handlers |-> "idle"]
    /\ key \in [Handlers -> Keys]
    /\ now = [h \in Handlers |-> 0]
    /\ admitted = [k \in Keys |-> [t \in Times |-> 0]]
    /\ opened = [k \in Keys |-> {}]

\* now := l.now()
AllowBegin(h, k) ==
    /\ call[h] # "locking"
    /\ call' = [call EXCEPT ![h] = "locking"]
    /\ key' = [key EXCEPT ![h] = k]
    /\ now' = [now EXCEPT ![h] = clock]
    /\ UNCHANGED <<clock, clients, admitted, opened>>

\* Mutants: a window that lasts until now.After(resetAt); one that ends at
\* the full minute; a count compared with > limit; the windows of all
\* clients dropped with the first closed one.
ClosedAfter(e, t) == e # None /\ t > e.resetAt
FullMinute(t) == ((t \div Window) + 1) * Window
OverLimit(e) == e.count > Limit
AllDropped(t) ==
    IF \E k \in Keys : clients[k] # None /\ t >= clients[k].resetAt
    THEN [k \in Keys |-> None] ELSE clients

\* !resetAt.IsZero() && !now.Before(resetAt)
Closed(e, t) == e # None /\ t >= e.resetAt

\* now.Add(Window)
ResetAt(t) == t + Window

\* current.count >= l.limit
Full(e) == e.count >= Limit

\* deleteExpiredLocked
Unexpired(t) == [k \in Keys |-> IF Closed(clients[k], t) THEN None ELSE clients[k]]

Log(k) == admitted' = [admitted EXCEPT ![k][clock] = @ + 1]

\* The key has no window, or it was closed and has just been dropped.
Open(h) ==
    /\ call[h] = "locking"
    /\ Unexpired(now[h])[key[h]] = None
    /\ clients' = [Unexpired(now[h]) EXCEPT
                       ![key[h]] = [count |-> 1, resetAt |-> ResetAt(now[h])]]
    /\ opened' = [opened EXCEPT ![key[h]] = @ \cup {now[h]}]
    /\ call' = [call EXCEPT ![h] = "allowed"]
    /\ Log(key[h])
    /\ UNCHANGED <<clock, key, now>>

Count(h) ==
    /\ call[h] = "locking"
    /\ Unexpired(now[h])[key[h]] # None
    /\ ~Full(clients[key[h]])
    /\ clients' = [Unexpired(now[h]) EXCEPT ![key[h]].count = @ + 1]
    /\ call' = [call EXCEPT ![h] = "allowed"]
    /\ Log(key[h])
    /\ UNCHANGED <<clock, key, now, opened>>

Deny(h) ==
    /\ call[h] = "locking"
    /\ Unexpired(now[h])[key[h]] # None
    /\ Full(clients[key[h]])
    /\ clients' = Unexpired(now[h])
    /\ call' = [call EXCEPT ![h] = "denied"]
    /\ UNCHANGED <<clock, key, now, admitted, opened>>

Tick ==
    /\ clock < MaxTime
    /\ \A h \in Handlers : call[h] = "locking" => clock - now[h] < MaxStall
    /\ clock' = clock + 1
    /\ UNCHANGED <<clients, call, key, now, admitted, opened>>

Allow(h) ==
    \/ \E k \in Keys : AllowBegin(h, k)
    \/ Open(h)
    \/ Count(h)
    \/ Deny(h)

Next == Tick \/ \E h \in Handlers : Allow(h)

Spec == Init /\ [][Next]_vars

------------------------------------------------------------------------------
(* A window never counts past the limit.                                   *)
TypeOK ==
    /\ clock \in Times
    /\ clients \in [Keys -> WindowEntry \cup {None}]
    /\ call \in [Handlers -> {"idle", "locking", "allowed", "denied"}]
    /\ key \in [Handlers -> Keys]
    /\ now \in [Handlers -> Times]
    /\ admitted \in [Keys -> [Times -> Nat]]
    /\ opened \in [Keys -> SUBSET Times]

\* The requests of k that were admitted from time t until before time u.
AdmittedIn(k, t, u) ==
    MapThenSumSet(LAMBDA x : admitted[k][x], {x \in Times : t <= x /\ x < u})

\* No stretch of one Window admits more than one limit for each window of
\* the client that it can have touched: a sweep, a boundary or a waiting call
\* never gives requests away that no window has counted.  With OverlapIsWait
\* these are two windows when no call waits, the one that ends and the next.
AdmissionsFitWindows ==
    \A k \in Keys, t \in Times :
        AdmittedIn(k, t, t + Window) <=
            Limit * Cardinality({s \in opened[k] : t - Window - MaxStall < s /\ s < t + Window})

\* A request is only denied when the limit was really used: Limit requests
\* of the same client were admitted less than a Window ago (plus the time a
\* call may have waited).  So the Retry-After of the 429, one Window, is
\* enough: who waits that long is only denied again because of requests
\* admitted in the meantime.
DenialJustified ==
    [][\A h \in Handlers :
           call[h] = "locking" /\ call'[h] = "denied" =>
               AdmittedIn(key[h], clock - Window - MaxStall + 1, clock + 1) >= Limit]_vars

\* Serving one client never gives another one a fresh window: a window is
\* dropped by whichever call comes along, but only once it is over.
DropsOnlyClosed ==
    [][\A k \in Keys :
           clients[k] # None /\ clients'[k] = None => clients[k].resetAt <= clock]_vars

\* "Window is the fixed counting window": two windows of one client overlap
\* by no more than the time a call may wait for the mutex, so not at all when
\* the calls do not wait.
OverlapIsWait ==
    \A k \in Keys : \A s, t \in opened[k] : s < t => s + Window - MaxStall <= t
==============================================================================
