------------------------------ MODULE RateCache ------------------------------
(***************************************************************************)
(* What the aggregator relies on when it holds a rateCache                 *)
(* (internal/service/aggregator.go): a map of results that answers a Get   *)
(* at one instant between its call and its return, never hides an entry    *)
(* that is still live, and drops an entry only when its time is over.      *)
(* TTLCache is the locked map that implements it.                          *)
(***************************************************************************)
EXTENDS Integers

CONSTANTS
    Callers,     \* goroutines that call Get
    Currencies,  \* normalised currency codes
    Results,     \* the RateResult values stored
    TTL,         \* CACHE_TTL; not positive when the cache is disabled
    MaxTime,     \* bound on the clock, for model checking
    None,        \* no entry, no call, no reply
    Miss         \* the reply (RateResult{}, false)

Entry == [value : Results, expiresAt : Int]
Call == [currency : Currencies, at : Nat]

VARIABLES
    clock,    \* the wall clock, read by both Get and Set
    entries,  \* [Currencies -> entry or None]
    asked,    \* [Callers -> the Get in progress and the time it was called]
    reply     \* [Callers -> what its last Get answered]

vars == <<clock, entries, asked, reply>>

\* An entry is live at t as long as t is strictly before expiresAt.
LiveAt(e, t) == e # None /\ t < e.expiresAt

Init ==
    /\ clock = 0
    /\ entries = [k \in Currencies |-> None]
    /\ asked = [p \in Callers |-> None]
    /\ reply = [p \in Callers |-> None]

Ask(p, k) ==
    /\ asked[p] = None
    /\ asked' = [asked EXCEPT ![p] = [currency |-> k, at |-> clock]]
    /\ reply' = [reply EXCEPT ![p] = None]
    /\ UNCHANGED <<clock, entries>>

\* A hit is the entry of that instant, live when the Get was called.
AnswerHit(p) ==
    /\ asked[p] # None
    /\ LiveAt(entries[asked[p].currency], asked[p].at)
    /\ asked' = [asked EXCEPT ![p] = None]
    /\ reply' = [reply EXCEPT ![p] = entries[asked[p].currency].value]
    /\ UNCHANGED <<clock, entries>>

\* A miss is only allowed when nothing live is stored at that instant.
AnswerMiss(p) ==
    /\ asked[p] # None
    /\ ~LiveAt(entries[asked[p].currency], clock)
    /\ asked' = [asked EXCEPT ![p] = None]
    /\ reply' = [reply EXCEPT ![p] = Miss]
    /\ UNCHANGED <<clock, entries>>

Put(k, v) ==
    /\ entries' = IF TTL > 0
                  THEN [entries EXCEPT ![k] = [value |-> v, expiresAt |-> clock + TTL]]
                  ELSE entries
    /\ UNCHANGED <<clock, asked, reply>>

Forget(k) ==
    /\ entries[k] # None
    /\ ~LiveAt(entries[k], clock)
    /\ entries' = [entries EXCEPT ![k] = None]
    /\ UNCHANGED <<clock, asked, reply>>

Tick ==
    /\ clock < MaxTime
    /\ clock' = clock + 1
    /\ UNCHANGED <<entries, asked, reply>>

Next ==
    \/ \E p \in Callers, k \in Currencies : Ask(p, k)
    \/ \E p \in Callers : AnswerHit(p) \/ AnswerMiss(p)
    \/ \E k \in Currencies, v \in Results : Put(k, v)
    \/ \E k \in Currencies : Forget(k)
    \/ Tick

Spec == Init /\ [][Next]_vars

TypeOK ==
    /\ clock \in Nat
    /\ entries \in [Currencies -> Entry \cup {None}]
    /\ asked \in [Callers -> Call \cup {None}]
    /\ reply \in [Callers -> Results \cup {None, Miss}]
==============================================================================
