------------------------------- MODULE TTLCache -------------------------------
(***************************************************************************)
(* internal/cache/ttl_cache.go: a map of results under an RWMutex.  Get     *)
(* reads the time first, then looks the entry up under the read lock, and  *)
(* when it finds it expired takes the write lock in a second critical      *)
(* section to delete it.  Another Get or Set may run between any two of    *)
(* these steps; each critical section is one action, so the mutex itself   *)
(* needs no variable.  A result is an opaque value: cloneRateResult makes  *)
(* the stored one independent of its callers' slices.                      *)
(***************************************************************************)
EXTENDS Integers

CONSTANTS
    Callers,     \* goroutines that call Get
    Currencies,  \* normalised currency codes
    Results,     \* the RateResult values stored
    TTL,         \* c.ttl
    MaxTime,     \* bound on the clock, for model checking
    None, Miss

Entry == [value : Results, expiresAt : Int]

ASSUME TTLAssumption ==
    /\ TTL \in Int
    /\ MaxTime \in Nat
    /\ None \notin Results \cup {Miss}
    /\ Miss \notin Results
    /\ None \notin Entry \cup [currency : Currencies, at : Nat]

VARIABLES
    clock,    \* time.Now(); both ends of every comparison come from it
    entries,  \* c.entries
    pc,       \* [Callers -> where the Get of this goroutine is]
    key,      \* [Callers -> argument of Get]
    now,      \* [Callers -> the local variable now of Get]
    reply     \* [Callers -> what the last Get returned, None while it runs]

vars == <<clock, entries, pc, key, now, reply>>

\* Mutants: a coarse clock that lags behind, and now.After(expiresAt).
LaggingNow == clock - 1
StrictlyExpiredAt(e, t) == e # None /\ t > e.expiresAt

\* c.now()
Now == clock

\* exists && !now.Before(expiresAt)
ExpiredAt(e, t) == e # None /\ t >= e.expiresAt

Init ==
    /\ clock = 0
    /\ entries = [k \in Currencies |-> None]
    /\ pc = [p \in Callers |-> "idle"]
    /\ key \in [Callers -> Currencies]
    /\ now = [p \in Callers |-> 0]
    /\ reply = [p \in Callers |-> None]

\* now := c.now(), before any lock is taken
GetBegin(p, k) ==
    /\ pc[p] = "idle"
    /\ pc' = [pc EXCEPT ![p] = "read"]
    /\ key' = [key EXCEPT ![p] = k]
    /\ now' = [now EXCEPT ![p] = Now]
    /\ reply' = [reply EXCEPT ![p] = None]
    /\ UNCHANGED <<clock, entries>>

\* What the read lock shows; a disabled cache (ttl <= 0) returns before it.
Item(p) == IF TTL <= 0 THEN None ELSE entries[key[p]]

GetHit(p) ==
    /\ pc[p] = "read"
    /\ Item(p) # None
    /\ ~ExpiredAt(Item(p), now[p])
    /\ pc' = [pc EXCEPT ![p] = "idle"]
    /\ reply' = [reply EXCEPT ![p] = Item(p).value]
    /\ UNCHANGED <<clock, entries, key, now>>

GetAbsent(p) ==
    /\ pc[p] = "read"
    /\ Item(p) = None
    /\ pc' = [pc EXCEPT ![p] = "idle"]
    /\ reply' = [reply EXCEPT ![p] = Miss]
    /\ UNCHANGED <<clock, entries, key, now>>

GetExpired(p) ==
    /\ pc[p] = "read"
    /\ ExpiredAt(Item(p), now[p])
    /\ pc' = [pc EXCEPT ![p] = "evict"]
    /\ UNCHANGED <<clock, entries, key, now, reply>>

\* Mutant of MustEvict: the entry is deleted without being looked up again.
EvictsUnseen(p) == entries[key[p]] # None

\* Under the write lock the entry is looked up again: a Set may have
\* replaced it since the read lock was released.
MustEvict(p) == ExpiredAt(entries[key[p]], now[p])

GetEvict(p) ==
    /\ pc[p] = "evict"
    /\ entries' = IF MustEvict(p) THEN [entries EXCEPT ![key[p]] = None] ELSE entries
    /\ pc' = [pc EXCEPT ![p] = "idle"]
    /\ reply' = [reply EXCEPT ![p] = Miss]
    /\ UNCHANGED <<clock, key, now>>

\* The expiry is computed inside the critical section.
Set(k, v) ==
    /\ entries' = IF TTL <= 0
                  THEN entries
                  ELSE [entries EXCEPT ![k] = [value |-> v, expiresAt |-> Now + TTL]]
    /\ UNCHANGED <<clock, pc, key, now, reply>>

Tick ==
    /\ clock < MaxTime
    /\ clock' = clock + 1
    /\ UNCHANGED <<entries, pc, key, now, reply>>

Get(p) ==
    \/ \E k \in Currencies : GetBegin(p, k)
    \/ GetHit(p)
    \/ GetAbsent(p)
    \/ GetExpired(p)
    \/ GetEvict(p)

Next ==
    \/ \E p \in Callers : Get(p)
    \/ \E k \in Currencies, v \in Results : Set(k, v)
    \/ Tick

Spec == Init /\ [][Next]_vars

------------------------------------------------------------------------------
TypeOK ==
    /\ clock \in Nat
    /\ entries \in [Currencies -> Entry \cup {None}]
    /\ pc \in [Callers -> {"idle", "read", "evict"}]
    /\ key \in [Callers -> Currencies]
    /\ now \in [Callers -> Nat]
    /\ reply \in [Callers -> Results \cup {None, Miss}]

\* A Get that found an expired entry never removes the fresh one a Set put
\* in its place before the write lock was taken (ttl_cache.go, Get): an
\* entry disappears only when its own time is over.
EvictsOnlyExpired ==
    [][\A k \in Currencies :
           entries[k] # None /\ entries'[k] = None => entries[k].expiresAt <= clock]_vars

\* The locked map is a RateCache.  A Get takes effect at its read; from then
\* on, one that still has to evict has already decided to miss.
Abstract == INSTANCE RateCache WITH
    asked <- [p \in Callers |-> IF pc[p] = "read"
                                THEN [currency |-> key[p], at |-> now[p]]
                                ELSE None],
    reply <- [p \in Callers |-> IF pc[p] = "evict" THEN Miss ELSE reply[p]]

ImplementsRateCache == Abstract!Spec
==============================================================================
