---------------------------- MODULE TTLCacheProofs ----------------------------
(***************************************************************************)
(* Proofs about TTLCache for every set of goroutines, every TTL and every  *)
(* bound on the clock: its type, that an eviction never loses a live       *)
(* entry, and that the locked map implements RateCache.                    *)
(***************************************************************************)
EXTENDS TTLCache, TLAPS

\* The time a Get read is never ahead of the clock, and a disabled cache
\* holds nothing.
ReadsThePast == \A p \in Callers : now[p] <= clock
DisabledIsEmpty == TTL <= 0 => entries = [k \in Currencies |-> None]
IInv == TypeOK /\ ReadsThePast /\ DisabledIsEmpty

LEMMA InitIInv == Init => IInv
  BY TTLAssumption DEF Init, IInv, TypeOK, ReadsThePast, DisabledIsEmpty

LEMMA NextIInv == IInv /\ [Next]_vars => IInv'
<1> SUFFICES ASSUME IInv, [Next]_vars PROVE IInv'
  OBVIOUS
<1> USE TTLAssumption DEF IInv, TypeOK, ReadsThePast, DisabledIsEmpty, Now
<1>1. ASSUME NEW p \in Callers, NEW k \in Currencies, GetBegin(p, k) PROVE IInv'
  BY <1>1 DEF GetBegin
<1>2. ASSUME NEW p \in Callers, GetHit(p) PROVE IInv'
  <2>1. Item(p) \in Entry
    BY <1>2 DEF GetHit, Item
  <2> QED
    BY <1>2, <2>1 DEF GetHit, Entry
<1>3. ASSUME NEW p \in Callers, GetAbsent(p) \/ GetExpired(p) PROVE IInv'
  BY <1>3 DEF GetAbsent, GetExpired
<1>4. ASSUME NEW p \in Callers, GetEvict(p) PROVE IInv'
  BY <1>4 DEF GetEvict
<1>5. ASSUME NEW k \in Currencies, NEW v \in Results, Set(k, v) PROVE IInv'
  BY <1>5 DEF Set, Entry
<1>6. CASE Tick
  BY <1>6 DEF Tick
<1>7. CASE UNCHANGED vars
  BY <1>7 DEF vars
<1> QED
  BY <1>1, <1>2, <1>3, <1>4, <1>5, <1>6, <1>7 DEF Next, Get

\* The inductive invariant holds in every reachable state.
THEOREM IInvHolds == Spec => []IInv
  BY InitIInv, NextIInv, PTL DEF Spec

\* Type correctness of the locked map.
THEOREM TypeCorrect == Spec => []TypeOK
<1>1. IInv => TypeOK
  BY DEF IInv
<1> QED
  BY <1>1, IInvHolds, PTL

------------------------------------------------------------------------------
\* An entry leaves the map only when its own time is over, whatever a Set
\* stored between the two critical sections of a Get.
THEOREM EvictionIsSafe == Spec => EvictsOnlyExpired
<1> DEFINE Safe == \A k \in Currencies :
             entries[k] # None /\ entries'[k] = None => entries[k].expiresAt <= clock
<1>1. IInv /\ [Next]_vars => [Safe]_vars
  <2> SUFFICES ASSUME IInv, Next PROVE Safe
    OBVIOUS
  <2> USE TTLAssumption DEF IInv, TypeOK, ReadsThePast
  <2>1. ASSUME NEW p \in Callers, GetEvict(p) PROVE Safe
    BY <2>1 DEF GetEvict, MustEvict, ExpiredAt, Entry
  <2>2. ASSUME NEW k \in Currencies, NEW v \in Results, Set(k, v) PROVE Safe
    BY <2>2 DEF Set, Now, Entry
  <2>3. CASE UNCHANGED entries
    BY <2>3
  <2> QED
    BY <2>1, <2>2, <2>3
    DEF Next, Get, GetBegin, GetHit, GetAbsent, GetExpired, Tick
<1> QED
  BY <1>1, IInvHolds, PTL DEF Spec, EvictsOnlyExpired

------------------------------------------------------------------------------
\* The step simulation: each step of the locked map is a step of RateCache
\* or leaves the abstract state alone.
LEMMA StepSimulation == IInv /\ [Next]_vars => [Abstract!Next]_(Abstract!vars)
<1> SUFFICES ASSUME IInv, [Next]_vars PROVE [Abstract!Next]_(Abstract!vars)
  OBVIOUS
<1> USE TTLAssumption DEF IInv, TypeOK, ReadsThePast, DisabledIsEmpty, Now
<1>1. ASSUME NEW p \in Callers, NEW k \in Currencies, GetBegin(p, k)
      PROVE Abstract!Ask(p, k)
  BY <1>1 DEF GetBegin, Abstract!Ask
<1> DEFINE asking == [p \in Callers |-> IF pc[p] = "read"
                                        THEN [currency |-> key[p], at |-> now[p]]
                                        ELSE None]
           replied == [p \in Callers |-> IF pc[p] = "evict" THEN Miss ELSE reply[p]]
\* A Get that reads in this step was asking, and asks no more after it.
<1>a. ASSUME NEW p \in Callers, pc[p] = "read", pc' \in [Callers -> {"idle", "read", "evict"}],
             pc' = [pc EXCEPT ![p] = pc'[p]], pc'[p] # "read", UNCHANGED <<key, now>>
      PROVE  /\ asking[p] = [currency |-> key[p], at |-> now[p]]
             /\ asking[p] # None
             /\ asking[p].currency = key[p]
             /\ asking[p].at = now[p]
             /\ asking' = [asking EXCEPT ![p] = None]
  <2>1. asking[p] = [currency |-> key[p], at |-> now[p]]
    BY <1>a
  <2>2. asking' = [asking EXCEPT ![p] = None]
    BY <1>a
  <2> QED
    BY <2>1, <2>2
<1>2. ASSUME NEW p \in Callers, GetHit(p) PROVE Abstract!AnswerHit(p)
  <2>1. Item(p) = entries[key[p]] /\ Item(p) \in Entry
    BY <1>2 DEF GetHit, Item
  <2>2. replied' = [replied EXCEPT ![p] = entries[key[p]].value]
    BY <1>2, <2>1 DEF GetHit
  <2>3. Abstract!LiveAt(entries[key[p]], now[p])
    BY <1>2, <2>1 DEF GetHit, ExpiredAt, Entry, Abstract!LiveAt
  <2>4. pc[p] = "read" /\ pc' = [pc EXCEPT ![p] = "idle"] /\ UNCHANGED <<clock, entries, key, now>>
    BY <1>2 DEF GetHit
  <2> HIDE DEF asking, replied
  <2> QED
    BY <1>a, <2>2, <2>3, <2>4 DEF Abstract!AnswerHit, asking, replied
<1>3. ASSUME NEW p \in Callers, GetAbsent(p) PROVE Abstract!AnswerMiss(p)
  <2>1. ~Abstract!LiveAt(entries[key[p]], clock)
    BY <1>3 DEF GetAbsent, Item, Abstract!LiveAt
  <2>2. replied' = [replied EXCEPT ![p] = Miss]
    BY <1>3 DEF GetAbsent
  <2>3. pc[p] = "read" /\ pc' = [pc EXCEPT ![p] = "idle"] /\ UNCHANGED <<clock, entries, key, now>>
    BY <1>3 DEF GetAbsent
  <2> HIDE DEF asking, replied
  <2> QED
    BY <1>a, <2>1, <2>2, <2>3 DEF Abstract!AnswerMiss, asking, replied
<1>4. ASSUME NEW p \in Callers, GetExpired(p) PROVE Abstract!AnswerMiss(p)
  <2>1. ~Abstract!LiveAt(entries[key[p]], clock)
    BY <1>4 DEF GetExpired, Item, ExpiredAt, Entry, Abstract!LiveAt
  <2>2. replied' = [replied EXCEPT ![p] = Miss]
    BY <1>4 DEF GetExpired
  <2>3. pc[p] = "read" /\ pc' = [pc EXCEPT ![p] = "evict"] /\ UNCHANGED <<clock, entries, key, now>>
    BY <1>4 DEF GetExpired
  <2> HIDE DEF asking, replied
  <2> QED
    BY <1>a, <2>1, <2>2, <2>3 DEF Abstract!AnswerMiss, asking, replied
<1>5. ASSUME NEW p \in Callers, GetEvict(p)
      PROVE Abstract!Forget(key[p]) \/ UNCHANGED Abstract!vars
  BY <1>5 DEF GetEvict, MustEvict, ExpiredAt, Entry,
              Abstract!Forget, Abstract!LiveAt, Abstract!vars
<1>6. ASSUME NEW k \in Currencies, NEW v \in Results, Set(k, v) PROVE Abstract!Put(k, v)
  BY <1>6 DEF Set, Abstract!Put
<1>7. CASE Tick
  BY <1>7 DEF Tick, Abstract!Tick, Abstract!Next
<1>8. CASE UNCHANGED vars
  BY <1>8 DEF vars, Abstract!vars
<1> QED
  BY <1>1, <1>2, <1>3, <1>4, <1>5, <1>6, <1>7, <1>8 DEF Next, Get, Abstract!Next

\* The locked map implements the cache the aggregator relies on.
THEOREM Refinement == Spec => ImplementsRateCache
<1>1. Init => Abstract!Init
  BY DEF Init, Abstract!Init
<1> QED
  BY <1>1, StepSimulation, IInvHolds, PTL DEF Spec, ImplementsRateCache, Abstract!Spec
==============================================================================
