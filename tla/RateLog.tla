-------------------------------- MODULE RateLog --------------------------------
(***************************************************************************)
(* What the callers of the store rely on: a save that is confirmed was     *)
(* persisted as a whole, one that failed was persisted as a whole or not   *)
(* at all, and a reader sees the results that were persisted at one        *)
(* instant of its call.  RateStore implements it with transactions;        *)
(* Aggregator's Save and SaveFails are Persist followed by Confirm or Fail.*)
(***************************************************************************)
CONSTANTS Savers, Readers, None

VARIABLES
    log,   \* the savers whose rows are persisted
    told,  \* [Savers -> what SaveRates returned]
    seen,  \* [Readers -> the savers visible to the call in progress]
    read   \* [Readers -> what the last call returned]

vars == <<log, told, seen, read>>

Init ==
    /\ log = {}
    /\ told = [s \in Savers |-> None]
    /\ seen = [q \in Readers |-> None]
    /\ read = [q \in Readers |-> None]

Persist(s) ==
    /\ told[s] = None
    /\ log' = log \cup {s}
    /\ UNCHANGED <<told, seen, read>>

Confirm(s) ==
    /\ told[s] = None
    /\ s \in log
    /\ told' = [told EXCEPT ![s] = "ok"]
    /\ UNCHANGED <<log, seen, read>>

Fail(s) ==
    /\ told[s] = None
    /\ told' = [told EXCEPT ![s] = "error"]
    /\ UNCHANGED <<log, seen, read>>

Look(q) ==
    /\ seen[q] = None
    /\ seen' = [seen EXCEPT ![q] = log]
    /\ UNCHANGED <<log, told, read>>

Answer(q) ==
    /\ seen[q] # None
    /\ read' = [read EXCEPT ![q] = seen[q]]
    /\ UNCHANGED <<log, told, seen>>

Next ==
    \/ \E s \in Savers : Persist(s) \/ Confirm(s) \/ Fail(s)
    \/ \E q \in Readers : Look(q) \/ Answer(q)

Spec == Init /\ [][Next]_vars
==============================================================================
