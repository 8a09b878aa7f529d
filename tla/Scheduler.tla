------------------------------- MODULE Scheduler -------------------------------
(***************************************************************************)
(* internal/service/scheduler.go: Run refreshes every configured currency  *)
(* once, then again on each tick, until its context is done.  RefreshRates *)
(* is the Aggregator's; here a call only returns, well or with an error.   *)
(* The ticker is Go's: its channel holds one tick, and ticks that find it  *)
(* full are dropped.  Server says what the constants are and which steps    *)
(* are fair.                                                               *)
(***************************************************************************)
EXTENDS Integers, SequencesExt

CONSTANTS
    Configured,  \* SCHEDULER_CURRENCIES as configured, may repeat a code
    MaxTicks     \* bound on the ticks, for model checking

VARIABLES
    canceled,  \* ctx of Run is done
    pc,        \* where Run is
    pos,       \* index of the loop in refreshAll
    ticking,   \* the ticker exists
    tick,      \* a tick waits in ticker.C
    fired,     \* ticks so far
    rounds,    \* calls of refreshAll so far (history)
    began,     \* ticks fired when the last of them began (history)
    calls      \* [currency -> calls of RefreshRates in this round] (history)

vars == <<canceled, pc, pos, ticking, tick, fired, rounds, began, calls>>

\* The loop of NewScheduler that drops repeated codes.
Unique(list) ==
    FoldLeft(LAMBDA seen, code : IF code \in ToSet(seen) THEN seen ELSE Append(seen, code),
             <<>>, list)

currencies == Unique(Configured)
NoCalls == [code \in ToSet(Configured) |-> 0]

Init ==
    /\ canceled = FALSE
    /\ pc = "refreshAll"
    /\ pos = 1
    /\ ticking = FALSE
    /\ tick = FALSE
    /\ fired = 0
    /\ rounds = 1
    /\ began = 0
    /\ calls = NoCalls

Refresh ==
    /\ pc = "refreshAll"
    /\ pos <= Len(currencies)
    /\ ~canceled
    /\ pc' = "fetchFresh"
    /\ calls' = [calls EXCEPT ![currencies[pos]] = @ + 1]
    /\ UNCHANGED <<canceled, pos, ticking, tick, fired, rounds, began>>

\* Mutants of After: an error ends the round; every second entry is skipped.
EndsOnError(err) == IF err THEN Len(currencies) + 1 ELSE pos + 1
SkipsOne(err) == pos + 2

\* An error is logged and the loop continues.
After(err) == pos + 1

Refreshed(err) ==
    /\ pc = "fetchFresh"
    /\ pc' = "refreshAll"
    /\ pos' = After(err)
    /\ UNCHANGED <<canceled, ticking, tick, fired, rounds, began, calls>>

\* Mutant of RoundOver: what was not refreshed is tried again at once.
RepeatsAtOnce ==
    /\ pc = "refreshAll"
    /\ pos > Len(currencies)
    /\ pos' = 1
    /\ rounds' = rounds + 1
    /\ began' = fired
    /\ rounds < 3
    /\ UNCHANGED <<canceled, pc, ticking, tick, fired, calls>>

\* refreshAll returns; the ticker is created after the first round.
RoundOver ==
    /\ pc = "refreshAll"
    /\ pos > Len(currencies) \/ canceled
    /\ pc' = "select"
    /\ ticking' = TRUE
    /\ UNCHANGED <<canceled, pos, tick, fired, rounds, began, calls>>

Ticked ==
    /\ pc = "select"
    /\ tick
    /\ tick' = FALSE
    /\ pc' = "refreshAll"
    /\ pos' = 1
    /\ rounds' = rounds + 1
    /\ began' = fired
    /\ calls' = NoCalls
    /\ UNCHANGED <<canceled, ticking, fired>>

\* Mutant of Done: the context is only looked at when a tick arrives.
DoneOnTick == canceled /\ tick

\* <-ctx.Done()
Done == canceled

Stop ==
    /\ pc = "select"
    /\ Done
    /\ pc' = "stopped"
    /\ UNCHANGED <<canceled, pos, ticking, tick, fired, rounds, began, calls>>

\* The runtime's timer; ticker.Stop() is deferred to the end of Run.
Fire ==
    /\ ticking
    /\ pc # "stopped"
    /\ fired < MaxTicks
    /\ tick' = TRUE
    /\ fired' = fired + 1
    /\ UNCHANGED <<canceled, pc, pos, ticking, rounds, began, calls>>

Cancel ==
    /\ ~canceled
    /\ canceled' = TRUE
    /\ UNCHANGED <<pc, pos, ticking, tick, fired, rounds, began, calls>>

Run == Refresh \/ RoundOver \/ Ticked \/ Stop

\* Every step of the scheduler and its timer, without the cancellation.
Steps == Run \/ (\E err \in BOOLEAN : Refreshed(err)) \/ Fire

Next == Steps \/ Cancel

Spec == Init /\ [][Next]_vars

------------------------------------------------------------------------------
TypeOK ==
    /\ canceled \in BOOLEAN
    /\ pc \in {"refreshAll", "fetchFresh", "select", "stopped"}
    /\ pos \in 1 .. Len(currencies) + 1
    /\ ticking \in BOOLEAN
    /\ tick \in BOOLEAN
    /\ fired \in 0 .. MaxTicks
    /\ rounds \in Nat
    /\ began \in Nat
    /\ calls \in [ToSet(Configured) -> Nat]

\* A round that was not cut short by the context asked for every configured
\* currency exactly once: whatever failed before, however often the
\* configuration names it.
RoundIsComplete ==
    pc = "select" /\ ~canceled => \A code \in ToSet(Configured) : calls[code] = 1

\* A round begins only when the interval has ended since the last one began:
\* a round that took many intervals is followed by one round at once, never
\* by a burst that catches up with the ticks it has missed.
RoundsArePaced == [][rounds' # rounds => fired > began]_vars
==============================================================================
