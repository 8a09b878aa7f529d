-------------------------------- MODULE Server --------------------------------
(***************************************************************************)
(* cmd/server/main.go: the life of the process.  main opens the store,     *)
(* starts the scheduler and the HTTP server in goroutines, waits for a     *)
(* signal or for the server to fail, shuts the server down within          *)
(* SHUTDOWN_TIMEOUT, waits for the scheduler within the rest of it, closes *)
(* the store and exits.                                                    *)
(*                                                                         *)
(* The signal context is the context of the scheduler.  A request has the  *)
(* context of its connection, which server.Close ends; what a handler does *)
(* is Aggregator's matter, here it is active until it returns.             *)
(***************************************************************************)
EXTENDS Integers, SequencesExt

CONSTANTS
    Handlers,  \* the requests the process gets
    Configured,  \* SCHEDULER_CURRENCIES as configured, may repeat a code
    MaxTicks     \* bound on the ticks, for model checking

ASSUME SchedulerAssumption ==
    /\ Configured \in Seq(ToSet(Configured))
    /\ Configured # <<>>
    /\ MaxTicks \in Nat

VARIABLES
    canceled, pc, pos, ticking, tick, fired, rounds, began, calls,  \* the scheduler
    main,      \* where main is
    listener,  \* server.ListenAndServe
    handler,   \* [Handlers -> state of the request]
    aborted,   \* server.Close has ended the requests' contexts
    expired,   \* shutdownCtx is done
    store      \* the database handle

Sched == INSTANCE Scheduler

schedVars == <<canceled, pc, pos, ticking, tick, fired, rounds, began, calls>>
serverVars == <<main, listener, handler, aborted, expired, store>>
vars == <<schedVars, serverVars>>

Init ==
    /\ Sched!Init
    /\ main = "opening"
    /\ listener = "none"
    /\ handler = [h \in Handlers |-> "none"]
    /\ aborted = FALSE
    /\ expired = FALSE
    /\ store = "none"

\* The process runs until main returns or calls os.Exit, or a signal kills it.
Alive == main \notin {"exited", "failed", "killed"}

\* main has started the goroutines.
Started == main \in {"running", "shutdown", "join", "closing"}

------------------------------------------------------------------------------
(* The start of main.                                                      *)

\* OpenPostgresStore takes the signal context: it fails if that is done.
OpenStore ==
    /\ main = "opening"
    /\ ~canceled
    /\ main' = "setup"
    /\ store' = "open"
    /\ UNCHANGED <<schedVars, listener, handler, aborted, expired>>

\* os.Exit(1): no store, sources or currencies that cannot be used.  It runs
\* no deferred call, so a store that is open is not closed.
StartFails ==
    /\ main \in {"opening", "setup"}
    /\ main' = "failed"
    /\ UNCHANGED <<schedVars, listener, handler, aborted, expired, store>>

Start ==
    /\ main = "setup"
    /\ main' = "running"
    /\ listener' = "starting"
    /\ UNCHANGED <<schedVars, handler, aborted, expired, store>>

SchedulerStep ==
    /\ Started
    /\ Sched!Steps
    /\ UNCHANGED serverVars

------------------------------------------------------------------------------
(* The signals and the HTTP server.                                        *)

\* The first SIGINT or SIGTERM cancels ctx.
Signal ==
    /\ Alive
    /\ Sched!Cancel
    /\ UNCHANGED serverVars

\* stop() has restored the default handling: a second signal kills.  Before
\* main has called it, further signals are ignored.
SecondSignal ==
    /\ Started
    /\ main # "running" \/ listener = "failed"
    /\ main' = "killed"
    /\ UNCHANGED <<schedVars, listener, handler, aborted, expired, store>>

Listen ==
    /\ Started
    /\ listener = "starting"
    /\ listener' = "serving"
    /\ UNCHANGED <<schedVars, main, handler, aborted, expired, store>>

\* ListenAndServe fails, at once or later, and the goroutine calls stop().
ListenFails ==
    /\ Started
    /\ listener \in {"starting", "serving"}
    /\ listener' = "failed"
    /\ canceled' = TRUE
    /\ UNCHANGED <<pc, pos, ticking, tick, fired, rounds, began, calls,
                   main, handler, aborted, expired, store>>

Accept(h) ==
    /\ Started
    /\ listener = "serving"
    /\ handler[h] = "none"
    /\ handler' = [handler EXCEPT ![h] = "active"]
    /\ UNCHANGED <<schedVars, main, listener, aborted, expired, store>>

Respond(h) ==
    /\ Started
    /\ handler[h] = "active"
    /\ handler' = [handler EXCEPT ![h] = "done"]
    /\ UNCHANGED <<schedVars, main, listener, aborted, expired, store>>

------------------------------------------------------------------------------
(* main, from <-ctx.Done() to its return.                                  *)

\* server.Shutdown first closes the listener, or keeps it from opening.
BeginShutdown ==
    /\ main = "running"
    /\ canceled
    /\ main' = "shutdown"
    /\ listener' = "closed"
    /\ UNCHANGED <<schedVars, handler, aborted, expired, store>>

\* The timer of shutdownCtx
Expire ==
    /\ main \in {"shutdown", "join"}
    /\ ~expired
    /\ expired' = TRUE
    /\ UNCHANGED <<schedVars, main, listener, handler, aborted, store>>

Idle == \A h \in Handlers : handler[h] # "active"

ShutdownDone ==
    /\ main = "shutdown"
    /\ Idle
    /\ main' = "join"
    /\ UNCHANGED <<schedVars, listener, handler, aborted, expired, store>>

\* Mutant of DeadlineOver: Shutdown gets a context without a deadline.
NoDeadline == FALSE

DeadlineOver == expired

\* Shutdown returns the error of shutdownCtx; server.Close ends what is left.
ShutdownFails ==
    /\ main = "shutdown"
    /\ DeadlineOver
    /\ aborted' = TRUE
    /\ main' = "join"
    /\ UNCHANGED <<schedVars, listener, handler, expired, store>>

\* Mutant of Joined: main goes on as soon as the scheduler was told to stop.
Told == canceled

\* <-schedulerDone
Joined == pc = "stopped"

Join ==
    /\ main = "join"
    /\ Joined \/ expired
    /\ main' = "closing"
    /\ UNCHANGED <<schedVars, listener, handler, aborted, expired, store>>

\* The deferred closeStore().
CloseStore ==
    /\ main = "closing"
    /\ store = "open"
    /\ store' = "closed"
    /\ UNCHANGED <<schedVars, main, listener, handler, aborted, expired>>

Exit ==
    /\ main = "closing"
    /\ store = "closed"
    /\ main' = "exited"
    /\ UNCHANGED <<schedVars, listener, handler, aborted, expired, store>>

MainStep ==
    \/ OpenStore \/ StartFails \/ Start
    \/ BeginShutdown \/ ShutdownDone \/ ShutdownFails \/ Join \/ CloseStore \/ Exit

Next ==
    \/ SchedulerStep
    \/ Signal
    \/ SecondSignal
    \/ Listen
    \/ ListenFails
    \/ \E h \in Handlers : Accept(h) \/ Respond(h)
    \/ Expire
    \/ MainStep

Spec == Init /\ [][Next]_vars

FairSpec == Spec /\ WF_vars(MainStep)

\* What the liveness properties assume besides.  A refresh is only sure to
\* return when its context is done: nothing else bounds the call to the
\* database at its end.
SchedulerFairness ==
    /\ WF_vars(Started /\ Sched!Run /\ UNCHANGED serverVars)
    /\ WF_vars(Started /\ canceled /\ (\E err \in BOOLEAN : Sched!Refreshed(err))
                       /\ UNCHANGED serverVars)
RequestsEnd == \A h \in Handlers : WF_vars(Respond(h))
TimePasses == WF_vars(Expire)

------------------------------------------------------------------------------
TypeOK ==
    /\ Sched!TypeOK
    /\ main \in {"opening", "setup", "running", "shutdown", "join", "closing",
                  "exited", "failed", "killed"}
    /\ listener \in {"none", "starting", "serving", "failed", "closed"}
    /\ handler \in [Handlers -> {"none", "active", "done"}]
    /\ aborted \in BOOLEAN
    /\ expired \in BOOLEAN
    /\ store \in {"none", "open", "closed"}

\* A shutdown that stays within its timeout is clean: when the store is
\* closed every request has been answered in full and the scheduler has
\* stopped, so nothing in flight meets a closed store.
CleanShutdown ==
    store = "closed" /\ ~expired =>
        /\ \A h \in Handlers : handler[h] # "active"
        /\ pc = "stopped"
        /\ ~aborted

\* A round that was not cut short by the context asked for every configured
\* currency exactly once: whatever failed before, however often the
\* configuration names it.
RoundIsComplete == Sched!RoundIsComplete

\* A round begins only when the interval has ended since the last one began:
\* a round that took many intervals is followed by one round at once, never
\* by a burst that catches up with the ticks it has missed.
RoundsArePaced == Sched!RoundsArePaced

\* Every signal and every failure of the server ends the process, whatever
\* the requests and the scheduler are waiting for: SHUTDOWN_TIMEOUT is enough.
Terminates == TimePasses => (canceled ~> ~Alive)

\* When requests and refreshes do return, the shutdown does not need the
\* timeout: the scheduler is told to stop wherever it is, and main goes on.
GracefulShutdown == SchedulerFairness /\ RequestsEnd => (canceled ~> ~Alive)
==============================================================================
