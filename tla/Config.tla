-------------------------------- MODULE Config --------------------------------
(***************************************************************************)
(* internal/config and what main makes of it before the process serves:    *)
(* Load reads one environment variable after another and gives up at the   *)
(* first that cannot be used; NewClients and NewScheduler have checks of   *)
(* their own.  Numbers are words: a product may wrap.                      *)
(***************************************************************************)
EXTENDS Integers, SequencesExt

CONSTANTS
    Environments,  \* what may be set: functions from names to what is written
    Default,       \* the constants default... of config.go
    Currencies,    \* the codes NormalizeCurrency can return here
    Normal,        \* [item of a list -> its code or source, NoText or neither]
    NoText,        \* what is left of an item of spaces
    Second,        \* time.Second
    Words,         \* number of values of an int64
    MaxPort,       \* 65535
    Error, None

Durations == {"READ_TIMEOUT", "WRITE_TIMEOUT", "SHUTDOWN_TIMEOUT", "CACHE_TTL",
              "SCHEDULER_INTERVAL"}

\* The order in which Load reads what it can reject.
Order == <<"PORT", "READ_TIMEOUT", "WRITE_TIMEOUT", "SHUTDOWN_TIMEOUT", "CACHE_TTL",
           "SCHEDULER_INTERVAL", "SCHEDULER_CURRENCIES", "RATE_LIMIT_REQUESTS_PER_MINUTE",
           "RATE_SOURCES">>
Settings == ToSet(Order)

\* The settings that are lists, the old name of the last one included.
Lists == {"SCHEDULER_CURRENCIES", "RATE_SOURCES", "RATE_SOURCE"}

Largest == Words \div 2 - 1
Int64 == -(Words \div 2) .. Largest

\* What is written: nothing or spaces, a text, an integer, a duration with
\* its unit, or a list with commas.
Blank == [form |-> "blank"]

\* The parsers of durations and integers refuse what has no place in a word.
ASSUME ConfigAssumption ==
    /\ Second \in Nat \ {0}
    /\ Words \in Nat /\ Words % 2 = 0
    /\ Words \div 2 > Second
    /\ None # Error
    /\ \A s \in Durations : Default[s] \in 1 .. Largest
    /\ Default["RATE_SOURCES"] \in Seq(DOMAIN Normal)
    /\ \A e \in Environments :
           /\ \A name \in Settings :
                  e[name].form \in {"duration", "integer"} => e[name].n \in Int64
           /\ \A name \in Lists : e[name] = Blank \/ e[name].items \in Seq(DOMAIN Normal)

VARIABLES
    env,    \* os.Getenv
    next,   \* index in Order
    cfg,    \* the values read so far
    phase   \* "load", "running" or "exited", os.Exit(1)

vars == <<env, next, cfg, phase>>

Init ==
    /\ env \in Environments
    /\ next = 1
    /\ cfg = [s \in Settings |-> None]
    /\ phase = "load"

------------------------------------------------------------------------------
(* What becomes of it.                                                      *)
Wrap(n) == ((n + Words \div 2) % Words) - Words \div 2

\* Mutant of FromSeconds: the number is taken for nanoseconds.
Unscaled(n) == n

\* time.Duration(seconds) * time.Second
FromSeconds(n) == Wrap(n * Second)

envDuration(name) ==
    LET raw == env[name] IN
    CASE raw = Blank -> Default[name]
      [] raw.form = "duration" /\ raw.n > 0 -> raw.n
      [] raw.form = "integer" /\ raw.n > 0 -> FromSeconds(raw.n)
      [] OTHER -> Error

envInt(name, largest) ==
    LET raw == env[name] IN
    CASE raw = Blank -> Default[name]
      [] raw.form = "integer" /\ raw.n \in 1 .. largest -> raw.n
      [] OTHER -> Error

envPort(name) == envInt(name, MaxPort)

\* The loop of the two list functions: an item that is empty or was seen
\* before adds nothing.
Unique(items) ==
    FoldLeft(LAMBDA seen, item : IF Normal[item] \in ToSet(seen) \cup {NoText} THEN seen
                                 ELSE Append(seen, Normal[item]),
             <<>>, items)

\* What is named in a list, once each, or an error if that is nothing or has
\* something unknown.
Named(items) == {Normal[i] : i \in ToSet(items)} \ {NoText}
List(items, known) ==
    IF Named(items) # {} /\ Named(items) \subseteq known THEN Unique(items) ELSE Error

\* envString of a list
Items(name, fallback) == IF env[name] = Blank THEN fallback ELSE env[name].items

\* Mutant of SourceItems: the old name wins.
LegacyFirst == Items("RATE_SOURCE", Items("RATE_SOURCES", Default["RATE_SOURCES"]))

SourceItems == Items("RATE_SOURCES", Items("RATE_SOURCE", Default["RATE_SOURCES"]))

Sources == {"cbr", "frankfurter", "mock", "tbank"}

envStringList(name) == List(Items(name, Default[name]), Currencies)

envRateSources == List(SourceItems, Sources)

Value(name) ==
    CASE name \in Durations -> envDuration(name)
      [] name = "PORT" -> envPort(name)
      [] name = "RATE_LIMIT_REQUESTS_PER_MINUTE" -> envInt(name, Largest)
      [] name = "SCHEDULER_CURRENCIES" -> envStringList(name)
      [] name = "RATE_SOURCES" -> envRateSources

------------------------------------------------------------------------------
\* Mutant of Usable: an error is not looked at.
Anything(name) == TRUE

Usable(name) == Value(name) # Error

Read ==
    /\ phase = "load"
    /\ next <= Len(Order)
    /\ Usable(Order[next])
    /\ cfg' = [cfg EXCEPT ![Order[next]] = Value(Order[next])]
    /\ next' = next + 1
    /\ UNCHANGED <<env, phase>>

ReadFails ==
    /\ phase = "load"
    /\ next <= Len(Order)
    /\ ~Usable(Order[next])
    /\ phase' = "exited"
    /\ UNCHANGED <<env, next, cfg>>

\* The banks of NewClients
BanksOf == [cbr |-> <<"Bank of Russia">>,
            frankfurter |-> <<"Frankfurter">>,
            mock |-> <<"North Bank", "Metro Bank", "Offline Bank">>,
            tbank |-> <<"T-Bank">>]

NewClients ==
    FlattenSeq([i \in DOMAIN cfg["RATE_SOURCES"] |-> BanksOf[cfg["RATE_SOURCES"][i]]])

\* Mutant of SchedulerAccepts: Load has checked the interval already.
SchedulerTrusts == cfg["SCHEDULER_CURRENCIES"] # <<>>

\* The checks of NewScheduler
SchedulerAccepts ==
    /\ cfg["SCHEDULER_INTERVAL"] > 0
    /\ cfg["SCHEDULER_CURRENCIES"] # <<>>

Setup ==
    /\ phase = "load"
    /\ next > Len(Order)
    /\ phase' = IF NewClients # <<>> /\ SchedulerAccepts THEN "running" ELSE "exited"
    /\ UNCHANGED <<env, next, cfg>>

Next == Read \/ ReadFails \/ Setup

Spec == Init /\ [][Next]_vars

------------------------------------------------------------------------------
TypeOK ==
    /\ env \in Environments
    /\ next \in 1 .. Len(Order) + 1
    /\ \A s \in Durations : cfg[s] \in {None} \cup Int64
    /\ phase \in {"load", "running", "exited"}

\* The number a user wrote, as a duration without a bound.
Written(raw) == raw.n * (IF raw.form = "integer" THEN Second ELSE 1)

\* A process that serves has every duration as it was written, or by default
\* when nothing was; what cannot be used never starts it.  The one exception:
\* a number of seconds that no duration can hold is accepted and wraps around,
\* but an interval only to something positive, on which no ticker panics.
DurationAsWritten(s) ==
    CASE env[s] = Blank -> cfg[s] = Default[s]
      [] env[s].form \in {"duration", "integer"} ->
             /\ env[s].n > 0
             /\ Written(env[s]) <= Largest => cfg[s] = Written(env[s])
      [] OTHER -> FALSE

DurationsAsWritten ==
    phase = "running" =>
        /\ \A s \in Durations : DurationAsWritten(s)
        /\ cfg["SCHEDULER_INTERVAL"] > 0

\* Each bank of each source that is named is asked once per request: not
\* twice when a source is named twice in different letters, and not those of
\* the old variable when the new one names others.
EveryNamedBankOnce ==
    phase = "running" =>
        /\ IsInjective(NewClients)
        /\ env["RATE_SOURCES"] # Blank =>
               LET named == Named(env["RATE_SOURCES"].items)
               IN /\ named \subseteq Sources
                  /\ ToSet(NewClients) = UNION {ToSet(BanksOf[s]) : s \in named}
==============================================================================
