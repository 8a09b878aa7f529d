------------------------------- MODULE RateStore -------------------------------
(***************************************************************************)
(* internal/storage: opening the store, SaveRates and the two history      *)
(* queries, on a PostgreSQL server that keeps committed rows.              *)
(*                                                                         *)
(* SaveRates inserts the rows of one result in a transaction; other calls  *)
(* run between any two of its statements.  When its context is done the    *)
(* transaction is rolled back behind its back by database/sql.  A history  *)
(* call is one SELECT, so it sees one set of committed rows, which it then *)
(* reads one by one.  A row is named by its saver and its position; prices *)
(* and the bank's name are left out.                                       *)
(***************************************************************************)
EXTENDS Integers, Sequences, FiniteSetsExt

CONSTANTS
    Savers,        \* calls of SaveRates
    Readers,       \* calls of History and HistoryByDate
    Currencies,
    Times,         \* instants for fetched_at, from and to
    MaxRows,       \* most rows in a result, one per bank
    Limits,        \* values of the argument limit
    DefaultLimit, MaxLimit,  \* DefaultHistoryLimit, MaxHistoryLimit
    MaxCrashes,    \* bound on the crashes of the process
    None

Calls == Savers \cup Readers

ASSUME StoreAssumption ==
    /\ Savers \cap Readers = {}
    /\ Times \subseteq Int
    /\ MaxRows \in Nat
    /\ MaxCrashes \in Nat
    /\ Limits \subseteq Int
    /\ DefaultLimit \in Nat \ {0} /\ MaxLimit \in Nat \ {0}
    /\ DefaultLimit <= MaxLimit

VARIABLES
    crashes,   \* of the process so far
    opening,   \* where OpenPostgresStore is
    db,        \* the sql.DB
    pc,        \* [Calls -> where the call is]
    canceled,  \* [Calls -> its ctx is done]
    conn,      \* the calls that hold a connection of the pool
    outcome,   \* [Calls -> "ok", "error" or None]
    batch,     \* [Savers -> the argument of SaveRates: currency, time, size]
    staged,    \* [Savers -> rows inserted in its open transaction]
    lastId,    \* the sequence behind rates.id
    table,     \* committed rows
    args,      \* [Readers -> arguments of the query]
    asOf,      \* [Readers -> the committed rows the query saw] (history)
    rows,      \* [Readers -> rows of the result still to be read]
    rates      \* [Readers -> rows read so far]

openVars == <<crashes, opening, db>>
saveVars == <<batch, staged, lastId, table>>
readVars == <<args, asOf, rows, rates>>
vars == <<openVars, pc, canceled, conn, outcome, saveVars, readVars>>

Init ==
    /\ crashes = 0
    /\ opening = "start"
    /\ db = "none"
    /\ pc = [c \in Calls |-> "idle"]
    /\ canceled = [c \in Calls |-> FALSE]
    /\ conn = {}
    /\ outcome = [c \in Calls |-> None]
    /\ batch = [s \in Savers |-> None]
    /\ staged = [s \in Savers |-> {}]
    /\ lastId = 0
    /\ table = {}
    /\ args = [q \in Readers |-> None]
    /\ asOf = [q \in Readers |-> {}]
    /\ rows = [q \in Readers |-> <<>>]
    /\ rates = [q \in Readers |-> <<>>]

Goto(c, stage) == pc' = [pc EXCEPT ![c] = stage] /\ UNCHANGED outcome

Return(c, result) ==
    /\ pc' = [pc EXCEPT ![c] = "done"]
    /\ outcome' = [outcome EXCEPT ![c] = result]

------------------------------------------------------------------------------
(* OpenPostgresStore                                                       *)

\* DATABASE_URL is empty: no store and no error; or the driver refuses it.
OpenNothing ==
    /\ opening = "start"
    /\ opening' \in {"off", "failed"}
    /\ UNCHANGED <<crashes, db, pc, canceled, conn, outcome, saveVars, readVars>>

Open ==
    /\ opening = "start"
    /\ opening' = "opened"
    /\ db' = "open"
    /\ UNCHANGED <<crashes, pc, canceled, conn, outcome, saveVars, readVars>>

\* closeDBAfterOpenError
AfterOpenError == "closed"

\* The ping or the migrations fail.
OpenFails ==
    /\ opening = "opened"
    /\ opening' = "failed"
    /\ db' = AfterOpenError
    /\ UNCHANGED <<crashes, pc, canceled, conn, outcome, saveVars, readVars>>

Migrated ==
    /\ opening = "opened"
    /\ opening' = "ready"
    /\ UNCHANGED <<crashes, db, pc, canceled, conn, outcome, saveVars, readVars>>

------------------------------------------------------------------------------
(* SaveRates                                                               *)

Size(s) == batch[s].size

SaveRates(s, k, t, n) ==
    /\ opening = "ready"
    /\ pc[s] = "idle"
    /\ batch' = [batch EXCEPT ![s] = [currency |-> k, at |-> t, size |-> n]]
    /\ IF n = 0 THEN Return(s, "ok") ELSE Goto(s, "begin")
    /\ UNCHANGED <<openVars, canceled, conn, staged, lastId, table, readVars>>

Begin(s) ==
    /\ pc[s] = "begin"
    /\ conn' = conn \cup {s}
    /\ Goto(s, "insert")
    /\ UNCHANGED <<openVars, canceled, saveVars, readVars>>

BeginFails(s) ==
    /\ pc[s] = "begin"
    /\ Return(s, "error")
    /\ UNCHANGED <<openVars, canceled, conn, saveVars, readVars>>

\* Mutant of InTransaction: the row is inserted with s.db, not with tx.
OutsideTransaction(s, row) ==
    /\ table' = table \cup {row}
    /\ staged' = [staged EXCEPT ![s] = @ \cup {row}]

\* tx.ExecContext
InTransaction(s, row) ==
    /\ staged' = [staged EXCEPT ![s] = @ \cup {row}]
    /\ UNCHANGED table

\* The next row of the loop.  Its id comes from a sequence that all
\* transactions share.
Insert(s) ==
    /\ pc[s] = "insert"
    /\ s \in conn
    /\ Cardinality(staged[s]) < Size(s)
    /\ lastId' = lastId + 1
    /\ InTransaction(s, [saver |-> s, pos |-> Cardinality(staged[s]) + 1,
                         currency |-> batch[s].currency, at |-> batch[s].at,
                         id |-> lastId'])
    /\ UNCHANGED <<openVars, pc, canceled, conn, outcome, batch, readVars>>

\* Mutant of OnInsertError: it returns without the rollback.
ReturnsAtOnce(s) == Return(s, "error")

\* return from the loop, to the deferred rollback
OnInsertError(s) == Goto(s, "rollback")

\* A statement fails: ctx is done, its transaction is gone, the server
\* refuses it, the connection is lost.
InsertFails(s) ==
    /\ pc[s] = "insert"
    /\ Cardinality(staged[s]) < Size(s)
    /\ OnInsertError(s)
    /\ UNCHANGED <<openVars, canceled, conn, saveVars, readVars>>

\* The connection goes back to the pool: tx is over, or rows.Close().
Close(c) == conn' = conn \ {c}

Discard(s) ==
    /\ Close(s)
    /\ staged' = [staged EXCEPT ![s] = {}]

\* The goroutine of database/sql that waits for ctx
AwaitDone(s) ==
    /\ canceled[s]
    /\ s \in conn
    /\ pc[s] # "answer"
    /\ Discard(s)
    /\ UNCHANGED <<openVars, pc, canceled, outcome, batch, lastId, table, readVars>>

\* tx.Commit checks ctx first; from here on the server has committed, and
\* the transaction is over for database/sql too, which keeps the connection
\* until the answer comes.
Commit(s) ==
    /\ pc[s] = "insert"
    /\ s \in conn
    /\ Cardinality(staged[s]) = Size(s)
    /\ ~canceled[s]
    /\ table' = table \cup staged[s]
    /\ staged' = [staged EXCEPT ![s] = {}]
    /\ Goto(s, "answer")
    /\ UNCHANGED <<openVars, canceled, conn, batch, lastId, readVars>>

\* Mutant of OnCommitError: the result of tx.Commit is not looked at.
NoCommitError(s) == Return(s, "ok")

OnCommitError(s) == Goto(s, "rollback")

\* The transaction is gone or ctx is done, or the server refuses: in the
\* last case tx is over.
CommitFails(s) ==
    /\ pc[s] = "insert"
    /\ Cardinality(staged[s]) = Size(s) \/ s \notin conn
    /\ \/ canceled[s] /\ UNCHANGED <<conn, staged>>
       \/ ~canceled[s] /\ Discard(s)
    /\ OnCommitError(s)
    /\ UNCHANGED <<openVars, canceled, batch, lastId, table, readVars>>

Committed(s) ==
    /\ pc[s] = "answer"
    /\ Return(s, "ok")
    /\ Close(s)
    /\ UNCHANGED <<openVars, canceled, saveVars, readVars>>

\* The answer of the server is lost: Commit reports an error.
CommitUnknown(s) ==
    /\ pc[s] = "answer"
    /\ OnCommitError(s)
    /\ Close(s)
    /\ UNCHANGED <<openVars, canceled, saveVars, readVars>>

\* The deferred tx.Rollback; its own error only joins the other one.
Rollback(s) ==
    /\ pc[s] = "rollback"
    /\ Discard(s)
    /\ Return(s, "error")
    /\ UNCHANGED <<openVars, canceled, batch, lastId, table, readVars>>

------------------------------------------------------------------------------
(* History and HistoryByDate                                               *)

\* Mutant of normalizeLimit: the maximum is not enforced.
Unlimited(limit) == IF limit <= 0 THEN DefaultLimit ELSE limit

normalizeLimit(limit) ==
    IF limit <= 0 THEN DefaultLimit ELSE Min({limit, MaxLimit})

\* ORDER BY fetched_at DESC, id DESC
Newer(x, y) == x.at > y.at \/ (x.at = y.at /\ x.id > y.id)

\* fetched_at >= $2 AND fetched_at < $3
InRange(x, a) == a.from <= x.at /\ x.at < a.to

Matching(a) ==
    {x \in table : x.currency = a.currency /\ (a.byDate => InRange(x, a))}

Rank(x, S) == Cardinality({y \in S : Newer(y, x)}) + 1

\* ORDER BY and LIMIT
Select(a) ==
    LET S == Matching(a)
    IN  [i \in 1 .. Min({Cardinality(S), a.limit}) |-> CHOOSE x \in S : Rank(x, S) = i]

\* History has no range, HistoryByDate has one.
Query(q, k, byDate, from, to, limit) ==
    /\ opening = "ready"
    /\ pc[q] = "idle"
    /\ args' = [args EXCEPT ![q] = [currency |-> k, byDate |-> byDate, from |-> from,
                                    to |-> to, limit |-> normalizeLimit(limit)]]
    /\ rows' = [rows EXCEPT ![q] = Select(args'[q])]
    /\ asOf' = [asOf EXCEPT ![q] = table]
    /\ conn' = conn \cup {q}
    /\ Goto(q, "scan")
    /\ UNCHANGED <<openVars, canceled, saveVars, rates>>

QueryFails(q) ==
    /\ opening = "ready"
    /\ pc[q] = "idle"
    /\ Return(q, "error")
    /\ UNCHANGED <<openVars, canceled, conn, saveVars, readVars>>

Scan(q) ==
    /\ pc[q] = "scan"
    /\ rows[q] # <<>>
    /\ rates' = [rates EXCEPT ![q] = Append(@, Head(rows[q]))]
    /\ rows' = [rows EXCEPT ![q] = Tail(@)]
    /\ UNCHANGED <<openVars, pc, canceled, conn, outcome, saveVars, args, asOf>>

\* Mutant of OnRowsError: rows.Err() is not looked at after the loop.
EndOfRows(q) == Return(q, "ok")

OnRowsError(q) == Return(q, "error")

\* rows.Next or Scan fails half way: ctx, the connection, a value.
RowsFail(q) ==
    /\ pc[q] = "scan"
    /\ OnRowsError(q)
    /\ Close(q)
    /\ UNCHANGED <<openVars, canceled, saveVars, readVars>>

AllRead(q) ==
    /\ pc[q] = "scan"
    /\ rows[q] = <<>>
    /\ Return(q, "ok")
    /\ Close(q)
    /\ UNCHANGED <<openVars, canceled, saveVars, readVars>>

------------------------------------------------------------------------------
Cancel(c) ==
    /\ pc[c] # "done"
    /\ ~canceled[c]
    /\ canceled' = [canceled EXCEPT ![c] = TRUE]
    /\ UNCHANGED <<openVars, pc, conn, outcome, saveVars, readVars>>

\* The process dies, by a second signal or otherwise, and is started again.
\* PostgreSQL rolls open transactions back and keeps what was committed; a
\* call that was running has no one left to return to.
Crash ==
    /\ crashes < MaxCrashes
    /\ opening = "ready"
    /\ crashes' = crashes + 1
    /\ opening' = "start"
    /\ db' = "none"
    /\ pc' = [c \in Calls |-> IF pc[c] = "idle" THEN "idle" ELSE "done"]
    /\ conn' = {}
    /\ staged' = [s \in Savers |-> {}]
    /\ UNCHANGED <<canceled, outcome, batch, lastId, table, readVars>>

Opening == OpenNothing \/ Open \/ OpenFails \/ Migrated

Save(s) ==
    \/ \E k \in Currencies, t \in Times, n \in 0 .. MaxRows : SaveRates(s, k, t, n)
    \/ Begin(s) \/ BeginFails(s) \/ Insert(s) \/ InsertFails(s) \/ AwaitDone(s)
    \/ Commit(s) \/ CommitFails(s) \/ Committed(s) \/ CommitUnknown(s) \/ Rollback(s)

Read(q) ==
    \/ \E k \in Currencies, limit \in Limits : Query(q, k, FALSE, 0, 0, limit)
    \/ \E k \in Currencies, limit \in Limits, from \in Times, to \in Times :
           from < to /\ Query(q, k, TRUE, from, to, limit)
    \/ QueryFails(q) \/ Scan(q) \/ RowsFail(q) \/ AllRead(q)

Next ==
    \/ Opening
    \/ \E s \in Savers : Save(s)
    \/ \E q \in Readers : Read(q)
    \/ \E c \in Calls : Cancel(c)
    \/ Crash

Spec == Init /\ [][Next]_vars

------------------------------------------------------------------------------
Row == [saver : Savers, pos : 1 .. MaxRows, currency : Currencies, at : Times,
        id : Nat \ {0}]
Batch == [currency : Currencies, at : Times, size : 0 .. MaxRows]
Args == [currency : Currencies, byDate : BOOLEAN, from : Int, to : Int,
         limit : 1 .. MaxLimit]

\* None stands for what is not there yet.
ASSUME NoneAssumption ==
    /\ None \notin Batch \cup Args \cup {"ok", "error"}
    /\ \A S \in SUBSET Savers : None # S

TypeOK ==
    /\ crashes \in 0 .. MaxCrashes
    /\ opening \in {"start", "off", "failed", "opened", "ready"}
    /\ db \in {"none", "open", "closed"}
    /\ pc \in [Calls -> {"idle", "begin", "insert", "answer", "rollback", "scan", "done"}]
    /\ canceled \in [Calls -> BOOLEAN]
    /\ conn \in SUBSET Calls
    /\ outcome \in [Calls -> {"ok", "error", None}]
    /\ batch \in [Savers -> Batch \cup {None}]
    /\ staged \in [Savers -> SUBSET Row]
    /\ lastId \in Nat
    /\ table \in SUBSET Row
    /\ args \in [Readers -> Args \cup {None}]
    /\ asOf \in [Readers -> SUBSET Row]
    /\ rows \in [Readers -> Seq(Row)]
    /\ rates \in [Readers -> Seq(Row)]

RowsOf(s, S) == {x \in S : x.saver = s}

\* A result is stored with all its rows or not at all, and a save that
\* reported success is stored, wherever statements, cancellations, other
\* transactions and a crash came in between.
AllOrNothing ==
    \A s \in Savers :
        /\ Cardinality(RowsOf(s, table)) \in {0, IF batch[s] = None THEN 0 ELSE Size(s)}
        /\ outcome[s] = "ok" => Cardinality(RowsOf(s, table)) = Size(s)

\* Whatever happened to a call, it has given its connection back: failed
\* calls never drain the pool.
NoConnectionLeak ==
    /\ \A c \in Calls : outcome[c] # None => c \notin conn
    /\ opening = "failed" => db # "open"

\* The rows of T that a query is about.
AskedFor(a, T) ==
    {x \in T : x.currency = a.currency /\ (a.byDate => x.at \in a.from .. a.to - 1)}

\* got lists the newest rows of fits, in order, cut off only by the limit.
IsNewestOf(got, fits, limit) ==
    LET shown == {got[i] : i \in DOMAIN got}
    IN  /\ shown \subseteq fits
        /\ Len(got) = Cardinality(shown)
        /\ Len(got) <= MaxLimit
        /\ Len(got) = Min({Cardinality(fits), limit})
        /\ \A i \in 1 .. Len(got) - 1 : got[i].at >= got[i + 1].at
        /\ \A x \in fits \ shown : \A y \in shown : x.at <= y.at

\* A history that is returned without an error is what was asked for, of the
\* rows stored when the query ran, never cut off by a failure half way.
HistoryIsWhole ==
    \A q \in Readers :
        outcome[q] = "ok" =>
            IsNewestOf(rates[q], AskedFor(args[q], asOf[q]), args[q].limit)

\* The saves persisted in full.  An empty result is nothing to the log.
Persisted == {s \in Savers : batch[s] # None /\ Size(s) > 0
                              /\ Cardinality(RowsOf(s, table)) = Size(s)}

Log == INSTANCE RateLog WITH
    log <- Persisted,
    told <- [s \in Savers |-> IF batch[s] # None /\ Size(s) = 0 THEN None ELSE outcome[s]],
    seen <- [q \in Readers |-> IF args[q] = None THEN None ELSE {x.saver : x \in asOf[q]}],
    read <- [q \in Readers |-> IF outcome[q] = "ok" THEN {x.saver : x \in asOf[q]} ELSE None]

\* The transactions implement the log the aggregator relies on: a save is
\* one step for everyone else, success is never reported for one that is
\* not in the log, and a reader sees the log of one instant.
ImplementsRateLog == Log!Spec
==============================================================================
