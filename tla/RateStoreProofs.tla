---------------------------- MODULE RateStoreProofs ----------------------------
(***************************************************************************)
(* Proofs about RateStore for every set of calls, currencies and instants, *)
(* every size of a result, every limit and every number of crashes.        *)
(***************************************************************************)
EXTENDS RateStore, FiniteSetTheorems, FunctionTheorems, SequenceTheorems, TLAPS

------------------------------------------------------------------------------
(* ORDER BY and LIMIT                                                      *)

DistinctIds(S) == \A x, y \in S : x.id = y.id => x = y

\* The rows of a query by definition: those of T that match, and the first
\* of them in the order of the index.
Fitting(a, T) ==
    {x \in T : x.currency = a.currency /\ (a.byDate => InRange(x, a))}

Page(a, T) ==
    LET S == Fitting(a, T)
    IN  [i \in 1 .. Min({Cardinality(S), a.limit}) |-> CHOOSE x \in S : Rank(x, S) = i]

\* The smaller of two integers.
LEMMA MinOfTwo ==
    ASSUME NEW m \in Int, NEW n \in Int
    PROVE  Min({m, n}) = IF m <= n THEN m ELSE n
BY DEF Min

\* Newer is a strict order of the rows, total where ids are distinct.
LEMMA NewerOrders ==
    ASSUME NEW x \in Row, NEW y \in Row, NEW z \in Row
    PROVE  /\ ~Newer(x, x)
           /\ Newer(x, y) /\ Newer(y, z) => Newer(x, z)
           /\ Newer(x, y) \/ Newer(y, x) \/ x.id = y.id
           /\ Newer(x, y) => x.at >= y.at
<1>1. x.at \in Int /\ y.at \in Int /\ z.at \in Int
  BY StoreAssumption DEF Row
<1>2. x.id \in Int /\ y.id \in Int /\ z.id \in Int
  BY DEF Row
<1> QED
  BY <1>1, <1>2 DEF Newer

\* The rows newer than a row are fewer than those newer than an older row.
LEMMA NewerIsStrict ==
    ASSUME NEW S \in SUBSET Row, IsFiniteSet(S), NEW x \in S, NEW y \in S, Newer(x, y)
    PROVE  Rank(x, S) < Rank(y, S)
<1> DEFINE before(z) == {w \in S : Newer(w, z)}
<1>1. before(x) \subseteq before(y) /\ x \in before(y) /\ x \notin before(x)
  BY NewerOrders
<1>2. IsFiniteSet(before(y)) /\ IsFiniteSet(before(x))
  BY FS_Subset
<1>3. /\ Cardinality(before(x)) <= Cardinality(before(y))
      /\ Cardinality(before(x)) # Cardinality(before(y))
  BY <1>1, <1>2, FS_Subset
<1>4. Cardinality(before(x)) \in Nat /\ Cardinality(before(y)) \in Nat
  BY <1>2, FS_CardinalityType
<1> HIDE DEF before
<1>5. Cardinality(before(x)) + 1 < Cardinality(before(y)) + 1
  BY <1>3, <1>4
<1> QED
  BY <1>5 DEF Rank, before

\* When ids are distinct, Rank numbers the rows of a finite set 1, 2, ...
\* with the newest first: every number is the rank of exactly one row.
LEMMA RankNumbersRows ==
    ASSUME NEW S \in SUBSET Row, IsFiniteSet(S), DistinctIds(S)
    PROVE  /\ \A x \in S : Rank(x, S) \in 1 .. Cardinality(S)
           /\ \A x, y \in S : Rank(x, S) = Rank(y, S) => x = y
           /\ \A i \in 1 .. Cardinality(S) : \E x \in S : Rank(x, S) = i
<1> DEFINE N == Cardinality(S)
           rank == [x \in S |-> Rank(x, S)]
<1>1. N \in Nat
  BY FS_CardinalityType
<1>2. ASSUME NEW x \in S PROVE Rank(x, S) \in 1 .. N
  <2> DEFINE before == {w \in S : Newer(w, x)}
  <2>1. before \subseteq S /\ x \notin before
    BY NewerOrders
  <2>2. IsFiniteSet(before) /\ Cardinality(before) <= N /\ Cardinality(before) # N
    BY <2>1, FS_Subset
  <2>3. Cardinality(before) \in Nat
    BY <2>2, FS_CardinalityType
  <2> HIDE DEF before
  <2>4. Cardinality(before) + 1 \in 1 .. N
    BY <1>1, <2>2, <2>3
  <2> QED
    BY <2>4 DEF Rank, before
<1>3. ASSUME NEW x \in S, NEW y \in S, Rank(x, S) = Rank(y, S) PROVE x = y
  <2>1. ~Newer(x, y) /\ ~Newer(y, x)
    BY <1>1, <1>2, <1>3, NewerIsStrict
  <2>2. x.id = y.id
    BY <2>1, NewerOrders
  <2> QED
    BY <2>2 DEF DistinctIds
<1>4. rank \in Injection(S, 1 .. N)
  BY <1>2, <1>3 DEF Injection, IsInjective
<1>5. IsFiniteSet(1 .. N) /\ Cardinality(1 .. N) = N
  BY <1>1, FS_Interval
<1>6. rank \in Surjection(S, 1 .. N)
  BY <1>4, <1>5, FS_Injection
<1>7. \A i \in 1 .. N : \E x \in S : rank[x] = i
  BY <1>6 DEF Surjection
<1> QED
  BY <1>2, <1>3, <1>7

\* A page is a sequence of matching rows, the i-th of them of rank i, as
\* long as the rows and the limit allow.
LEMMA PageByRank ==
    ASSUME NEW a \in Args, NEW T \in SUBSET Row, IsFiniteSet(T), DistinctIds(T)
    PROVE  LET S == Fitting(a, T) IN
           /\ Page(a, T) \in Seq(Row)
           /\ Len(Page(a, T)) = Min({Cardinality(S), a.limit})
           /\ Len(Page(a, T)) <= Cardinality(S)
           /\ \A i \in 1 .. Len(Page(a, T)) :
                  Page(a, T)[i] \in S /\ Rank(Page(a, T)[i], S) = i
<1> DEFINE S == Fitting(a, T)
           m == Min({Cardinality(S), a.limit})
           pick(i) == CHOOSE x \in S : Rank(x, S) = i
<1>1. S \in SUBSET Row /\ IsFiniteSet(S) /\ DistinctIds(S)
  <2>1. S \in SUBSET T
    BY DEF Fitting
  <2> QED
    BY <2>1, FS_Subset DEF DistinctIds
<1>2. Cardinality(S) \in Nat
  BY <1>1, FS_CardinalityType
<1>3. m \in Nat /\ m <= Cardinality(S)
  <2>1. a.limit \in Nat
    BY StoreAssumption DEF Args
  <2> HIDE DEF S
  <2> QED
    BY <1>2, <2>1, MinOfTwo
<1> HIDE DEF S
<1>4. \A i \in 1 .. Cardinality(S) : \E x \in S : Rank(x, S) = i
  BY <1>1, RankNumbersRows
<1>5. \A i \in 1 .. m : pick(i) \in S /\ Rank(pick(i), S) = i
  <2> SUFFICES ASSUME NEW i \in 1 .. m PROVE pick(i) \in S /\ Rank(pick(i), S) = i
    OBVIOUS
  <2>1. i \in 1 .. Cardinality(S)
    BY <1>2, <1>3
  <2>2. \E x \in S : Rank(x, S) = i
    BY <1>4, <2>1
  <2> QED
    BY <2>2
<1>6. Page(a, T) = [i \in 1 .. m |-> pick(i)]
  BY DEF Page, S
<1> HIDE DEF m, pick
<1>7. Page(a, T) \in Seq(Row) /\ Len(Page(a, T)) = m
  BY <1>1, <1>3, <1>5, <1>6
<1>8. \A i \in 1 .. m : Page(a, T)[i] = pick(i)
  BY <1>6
<1> QED
  BY <1>3, <1>5, <1>7, <1>8 DEF S, m

------------------------------------------------------------------------------
(* The inductive invariant                                                 *)

\* Where a call is, against what it has been given and what it returned.
Calling ==
    /\ \A c \in Calls : outcome[c] # None => pc[c] = "done"
    /\ \A s \in Savers :
           /\ pc[s] = "idle" <=> batch[s] = None
           /\ pc[s] \in {"begin", "insert", "answer", "rollback"} => Size(s) > 0
    /\ \A q \in Readers :
           /\ pc[q] = "idle" => args[q] = None
           /\ pc[q] = "scan" => args[q] # None

\* Only calls between the start and the end of a transaction or of a result
\* hold a connection.
Pooled ==
    /\ \A c \in conn : pc[c] \in {"insert", "answer", "rollback", "scan"}
    /\ opening \in {"start", "failed"} => db # "open"

AllRows == table \cup UNION {staged[s] : s \in Savers}

\* Ids come from one sequence, so that no two rows share one, and a row
\* that is not committed is its saver's own.
Rows ==
    /\ IsFiniteSet(table)
    /\ DistinctIds(AllRows)
    /\ \A x \in AllRows : x.id <= lastId
    /\ \A s \in Savers : IsFiniteSet(staged[s]) /\ \A x \in staged[s] : x.saver = s

\* What the table holds of a save, by where the save is.
Stored ==
    \A s \in Savers :
        /\ pc[s] \in {"idle", "begin", "insert"} => RowsOf(s, table) = {}
        /\ pc[s] = "answer" => Cardinality(RowsOf(s, table)) = Size(s)

\* What a reader has read and has still to read is the page of the rows it
\* saw when the query ran.
Reading ==
    \A q \in Readers :
        /\ args[q] = None => rates[q] = <<>>
        /\ args[q] # None =>
               /\ IsFiniteSet(asOf[q]) /\ DistinctIds(asOf[q])
               /\ rates[q] \o rows[q] = Page(args[q], asOf[q])
        /\ outcome[q] = "ok" => args[q] # None /\ rows[q] = <<>>

IInv == TypeOK /\ Calling /\ Pooled /\ Rows /\ Stored /\ AllOrNothing /\ Reading

LEMMA InitIInv == Init => IInv
<1> SUFFICES ASSUME Init PROVE IInv
  OBVIOUS
<1> USE StoreAssumption, NoneAssumption DEF Init
<1>1. TypeOK
  BY DEF TypeOK
<1>2. Calling /\ Pooled /\ Reading
  BY DEF Calling, Pooled, Reading, Calls
<1>3. Rows
  BY FS_EmptySet DEF Rows, AllRows, DistinctIds
<1>4. Stored /\ AllOrNothing
  <2>1. ASSUME NEW s \in Savers PROVE RowsOf(s, table) = {}
    BY DEF RowsOf
  <2> QED
    BY <2>1, FS_EmptySet DEF Stored, AllOrNothing, Calls
<1> QED
  BY <1>1, <1>2, <1>3, <1>4 DEF IInv

\* The page that a query selects is a sequence of rows.
LEMMA SelectIsPage ==
    ASSUME NEW a PROVE Select(a) = Page(a, table)
BY DEF Select, Page, Matching, Fitting

LEMMA NormalLimit ==
    ASSUME NEW limit \in Int PROVE normalizeLimit(limit) \in 1 .. MaxLimit
BY StoreAssumption, MinOfTwo DEF normalizeLimit

\* The two history queries, as one with a range that History ignores.
Queries(q) ==
    \E k \in Currencies, limit \in Limits, byDate \in BOOLEAN, from \in Int, to \in Int :
        Query(q, k, byDate, from, to, limit)

LEMMA ReadSteps ==
    ASSUME NEW q \in Readers, Read(q)
    PROVE  Queries(q) \/ QueryFails(q) \/ Scan(q) \/ RowsFail(q) \/ AllRead(q)
<1>1. ASSUME NEW k \in Currencies, NEW limit \in Limits, Query(q, k, FALSE, 0, 0, limit)
      PROVE Queries(q)
  <2>1. FALSE \in BOOLEAN /\ 0 \in Int
    OBVIOUS
  <2> QED
    BY <1>1, <2>1, Zenon DEF Queries
<1>2. ASSUME NEW k \in Currencies, NEW limit \in Limits, NEW from \in Times, NEW to \in Times,
             Query(q, k, TRUE, from, to, limit)
      PROVE Queries(q)
  <2>1. TRUE \in BOOLEAN /\ from \in Int /\ to \in Int
    BY StoreAssumption
  <2> QED
    BY <1>2, <2>1, Zenon DEF Queries
<1> QED
  BY <1>1, <1>2 DEF Read

LEMMA TypeStep == IInv /\ [Next]_vars => TypeOK'
<1> SUFFICES ASSUME IInv, [Next]_vars PROVE TypeOK'
  OBVIOUS
<1> USE StoreAssumption, NoneAssumption DEF IInv, TypeOK, Calls, openVars, saveVars, readVars, Goto, Return
<1>1. ASSUME NEW s \in Savers, NEW k \in Currencies, NEW t \in Times, NEW n \in 0 .. MaxRows,
             SaveRates(s, k, t, n)
      PROVE TypeOK'
  <2>1. batch' \in [Savers -> Batch \cup {None}]
    BY <1>1 DEF SaveRates, Batch
  <2> QED
    BY <1>1, <2>1 DEF SaveRates
<1>2. ASSUME NEW s \in Savers, Begin(s) \/ BeginFails(s) PROVE TypeOK'
  BY <1>2 DEF Begin, BeginFails
<1>3. ASSUME NEW s \in Savers, Insert(s) PROVE TypeOK'
  <2> DEFINE row == [saver |-> s, pos |-> Cardinality(staged[s]) + 1,
                     currency |-> batch[s].currency, at |-> batch[s].at, id |-> lastId']
  <2>1. Size(s) \in 1 .. MaxRows /\ batch[s] \in Batch
    BY <1>3 DEF Insert, Calling, Size, Batch
  <2>2. Cardinality(staged[s]) \in Nat
    BY FS_CardinalityType DEF Rows
  <2>3. Cardinality(staged[s]) + 1 \in 1 .. MaxRows
    BY <1>3, <2>1, <2>2 DEF Insert
  <2>4. row \in Row
    BY <1>3, <2>1, <2>3 DEF Insert, Row, Batch
  <2>5. staged' = [staged EXCEPT ![s] = @ \cup {row}]
    BY <1>3 DEF Insert, InTransaction
  <2> HIDE DEF row
  <2> QED
    BY <1>3, <2>4, <2>5 DEF Insert, InTransaction
<1>4. ASSUME NEW s \in Savers, InsertFails(s) \/ AwaitDone(s) PROVE TypeOK'
  BY <1>4 DEF InsertFails, OnInsertError, AwaitDone, Discard, Close
<1>5. ASSUME NEW s \in Savers, Commit(s) PROVE TypeOK'
  BY <1>5 DEF Commit
<1>6. ASSUME NEW s \in Savers, CommitFails(s) PROVE TypeOK'
  BY <1>6 DEF CommitFails, OnCommitError, Discard, Close
<1>7. ASSUME NEW s \in Savers, Committed(s) \/ CommitUnknown(s) \/ Rollback(s) PROVE TypeOK'
  BY <1>7 DEF Committed, CommitUnknown, Rollback, OnCommitError, Discard, Close
<1>8. ASSUME NEW q \in Readers, Queries(q) PROVE TypeOK'
  <2>1. PICK k \in Currencies, limit \in Limits, byDate \in BOOLEAN, from \in Int, to \in Int :
               Query(q, k, byDate, from, to, limit)
    BY <1>8, Zenon DEF Queries
  <2> DEFINE a == [currency |-> k, byDate |-> byDate, from |-> from, to |-> to,
                   limit |-> normalizeLimit(limit)]
  <2>2. a \in Args
    BY NormalLimit DEF Args
  <2>3. args' = [args EXCEPT ![q] = a] /\ args'[q] = a
    BY <2>1 DEF Query
  <2>4. DistinctIds(table) /\ IsFiniteSet(table)
    BY DEF Rows, AllRows, DistinctIds
  <2>5. Select(a) \in Seq(Row)
    BY <2>2, <2>4, SelectIsPage, PageByRank
  <2>6. rows' = [rows EXCEPT ![q] = Select(a)]
    BY <2>1, <2>3 DEF Query
  <2> HIDE DEF a
  <2> QED
    BY <2>1, <2>2, <2>3, <2>5, <2>6 DEF Query
<1>9. ASSUME NEW q \in Readers, Scan(q) PROVE TypeOK'
  <2>1. Head(rows[q]) \in Row /\ Tail(rows[q]) \in Seq(Row)
    BY <1>9, HeadTailProperties DEF Scan
  <2>2. Append(rates[q], Head(rows[q])) \in Seq(Row)
    BY <2>1
  <2> QED
    BY <1>9, <2>1, <2>2 DEF Scan
<1>10. ASSUME NEW q \in Readers, QueryFails(q) \/ RowsFail(q) \/ AllRead(q) PROVE TypeOK'
  BY <1>10 DEF QueryFails, RowsFail, OnRowsError, AllRead, Close
<1>11. ASSUME NEW c \in Calls, Cancel(c) PROVE TypeOK'
  BY <1>11 DEF Cancel
<1>12. CASE Crash
  BY <1>12 DEF Crash
<1>13. CASE Opening
  BY <1>13 DEF Opening, OpenNothing, Open, OpenFails, AfterOpenError, Migrated
<1>14. CASE UNCHANGED vars
  BY <1>14 DEF vars
<1>15. ASSUME NEW s \in Savers, Save(s) PROVE TypeOK'
  BY <1>1, <1>2, <1>3, <1>4, <1>5, <1>6, <1>7, <1>15 DEF Save
<1>16. ASSUME NEW q \in Readers, Read(q) PROVE TypeOK'
  BY <1>8, <1>9, <1>10, <1>16, ReadSteps
<1> QED
  BY <1>11, <1>12, <1>13, <1>14, <1>15, <1>16 DEF Next

LEMMA CallingStep == IInv /\ [Next]_vars => Calling'
<1> SUFFICES ASSUME IInv, [Next]_vars PROVE Calling'
  OBVIOUS
<1> USE StoreAssumption, NoneAssumption
    DEF IInv, TypeOK, Calling, Calls, Size, openVars, saveVars, readVars, Goto, Return
<1>1. ASSUME NEW s \in Savers, NEW k \in Currencies, NEW t \in Times, NEW n \in 0 .. MaxRows,
             SaveRates(s, k, t, n)
      PROVE Calling'
  <2> DEFINE b == [currency |-> k, at |-> t, size |-> n]
  <2>1. b \in Batch
    BY DEF Batch
  <2>2. b # None /\ b.size = n
    BY <2>1
  <2>3. batch' = [batch EXCEPT ![s] = b]
    BY <1>1 DEF SaveRates
  <2>4. pc' = [pc EXCEPT ![s] = IF n = 0 THEN "done" ELSE "begin"]
    BY <1>1 DEF SaveRates
  <2>5. outcome' = [outcome EXCEPT ![s] = IF n = 0 THEN "ok" ELSE @]
    BY <1>1 DEF SaveRates
  <2> HIDE DEF b
  <2>6. args' = args
    BY <1>1 DEF SaveRates
  <2>7. pc[s] = "idle" /\ outcome[s] = None
    BY <1>1 DEF SaveRates
  <2>8. ASSUME NEW c \in Calls PROVE outcome'[c] # None => pc'[c] = "done"
    BY <2>4, <2>5, <2>7
  <2>9. ASSUME NEW x \in Savers
        PROVE /\ pc'[x] = "idle" <=> batch'[x] = None
              /\ pc'[x] \in {"begin", "insert", "answer", "rollback"} => batch'[x].size > 0
    <3>1. CASE x = s
      BY <2>2, <2>3, <2>4, <3>1
    <3>2. CASE x # s
      BY <2>3, <2>4, <3>2
    <3> QED
      BY <3>1, <3>2
  <2>10. ASSUME NEW q \in Readers PROVE pc'[q] = pc[q]
    BY <2>4
  <2> QED
    BY <2>6, <2>8, <2>9, <2>10
<1>2. ASSUME NEW s \in Savers, Begin(s) \/ BeginFails(s) PROVE Calling'
  BY <1>2 DEF Begin, BeginFails
<1>3. ASSUME NEW s \in Savers, Insert(s) \/ AwaitDone(s) PROVE Calling'
  BY <1>3 DEF Insert, AwaitDone
<1>4. ASSUME NEW s \in Savers, InsertFails(s) \/ Commit(s) \/ CommitFails(s) PROVE Calling'
  BY <1>4 DEF InsertFails, OnInsertError, Commit, CommitFails, OnCommitError
<1>5. ASSUME NEW s \in Savers, Committed(s) \/ CommitUnknown(s) \/ Rollback(s) PROVE Calling'
  <2>1. CASE Committed(s)
    BY <2>1 DEF Committed
  <2>2. CASE CommitUnknown(s)
    BY <2>2 DEF CommitUnknown, OnCommitError
  <2>3. CASE Rollback(s)
    BY <2>3 DEF Rollback
  <2> QED
    BY <1>5, <2>1, <2>2, <2>3
<1>6. ASSUME NEW q \in Readers, Queries(q) PROVE Calling'
  <2>1. PICK k \in Currencies, limit \in Limits, byDate \in BOOLEAN, from \in Int, to \in Int :
               Query(q, k, byDate, from, to, limit)
    BY <1>6, Zenon DEF Queries
  <2> DEFINE a == [currency |-> k, byDate |-> byDate, from |-> from, to |-> to,
                   limit |-> normalizeLimit(limit)]
  <2>2. a \in Args
    BY NormalLimit DEF Args
  <2>3. args' = [args EXCEPT ![q] = a] /\ a # None
    BY <2>1, <2>2 DEF Query
  <2> HIDE DEF a
  <2> QED
    BY <2>1, <2>3 DEF Query
<1>7. ASSUME NEW q \in Readers, QueryFails(q) \/ Scan(q) \/ RowsFail(q) \/ AllRead(q) PROVE Calling'
  <2>1. CASE QueryFails(q)
    BY <2>1 DEF QueryFails
  <2>2. CASE Scan(q)
    BY <2>2 DEF Scan
  <2>3. CASE RowsFail(q)
    BY <2>3 DEF RowsFail, OnRowsError
  <2>4. CASE AllRead(q)
    BY <2>4 DEF AllRead
  <2> QED
    BY <1>7, <2>1, <2>2, <2>3, <2>4
<1>8. ASSUME NEW c \in Calls, Cancel(c) PROVE Calling'
  BY <1>8 DEF Cancel
<1>9. CASE Crash
  BY <1>9 DEF Crash
<1>10. CASE Opening
  BY <1>10 DEF Opening, OpenNothing, Open, OpenFails, Migrated
<1>11. CASE UNCHANGED vars
  BY <1>11 DEF vars
<1>12. ASSUME NEW s \in Savers, Save(s) PROVE Calling'
  BY <1>1, <1>2, <1>3, <1>4, <1>5, <1>12 DEF Save
<1>13. ASSUME NEW q \in Readers, Read(q) PROVE Calling'
  BY <1>6, <1>7, <1>13, ReadSteps
<1> QED
  BY <1>8, <1>9, <1>10, <1>11, <1>12, <1>13 DEF Next

LEMMA PooledStep == IInv /\ [Next]_vars => Pooled'
<1> SUFFICES ASSUME IInv, [Next]_vars PROVE Pooled'
  OBVIOUS
<1> USE StoreAssumption
    DEF IInv, TypeOK, Pooled, Calls, openVars, saveVars, readVars, Goto, Return, Discard, Close
<1>1. ASSUME NEW s \in Savers, NEW k \in Currencies, NEW t \in Times, NEW n \in 0 .. MaxRows,
             SaveRates(s, k, t, n)
      PROVE Pooled'
  BY <1>1 DEF SaveRates
<1>2. ASSUME NEW s \in Savers, Begin(s) \/ BeginFails(s) PROVE Pooled'
  BY <1>2 DEF Begin, BeginFails
<1>3. ASSUME NEW s \in Savers, Insert(s) \/ AwaitDone(s) PROVE Pooled'
  BY <1>3 DEF Insert, AwaitDone
<1>4. ASSUME NEW s \in Savers, InsertFails(s) \/ Commit(s) \/ CommitFails(s) PROVE Pooled'
  BY <1>4 DEF InsertFails, OnInsertError, Commit, CommitFails, OnCommitError
<1>5. ASSUME NEW s \in Savers, Committed(s) \/ CommitUnknown(s) \/ Rollback(s) PROVE Pooled'
  BY <1>5 DEF Committed, CommitUnknown, Rollback, OnCommitError
<1>6. ASSUME NEW q \in Readers, Queries(q) PROVE Pooled'
  BY <1>6 DEF Queries, Query
<1>7. ASSUME NEW q \in Readers, QueryFails(q) \/ Scan(q) \/ RowsFail(q) \/ AllRead(q) PROVE Pooled'
  BY <1>7 DEF QueryFails, Scan, RowsFail, OnRowsError, AllRead
<1>8. ASSUME NEW c \in Calls, Cancel(c) PROVE Pooled'
  BY <1>8 DEF Cancel
<1>9. CASE Crash
  BY <1>9 DEF Crash
<1>10. CASE Opening
  BY <1>10 DEF Opening, OpenNothing, Open, OpenFails, AfterOpenError, Migrated
<1>11. CASE UNCHANGED vars
  BY <1>11 DEF vars
<1>12. ASSUME NEW s \in Savers, Save(s) PROVE Pooled'
  BY <1>1, <1>2, <1>3, <1>4, <1>5, <1>12 DEF Save
<1>13. ASSUME NEW q \in Readers, Read(q) PROVE Pooled'
  BY <1>6, <1>7, <1>13, ReadSteps
<1> QED
  BY <1>8, <1>9, <1>10, <1>11, <1>12, <1>13 DEF Next

\* What a step can do to rows: insert one, commit those of a save, or drop
\* the staged rows of some saves.
LEMMA StepOfRows ==
    ASSUME TypeOK, [Next]_vars
    PROVE  \/ \E s \in Savers : Insert(s) \/ Commit(s)
           \/ /\ UNCHANGED <<table, lastId>>
              /\ \A s \in Savers : staged'[s] \in {staged[s], {}}
<1> USE DEF TypeOK, openVars, saveVars, readVars
<1> DEFINE Drops == /\ UNCHANGED <<table, lastId>>
                    /\ \A s \in Savers : staged'[s] \in {staged[s], {}}
<1>1. ASSUME NEW s \in Savers, Save(s) PROVE Insert(s) \/ Commit(s) \/ Drops
  <2>1. CASE \/ \E k \in Currencies, t \in Times, n \in 0 .. MaxRows : SaveRates(s, k, t, n)
             \/ Begin(s) \/ BeginFails(s) \/ InsertFails(s)
    BY <2>1 DEF SaveRates, Begin, BeginFails, InsertFails
  <2>2. CASE AwaitDone(s) \/ CommitFails(s)
    BY <2>2 DEF AwaitDone, CommitFails, Discard
  <2>3. CASE Committed(s) \/ CommitUnknown(s) \/ Rollback(s)
    BY <2>3 DEF Committed, CommitUnknown, Rollback, Discard
  <2> QED
    BY <1>1, <2>1, <2>2, <2>3 DEF Save
<1>2. ASSUME NEW q \in Readers, Read(q) PROVE Drops
  BY <1>2, ReadSteps DEF Queries, Query, QueryFails, Scan, RowsFail, AllRead
<1>3. CASE Opening \/ (\E c \in Calls : Cancel(c)) \/ Crash \/ UNCHANGED vars
  BY <1>3 DEF Opening, OpenNothing, Open, OpenFails, Migrated, Cancel, Crash, vars
<1> QED
  BY <1>1, <1>2, <1>3 DEF Next

LEMMA RowsStep == IInv /\ [Next]_vars => Rows'
<1> SUFFICES ASSUME IInv, [Next]_vars PROVE Rows'
  OBVIOUS
<1> USE DEF IInv, TypeOK
<1>1. ASSUME NEW s \in Savers, Insert(s) PROVE Rows'
  <2> DEFINE row == [saver |-> s, pos |-> Cardinality(staged[s]) + 1,
                     currency |-> batch[s].currency, at |-> batch[s].at, id |-> lastId']
  <2>1. /\ row.id = lastId + 1 /\ row.saver = s
        /\ staged' = [staged EXCEPT ![s] = @ \cup {row}] /\ table' = table /\ lastId' = lastId + 1
    BY <1>1 DEF Insert, InTransaction
  <2> HIDE DEF row
  <2>2. AllRows' = AllRows \cup {row}
    BY <2>1 DEF AllRows
  <2>3. \A x \in AllRows : x.id \in Nat /\ x.id <= lastId
    BY DEF Rows, AllRows, Row
  <2>4. DistinctIds(AllRows \cup {row})
    BY <2>1, <2>3 DEF Rows, DistinctIds
  <2>5. \A x \in AllRows \cup {row} : x.id <= lastId + 1
    BY <2>1, <2>3
  <2>6. ASSUME NEW t \in Savers
        PROVE IsFiniteSet(staged'[t]) /\ \A x \in staged'[t] : x.saver = t
    <3>1. IsFiniteSet(staged[t] \cup {row})
      BY FS_AddElement DEF Rows
    <3> QED
      BY <2>1, <3>1 DEF Rows
  <2> QED
    BY <2>1, <2>2, <2>4, <2>5, <2>6 DEF Rows
<1>2. ASSUME NEW s \in Savers, Commit(s) PROVE Rows'
  <2>1. /\ table' = table \cup staged[s] /\ staged' = [staged EXCEPT ![s] = {}]
        /\ lastId' = lastId
    BY <1>2 DEF Commit, saveVars
  <2>2. IsFiniteSet(table')
    BY <2>1, FS_Union DEF Rows
  <2>3. AllRows' \subseteq AllRows
    BY <2>1 DEF AllRows
  <2>4. \A t \in Savers : IsFiniteSet(staged'[t]) /\ \A x \in staged'[t] : x.saver = t
    BY <2>1, FS_EmptySet DEF Rows
  <2> QED
    BY <2>1, <2>2, <2>3, <2>4 DEF Rows, DistinctIds
<1>3. CASE UNCHANGED <<table, lastId>> /\ \A s \in Savers : staged'[s] \in {staged[s], {}}
  <2>1. AllRows' \subseteq AllRows
    BY <1>3 DEF AllRows
  <2>2. \A t \in Savers : IsFiniteSet(staged'[t]) /\ \A x \in staged'[t] : x.saver = t
    BY <1>3, FS_EmptySet DEF Rows
  <2> QED
    BY <1>3, <2>1, <2>2 DEF Rows, DistinctIds
<1> QED
  BY <1>1, <1>2, <1>3, StepOfRows

\* What the table holds of one save; Stored and AllOrNothing say it of all.
StoredOf(s) ==
    /\ pc[s] \in {"idle", "begin", "insert"} => RowsOf(s, table) = {}
    /\ pc[s] = "answer" => Cardinality(RowsOf(s, table)) = Size(s)
    /\ Cardinality(RowsOf(s, table)) \in {0, IF batch[s] = None THEN 0 ELSE Size(s)}
    /\ outcome[s] = "ok" => Cardinality(RowsOf(s, table)) = Size(s)

LEMMA StoredStep == IInv /\ [Next]_vars => Stored' /\ AllOrNothing'
<1> SUFFICES ASSUME IInv, [Next]_vars PROVE \A x \in Savers : StoredOf(x)'
  BY DEF Stored, AllOrNothing, StoredOf
<1> USE StoreAssumption, NoneAssumption DEF IInv, TypeOK, Calls, openVars, saveVars, readVars
<1>0. \A x \in Savers : StoredOf(x)
  BY DEF Stored, AllOrNothing, StoredOf
\* A step of another call, or one that returns no success, disturbs nothing.
<1>1. ASSUME UNCHANGED <<table, batch>>, NEW x \in Savers,
             \/ pc'[x] = pc[x] /\ outcome'[x] = outcome[x]
             \/ pc'[x] \in {"rollback", "done"} /\ outcome'[x] \in {outcome[x], "error"}
      PROVE StoredOf(x)'
  BY <1>0, <1>1 DEF StoredOf, RowsOf, Size
<1>2. ASSUME NEW s \in Savers, NEW k \in Currencies, NEW t \in Times, NEW n \in 0 .. MaxRows,
             SaveRates(s, k, t, n), NEW x \in Savers
      PROVE StoredOf(x)'
  <2>1. CASE x = s
    <3>1. pc[s] = "idle" /\ table' = table
      BY <1>2 DEF SaveRates
    <3>2. RowsOf(s, table) = {} /\ RowsOf(s, table') = {}
      BY <1>0, <3>1 DEF StoredOf
    <3>3. Cardinality(RowsOf(s, table')) = 0
      BY <3>2, FS_EmptySet
    <3>4. batch'[s].size = n
      BY <1>2 DEF SaveRates
    <3>5. pc'[s] = IF n = 0 THEN "done" ELSE "begin"
      BY <1>2 DEF SaveRates, Return, Goto
    <3>6. outcome'[s] = IF n = 0 THEN "ok" ELSE outcome[s]
      BY <1>2 DEF SaveRates, Return, Goto
    <3>7. outcome[s] = None
      BY <3>1 DEF Calling
    <3> QED
      BY <2>1, <3>2, <3>3, <3>4, <3>5, <3>6, <3>7 DEF StoredOf, Size
  <2>2. CASE x # s
    <3>1. pc'[x] = pc[x] /\ outcome'[x] = outcome[x] /\ batch'[x] = batch[x] /\ table' = table
      BY <1>2, <2>2 DEF SaveRates, Return, Goto
    <3> QED
      BY <1>0, <3>1 DEF StoredOf, RowsOf, Size
  <2> QED
    BY <2>1, <2>2
<1>3. ASSUME NEW s \in Savers, Begin(s), NEW x \in Savers PROVE StoredOf(x)'
  <2>1. UNCHANGED <<table, batch, outcome>> /\ pc[s] = "begin" /\ pc' = [pc EXCEPT ![s] = "insert"]
    BY <1>3 DEF Begin, Goto
  <2> QED
    BY <1>0, <2>1 DEF StoredOf, RowsOf, Size
<1>4. ASSUME NEW s \in Savers, NEW x \in Savers,
             \/ BeginFails(s) \/ Insert(s) \/ InsertFails(s) \/ AwaitDone(s)
             \/ CommitFails(s) \/ CommitUnknown(s) \/ Rollback(s)
      PROVE StoredOf(x)'
  <2>1. CASE BeginFails(s) \/ Rollback(s)
    BY <1>1, <2>1 DEF BeginFails, Rollback, Return
  <2>2. CASE Insert(s) \/ AwaitDone(s)
    BY <1>1, <2>2 DEF Insert, InTransaction, AwaitDone
  <2>3. CASE InsertFails(s) \/ CommitFails(s) \/ CommitUnknown(s)
    BY <1>1, <2>3 DEF InsertFails, OnInsertError, CommitFails, CommitUnknown, OnCommitError, Goto
  <2> QED
    BY <1>4, <2>1, <2>2, <2>3
<1>5. ASSUME NEW s \in Savers, Commit(s), NEW x \in Savers PROVE StoredOf(x)'
  <2>1. /\ table' = table \cup staged[s] /\ batch' = batch /\ outcome' = outcome
        /\ pc[s] = "insert" /\ pc' = [pc EXCEPT ![s] = "answer"]
        /\ Cardinality(staged[s]) = Size(s)
    BY <1>5 DEF Commit, Goto
  <2>2. \A y \in staged[s] : y.saver = s
    BY DEF Rows
  <2>3. CASE x = s
    <3>1. RowsOf(s, table') = RowsOf(s, table) \cup staged[s]
      BY <2>1, <2>2 DEF RowsOf
    <3>2. RowsOf(s, table') = staged[s]
      BY <1>0, <2>1, <3>1 DEF StoredOf
    <3>3. batch[s] # None /\ outcome[s] = None
      BY <2>1 DEF Calling
    <3> QED
      BY <2>1, <2>3, <3>2, <3>3 DEF StoredOf, Size
  <2>4. CASE x # s
    <3>1. RowsOf(x, table') = RowsOf(x, table)
      BY <2>1, <2>2, <2>4 DEF RowsOf
    <3>2. pc'[x] = pc[x]
      BY <2>1, <2>4
    <3> QED
      BY <1>0, <2>1, <3>1, <3>2 DEF StoredOf, Size
  <2> QED
    BY <2>3, <2>4
<1>6. ASSUME NEW s \in Savers, Committed(s), NEW x \in Savers PROVE StoredOf(x)'
  <2>1. /\ UNCHANGED <<table, batch>> /\ pc[s] = "answer" /\ pc' = [pc EXCEPT ![s] = "done"]
        /\ outcome' = [outcome EXCEPT ![s] = "ok"]
    BY <1>6 DEF Committed, Return
  <2> QED
    BY <1>0, <2>1 DEF StoredOf, RowsOf, Size
<1>7. ASSUME NEW q \in Readers, Read(q), NEW x \in Savers PROVE StoredOf(x)'
  <2>1. UNCHANGED <<table, batch>> /\ pc'[x] = pc[x] /\ outcome'[x] = outcome[x]
    BY <1>7, ReadSteps
       DEF Queries, Query, QueryFails, Scan, RowsFail, OnRowsError, AllRead, Goto, Return
  <2> QED
    BY <1>1, <2>1
<1>8. ASSUME Opening \/ (\E c \in Calls : Cancel(c)) \/ Crash \/ UNCHANGED vars, NEW x \in Savers
      PROVE StoredOf(x)'
  <2>1. UNCHANGED <<table, batch, outcome>> /\ pc'[x] \in {pc[x], "done"}
    BY <1>8 DEF Opening, OpenNothing, Open, OpenFails, Migrated, Cancel, Crash, vars
  <2> QED
    BY <1>1, <2>1
<1>9. ASSUME NEW s \in Savers, Save(s), NEW x \in Savers PROVE StoredOf(x)'
  BY <1>2, <1>3, <1>4, <1>5, <1>6, <1>9 DEF Save
<1> QED
  BY <1>7, <1>8, <1>9 DEF Next

\* Moving the head of one sequence to the end of another keeps them joined.
LEMMA MovingTheHead ==
    ASSUME NEW S, NEW u \in Seq(S), NEW v \in Seq(S), v # <<>>
    PROVE  Append(u, Head(v)) \o Tail(v) = u \o v
<1> DEFINE h == Append(u, Head(v))
           t == Tail(v)
<1>1. /\ h \in Seq(S) /\ Len(h) = Len(u) + 1
      /\ \A i \in 1 .. Len(u) : h[i] = u[i]
      /\ h[Len(u) + 1] = v[1]
  BY HeadTailProperties
<1>2. t \in Seq(S) /\ Len(t) = Len(v) - 1 /\ \A i \in 1 .. Len(t) : t[i] = v[i + 1]
  BY HeadTailProperties
<1>3. Len(u) \in Nat /\ Len(v) \in Nat \ {0}
  BY LenProperties, EmptySeq
<1> HIDE DEF h, t
<1>4. /\ h \o t \in Seq(S) /\ Len(h \o t) = Len(u) + Len(v)
      /\ \A i \in 1 .. Len(u) + Len(v) :
             (h \o t)[i] = IF i <= Len(u) + 1 THEN h[i] ELSE t[i - (Len(u) + 1)]
  <2>1. Len(h) + Len(t) = Len(u) + Len(v)
    BY <1>1, <1>2, <1>3
  <2>2. /\ h \o t \in Seq(S) /\ Len(h \o t) = Len(h) + Len(t)
        /\ \A i \in 1 .. Len(h) + Len(t) :
               (h \o t)[i] = IF i <= Len(h) THEN h[i] ELSE t[i - Len(h)]
    <3>1. h \in Seq(S) /\ t \in Seq(S)
      BY <1>1, <1>2
    <3> QED
      BY <3>1, ConcatProperties
  <2> QED
    BY <1>1, <2>1, <2>2
<1>5. /\ u \o v \in Seq(S) /\ Len(u \o v) = Len(u) + Len(v)
      /\ \A i \in 1 .. Len(u) + Len(v) :
             (u \o v)[i] = IF i <= Len(u) THEN u[i] ELSE v[i - Len(u)]
  BY ConcatProperties
<1>6. ASSUME NEW i \in 1 .. Len(u) + Len(v) PROVE (h \o t)[i] = (u \o v)[i]
  <2>1. CASE i <= Len(u)
    BY <1>1, <1>3, <1>4, <1>5, <2>1
  <2>2. CASE i = Len(u) + 1
    BY <1>1, <1>3, <1>4, <1>5, <2>2
  <2>3. CASE i > Len(u) + 1
    <3>1. i - (Len(u) + 1) \in 1 .. Len(t)
      BY <1>2, <1>3, <2>3
    <3>2. t[i - (Len(u) + 1)] = v[i - Len(u)]
      BY <1>2, <1>3, <2>3, <3>1
    <3> QED
      BY <1>3, <1>4, <1>5, <2>3, <3>2
  <2>4. i \in Nat /\ (i <= Len(u) \/ i = Len(u) + 1 \/ i > Len(u) + 1)
    BY <1>3
  <2> QED
    BY <2>1, <2>2, <2>3, <2>4
<1>7. h \o t = u \o v
  BY <1>4, <1>5, <1>6, SeqEqual
<1> QED
  BY <1>7 DEF h, t

\* What one reader has read; Reading says it of all.
ReadingOf(q) ==
    /\ args[q] = None => rates[q] = <<>>
    /\ args[q] # None =>
           /\ IsFiniteSet(asOf[q]) /\ DistinctIds(asOf[q])
           /\ rates[q] \o rows[q] = Page(args[q], asOf[q])
    /\ outcome[q] = "ok" => args[q] # None /\ rows[q] = <<>>

LEMMA ReadingStep == IInv /\ [Next]_vars => Reading'
<1> SUFFICES ASSUME IInv, [Next]_vars, NEW r \in Readers PROVE ReadingOf(r)'
  BY DEF Reading, ReadingOf
<1> USE StoreAssumption, NoneAssumption DEF IInv, TypeOK, Calls, openVars, saveVars, readVars
<1>0. \A q \in Readers : ReadingOf(q)
  BY DEF Reading, ReadingOf
<1>1. ASSUME args'[r] = args[r], asOf'[r] = asOf[r], rows'[r] = rows[r], rates'[r] = rates[r],
             outcome'[r] \in {outcome[r], "error"}
      PROVE ReadingOf(r)'
  BY <1>0, <1>1 DEF ReadingOf
<1>2. ASSUME NEW q \in Readers, Queries(q) PROVE ReadingOf(r)'
  <2>1. PICK k \in Currencies, limit \in Limits, byDate \in BOOLEAN, from \in Int, to \in Int :
               Query(q, k, byDate, from, to, limit)
    BY <1>2, Zenon DEF Queries
  <2> DEFINE a == [currency |-> k, byDate |-> byDate, from |-> from, to |-> to,
                   limit |-> normalizeLimit(limit)]
  <2>2. a \in Args
    BY NormalLimit DEF Args
  <2>3. /\ args' = [args EXCEPT ![q] = a] /\ args'[q] = a
        /\ asOf' = [asOf EXCEPT ![q] = table] /\ rates' = rates /\ outcome' = outcome
    BY <2>1 DEF Query, Goto
  <2>4. rows' = [rows EXCEPT ![q] = Page(a, table)]
    BY <2>1, <2>3, SelectIsPage DEF Query
  <2>5. DistinctIds(table) /\ IsFiniteSet(table)
    BY DEF Rows, AllRows, DistinctIds
  <2>6. rates[q] = <<>> /\ outcome[q] = None
    BY <1>0, <2>1 DEF Query, Calling, ReadingOf
  <2>7. <<>> \o Page(a, table) = Page(a, table)
    BY <2>2, <2>5, PageByRank, ConcatEmptySeq
  <2> HIDE DEF a
  <2>8. CASE r = q
    BY <2>2, <2>3, <2>4, <2>5, <2>6, <2>7, <2>8 DEF ReadingOf
  <2>9. CASE r # q
    BY <1>1, <2>3, <2>4, <2>9
  <2> QED
    BY <2>8, <2>9
<1>3. ASSUME NEW q \in Readers, Scan(q) PROVE ReadingOf(r)'
  <2>1. /\ pc[q] = "scan" /\ rows[q] # <<>>
        /\ rates' = [rates EXCEPT ![q] = Append(@, Head(rows[q]))]
        /\ rows' = [rows EXCEPT ![q] = Tail(@)]
        /\ UNCHANGED <<args, asOf, outcome>>
    BY <1>3 DEF Scan
  <2>2. CASE r = q
    <3>0. rates'[q] = Append(rates[q], Head(rows[q])) /\ rows'[q] = Tail(rows[q])
      BY <2>1
    <3>1. rates'[q] \o rows'[q] = rates[q] \o rows[q]
      BY <2>1, <3>0, MovingTheHead
    <3>2. args[q] # None /\ outcome[q] = None
      BY <2>1 DEF Calling
    <3> QED
      BY <1>0, <2>1, <2>2, <3>1, <3>2 DEF ReadingOf
  <2>3. CASE r # q
    BY <1>1, <2>1, <2>3
  <2> QED
    BY <2>2, <2>3
<1>4. ASSUME NEW q \in Readers, AllRead(q) PROVE ReadingOf(r)'
  <2>1. /\ pc[q] = "scan" /\ rows[q] = <<>>
        /\ outcome' = [outcome EXCEPT ![q] = "ok"]
        /\ UNCHANGED <<args, asOf, rates, rows>>
    BY <1>4 DEF AllRead, Return
  <2>2. args[q] # None
    BY <2>1 DEF Calling
  <2> QED
    BY <1>0, <2>1, <2>2 DEF ReadingOf
<1>5. ASSUME NEW q \in Readers, QueryFails(q) \/ RowsFail(q) PROVE ReadingOf(r)'
  BY <1>1, <1>5 DEF QueryFails, RowsFail, OnRowsError, Return
<1>6. ASSUME NEW s \in Savers, Save(s) PROVE ReadingOf(r)'
  <2>1. UNCHANGED readVars
    BY <1>6 DEF Save, SaveRates, Begin, BeginFails, Insert, InsertFails, AwaitDone, Commit,
                CommitFails, Committed, CommitUnknown, Rollback
  <2>2. outcome'[r] = outcome[r]
    BY <1>6 DEF Save, SaveRates, Begin, BeginFails, Insert, InsertFails, OnInsertError, AwaitDone,
                Commit, CommitFails, OnCommitError, Committed, CommitUnknown, Rollback, Goto, Return
  <2> QED
    BY <1>1, <2>1, <2>2
<1>7. CASE Opening \/ (\E c \in Calls : Cancel(c)) \/ Crash \/ UNCHANGED vars
  BY <1>1, <1>7 DEF Opening, OpenNothing, Open, OpenFails, Migrated, Cancel, Crash, vars
<1>8. ASSUME NEW q \in Readers, Read(q) PROVE ReadingOf(r)'
  BY <1>2, <1>3, <1>4, <1>5, <1>8, ReadSteps
<1> QED
  BY <1>6, <1>7, <1>8 DEF Next

LEMMA NextIInv == IInv /\ [Next]_vars => IInv'
BY TypeStep, CallingStep, PooledStep, RowsStep, StoredStep, ReadingStep DEF IInv

\* The inductive invariant holds in every reachable state.
THEOREM IInvHolds == Spec => []IInv
  BY InitIInv, NextIInv, PTL DEF Spec

\* Type correctness of the store.
THEOREM TypeCorrect == Spec => []TypeOK
<1>1. IInv => TypeOK
  BY DEF IInv
<1> QED
  BY <1>1, IInvHolds, PTL

\* A result is stored with all its rows or not at all, and a save that
\* reported success is stored, for any number of concurrent saves and
\* readers, any cancellation and any number of crashes.
THEOREM SavesAreAtomic == Spec => []AllOrNothing
<1>1. IInv => AllOrNothing
  BY DEF IInv
<1> QED
  BY <1>1, IInvHolds, PTL

\* A call that returned holds no connection, and an opening that failed left
\* no database handle open.
THEOREM ConnectionsComeBack == Spec => []NoConnectionLeak
<1>1. IInv => NoConnectionLeak
  BY DEF IInv, TypeOK, Calling, Pooled, NoConnectionLeak
<1> QED
  BY <1>1, IInvHolds, PTL

------------------------------------------------------------------------------
(* Histories                                                               *)

\* A sequence that repeats nothing is as long as the set of what is in it.
LEMMA LengthOfDistinct ==
    ASSUME NEW S, NEW seq \in Seq(S),
           \A i, j \in 1 .. Len(seq) : seq[i] = seq[j] => i = j
    PROVE  LET shown == {seq[i] : i \in DOMAIN seq}
           IN  IsFiniteSet(shown) /\ Cardinality(shown) = Len(seq)
<1> DEFINE D == 1 .. Len(seq)
           shown == {seq[i] : i \in D}
<1>1. Len(seq) \in Nat /\ DOMAIN seq = D
  BY LenProperties
<1>2. IsFiniteSet(D) /\ Cardinality(D) = Len(seq)
  BY <1>1, FS_Interval
<1>3. [i \in D |-> seq[i]] \in Bijection(D, shown)
  BY DEF Bijection, Injection, IsInjective, Surjection
<1>4. ExistsBijection(D, shown)
  BY <1>3 DEF ExistsBijection
<1>5. IsFiniteSet(shown) /\ Cardinality(shown) = Cardinality(D)
  BY <1>2, <1>4, FS_Bijection
<1> QED
  BY <1>1, <1>2, <1>5

\* Everything that is asked of a history, for the page of a set of rows.
LEMMA PageIsWhole ==
    ASSUME NEW a \in Args, NEW T \in SUBSET Row, IsFiniteSet(T), DistinctIds(T)
    PROVE  IsNewestOf(Page(a, T), AskedFor(a, T), a.limit)
<1> DEFINE S == Fitting(a, T)
           got == Page(a, T)
           shown == {got[i] : i \in DOMAIN got}
<1>1. AskedFor(a, T) = S
  <2>1. a.from \in Int /\ a.to \in Int
    BY DEF Args
  <2>2. ASSUME NEW x \in T PROVE x.at \in a.from .. a.to - 1 <=> InRange(x, a)
    <3>1. x.at \in Int
      BY StoreAssumption DEF Row
    <3> QED
      BY <2>1, <3>1 DEF InRange
  <2> QED
    BY <2>2 DEF Fitting, AskedFor
<1>2. S \in SUBSET Row /\ IsFiniteSet(S) /\ DistinctIds(S)
  <2>1. S \in SUBSET T
    BY DEF Fitting
  <2> QED
    BY <2>1, FS_Subset DEF DistinctIds
<1>3. /\ got \in Seq(Row) /\ Len(got) = Min({Cardinality(S), a.limit})
      /\ Len(got) <= Cardinality(S)
      /\ \A i \in 1 .. Len(got) : got[i] \in S /\ Rank(got[i], S) = i
  BY PageByRank
<1>4. Cardinality(S) \in Nat /\ Len(got) \in Nat /\ DOMAIN got = 1 .. Len(got)
  BY <1>2, <1>3, FS_CardinalityType, LenProperties
<1> HIDE DEF got, S
<1>5. shown \subseteq S
  BY <1>3, <1>4
<1>6. Len(got) = Cardinality(shown)
  <2>1. \A i, j \in 1 .. Len(got) : got[i] = got[j] => i = j
    BY <1>3
  <2> QED
    BY <1>3, <2>1, LengthOfDistinct
<1>7. Len(got) <= MaxLimit
  <2>1. a.limit \in Nat /\ a.limit <= MaxLimit
    BY StoreAssumption DEF Args
  <2> QED
    BY <1>3, <1>4, <2>1, StoreAssumption, MinOfTwo
<1>8. ASSUME NEW x \in S, NEW y \in S, Rank(x, S) < Rank(y, S) PROVE x.at >= y.at
  <2>1. Rank(x, S) \in Nat /\ Rank(y, S) \in Nat
    BY <1>2, RankNumbersRows
  <2>2. ~Newer(y, x)
    BY <1>2, <1>8, <2>1, NewerIsStrict
  <2>3. x # y
    BY <1>8, <2>1
  <2>4. x \in Row /\ y \in Row /\ x.id # y.id
    BY <1>2, <2>3 DEF DistinctIds
  <2> QED
    BY <2>2, <2>4, NewerOrders
<1>9. ASSUME NEW i \in 1 .. Len(got) - 1 PROVE got[i].at >= got[i + 1].at
  <2>1. i \in 1 .. Len(got) /\ i + 1 \in 1 .. Len(got) /\ i < i + 1
    BY <1>4
  <2> QED
    BY <1>3, <1>8, <2>1
<1>10. ASSUME NEW x \in S \ shown, NEW y \in shown PROVE x.at <= y.at
  <2>1. PICK i \in 1 .. Len(got) : y = got[i]
    BY <1>4
  <2>2. y \in S /\ Rank(y, S) = i
    BY <1>3, <2>1
  <2>3. Rank(x, S) \in 1 .. Cardinality(S)
    BY <1>2, RankNumbersRows
  <2>4. Rank(x, S) \notin 1 .. Len(got)
    <3>1. SUFFICES ASSUME Rank(x, S) \in 1 .. Len(got) PROVE FALSE
      OBVIOUS
    <3>2. got[Rank(x, S)] \in S /\ Rank(got[Rank(x, S)], S) = Rank(x, S)
      BY <1>3, <3>1
    <3>3. got[Rank(x, S)] = x
      BY <1>2, <3>2, RankNumbersRows
    <3> QED
      BY <1>4, <3>1, <3>3
  <2>5. Rank(y, S) < Rank(x, S)
    BY <1>4, <2>2, <2>3, <2>4
  <2>6. y.at >= x.at
    BY <1>8, <2>2, <2>5
  <2>7. x.at \in Int /\ y.at \in Int
    BY <1>2, <2>2, StoreAssumption DEF Row
  <2> QED
    BY <2>6, <2>7
<1> QED
  BY <1>1, <1>3, <1>5, <1>6, <1>7, <1>9, <1>10 DEF got, IsNewestOf

\* A history returned without an error is what was asked for: the newest of
\* the matching rows that were stored when its query ran, in order, cut off
\* only by the limit, for any table, range and limit.
THEOREM HistoriesAreWhole == Spec => []HistoryIsWhole
<1>1. IInv => HistoryIsWhole
  <2> SUFFICES ASSUME IInv, NEW q \in Readers, outcome[q] = "ok"
               PROVE  IsNewestOf(rates[q], AskedFor(args[q], asOf[q]), args[q].limit)
    BY DEF HistoryIsWhole
  <2>1. args[q] # None /\ rows[q] = <<>>
    BY DEF IInv, Reading
  <2>2. rates[q] \o rows[q] = Page(args[q], asOf[q]) /\ IsFiniteSet(asOf[q]) /\ DistinctIds(asOf[q])
    BY <2>1 DEF IInv, Reading
  <2>3. rates[q] \in Seq(Row) /\ args[q] \in Args /\ asOf[q] \in SUBSET Row
    BY <2>1 DEF IInv, TypeOK
  <2>4. rates[q] \o <<>> = rates[q]
    BY <2>3, ConcatEmptySeq
  <2> QED
    BY <2>1, <2>2, <2>3, <2>4, PageIsWhole
<1> QED
  BY <1>1, IInvHolds, PTL

------------------------------------------------------------------------------
(* The transactions implement RateLog                                      *)

Told == [s \in Savers |-> IF batch[s] # None /\ Size(s) = 0 THEN None ELSE outcome[s]]
Seen == [q \in Readers |-> IF args[q] = None THEN None ELSE {x.saver : x \in asOf[q]}]
ReadBack == [q \in Readers |-> IF outcome[q] = "ok" THEN {x.saver : x \in asOf[q]} ELSE None]

\* The savers of the committed rows are those that are persisted in full.
LEMMA TableShowsPersisted ==
    ASSUME IInv PROVE {x.saver : x \in table} = Persisted
<1> USE DEF IInv, TypeOK, Calls
<1>1. ASSUME NEW x \in table PROVE x.saver \in Persisted
  <2>1. x.saver \in Savers /\ x \in RowsOf(x.saver, table)
    BY <1>1 DEF Row, RowsOf
  <2>2. IsFiniteSet(RowsOf(x.saver, table))
    BY FS_Subset DEF RowsOf, Rows
  <2>3. Cardinality(RowsOf(x.saver, table)) # 0
    BY <2>1, <2>2, FS_EmptySet
  <2>4. batch[x.saver] # None /\ Cardinality(RowsOf(x.saver, table)) = Size(x.saver)
    BY <2>1, <2>3 DEF AllOrNothing
  <2>5. Size(x.saver) \in Nat
    BY <2>1, <2>4, StoreAssumption DEF Batch, Size
  <2> QED
    BY <2>1, <2>3, <2>4, <2>5 DEF Persisted
<1>2. ASSUME NEW s \in Persisted PROVE \E x \in table : x.saver = s
  <2>1. s \in Savers /\ Size(s) > 0 /\ Cardinality(RowsOf(s, table)) = Size(s)
    BY DEF Persisted
  <2>2. RowsOf(s, table) # {}
    <3>1. Cardinality({}) = 0
      BY FS_EmptySet
    <3>2. Size(s) \in Int
      BY StoreAssumption DEF Persisted, Batch, Size
    <3>3. Size(s) # 0
      BY <2>1, <3>2
    <3> QED
      BY <2>1, <3>1, <3>3
  <2> QED
    BY <2>2 DEF RowsOf
<1> QED
  BY <1>1, <1>2

\* A step that commits nothing, starts no save and returns nothing to a
\* saver leaves the log and what savers were told.
LEMMA LogUnchanged ==
    ASSUME UNCHANGED <<table, batch>>, \A s \in Savers : outcome'[s] = outcome[s]
    PROVE  Persisted' = Persisted /\ Told' = Told
BY DEF Persisted, Told, RowsOf, Size

\* So for readers.
LEMMA ViewsUnchanged ==
    ASSUME UNCHANGED <<args, asOf>>, \A q \in Readers : outcome'[q] = outcome[q]
    PROVE  Seen' = Seen /\ ReadBack' = ReadBack
BY DEF Seen, ReadBack

LEMMA InitRefines == Init => Log!Init
<1> SUFFICES ASSUME Init PROVE Log!Init
  OBVIOUS
<1>1. Persisted = {} /\ Told = [s \in Savers |-> None]
  BY DEF Init, Persisted, Told, Calls
<1>2. Seen = [q \in Readers |-> None] /\ ReadBack = [q \in Readers |-> None]
  BY NoneAssumption DEF Init, Seen, ReadBack, Calls
<1> QED
  BY <1>1, <1>2 DEF Log!Init, Told, Seen, ReadBack

\* A saver's step is a Persist, a Confirm, a Fail or nothing in the log.
LEMMA SaveRefines ==
    ASSUME IInv, NEW s \in Savers, Save(s)
    PROVE  [Log!Next]_(Log!vars)
<1> USE StoreAssumption, NoneAssumption DEF IInv, TypeOK, Calls, openVars, saveVars, readVars
<1>1. UNCHANGED <<args, asOf>> /\ \A q \in Readers : outcome'[q] = outcome[q]
  BY DEF Save, SaveRates, Begin, BeginFails, Insert, InsertFails, OnInsertError, AwaitDone,
         Commit, CommitFails, OnCommitError, Committed, CommitUnknown, Rollback, Goto, Return
<1>2. Seen' = Seen /\ ReadBack' = ReadBack
  BY <1>1, ViewsUnchanged
<1>3. ASSUME Persisted' = Persisted, Told' = Told PROVE UNCHANGED Log!vars
  BY <1>2, <1>3 DEF Log!vars, Told, Seen, ReadBack
<1>4. CASE \E k \in Currencies, t \in Times, n \in 0 .. MaxRows : SaveRates(s, k, t, n)
  <2>1. PICK k \in Currencies, t \in Times, n \in 0 .. MaxRows : SaveRates(s, k, t, n)
    BY <1>4
  <2>2. /\ pc[s] = "idle" /\ table' = table
        /\ \A x \in Savers \ {s} : batch'[x] = batch[x] /\ outcome'[x] = outcome[x]
        /\ batch'[s] = [currency |-> k, at |-> t, size |-> n]
        /\ outcome'[s] = IF n = 0 THEN "ok" ELSE outcome[s]
    BY <2>1 DEF SaveRates, Return, Goto
  <2> DEFINE b == [currency |-> k, at |-> t, size |-> n]
  <2>3. b # None /\ b.size = n
    BY DEF Batch
  <2> HIDE DEF b
  <2>4. batch'[s] # None /\ batch'[s].size = n
    BY <2>2, <2>3 DEF b
  <2>5. batch[s] = None /\ outcome[s] = None /\ RowsOf(s, table) = {}
    BY <2>2 DEF Calling, Stored
  <2>6. Cardinality(RowsOf(s, table')) = 0
    BY <2>2, <2>5, FS_EmptySet
  <2>7. Persisted' = Persisted
    <3>1. s \notin Persisted /\ s \notin Persisted'
      BY <2>5, <2>6, <2>4 DEF Persisted, Size
    <3>2. ASSUME NEW x \in Savers \ {s} PROVE x \in Persisted' <=> x \in Persisted
      BY <2>2 DEF Persisted, RowsOf, Size
    <3>3. Persisted \subseteq Savers /\ Persisted' \subseteq Savers
      BY DEF Persisted
    <3>4. \A x : x \in Persisted' <=> x \in Persisted
      BY <3>1, <3>2, <3>3
    <3> QED
      BY <3>4, Zenon
  <2>8. ASSUME NEW x \in Savers PROVE Told'[x] = Told[x]
    BY <2>2, <2>5, <2>4 DEF Told, Size
  <2>9. Told' = Told
    BY <2>8 DEF Told
  <2> QED
    BY <1>3, <2>7, <2>9
<1>5. CASE Begin(s) \/ Insert(s) \/ InsertFails(s) \/ AwaitDone(s) \/ CommitFails(s)
           \/ CommitUnknown(s)
  <2>1. UNCHANGED <<table, batch>> /\ outcome' = outcome
    BY <1>5 DEF Begin, Insert, InTransaction, InsertFails, OnInsertError, AwaitDone, CommitFails,
                CommitUnknown, OnCommitError, Goto
  <2> QED
    BY <1>3, <2>1, LogUnchanged
<1>6. CASE BeginFails(s) \/ Rollback(s)
  <2>1. /\ pc[s] \in {"begin", "rollback"} /\ UNCHANGED <<table, batch>>
        /\ outcome' = [outcome EXCEPT ![s] = "error"]
    BY <1>6 DEF BeginFails, Rollback, Return
  <2>2. Size(s) > 0 /\ outcome[s] = None
    BY <2>1 DEF Calling
  <2>3. Persisted' = Persisted
    BY <2>1 DEF Persisted, RowsOf, Size
  <2>4. Told[s] = None /\ Told' = [Told EXCEPT ![s] = "error"]
    <3>1. Told[s] = None /\ Told'[s] = "error"
      BY <2>1, <2>2 DEF Told, Size
    <3>2. ASSUME NEW x \in Savers \ {s} PROVE Told'[x] = Told[x]
      BY <2>1 DEF Told, Size
    <3> QED
      BY <3>1, <3>2 DEF Told
  <2>5. Log!Fail(s)
    BY <1>2, <2>3, <2>4 DEF Log!Fail, Told, Seen, ReadBack
  <2> QED
    BY <2>5 DEF Log!Next
<1>7. CASE Commit(s)
  <2>1. /\ table' = table \cup staged[s] /\ batch' = batch /\ outcome' = outcome
        /\ pc[s] = "insert" /\ Cardinality(staged[s]) = Size(s)
    BY <1>7 DEF Commit, Goto
  <2>2. batch[s] # None /\ outcome[s] = None /\ Size(s) > 0 /\ RowsOf(s, table) = {}
    BY <2>1 DEF Calling, Stored
  <2>3. \A x \in staged[s] : x.saver = s
    BY DEF Rows
  <2>4. RowsOf(s, table') = staged[s]
    BY <2>1, <2>2, <2>3 DEF RowsOf
  <2>5. \A x \in Savers \ {s} : RowsOf(x, table') = RowsOf(x, table)
    BY <2>1, <2>3 DEF RowsOf
  <2>6. Persisted' = Persisted \cup {s}
    BY <2>1, <2>2, <2>4, <2>5 DEF Persisted, Size
  <2>7. Told[s] = None /\ Told' = Told
    BY <2>1, <2>2 DEF Told, Size
  <2>8. Log!Persist(s)
    BY <1>2, <2>6, <2>7 DEF Log!Persist, Told, Seen, ReadBack
  <2> QED
    BY <2>8 DEF Log!Next
<1>8. CASE Committed(s)
  <2>1. /\ pc[s] = "answer" /\ UNCHANGED <<table, batch>>
        /\ outcome' = [outcome EXCEPT ![s] = "ok"]
    BY <1>8 DEF Committed, Return
  <2>2. /\ batch[s] # None /\ outcome[s] = None /\ Size(s) > 0
        /\ Cardinality(RowsOf(s, table)) = Size(s)
    BY <2>1 DEF Calling, Stored
  <2>3. s \in Persisted /\ Persisted' = Persisted
    BY <2>1, <2>2 DEF Persisted, RowsOf, Size
  <2>4. Told[s] = None /\ Told' = [Told EXCEPT ![s] = "ok"]
    <3>1. Told[s] = None /\ Told'[s] = "ok"
      BY <2>1, <2>2 DEF Told, Size
    <3>2. ASSUME NEW x \in Savers \ {s} PROVE Told'[x] = Told[x]
      BY <2>1 DEF Told, Size
    <3> QED
      BY <3>1, <3>2 DEF Told
  <2>5. Log!Confirm(s)
    BY <1>2, <2>3, <2>4 DEF Log!Confirm, Told, Seen, ReadBack
  <2> QED
    BY <2>5 DEF Log!Next
<1> QED
  BY <1>4, <1>5, <1>6, <1>7, <1>8 DEF Save

\* A reader's step is a Look, an Answer or nothing in the log.
LEMMA ReadRefines ==
    ASSUME IInv, NEW q \in Readers, Read(q)
    PROVE  [Log!Next]_(Log!vars)
<1> USE StoreAssumption, NoneAssumption DEF IInv, TypeOK, Calls, openVars, saveVars, readVars
<1>1. UNCHANGED <<table, batch>> /\ \A s \in Savers : outcome'[s] = outcome[s]
  BY ReadSteps DEF Queries, Query, QueryFails, Scan, RowsFail, OnRowsError, AllRead, Goto, Return
<1>2. Persisted' = Persisted /\ Told' = Told
  BY <1>1, LogUnchanged
<1>3. ASSUME Seen' = Seen, ReadBack' = ReadBack PROVE UNCHANGED Log!vars
  BY <1>2, <1>3 DEF Log!vars, Told, Seen, ReadBack
<1>4. CASE Queries(q)
  <2>1. PICK k \in Currencies, limit \in Limits, byDate \in BOOLEAN, from \in Int, to \in Int :
               Query(q, k, byDate, from, to, limit)
    BY <1>4, Zenon DEF Queries
  <2> DEFINE a == [currency |-> k, byDate |-> byDate, from |-> from, to |-> to,
                   limit |-> normalizeLimit(limit)]
  <2>2. a \in Args
    BY NormalLimit DEF Args
  <2>3. /\ pc[q] = "idle" /\ args' = [args EXCEPT ![q] = a]
        /\ asOf' = [asOf EXCEPT ![q] = table] /\ outcome' = outcome
    BY <2>1 DEF Query, Goto
  <2>4. args[q] = None /\ a # None /\ outcome[q] = None
    BY <2>2, <2>3 DEF Calling
  <2> HIDE DEF a
  <2>5. Seen[q] = None
    BY <2>4 DEF Seen
  <2>6. Seen' = [Seen EXCEPT ![q] = Persisted]
    BY <2>3, <2>4, TableShowsPersisted DEF Seen
  <2>7. ReadBack' = ReadBack
    BY <2>3, <2>4 DEF ReadBack
  <2>8. Log!Look(q)
    BY <1>2, <2>5, <2>6, <2>7 DEF Log!Look, Told, Seen, ReadBack
  <2> QED
    BY <2>8 DEF Log!Next
<1>5. CASE QueryFails(q) \/ Scan(q) \/ RowsFail(q)
  <2>1. /\ UNCHANGED <<args, asOf>> /\ pc[q] # "done"
        /\ \A r \in Readers \ {q} : outcome'[r] = outcome[r]
        /\ outcome'[q] \in {outcome[q], "error"}
    BY <1>5 DEF QueryFails, Scan, RowsFail, OnRowsError, Return
  <2>2. outcome[q] = None
    BY <2>1 DEF Calling
  <2>3. Seen' = Seen /\ ReadBack' = ReadBack
    BY <2>1, <2>2 DEF Seen, ReadBack
  <2> QED
    BY <1>3, <2>3
<1>6. CASE AllRead(q)
  <2>1. /\ UNCHANGED <<args, asOf>> /\ pc[q] = "scan"
        /\ outcome' = [outcome EXCEPT ![q] = "ok"]
    BY <1>6 DEF AllRead, Return
  <2>2. args[q] # None
    BY <2>1 DEF Calling
  <2>3. {x.saver : x \in asOf[q]} \in SUBSET Savers
    BY DEF Row
  <2>4. Seen[q] # None /\ Seen' = Seen
    BY <2>1, <2>2, <2>3 DEF Seen
  <2>5. ReadBack' = [ReadBack EXCEPT ![q] = Seen[q]]
    BY <2>1, <2>2 DEF Seen, ReadBack
  <2>6. Log!Answer(q)
    BY <1>2, <2>4, <2>5 DEF Log!Answer, Told, Seen, ReadBack
  <2> QED
    BY <2>6 DEF Log!Next
<1> QED
  BY <1>4, <1>5, <1>6, ReadSteps

LEMMA NextRefines == IInv /\ [Next]_vars => [Log!Next]_(Log!vars)
<1> SUFFICES ASSUME IInv, [Next]_vars PROVE [Log!Next]_(Log!vars)
  OBVIOUS
<1>1. CASE Opening \/ (\E c \in Calls : Cancel(c)) \/ Crash \/ UNCHANGED vars
  <2>1. UNCHANGED <<table, batch, outcome, args, asOf>>
    BY <1>1 DEF Opening, OpenNothing, Open, OpenFails, Migrated, Cancel, Crash, vars,
                openVars, saveVars, readVars
  <2>2. Persisted' = Persisted /\ Told' = Told /\ Seen' = Seen /\ ReadBack' = ReadBack
    BY <2>1, LogUnchanged, ViewsUnchanged
  <2>3. UNCHANGED Log!vars
    BY <2>2 DEF Log!vars, Told, Seen, ReadBack
  <2> QED
    BY <2>3
<1> QED
  BY <1>1, SaveRefines, ReadRefines DEF Next

\* The transactions, with every failure, cancellation and crash, implement the
\* log: a save is one step for everyone else, success is never reported for
\* one that is not in the log, and a reader sees the log of one instant.
THEOREM TransactionsImplementLog == Spec => ImplementsRateLog
BY IInvHolds, InitRefines, NextRefines, PTL DEF Spec, ImplementsRateLog, Log!Spec
==============================================================================
