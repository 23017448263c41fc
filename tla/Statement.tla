----------------------------- MODULE Statement -----------------------------
(***************************************************************************)
(* odbc::Statement: one query at a time, read in rowsets.                  *)
(*                                                                         *)
(* SQLFetch and SQLExtendedFetch call FetchNextRow of the current query    *)
(* once for every element of the rowset.  Each call fills one element of   *)
(* the bound buffer and one of the row status array; the return code and   *)
(* the row count are made up at the end.  The elements of a rowset are     *)
(* separate steps here, because SQLCancel is the one function another      *)
(* thread may call on the statement while a fetch is running.              *)
(*                                                                         *)
(* The queries are seen through the Query interface: a data query keeps    *)
(* the promise of module ResultSet, the catalog functions read rows they   *)
(* have collected (MetadataQuery, TypeInfoQuery), and the functions that   *)
(* Timestream has no data for answer with an empty result.                 *)
(***************************************************************************)
EXTENDS Naturals, Sequences, FiniteSets

CONSTANTS MaxRows,    \* bound: rows of a result
          Sizes,      \* sizes of rowsets the application may ask for
          Offsets     \* bind offsets, in elements of the bound buffer

ASSUME StatementAssumption ==
  /\ MaxRows \in Nat
  /\ Sizes \subseteq Nat \ {0} /\ 1 \in Sizes /\ IsFiniteSet(Sizes)
  /\ Offsets \subseteq Nat /\ 0 \in Offsets /\ IsFiniteSet(Offsets)

VARIABLES
  currentQuery,      \* the query object, or NoQuery
  rowArraySize,      \* SQL_ATTR_ROW_ARRAY_SIZE, for SQLFetch
  rowsetSize,        \* SQL_ROWSET_SIZE, for SQLExtendedFetch
  columnBindOffset,  \* what SQL_ATTR_ROW_BIND_OFFSET_PTR points to
  rowStatuses,       \* SQL_ATTR_ROW_STATUS_PTR is set
  rowsFetched,       \* SQL_ATTR_ROWS_FETCHED_PTR is set
  bound,             \* a column is bound
  call,              \* the fetch that is running, or NoCall
  status,            \* the application's row status array
  count,             \* the application's row count
  buffer,            \* the bound buffer: the row each element shows, 0 none
  last,              \* the last fetch that ended
  closed             \* history: closed or cancelled since the last execute

queryVars == <<currentQuery, closed>>
attrVars == <<rowArraySize, rowsetSize, columnBindOffset, rowStatuses,
              rowsFetched, bound>>
appVars == <<status, count, buffer>>
vars == <<queryVars, attrVars, call, appVars, last>>

Indices == UNION {0..(s - 1) : s \in Sizes}
Elements == {i + o : i \in Indices, o \in Offsets}
Statuses == {"SUCCESS", "ERROR", "NOROW", "NONE"}
Codes == {"SUCCESS", "INFO", "NO_DATA", "ERROR"}

NoQuery == [kind |-> "none", open |-> FALSE, rows |-> <<>>, pos |-> 0,
            lost |-> FALSE]
NoCall == [fn |-> "none"]
NoRowset == [fn |-> "none", ret |-> "NO_DATA", size |-> 0, off |-> 0,
             base |-> 0, status |-> FALSE, count |-> FALSE, bound |-> FALSE]

\* The results a query may have.  A row of a data query is an ERROR when the
\* bound column cannot be converted, and EMPTY stands for a page without rows
\* (Execute skips those at the beginning); the rows behind the last may be
\* lost, when the request for the page that holds them fails.
Rows == {"SUCCESS", "ERROR", "EMPTY"}
Results ==
  UNION {{r \in [1..n -> Rows] : \A i \in 1..n : r[i] = "EMPTY" => i # 1} :
           n \in 0..MaxRows}
PlainResults == UNION {[1..n -> {"SUCCESS"}] : n \in 0..MaxRows}

-----------------------------------------------------------------------------
(* The Query interface.  pos is the place of the iterator: 0 before the    *)
(* first fetch, Len(rows) + 1 at the end.                                  *)

\* The place of the iterator after FetchNextRow
NextPos(q) == IF q.pos <= Len(q.rows) THEN q.pos + 1 ELSE q.pos

\* SwitchCursor has taken a page without rows: hasAsyncFetch is still set and
\* no thread was started for the pages behind it
AtEmptyPage(q) == q.open /\ q.pos \in 1..Len(q.rows) /\ q.rows[q.pos] = "EMPTY"

\* The next call of FetchNextRow finds a row, or takes a page without rows
HasNext(q) == q.open /\ ~AtEmptyPage(q) /\ NextPos(q) <= Len(q.rows)
HasRow(q) == HasNext(q) /\ q.rows[NextPos(q)] # "EMPTY"

\* Rows that the service has for the query and the application has not seen
RowsLeft(q) ==
  q.open /\ (q.lost \/ \E n \in 1..Len(q.rows) : n > q.pos /\ q.rows[n] # "EMPTY")

\* DataQuery::FetchNextRow, when it returns: a page without rows counts as
\* the end
DataResult(q) ==
  IF ~q.open THEN "NO_DATA"
  ELSE IF HasRow(q) THEN (IF bound THEN q.rows[NextPos(q)] ELSE "SUCCESS")
  ELSE IF HasNext(q) THEN "NO_DATA"
  ELSE IF q.lost THEN "ERROR" ELSE "NO_DATA"

\* FetchNextRow of the queries that have collected their rows
CatalogResult(q) ==
  IF ~q.open THEN "ERROR" ELSE IF HasRow(q) THEN "SUCCESS" ELSE "NO_DATA"

\* FetchNextRow of the queries that have no data to return
UnsupportedResult == "NO_DATA"

FetchResult(q) ==
  CASE q.kind = "data" -> DataResult(q)
    [] q.kind = "catalog" -> CatalogResult(q)
    [] OTHER -> UnsupportedResult

\* The query after FetchNextRow: a lost page resets the cursor
AfterFetch(q) ==
  IF ~q.open THEN q
  ELSE [q EXCEPT !.pos = NextPos(q), !.open = HasNext(q) \/ ~q.lost]

\* A query object without rows to read
Unprepared(kind) == [NoQuery EXCEPT !.kind = kind]

\* Close of the current query: the cursor and the rows are gone
Closed(q) == Unprepared(q.kind)

\* A data query's cursor stays until it is closed, a catalog query's is gone
\* when the iterator is at the end
DataAvailable(q) ==
  CASE q.kind = "data" -> q.open
    [] q.kind = "catalog" -> q.open /\ q.rows # <<>> /\ q.pos <= Len(q.rows)
    [] OTHER -> FALSE

-----------------------------------------------------------------------------
(* Preparing, executing and closing *)

\* The driver manager lets no call but SQLCancel in while another runs
Idle == call = NoCall

\* The application clears its arrays before each call: what they hold after
\* a fetch is what that fetch has written.
NoStatuses == [i \in Indices |-> "NONE"]
NoRows == [e \in Elements |-> 0]
ClearArrays == status' = NoStatuses /\ buffer' = NoRows
NewCall == Idle /\ ClearArrays /\ last' = NoRowset

\* InternalPrepareSqlQuery: the old query is closed and replaced
PrepareSqlQuery ==
  /\ NewCall
  /\ currentQuery' = Unprepared("data")
  /\ closed' = TRUE
  /\ UNCHANGED <<attrVars, call, count>>

\* currentQuery->Execute() for a data query: it fails, or has no rows, or
\* opens a cursor
DataExecuted ==
  {Unprepared("data")} \cup
  [kind : {"data"}, open : {TRUE}, rows : Results \ {<<>>}, pos : {0},
   lost : BOOLEAN]

\* InternalExecuteSqlQuery.  The driver manager refuses SQLExecute unless a
\* query is prepared.
ExecuteSqlQuery ==
  /\ NewCall
  /\ currentQuery.kind = "data"
  /\ currentQuery' \in DataExecuted
  /\ closed' = FALSE
  /\ UNCHANGED <<attrVars, call, count>>

\* The catalog functions: close, replace, execute.  Execute fails, or has
\* collected the rows.
CatalogExecuted ==
  {Unprepared("catalog")} \cup
  [kind : {"catalog"}, open : {TRUE}, rows : PlainResults, pos : {0},
   lost : {FALSE}]

ExecuteCatalogQuery ==
  /\ NewCall
  /\ currentQuery' \in CatalogExecuted
  /\ closed' = FALSE
  /\ UNCHANGED <<attrVars, call, count>>

\* SQLPrimaryKeys, SQLForeignKeys, SQLStatistics, ...: the result is empty
ExecuteUnsupportedQuery ==
  /\ NewCall
  /\ currentQuery' = Unprepared("unsupported")
  /\ closed' = FALSE
  /\ UNCHANGED <<attrVars, call, count>>

\* InternalClose: without an open cursor the query is left as it is.
\* SQLCloseCursor then fails, SQLFreeStmt(SQL_CLOSE) succeeds all the same.
Close ==
  /\ NewCall
  /\ currentQuery.kind # "none"
  /\ IF DataAvailable(currentQuery)
     THEN currentQuery' = Closed(currentQuery)
     ELSE UNCHANGED currentQuery
  /\ closed' = TRUE
  /\ UNCHANGED <<attrVars, call, count>>

\* Mutant: a catalog query that is cancelled keeps its cursor
CancelledDataOnly(q) == IF q.kind = "data" THEN Closed(q) ELSE q

\* Cancel of the query: it closes itself
Cancelled(q) == Closed(q)

\* InternalCancelSqlQuery, from any thread at any time.  When the service
\* refuses to cancel a data query, Cancel fails and changes nothing.
CancelSqlQuery ==
  /\ currentQuery.kind # "none"
  /\ currentQuery' = Cancelled(currentQuery)
  /\ closed' = TRUE
  /\ UNCHANGED <<attrVars, call, appVars, last>>

-----------------------------------------------------------------------------
(* Attributes and bindings *)

SetAttribute ==
  /\ NewCall
  /\ \/ \E n \in Sizes : rowArraySize' = n
        /\ UNCHANGED <<rowsetSize, columnBindOffset, rowStatuses, rowsFetched>>
     \/ \E n \in Sizes : rowsetSize' = n
        /\ UNCHANGED <<rowArraySize, columnBindOffset, rowStatuses, rowsFetched>>
     \/ \E o \in Offsets : columnBindOffset' = o
        /\ UNCHANGED <<rowArraySize, rowsetSize, rowStatuses, rowsFetched>>
     \/ \E b \in BOOLEAN : rowStatuses' = b
        /\ UNCHANGED <<rowArraySize, rowsetSize, columnBindOffset, rowsFetched>>
     \/ \E b \in BOOLEAN : rowsFetched' = b
        /\ UNCHANGED <<rowArraySize, rowsetSize, columnBindOffset, rowStatuses>>
  /\ UNCHANGED <<queryVars, bound, call, count>>

\* SQLBindCol, and SQLBindCol without buffers or SQLFreeStmt(SQL_UNBIND)
BindColumn(b) ==
  /\ NewCall
  /\ bound # b
  /\ bound' = b
  /\ UNCHANGED <<queryVars, rowArraySize, rowsetSize, columnBindOffset,
                 rowStatuses, rowsFetched, call, count>>

-----------------------------------------------------------------------------
(* Fetching a rowset *)

Started(fn, size, off, st, cnt) ==
  [fn |-> fn, i |-> 0, size |-> size, off |-> off, status |-> st, count |-> cnt,
   fetched |-> 0, errors |-> 0, base |-> currentQuery.pos, hung |-> FALSE]

\* InternalFetchRow up to its loop: the row count is zeroed before the test
\* for a query
FetchRow ==
  /\ Idle
  /\ ClearArrays
  /\ count' = IF rowsFetched THEN 0 ELSE count
  /\ IF currentQuery.kind = "none"
     THEN /\ last' = [NoRowset EXCEPT !.ret = "ERROR"]
          /\ UNCHANGED call
     ELSE /\ call' = Started("Fetch", rowArraySize, columnBindOffset,
                             rowStatuses, rowsFetched)
          /\ last' = NoRowset
  /\ UNCHANGED <<queryVars, attrVars>>

\* InternalExtendedFetch: row count and status array are arguments, and the
\* bind offset is not used
ExtendedFetch(st, cnt) ==
  /\ Idle
  /\ ClearArrays
  /\ IF currentQuery.kind = "none"
     THEN /\ last' = [NoRowset EXCEPT !.ret = "ERROR"]
          /\ UNCHANGED <<call, count>>
     ELSE /\ call' = Started("Extended", rowsetSize, 0, st, cnt)
          /\ count' = IF cnt THEN 0 ELSE count
          /\ last' = NoRowset
  /\ UNCHANGED <<queryVars, attrVars>>

\* SqlResultToRowResult
RowStatus(res) == IF res = "NO_DATA" THEN "NOROW" ELSE res

\* Mutant: rows are put one after the other, whatever their index
ElementPacked(c) == c.fetched + c.off

\* SetElementOffset and SetByteOffset: the element that a row goes to
Element(c) == c.i + c.off

\* One turn of the loop over the rowset
FetchElement ==
  /\ ~Idle
  /\ call.i < call.size
  /\ ~call.hung
  /\ ~AtEmptyPage(currentQuery)
  /\ LET res == FetchResult(currentQuery) IN
     /\ currentQuery' = AfterFetch(currentQuery)
     /\ buffer' = IF bound /\ res = "SUCCESS"
                  THEN [buffer EXCEPT ![Element(call)] = currentQuery'.pos]
                  ELSE buffer
     /\ status' = IF call.status
                  THEN [status EXCEPT ![call.i] = RowStatus(res)] ELSE status
     /\ call' = [call EXCEPT !.i = @ + 1,
                             !.fetched = @ + (IF res = "SUCCESS" THEN 1 ELSE 0),
                             !.errors = @ + (IF res = "ERROR" THEN 1 ELSE 0)]
  /\ UNCHANGED <<closed, attrVars, count, last>>

\* FetchNextRow behind a page without rows: SwitchCursor waits for a page that
\* no thread fetches, and no close or cancel wakes it
FetchHangs ==
  /\ ~Idle
  /\ call.i < call.size
  /\ ~call.hung
  /\ AtEmptyPage(currentQuery)
  /\ call' = [call EXCEPT !.hung = TRUE]
  /\ UNCHANGED <<queryVars, attrVars, appVars, last>>

\* Mutant: a rowset without rows is the end of the data
RowsetCodeNoData(fetched, errors) ==
  IF fetched > 0 THEN (IF errors = 0 THEN "SUCCESS" ELSE "INFO") ELSE "NO_DATA"

RowsetCode(fetched, errors) ==
  IF fetched > 0 THEN (IF errors = 0 THEN "SUCCESS" ELSE "INFO")
  ELSE IF errors = 0 THEN "NO_DATA" ELSE "ERROR"

\* What *rowsFetched and *rowCount are set to
RowCount(c) == c.fetched

EndFetch ==
  /\ ~Idle
  /\ call.i = call.size
  /\ count' = IF call.count THEN RowCount(call) ELSE count
  /\ last' = [fn |-> call.fn, ret |-> RowsetCode(call.fetched, call.errors),
              size |-> call.size, off |-> call.off, base |-> call.base,
              status |-> call.status, count |-> call.count, bound |-> bound]
  /\ call' = NoCall
  /\ UNCHANGED <<queryVars, attrVars, status, buffer>>

-----------------------------------------------------------------------------
Init ==
  /\ currentQuery = NoQuery
  /\ closed = TRUE
  /\ rowArraySize = 1 /\ rowsetSize = 1 /\ columnBindOffset = 0
  /\ rowStatuses = FALSE /\ rowsFetched = FALSE /\ bound = FALSE
  /\ call = NoCall
  /\ status = NoStatuses
  /\ count = 0
  /\ buffer = NoRows
  /\ last = NoRowset

Next ==
  \/ PrepareSqlQuery \/ ExecuteSqlQuery
  \/ ExecuteCatalogQuery \/ ExecuteUnsupportedQuery
  \/ Close \/ CancelSqlQuery
  \/ SetAttribute \/ \E b \in BOOLEAN : BindColumn(b)
  \/ FetchRow \/ \E st, cnt \in BOOLEAN : ExtendedFetch(st, cnt)
  \/ FetchElement \/ FetchHangs \/ EndFetch

Spec == Init /\ [][Next]_vars

-----------------------------------------------------------------------------
(* Properties *)

Queries ==
  [kind : {"none", "data", "catalog", "unsupported"}, open : BOOLEAN, rows : Results,
   pos : 0..(MaxRows + 1), lost : BOOLEAN]
Calls ==
  [fn : {"Fetch", "Extended"}, i : Nat, size : Sizes, off : Offsets, status : BOOLEAN,
   count : BOOLEAN, fetched : Nat, errors : Nat, base : 0..(MaxRows + 1),
   hung : BOOLEAN]
Rowsets ==
  [fn : {"none", "Fetch", "Extended"}, ret : Codes, size : Nat, off : Nat,
   base : 0..(MaxRows + 1), status : BOOLEAN, count : BOOLEAN, bound : BOOLEAN]

TypeOK ==
  /\ currentQuery \in Queries
  /\ currentQuery.pos <= Len(currentQuery.rows) + 1
  /\ rowArraySize \in Sizes /\ rowsetSize \in Sizes
  /\ columnBindOffset \in Offsets
  /\ rowStatuses \in BOOLEAN /\ rowsFetched \in BOOLEAN /\ bound \in BOOLEAN
  /\ status \in [Indices -> Statuses]
  /\ count \in Nat
  /\ buffer \in [Elements -> 0..MaxRows]
  /\ closed \in BOOLEAN
  /\ last \in Rowsets
  /\ Idle \/ /\ call \in Calls /\ call.i <= call.size
             /\ call.fetched + call.errors <= call.i

RowsetIndices == {i \in Indices : i < last.size}

\* After a fetch every element of the rowset that is reported as fetched
\* holds, at the same index and at the bind offset of that fetch, the row
\* with that place in the result, although conversion errors, the end of
\* the result and a concurrent SQLCancel leave holes in the rowset; and no
\* row is reported behind the end (InternalFetchRow, InternalExtendedFetch).
RowsetMatchesBuffers ==
  (Idle /\ last.status) =>
    /\ \A i \in RowsetIndices :
         (last.bound /\ status[i] = "SUCCESS") => buffer[i + last.off] = last.base + i + 1
    /\ \A i, j \in RowsetIndices :
         (i < j /\ status[i] = "NOROW") => status[j] # "SUCCESS"

\* The row count of a fetch is the number of elements whose status says that
\* a row is there.
CountMatchesStatuses ==
  (Idle /\ last.status /\ last.count) =>
    count = Cardinality({i \in RowsetIndices : status[i] = "SUCCESS"})

\* The return code sums the statuses up: plain SUCCESS means rows and no row
\* in error, NO_DATA no row and no error, ERROR errors only.
CodeTellsRowset ==
  (Idle /\ last.status) =>
    LET some(st) == \E i \in RowsetIndices : status[i] = st IN
    /\ last.ret \in {"SUCCESS", "INFO"} <=> some("SUCCESS")
    /\ last.ret \in {"INFO", "ERROR"} <=> some("ERROR")

\* What a fetch reports is what it did: statuses, buffers, the row count and
\* the return code agree (InternalFetchRow, InternalExtendedFetch).
RowsetReported ==
  TypeOK /\ RowsetMatchesBuffers /\ CountMatchesStatuses /\ CodeTellsRowset

EndOfRows(q) == ~RowsLeft(q) \/ AtEmptyPage(q)

\* A fetch says NO_DATA only when the service has no row left for the query,
\* or when a page without rows ended the result, which is what
\* SwitchCursor takes such a page for.  Rows that cannot be converted, and a
\* page that is lost, are never the end, in whichever element of the rowset
\* they are met (InternalFetchRow, InternalExtendedFetch).
NoDataOnlyAtEnd ==
  [][(~Idle /\ Idle' /\ last'.ret = "NO_DATA") => EndOfRows(currentQuery)]_vars

\* Once SQLCloseCursor, SQLFreeStmt(SQL_CLOSE), SQLPrepare or SQLCancel has
\* been called, no row is handed out before the next execution, not even to
\* a rowset that was being filled.
CloseIsFinal ==
  [][(~Idle /\ ~Idle' /\ call'.fetched > call.fetched) => ~closed]_vars

\* Why they hold (the inductive invariants of the proofs).  Only data and
\* catalog queries have a cursor, only data queries lose pages, and one that was closed or cancelled has no
\* row to give.
QueryInv ==
  /\ currentQuery.kind \in {"none", "unsupported"} => ~currentQuery.open
  /\ currentQuery.kind = "catalog" => ~currentQuery.lost
  /\ closed => ~HasRow(currentQuery)

\* The elements of the rowset that a running fetch has done
Done == {i \in Indices : i < call.i}

\* The statuses and buffers of those elements are what they will be at the
\* end, and the counters of the fetch count them.
DoneInv ==
  /\ \A i \in Done : bound /\ status[i] = "SUCCESS" => buffer[i + call.off] = call.base + i + 1
  /\ \A i \in Done : status[i] = "NOROW" => ~HasRow(currentQuery)
  /\ \A i, j \in Done : i < j /\ status[i] = "NOROW" => status[j] # "SUCCESS"
  /\ call.fetched = Cardinality({i \in Done : status[i] = "SUCCESS"})
  /\ call.fetched > 0 <=> \E i \in Done : status[i] = "SUCCESS"
  /\ call.errors > 0 <=> \E i \in Done : status[i] = "ERROR"

\* The cursor is as many rows behind the start of the fetch as elements are
\* done, until there is no row left; an element without row or error was
\* done at the end.
CallInv ==
  Idle \/ /\ currentQuery.open => \/ currentQuery.pos = call.base + call.i
                                  \/ currentQuery.pos = Len(currentQuery.rows) + 1
          /\ call.fetched + call.errors < call.i => EndOfRows(currentQuery)
          /\ call.status => DoneInv
=============================================================================
