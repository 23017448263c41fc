--------------------------- MODULE StatementProofs ---------------------------
(***************************************************************************)
(* Proofs about Statement, for results of any length, rowsets of any size  *)
(* and any bind offsets.                                                   *)
(***************************************************************************)
EXTENDS Statement, FiniteSetTheorems, TLAPS

\* A result is a sequence of rows, MaxRows of them at most.
LEMMA ResultType ==
  /\ \A r \in Results : /\ r \in Seq(Rows)
                        /\ Len(r) \in 0..MaxRows
                        /\ \A n \in 1..Len(r) : r[n] \in Rows
  /\ PlainResults \subseteq Results
  /\ << >> \in Results
<1>1. MaxRows \in Nat
  BY StatementAssumption
<1> DEFINE Of(n) == {r \in [1..n -> Rows] : \A i \in 1..n : r[i] = "EMPTY" => i # 1}
<1>2. ASSUME NEW r \in Results
      PROVE  /\ r \in Seq(Rows)
             /\ Len(r) \in 0..MaxRows
             /\ \A n \in 1..Len(r) : r[n] \in Rows
  <2>1. PICK n \in 0..MaxRows : r \in [1..n -> Rows]
    BY DEF Results
  <2>2. n \in Nat /\ Len(r) = n
    BY <1>1, <2>1
  <2> QED
    BY <1>1, <2>1, <2>2
<1>3. ASSUME NEW r \in PlainResults PROVE r \in Results
  <2>1. PICK n \in 0..MaxRows : r \in [1..n -> {"SUCCESS"}]
    BY DEF PlainResults
  <2>2. r \in Of(n)
    BY <2>1 DEF Rows
  <2> QED
    BY <2>2, Zenon DEF Results
<1>4. << >> \in Results
  <2>1. << >> \in Of(0) /\ 0 \in 0..MaxRows
    BY <1>1
  <2> QED
    BY <2>1, Zenon DEF Results
<1> QED
  BY <1>2, <1>3, <1>4

\* The query objects that the operations leave behind.
LEMMA QueryType ==
  /\ \A kind \in {"none", "data", "catalog", "unsupported"} :
       /\ Unprepared(kind) \in Queries
       /\ Unprepared(kind).kind = kind
       /\ Unprepared(kind).pos = 0
       /\ ~Unprepared(kind).open
  /\ \A q \in Queries : Len(q.rows) \in 0..MaxRows /\ q.pos \in Nat
  /\ NoQuery = Unprepared("none")
<1>1. MaxRows \in Nat
  BY StatementAssumption
<1>2. NoQuery \in Queries
  BY <1>1, ResultType DEF NoQuery, Queries
<1>3. ASSUME NEW kind \in {"none", "data", "catalog", "unsupported"}
      PROVE  /\ Unprepared(kind) \in Queries
             /\ Unprepared(kind).kind = kind
             /\ Unprepared(kind).pos = 0
             /\ ~Unprepared(kind).open
  BY <1>1, <1>2 DEF Unprepared, NoQuery, Queries
<1>4. NoQuery = Unprepared("none")
  BY DEF NoQuery, Unprepared
<1> QED
  BY <1>1, <1>3, <1>4, ResultType DEF Queries

\* FetchNextRow succeeds only with a row, says AI_NO_DATA only without, and
\* an error may be either.
LEMMA FetchResultTells ==
  ASSUME NEW q \in Queries, q.pos <= Len(q.rows) + 1,
         q.kind \in {"none", "unsupported"} => ~q.open
  PROVE  /\ FetchResult(q) \in {"SUCCESS", "ERROR", "NO_DATA"}
         /\ FetchResult(q) = "SUCCESS" => HasRow(q)
         /\ FetchResult(q) = "NO_DATA" => ~HasRow(q)
         /\ FetchResult(q) = "NO_DATA" /\ q.open /\ q.kind = "data" => HasNext(q) \/ ~q.lost
<1>1. HasRow(q) => q.rows[NextPos(q)] \in {"SUCCESS", "ERROR"}
  BY ResultType, QueryType DEF HasRow, HasNext, NextPos, Queries, Rows
<1>2. CASE q.kind = "data"
  <2>1. FetchResult(q) = DataResult(q)
    BY <1>2, Zenon DEF FetchResult
  <2> QED
    BY <1>1, <2>1 DEF DataResult, HasRow, HasNext
<1>3. CASE q.kind = "catalog"
  <2>1. FetchResult(q) = CatalogResult(q)
    BY <1>3, Zenon DEF FetchResult
  <2> QED
    BY <1>1, <1>3, <2>1 DEF CatalogResult, HasRow, HasNext
<1>4. CASE q.kind \in {"none", "unsupported"}
  <2>1. FetchResult(q) = UnsupportedResult
    <3>1. q.kind # "data" /\ q.kind # "catalog"
      BY <1>4
    <3> QED
      BY <3>1 DEF FetchResult
  <2> QED
    BY <1>4, <2>1 DEF UnsupportedResult, HasRow, HasNext
<1> QED
  BY <1>2, <1>3, <1>4 DEF Queries

\* FetchNextRow moves the iterator by one row or page without rows, or to the
\* end, where it stays; from a page without rows it does not return.
LEMMA AfterFetchMoves ==
  ASSUME NEW q \in Queries, q.pos <= Len(q.rows) + 1, ~AtEmptyPage(q)
  PROVE  /\ AfterFetch(q) \in Queries
         /\ AfterFetch(q).kind = q.kind /\ AfterFetch(q).rows = q.rows
         /\ AfterFetch(q).lost = q.lost
         /\ AfterFetch(q).pos <= Len(q.rows) + 1
         /\ AfterFetch(q).open => q.open
         /\ HasRow(q) => AfterFetch(q).pos = q.pos + 1 /\ AfterFetch(q).pos \in 1..MaxRows
         /\ AfterFetch(q).open => \/ AfterFetch(q).pos = q.pos + 1
                                  \/ AfterFetch(q).pos = Len(q.rows) + 1
         /\ ~HasRow(q) => ~HasRow(AfterFetch(q))
         /\ ~HasRow(q) /\ HasNext(q) => AtEmptyPage(AfterFetch(q))
         /\ ~HasNext(q) /\ AfterFetch(q).open
              => AfterFetch(q).pos = Len(q.rows) + 1 /\ ~q.lost
         /\ AfterFetch(q).open => q.pos <= AfterFetch(q).pos
<1>1. MaxRows \in Nat /\ Len(q.rows) \in 0..MaxRows /\ q.pos \in Nat
  BY StatementAssumption, QueryType
<1>2. HasNext(q) \in BOOLEAN /\ (HasNext(q) \/ ~q.lost) \in BOOLEAN
  BY Zenon DEF HasNext
<1>3. CASE ~q.open
  BY <1>1, <1>3 DEF AfterFetch, HasRow, HasNext
<1>4. CASE q.open
  <2>1. NextPos(q) \in 0..(MaxRows + 1) /\ NextPos(q) <= Len(q.rows) + 1 /\ q.pos <= NextPos(q)
        /\ NextPos(q) \in {q.pos + 1, Len(q.rows) + 1}
    BY <1>1 DEF NextPos
  <2>2. AfterFetch(q) = [q EXCEPT !.pos = NextPos(q), !.open = HasNext(q) \/ ~q.lost]
    BY <1>4 DEF AfterFetch
  <2>3. AfterFetch(q) \in Queries
    BY <1>2, <2>1, <2>2 DEF Queries
  <2>4. /\ AfterFetch(q).kind = q.kind /\ AfterFetch(q).rows = q.rows
        /\ AfterFetch(q).pos = NextPos(q) /\ AfterFetch(q).lost = q.lost
        /\ AfterFetch(q).open <=> (HasNext(q) \/ ~q.lost)
    BY <2>2 DEF Queries
  <2>5. HasNext(q) => NextPos(q) = q.pos + 1 /\ NextPos(q) \in 1..MaxRows
                      /\ NextPos(q) \in 1..Len(q.rows)
    BY <1>1 DEF HasNext, NextPos
  <2>6. ~HasNext(q) => NextPos(q) = Len(q.rows) + 1
    BY <1>1, <1>4 DEF HasNext, NextPos
  <2>7. ~HasRow(q) /\ HasNext(q) => AtEmptyPage(AfterFetch(q))
    BY <2>4, <2>5 DEF HasRow, AtEmptyPage
  <2>8. ~HasNext(q) => ~HasNext(AfterFetch(q))
    BY <1>1, <2>4, <2>6 DEF HasNext, NextPos
  <2>9. ~HasRow(q) => ~HasRow(AfterFetch(q))
    BY <2>7, <2>8 DEF HasRow, HasNext
  <2>10. HasRow(q) => HasNext(q)
    BY DEF HasRow, HasNext
  <2> QED
    BY <1>4, <2>1, <2>3, <2>4, <2>5, <2>6, <2>7, <2>9, <2>10
<1> QED
  BY <1>3, <1>4

\* Once the end of the rows was met it stays met.
LEMMA EndStays ==
  ASSUME NEW q \in Queries, q.pos <= Len(q.rows) + 1, ~AtEmptyPage(q),
         q.kind \in {"none", "unsupported"} => ~q.open,
         q.kind = "catalog" => ~q.lost,
         FetchResult(q) = "NO_DATA" \/ EndOfRows(q)
  PROVE  EndOfRows(AfterFetch(q))
<1> DEFINE a == AfterFetch(q)
<1>1. /\ a.rows = q.rows /\ a.lost = q.lost /\ (a.open => q.open)
      /\ a.open => q.pos <= a.pos
      /\ ~HasRow(q) /\ HasNext(q) => AtEmptyPage(a)
      /\ ~HasNext(q) /\ a.open => a.pos = Len(q.rows) + 1 /\ ~q.lost
      /\ a \in Queries
  BY AfterFetchMoves
<1>2. /\ q.pos \in Nat /\ Len(q.rows) \in Nat /\ a.pos \in Nat /\ Len(a.rows) \in Nat
      /\ q.kind \in {"none", "data", "catalog", "unsupported"}
  BY <1>1, StatementAssumption, QueryType DEF Queries
<1> HIDE DEF a
<1>3. ~a.open => EndOfRows(a)
  BY DEF EndOfRows, RowsLeft
<1>4. ASSUME a.open, FetchResult(q) = "NO_DATA" PROVE EndOfRows(a)
  <2>1. ~HasRow(q)
    BY <1>4, FetchResultTells
  <2> QED
    BY <1>1, <1>2, <1>4, <2>1 DEF EndOfRows, RowsLeft
<1>5. ASSUME a.open, EndOfRows(q) PROVE EndOfRows(a)
  <2>1. ~RowsLeft(q)
    BY <1>5 DEF EndOfRows
  <2>2. ~q.lost /\ \A n \in 1..Len(q.rows) : ~(n > q.pos /\ q.rows[n] # "EMPTY")
    BY <1>1, <1>5, <2>1 DEF RowsLeft
  <2>3. \A n \in 1..Len(q.rows) : n > a.pos => n > q.pos
    BY <1>1, <1>2, <1>5
  <2> QED
    BY <1>1, <2>2, <2>3 DEF EndOfRows, RowsLeft
<1> QED
  BY <1>3, <1>4, <1>5, Zenon DEF a

\* The arrays of a fetch that has not begun.
LEMMA ClearType ==
  /\ NoStatuses \in [Indices -> Statuses]
  /\ NoRows \in [Elements -> 0..MaxRows]
  /\ NoRowset \in Rowsets /\ ~NoRowset.status
  /\ [NoRowset EXCEPT !.ret = "ERROR"] \in Rowsets
  /\ ~[NoRowset EXCEPT !.ret = "ERROR"].status
<1>1. NoStatuses \in [Indices -> Statuses] /\ NoRows \in [Elements -> 0..MaxRows]
  BY StatementAssumption DEF NoStatuses, NoRows, Statuses
<1>2. FALSE \in BOOLEAN /\ 0 \in 0..(MaxRows + 1)
  BY StatementAssumption
<1>3. NoRowset \in Rowsets /\ ~NoRowset.status
  BY <1>2 DEF NoRowset, Rowsets, Codes
<1>4. /\ [NoRowset EXCEPT !.ret = "ERROR"] \in Rowsets
      /\ ~[NoRowset EXCEPT !.ret = "ERROR"].status
  BY <1>3 DEF Rowsets, Codes
<1> QED
  BY <1>1, <1>3, <1>4

\* A fetch that begins has done nothing yet.
LEMMA StartedType ==
  ASSUME TypeOK, NEW fn \in {"Fetch", "Extended"}, NEW size \in Sizes,
         NEW off \in Offsets, NEW st \in BOOLEAN, NEW cnt \in BOOLEAN
  PROVE  LET c == Started(fn, size, off, st, cnt) IN
         /\ c \in Calls /\ c # NoCall /\ c.i = 0 /\ c.size = size /\ 0 <= size
         /\ c.fetched = 0 /\ c.errors = 0 /\ c.base = currentQuery.pos
         /\ c.status = st
<1>1. currentQuery.pos \in 0..(MaxRows + 1) /\ size \in Nat
  BY StatementAssumption DEF TypeOK, Queries
<1>2. Started(fn, size, off, st, cnt) \in Calls
  BY <1>1 DEF Started, Calls
<1>3. Started(fn, size, off, st, cnt).fn # NoCall.fn
  BY DEF Started, NoCall
<1> QED
  BY <1>1, <1>2, <1>3 DEF Started

\* The elements of a rowset are the first of the arrays.
LEMMA RowsetElements ==
  ASSUME NEW size \in Sizes
  PROVE  /\ size \in Nat \ {0}
         /\ \A i \in 0..(size - 1) : i \in Indices
         /\ {i \in Indices : i < size} = 0..(size - 1)
         /\ \A i \in Indices, off \in Offsets : i + off \in Elements
         /\ Indices \subseteq Nat /\ Offsets \subseteq Nat
<1>1. Sizes \subseteq Nat \ {0} /\ Offsets \subseteq Nat
  BY StatementAssumption
<1>2. \A i \in 0..(size - 1) : i \in Indices
  BY DEF Indices
<1>3. Indices \subseteq Nat
  BY <1>1 DEF Indices
<1>4. {i \in Indices : i < size} = 0..(size - 1)
  <2>1. ASSUME NEW i \in Indices, i < size PROVE i \in 0..(size - 1)
    BY <1>1, <1>3, <2>1
  <2>2. ASSUME NEW i \in 0..(size - 1) PROVE i \in Indices /\ i < size
    BY <1>1, <1>2, <2>2
  <2> QED
    BY <2>1, <2>2
<1>5. \A i \in Indices, off \in Offsets : i + off \in Elements
  BY DEF Elements
<1> QED
  BY <1>1, <1>2, <1>3, <1>4, <1>5

\* Every step leaves the flags of the statement Boolean.
LEMMA FlagStep ==
  ASSUME TypeOK, [Next]_vars
  PROVE  /\ rowStatuses' \in BOOLEAN /\ rowsFetched' \in BOOLEAN
         /\ bound' \in BOOLEAN /\ closed' \in BOOLEAN
<1> USE DEF TypeOK, queryVars, attrVars
<1>1. CASE PrepareSqlQuery \/ ExecuteSqlQuery \/ ExecuteCatalogQuery \/ ExecuteUnsupportedQuery
           \/ Close \/ CancelSqlQuery
  BY <1>1, Zenon DEF PrepareSqlQuery, ExecuteSqlQuery, ExecuteCatalogQuery,
       ExecuteUnsupportedQuery, Close, CancelSqlQuery
<1>2. CASE SetAttribute
  BY <1>2, Zenon DEF SetAttribute
<1>3. ASSUME NEW b \in BOOLEAN, BindColumn(b)
      PROVE  /\ rowStatuses' \in BOOLEAN /\ rowsFetched' \in BOOLEAN
             /\ bound' \in BOOLEAN /\ closed' \in BOOLEAN
  BY <1>3, Zenon DEF BindColumn
<1>4. CASE FetchRow \/ FetchElement \/ FetchHangs \/ EndFetch \/ \E st, cnt \in BOOLEAN : ExtendedFetch(st, cnt)
  BY <1>4, Zenon DEF FetchRow, FetchElement, FetchHangs, EndFetch, ExtendedFetch
<1>5. CASE UNCHANGED vars
  BY <1>5, Zenon DEF vars
<1> QED
  BY <1>1, <1>2, <1>3, <1>4, <1>5, Zenon DEF Next

\* A query that is replaced, executed, closed or cancelled is a query.
LEMMA ReplacedType ==
  ASSUME TypeOK,
         \/ currentQuery' \in DataExecuted \cup CatalogExecuted
         \/ currentQuery' = Unprepared("unsupported")
         \/ currentQuery' \in {currentQuery, Closed(currentQuery)}
  PROVE  /\ currentQuery' \in Queries
         /\ currentQuery'.pos <= Len(currentQuery'.rows) + 1
<1>1. MaxRows \in Nat
  BY StatementAssumption
<1>2. CASE currentQuery' \in DataExecuted
  <2>1. CASE currentQuery' = Unprepared("data")
    BY <1>1, <2>1, QueryType
  <2>2. CASE currentQuery' \in [kind : {"data"}, open : {TRUE}, rows : Results \ {<<>>},
                               pos : {0}, lost : BOOLEAN]
    <3>1. /\ currentQuery'.rows \in Results /\ currentQuery'.pos = 0
          /\ currentQuery'.open \in {TRUE} /\ currentQuery'.lost \in BOOLEAN
          /\ currentQuery'.kind = "data"
          /\ currentQuery' = [kind |-> currentQuery'.kind, open |-> currentQuery'.open,
               rows |-> currentQuery'.rows, pos |-> currentQuery'.pos, lost |-> currentQuery'.lost]
      BY <2>2
    <3>2. currentQuery'.open \in BOOLEAN /\ currentQuery'.lost \in BOOLEAN
      BY <3>1, Zenon
    <3>3. currentQuery'.rows \in Results
      BY <3>1, ResultType
    <3>4. currentQuery' \in Queries
      BY <1>1, <3>1, <3>2, <3>3 DEF Queries
    <3> QED
      BY <1>1, <3>1, <3>3, <3>4, ResultType
  <2> QED
    BY <1>2, <2>1, <2>2 DEF DataExecuted
<1>3. CASE currentQuery' \in CatalogExecuted
  <2>1. CASE currentQuery' = Unprepared("catalog")
    BY <1>1, <2>1, QueryType
  <2>2. CASE currentQuery' \in [kind : {"catalog"}, open : {TRUE}, rows : PlainResults,
                               pos : {0}, lost : {FALSE}]
    <3>1. /\ currentQuery'.rows \in PlainResults /\ currentQuery'.pos = 0
          /\ currentQuery'.open \in {TRUE} /\ currentQuery'.lost \in {FALSE}
          /\ currentQuery'.kind = "catalog"
          /\ currentQuery' = [kind |-> currentQuery'.kind, open |-> currentQuery'.open,
               rows |-> currentQuery'.rows, pos |-> currentQuery'.pos, lost |-> currentQuery'.lost]
      BY <2>2
    <3>2. currentQuery'.open \in BOOLEAN /\ currentQuery'.lost \in BOOLEAN
      BY <3>1, Zenon
    <3>3. currentQuery'.rows \in Results
      BY <3>1, ResultType
    <3>4. currentQuery' \in Queries
      BY <1>1, <3>1, <3>2, <3>3 DEF Queries
    <3> QED
      BY <1>1, <3>1, <3>3, <3>4, ResultType
  <2> QED
    BY <1>3, <2>1, <2>2 DEF CatalogExecuted
<1>4. CASE currentQuery' = Unprepared("unsupported")
  BY <1>1, <1>4, QueryType
<1>5. CASE currentQuery' \in {currentQuery, Closed(currentQuery)}
  <2>1. currentQuery.kind \in {"none", "data", "catalog", "unsupported"}
    BY DEF TypeOK, Queries
  <2> QED
    BY <1>1, <1>5, <2>1, QueryType DEF TypeOK, Closed
<1> QED
  BY <1>2, <1>3, <1>4, <1>5

\* Every step keeps the types of the statement's members and of the arrays.
LEMMA TypeStep ==
  ASSUME TypeOK, QueryInv, [Next]_vars
  PROVE  TypeOK'
<1>1. /\ rowStatuses' \in BOOLEAN /\ rowsFetched' \in BOOLEAN
      /\ bound' \in BOOLEAN /\ closed' \in BOOLEAN
  BY FlagStep
<1> USE <1>1 DEF queryVars, attrVars, appVars
<1>2. ASSUME NewCall, UNCHANGED <<call, count>>, rowArraySize' \in Sizes, rowsetSize' \in Sizes,
             columnBindOffset' \in Offsets, currentQuery' \in Queries,
             currentQuery'.pos <= Len(currentQuery'.rows) + 1
      PROVE  TypeOK'
  BY <1>2, ClearType DEF NewCall, ClearArrays, Idle, TypeOK
<1>3. CASE PrepareSqlQuery
  BY <1>2, <1>3, ReplacedType DEF PrepareSqlQuery, DataExecuted, TypeOK
<1>4. CASE ExecuteSqlQuery
  BY <1>2, <1>4, ReplacedType DEF ExecuteSqlQuery, TypeOK
<1>5. CASE ExecuteCatalogQuery
  BY <1>2, <1>5, ReplacedType DEF ExecuteCatalogQuery, TypeOK
<1>6. CASE ExecuteUnsupportedQuery
  BY <1>2, <1>6, ReplacedType DEF ExecuteUnsupportedQuery, TypeOK
<1>7. CASE Close
  BY <1>2, <1>7, ReplacedType DEF Close, TypeOK
<1>8. CASE CancelSqlQuery
  BY <1>8, ReplacedType DEF CancelSqlQuery, Cancelled, TypeOK, Idle
<1>9. CASE SetAttribute
  BY <1>2, <1>9 DEF SetAttribute, TypeOK
<1>10. ASSUME NEW b \in BOOLEAN, BindColumn(b) PROVE TypeOK'
  BY <1>2, <1>10 DEF BindColumn, TypeOK
<1>11. CASE FetchRow
  <2>1. CASE currentQuery.kind = "none"
    BY <1>11, <2>1, ClearType DEF FetchRow, ClearArrays, TypeOK, Idle
  <2>2. CASE currentQuery.kind # "none"
    BY <1>11, <2>2, ClearType, StartedType DEF FetchRow, ClearArrays, TypeOK,
         Idle
  <2> QED
    BY <2>1, <2>2
<1>12. ASSUME NEW st \in BOOLEAN, NEW cnt \in BOOLEAN, ExtendedFetch(st, cnt) PROVE TypeOK'
  <2>1. CASE currentQuery.kind = "none"
    BY <1>12, <2>1, ClearType DEF ExtendedFetch, ClearArrays, TypeOK, Idle
  <2>2. CASE currentQuery.kind # "none"
    <3>1. call' = Started("Extended", rowsetSize, 0, st, cnt) /\ rowsetSize \in Sizes
          /\ 0 \in Offsets
      BY <1>12, <2>2, StatementAssumption DEF ExtendedFetch, TypeOK
    <3>2. /\ call' \in Calls /\ call'.i <= call'.size
          /\ call'.fetched + call'.errors <= call'.i
      BY <3>1, StartedType
    <3> QED
      BY <1>12, <2>2, <3>2, ClearType DEF ExtendedFetch, ClearArrays, TypeOK,
           Idle
  <2> QED
    BY <2>1, <2>2
<1>13. CASE FetchElement
  <2>1. /\ currentQuery' \in Queries /\ currentQuery'.pos <= Len(currentQuery'.rows) + 1
        /\ HasRow(currentQuery) => currentQuery'.pos \in 1..MaxRows
    BY <1>13, AfterFetchMoves DEF FetchElement, TypeOK
  <2> DEFINE res == FetchResult(currentQuery)
  <2>2. res \in {"SUCCESS", "ERROR", "NO_DATA"} /\ (res = "SUCCESS" => HasRow(currentQuery))
    BY FetchResultTells DEF TypeOK, QueryInv
  <2>3. call \in Calls /\ call.i < call.size /\ call.fetched + call.errors <= call.i
    BY <1>13 DEF FetchElement, TypeOK
  <2>4. call.i \in Indices /\ call.i + call.off \in Elements
    BY <2>3, RowsetElements DEF Calls
  <2>5. status' \in [Indices -> Statuses]
    BY <1>13, <2>2, <2>4 DEF FetchElement, RowStatus, TypeOK, Statuses
  <2>6. buffer' \in [Elements -> 0..MaxRows]
    BY <1>13, <2>1, <2>2, <2>4 DEF FetchElement, Element, TypeOK
  <2>7. call' \in Calls /\ call'.i <= call'.size /\ call'.fetched + call'.errors <= call'.i
    <3>1. /\ call'.i = call.i + 1
          /\ call'.fetched = call.fetched + (IF res = "SUCCESS" THEN 1 ELSE 0)
          /\ call'.errors = call.errors + (IF res = "ERROR" THEN 1 ELSE 0)
          /\ call'.size = call.size
      BY <1>13, <2>3 DEF FetchElement, Calls
    <3>2. call.i \in Nat /\ call.fetched \in Nat /\ call.errors \in Nat /\ call.size \in Nat
      BY <2>3, RowsetElements DEF Calls
    <3>3. call' \in Calls
      <4> DEFINE f == call.fetched + (IF res = "SUCCESS" THEN 1 ELSE 0)
                 e == call.errors + (IF res = "ERROR" THEN 1 ELSE 0)
      <4>1. f \in Nat /\ e \in Nat /\ call.i + 1 \in Nat
        BY <3>2
      <4>2. call' = [call EXCEPT !.i = call.i + 1, !.fetched = f, !.errors = e]
        BY <1>13 DEF FetchElement
      <4> HIDE DEF f, e
      <4> QED
        BY <2>3, <4>1, <4>2 DEF Calls
    <3> QED
      BY <2>3, <3>1, <3>2, <3>3
  <2> QED
    BY <1>13, <2>1, <2>5, <2>6, <2>7 DEF FetchElement, TypeOK
<1>14. CASE EndFetch
  <2>1. call \in Calls
    BY <1>14 DEF EndFetch, TypeOK
  <2>2. call.size \in Nat /\ call.off \in Nat
    BY <2>1, RowsetElements DEF Calls
  <2>3. RowsetCode(call.fetched, call.errors) \in Codes
    BY DEF RowsetCode, Codes
  <2>4. bound \in BOOLEAN
    BY DEF TypeOK
  <2>5. last' \in Rowsets
    BY <1>14, <2>1, <2>2, <2>3, <2>4 DEF EndFetch, Rowsets, Calls
  <2>6. count' \in Nat
    BY <1>14, <2>1 DEF EndFetch, RowCount, Calls, TypeOK
  <2> QED
    BY <1>14, <2>5, <2>6 DEF EndFetch, TypeOK, Idle
<1>15. CASE UNCHANGED vars
  BY <1>15 DEF vars, TypeOK, Idle
<1>16. CASE FetchHangs
  <2>1. call \in Calls /\ call' = [call EXCEPT !.hung = TRUE] /\ TRUE \in BOOLEAN
    BY <1>16 DEF FetchHangs, TypeOK
  <2>2. /\ call' \in Calls /\ call'.i = call.i /\ call'.size = call.size
        /\ call'.fetched = call.fetched /\ call'.errors = call.errors
    BY <2>1 DEF Calls
  <2> QED
    BY <1>16, <2>2 DEF FetchHangs, TypeOK
<1> QED
  BY <1>3, <1>4, <1>5, <1>6, <1>7, <1>8, <1>9, <1>10, <1>11, <1>12, <1>13,
       <1>14, <1>15, <1>16 DEF Next

\* Every step keeps the invariant of the query.
LEMMA QueryStep ==
  ASSUME TypeOK, QueryInv, [Next]_vars
  PROVE  QueryInv'
<1>1. currentQuery.kind \in {"none", "data", "catalog", "unsupported"}
      /\ Len(currentQuery.rows) \in Nat /\ currentQuery.pos \in Nat
  BY QueryType, StatementAssumption DEF TypeOK, Queries
<1> USE DEF QueryInv, queryVars, attrVars
<1>2. CASE UNCHANGED <<currentQuery, closed>>
  BY <1>2 DEF HasRow, HasNext, NextPos
<1>3. ASSUME NEW kind \in {"none", "data", "catalog", "unsupported"},
             currentQuery' = Unprepared(kind)
      PROVE  QueryInv'
  BY <1>3, QueryType DEF HasRow, HasNext, Unprepared, NoQuery
<1>4. CASE PrepareSqlQuery
  BY <1>3, <1>4 DEF PrepareSqlQuery
<1>5. CASE ExecuteSqlQuery
  BY <1>3, <1>5 DEF ExecuteSqlQuery, DataExecuted
<1>6. CASE ExecuteCatalogQuery
  BY <1>3, <1>6 DEF ExecuteCatalogQuery, CatalogExecuted
<1>7. CASE ExecuteUnsupportedQuery
  BY <1>3, <1>7 DEF ExecuteUnsupportedQuery
<1>8. CASE Close
  <2>1. CASE DataAvailable(currentQuery)
    BY <1>1, <1>3, <1>8, <2>1 DEF Close, Closed
  <2>2. CASE ~DataAvailable(currentQuery)
    <3>1. CASE currentQuery.kind = "data"
      <4>1. ~currentQuery.open
        BY <2>2, <3>1, Zenon DEF DataAvailable
      <4> QED
        BY <1>8, <2>2, <3>1, <4>1 DEF Close, HasRow, HasNext
    <3>2. CASE currentQuery.kind = "catalog"
      <4>1. ~(currentQuery.open /\ currentQuery.rows # <<>> /\ currentQuery.pos <= Len(currentQuery.rows))
        BY <2>2, <3>2, Zenon DEF DataAvailable
      <4>2. ~HasRow(currentQuery)
        BY <1>1, <4>1 DEF HasRow, HasNext, NextPos
      <4> QED
        BY <1>8, <2>2, <3>2, <4>2 DEF Close, HasRow, HasNext, NextPos
    <3>3. CASE currentQuery.kind \in {"none", "unsupported"}
      BY <1>8, <2>2, <3>3 DEF Close, HasRow, HasNext
    <3> QED
      BY <1>1, <3>1, <3>2, <3>3
  <2> QED
    BY <2>1, <2>2
<1>9. CASE CancelSqlQuery
  BY <1>1, <1>3, <1>9 DEF CancelSqlQuery, Cancelled, Closed
<1>10. CASE FetchElement
  <2>1. currentQuery' = AfterFetch(currentQuery) /\ closed' = closed
    BY <1>10 DEF FetchElement
  <2>2. /\ currentQuery'.kind = currentQuery.kind
        /\ currentQuery'.open => currentQuery.open
        /\ currentQuery'.lost = currentQuery.lost
        /\ ~HasRow(currentQuery) => ~HasRow(currentQuery')
    BY <1>10, <2>1, AfterFetchMoves DEF TypeOK, FetchElement
  <2> QED
    BY <2>1, <2>2 DEF HasRow, HasNext, NextPos
<1>11. CASE \/ SetAttribute \/ FetchRow \/ FetchHangs \/ EndFetch \/ UNCHANGED vars
            \/ \E b \in BOOLEAN : BindColumn(b)
            \/ \E st, cnt \in BOOLEAN : ExtendedFetch(st, cnt)
  BY <1>2, <1>11 DEF SetAttribute, FetchRow, FetchHangs, EndFetch, BindColumn,
       ExtendedFetch, vars
<1> QED
  BY <1>4, <1>5, <1>6, <1>7, <1>8, <1>9, <1>10, <1>11 DEF Next

\* One turn of the loop of InternalFetchRow or InternalExtendedFetch adds its
\* element to those that are done, and leaves the others as they are.
LEMMA ElementDone ==
  ASSUME TypeOK, QueryInv, CallInv, FetchElement, call.status
  PROVE  DoneInv'
<1> DEFINE res == FetchResult(currentQuery)
           n == call.i
<1>1. call \in Calls /\ n < call.size /\ n \in Nat /\ ~Idle
  BY DEF FetchElement, TypeOK, Calls
<1>2. /\ n \in Indices /\ Indices \subseteq Nat /\ call.off \in Nat
      /\ \A i \in Indices : i + call.off \in Elements
      /\ {i \in Indices : i < call.size} = 0..(call.size - 1) /\ call.size \in Nat
  BY <1>1, RowsetElements DEF Calls
<1>3. DoneInv
  BY <1>1 DEF CallInv
<1>4. /\ res \in {"SUCCESS", "ERROR", "NO_DATA"}
      /\ res = "SUCCESS" => HasRow(currentQuery)
      /\ res = "NO_DATA" => ~HasRow(currentQuery)
  BY FetchResultTells DEF TypeOK, QueryInv
<1>5. /\ currentQuery' = AfterFetch(currentQuery)
      /\ HasRow(currentQuery) => currentQuery'.pos = currentQuery.pos + 1
      /\ ~HasRow(currentQuery) => ~HasRow(currentQuery)'
  <2>1. currentQuery' = AfterFetch(currentQuery)
    BY DEF FetchElement
  <2>2. HasRow(currentQuery)' = HasRow(currentQuery')
    BY DEF HasRow, HasNext, NextPos
  <2> QED
    BY <2>1, <2>2, AfterFetchMoves DEF TypeOK, FetchElement
<1>6. /\ call'.i = n + 1 /\ call'.off = call.off /\ call'.base = call.base /\ bound' = bound
      /\ call'.fetched = call.fetched + (IF res = "SUCCESS" THEN 1 ELSE 0)
      /\ call'.errors = call.errors + (IF res = "ERROR" THEN 1 ELSE 0)
      /\ call.fetched \in Nat /\ call.errors \in Nat /\ call.base \in Nat
  BY <1>1, StatementAssumption DEF FetchElement, Calls, attrVars
<1>7. Done' = Done \cup {n} /\ n \notin Done /\ Done \subseteq Indices
  <2>1. Done' = {i \in Indices : i < n + 1}
    BY <1>6 DEF Done
  <2>2. ASSUME NEW i \in Indices PROVE i < n + 1 <=> (i < n \/ i = n)
    BY <1>1, <1>2
  <2>3. Done = {i \in Indices : i < n}
    BY DEF Done
  <2>4. ~(n < n)
    BY <1>1
  <2> HIDE DEF n
  <2> QED
    BY <1>2, <2>1, <2>2, <2>3, <2>4
<1>8. /\ \A i \in Done : status'[i] = status[i]
      /\ status'[n] = RowStatus(res)
  BY <1>1, <1>2, <1>7 DEF FetchElement, TypeOK
<1>9. \A i \in Done : buffer'[i + call.off] = buffer[i + call.off]
  <2>1. ASSUME NEW i \in Done PROVE i + call.off # n + call.off
    BY <1>1, <1>2, <1>7
  <2> QED
    BY <1>2, <1>7, <2>1 DEF FetchElement, Element, TypeOK
<1>10. bound /\ res = "SUCCESS" => buffer'[n + call.off] = call.base + n + 1
  <2>1. SUFFICES ASSUME bound, res = "SUCCESS"
                 PROVE  buffer'[n + call.off] = call.base + n + 1
    OBVIOUS
  <2>2. currentQuery.pos = call.base + n
    <3>1. currentQuery.open /\ currentQuery.pos # Len(currentQuery.rows) + 1
      BY <1>4, <2>1, QueryType DEF HasRow, HasNext, NextPos, TypeOK
    <3> QED
      BY <1>1, <3>1 DEF CallInv
  <2>3. buffer' = [buffer EXCEPT ![n + call.off] = currentQuery'.pos]
    BY <2>1 DEF FetchElement, Element
  <2>4. buffer'[n + call.off] = currentQuery'.pos
    BY <1>2, <2>3 DEF TypeOK
  <2> QED
    BY <1>4, <1>5, <2>1, <2>2, <2>4
<1>11. \A i \in Done' : bound' /\ status'[i] = "SUCCESS"
         => buffer'[i + call'.off] = call'.base + i + 1
  BY <1>3, <1>4, <1>6, <1>7, <1>8, <1>9, <1>10 DEF DoneInv, RowStatus
<1>12. \A i \in Done' : status'[i] = "NOROW" => ~HasRow(currentQuery)'
  BY <1>3, <1>4, <1>5, <1>7, <1>8 DEF DoneInv, RowStatus
<1>13. \A i, j \in Done' : i < j /\ status'[i] = "NOROW" => status'[j] # "SUCCESS"
  <2>1. \A i \in Done : i < n
    BY DEF Done
  <2>2. status'[n] = "SUCCESS" => \A i \in Done : status[i] # "NOROW"
    BY <1>3, <1>4, <1>8 DEF DoneInv, RowStatus
  <2>3. ASSUME NEW i \in Done', NEW j \in Done', i < j, status'[i] = "NOROW"
        PROVE  status'[j] # "SUCCESS"
    <3>1. i \in Done
      BY <1>1, <1>2, <1>7, <2>1, <2>3
    <3> QED
      BY <1>3, <1>7, <1>8, <2>2, <2>3, <3>1 DEF DoneInv
  <2> QED
    BY <2>3
<1>14. call'.fetched = Cardinality({i \in Done' : status'[i] = "SUCCESS"})
  <2> DEFINE S == {i \in Done : status[i] = "SUCCESS"}
             T == {i \in Done' : status'[i] = "SUCCESS"}
  <2>1. IsFiniteSet(S)
    <3>1. S \subseteq 0..(call.size - 1)
      <4>1. ASSUME NEW i \in S PROVE i \in {k \in Indices : k < call.size}
        BY <1>1, <1>2 DEF Done
      <4> QED
        BY <1>2, <4>1
    <3>2. IsFiniteSet(0..(call.size - 1))
      BY <1>2, FS_Interval
    <3> QED
      BY <3>1, <3>2, FS_Subset
  <2>2. call.fetched = Cardinality(S)
    BY <1>3 DEF DoneInv
  <2>3. CASE res = "SUCCESS"
    <3>1. T = S \cup {n} /\ n \notin S
      BY <1>7, <1>8, <2>3 DEF RowStatus
    <3>2. Cardinality(T) = Cardinality(S) + 1
      BY <2>1, <3>1, FS_AddElement
    <3> QED
      BY <1>6, <2>2, <2>3, <3>2
  <2>4. CASE res # "SUCCESS"
    <3>1. T = S
      BY <1>4, <1>7, <1>8, <2>4 DEF RowStatus
    <3> QED
      BY <1>6, <2>2, <2>4, <3>1
  <2> QED
    BY <2>3, <2>4
<1>15. call'.fetched > 0 <=> \E i \in Done' : status'[i] = "SUCCESS"
  BY <1>3, <1>4, <1>6, <1>7, <1>8 DEF DoneInv, RowStatus
<1>16. call'.errors > 0 <=> \E i \in Done' : status'[i] = "ERROR"
  BY <1>3, <1>4, <1>6, <1>7, <1>8 DEF DoneInv, RowStatus
<1> QED
  BY <1>11, <1>12, <1>13, <1>14, <1>15, <1>16 DEF DoneInv

\* Every step keeps the invariant of the running fetch.
LEMMA CallStep ==
  ASSUME TypeOK, QueryInv, CallInv, [Next]_vars
  PROVE  CallInv'
<1> USE DEF queryVars, attrVars, appVars
<1>1. CASE Idle'
  BY <1>1 DEF CallInv
<1>2. ASSUME call' \in Calls, call'.i = 0, call'.fetched = 0, call'.errors = 0,
             call'.base = currentQuery.pos, UNCHANGED currentQuery
      PROVE  CallInv'
  <2>1. Done' = {}
    BY <1>2, RowsetElements, StatementAssumption DEF Done, Calls
  <2>2. DoneInv'
    BY <1>2, <2>1, FS_EmptySet DEF DoneInv
  <2>3. currentQuery'.pos = call'.base + call'.i
    BY <1>2, QueryType DEF TypeOK
  <2> QED
    BY <1>2, <2>2, <2>3 DEF CallInv
<1>3. CASE PrepareSqlQuery \/ ExecuteSqlQuery \/ ExecuteCatalogQuery \/ ExecuteUnsupportedQuery
           \/ Close \/ SetAttribute \/ \E b \in BOOLEAN : BindColumn(b)
  BY <1>1, <1>3 DEF PrepareSqlQuery, ExecuteSqlQuery, ExecuteCatalogQuery,
       NewCall, Idle, ExecuteUnsupportedQuery, Close, SetAttribute, BindColumn
<1>4. CASE CancelSqlQuery
  <2>1. ~currentQuery'.open
    BY <1>4, QueryType DEF CancelSqlQuery, Cancelled, Closed, TypeOK, Queries
  <2>2. ~HasRow(currentQuery)'
    BY <2>1 DEF HasRow, HasNext
  <2>3. UNCHANGED <<call, status, buffer, bound>> /\ Done' = Done
    BY <1>4 DEF CancelSqlQuery, Done
  <2>4. DoneInv => DoneInv'
    BY <2>2, <2>3 DEF DoneInv
  <2> QED
    BY <2>1, <2>2, <2>3, <2>4 DEF CallInv, Idle, EndOfRows, RowsLeft
<1>5. CASE FetchRow
  <2>1. CASE currentQuery.kind = "none"
    BY <1>1, <1>5, <2>1 DEF FetchRow, Idle
  <2>2. CASE currentQuery.kind # "none"
    BY <1>2, <1>5, <2>2, StartedType DEF FetchRow, TypeOK
  <2> QED
    BY <2>1, <2>2
<1>6. ASSUME NEW st \in BOOLEAN, NEW cnt \in BOOLEAN, ExtendedFetch(st, cnt) PROVE CallInv'
  <2>1. CASE currentQuery.kind = "none"
    BY <1>1, <1>6, <2>1 DEF ExtendedFetch, Idle
  <2>2. CASE currentQuery.kind # "none"
    <3>1. call' = Started("Extended", rowsetSize, 0, st, cnt) /\ rowsetSize \in Sizes
          /\ 0 \in Offsets /\ UNCHANGED currentQuery
      BY <1>6, <2>2, StatementAssumption DEF ExtendedFetch, TypeOK
    <3>2. /\ call' \in Calls /\ call'.i = 0 /\ call'.fetched = 0 /\ call'.errors = 0
          /\ call'.base = currentQuery.pos
      BY <3>1, StartedType
    <3> QED
      BY <1>2, <3>1, <3>2
  <2> QED
    BY <2>1, <2>2
<1>7. CASE FetchElement
  <2> DEFINE res == FetchResult(currentQuery)
  <2>1. call \in Calls /\ ~Idle
    BY <1>7 DEF FetchElement, TypeOK
  <2>2. /\ res \in {"SUCCESS", "ERROR", "NO_DATA"}
        /\ res = "NO_DATA" => ~HasRow(currentQuery)
    BY FetchResultTells DEF TypeOK, QueryInv
  <2>3. /\ call'.i = call.i + 1 /\ call'.base = call.base /\ call'.status = call.status
        /\ call'.fetched = call.fetched + (IF res = "SUCCESS" THEN 1 ELSE 0)
        /\ call'.errors = call.errors + (IF res = "ERROR" THEN 1 ELSE 0)
        /\ call.fetched \in Nat /\ call.errors \in Nat /\ call.i \in Nat /\ call.base \in Nat
    BY <1>7, <2>1, StatementAssumption DEF FetchElement, Calls
  <2>4. /\ currentQuery'.rows = currentQuery.rows
        /\ currentQuery'.open => currentQuery.open
        /\ currentQuery'.open => \/ currentQuery'.pos = currentQuery.pos + 1
                                 \/ currentQuery'.pos = Len(currentQuery.rows) + 1
        /\ ~HasNext(currentQuery) /\ currentQuery'.open
             => currentQuery'.pos = Len(currentQuery.rows) + 1
        /\ res = "NO_DATA" \/ EndOfRows(currentQuery) => EndOfRows(currentQuery)'
    <3>1. currentQuery' = AfterFetch(currentQuery) /\ ~AtEmptyPage(currentQuery)
      BY <1>7 DEF FetchElement
    <3>2. EndOfRows(currentQuery)' = EndOfRows(currentQuery')
      BY DEF EndOfRows, RowsLeft, AtEmptyPage
    <3> QED
      BY <3>1, <3>2, AfterFetchMoves, EndStays DEF TypeOK, QueryInv
  <2>5. currentQuery'.open => \/ currentQuery'.pos = call'.base + call'.i
                              \/ currentQuery'.pos = Len(currentQuery'.rows) + 1
    <3>1. HasNext(currentQuery) => currentQuery.pos = call.base + call.i
      BY <2>1, QueryType DEF CallInv, HasRow, HasNext, NextPos, TypeOK
    <3> QED
      BY <2>3, <2>4, <3>1
  <2>6. call'.fetched + call'.errors < call'.i => EndOfRows(currentQuery)'
    <3>1. call.fetched + call.errors < call.i => EndOfRows(currentQuery)
      BY <2>1 DEF CallInv
    <3> QED
      BY <2>2, <2>3, <2>4, <3>1
  <2>7. call.status => DoneInv'
    BY <1>7, ElementDone
  <2> QED
    BY <2>3, <2>5, <2>6, <2>7 DEF CallInv
<1>8. CASE EndFetch
  BY <1>1, <1>8 DEF EndFetch, Idle
<1>9. CASE UNCHANGED vars
  BY <1>9 DEF vars, CallInv, DoneInv, Done, Idle, HasRow, HasNext, NextPos,
       EndOfRows, RowsLeft, AtEmptyPage
<1>10. CASE FetchHangs
  <2>1. call \in Calls /\ ~Idle /\ call' = [call EXCEPT !.hung = TRUE]
        /\ UNCHANGED <<currentQuery, status, buffer, bound>>
    BY <1>10 DEF FetchHangs, TypeOK
  <2>2. /\ call'.i = call.i /\ call'.off = call.off /\ call'.base = call.base
        /\ call'.fetched = call.fetched /\ call'.errors = call.errors
        /\ call'.status = call.status
    BY <2>1 DEF Calls
  <2>3. /\ Done' = Done /\ HasRow(currentQuery)' = HasRow(currentQuery)
        /\ EndOfRows(currentQuery)' = EndOfRows(currentQuery)
    BY <2>1, <2>2 DEF Done, HasRow, HasNext, NextPos, EndOfRows, RowsLeft, AtEmptyPage
  <2>4. DoneInv => DoneInv'
    BY <2>1, <2>2, <2>3 DEF DoneInv
  <2> QED
    BY <2>1, <2>2, <2>3, <2>4 DEF CallInv
<1> QED
  BY <1>3, <1>4, <1>5, <1>6, <1>7, <1>8, <1>9, <1>10 DEF Next

\* The end of a fetch reports what it has done.
LEMMA EndReports ==
  ASSUME TypeOK, CallInv, EndFetch
  PROVE  (RowsetMatchesBuffers /\ CountMatchesStatuses /\ CodeTellsRowset)'
<1>1. /\ last'.size = call.size /\ last'.off = call.off /\ last'.base = call.base
      /\ last'.status = call.status /\ last'.count = call.count /\ last'.bound = bound
      /\ last'.ret = RowsetCode(call.fetched, call.errors)
      /\ UNCHANGED <<status, buffer>>
      /\ count' = IF call.count THEN call.fetched ELSE count
      /\ ~Idle /\ call.i = call.size
  BY DEF EndFetch, RowCount
<1>2. call.fetched \in Nat /\ call.errors \in Nat
  BY <1>1 DEF TypeOK, Calls
<1>3. RowsetIndices' = Done
  BY <1>1 DEF RowsetIndices, Done
<1>4. CASE call.status
  <2>1. DoneInv
    BY <1>1, <1>4 DEF CallInv
  <2>2. RowsetMatchesBuffers'
    BY <1>1, <1>3, <2>1 DEF RowsetMatchesBuffers, DoneInv
  <2>3. CountMatchesStatuses'
    <3>1. {i \in RowsetIndices' : status'[i] = "SUCCESS"} = {i \in Done : status[i] = "SUCCESS"}
      BY <1>1, <1>3
    <3>2. call.fetched = Cardinality({i \in RowsetIndices' : status'[i] = "SUCCESS"})
      BY <2>1, <3>1 DEF DoneInv
    <3> QED
      BY <1>1, <3>2 DEF CountMatchesStatuses
  <2>4. CodeTellsRowset'
    BY <1>1, <1>2, <1>3, <2>1 DEF CodeTellsRowset, RowsetCode, DoneInv
  <2> QED
    BY <2>2, <2>3, <2>4
<1>5. CASE ~call.status
  BY <1>1, <1>5 DEF RowsetMatchesBuffers, CountMatchesStatuses, CodeTellsRowset
<1> QED
  BY <1>4, <1>5

\* Every step keeps the report of the last fetch true.
LEMMA ReportStep ==
  ASSUME TypeOK, CallInv, RowsetMatchesBuffers, CountMatchesStatuses, CodeTellsRowset, [Next]_vars
  PROVE  (RowsetMatchesBuffers /\ CountMatchesStatuses /\ CodeTellsRowset)'
<1> USE DEF queryVars, attrVars, appVars
<1>1. CASE ~(Idle' /\ last'.status)
  BY <1>1 DEF RowsetMatchesBuffers, CountMatchesStatuses, CodeTellsRowset
<1>2. CASE PrepareSqlQuery \/ ExecuteSqlQuery \/ ExecuteCatalogQuery \/ ExecuteUnsupportedQuery
           \/ Close \/ SetAttribute \/ \E b \in BOOLEAN : BindColumn(b)
  BY <1>1, <1>2, ClearType DEF PrepareSqlQuery, ExecuteSqlQuery,
       ExecuteCatalogQuery, NewCall, ExecuteUnsupportedQuery, Close,
       SetAttribute, BindColumn
<1>3. CASE FetchRow \/ \E st, cnt \in BOOLEAN : ExtendedFetch(st, cnt)
  BY <1>1, <1>3, ClearType DEF FetchRow, ExtendedFetch
<1>4. CASE FetchElement
  <2>1. ~Idle'
    BY <1>4, TypeStep DEF FetchElement, TypeOK, Calls, Idle, NoCall
  <2> QED
    BY <1>1, <2>1
<1>5. CASE FetchHangs
  <2>1. ~Idle'
    BY <1>5, TypeStep DEF FetchHangs, TypeOK, Calls, Idle, NoCall
  <2> QED
    BY <1>1, <2>1
<1>6. CASE CancelSqlQuery \/ UNCHANGED vars
  BY <1>6 DEF CancelSqlQuery, vars, RowsetMatchesBuffers, CountMatchesStatuses,
       CodeTellsRowset, RowsetIndices, Idle
<1> QED
  BY <1>2, <1>3, <1>4, <1>5, <1>6, EndReports DEF Next

-----------------------------------------------------------------------------
StatementInv ==
  TypeOK /\ QueryInv /\ CallInv /\ RowsetMatchesBuffers /\ CountMatchesStatuses
  /\ CodeTellsRowset

\* The invariants hold for a statement that was just allocated.
LEMMA InvInit == Init => StatementInv
<1> SUFFICES ASSUME Init PROVE StatementInv
  OBVIOUS
<1>1. /\ rowStatuses \in BOOLEAN /\ rowsFetched \in BOOLEAN
      /\ bound \in BOOLEAN /\ closed \in BOOLEAN
  BY Zenon DEF Init
<1>2. /\ currentQuery \in Queries /\ currentQuery.pos = 0 /\ ~currentQuery.open
      /\ Len(currentQuery.rows) \in Nat
  BY QueryType, StatementAssumption DEF Init
<1>3. TypeOK
  BY <1>1, <1>2, ClearType, StatementAssumption DEF Init, TypeOK, Idle
<1>4. QueryInv /\ CallInv
  BY <1>2 DEF Init, QueryInv, CallInv, Idle, HasRow, HasNext, NoQuery
<1>5. RowsetMatchesBuffers /\ CountMatchesStatuses /\ CodeTellsRowset
  BY ClearType DEF Init, RowsetMatchesBuffers, CountMatchesStatuses,
       CodeTellsRowset
<1> QED
  BY <1>3, <1>4, <1>5 DEF StatementInv

\* They are inductive together.
LEMMA InvInductive == Spec => []StatementInv
<1>1. StatementInv /\ [Next]_vars => StatementInv'
  BY TypeStep, QueryStep, CallStep, ReportStep DEF StatementInv
<1> QED
  BY <1>1, InvInit, PTL DEF Spec

\* After every fetch the statuses, the buffers, the row count and the return
\* code tell the same rows, whatever a concurrent SQLCancel did meanwhile.
THEOREM FetchReportsRowset == Spec => []RowsetReported
<1>1. StatementInv => RowsetReported
  BY DEF StatementInv, RowsetReported
<1> QED
  BY <1>1, InvInductive, PTL

\* SQL_NO_DATA is only returned when the service has no row left for the
\* query, or behind a page without rows, which SwitchCursor takes for the end:
\* never because of rows in error, a lost page or the place in the rowset.
THEOREM NoDataIsTheEnd == Spec => NoDataOnlyAtEnd
<1>1. ASSUME StatementInv, [Next]_vars, ~Idle, Idle', last'.ret = "NO_DATA"
      PROVE  EndOfRows(currentQuery)
  <2>1. EndFetch
    <3>1. CASE FetchElement \/ FetchHangs
      BY <1>1, <3>1, TypeStep DEF StatementInv, FetchElement, FetchHangs,
           TypeOK, Calls, Idle, NoCall
    <3> QED
      BY <1>1, <3>1 DEF Next, PrepareSqlQuery, ExecuteSqlQuery,
           ExecuteCatalogQuery, ExecuteUnsupportedQuery, Close, CancelSqlQuery,
           SetAttribute, BindColumn, FetchRow, ExtendedFetch, NewCall, Idle,
           vars
  <2>2. call \in Calls /\ call.i = call.size
    BY <1>1, <2>1 DEF StatementInv, TypeOK, EndFetch
  <2>3. /\ call.size \in Nat \ {0} /\ call.fetched \in Nat /\ call.errors \in Nat
        /\ RowsetCode(call.fetched, call.errors) = "NO_DATA"
    BY <1>1, <2>1, <2>2, RowsetElements DEF EndFetch, Calls
  <2>4. call.fetched + call.errors < call.i
    BY <2>2, <2>3 DEF RowsetCode
  <2> QED
    BY <1>1, <2>4 DEF StatementInv, CallInv
<1>2. StatementInv /\ [Next]_vars
        => [(~Idle /\ Idle' /\ last'.ret = "NO_DATA") => EndOfRows(currentQuery)]_vars
  BY <1>1
<1> QED
  BY <1>2, InvInductive, PTL DEF Spec, NoDataOnlyAtEnd

\* No row is handed out after the query was closed or cancelled, until the
\* next execution.
THEOREM CloseEndsTheRows == Spec => CloseIsFinal
<1>1. ASSUME StatementInv, [Next]_vars, ~Idle, ~Idle', call'.fetched > call.fetched
      PROVE  ~closed
  <2>1. call \in Calls
    BY <1>1 DEF StatementInv, TypeOK
  <2>2. FetchElement
    <3>1. call' # call /\ ~FetchHangs
      BY <1>1, <2>1 DEF Calls, FetchHangs
    <3> QED
      BY <1>1, <3>1 DEF Next, PrepareSqlQuery, ExecuteSqlQuery,
           ExecuteCatalogQuery, EndFetch, ExecuteUnsupportedQuery, Close,
           CancelSqlQuery, SetAttribute, BindColumn, FetchRow, ExtendedFetch,
           NewCall, Idle, vars
  <2>3. FetchResult(currentQuery) = "SUCCESS"
    BY <1>1, <2>1, <2>2 DEF FetchElement, Calls
  <2>4. HasRow(currentQuery)
    BY <1>1, <2>3, FetchResultTells DEF StatementInv, TypeOK, QueryInv
  <2> QED
    BY <1>1, <2>4 DEF StatementInv, QueryInv
<1>2. StatementInv /\ [Next]_vars
        => [(~Idle /\ ~Idle' /\ call'.fetched > call.fetched) => ~closed]_vars
  BY <1>1
<1> QED
  BY <1>2, InvInductive, PTL DEF Spec, CloseIsFinal
=============================================================================
