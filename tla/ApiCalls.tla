------------------------------ MODULE ApiCalls -----------------------------
(***************************************************************************)
(* The calls on environments and statements that set and read attributes,  *)
(* describe columns and read diagnostic records, on top of Handles.        *)
(***************************************************************************)
EXTENDS Handles

CONSTANTS Sizes,        \* row array sizes
          ColumnCount   \* columns of the result of SQLGetTypeInfo

ASSUME ApiCallsAssumption ==
  /\ Sizes \subseteq Nat \ {0} /\ 1 \in Sizes   \* the default
  /\ ColumnCount \in Nat

-----------------------------------------------------------------------------
(* Attributes of an environment *)

\* attr and v are a pair of an attribute and a value.
SQLSetEnvAttr(e, attr, v) ==
  /\ e \in live
  /\ Counted
  /\ \/ /\ attr = "ODBC_VERSION" /\ v \in {2, 3}
        /\ env' = [env EXCEPT ![e].odbcVersion = v]
        /\ Succeed(e)
     \/ /\ \/ attr = "ODBC_VERSION" /\ v \notin {2, 3}
           \/ attr = "OUTPUT_NTS" /\ v # TRUE
        /\ Return(e, <<"01S02">>, "INFO") /\ UNCHANGED env
     \/ /\ attr = "OUTPUT_NTS" /\ v = TRUE
        /\ Succeed(e) /\ UNCHANGED env
     \/ /\ attr \notin {"ODBC_VERSION", "OUTPUT_NTS"}
        /\ Fail(e, "HYC00") /\ UNCHANGED env
  /\ UNCHANGED <<live, conn, stmt, desc, owner, history>>

SQLGetEnvAttr(e, attr) ==
  /\ e \in live
  /\ Counted
  /\ IF attr \in {"ODBC_VERSION", "OUTPUT_NTS"} THEN Succeed(e) ELSE Fail(e, "HYC00")
  /\ UNCHANGED <<objects, history>>

-----------------------------------------------------------------------------
(* Attributes of a statement *)

\* The attributes that can only have one value
OnlyValue == [CONCURRENCY |-> "READ_ONLY", CURSOR_TYPE |-> "FORWARD_ONLY",
              RETRIEVE_DATA |-> "RD_ON", PARAM_BIND_TYPE |-> "BY_COLUMN",
              ROW_BIND_TYPE |-> "BY_COLUMN"]

\* Pointers the statement keeps for SQLFetch and for the descriptors that
\* nobody reads: see module Statement
FetchPointers == {"PARAM_BIND_OFFSET_PTR", "ROW_STATUS_PTR", "ROWS_FETCHED_PTR"}

\* Attributes whose value is copied into the header of the row descriptor
ArdAttrs == {"ROW_ARRAY_SIZE", "ROWSET_SIZE", "ROW_BIND_OFFSET_PTR",
             "ROW_BIND_TYPE", "ROW_OPERATION_PTR"}

\* Mutant: the size is not passed on to the descriptor
ArdWithOld(d, attr, v) ==
  CASE attr = "ROW_BIND_OFFSET_PTR" -> [d EXCEPT !.head.bindOffsetPtr = v]
    [] OTHER -> d

ArdWith(d, attr, v) ==
  CASE attr = "ROW_ARRAY_SIZE" -> [d EXCEPT !.head.arraySize = v]
    [] attr = "ROW_BIND_OFFSET_PTR" -> [d EXCEPT !.head.bindOffsetPtr = v]
    [] OTHER -> d

StatementWith(t, attr, v) ==
  CASE attr = "ROW_ARRAY_SIZE" -> [t EXCEPT !.rowArraySize = v]
    [] attr = "ROW_BIND_OFFSET_PTR" -> [t EXCEPT !.columnBindOffset = v]
    [] OTHER -> t

Settable == ArdAttrs \cup FetchPointers \cup DOMAIN OnlyValue

\* SQL_ATTR_METADATA_ID is the connection's; SQLSetStmtAttr reaches it by a
\* call of its own that empties the connection's records.
SQLSetMetadataID(s, v) ==
  /\ s \in live
  /\ Counted
  /\ LET c == stmt[s].conn
     IN \/ /\ v \notin BOOLEAN
           /\ Fail(s, "HY024") /\ UNCHANGED conn
        \/ /\ v \in BOOLEAN
           /\ conn' = [conn EXCEPT ![c].metadataID = v]
           /\ diag' = [diag EXCEPT ![s] = ApiCall(@, <<>>, "SUCCESS"),
                                   ![c] = ApiCall(@, <<>>, "SUCCESS")]
           /\ Sound
  /\ UNCHANGED <<live, env, stmt, desc, owner, history>>

\* Statement::InternalSetAttribute, but for APP_ROW_DESC and METADATA_ID
SetAttribute(s, attr, v) ==
  LET d == stmt[s].ard
      refused == \/ attr \notin Settable
                 \/ attr \in DOMAIN OnlyValue /\ v # OnlyValue[attr]
  IN \/ /\ refused
        /\ Fail(s, "HYC00")
        /\ UNCHANGED <<objects, history>>
     \/ /\ ~refused /\ (attr \in ArdAttrs => d \in live)
        /\ stmt' = [stmt EXCEPT ![s] = StatementWith(@, attr, v)]
        /\ desc' = IF attr \in ArdAttrs THEN [desc EXCEPT ![d] = ArdWith(@, attr, v)]
                                        ELSE desc
        /\ Succeed(s)
        /\ UNCHANGED <<live, env, conn, owner, history>>
     \/ /\ ~refused /\ attr \in ArdAttrs /\ d \notin live
        /\ Fault("SQLSetStmtAttr", d)

SQLSetStmtAttr(s, attr, v) == s \in live /\ Counted /\ SetAttribute(s, attr, v)

Readable == DOMAIN OnlyValue \cup
            {"APP_ROW_DESC", "IMP_ROW_DESC", "APP_PARAM_DESC", "IMP_PARAM_DESC",
             "CURSOR_SCROLLABLE", "CURSOR_SENSITIVITY", "ENABLE_AUTO_IPD",
             "METADATA_ID", "ROWSET_SIZE", "ROW_ARRAY_SIZE", "ROWS_FETCHED_PTR",
             "ROW_NUMBER", "ROW_STATUS_PTR", "ROW_BIND_OFFSET_PTR"}

\* The row number of a statement without a query is 0, with a record but
\* without a warning.
AttributeAnswer(s, attr, buf) ==
  CASE ~buf -> [states |-> <<"HY000">>, code |-> "ERROR"]
    [] buf /\ attr \notin Readable -> [states |-> <<"HYC00">>, code |-> "ERROR"]
    [] buf /\ attr = "ROW_NUMBER" /\ ~stmt[s].query ->
         [states |-> <<"24000">>, code |-> "SUCCESS"]
    [] OTHER -> [states |-> <<>>, code |-> "SUCCESS"]

\* buf: the application gave a buffer for the value.
SQLGetStmtAttr(s, attr, buf) ==
  /\ s \in live
  /\ Counted
  /\ LET a == AttributeAnswer(s, attr, buf) IN Return(s, a.states, a.code)
  /\ UNCHANGED <<objects, history>>

-----------------------------------------------------------------------------
(* Describing the columns of the query.  SQLGetTypeInfo stands for the     *)
(* functions that make a query: see module Statement.                      *)

SQLGetTypeInfo(s, supported) ==
  /\ s \in live
  /\ Counted
  /\ \/ /\ ~supported
        /\ Fail(s, "HYC00") /\ UNCHANGED stmt
     \/ /\ supported
        /\ stmt' = [stmt EXCEPT ![s].query = TRUE]
        /\ Succeed(s)
  /\ UNCHANGED <<live, env, conn, desc, owner, history>>

\* SQLNumResultCols, SQLRowCount and SQLMoreResults: whether there is a query
SQLAskQuery(s) ==
  /\ s \in live
  /\ Counted
  /\ IF stmt[s].query THEN Succeed(s) ELSE Fail(s, "HY010")
  /\ UNCHANGED <<objects, history>>

\* Statement::InternalGetColumnAttribute.  A name that does not fit is cut
\* without a record.
AttributeOf(s, n, attr, fits) ==
  CASE ~stmt[s].query -> [states |-> <<"HY010">>, code |-> "ERROR"]
    [] stmt[s].query /\ n \notin 1..ColumnCount ->
         [states |-> <<"HY000">>, code |-> "ERROR"]
    [] stmt[s].query /\ n \in 1..ColumnCount /\ attr = "UNKNOWN" ->
         [states |-> <<"HYC00">>, code |-> "ERROR"]
    [] stmt[s].query /\ n \in 1..ColumnCount /\ attr = "NAME" /\ ~fits ->
         [states |-> <<>>, code |-> "INFO"]
    [] OTHER -> [states |-> <<>>, code |-> "SUCCESS"]

\* Five attributes one after the other.  The code is the worst of the five;
\* the records are those of the last.
DescribeAttrs == <<"NAME", "TYPE", "PRECISION", "SCALE", "NULLABLE">>

DescribeCode(s, n, fits) ==
  LET codes == {AttributeOf(s, n, DescribeAttrs[i], fits).code :
                  i \in DOMAIN DescribeAttrs}
  IN CASE "ERROR" \in codes -> "ERROR"
       [] codes = {"SUCCESS"} -> "SUCCESS"
       [] OTHER -> "INFO"

SQLDescribeCol(s, n, fits) ==
  /\ s \in live
  /\ Counted
  /\ LET a == AttributeOf(s, n, Last(DescribeAttrs), fits)
     IN Return(s, a.states, a.code)
  /\ UNCHANGED <<objects, history>>

\* SQLColAttributes asks the environment for its version as well, by a call
\* that empties the environment's records.
SQLColAttribute(s, n, attr, fits, odbc2) ==
  /\ s \in live
  /\ Counted
  /\ LET a == AttributeOf(s, n, attr, fits)
         e == conn[stmt[s].conn].env
     IN diag' = [diag EXCEPT ![s] = ApiCall(@, a.states, a.code),
                             ![e] = IF odbc2 THEN ApiCall(@, <<>>, "SUCCESS") ELSE @]
  /\ Sound /\ UNCHANGED <<objects, history>>

\* A record is added, and no call begins: SQLColumns with an empty catalog
\* and an empty schema warns, the functions that are not implemented fail.
AppendRecord(h, state) ==
  /\ h \in live
  /\ Counted
  /\ diag' = [diag EXCEPT ![h] = AddStatusRecords(@, <<state>>)]
  /\ Sound /\ UNCHANGED <<objects, history>>

SQLColumnsUnnamed(s) == AppendRecord(s, "01000")
NotImplemented(h) == AppendRecord(h, "HYC00")

-----------------------------------------------------------------------------
(* Reading diagnostic records *)

\* Records of a descriptor are not looked at.
SQLGetDiagField(h, n, field) ==
  IF h \in DescIds THEN [code |-> "NO_DATA", value |-> 0]
  ELSE GetField(diag[h], n, field)

\* buf: a buffer that holds the text; len: somewhere to put its length
SQLGetDiagRec(h, n, buf, len) ==
  CASE n < 1 -> "ERROR"
    [] n > Len(diag[h].records) -> "NO_DATA"
    [] n \in DOMAIN diag[h].records /\ ~buf -> IF len THEN "INFO" ELSE "ERROR"
    [] OTHER -> "SUCCESS"

SQLError(h) ==
  /\ h \in live \ DescIds
  /\ LET n == GetLastNonRetrieved(diag[h])
     IN n # 0 /\ diag' = [diag EXCEPT ![h] = MarkRetrieved(@, n)]
  /\ Sound /\ UNCHANGED <<objects, history, calls>>

-----------------------------------------------------------------------------
EnvAttrs == {<<"ODBC_VERSION", 2>>, <<"ODBC_VERSION", 4>>,
             <<"OUTPUT_NTS", TRUE>>, <<"OUTPUT_NTS", FALSE>>, <<"OTHER", 0>>}
ColumnAttrs == {"NAME", "TYPE", "UNKNOWN"}

ApiCallsNext ==
  \/ \E e \in Envs, a \in EnvAttrs : SQLSetEnvAttr(e, a[1], a[2]) \/ SQLGetEnvAttr(e, a[1])
  \/ \E s \in Stmts, v \in {TRUE, FALSE, NULL} : SQLSetMetadataID(s, v)
  \/ \E s \in Stmts, n \in Sizes : SQLSetStmtAttr(s, "ROW_ARRAY_SIZE", n)
  \/ \E s \in Stmts, b \in Buffers : SQLSetStmtAttr(s, "ROW_BIND_OFFSET_PTR", b)
  \/ \E s \in Stmts, a \in DOMAIN OnlyValue \cup {"OTHER"} :
       SQLSetStmtAttr(s, a, "BY_COLUMN")
  \/ \E s \in Stmts, a \in {"ROW_ARRAY_SIZE", "ROW_NUMBER", "METADATA_ID", "OTHER"},
        buf \in BOOLEAN : SQLGetStmtAttr(s, a, buf)
  \/ \E s \in Stmts, b \in BOOLEAN : SQLGetTypeInfo(s, b)
  \/ \E s \in Stmts : SQLAskQuery(s) \/ SQLColumnsUnnamed(s)
  \/ \E s \in Stmts, n \in 0..(ColumnCount + 1), fits \in BOOLEAN :
       \/ SQLDescribeCol(s, n, fits)
       \/ \E a \in ColumnAttrs, odbc2 \in BOOLEAN :
            SQLColAttribute(s, n, a, fits, odbc2)
  \/ \E h \in Handles : NotImplemented(h) \/ SQLError(h)

\* After a fault nothing is said of the process.
Faulted == fault # NULL /\ UNCHANGED vars

Next == HandleCalls \/ ApiCallsNext \/ Faulted

Spec == Init /\ [][Next]_vars

-----------------------------------------------------------------------------
(* Properties *)

TypeOK ==
  /\ live \subseteq Handles
  /\ \A e \in Envs : /\ env[e].connections \subseteq Conns
                     /\ env[e].odbcVersion \in {2, 3}
  /\ conn \in [Conns -> [env : Envs \cup {NULL}, metadataID : BOOLEAN]]
  /\ stmt \in [Stmts -> [conn : Conns \cup {NULL}, ard : DescIds,
                         bindings : [Columns -> Buffers \cup {NULL}],
                         rowArraySize : Sizes,
                         columnBindOffset : Buffers \cup {NULL},
                         query : BOOLEAN]]
  /\ \A d \in DescIds :
       /\ desc[d].type \in DescTypes
       /\ desc[d].conn \in Conns \cup {NULL} /\ desc[d].stmt \in Stmts \cup {NULL}
       /\ desc[d].head.arraySize \in Sizes \cup {0}
       /\ DOMAIN desc[d].records \subseteq Columns
  /\ owner \in [Descs -> Conns \cup {NULL}]
  /\ \A h \in Handles : diag[h].result \in Results
  /\ copied \subseteq DescIds /\ pointed \subseteq DescIds /\ switched \subseteq Stmts

\* The objects behind the pointers.  Without SQLCopyDesc, a dead pointer is
\* only ever followed by freeing an explicit descriptor, or unbinding a
\* column through it, when it has no statement or its statement is deleted;
\* no call on a statement, a connection or an environment follows one
\* (Descriptor::Deregister, InternalSetField, Statement::SetDescriptorFields,
\* Connection::Deregister).
FaultNeedsOrphan ==
  fault # NULL =>
    \/ fault.desc \in copied
    \/ /\ fault.desc \in Descs /\ fault.fn \in {"SQLFreeDescriptor", "SQLSetDescField"}
       /\ desc[fault.desc].stmt \notin live

\* The row descriptor a statement uses exists, is a row descriptor, and has
\* the statement for its own, so no two statements share one: unless
\* SQLCopyDesc has overwritten it (Statement::SetARDDesc, RestoreDescriptor).
ActiveDescriptorIsOwn ==
  \A s \in Stmts \cap live :
    LET d == stmt[s].ard
    IN \/ d \in copied
       \/ d \in live /\ desc[d].stmt = s /\ desc[d].type = "ARD"

\* Pointers between handles lead to objects, but for those a copy or an orphan
\* descriptor excuses.
PointersSound == TypeOK /\ FaultNeedsOrphan /\ ActiveDescriptorIsOwn

\* Why the pointers are sound: the descriptors of a statement live as long as
\* it does, and until a copy overwrites one it is of its kind and has the
\* statement for its own.
ImplicitInv ==
  \A s \in Stmts, k \in Kinds :
    LET d == Implicit(s, k)
    IN /\ d \in live <=> s \in live
       /\ s \in live => d \in copied \/ (desc[d].stmt = s /\ desc[d].type = k)

\* A statement that has never had another row descriptor uses its own.
OwnArdInv ==
  \A s \in Stmts \cap live : s \notin switched => stmt[s].ard = Implicit(s, "ARD")

\* As long as a statement keeps its own row descriptor, the descriptor says
\* what SQLFetch will do: the array size and the bind offset are the
\* statement's, and a column that is bound is described with the buffer it
\* is bound to and counted (Statement::InternalSetAttribute,
\* SetDescriptorFields).
ArdMirrorsStatement ==
  \A s \in Stmts \cap live :
    LET t == stmt[s]
        d == Implicit(s, "ARD")
    IN s \notin switched /\ d \notin copied =>
         /\ desc[d].head.arraySize = t.rowArraySize
         /\ desc[d].head.bindOffsetPtr = t.columnBindOffset
         /\ \A n \in Columns : t.bindings[n] # NULL =>
              /\ n \in DOMAIN desc[d].records /\ n <= desc[d].head.count
              /\ d \notin pointed => desc[d].records[n].dataPtr = t.bindings[n]

\* Whatever the order of SQLBindCol, SQLSetDescField and SQLCopyDesc, a
\* record whose verbose type is neither DATETIME nor INTERVAL has the same
\* concise type, and a concise datetime or interval type has one of the two
\* (Descriptor::SetConciseType, SetDescType, Statement::SetDescriptorFields).
RecordTypesAgree ==
  \A d \in DescIds : \A n \in DOMAIN desc[d].records :
    LET r == desc[d].records[n]
    IN /\ r.type \notin Verbose => r.conciseType = r.type
       /\ r.conciseType \in DOMAIN Codes => r.type \in Verbose

\* Descriptors tell the truth about the statement and about themselves.
DescriptorsTrue == ArdMirrorsStatement /\ RecordTypesAgree

\* What the application is told and the records it can read agree: an error
\* has a record to explain it, a success leaves none but those that were
\* added outside a call and the one of SQL_ATTR_ROW_NUMBER, SQLGetDiagRec
\* finds as many records as SQLGetDiagField counts, and SQLDescribeCol, of
\* whose five inner calls only the last leaves its records, has a record
\* whenever one of the five fails (IGNITE_ODBC_API_CALL,
\* DiagnosticRecordStorage::GetField, SQLDescribeCol).
CodeTellsRecords ==
  \A h \in live :
    LET d == diag[h]
    IN /\ ReturnCode(d) = "ERROR" => d.records # <<>>
       /\ ReturnCode(d) = "SUCCESS" =>
            \A i \in DOMAIN d.records :
              d.records[i].state \in {"24000", "01000", "HYC00"}
       /\ h \notin DescIds =>
            \A n \in 0..(Len(d.records) + 1) :
              (SQLGetDiagRec(h, n, TRUE, TRUE) = "SUCCESS") <=>
                n \in 1..SQLGetDiagField(h, n, "NUMBER").value
       /\ h \in Stmts =>
            \A n \in 0..(ColumnCount + 1), fits \in BOOLEAN :
              DescribeCode(h, n, fits) = "ERROR" =>
                AttributeOf(h, n, Last(DescribeAttrs), fits).states # <<>>

\* SQLError hands the records of a handle out in the order in which they
\* were added, each once: those it has handed out are the first ones
\* (DiagnosticRecordStorage::GetLastNonRetrieved).
RetrievedInOrder ==
  \A h \in Handles : \A i, j \in DOMAIN diag[h].records :
    i < j /\ diag[h].records[j].retrieved => diag[h].records[i].retrieved

\* The diagnostic records are those of the last call, and are handed out once.
RecordsTellCalls == CodeTellsRecords /\ RetrievedInOrder

\* A call that fails leaves every object as it was, but for an empty record
\* of a descriptor (the API's handlers return before they assign).
FailureChangesNothing ==
  [][(\E h \in Handles : diag'[h] # diag[h] /\ diag'[h].result = "ERROR") =>
       /\ UNCHANGED <<live, env, conn, stmt, owner, history>>
       /\ \A d \in DescIds :
            /\ [desc'[d] EXCEPT !.records = <<>>] = [desc[d] EXCEPT !.records = <<>>]
            /\ \A n \in DOMAIN desc'[d].records :
                 desc'[d].records[n] = RecordAt(desc[d], n)]_vars
=============================================================================
