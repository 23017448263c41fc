---------------------------- MODULE Descriptor -----------------------------
(***************************************************************************)
(* odbc::Descriptor: a header, and a record for every column somebody has  *)
(* spoken of.  Four descriptors belong to each statement, of which the     *)
(* driver uses the application row descriptor (ARD) and the                *)
(* implementation row descriptor (IRD); others are allocated by the        *)
(* application.  Lengths, precisions and scales of a record are only ever  *)
(* read back by SQLGetDescField and are left out, and so are the names of  *)
(* the fields that nothing writes.                                         *)
(***************************************************************************)
EXTENDS Naturals

CONSTANT NULL   \* the null pointer

DescTypes == {"ARD", "APD", "IRD", "IPD", "UNKNOWN"}

\* Types, by the names of the SQL_ constants; a record nobody has written
\* is zero everywhere.
CharTypes == {"CHAR", "VARCHAR", "LONGVARCHAR", "WCHAR", "WVARCHAR",
              "WLONGVARCHAR"}
NumberTypes == {"DECIMAL", "NUMERIC", "SMALLINT", "INTEGER", "REAL", "FLOAT",
                "DOUBLE", "BIT", "TINYINT", "BIGINT"}
DatetimeCode == [TYPE_DATE |-> "CODE_DATE", TYPE_TIME |-> "CODE_TIME",
                 TYPE_TIMESTAMP |-> "CODE_TIMESTAMP"]
IntervalCode == [INTERVAL_YEAR_TO_MONTH |-> "CODE_YEAR_TO_MONTH",
                 INTERVAL_DAY_TO_SECOND |-> "CODE_DAY_TO_SECOND"]
Codes == [t \in DOMAIN DatetimeCode \cup DOMAIN IntervalCode |->
            IF t \in DOMAIN DatetimeCode THEN DatetimeCode[t] ELSE IntervalCode[t]]
Verbose == {"DATETIME", "INTERVAL"}

EmptyRecord == [type |-> "0", conciseType |-> "0", code |-> "0",
                dataPtr |-> NULL, indicatorPtr |-> NULL]

-----------------------------------------------------------------------------
(* Headers *)

NoHeader == [allocType |-> "0", arraySize |-> 0, bindOffsetPtr |-> NULL,
             count |-> 0]

InitAppHead(implicit) ==
  [allocType |-> IF implicit THEN "AUTO" ELSE "USER", arraySize |-> 1,
   bindOffsetPtr |-> NULL, count |-> 0]

InitImpHead == [NoHeader EXCEPT !.allocType = "AUTO"]

NewDescriptor(type, conn, stmt, head) ==
  [type |-> type, conn |-> conn, stmt |-> stmt, head |-> head, records |-> <<>>]

-----------------------------------------------------------------------------
(* Fields.  records[n] makes the record when it is not there.              *)

RecordAt(d, n) == IF n \in DOMAIN d.records THEN d.records[n] ELSE EmptyRecord

WithRecord(d, n, r) ==
  [d EXCEPT !.records = [m \in DOMAIN @ \cup {n} |-> IF m = n THEN r ELSE @[m]]]

IsValidConciseType(v) == v \in CharTypes \cup NumberTypes \cup DOMAIN Codes
IsValidType(v) == v \in CharTypes \cup NumberTypes \cup Verbose

IsValidIntervalCode(r, v) ==
  \/ r.type = "DATETIME" /\ \E t \in DOMAIN DatetimeCode : v = DatetimeCode[t]
  \/ r.type = "INTERVAL" /\ \E t \in DOMAIN IntervalCode : v = IntervalCode[t]

VerboseOf(v) == CASE v \in DOMAIN DatetimeCode -> "DATETIME"
                  [] v \in DOMAIN IntervalCode -> "INTERVAL"
                  [] OTHER -> v
CodeOf(v) == IF v \in DOMAIN Codes THEN Codes[v] ELSE "0"

SetConciseType(r, v) ==
  [r EXCEPT !.conciseType = v, !.type = VerboseOf(v), !.code = CodeOf(v)]

\* DATETIME and INTERVAL leave the rest for DATETIME_INTERVAL_CODE, which
\* does not complete the concise type.
SetDescType(r, v) ==
  IF v \in Verbose THEN [r EXCEPT !.type = v]
  ELSE [r EXCEPT !.type = v, !.conciseType = v, !.code = "0"]

\* Statement::SetDescriptorFields, the record of a column that is bound
BoundRecord(r, target, data, ind) ==
  [r EXCEPT !.type = VerboseOf(target), !.conciseType = target,
            !.code = IF target \in DOMAIN Codes THEN Codes[target] ELSE @,
            !.dataPtr = data, !.indicatorPtr = ind]

HeaderFieldIds == {"ALLOC_TYPE", "ARRAY_SIZE", "ARRAY_STATUS_PTR",
                   "BIND_OFFSET_PTR", "BIND_TYPE", "COUNT",
                   "ROWS_PROCESSED_PTR"}

Accepted(r) == [state |-> "00000", record |-> r]
Refused(r, state) == [state |-> state, record |-> r]

\* Mutant: the value is stored before it is checked
StoredAnyway(ok, r, old) == IF ok THEN Accepted(r) ELSE Refused(r, "HY000")

AcceptedIf(ok, r, old) == IF ok THEN Accepted(r) ELSE Refused(old, "HY000")

\* What SQLSetDescField makes of a record.  A null data pointer also unbinds
\* the column of the statement (see Handles).
FieldOutcome(r, field, v) ==
  CASE field \in HeaderFieldIds -> Refused(r, "HY091")
    [] field = "CONCISE_TYPE" ->
         AcceptedIf(IsValidConciseType(v), SetConciseType(r, v), r)
    [] field = "TYPE" -> AcceptedIf(IsValidType(v), SetDescType(r, v), r)
    [] field = "DATETIME_INTERVAL_CODE" ->
         AcceptedIf(IsValidIntervalCode(r, v), [r EXCEPT !.code = v], r)
    [] field = "DATETIME_INTERVAL_PRECISION" ->
         AcceptedIf(r.type = "INTERVAL", r, r)
    [] field \in {"LENGTH", "OCTET_LENGTH"} ->
         AcceptedIf(r.conciseType \in CharTypes, r, r)
    [] field = "DATA_PTR" ->
         Accepted([r EXCEPT !.dataPtr = IF v = NULL THEN @ ELSE v])
    [] field = "INDICATOR_PTR" -> Accepted([r EXCEPT !.indicatorPtr = v])
    [] field = "OCTET_LENGTH_PTR" -> Accepted(r)
    [] OTHER -> Refused(r, "HY000")

\* The types of descriptor a field may be read from
ReadableFrom(field) ==
  CASE field \in {"ARRAY_SIZE", "BIND_OFFSET_PTR", "BIND_TYPE", "DATA_PTR",
                  "INDICATOR_PTR", "OCTET_LENGTH_PTR"} -> {"ARD", "APD"}
    [] field \in {"ROWS_PROCESSED_PTR", "CASE_SENSITIVE", "FIXED_PREC_SCALE",
                  "LOCAL_TYPE_NAME", "NAME", "NULLABLE", "ROWVER", "TYPE_NAME",
                  "UNNAMED", "UNSIGNED"} -> {"IRD", "IPD"}
    [] field \in {"AUTO_UNIQUE_VALUE", "BASE_COLUMN_NAME", "BASE_TABLE_NAME",
                  "CATALOG_NAME", "DISPLAY_SIZE", "LABEL", "LITERAL_PREFIX",
                  "LITERAL_SUFFIX", "SCHEMA_NAME", "SEARCHABLE", "TABLE_NAME",
                  "UPDATABLE"} -> {"IRD"}
    [] field = "PARAMETER_TYPE" -> {"IPD"}
    [] field \in {"ALLOC_TYPE", "ARRAY_STATUS_PTR", "COUNT", "CONCISE_TYPE",
                  "DATETIME_INTERVAL_CODE", "DATETIME_INTERVAL_PRECISION",
                  "LENGTH", "NUM_PREC_RADIX", "OCTET_LENGTH", "PRECISION",
                  "SCALE", "TYPE"} -> DescTypes
    [] OTHER -> {}

-----------------------------------------------------------------------------
(* SQLCopyDesc: dst becomes a copy of src, its connection and statement    *)
(* included.  The header is not copied but made anew, as that of a         *)
(* descriptor of the driver's own.  A descriptor copied to itself has lost *)
(* its records before they are copied.                                     *)

CopyOf(src, self) ==
  [src EXCEPT !.head = IF src.type \in {"ARD", "APD"} THEN InitAppHead(TRUE)
                                                        ELSE InitImpHead,
              !.records = IF self THEN <<>> ELSE @]
=============================================================================
