---------------------------- MODULE Diagnostics ----------------------------
(***************************************************************************)
(* The diagnostic records every handle keeps: the result of the last call  *)
(* and its status records.  A call of the API empties the storage, does    *)
(* its work, which may add records, and stores the result; what the        *)
(* application is told is made up from the stored result.  Texts of        *)
(* messages are left out: a status record is its SQLSTATE and whether      *)
(* SQLError has handed it out.                                             *)
(***************************************************************************)
EXTENDS Naturals, Sequences, SequencesExt

Results == {"SUCCESS", "INFO", "NO_DATA", "NEED_DATA", "ERROR"}

\* DiagnosticRecordStorage::DiagnosticRecordStorage
NewStorage == [result |-> "SUCCESS", records |-> <<>>]

SetHeaderRecord(d, r) == [d EXCEPT !.result = r]

\* DiagnosticRecordStorage::AddStatusRecord, for each of states in turn
AddStatusRecords(d, states) ==
  [d EXCEPT !.records = @ \o [i \in DOMAIN states |->
                                [state |-> states[i], retrieved |-> FALSE]]]

Reset == [result |-> "ERROR", records |-> <<>>]

\* Mutant: the records of the call before are kept
ApiCallKeeping(d, states, r) ==
  SetHeaderRecord(AddStatusRecords(d, states), r)

\* The macro around every call: d is the storage before, states the records
\* the call adds and r its result.
ApiCall(d, states, r) ==
  SetHeaderRecord(AddStatusRecords(Reset, states), r)

\* A result outside the enumeration is an error.
SqlResultToReturnCode(r) == IF r \in Results THEN r ELSE "ERROR"

ReturnCode(d) == SqlResultToReturnCode(d.result)

\* The first record SQLError has not handed out, 0 when there is none
GetLastNonRetrieved(d) == SelectInSeq(d.records, LAMBDA r : ~r.retrieved)

MarkRetrieved(d, n) == [d EXCEPT !.records[n].retrieved = TRUE]

-----------------------------------------------------------------------------
(* Reading the storage *)

HeaderFields == {"CURSOR_ROW_COUNT", "DYNAMIC_FUNCTION",
                 "DYNAMIC_FUNCTION_CODE", "NUMBER", "RETURNCODE", "ROW_COUNT"}
StatusFields == {"CLASS_ORIGIN", "COLUMN_NUMBER", "CONNECTION_NAME",
                 "MESSAGE_TEXT", "NATIVE", "ROW_NUMBER", "SERVER_NAME",
                 "SQLSTATE", "SUBCLASS_ORIGIN"}

\* The SQLSTATEs that ODBC, not ISO 9075, gives their subclass, as far as
\* the driver can produce them
OdbcSubclasses == {"01S00", "01S01", "01S02", "01S07", "08S01",
                   "42S01", "42S02", "42S11", "42S12", "42S21", "42S22",
                   "HY024", "HY097", "HY105", "HYT00", "HYT01", "IM001"}

ClassOrigin(state) == IF state = "IM001" THEN "ODBC 3.0" ELSE "ISO 9075"
SubclassOrigin(state) ==
  IF state \in OdbcSubclasses THEN "ODBC 3.0" ELSE "ISO 9075"

\* DiagnosticRecordStorage::GetField: the result, and the value where a
\* field is more than a constant
GetField(d, n, field) ==
  CASE field \in HeaderFields ->
         [code |-> "SUCCESS",
          value |-> CASE field = "NUMBER" -> Len(d.records)
                      [] field = "RETURNCODE" -> ReturnCode(d)
                      [] OTHER -> 0]
    [] field \notin HeaderFields /\ n \notin DOMAIN d.records ->
         [code |-> "NO_DATA", value |-> 0]
    [] field \in StatusFields /\ n \in DOMAIN d.records ->
         [code |-> "SUCCESS",
          value |-> CASE field = "SQLSTATE" -> d.records[n].state
                      [] field = "CLASS_ORIGIN" -> ClassOrigin(d.records[n].state)
                      [] field = "SUBCLASS_ORIGIN" ->
                           SubclassOrigin(d.records[n].state)
                      [] OTHER -> 0]
    [] OTHER -> [code |-> "ERROR", value |-> 0]
=============================================================================
