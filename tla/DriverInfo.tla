----------------------------- MODULE DriverInfo -----------------------------
(***************************************************************************)
(* What the driver says of itself: the answers of SQLGetInfo               *)
(* (config::ConnectionInfo) and of SQLGetFunctions.                        *)
(*                                                                         *)
(* The answer to a string information type is its text; the answer to a    *)
(* numeric one is the set of the named bits, or of the one named value,    *)
(* that the constructor stores, {} for 0.                                  *)
(***************************************************************************)
EXTENDS Integers, FiniteSets, TLC

\* The information types of S, answered with 0.
NotOffered(S) == [k \in S |-> {}]

\* The driver's and the data source's names and terms.
DriverStrings(databaseAsSchema) ==
  [DRIVER_NAME |-> "libtimestream-odbc.so",
   DBMS_NAME |-> "Amazon Timestream", DRIVER_ODBC_VER |-> "03.00",
   DRIVER_VER |-> "version", DBMS_VER |-> "", COLUMN_ALIAS |-> "Y",
   IDENTIFIER_QUOTE_CHAR |-> "\"", CATALOG_NAME_SEPARATOR |-> ".",
   SPECIAL_CHARACTERS |-> "_",
   CATALOG_TERM |-> IF databaseAsSchema THEN "" ELSE "database",
   TABLE_TERM |-> "table",
   SCHEMA_TERM |-> IF databaseAsSchema THEN "schema" ELSE "",
   NEED_LONG_DATA_LEN |-> "N", ACCESSIBLE_PROCEDURES |-> "N",
   ACCESSIBLE_TABLES |-> "N",
   CATALOG_NAME |-> IF databaseAsSchema THEN "N" ELSE "Y",
   COLLATION_SEQ |-> "", DATA_SOURCE_NAME |-> ""]

\* What queries may contain, and whose connection it is.
QueryStrings ==
  [DATA_SOURCE_READ_ONLY |-> "Y", DATABASE_NAME |-> "",
   DESCRIBE_PARAMETER |-> "N", EXPRESSIONS_IN_ORDERBY |-> "Y",
   INTEGRITY |-> "N", KEYWORDS |-> "", LIKE_ESCAPE_CLAUSE |-> "Y",
   MAX_ROW_SIZE_INCLUDES_LONG |-> "Y", MULT_RESULT_SETS |-> "N",
   MULTIPLE_ACTIVE_TXN |-> "Y", ORDER_BY_COLUMNS_IN_SELECT |-> "Y",
   PROCEDURE_TERM |-> "", PROCEDURES |-> "N", ROW_UPDATES |-> "N",
   SEARCH_PATTERN_ESCAPE |-> "", SERVER_NAME |-> "AWS Timestream",
   USER_NAME |-> ""]

\* Asynchronous and batched execution; where the catalog stands in a name.
AsyncInfo(databaseAsSchema) ==
  [ASYNC_DBC_FUNCTIONS |-> {"ASYNC_DBC_NOT_CAPABLE"},
   ASYNC_MODE |-> {"AM_NONE"},
   ASYNC_NOTIFICATION |-> {"ASYNC_NOTIFICATION_NOT_CAPABLE"},
   CATALOG_LOCATION |-> IF databaseAsSchema THEN {} ELSE {"CL_START"}]
  @@ NotOffered({"BATCH_ROW_COUNT", "BATCH_SUPPORT", "BOOKMARK_PERSISTENCE"})

\* SQLGetData's liberties, conformance levels, where databases may be named.
ConformanceInfo(databaseAsSchema) ==
  [GETDATA_EXTENSIONS |-> {"GD_ANY_COLUMN", "GD_ANY_ORDER", "GD_BOUND",
       "GD_BLOCK"},
   ODBC_INTERFACE_CONFORMANCE |-> {"OIC_CORE"},
   SQL_CONFORMANCE |-> {"SC_SQL92_ENTRY"},
   CATALOG_USAGE |-> IF databaseAsSchema THEN {} ELSE {"CU_DML_STATEMENTS"},
   SCHEMA_USAGE |-> IF databaseAsSchema THEN {"SU_DML_STATEMENTS",
       "SU_TABLE_DEFINITION", "SU_PRIVILEGE_DEFINITION",
       "SU_INDEX_DEFINITION"} ELSE {}]

\* SQL functions, predicates and joins; what a static cursor can do.
FunctionInfo ==
  [AGGREGATE_FUNCTIONS |-> {"AF_ALL"},
   NUMERIC_FUNCTIONS |-> {"FN_NUM_ABS", "FN_NUM_ATAN", "FN_NUM_ATAN2",
       "FN_NUM_COS", "FN_NUM_COT", "FN_NUM_DEGREES", "FN_NUM_FLOOR",
       "FN_NUM_LOG", "FN_NUM_LOG10", "FN_NUM_PI", "FN_NUM_POWER",
       "FN_NUM_RADIANS", "FN_NUM_ROUND", "FN_NUM_SIGN", "FN_NUM_SIN",
       "FN_NUM_SQRT", "FN_NUM_TAN"},
   STRING_FUNCTIONS |-> {"FN_STR_ASCII", "FN_STR_LENGTH", "FN_STR_LTRIM",
       "FN_STR_REPLACE", "FN_STR_RTRIM", "FN_STR_SUBSTRING"},
   TIMEDATE_FUNCTIONS |-> {"FN_TD_CURDATE", "FN_TD_DAYOFMONTH",
       "FN_TD_MONTH", "FN_TD_MONTHNAME", "FN_TD_NOW", "FN_TD_YEAR"},
   TIMEDATE_ADD_INTERVALS |-> {"FN_TSI_FRAC_SECOND", "FN_TSI_SECOND",
       "FN_TSI_MINUTE", "FN_TSI_HOUR", "FN_TSI_DAY", "FN_TSI_WEEK",
       "FN_TSI_MONTH", "FN_TSI_QUARTER", "FN_TSI_YEAR"},
   TIMEDATE_DIFF_INTERVALS |-> {"FN_TSI_FRAC_SECOND", "FN_TSI_SECOND",
       "FN_TSI_MINUTE", "FN_TSI_HOUR", "FN_TSI_DAY", "FN_TSI_WEEK",
       "FN_TSI_MONTH", "FN_TSI_QUARTER", "FN_TSI_YEAR"},
   SYSTEM_FUNCTIONS |-> {"FN_SYS_IFNULL"},
   CONVERT_FUNCTIONS |-> {"FN_CVT_CAST"},
   OJ_CAPABILITIES |-> {"OJ_LEFT", "OJ_RIGHT", "OJ_NOT_ORDERED",
       "OJ_ALL_COMPARISON_OPS"},
   SQL92_STRING_FUNCTIONS |-> {"SSF_CONVERT", "SSF_LOWER", "SSF_UPPER",
       "SSF_SUBSTRING", "SSF_TRANSLATE", "SSF_TRIM_BOTH", "SSF_TRIM_LEADING",
       "SSF_TRIM_TRAILING"},
   SQL92_DATETIME_FUNCTIONS |-> {"SDF_CURRENT_DATE", "SDF_CURRENT_TIME",
       "SDF_CURRENT_TIMESTAMP"},
   SQL92_VALUE_EXPRESSIONS |-> {"SVE_CASE", "SVE_CAST"},
   SQL92_PREDICATES |-> {"SP_BETWEEN", "SP_COMPARISON", "SP_IN", "SP_ISNULL",
       "SP_LIKE"},
   SQL92_RELATIONAL_JOIN_OPERATORS |-> {"SRJO_CROSS_JOIN", "SRJO_INNER_JOIN",
       "SRJO_LEFT_OUTER_JOIN", "SRJO_RIGHT_OUTER_JOIN"},
   STATIC_CURSOR_ATTRIBUTES1 |-> {"CA1_NEXT", "CA1_ABSOLUTE", "CA1_RELATIVE",
       "CA1_BOOKMARK", "CA1_LOCK_NO_CHANGE", "CA1_POS_POSITION",
       "CA1_POS_REFRESH"},
   STATIC_CURSOR_ATTRIBUTES2 |-> {"CA2_READ_ONLY_CONCURRENCY",
       "CA2_CRC_EXACT"}]
  @@ NotOffered({"DATETIME_LITERALS", "POS_OPERATIONS", "SQL92_NUMERIC_VALUE_FUNCTIONS"})

\* What CONVERT accepts, by source type.
ConvertInfo ==
  [CONVERT_BIGINT |-> {"CVT_BIGINT", "CVT_DOUBLE"},
   CONVERT_VARCHAR |-> {"CVT_VARCHAR"}, CONVERT_DATE |-> {"CVT_DATE"},
   CONVERT_DOUBLE |-> {"CVT_INTEGER", "CVT_BIGINT", "CVT_DOUBLE"},
   CONVERT_INTEGER |-> {"CVT_INTEGER", "CVT_BIGINT", "CVT_DOUBLE"},
   CONVERT_TIME |-> {"CVT_TIME"}, CONVERT_TIMESTAMP |-> {"CVT_TIMESTAMP"}]
  @@ NotOffered({"CONVERT_BINARY", "CONVERT_BIT", "CONVERT_CHAR",
      "CONVERT_LONGVARCHAR", "CONVERT_WCHAR", "CONVERT_WVARCHAR",
      "CONVERT_WLONGVARCHAR", "CONVERT_GUID", "CONVERT_DECIMAL",
      "CONVERT_FLOAT", "CONVERT_REAL", "CONVERT_NUMERIC",
      "CONVERT_SMALLINT", "CONVERT_TINYINT", "CONVERT_INTERVAL_DAY_TIME",
      "CONVERT_INTERVAL_YEAR_MONTH", "CONVERT_VARBINARY",
      "CONVERT_LONGVARBINARY"})

\* Parameter arrays, scroll options, ALTER statements.
ScrollInfo ==
  [PARAM_ARRAY_ROW_COUNTS |-> {"PARC_BATCH"},
   PARAM_ARRAY_SELECTS |-> {"PAS_NO_BATCH"},
   SCROLL_OPTIONS |-> {"SO_FORWARD_ONLY", "SO_STATIC"}]
  @@ NotOffered({"ALTER_DOMAIN", "ALTER_TABLE"})

\* CREATE statements.
CreateInfo ==
  NotOffered({"CREATE_ASSERTION", "CREATE_CHARACTER_SET", "CREATE_COLLATION",
      "CREATE_DOMAIN", "CREATE_SCHEMA", "CREATE_TABLE",
      "CREATE_TRANSLATION", "CREATE_VIEW"})

\* Cursors at the end of a transaction, index statements, isolation.
TransactionInfo ==
  [CURSOR_COMMIT_BEHAVIOR |-> {"CB_CLOSE"},
   CURSOR_ROLLBACK_BEHAVIOR |-> {"CB_PRESERVE"},
   CURSOR_SENSITIVITY |-> {"INSENSITIVE"},
   DDL_INDEX |-> {"DI_CREATE_INDEX", "DI_DROP_INDEX"}]
  @@ NotOffered({"DEFAULT_TXN_ISOLATION"})

\* DROP statements; what a dynamic cursor can do.
DropInfo ==
  NotOffered({"DROP_ASSERTION", "DROP_CHARACTER_SET", "DROP_COLLATION",
      "DROP_DOMAIN", "DROP_SCHEMA", "DROP_TABLE", "DROP_TRANSLATION",
      "DROP_VIEW", "DYNAMIC_CURSOR_ATTRIBUTES1"})

\* What a dynamic and a forward-only cursor can do.
ForwardOnlyInfo ==
  [FORWARD_ONLY_CURSOR_ATTRIBUTES1 |-> {"CA1_NEXT"},
   FORWARD_ONLY_CURSOR_ATTRIBUTES2 |-> {"CA2_READ_ONLY_CONCURRENCY",
       "CA2_CRC_EXACT"}]
  @@ NotOffered({"DYNAMIC_CURSOR_ATTRIBUTES2"})

\* Index keywords, INFORMATION_SCHEMA views, INSERT.
SchemaViewInfo ==
  [INDEX_KEYWORDS |-> {"IK_NONE"}]
  @@ NotOffered({"INFO_SCHEMA_VIEWS", "INSERT_STATEMENT"})

\* What a keyset cursor can do; limits; foreign key rules.
KeysetInfo ==
  NotOffered({"KEYSET_CURSOR_ATTRIBUTES1", "KEYSET_CURSOR_ATTRIBUTES2",
      "MAX_ASYNC_CONCURRENT_STATEMENTS", "MAX_BINARY_LITERAL_LEN",
      "MAX_CATALOG_NAME_LEN", "MAX_CHAR_LITERAL_LEN", "MAX_INDEX_SIZE",
      "MAX_ROW_SIZE", "MAX_STATEMENT_LEN", "SQL92_FOREIGN_KEY_DELETE_RULE",
      "SQL92_FOREIGN_KEY_UPDATE_RULE"})

\* Privileges, subqueries, unions, fetch directions.
GrantInfo ==
  [SQL92_ROW_VALUE_CONSTRUCTOR |-> {"SRVC_VALUE_EXPRESSION", "SRVC_NULL"},
   SUBQUERIES |-> {"SQ_QUANTIFIED", "SQ_IN", "SQ_EXISTS", "SQ_COMPARISON"},
   FETCH_DIRECTION |-> {"FD_FETCH_NEXT", "FD_FETCH_FIRST", "FD_FETCH_LAST",
       "FD_FETCH_PRIOR", "FD_FETCH_ABSOLUTE", "FD_FETCH_RELATIVE",
       "FD_FETCH_BOOKMARK"}]
  @@ ("UNION" :> {"U_UNION", "U_UNION_ALL"})
  @@ NotOffered({"SQL92_GRANT", "SQL92_REVOKE", "STANDARD_CLI_CONFORMANCE",
      "TXN_ISOLATION_OPTION"})

\* Locks, ODBC 2 conformance levels, positioned statements.
LockInfo ==
  [LOCK_TYPES |-> {"LCK_NO_CHANGE"},
   ODBC_API_CONFORMANCE |-> {"OAC_LEVEL1"},
   ODBC_SQL_CONFORMANCE |-> {"OSC_CORE"},
   SCROLL_CONCURRENCY |-> {"SCCO_READ_ONLY"}]
  @@ NotOffered({"POSITIONED_STATEMENTS", "STATIC_SENSITIVITY"})

\* What the driver manager answers for itself.
ManagerStrings ==
  [DM_VER |-> "", XOPEN_CLI_YEAR |-> ""]

\* Limits, identifier case, GROUP BY.
NameInfo ==
  [TXN_CAPABLE |-> {"TC_NONE"}, QUOTED_IDENTIFIER_CASE |-> {"IC_SENSITIVE"},
   CONCAT_NULL_BEHAVIOR |-> {"CB_NULL"}, CORRELATION_NAME |-> {"CN_ANY"},
   FILE_USAGE |-> {"FILE_NOT_SUPPORTED"},
   GROUP_BY |-> {"GB_GROUP_BY_CONTAINS_SELECT"},
   IDENTIFIER_CASE |-> {"IC_SENSITIVE"},
   MAX_COLUMN_NAME_LEN |-> {"NAMEDATALEN"}]
  @@ NotOffered({"MAX_CONCURRENT_ACTIVITIES", "ACTIVE_ENVIRONMENTS"})

\* Limits on names and columns; NULL ordering.
LimitInfo ==
  [MAX_CURSOR_NAME_LEN |-> {"MAX_CURSOR_LEN"},
   MAX_IDENTIFIER_LEN |-> {"NAMEDATALEN"},
   MAX_SCHEMA_NAME_LEN |-> {"NAMEDATALEN"},
   MAX_TABLE_NAME_LEN |-> {"NAMEDATALEN"},
   NON_NULLABLE_COLUMNS |-> {"NNC_NON_NULL"},
   NULL_COLLATION |-> {"NC_HIGH"}]
  @@ NotOffered({"MAX_COLUMNS_IN_GROUP_BY", "MAX_COLUMNS_IN_INDEX",
      "MAX_COLUMNS_IN_ORDER_BY", "MAX_COLUMNS_IN_SELECT",
      "MAX_COLUMNS_IN_TABLE", "MAX_DRIVER_CONNECTIONS",
      "MAX_PROCEDURE_NAME_LEN", "MAX_TABLES_IN_SELECT", "MAX_USER_NAME_LEN"})

-----------------------------------------------------------------------------
(* The three maps of a connection, and its two operations on them.          *)

StrParams(databaseAsSchema) ==
  DriverStrings(databaseAsSchema) @@ QueryStrings @@ ManagerStrings

IntParams(databaseAsSchema) ==
  AsyncInfo(databaseAsSchema) @@ ConformanceInfo(databaseAsSchema)
  @@ FunctionInfo @@ ConvertInfo @@ ScrollInfo @@ CreateInfo
  @@ TransactionInfo @@ DropInfo @@ ForwardOnlyInfo @@ SchemaViewInfo
  @@ KeysetInfo @@ GrantInfo @@ LockInfo

ShortParams == NameInfo @@ LimitInfo

\* ConnectionInfo::GetInfo: what is written, in how many bytes (a string's are
\* the caller's concern), and the result code.  buflen = 0 with a buffer refuses
\* a string; a number needs a buffer and does not look at its length.
GetInfo(str, databaseAsSchema, type, buf, buflen) ==
  LET answer(code, value, bytes) ==
        [code |-> code, value |-> value, bytes |-> bytes]
      refused == answer("ERROR", "unwritten", 0)
  IN CASE type \in DOMAIN str ->
            IF buf /\ buflen = 0 THEN refused
            ELSE answer("SUCCESS", str[type], buflen)
       [] type \notin DOMAIN str /\ ~buf -> refused
       [] buf /\ type \in DOMAIN IntParams(databaseAsSchema) ->
            answer("SUCCESS", IntParams(databaseAsSchema)[type], 4)
       [] buf /\ type \in DOMAIN ShortParams ->
            answer("SUCCESS", ShortParams[type], 2)
       [] OTHER -> refused

\* ConnectionInfo::SetInfo: only a string type there is one of.
SetInfo(str, type, value) ==
  IF type \in DOMAIN str THEN [str EXCEPT ![type] = value] ELSE str

-----------------------------------------------------------------------------
(* SQLGetFunctions.                                                         *)

\* The numbers of the functions, from the ODBC headers.
ApiId ==
  [AllocConnect |-> 1, AllocEnv |-> 2, AllocStmt |-> 3, BindCol |-> 4, Cancel |-> 5,
   ColAttribute |-> 6, Connect |-> 7, DescribeCol |-> 8, Disconnect |-> 9, Error |-> 10,
   ExecDirect |-> 11, Execute |-> 12, Fetch |-> 13, FreeConnect |-> 14, FreeEnv |-> 15,
   FreeStmt |-> 16, GetCursorName |-> 17, NumResultCols |-> 18, Prepare |-> 19,
   RowCount |-> 20, SetCursorName |-> 21, SetParam |-> 22, Transact |-> 23,
   BulkOperations |-> 24, Columns |-> 40, DriverConnect |-> 41, GetConnectOption |-> 42,
   GetData |-> 43, GetFunctions |-> 44, GetInfo |-> 45, GetStmtOption |-> 46,
   GetTypeInfo |-> 47, ParamData |-> 48, PutData |-> 49, SetConnectOption |-> 50,
   SetStmtOption |-> 51, SpecialColumns |-> 52, Statistics |-> 53, Tables |-> 54,
   BrowseConnect |-> 55, ColumnPrivileges |-> 56, DataSources |-> 57,
   DescribeParam |-> 58, ExtendedFetch |-> 59, ForeignKeys |-> 60, MoreResults |-> 61,
   NativeSql |-> 62, NumParams |-> 63, ParamOptions |-> 64, PrimaryKeys |-> 65,
   ProcedureColumns |-> 66, Procedures |-> 67, SetPos |-> 68, SetScrollOptions |-> 69,
   TablePrivileges |-> 70, Drivers |-> 71, BindParameter |-> 72, AllocHandle |-> 1001,
   CloseCursor |-> 1003, CopyDesc |-> 1004, EndTran |-> 1005, FreeHandle |-> 1006,
   GetConnectAttr |-> 1007, GetDescField |-> 1008, GetDescRec |-> 1009,
   GetDiagField |-> 1010, GetDiagRec |-> 1011, GetEnvAttr |-> 1012, GetStmtAttr |-> 1014,
   SetConnectAttr |-> 1016, SetDescField |-> 1017, SetDescRec |-> 1018,
   SetEnvAttr |-> 1019, SetStmtAttr |-> 1020, FetchScroll |-> 1021]

\* The functions the switch of InternalGetFunctions has a case of: those of ISO
\* CLI, those ODBC adds, and those of ODBC 2 that ODBC 3 replaced.
IsoCases ==
  {"AllocHandle", "GetDescField", "BindCol", "GetDescRec", "Cancel",
   "GetDiagField", "CloseCursor", "GetDiagRec", "ColAttribute", "GetEnvAttr",
   "Connect", "GetFunctions", "CopyDesc", "GetInfo", "DataSources",
   "GetStmtAttr", "DescribeCol", "GetTypeInfo", "Disconnect", "NumResultCols",
   "Drivers", "ParamData", "EndTran", "Prepare", "ExecDirect", "PutData",
   "Execute", "RowCount", "Fetch", "SetConnectAttr", "FetchScroll"}
OdbcCases ==
  {"SetCursorName", "FreeHandle", "SetDescField", "FreeStmt", "SetDescRec",
   "GetConnectAttr", "SetEnvAttr", "GetCursorName", "SetStmtAttr", "GetData",
   "Columns", "Statistics", "SpecialColumns", "Tables", "NativeSql",
   "BrowseConnect", "NumParams", "BulkOperations", "PrimaryKeys",
   "ColumnPrivileges", "ProcedureColumns", "DescribeParam", "Procedures",
   "DriverConnect", "SetPos", "ForeignKeys", "TablePrivileges", "MoreResults"}
Odbc2Cases ==
  {"AllocConnect", "AllocEnv", "AllocStmt", "BindParameter", "Error",
   "ExtendedFetch", "FreeConnect", "FreeEnv", "GetConnectOption",
   "GetStmtOption", "ParamOptions", "SetConnectOption", "SetParam",
   "SetScrollOptions", "SetStmtOption", "Transact"}

\* The answer for one function; what has no case leaves the caller's word as it
\* was.
InternalGetFunctions(f, before) ==
  IF f \in IsoCases \cup OdbcCases \cup Odbc2Cases THEN TRUE ELSE before

\* SQL_FUNC_SET: the bits of a bitmap of words of 16 bits, for the functions ids.
SQL_FUNC_SET(valueBuf, ids) ==
  [w \in DOMAIN valueBuf |->
     valueBuf[w] \cup {id % 16 : id \in {i \in ids : i \div 16 = w}}]

Odbc3List ==
  {"AllocHandle", "GetDescField", "BindCol", "GetDescRec", "Cancel",
   "GetDiagField", "CloseCursor", "GetDiagRec", "ColAttribute", "GetEnvAttr",
   "Connect", "GetFunctions", "CopyDesc", "GetInfo", "DataSources",
   "GetStmtAttr", "DescribeCol", "GetTypeInfo", "Disconnect", "NumResultCols",
   "Drivers", "ParamData", "EndTran", "Prepare", "ExecDirect", "PutData",
   "Execute", "RowCount", "Fetch", "SetConnectAttr", "FetchScroll",
   "SetCursorName", "FreeHandle", "SetDescField", "FreeStmt", "SetDescRec",
   "GetConnectAttr", "SetEnvAttr", "GetCursorName", "SetStmtAttr", "GetData",
   "Columns", "Statistics", "SpecialColumns", "Tables", "BindParameter",
   "NativeSql", "BrowseConnect", "NumParams", "BulkOperations", "PrimaryKeys",
   "ColumnPrivileges", "ProcedureColumns", "DescribeParam", "Procedures",
   "DriverConnect", "SetPos", "ForeignKeys", "TablePrivileges", "MoreResults"}

Odbc2List ==
  {"AllocConnect", "AllocEnv", "AllocStmt", "BindCol", "BindParameter",
   "BrowseConnect", "Cancel", "ColAttribute", "ColumnPrivileges", "Columns",
   "Connect", "DataSources", "DescribeCol", "DescribeParam", "Disconnect",
   "DriverConnect", "Drivers", "Error", "ExecDirect", "Execute",
   "ExtendedFetch", "Fetch", "ForeignKeys", "FreeConnect", "FreeEnv",
   "FreeStmt", "GetConnectOption", "GetCursorName", "GetData", "GetFunctions",
   "GetInfo", "GetStmtOption", "GetTypeInfo", "MoreResults", "NativeSql",
   "NumParams", "NumResultCols", "ParamData", "ParamOptions", "Prepare",
   "PrimaryKeys", "ProcedureColumns", "Procedures", "PutData", "RowCount",
   "SetConnectOption", "SetCursorName", "SetParam", "SetPos",
   "SetScrollOptions", "SetStmtOption", "SpecialColumns", "Statistics",
   "TablePrivileges", "Tables", "Transact"}

\* SQL_API_ODBC3_ALL_FUNCTIONS: a bitmap of 250 words of 16 bits.
SetODBC3FunctionsValue ==
  SQL_FUNC_SET([w \in 0..249 |-> {}], {ApiId[f] : f \in Odbc3List})

\* SQL_API_ALL_FUNCTIONS: an array of 100 words, one per function.
SetODBC2FunctionsValue ==
  LET ids == {ApiId[f] : f \in Odbc2List} IN [i \in 0..99 |-> i \in ids]
=============================================================================
