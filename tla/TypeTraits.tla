----------------------------- MODULE TypeTraits -----------------------------
(***************************************************************************)
(* What the driver says about data types: the tables of type_traits.cpp,   *)
(* and the three places that read them to describe a column to the         *)
(* application: SQLGetTypeInfo (TypeInfoQuery), SQLColumns                 *)
(* (ColumnMetadataQuery) and SQLColAttribute (ColumnMeta).                 *)
(*                                                                         *)
(* Types, names and attributes are strings with the names of the source.   *)
(* A cell of a result is << >> for NULL and <<v>> for the value v.         *)
(***************************************************************************)
EXTENDS Integers, Sequences

MaxLength == 65532   \* TIMESTREAM_SQL_MAX_LENGTH
Null == << >>

ScalarTypes ==
  {"NOT_SET", "VARCHAR", "BOOLEAN", "BIGINT", "DOUBLE", "TIMESTAMP", "DATE", "TIME",
   "INTERVAL_DAY_TO_SECOND", "INTERVAL_YEAR_TO_MONTH", "UNKNOWN", "INTEGER"}

\* The first of the types that matches, as a switch does; otherwise dflt.
Switch(type, cases, dflt) ==
  LET hit == {i \in 1..Len(cases) : type \in cases[i][1]}
  IN IF hit = {} THEN dflt ELSE cases[CHOOSE i \in hit : TRUE][2]

CharTypes  == {"SQL_CHAR", "SQL_VARCHAR", "SQL_LONGVARCHAR"}
WcharTypes == {"SQL_WCHAR", "SQL_WVARCHAR", "SQL_WLONGVARCHAR"}
LongTypes  == CharTypes \union WcharTypes \union {"SQL_DECIMAL", "SQL_NUMERIC"}
ApproxTypes == {"SQL_FLOAT", "SQL_REAL", "SQL_DOUBLE"}
IntTypes   == {"SQL_TINYINT", "SQL_SMALLINT", "SQL_INTEGER", "SQL_BIGINT"}
DateTypes  == {"SQL_TYPE_DATE", "SQL_TYPE_TIME", "SQL_TYPE_TIMESTAMP"}
Intervals  == {"SQL_INTERVAL_YEAR_TO_MONTH", "SQL_INTERVAL_DAY_TO_SECOND"}

IsSqlTypeSupported(type) ==
  type \in LongTypes \union ApproxTypes \union IntTypes \union DateTypes
             \union Intervals \union {"SQL_BIT", "SQL_TYPE_NULL"}

\* SqlTypeName: a Timestream BOOLEAN is called BIT.
BinaryTypeToSqlTypeName(scalar) == IF scalar = "BOOLEAN" THEN "BIT" ELSE scalar

BinaryToSqlType(scalar) ==
  Switch(scalar,
    << <<{"BOOLEAN"}, "SQL_BIT">>, <<{"INTEGER"}, "SQL_INTEGER">>,
       <<{"BIGINT"}, "SQL_BIGINT">>, <<{"DOUBLE"}, "SQL_DOUBLE">>,
       <<{"DATE"}, "SQL_TYPE_DATE">>, <<{"TIME"}, "SQL_TYPE_TIME">>,
       <<{"TIMESTAMP"}, "SQL_TYPE_TIMESTAMP">>,
       <<{"INTERVAL_DAY_TO_SECOND"}, "SQL_INTERVAL_DAY_TO_SECOND">>,
       <<{"INTERVAL_YEAR_TO_MONTH"}, "SQL_INTERVAL_YEAR_TO_MONTH">> >>,
    "SQL_VARCHAR")

SqlTypeToBinary(type) ==
  Switch(type,
    << <<{"SQL_BIT"}, "BOOLEAN">>, <<{"SQL_INTEGER"}, "INTEGER">>,
       <<{"SQL_BIGINT"}, "BIGINT">>, <<{"SQL_DOUBLE"}, "DOUBLE">>,
       <<{"SQL_TYPE_DATE"}, "DATE">>, <<{"SQL_TYPE_TIME"}, "TIME">>,
       <<{"SQL_TYPE_TIMESTAMP"}, "TIMESTAMP">>,
       <<{"SQL_INTERVAL_DAY_TO_SECOND"}, "INTERVAL_DAY_TO_SECOND">>,
       <<{"SQL_INTERVAL_YEAR_TO_MONTH"}, "INTERVAL_YEAR_TO_MONTH">>,
       <<{"SQL_VARCHAR"}, "VARCHAR">> >>,
    "UNKNOWN")

SqlTypeDisplaySize(type) ==
  Switch(type,
    << <<LongTypes, MaxLength>>, <<{"SQL_BIT", "SQL_TYPE_NULL"}, 1>>,
       <<{"SQL_TINYINT"}, 4>>, <<{"SQL_SMALLINT"}, 6>>, <<{"SQL_INTEGER"}, 11>>,
       <<{"SQL_BIGINT"}, 20>>, <<{"SQL_REAL"}, 14>>, <<{"SQL_FLOAT", "SQL_DOUBLE"}, 24>>,
       <<{"SQL_TYPE_DATE"}, 10>>, <<{"SQL_TYPE_TIME"}, 8>>, <<{"SQL_TYPE_TIMESTAMP"}, 20>>,
       <<{"SQL_INTERVAL_DAY_TO_SECOND"}, 25>>, <<{"SQL_INTERVAL_YEAR_TO_MONTH"}, 12>>,
       <<{"SQL_GUID"}, 36>> >>, 0)

SqlTypeColumnSize(type) ==
  Switch(type,
    << <<LongTypes, MaxLength>>, <<{"SQL_BIT", "SQL_TYPE_NULL"}, 1>>,
       <<{"SQL_TINYINT"}, 3>>, <<{"SQL_SMALLINT"}, 5>>, <<{"SQL_INTEGER"}, 10>>,
       <<{"SQL_BIGINT"}, 19>>, <<{"SQL_REAL"}, 7>>, <<{"SQL_FLOAT", "SQL_DOUBLE"}, 15>>,
       <<{"SQL_TYPE_DATE"}, 10>>, <<{"SQL_TYPE_TIME"}, 8>>, <<{"SQL_TYPE_TIMESTAMP"}, 19>>,
       <<{"SQL_INTERVAL_DAY_TO_SECOND"}, 25>>, <<{"SQL_INTERVAL_YEAR_TO_MONTH"}, 12>>,
       <<{"SQL_GUID"}, 36>> >>, 0)

SqlTypeTransferLength(type) ==
  Switch(type,
    << <<LongTypes, MaxLength>>, <<{"SQL_BIT", "SQL_TINYINT", "SQL_TYPE_NULL"}, 1>>,
       <<{"SQL_SMALLINT"}, 2>>, <<{"SQL_INTEGER", "SQL_FLOAT", "SQL_REAL"}, 4>>,
       <<{"SQL_BIGINT", "SQL_DOUBLE"}, 8>>, <<{"SQL_TYPE_DATE", "SQL_TYPE_TIME"}, 6>>,
       <<{"SQL_TYPE_TIMESTAMP", "SQL_GUID"}, 16>>, <<Intervals, 34>> >>, 0)

SqlTypeNumPrecRadix(type) ==
  Switch(type, << <<ApproxTypes, 2>>, <<IntTypes \union {"SQL_BIT"}, 10>> >>, 0)

SqlTypeDecimalDigits(type) == Switch(type, << <<IntTypes, 0>>, <<{"SQL_DOUBLE"}, 15>> >>, -1)

SqlTypeCharOctetLength(type, wcharSize) ==
  Switch(type, << <<CharTypes, MaxLength>>, <<WcharTypes, wcharSize * MaxLength>> >>, 0)

SqlTypeUnsigned(type) == type \notin IntTypes \union ApproxTypes \union {"SQL_BIT"}

BinaryTypeDisplaySize(scalar)    == SqlTypeDisplaySize(BinaryToSqlType(scalar))
BinaryTypeColumnSize(scalar)     == SqlTypeColumnSize(BinaryToSqlType(scalar))

\* Mutant: the size of the column in place of the bytes that are transferred.
BinaryTypeTransferColumnSize(scalar) == SqlTypeColumnSize(BinaryToSqlType(scalar))

BinaryTypeTransferLength(scalar) == SqlTypeTransferLength(BinaryToSqlType(scalar))
BinaryTypeNumPrecRadix(scalar)   == SqlTypeNumPrecRadix(BinaryToSqlType(scalar))
BinaryTypeDecimalDigits(scalar)  == SqlTypeDecimalDigits(BinaryToSqlType(scalar))
BinaryTypeUnsigned(scalar)       == SqlTypeUnsigned(BinaryToSqlType(scalar))

NullabilityToIsNullable(nullability) ==
  Switch(nullability, << <<{"SQL_NO_NULLS"}, <<"NO">> >>, <<{"SQL_NULLABLE"}, <<"YES">> >> >>, Null)

-----------------------------------------------------------------------------
(* SQLGetTypeInfo.                                                         *)

AllTypes ==
  <<"VARCHAR", "BOOLEAN", "BIGINT", "DOUBLE", "TIMESTAMP", "DATE", "TIME",
    "INTERVAL_DAY_TO_SECOND", "INTERVAL_YEAR_TO_MONTH", "INTEGER", "NOT_SET", "UNKNOWN">>

\* The types a TypeInfoQuery lists, in order.
TypesListed(type) ==
  IF type = "SQL_ALL_TYPES" THEN AllTypes ELSE <<SqlTypeToBinary(type)>>

Column(name, type, nullable) == [name |-> name, type |-> type, nullable |-> nullable]

TypeInfoColumns ==
  <<Column("TYPE_NAME", "VARCHAR", FALSE), Column("DATA_TYPE", "INTEGER", FALSE),
    Column("COLUMN_SIZE", "INTEGER", TRUE), Column("LITERAL_PREFIX", "VARCHAR", TRUE),
    Column("LITERAL_SUFFIX", "VARCHAR", TRUE), Column("CREATE_PARAMS", "VARCHAR", TRUE),
    Column("NULLABLE", "INTEGER", FALSE), Column("CASE_SENSITIVE", "INTEGER", FALSE),
    Column("SEARCHABLE", "INTEGER", FALSE), Column("UNSIGNED_ATTRIBUTE", "INTEGER", TRUE),
    Column("FIXED_PREC_SCALE", "INTEGER", FALSE), Column("AUTO_UNIQUE_VALUE", "INTEGER", TRUE),
    Column("LOCAL_TYPE_NAME", "VARCHAR", TRUE), Column("MINIMUM_SCALE", "INTEGER", TRUE),
    Column("MAXIMUM_SCALE", "INTEGER", TRUE), Column("SQL_DATA_TYPE", "INTEGER", FALSE),
    Column("SQL_DATETIME_SUB", "INTEGER", TRUE), Column("NUM_PREC_RADIX", "INTEGER", TRUE),
    Column("INTERVAL_PRECISION", "INTEGER", TRUE)>>

\* TypeInfoQuery::GetColumn.
TypeInfoCell(scalar, name) ==
  CASE name = "TYPE_NAME" -> <<BinaryTypeToSqlTypeName(scalar)>>
    [] name \in {"DATA_TYPE", "SQL_DATA_TYPE"} -> <<BinaryToSqlType(scalar)>>
    [] name = "COLUMN_SIZE" -> <<BinaryTypeColumnSize(scalar)>>
    [] name \in {"LITERAL_PREFIX", "LITERAL_SUFFIX"} -> IF scalar = "VARCHAR" THEN <<"'">> ELSE Null
    [] name = "NULLABLE" -> <<"SQL_NULLABLE_UNKNOWN">>
    [] name = "CASE_SENSITIVE" -> <<scalar = "VARCHAR">>
    [] name = "SEARCHABLE" -> <<"SQL_SEARCHABLE">>
    [] name = "UNSIGNED_ATTRIBUTE" -> <<BinaryTypeUnsigned(scalar)>>
    [] name \in {"FIXED_PREC_SCALE", "AUTO_UNIQUE_VALUE"} -> <<FALSE>>
    [] name \in {"MINIMUM_SCALE", "MAXIMUM_SCALE"} -> <<BinaryTypeDecimalDigits(scalar)>>
    [] name = "NUM_PREC_RADIX" -> <<BinaryTypeNumPrecRadix(scalar)>>
    [] name \in {"CREATE_PARAMS", "LOCAL_TYPE_NAME", "SQL_DATETIME_SUB", "INTERVAL_PRECISION"} -> Null

-----------------------------------------------------------------------------
(* ColumnMeta and SQLColumns.                                              *)

\* ColumnMeta::GetScalarDataType: the names that DESCRIBE uses.
GetScalarDataType(name) ==
  Switch(name,
    << <<{"varchar"}, "VARCHAR">>, <<{"bigint"}, "BIGINT">>, <<{"double"}, "DOUBLE">>,
       <<{"boolean"}, "BOOLEAN">>, <<{"timestamp"}, "TIMESTAMP">>, <<{"date"}, "DATE">>,
       <<{"time"}, "TIME">>, <<{"integer"}, "INTEGER">>,
       <<{"interval day to second"}, "INTERVAL_DAY_TO_SECOND">>,
       <<{"interval year to month"}, "INTERVAL_YEAR_TO_MONTH">> >>,
    "UNKNOWN")

\* ColumnMeta::ColumnMeta: a database is the schema or the catalog.  Precision
\* and scale are never assigned afterwards.
NewColumnMeta(database, table, databaseAsSchema) ==
  [catalogName |-> IF databaseAsSchema THEN Null ELSE <<database>>,
   schemaName |-> IF databaseAsSchema THEN <<database>> ELSE Null,
   tableName |-> table, columnName |-> <<"">>, dataType |-> "NOT_SET", remarks |-> Null,
   precision |-> -1, scale |-> -1, nullability |-> "SQL_NULLABLE_UNKNOWN", ordinalPosition |-> -1]

\* ColumnMeta::Read: one row of DESCRIBE, all three columns bound.
ReadDescribe(meta, name, type, remark, position) ==
  [meta EXCEPT !.columnName = <<name>>, !.dataType = GetScalarDataType(type),
               !.remarks = <<remark>>,
               !.nullability = IF remark \in {"MEASURE_VALUE", "MULTI"}
                               THEN "SQL_NULLABLE" ELSE "SQL_NO_NULLS",
               !.ordinalPosition = position]

\* ColumnMeta::ReadMetadata: the ColumnInfo of a result; a nested type has no
\* scalar type and is described as VARCHAR.
ReadMetadata(meta, name, scalar) ==
  [meta EXCEPT !.columnName = <<name>>,
               !.dataType = IF scalar = "none" THEN "VARCHAR" ELSE scalar]

\* ColumnMeta::GetAttribute(fieldId, SqlLen&); Null for "not found".
NumAttribute(meta, field) ==
  Switch(field,
    << <<{"SQL_DESC_FIXED_PREC_SCALE"}, <<meta.precision # -1 /\ meta.scale \notin {-1, 0}>> >>,
       <<{"SQL_DESC_AUTO_UNIQUE_VALUE"}, <<FALSE>> >>,
       <<{"SQL_DESC_CASE_SENSITIVE"}, <<meta.dataType = "VARCHAR">> >>,
       <<{"SQL_DESC_CONCISE_TYPE", "SQL_DESC_TYPE"}, <<BinaryToSqlType(meta.dataType)>> >>,
       <<{"SQL_DESC_LENGTH", "SQL_COLUMN_LENGTH", "SQL_DESC_DISPLAY_SIZE"},
         <<BinaryTypeDisplaySize(meta.dataType)>> >>,
       <<{"SQL_DESC_OCTET_LENGTH"}, <<BinaryTypeTransferLength(meta.dataType)>> >>,
       <<{"SQL_DESC_NULLABLE"}, <<meta.nullability>> >>,
       <<{"SQL_DESC_NUM_PREC_RADIX"}, <<BinaryTypeNumPrecRadix(meta.dataType)>> >>,
       <<{"SQL_DESC_PRECISION", "SQL_COLUMN_PRECISION"},
         <<IF meta.precision = -1 THEN BinaryTypeColumnSize(meta.dataType) ELSE meta.precision>> >>,
       <<{"SQL_DESC_SCALE", "SQL_COLUMN_SCALE"},
         <<IF meta.scale = -1 THEN BinaryTypeDecimalDigits(meta.dataType) ELSE meta.scale>> >>,
       <<{"SQL_DESC_SEARCHABLE"}, <<"SQL_PRED_BASIC">> >>,
       <<{"SQL_DESC_UNNAMED"}, <<meta.columnName # Null /\ meta.columnName # <<"">> >> >>,
       <<{"SQL_DESC_UNSIGNED"}, <<BinaryTypeUnsigned(meta.dataType)>> >>,
       <<{"SQL_DESC_UPDATABLE"}, <<"SQL_ATTR_READWRITE_UNKNOWN">> >> >>, Null)

OrEmpty(cell) == IF cell = Null THEN <<"">> ELSE cell

\* ColumnMeta::GetAttribute(fieldId, std::string&); Null for "not found".
TextAttribute(meta, field) ==
  Switch(field,
    << <<{"SQL_DESC_LABEL", "SQL_DESC_BASE_COLUMN_NAME", "SQL_DESC_NAME"},
         OrEmpty(meta.columnName)>>,
       <<{"SQL_DESC_TABLE_NAME", "SQL_DESC_BASE_TABLE_NAME"}, <<meta.tableName>> >>,
       <<{"SQL_DESC_SCHEMA_NAME"}, OrEmpty(meta.schemaName)>>,
       <<{"SQL_DESC_CATALOG_NAME"}, OrEmpty(meta.catalogName)>>,
       <<{"SQL_DESC_LITERAL_PREFIX", "SQL_DESC_LITERAL_SUFFIX"},
         <<IF meta.dataType = "VARCHAR" THEN "'" ELSE "">> >>,
       <<{"SQL_DESC_TYPE_NAME", "SQL_DESC_LOCAL_TYPE_NAME"},
         <<BinaryTypeToSqlTypeName(meta.dataType)>> >> >>, Null)

\* Statement::InternalGetColumnAttribute of a column that exists: the numeric
\* buffer is tried first when there is one, then the text.
ColumnAttribute(meta, field, numbuf) ==
  IF numbuf /\ NumAttribute(meta, field) # Null THEN NumAttribute(meta, field)
  ELSE TextAttribute(meta, field)

ColumnsColumns ==
  <<Column("TABLE_CAT", "VARCHAR", TRUE), Column("TABLE_SCHEM", "VARCHAR", TRUE),
    Column("TABLE_NAME", "VARCHAR", FALSE), Column("COLUMN_NAME", "VARCHAR", FALSE),
    Column("DATA_TYPE", "INTEGER", FALSE), Column("TYPE_NAME", "VARCHAR", FALSE),
    Column("COLUMN_SIZE", "INTEGER", TRUE), Column("BUFFER_LENGTH", "INTEGER", TRUE),
    Column("DECIMAL_DIGITS", "INTEGER", TRUE), Column("NUM_PREC_RADIX", "INTEGER", TRUE),
    Column("NULLABLE", "INTEGER", FALSE), Column("REMARKS", "VARCHAR", TRUE),
    Column("COLUMN_DEF", "VARCHAR", TRUE), Column("SQL_DATA_TYPE", "INTEGER", FALSE),
    Column("SQL_DATETIME_SUB", "INTEGER", TRUE), Column("CHAR_OCTET_LENGTH", "INTEGER", TRUE),
    Column("ORDINAL_POSITION", "INTEGER", FALSE), Column("IS_NULLABLE", "VARCHAR", TRUE)>>

\* ColumnMetadataQuery::GetColumn.
ColumnsCell(meta, name, wcharSize) ==
  CASE name = "TABLE_CAT" -> meta.catalogName
    [] name = "TABLE_SCHEM" -> meta.schemaName
    [] name \in {"COLUMN_DEF", "SQL_DATETIME_SUB"} -> Null
    [] name = "TABLE_NAME" -> <<meta.tableName>>
    [] name = "COLUMN_NAME" -> meta.columnName
    [] name \in {"DATA_TYPE", "SQL_DATA_TYPE"} -> <<BinaryToSqlType(meta.dataType)>>
    [] name = "TYPE_NAME" -> <<BinaryTypeToSqlTypeName(meta.dataType)>>
    [] name = "COLUMN_SIZE" -> <<BinaryTypeColumnSize(meta.dataType)>>
    [] name = "BUFFER_LENGTH" -> <<BinaryTypeTransferLength(meta.dataType)>>
    [] name = "DECIMAL_DIGITS" -> IF BinaryTypeDecimalDigits(meta.dataType) < 0 THEN Null
                                  ELSE <<BinaryTypeDecimalDigits(meta.dataType)>>
    [] name = "NUM_PREC_RADIX" -> <<BinaryTypeNumPrecRadix(meta.dataType)>>
    [] name = "NULLABLE" -> <<meta.nullability>>
    [] name = "REMARKS" -> meta.remarks
    [] name = "CHAR_OCTET_LENGTH" -> <<SqlTypeCharOctetLength(BinaryToSqlType(meta.dataType), wcharSize)>>
    [] name = "ORDINAL_POSITION" -> <<meta.ordinalPosition>>
    [] name = "IS_NULLABLE" -> NullabilityToIsNullable(meta.nullability)
=============================================================================
