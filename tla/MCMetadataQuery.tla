-------------------------- MODULE MCMetadataQuery --------------------------
(***************************************************************************)
(* A server with three databases, one of them without tables, and names    *)
(* that differ from the identifiers asked for only in case.                *)
(***************************************************************************)
EXTENDS MetadataQuery

MCDatabases == <<"db1", "db2", "db3">>
MCTablesOf == [d \in {"db1", "db2", "db3"} |->
                 CASE d = "db1" -> <<"t1", "t2">>
                   [] d = "db2" -> <<>>
                   [] OTHER -> <<"t1">>]
MCColumnsOf == [k \in {<<"db1", "t1">>, <<"db1", "t2">>, <<"db3", "t1">>} |->
                  IF k[2] = "t1" THEN <<"c1", "c2">> ELSE <<"c2">>]

\* Names in upper case; "" and "%" are their own
MCUpper ==
  [n \in {"db1", "db2", "db3", "DB1", "t1", "t2", "T1", "c1", "c2", "", "%"} |->
     CASE n = "db1" -> "DB1" [] n = "db2" -> "DB2" [] n = "db3" -> "DB3"
       [] n = "t1" -> "T1" [] n = "t2" -> "T2"
       [] n = "c1" -> "C1" [] n = "c2" -> "C2" [] OTHER -> n]

PatternCalls ==
  [kind : {"tables"}, id : {FALSE}, db : {Null, "", "%", "db1"},
   other : {Null, "", "%", "x"}, table : {Null, "", "t1"},
   type : {Null}, column : {Null}]

IdentifierCalls ==
  [kind : {"tables"}, id : {TRUE}, db : {Null, "%", "DB1"}, other : {Null},
   table : {Null, "T1"}, type : {Null}, column : {Null}]

TypeCalls ==
  [kind : {"tables"}, id : {FALSE}, db : {"", "db1"}, other : {""},
   table : {"", "t1"}, type : {"%", TableType, OtherType}, column : {Null}]

ColumnsCalls ==
  [kind : {"columns"}, id : {FALSE}, db : {Null, "", "db1"},
   other : {Null, "x"}, table : {Null, "", "t1"}, type : {Null},
   column : {Null, "c2"}]
  \cup
  [kind : {"columns"}, id : {TRUE}, db : {Null, "DB1", "db1"}, other : {Null},
   table : {"t1"}, type : {Null}, column : {Null, "c2"}]

MCCalls == PatternCalls \cup IdentifierCalls \cup TypeCalls \cup ColumnsCalls
=============================================================================
