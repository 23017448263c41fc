--------------------------- MODULE MetadataQuery ---------------------------
(***************************************************************************)
(* SQLTables and SQLColumns: TableMetadataQuery and ColumnMetadataQuery.   *)
(*                                                                         *)
(* Timestream has no catalog tables to select from, so both functions are  *)
(* built from several internal data queries, run one after the other:      *)
(*    SHOW DATABASES, SHOW TABLES FROM each database that matched, and,    *)
(*    for SQLColumns, DESCRIBE of each table that matched.                 *)
(* The rows of all of them are collected in `meta', and the application    *)
(* then reads `meta' with SQLFetch.  Any of the internal queries can fail, *)
(* find nothing, or lose its later pages, and SQLCancel may arrive from    *)
(* another thread between two of them.                                     *)
(*                                                                         *)
(* A database is reported as a schema or as a catalog (DATABASE_AS_SCHEMA).*)
(* The two are mirror images: `db' is the argument that names the          *)
(* database, `other' the one for the level that Timestream does not have.  *)
(***************************************************************************)
EXTENDS Integers, Sequences, SequencesExt, FiniteSets

CONSTANTS
  Databases,     \* the server's databases, in the order SHOW lists them
  TablesOf,      \* TablesOf[d]: the tables of database d, in that order
  ColumnsOf,     \* ColumnsOf[<<d, t>>]: the columns of table t of d
  Upper,         \* Upper[n]: the name n in upper case
  Calls,         \* the calls the application may make: a set of Args
  Null, Empty, Percent,   \* arguments: a null pointer, "" and "%"
  TableType, OtherType,   \* arguments for TableType: 'TABLE', and any other
  Faults         \* what may go wrong: a subset of {"execute", "page", "cancel"}

Names == DOMAIN Upper

\* The server lists the names of each level once
ASSUME CatalogAssumption ==
  /\ Databases \in Seq(Names) /\ IsInjective(Databases)
  /\ DOMAIN TablesOf = ToSet(Databases)
  /\ \A d \in DOMAIN TablesOf :
       TablesOf[d] \in Seq(Names) /\ IsInjective(TablesOf[d])
  /\ DOMAIN ColumnsOf \subseteq Names \X Names
  /\ \A k \in DOMAIN ColumnsOf :
       ColumnsOf[k] \in Seq(Names) /\ IsInjective(ColumnsOf[k])

ASSUME CallsAssumption ==
  /\ \A a \in Calls :
       /\ a.kind \in {"tables", "columns"} /\ a.id \in BOOLEAN
       /\ {a.db, a.table, a.column} \subseteq Names \cup {Null}
  /\ Empty \in Names /\ Null \notin Names

VARIABLES
  pc,            \* the internal query the call is about to make, or "idle"
  args,          \* the arguments of the current or last call
  ret,           \* what that call returned
  queue,         \* databases to list, or tables to describe
  tmeta,         \* TableMetadataQuery::meta
  cmeta,         \* ColumnMetadataQuery::meta
  executed, fetched, cursor,   \* of the query object the statement owns
  fetchRet,      \* what the last SQLFetch returned
  delivered,     \* the rows SQLFetch has handed to the application
  failed,        \* an internal query of this call failed
  interrupted    \* rows were lost: a later page failed, or SQLCancel came

vars == <<pc, args, ret, queue, tmeta, cmeta, executed, fetched, cursor,
          fetchRet, delivered, failed, interrupted>>

Codes == {"SUCCESS", "INFO", "NO_DATA", "ERROR"}
None == [db |-> Empty, table |-> Empty]
TableEntries == [db : Names, table : Names]
ColumnEntries == [db : Names, table : Names, column : Names, ordinal : Nat]

(***************************************************************************)
(* An internal DataQuery that should list the rows of L: Execute fails, or *)
(* says NO_DATA for an empty result, or succeeds; FetchNextRow is then     *)
(* called as long as it returns AI_SUCCESS.  When the request for a later  *)
(* page fails FetchNextRow returns an error, and the loop ends just as it  *)
(* does at the last row.                                                   *)
(***************************************************************************)
Listings(L) ==
  (IF "execute" \in Faults THEN {[res |-> "ERROR", rows |-> <<>>]} ELSE {})
  \cup
  (IF L = <<>> THEN {[res |-> "NO_DATA", rows |-> <<>>]}
   ELSE {[res |-> "SUCCESS", rows |-> SubSeq(L, 1, k)] :
           k \in IF "page" \in Faults THEN 1..Len(L) ELSE {Len(L)}})

\* The rows of s that are in T, in the order of s
Keep(s, T) ==
  LET kept[i \in 0..Len(s)] ==
        IF i = 0 THEN <<>>
        ELSE IF s[i] \in T THEN Append(kept[i - 1], s[i]) ELSE kept[i - 1]
  IN  kept[Len(s)]

\* The server's LIKE: here a pattern is "%" or a name
Like(pattern, name) == pattern \in {Percent, name}

Listed(L, pattern) == Keep(L, {n \in Names : Like(pattern, n)})

GetValueOr(arg, default) == IF arg = Null THEN default ELSE arg

-----------------------------------------------------------------------------
(* The arguments that are special: TableMetadataQuery's constructor *)

AllDatabases(a) ==
  ~a.id /\ a.db = Percent /\ a.other = Empty /\ a.table = Empty

AllOthers(a) ==
  ~a.id /\ a.other = Percent /\ a.db = Empty /\ a.table = Empty

AllTableTypes(a) ==
  a.type = Percent /\ a.db = Empty /\ a.other = Empty /\ a.table = Empty

\* MakeRequestGetTablesMeta: the list in TableType names 'TABLE', or is open
ValidTableType(a) == a.type \in {Null, Empty, Percent, TableType}

\* getTables: the arguments for which no internal query is made
TablesRefused(a) == a.id /\ (a.db = Null \/ a.table = Null)

TablesMatchNothing(a) ==
  ~a.id /\ ~AllDatabases(a)
        /\ \/ a.other \notin {Null, Empty, Percent}
           \/ AllOthers(a)
           \/ a.db = Empty
           \/ a.table = Empty

\* The pattern for SHOW DATABASES: identifiers are compared by the driver
DatabasePattern(a) ==
  IF a.id \/ AllDatabases(a) THEN Percent ELSE GetValueOr(a.db, Percent)

\* The pattern for SHOW TABLES
TablePattern(a) == IF a.id THEN Percent ELSE GetValueOr(a.table, Percent)

SameIdentifier(x, y) == Upper[x] = Upper[y]

-----------------------------------------------------------------------------
(* The end of Execute *)

\* The call returns r; Execute leaves the query readable when ok
Return(r, ok) ==
  /\ pc' = "idle"
  /\ ret' = r
  /\ executed' = ok
  /\ fetched' = FALSE
  /\ cursor' = 1
  /\ queue' = <<>>

\* The results after which TableMetadataQuery can be fetched from
TablesExecuted(r) == r \in {"SUCCESS", "INFO"}

\* TableMetadataQuery::Execute is over with r.  SQLTables returns it;
\* SQLColumns goes on with the tables found, or gives up with a warning.
TablesDone(r, meta) ==
  /\ tmeta' = meta
  /\ IF args.kind = "tables"
     THEN Return(r, TablesExecuted(r))
     ELSE IF r = "SUCCESS"
          THEN /\ pc' = "describe"
               /\ queue' = meta
               /\ UNCHANGED <<ret, executed, fetched, cursor>>
          ELSE Return("INFO", FALSE)

-----------------------------------------------------------------------------
(* The calls of the application *)

\* Every call closes and replaces the query object of the statement
NewQuery(a) ==
  /\ pc = "idle"
  /\ args' = a
  /\ cmeta' = <<>>
  /\ fetchRet' = "NONE"
  /\ delivered' = <<>>
  /\ failed' = FALSE
  /\ interrupted' = FALSE

\* No internal query is needed: the call returns r at once
ReturnAtOnce(r, ok, meta) == Return(r, ok) /\ tmeta' = meta

\* Internal queries are needed: the first is next, and q is what it works on
StartWith(next, q) ==
  /\ pc' = next
  /\ queue' = q
  /\ tmeta' = <<>>
  /\ executed' = FALSE /\ fetched' = FALSE /\ cursor' = 1
  /\ ret' = "NONE"

SQLTables(a) ==
  /\ a.kind = "tables"
  /\ NewQuery(a)
  /\ IF AllTableTypes(a) THEN ReturnAtOnce("SUCCESS", TRUE, <<None>>)
     ELSE IF ~ValidTableType(a) THEN ReturnAtOnce("INFO", TRUE, <<>>)
     ELSE IF TablesRefused(a) THEN ReturnAtOnce("ERROR", FALSE, <<>>)
     ELSE IF TablesMatchNothing(a) THEN ReturnAtOnce("INFO", TRUE, <<>>)
     ELSE StartWith("databases", <<>>)

\* ColumnMetadataQuery::Execute tests its arguments before any query
ColumnsRefused(a) ==
  a.id /\ (a.db = Null \/ a.table = Null \/ a.column = Null)

ColumnsMatchNothing(a) == a.db = Empty \/ a.table = Empty

\* With both names empty SQLColumns returns before it touches the statement
SQLColumns(a) ==
  /\ a.kind = "columns"
  /\ ~(a.db = Empty /\ a.other = Empty)
  /\ NewQuery(a)
  /\ IF a.other \notin {Null, Empty, Percent}
     THEN ReturnAtOnce("INFO", FALSE, <<>>)
     ELSE IF ColumnsRefused(a) THEN ReturnAtOnce("ERROR", FALSE, <<>>)
     ELSE IF ColumnsMatchNothing(a) THEN ReturnAtOnce("INFO", FALSE, <<>>)
     ELSE IF a.id \* the identifiers go to DESCRIBE as they are
          THEN StartWith("describe", <<[db |-> a.db, table |-> a.table]>>)
          ELSE StartWith("databases", <<>>)

-----------------------------------------------------------------------------
(* The internal queries *)

\* Mutant: the loop does not move on
AdvanceNowhere(q) == q

\* The next database, or the next table
Advance(q) == Tail(q)

\* What the listing l shows of the server's rows L is not all of them
Cut(l, L) == l.res = "SUCCESS" /\ Len(l.rows) < Len(L)

Record(l, L) ==
  /\ failed' = (failed \/ l.res = "ERROR")
  /\ interrupted' = (interrupted \/ Cut(l, L))

DatabaseEntries(rows) ==
  [i \in 1..Len(rows) |-> [db |-> rows[i], table |-> Empty]]

\* getTablesWithIdentifier keeps the first database with that name
FirstSame(rows, id) ==
  LET same == Keep(rows, {d \in Names : SameIdentifier(d, id)})
  IN  IF same = <<>> THEN <<>> ELSE <<Head(same)>>

ShowDatabases ==
  /\ pc = "databases"
  /\ LET L == Listed(Databases, DatabasePattern(args)) IN
     \E l \in Listings(L) :
       /\ Record(l, L)
       /\ CASE l.res = "ERROR" -> TablesDone("ERROR", tmeta)
            [] l.res = "NO_DATA" -> TablesDone("INFO", tmeta)
            [] OTHER ->
               IF AllDatabases(args)
               THEN TablesDone("SUCCESS", tmeta \o DatabaseEntries(l.rows))
               ELSE LET dbs == IF args.id THEN FirstSame(l.rows, args.db)
                                          ELSE l.rows
                    IN  IF dbs = <<>>
                        THEN TablesDone("INFO", tmeta)
                        ELSE /\ pc' = "tables"
                             /\ queue' = dbs
                             /\ UNCHANGED <<ret, tmeta, executed, fetched,
                                            cursor>>
  /\ UNCHANGED <<args, cmeta, fetchRet, delivered>>

\* Mutant: the tables are not compared with the identifier
EntriesForUnfiltered(d, rows) ==
  [i \in 1..Len(rows) |-> [db |-> d, table |-> rows[i]]]

\* The entries added for database d: with identifiers the driver compares
EntriesFor(d, rows) ==
  LET kept == Keep(rows, {t \in Names : ~args.id
                                        \/ SameIdentifier(t, args.table)})
  IN  [i \in 1..Len(kept) |-> [db |-> d, table |-> kept[i]]]

ShowTables ==
  /\ pc = "tables"
  /\ LET d == Head(queue)
         L == Listed(TablesOf[d], TablePattern(args)) IN
     \E l \in Listings(L) :
       /\ Record(l, L)
       /\ LET meta == tmeta \o EntriesFor(d, l.rows) IN
          IF l.res = "ERROR" THEN TablesDone("ERROR", tmeta)
          ELSE IF Len(queue) > 1
               THEN /\ queue' = Advance(queue)
                    /\ tmeta' = meta
                    /\ UNCHANGED <<pc, ret, executed, fetched, cursor>>
               ELSE TablesDone(IF meta = <<>> THEN "INFO" ELSE "SUCCESS", meta)
  /\ UNCHANGED <<args, cmeta, fetchRet, delivered>>

\* DESCRIBE of a table the server does not have fails
ServerColumns(e) ==
  IF <<e.db, e.table>> \in DOMAIN ColumnsOf THEN ColumnsOf[<<e.db, e.table>>]
  ELSE <<>>

Describings(e) ==
  Listings(ServerColumns(e))
  \cup (IF <<e.db, e.table>> \in DOMAIN ColumnsOf THEN {}
        ELSE {[res |-> "ERROR", rows |-> <<>>]})

ColumnMatches(c) == GetValueOr(args.column, Percent) \in {Percent, c}

\* prevPosition is incremented for the columns that are kept
ColumnEntriesOf(e, rows) ==
  LET kept == Keep(rows, {c \in Names : ColumnMatches(c)})
  IN  [i \in 1..Len(kept) |->
         [db |-> e.db, table |-> e.table, column |-> kept[i], ordinal |-> i]]

\* Mutant: each table's columns replace those of the table before
CollectAnew(e, rows) == ColumnEntriesOf(e, rows)

\* The columns of all tables are collected; meta is cleared only once
Collect(e, rows) == cmeta \o ColumnEntriesOf(e, rows)

\* MakeRequestGetColumnsMetaPerTable: any failure is reported as NO_DATA
PerTableResult(l, meta) ==
  IF l.res # "SUCCESS" THEN "NO_DATA"
  ELSE IF meta = <<>> THEN "INFO" ELSE "SUCCESS"

Describe ==
  /\ pc = "describe"
  /\ LET e == Head(queue)
         L == ServerColumns(e) IN
     \E l \in Describings(e) :
       /\ Record(l, L)
       /\ LET meta == Collect(e, l.rows)
              r == PerTableResult(l, meta)
          IN  /\ cmeta' = meta
              /\ IF r # "NO_DATA" /\ Len(queue) > 1
                 THEN /\ queue' = Advance(queue)
                      /\ UNCHANGED <<pc, ret, executed, fetched, cursor>>
                 ELSE Return(r, r = "SUCCESS")
  /\ UNCHANGED <<args, tmeta, fetchRet, delivered>>

-----------------------------------------------------------------------------
(* SQLCancel, SQLFetch and SQLCloseCursor *)

\* The rows of the query object the statement owns
Meta == IF args.kind = "tables" THEN tmeta ELSE cmeta

\* Close of that object
CloseQuery ==
  /\ IF args.kind = "tables" THEN tmeta' = <<>> /\ cmeta' = cmeta
                             ELSE cmeta' = <<>> /\ tmeta' = tmeta
  /\ cursor' = 1
  /\ executed' = FALSE

\* Another thread's SQLCancel between two internal queries: Close empties
\* meta, and the loop of the call goes on with the next database or table
CancelInFlight ==
  /\ pc # "idle"
  /\ "cancel" \in Faults
  /\ CloseQuery
  /\ interrupted' = (interrupted \/ Meta # <<>>)
  /\ UNCHANGED <<pc, args, ret, queue, fetched, fetchRet, delivered, failed>>

\* SQLCancel, SQLCloseCursor and SQLFreeStmt(SQL_CLOSE) with no call running
CloseIdle ==
  /\ pc = "idle"
  /\ executed
  /\ CloseQuery
  /\ UNCHANGED <<pc, args, ret, queue, fetched, fetchRet, delivered, failed,
                 interrupted>>

\* Mutant: the iterator moves before the first row too
NextCursorEager == IF cursor <= Len(Meta) THEN cursor + 1 ELSE cursor

\* FetchNextRow of either query: the iterator moves only after the first row
NextCursor == IF fetched /\ cursor <= Len(Meta) THEN cursor + 1 ELSE cursor

SQLFetch ==
  /\ pc = "idle"
  /\ IF ~executed
     THEN /\ fetchRet' = "ERROR"
          /\ UNCHANGED <<fetched, cursor, delivered>>
     ELSE /\ cursor' = NextCursor
          /\ fetched' = (fetched \/ Meta # <<>>)
          /\ IF NextCursor <= Len(Meta)
             THEN /\ fetchRet' = "SUCCESS"
                  /\ delivered' = Append(delivered, Meta[NextCursor])
             ELSE /\ fetchRet' = "NO_DATA"
                  /\ UNCHANGED delivered
  /\ UNCHANGED <<pc, args, ret, queue, tmeta, cmeta, executed, failed,
                 interrupted>>

-----------------------------------------------------------------------------
NoCall == [kind |-> "tables", id |-> FALSE, db |-> Null, other |-> Null,
           table |-> Null, type |-> Null, column |-> Null]

Init ==
  /\ pc = "idle" /\ args = NoCall /\ ret = "NONE" /\ fetchRet = "NONE"
  /\ queue = <<>> /\ tmeta = <<>> /\ cmeta = <<>> /\ delivered = <<>>
  /\ executed = FALSE /\ fetched = FALSE /\ cursor = 1
  /\ failed = FALSE /\ interrupted = FALSE

InternalQuery == ShowDatabases \/ ShowTables \/ Describe

Next ==
  \/ \E a \in Calls : SQLTables(a) \/ SQLColumns(a)
  \/ InternalQuery
  \/ CancelInFlight
  \/ CloseIdle
  \/ SQLFetch

\* A request of the SDK returns, in error at the latest when it times out,
\* so the thread of the call goes on to its next internal query
Spec == Init /\ [][Next]_vars /\ WF_vars(InternalQuery)

-----------------------------------------------------------------------------
(* Properties *)

TypeOK ==
  /\ pc \in {"idle", "databases", "tables", "describe"}
  /\ ret \in Codes \cup {"NONE"}
  /\ fetchRet \in Codes \cup {"NONE"}
  /\ pc = "tables" => queue \in Seq(ToSet(Databases)) /\ queue # <<>>
  /\ pc = "describe" => queue \in Seq(TableEntries) /\ queue # <<>>
  /\ tmeta \in Seq(TableEntries)
  /\ cmeta \in Seq(ColumnEntries)
  /\ executed \in BOOLEAN /\ fetched \in BOOLEAN
  /\ cursor \in 1..(Len(Meta) + 1)
  /\ failed \in BOOLEAN /\ interrupted \in BOOLEAN

\* The tables an application asks for, said of the server's catalog alone
Wanted(a) ==
  {e \in [db : ToSet(Databases), table : Names] :
     /\ e.table \in ToSet(TablesOf[e.db])
     /\ IF a.id THEN SameIdentifier(e.db, a.db) /\ SameIdentifier(e.table, a.table)
        ELSE /\ Like(GetValueOr(a.db, Percent), e.db)
             /\ Like(GetValueOr(a.table, Percent), e.table)}

WantedEntries(a) ==
  IF AllTableTypes(a) THEN {None}
  ELSE IF ~ValidTableType(a) \/ TablesMatchNothing(a) THEN {}
  ELSE IF AllDatabases(a) THEN {[db |-> d, table |-> Empty] : d \in ToSet(Databases)}
  ELSE Wanted(a)

\* The same of columns: a column is a database, a table and a name
WantedColumns(a) ==
  {w \in ToSet(Databases) \X Names \X Names :
     /\ [db |-> w[1], table |-> w[2]] \in Wanted(a)
     /\ <<w[1], w[2]>> \in DOMAIN ColumnsOf
     /\ w[3] \in ToSet(ColumnsOf[<<w[1], w[2]>>])
     /\ GetValueOr(a.column, Percent) \in {Percent, w[3]}}

\* The columns that the entries of meta name
ColumnsIn(meta) ==
  [i \in DOMAIN meta |-> <<meta[i].db, meta[i].table, meta[i].column>>]

\* Whatever fails, is cut short or is cancelled, SQLTables never lists a
\* table, and SQLColumns never a column, that was not asked for or that the
\* server does not have (TableMetadataQuery::getTables and its helpers).
ListsOnlyWhatWasAsked ==
  /\ args.kind = "tables" => ToSet(tmeta) \subseteq WantedEntries(args)
  /\ (args.kind = "columns" /\ ~args.id) =>
       ToSet(ColumnsIn(cmeta)) \subseteq WantedColumns(args)

\* SQLTables that returns SUCCESS or SUCCESS_WITH_INFO and lost no page and
\* was not cancelled lists every table asked for, each once.
TablesComplete ==
  (pc = "idle" /\ args.kind = "tables" /\ executed /\ ~interrupted
     /\ ret \in {"SUCCESS", "INFO"})
  => /\ ToSet(tmeta) = WantedEntries(args)
     /\ Len(tmeta) = Cardinality(WantedEntries(args))

\* The same of SQLColumns, when it returns SUCCESS: a DESCRIBE that fails
\* half way through the tables never passes for the whole answer.
ColumnsComplete ==
  (pc = "idle" /\ args.kind = "columns" /\ executed /\ ~interrupted /\ ~args.id)
  => /\ ToSet(ColumnsIn(cmeta)) = WantedColumns(args)
     /\ Len(cmeta) = Cardinality(WantedColumns(args))

\* A failed internal query is never hidden by a readable result: the
\* application either gets an error code or finds nothing to fetch.
FailureNotReadable == (pc = "idle" /\ failed) => ~executed

\* SQLFetch hands out the collected rows in order, each once, and says
\* NO_DATA only behind the last one.
FetchedInOrder ==
  (pc = "idle" /\ executed) =>
    /\ IsPrefix(delivered, Meta)
    /\ fetchRet = "NO_DATA" => delivered = Meta

\* ORDINAL_POSITION is the index of the column in its table, when all columns
\* of the table were asked for: the code counts the columns that matched.
OrdinalIsIndexInTable ==
  (/\ pc = "idle" /\ executed /\ args.kind = "columns" /\ ~interrupted
   /\ GetValueOr(args.column, Percent) = Percent) =>
    \A i \in 1..Len(cmeta) :
      LET e == cmeta[i] IN ColumnsOf[<<e.db, e.table>>][e.ordinal] = e.column

\* What SQLTables and SQLColumns say they have listed is the whole answer.
ListsComplete == TablesComplete /\ ColumnsComplete /\ OrdinalIsIndexInTable

\* What can be fetched after a call is the answer of a call that succeeded, in
\* order (TableMetadataQuery and ColumnMetadataQuery, FetchNextRow).
FetchGivesAnswer == TypeOK /\ FailureNotReadable /\ FetchedInOrder

\* Why it holds: how many rows SQLFetch has handed out, and that no row is
\* handed out, and no failure goes by, while the call still collects.
Given == IF ~fetched THEN 0 ELSE IF cursor <= Len(Meta) THEN cursor ELSE Len(Meta)

FetchInv ==
  /\ pc # "idle" => /\ args \in Calls
                    /\ ~executed /\ ~fetched /\ cursor = 1 /\ ~failed
                    /\ delivered = <<>> /\ fetchRet = "NONE"
  /\ (pc = "idle" /\ executed) =>
       /\ delivered = SubSeq(Meta, 1, Given)
       /\ ~fetched => cursor = 1
       /\ fetchRet = "NO_DATA" => delivered = Meta
       /\ ~failed

\* What the loops over databases and tables still have to do was asked for,
\* and what they have collected too
DatabaseAsked(a, d) ==
  IF a.id THEN SameIdentifier(d, a.db) ELSE Like(GetValueOr(a.db, Percent), d)

Answerable(a) ==
  IF a.kind = "tables"
  THEN /\ ~AllTableTypes(a) /\ ValidTableType(a)
       /\ ~TablesRefused(a) /\ ~TablesMatchNothing(a)
  ELSE ~ColumnsRefused(a) /\ ~ColumnsMatchNothing(a)

AskedInv ==
  /\ pc # "idle" => Answerable(args)
  /\ pc \in {"databases", "tables"} =>
       cmeta = <<>> /\ (args.kind = "columns" => ~args.id)
  /\ pc = "databases" => tmeta = <<>>
  /\ pc = "tables" =>
       /\ ~AllDatabases(args)
       /\ \A d \in ToSet(queue) :
            d \in ToSet(Databases) /\ DatabaseAsked(args, d)
       /\ ToSet(tmeta) \subseteq Wanted(args)
  /\ pc = "describe" =>
       /\ args.kind = "columns"
       /\ ~args.id => ToSet(queue) \subseteq Wanted(args)
  /\ ListsOnlyWhatWasAsked

\* Unless rows were lost, what is collected and what is still to do make up
\* the answer, and nothing is listed twice
CompleteInv ==
  /\ (pc = "tables" /\ ~interrupted) =>
       /\ IsInjective(queue) /\ IsInjective(tmeta)
       /\ ToSet(tmeta) = {e \in Wanted(args) : e.db \notin ToSet(queue)}
  /\ (pc = "describe" /\ ~interrupted /\ ~args.id) =>
       /\ IsInjective(queue) /\ IsInjective(ColumnsIn(cmeta))
       /\ ToSet(ColumnsIn(cmeta)) =
            {w \in WantedColumns(args) :
               [db |-> w[1], table |-> w[2]] \notin ToSet(queue)}
  /\ (pc = "idle" /\ executed /\ ~interrupted) =>
       IF args.kind = "tables"
       THEN IsInjective(tmeta) /\ ToSet(tmeta) = WantedEntries(args)
       ELSE ~args.id => /\ IsInjective(ColumnsIn(cmeta))
                        /\ ToSet(ColumnsIn(cmeta)) = WantedColumns(args)

\* Every entry of a column has its index, whatever was lost meanwhile
OrdinalInv ==
  (args.kind = "columns" /\ GetValueOr(args.column, Percent) = Percent) =>
    \A i \in 1..Len(cmeta) :
      LET e == cmeta[i]
      IN  /\ <<e.db, e.table>> \in DOMAIN ColumnsOf
          /\ ColumnsOf[<<e.db, e.table>>][e.ordinal] = e.column

\* No two databases differ in upper and lower case only: with identifiers the
\* code looks into the first one that matches.
OneDatabasePerIdentifier ==
  \A d, e \in ToSet(Databases) : SameIdentifier(d, e) => d = e

\* A call that waits for internal queries returns: the loops over databases
\* and tables end whatever the queries answer.
CallReturns == (pc # "idle") ~> (pc = "idle")

=============================================================================
