# A verification project for the Amazon Timestream ODBC driver

TLA+ models of the stateful parts of the driver under `src/src/odbc`, TLC
configurations that check them on small instances, and TLAPS proofs of the
properties that matter most for every instance. Paths below are relative to
`src/src/odbc/src` unless they start with `src/`.

## 1. The system

The driver is a library loaded by an ODBC driver manager. It has no event loop:
every ODBC function is one call by a thread of the application, and the only
thread of the driver's own is the one that fetches the next page of a result.

| part | state | operations | interacts with |
|---|---|---|---|
| API layer (`entry_points.cpp`, `odbc.cpp`) | none | one function per ODBC call: test the handle, convert the arguments, call the object, return the code of its diagnostics | all objects |
| Environment (`environment.cpp`) | set of connections, ODBC version | create, deregister, attributes | Connection |
| Connection (`connection.cpp`) | query client, configuration, cursor names, attributes; static: SDK flag, counter, mutex | construct, establish, release, create statement, cursor names, destroy | AWS SDK, authentication, Statement |
| Statement (`statement.cpp`) | current query, bindings, row array size, rowset size, bind offset, status and count pointers, cell offset, descriptors | prepare, execute, catalog calls, fetch, extended fetch, get data, close, cancel, bind, attributes | Query objects, buffers |
| DataQuery (`query/data_query.cpp`, `timestream_cursor.cpp`) | request with token, page, cursor, queue of pages, threads, flags | execute, fetch, get column, get metadata, cancel, close, destroy | Timestream through the SDK client |
| TableMetadataQuery, ColumnMetadataQuery | collected rows, iterator, executed, fetched | execute with internal data queries, fetch, cancel, close | DataQuery |
| TypeInfoQuery and seven queries that are always empty | list, iterator | execute, fetch, close | Statement |
| ApplicationDataBuffer and conversions (`app/`, `utility.cpp`, `timestream_column.cpp`) | memory of the application, offsets | put a value of one type into a buffer of another | Statement, queries |
| Descriptor (`descriptor.cpp`) | records, header, its statement | set, get, copy, deregister | Statement |
| Diagnostics (`diagnostic/`) | list of records, return code | add, reset, read | all objects |
| Configuration, connection string, DSN (`config/`, `dsn_config.cpp`) | map of settings | parse, validate, write | Connection |
| Authentication (`authentication/`) | credentials | a fixed sequence of HTTP requests | Connection |
| Logger (`log.cpp`, `log.h`) | the one instance, level, path, name of the file, stream | write, set level, set path | all, from any thread |
| Big integers, decimals (`ignite/common/src/common/`) | none | arithmetic, text | conversions |
| Type tables, driver information (`type_traits.cpp`, `config/connection_info.cpp`) | tables | look up | metadata, `SQLGetInfo` |

What is hard here:

* **threads**: the page that is fetched ahead is handed over by a queue with a
  mutex and one condition variable; closing must join the thread whatever state
  it is in; the AWS SDK is initialised and shut down by connections of several
  threads; `SQLCancel` comes from another thread than the call it cancels;
* **failure in the middle**: a later page can fail long after `SQLExecute` has
  succeeded; a catalog call is a chain of queries each of which can fail; some
  rows of a rowset can fail;
* **sequences of calls**: executing again, closing in the middle, mixing
  columns, buffers and fetch functions with state left from the call before;
* **pointers**: statements and descriptors point to one another and neither end is told
  when the other is freed;
* **edges**: a buffer filled exactly, a rowset across the end, empty pages, carries in
  long arithmetic, dates before the epoch.

What makes each part correct: a data query gives every row once and in order; a catalog
query lists what was asked for and all of it; a rowset's buffers, statuses, count and code
agree; a cell read in parts is the cell; a session is described truly and settings are not
lost; no call follows a pointer to a deleted object; records tell what the last call did;
a converted value is the value, inside its buffer; messages of the log arrive.

`PROJECT.json` lists the hazards at their lines.

## 2. The modules

| module | models | checked by | proved in |
|---|---|---|---|
| `ResultSet` | what a data query promises: rows in order, none lost, the end said at the end only | (abstract) | implemented: `DataQueryProofs` |
| `DataQuery` | `DataQuery`, `TimestreamCursor`, the fetch threads | `query`, `query_empty_page_rows` | `DataQueryProofs` |
| `Statement` | the query a statement owns, read in rowsets, with cancel from another thread | `statement` | `StatementProofs` |
| `CellReader` | `SQLGetData` in parts and a bound column, character data | `cell_*` | `CellReaderProofs` |
| `MetadataQuery` | `SQLTables` and `SQLColumns` with their internal queries | `metadata*` | `MetadataQueryProofs` |
| `AwsSdkLifecycle` | constructor and destructor of `Connection` | `shared_state` | `SharedStateProofs` |
| `CursorNames` | `SQLSetCursorName` and dropping a statement | `shared_state`, `cursor_names_unique` | `SharedStateProofs` |
| `Configuration` | settings, connection string parser and writer, data sources | `connection` | `ConnectionProofs` |
| `Authentication` | Okta, Azure AD, profile and IAM credentials | `connection`, `values` | `ConnectionProofs` (the logins) |
| `DriverInfo` | `SQLGetInfo` and `SQLGetFunctions` | `connection`, `values` | |
| `Connection` | a connection handle, composed of the three above | `connection` | `ConnectionProofs` |
| `Descriptor`, `Diagnostics` | one descriptor; the records of one handle | `handles` | `HandlesProofs` |
| `Handles` | environments, connections, statements, descriptors and their pointers, composed of the two above | `handles` | `HandlesProofs` |
| `ApiCalls` | attributes, column descriptions and diagnostic calls on top of `Handles` | `handles` | `HandlesProofs` |
| `TypeTraits` | the tables of types, `SQLGetTypeInfo`, `SQLColumns`, `SQLColAttribute` | `values` | |
| `BigInteger`, `Decimal` | the arithmetic | `values` | |
| `DataBuffer`, `TimestreamColumn` | `ApplicationDataBuffer`; values of the service | `values` | |
| `Values` | each conversion as a call, composed of all pure modules | `values` | |
| `Logger` | the logger and its threads | `logger` | `LoggerProofs` |

`MC...` modules give the constants their values. In every module an operator
whose comment starts with *Mutant* is a plausible mistake in the operation
defined after it; nothing in the specifications uses it. It exists to show that
the property it is paired with in `PROJECT.json` would notice that mistake.

How the models fit together: `Statement` sees its query through the Query
interface; for a data query that is the interface `ResultSet` promises and
`DataQuery` is shown to implement (run `query`, theorem `DataQueryIsResultSet`). `MetadataQuery` uses data
queries in the same way, each as one step that fails, is empty, or lists rows of
which a later page may be lost.

### DataQuery

The variables have the names of the members: `token` is `request_`'s next token,
`result_` the page held, `cursor_` the cursor with `curPos_` and `iterator_`,
`queue_` and `isClosing_` the context shared with the fetch threads, `threads_`
the threads not yet joined. `pc` is where the application's thread is in a call:
`request` (in the loop of `MakeRequestExecute`), `switch`, `blocked` and `join` (in
`SwitchCursor`), `closing` (in `InternalClose`, entered from four places; `after`
says which). `tpc[t]` is where fetch thread `t` is: sending its request, about
to enter the critical section, waiting, ended.

A critical section is one step. A wait on the condition variable is a state
that only `notify_one`, which picks one of all waiters, or a spurious wakeup
leaves. Any request may fail. A row is named by its page and place, so that a
row lost, repeated or out of order shows. Conversion errors of a row are a free
choice. The histories `delivered` and `told` are what the application has seen,
and are the variables of `ResultSet`: the module is instantiated with them
(`RS == INSTANCE ResultSet WITH pages <- pages, ...`), and `ImplementsResultSet` is its
specification, for all steps up to the end of the first execution (`FirstExecution`).

`Cancel` is modelled as a call of the application's thread. `SQLCancel` during a
call of another thread is modelled at the next level up (`Statement`,
`MetadataQuery`), between two rows or two internal queries; inside
`FetchNextRow` it is a data race on `cursor_` and is left out.

### Statement

`currentQuery` is the query: its kind, whether it can be read, the fate of
its rows (converted or not, with `EMPTY` for a page without rows), the place of its iterator,
and whether rows behind the last are lost by a failing request. A page without rows ends the
result (`DataResult`), and the fetch behind it never returns (`FetchHangs`). A fetch is `FetchRow` or `ExtendedFetch`, one
`FetchElement` for every element of the rowset, and `EndFetch`; only `CancelSqlQuery`
may come in between, because the driver manager admits no other call on a busy
statement. The bind offset is counted in elements of the bound buffer. The
application clears its arrays before each call, so that what they hold
afterwards was written by that call.

### CellReader

A cell is a sequence that says which character each byte belongs to; what a buffer
receives is a sequence of characters (row, column, index), so that text of
another row or column shows. The copy functions of `utility.cpp` are modelled
with their sizes in bytes, terminator included, for narrow and for wide
buffers. `cellOffset` and `currentColNum` are the statement's, and a bound
column has a buffer with an offset of its own.

### MetadataQuery

`args` are the arguments of a call, null, empty and `%` kept apart. `pc` says which
internal query is next: `databases`, `tables`, `describe`. The driver can report
a database as a schema or as a catalog (`DATABASE_AS_SCHEMA`); the two are mirror
images in the code, and the model names the argument for the database `db` and
the other one `other`. `SHOW ... LIKE` is the server's: a pattern here is `%` or a
name.

### AwsSdkLifecycle and CursorNames

Each statement of the constructor and of the destructor that reads or writes
`awsSDKReady_`, `refCount_` or the SDK is one step; `SQLSetCursorName` is a test
of the name, a lookup without the lock, and an insertion under the lock. The
constant `Phased` says whether allocations overlap with frees; both values are
behaviours the driver meets, depending on the application and the driver manager. Calls for
cursor names overlap in any way; a lookup while another thread is about to change the set is a
data race and may find either answer. The history `overlapped` has the names that were asked for
by a call that ran beside another.

### Configuration, Authentication, DriverInfo, Connection

A text is a sequence of tokens, among them the delimiters the parser looks for, so that
trimming, braces and the order of settings are those of the code. Numbers go through 32
bits, `IntMax` standing for the largest. The loop of the parser takes the pieces of a text
from the right: `HandleAt` is what it does at a position of the text, `HandlePiece` with the
piece that starts there. `config` is `config_`, `client` the settings the
query client was made from (or none), `provider` whether a SAML provider is held, `info`
what `SQLGetInfo` says of the session, `named` (a history) the function that opened the session
and the data source it was given, `ini` the data sources. `ret`, `records` and `out`
are what the last call returned. What the identity provider, STS and the trial query answer
is chosen freely for each attempt.

### Handles, ApiCalls, Descriptor, Diagnostics

A handle is an address; `live` are the addresses of objects that exist. An address freed
may be given to a new object. Following a pointer that is null or leads to no object ends
the behaviour in a state with `fault` set, which says by which call and descriptor. The
driver manager's own checks (it passes only handles that exist, and frees children before
parents) are guards. A call through `IGNITE_ODBC_API_CALL` is `ApiCall`: it resets the
records of its handle, runs, and stores the result.

### Values

The conversions keep no state, so a behaviour is one call from the idle state and back.
The algorithms are those of the code on narrower words: four bits for 32, and two to eight
bits for `char` to `bigint`, so that every carry, borrow and overflow is met. A text is a sequence of
numeric fields with the number of characters that arrived; `LongSize` and `WcharSize` are
parameters of the platform. `CallRead` reads what the service sends for timestamps, dates,
times, numbers, intervals and nested values into every buffer, with any contents of the
variables that the scan does not assign.

### Logger

Each access to the shared members is a step; what is done under a mutex is one. The tests
of `IsEnabled` are made before the mutex is taken, as in the code. `lost`, `raced` and `deaf`
are histories: a message that was to be written and was not, two threads that opened the file
together or a change of path in the middle of a message, and a change of path that left a
named file open.

## 3. The runs

A property that is a conjunction of named parts is listed with its parts.

| run | what it shows |
|---|---|
| `query` | three executions of a query, over results with empty pages in front, in the middle and at the end, with fetch, cancel, close, failure and destruction anywhere: one fetch thread at a time (`OneFetchThread`), never waiting (`FetchThreadNeverWaits`), never left (`NoThreadOutlivesQuery`), `request_` not changed under it (`RequestStableWhileRead`), the cursor inside its page (`CursorReadsARow`), and `InternalClose` returns (`CloseReturns`). The first of the executions, over a result without empty pages after the first row, implements `ResultSet` (`ImplementsResultSet`), and its fetches return (`FetchReturns`) |
| `query_empty_page_rows` | violation: an empty page before the last one is taken for the end |
| `statement` | `RowsetReported` (buffers, statuses, count and return code of a rowset agree), `NoDataOnlyAtEnd` (no row is left, or an empty page ended the result), `CloseIsFinal`, with empty pages, lost pages, rows that cannot be converted, and cancel between any two rows |
| `cell_parts` | the parts of a cell make up the cell (`PartsInOrder`, `EndMeansComplete`, `LengthIsWhatRemains`) and a bound buffer, also one that cuts cells off, shows its row up to the first that does not fit (`BoundShowsRowUntilCut`), for any mix of buffers, columns and rows |
| `metadata` | `ListsOnlyWhatWasAsked`; `ListsComplete` (tables, columns, and ordinals when all columns are asked for); `FetchGivesAnswer` (in order, and nothing after a failure); `CallReturns` |
| `shared_state` | connections come and go while statements of another one are named and dropped. Allocations among themselves and frees among themselves may overlap: the SDK is up for every connection (`SdkUpWhileLive`), initialised once (`SdkOnce`), and down in the end (`SdkDownWhenUnused`). With calls that overlap in any way no cursor name leaks (`NoNameLeaks`), and a name that two statements share was asked for in overlapping calls (`SharedOnlyAfterOverlap`) |
| `cursor_names_unique` | violation: two calls find one name free and both get it |
| `connection` | `SessionTrue` (`SQLGetInfo` has the user of the session and the data source its connection string named; the provider and the records agree with the session), `SettingsSurvive` (round trip of the connection string, the string wins over the data source, a data source reads back), `FailureKeepsSession`, `NoDsnLost` |
| `data_source_name` | violation: `SQL_DATA_SOURCE_NAME` after `SQLConnect`, or after a connection string without the keyword |
| `handles` | `PointersSound` (a dead pointer is followed through orphaned or overwritten descriptors only; the active descriptor is the statement's own), `DescriptorsTrue` (the row descriptor says what the statement does; concise and verbose types agree), `RecordsTellCalls` (codes and records agree; each record is handed out once and in order), `FailureChangesNothing` |
| `values` | `BufferHoldsValue` (inside the buffer, no silent truncation, rows do not overlap), `ValueSurvives` (numbers, decimals, dates, intervals and nested values arrive and read back, whatever way their length is given), `ArithmeticExact`, `ListsAgree` (a buffer of the length that is announced holds what is written, the tables of types agree with one another, every declared cell is there, the answers of `SQLGetFunctions` agree), `AssertionDecoded` |
| `logger` | `MessagesArrive` (one logger, the open file is the named one, no message lost but in the race of section 6), `PathFollowed`, `CallsReturn` |

### Bounds

* `DataQuery`: up to six pages of up to two rows, two thread identities (one
  thread ends while the next starts), three executions (the second starts from
  what the first left, the third from what a second one with leftovers left), two
  fetches past the end. Fetching past the end only moves `curPos_`, so more of it
  adds nothing.
* `Statement`: results of up to three rows and empty pages, rowsets of one and two rows, two
  offsets: a rowset can lie inside, across and behind the end.
* `CellReader`: three rows of two columns with cells of one to five characters; buffers of 3
  to 12 bytes, so that a part can be shorter than a cell, fill its buffer exactly,
  or hold all of it; bound buffers of 4, 6 and 12 bytes, so that a bound cell may be cut off or
  fit. Buffer lengths that hold no character are not included
  (section 6). After the last row nothing more can be fetched or bound, so the
  run does not check for deadlock.
* `MetadataQuery`: three databases with two, no and one table; calls with each
  argument null, empty, `%`, present, or different in case.
* `AwsSdkLifecycle` and `CursorNames`, interleaved freely (`SharedSpec` in `MCSharedState`): three
  connections (one initialises, one waits for the mutex, one finds the flag set); three statements (two
  that share a name and a third that asks for it), two good names, one that is refused; all symmetric.
* `Connection`: three calls in a row (connect, change something, connect again), four
  connection strings that between them have a data source, a braced value, a repeated
  setting, an unknown key, numbers out of range and each kind of authentication; every step
  of a login fails once.
* `Handles`: one environment and connection, two statements, one explicit descriptor
  besides the implicit ones, one column; up to three calls that free an object or move a
  pointer (`MaxMoves`), with other calls in between (`MaxCalls`): set on one statement, freed or copied,
  reused by another. Two addresses for statements are enough for an address to be given away.
* `Values`: text buffers at the lengths around every text that is written, all C types,
  dates around the edges of the calendar, big integers of up to four words from edge
  values, nested values two deep with elements below, at and above the inner buffer.
* `Logger`: two threads, five calls, two directories that can be written to and one
  that cannot.
* `Connection`, `Handles` and `Logger` end when the calls are used up: the application may
  stop calling at any time, so these runs do not check for deadlock.

The proofs (section 4) remove these bounds for all modules but `Values`.

### Fairness

`DataQuery`: weak fairness on `Continue`, what a call under way does next, and on
every fetch thread. Both are threads that the operating system schedules, and the
SDK answers every request or fails it after its timeouts. Nothing is assumed about
what the application calls. A mutex is never held across a wait or a request, so
weak fairness is enough. `MetadataQuery`: weak fairness on the next internal query
of a call, for the same reason. `Logger`: weak fairness on the next step of each thread inside
a call; taking the mutex is part of the step that needs it, and the mutex is
released within a bounded number of calls. The other modules state safety only.

## 4. The proofs

All theorems hold for every value of the constants that satisfies the module's
assumptions. TLC evaluates the assumptions in the runs of the module, and has checked
the inductive invariants on the same instances before they were proved.

| module | for any | assumption | further hypothesis |
|---|---|---|---|
| `DataQueryProofs` | paged results, number of executions, threads | `DataQueryAssumption`: a result has a page | in the refinement property: `FirstExecution` |
| `StatementProofs` | length of results, rowset sizes, offsets | `StatementAssumption`: sizes are positive and finite in number | |
| `CellReaderProofs` | rows, columns, cells, buffers | `CellReaderAssumption`: a result is a table of cells | `Hypotheses`: `PlainText`, `RoomForPart` |
| `MetadataQueryProofs` | catalog, calls, faults | `CatalogAssumption`: the server lists the names of each level once; `CallsAssumption`: arguments are names or null | `ListsComplete` only: `OneDatabasePerIdentifier` |
| `HandlesProofs` | handles, columns, fields, number of calls | `HandlesAssumption`, `AddressesAssumption` (objects that exist together have different addresses), `ApiCallsAssumption` | |
| `LoggerProofs` | threads, directories, number of calls | `LoggerAssumption` | |
| `ConnectionProofs` | connection strings, data sources, users, answers of the services, number of calls | `IntMaxAssumption`, `DirectoriesAssumption`, `TextsAssumption` (texts are sequences of strings), `NumeralsAssumption` (numbers are written as different words, none of them a delimiter), `RepliesAssumption`, `MaxCallsAssumption` | in the property: `Undivided`, `Plain` |
| `SharedStateProofs` | finite set of connections | `LifecycleAssumption` | `Phased` |
| `SharedStateProofs` | statements, names | `CursorNamesAssumption` | |

Each further hypothesis names a case that section 6 describes as going wrong without it:
executing again and empty pages; characters of several bytes, buffers without room for a
character; databases that differ in case only; allocations that overlap with frees; values with a delimiter in them, empty
ones, and numbers the parser refuses. The runs satisfy the hypotheses.

The step lemmas of every module go through the actions one by one, and where an invariant
has parts that an action disturbs in different ways, through the parts. Hardly any
property is inductive as it stands; the invariants that make them so are in the component's
module, after the properties they explain (for `Connection`, whose invariant is about the
texts of the proof, in `ConnectionProofs`).

**DataQueryProofs.** `TypeCorrect`, `QueryOutlivesItsThreads`,
`FetchThreadsNeverWait`, `SingleFetchThread`, `CursorInBounds` and
`RequestNotWrittenWhileRead`. The invariant is `TypeOK /\ ThreadInv /\ CursorInv`:
`ThreadInv` says that a thread exists exactly while it is in `threads_`, that
there is at most one, that `result_` is set then (the destructor joins only if it
is), that a request of `Execute` is sent with no thread around, and that, until the
query is first closed, a page in the queue was put there by the one thread, which
has ended. The last part is why no thread ever finds the queue full before a close;
after a close `isClosing_` stays set, and a thread that finds the queue full ends.
`CursorInv` ties `iterator_` to `curPos_`.

`DataQueryIsResultSet` is the refinement: initial states map to initial states, and each
step maps to a step of `ResultSet` or changes nothing that it shows. `StreamInv` is what
that needs: the row delivered last is the one the cursor is at, with nothing but empty pages before
the first row; the page in the queue, or the one a thread is about to put there, is the one the
token names, which is the page after the cursor's; and once the application was told that the
rows are over there is none left to read. `ResultSet` states
safety only. The property, and with it the invariant (`FirstExecution => StreamInv`), speaks of the first
execution of a result that has no empty page after its first row; what comes later cannot make it a first
execution again (`FirstExecutionBefore`), so no bound on the executions is needed.

**StatementProofs.** `FetchReportsRowset`, `NoDataIsTheEnd`, `CloseEndsTheRows`. A property
about the end of a fetch follows from what holds after each of its rows: `CallInv` says where
the cursor is after `i` elements, `DoneInv` that the statuses and buffers of those elements
are final and that the counters of the fetch count them, `QueryInv` that a query that was
closed or cancelled, or is of a kind without cursor, has no row to give. For `NoDataIsTheEnd`,
`EndStays`: a query that is at its end, at an empty page included, is so after the next call.

**CellReaderProofs.** `PartsMakeUpTheCell`, `ReturnTellsTheEnd`, `LengthTellsTheRest`,
`BoundColumnFollows`. `PartsInv` ties the offset of the statement to what was received: what
was received ends at the offset and, in a row fetched with `SQLFetch`, starts at the
beginning of the cell. It must say this of the column read last, of a new row and of a change of
column too, because the offset is shared by all columns. `BoundInv` says that a buffer that
no row has overrun yet is not on a continuation: only a truncation leaves an offset behind, and
the row that was cut off is itself shown from its beginning. Lemmas about the copies of `utility.cpp` say
how many characters of each width go into how many bytes.

**MetadataQueryProofs.** `FetchedIsTheAnswer` by `FetchInv`: what was delivered is the first
`Given` rows of the answer, and while a call still collects nothing is readable. `NothingUnasked`
by `AskedInv`: the databases and tables still in the queue were asked for, and so were the entries
collected. `TheWholeAnswer` by `CompleteInv`: unless rows were lost, the entries collected are
exactly those of the answer whose database (or table) is no longer in the queue, each once; and by
`OrdinalInv` for the ordinals. The loops that filter rows are a recursive function (`Keep`). What it
computes for a listing of any length (`KeepFacts`) is proved by looking at the smallest number of
rows for which the claim fails, which avoids the induction theorems that the provers cannot use.

**HandlesProofs.** `PointersStaySound`, `DescriptorsStayTrue`, `RecordsExplainResults`,
`FailuresAreHarmless`, over all actions of `Handles` and `ApiCalls`. The invariant
`Good /\ DiagOK /\ MirrorInv` consists of the types, of `ImplicitInv` (the four descriptors of a
statement live as long as it does and, until a copy overwrites one, have it for their own), of
`ActiveDescriptorIsOwn` and `FaultNeedsOrphan` themselves, and of `MirrorInv`: a statement whose
row descriptor was never switched uses its own one (`OwnArdInv`), which is why its calls keep
that descriptor in step with it (`ArdMirrorsStatement`).
`OthersUntouched` is why a call on one statement cannot spoil the mirror of another: the row
descriptor it writes through is never the own one of another statement unless copied.
`FailuresAreHarmless` is an action property: every action that stores an error is one of the
paths that return before they assign.

**LoggerProofs.** `LoggerDelivers`, `LoggerFollowsPath`. `LockInv` says what the mutex protects,
`ThenInv` which threads have a call to return to, and `UnracedInv` that, while nothing has
raced, at most one thread is opening the file and a thread that found the log enabled still
finds it so when it writes: the test and the write are not under one lock, so this is what the code
relies on.

**ConnectionProofs.** `SessionIsTrue`, `FailureNeverTouchesSession`, `DsnsAreKept`,
`SettingsAlwaysSurvive`. That the data source named by a connection string is the one reported
(`KeywordIsRead`) needs that the parser sets it from the string alone, whatever the configuration
held before (`HandleAtFollows`, `ParseFollows`), and that reading a data source leaves it. `IInv` is `SessionTrue` with what every configuration and every section
of a data source can hold: each attribute is at its default or was set to a value of its kind
(`ConfigOK`), and a section has texts that `RegisterDsn` writes (`IniOK`). Each handler of the
parser is shown to set the attribute it was given or nothing (`HandleAttributePairSets`), each
part of `ReadDsnConfiguration` to take exactly the settings that are offered and not yet
there (`ReadsBoth`, `ReadDsnConfigurationReads`); with these a connection string wins over the data
source, and a section reads back. The round trip of the connection string is about two recursions
over a text. `Writing` and `Parsing` say what the recursive functions are. `LaidOut`: of the text
that is written, every `;` is the end of the piece of one key. `PieceHandled`: the parser, come to the start
of such a piece, hands its key and its value to the handler, and `HandleWrites`: the handler
makes of the value what was written. `ParsedBack` puts them together from the right: after the last
`i` positions, the settings of all pieces that start there are back, since a later piece has
another key. Like the other recursions, this goes by the smallest position for which it fails.

**SharedStateProofs.** `SdkUpWhileLiveWhenPhased`, `SdkOnceWhenPhased`,
`SdkDownWhenUnusedWhenPhased`. `LifecycleInv`: the mutex is held
exactly in the locked part, `refCount_` is the number of connections between
increment and decrement, flag and SDK agree except while one thread stands between the
two, and no destructor runs beside a constructor. `CountOfConnections` is the fact on cardinalities
that makes "the counter reached zero" mean "no other connection is counted".
For the cursor names of a connection, `NoNameLeaksEver` and `NamesStayApart` hold however calls
overlap. `OverlapInv` says of a name that was never asked for in an overlap: it is in the set
while a statement has it, the call that asks for it runs alone, and what that call found free is
still free when it is added.

Only model-checked:

* liveness (`CloseReturns`, `FetchReturns`, `CallReturns`, `CallsReturn`): the prover has
  no rules for fairness;
* the properties of `Values`: the arithmetic, the scans and the nested values are recursive
  operators on the digits of numbers and the fields of texts, which need induction over data.

## 5. Findings

Three runs state what a comment or a log message says, and TLC refutes them. The
quotations are in `PROJECT.json`.

* `query_empty_page_rows`: a page without rows is a legal answer of the service,
  `MakeRequestExecute` handles it, and `SwitchCursor` takes it for the end
  (`query/data_query.cpp:172`). `NoDataOnlyAtEnd` in `statement` shows that this is the only
  way in which `SQL_NO_DATA` comes early.
* `cursor_names_unique`: the name is tested without the lock under which it is added
  (`connection.cpp:802`), so that two statements can have the same one. `SharedOnlyAfterOverlap`
  says that no other name is affected.
* `data_source_name`: `SQLConnect` never sets the name of the data source (`odbc.cpp:360`), so
  that the default, "Timestream DSN", is reported; a connection string without the keyword gets
  the default or the name that an earlier string left (`connection.cpp:505`).

## 6. What the code also does, and no run states

Met while reading and modelling. The properties leave these cases out where their comments
say so.

Queries and statements:

* After an empty page `hasAsyncFetch` stays set and no thread is started, so the next
  fetch waits for ever (`query/data_query.cpp:172`); the loop over a rowset makes
  that fetch at once. In `DataQuery`: `SwitchEmptyPage`, then `SwitchWait`; in `Statement`: `FetchHangs`.
* After a conversion error the row number is one too low for the rest of the result
  (`query/data_query.cpp:249`), and it is never reset by a new execution.
* Executing again after a close in the middle of several pages does not start over: `request_`
  keeps the token and the queue its page (`query/data_query.cpp:359`). A test for a single page
  is in `queries_test.cpp`.
* A connection allocated while the last other one is freed lives without the SDK
  (`connection.cpp:96`): set `Phased` to `FALSE` and check `SdkUpWhileLive`. `SdkOnce` fails, too, when allocations overlap with frees.
* `SQLExtendedFetch` does not reset the cell offset (`statement.cpp:1037`): the
  properties of `CellReader` about parts speak of rows fetched with `SQLFetch`.
* The cell offset counts characters and is used as a byte index
  (`app/application_data_buffer.cpp:294`, `328`): cells with other than ASCII
  characters are cut or repeated when read in parts. The model can express it; the
  run uses ASCII cells.
* A narrow buffer of length 0 sets the offset to -1 (`app/application_data_buffer.cpp:328`);
  a wide one that holds the terminator only makes no progress. An empty cell leaves the
  length unset (`:284`).
* The offset of a bound buffer is not reset for a new row
  (`app/application_data_buffer.cpp:328`): `statement.cpp:1137` says "We're fetching a new row, ensure
  cellOffset is reset." and resets the statement's. After a row that was cut off, the next is shown from
  the place of the cut, or not at all, and the buffer still has the row before.
  `BoundShowsRowUntilCut` says that the row that is cut off is itself still shown right, and so is
  every one after a new `SQLBindCol`; check `BoundShowsRow` alone to see the case.
* A bound column that is truncated does not make `SQLFetch` return
  `SQL_SUCCESS_WITH_INFO`; a row array size of 0 is accepted and makes it return
  `SQL_NO_DATA` (`statement.cpp:385`).
* `SQLCancel` in the middle of a rowset of a data query looks like the end of the data,
  and after a page is lost the fetch that follows the error says `SQL_NO_DATA`.
* `SQLCloseCursor` on a catalog query that was read to its end fails with "No cursor was
  open" and leaves the query as it is (`statement.cpp:1022`).
* `SQLTables` and `SQLColumns`: a lost later page or a cancel in the middle gives
  `SQL_SUCCESS` with a partial list (`query/table_metadata_query.cpp:593`);
  `SQLColumns` reports failed `SHOW` queries as `SQL_SUCCESS_WITH_INFO` and a failed
  `DESCRIBE` of one table as `SQL_NO_DATA` for all; "Empty result set is returned" leaves the
  query unexecuted, so the next `SQLFetch` is a sequence error
  (`query/column_metadata_query.cpp:176`); with identifiers only the first of several
  databases that differ in case is searched. The completeness properties of
  `MetadataQuery` therefore speak of calls that succeeded and were not interrupted.

* `SQLColumns` with a column name counts only the columns that match
  (`query/column_metadata_query.cpp:598`), though `:87` says "Index of column in table".

Connections:

* A connect that is refused because a session is open has already replaced `config_`
  (`connection.cpp:176`), and settings of successive connection strings accumulate (`:140`).
* The records that `SQLConnect` gets from reading the data source are dropped. The connection timeout of a data source
  is read only along with a request timeout (`dsn_config.cpp:180`).
* Values with `;`, `=`, `{` or `}` do not survive the connection string; numbers above
  INT32_MAX become negative; empty values are lost.
* `SQL_ATTR_CONNECTION_DEAD` always answers 0 (a missing `break`); `SQLGetFunctions` lists
  functions that only return HYC00.

Handles, descriptors, diagnostics:

* Freeing a descriptor that was never set on a statement, or whose statement is freed,
  follows a null or dead pointer (`descriptor.cpp:68`); so does unbinding through it.
  `SQLCopyDesc` overwrites connection and statement of its target, and copied onto itself loses
  its records. Freeing a descriptor that is no longer active still restores the statement's
  own one, although another is active.
* `SQL_DESC_DATA_PTR` does not bind, `SQL_DESC_COUNT` is never lowered, unbinding leaves the pointer
  in the record, an interval code does not complete the concise type.
* `SQLDescribeCol` gives uninitialised values on errors and keeps the records of its
  last inner call only; `SQLGetDiagField` on descriptors finds nothing; `SQL_ATTR_METADATA_ID`
  on a statement empties the connection's records; functions that are not implemented add
  records without a reset.

Conversions and arithmetic:

* `BigInteger::Divide` never takes the correction of Knuth's algorithm
  (`ignite/common/src/common/big_integer.cpp:714` subtracts unsigned words): 2^95 / (2^64 + 1)
  gives 2147483648. With a divisor of one word and a dividend of three it reads before its
  arrays. `ToInt64` of negative numbers of two words is wrong. `ArithmeticExact` speaks of
  divisors of up to two words.
* `Decimal::SetScale` to the same scale leaves the result 0, so a decimal of scale 0
  is written as 0 into `SQL_C_NUMERIC`.
* The text of a date in wide characters is cut silently when its bytes, not its characters, fit the
  comparison; a wide buffer without room for a character reports success; a buffer of one byte gets
  no terminator, one of none a byte before it. Elements of nested values are cut silently
  at 1023 characters; an empty array is `SQL_NO_DATA`.
* `PutDate`, `PutTime` and `PutTimestamp` leave the number of characters as the length of a text in
  wide characters (`app/application_data_buffer.cpp:680`); `GetDate`, `GetTime` and `GetTimestamp` take the
  length for bytes (`:1496`), so an application that passes such a buffer back as it got it passes a part of
  the text. `ValueSurvives` covers every other way of giving the length (`Sizes`).
* The length of a wide parameter that is given at execution is doubled
  (`app/application_data_buffer.cpp:1823`), whatever `SQLWCHAR` is; only the terminator keeps the
  reader inside. A text is read up to its whole seconds, so a fraction is lost there. The display
  sizes of times (8) and timestamps (20) are less than the texts the driver writes, 18 and 29
  characters (`type_traits.cpp:417`). `SQL_DESC_SEARCHABLE` and the `SEARCHABLE` of
  `SQLGetTypeInfo` differ.
* On platforms with a `long` of eight bytes `GetNum` reads eight from an `SQLINTEGER`. Rows of
  interval buffers have no distance (`GetElementSize` is 0). The sign of a negative interval
  whose first field is zero is not found by the scan (`timestream_column.cpp:173`).

Logger:

* Two threads that both find the log closed open the stream twice (`log.cpp:157`); it fails, and
  later messages are lost until the path changes. A file closed between a thread's test and its
  write loses that message.
* `SetLogPath` with the level OFF, or before the file is open, does not erase the name: later
  messages go to the old directory. Path, stream and level are read without the mutex.

## 7. What is not modelled

Dialogs (`os/.../ui`), the texts of messages, conversions between encodings, XML, HTML and
JSON of the identity providers, the query texts: input and output, or libraries. Floating
point arithmetic: TLA+ has none. Samples, tests and performance programs. An answer of the service without
columns, which leaves the columns of a query empty with a line in the log
(`query/data_query.cpp:469`). A data race inside a statement that is cancelled in the middle of `FetchNextRow` (section 2).

## 8. Plan

1. **Proofs**: the parts of `Values` that need no recursion: the lengths of
   `BufferHoldsValue` for buffers of any size, and the tables of `ListsAgree`.
2. **Row numbers**: `SQL_ATTR_ROW_NUMBER` against the rows delivered.
3. **Composition**: two statements of one connection over one client, and what a running
   query does when its connection is released.
