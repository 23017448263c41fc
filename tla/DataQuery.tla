------------------------------ MODULE DataQuery ------------------------------
(***************************************************************************)
(* query::DataQuery: one SQL query of a statement, executed against the    *)
(* Timestream query service and read row by row.                           *)
(*                                                                         *)
(* The service answers one page at a time and names the next page by a     *)
(* token.  While the application reads a page, a thread running            *)
(* AsyncFetchOnePage fetches the next one and leaves it in                 *)
(* context_.queue_; SwitchCursor takes it from there, joins the thread and *)
(* starts another one for the page after that.                             *)
(*                                                                         *)
(* The application's thread is the process "pc"; every fetch thread t is   *)
(* the process tpc[t].  A critical section of context_.mutex_ is one step; *)
(* waiting on context_.cv_ is a state that only a notification (or a       *)
(* spurious wakeup) leaves.                                                *)
(***************************************************************************)
EXTENDS Naturals, Sequences, FiniteSets

CONSTANTS Threads,      \* identities for std::thread objects
          PageSeqs,     \* paged results the service may hold
          MaxExecutes,  \* bound: calls of Execute on one query object
          MaxPastEnd    \* bound: fetches after the end of a page's rows

ASSUME DataQueryAssumption ==
  /\ PageSeqs \subseteq Seq(Nat)
  /\ \A p \in PageSeqs : p # << >>
  /\ MaxExecutes \in Nat
  /\ MaxPastEnd \in Nat

VARIABLES
  pages,                \* the service: number of rows of each page
  resultMetaAvailable_, \* result set metadata is available
  token,                \* request_.GetNextToken(); NoToken when never set
  result_,              \* page held by result_, NoPage for a null pointer
  cursor_,              \* cursor_: its page, curPos_ and iterator_
  queue_,               \* context_.queue_
  isClosing_,           \* context_.isClosing_
  threads_,             \* queue of started, not yet joined threads
  hasAsyncFetch,
  rowCounter,
  pc,                   \* where the application's thread is
  after,                \* the operation that called InternalClose
  tpc,                  \* where each fetch thread is
  outcome,              \* what client->Query returned to each fetch thread
  executes,             \* calls of Execute so far
  ret,                  \* result of the last operation
  delivered,            \* history: rows handed over since Execute was called
  told                  \* history: what the application was told since then

service == <<pages>>
request == <<resultMetaAvailable_, token>>
position == <<result_, cursor_, rowCounter>>
context == <<queue_, isClosing_>>
prefetch == <<threads_, hasAsyncFetch, tpc, outcome>>
control == <<pc, after, executes, ret>>
history == <<delivered, told>>
vars == <<service, request, position, context, prefetch, control, history>>

RS == INSTANCE ResultSet WITH PageSeqs <- PageSeqs, pages <- pages,
                             delivered <- delivered, told <- told

-----------------------------------------------------------------------------
(* The service, seen through client->Query: a request without token is     *)
(* answered with the first page, a request with token k with page k, and   *)
(* any request may fail.                                                   *)

NoToken == 0
NoPage == 0
Failure == 0
Outcomes(tok) == {Failure, IF tok = NoToken THEN 1 ELSE tok}

NextToken(page) == IF page < Len(pages) THEN page + 1 ELSE NoToken
Rows(page) == pages[page]

-----------------------------------------------------------------------------
(* TimestreamCursor.                                                       *)

NoCursor == [page |-> NoPage, curPos |-> 0, iterator |-> 0]
NewCursor(page) == [page |-> page, curPos |-> 0, iterator |-> 0]

HasData(c) == c.curPos <= Rows(c.page)

\* Mutant: the iterator moves on the first call too.
IncrementedAlways(c) ==
  [page |-> c.page,
   curPos |-> c.curPos + 1,
   iterator |-> IF c.iterator < Rows(c.page) THEN c.iterator + 1 ELSE c.iterator]

Incremented(c) ==
  [page |-> c.page,
   curPos |-> c.curPos + 1,
   iterator |-> IF c.curPos > 0 /\ c.iterator < Rows(c.page)
                THEN c.iterator + 1 ELSE c.iterator]

\* The row that ReadColumnToBuffer reads.
CurrentRow(c) == <<c.page, c.iterator + 1>>

-----------------------------------------------------------------------------
\* iterator_ is an iterator of rowVec_, rowVec_.end() at most.
IteratorInPage == cursor_.page # NoPage => cursor_.iterator <= Rows(cursor_.page)

TypeOK ==
  /\ pages \in PageSeqs
  /\ resultMetaAvailable_ \in BOOLEAN
  /\ token \in {NoToken} \cup 1..Len(pages)
  /\ result_ \in {NoPage} \cup 1..Len(pages)
  /\ cursor_ \in [page : {NoPage} \cup 1..Len(pages), curPos : Nat, iterator : Nat]
  /\ IteratorInPage
  /\ queue_ \in Seq({Failure} \cup 1..Len(pages))
  /\ isClosing_ \in BOOLEAN
  /\ threads_ \in Seq(Threads)
  /\ hasAsyncFetch \in BOOLEAN
  /\ rowCounter \in Nat
  /\ pc \in {"idle", "request", "switch", "blocked", "join", "closing", "destroyed"}
  /\ after \in {"none", "Execute", "Failed", "Close", "Destroy"}
  /\ tpc \in [Threads -> {"none", "query", "push", "waiting", "done"}]
  /\ outcome \in [Threads -> {Failure} \cup 1..Len(pages)]
  /\ executes \in Nat
  /\ ret \in {"none", "SUCCESS", "NO_DATA", "ERROR"}
  /\ delivered \in Seq(RS!Row)
  /\ told \in RS!Knowledge

\* The constructor.
Init ==
  /\ pages \in PageSeqs
  /\ resultMetaAvailable_ = FALSE
  /\ token = NoToken
  /\ result_ = NoPage
  /\ cursor_ = NoCursor
  /\ queue_ = << >>
  /\ isClosing_ = FALSE
  /\ threads_ = << >>
  /\ hasAsyncFetch = FALSE
  /\ rowCounter = 0
  /\ pc = "idle"
  /\ after = "none"
  /\ tpc = [t \in Threads |-> "none"]
  /\ outcome = [t \in Threads |-> Failure]
  /\ executes = 0
  /\ ret = "none"
  /\ delivered = << >>
  /\ told = "none"

-----------------------------------------------------------------------------
(* The fetch threads.                                                      *)

\* std::thread next(AsyncFetchOnePage, ...); addThreads(next)
StartThread(t, joined) ==
  /\ tpc[t] = "none"
  /\ threads_' = Append(joined, t)

\* client->Query(request): the request is read through a reference.
AsyncQuery(t) ==
  /\ tpc[t] = "query"
  /\ \E o \in Outcomes(token) : outcome' = [outcome EXCEPT ![t] = o]
  /\ tpc' = [tpc EXCEPT ![t] = "push"]
  /\ UNCHANGED <<service, request, position, context, threads_, hasAsyncFetch,
                 control, history>>

\* Who waits on context_.cv_: fetch threads and the application's thread.
Waiters == {t \in Threads : tpc[t] = "waiting"}
             \cup (IF pc = "blocked" THEN {"app"} ELSE {})

\* notify_one wakes one waiter, if there is one.
NotifyOne == IF Waiters = {} THEN {"nobody"} ELSE Waiters

\* Mutant: the outcome is pushed without a notification.
AsyncPushSilently(t) ==
  /\ tpc[t] = "push"
  /\ queue_' = IF queue_ = << >> THEN Append(queue_, outcome[t]) ELSE queue_
  /\ tpc' = [tpc EXCEPT ![t] = IF queue_ = << >> \/ isClosing_ THEN "done" ELSE "waiting"]
  /\ UNCHANGED <<service, request, position, isClosing_, threads_,
                 hasAsyncFetch, outcome, control, history>>

\* The critical section of AsyncFetchOnePage: wait for an empty queue or for
\* isClosing_, then push the outcome and notify, or drop it.
AsyncPush(t) ==
  /\ tpc[t] = "push"
  /\ queue_' = IF queue_ = << >> THEN Append(queue_, outcome[t]) ELSE queue_
  /\ \E w \in IF queue_ = << >> THEN NotifyOne ELSE {"nobody"} :
       /\ tpc' = [u \in Threads |->
                    IF u = t
                    THEN IF queue_ = << >> \/ isClosing_ THEN "done" ELSE "waiting"
                    ELSE IF u = w /\ tpc[u] = "waiting" THEN "push" ELSE tpc[u]]
       /\ pc' = IF w = "app" THEN "switch" ELSE pc
  /\ UNCHANGED <<service, request, position, isClosing_, threads_,
                 hasAsyncFetch, outcome, after, executes, ret, history>>

\* A wait on a condition variable may return without a notification.
SpuriousWakeup ==
  /\ \E w \in Waiters :
       /\ tpc' = [u \in Threads |-> IF u = w /\ tpc[u] = "waiting" THEN "push" ELSE tpc[u]]
       /\ pc' = IF w = "app" THEN "switch" ELSE pc
  /\ UNCHANGED <<service, request, position, context, threads_, hasAsyncFetch,
                 outcome, after, executes, ret, history>>

-----------------------------------------------------------------------------
(* InternalClose, called by several operations: "after" says by which.     *)

\* Mutant: isClosing_ is left alone.
BeginCloseKeepsFlag(op) ==
  /\ pc' = "closing"
  /\ after' = op
  /\ UNCHANGED isClosing_

BeginClose(op) ==
  /\ pc' = "closing"
  /\ after' = op
  /\ isClosing_' = TRUE

\* Mutant: the thread is popped without being joined.
PopWithoutJoin ==
  /\ threads_' = Tail(threads_)
  /\ UNCHANGED tpc

\* itr.join(); threads_.pop()
JoinThread ==
  /\ tpc[Head(threads_)] = "done"
  /\ tpc' = [tpc EXCEPT ![Head(threads_)] = "none"]
  /\ threads_' = Tail(threads_)

CloseJoin ==
  /\ pc = "closing"
  /\ threads_ # << >>
  /\ JoinThread
  /\ UNCHANGED <<service, request, position, context, hasAsyncFetch, outcome,
                 control, history>>

\* The end of InternalClose, and the return to its caller.
CloseEnd ==
  /\ pc = "closing"
  /\ threads_ = << >>
  /\ result_' = NoPage
  /\ cursor_' = NoCursor
  /\ pc' = CASE after = "Execute" -> "request"
             [] after = "Destroy" -> "destroyed"
             [] OTHER -> "idle"
  /\ ret' = CASE after = "Failed" -> "ERROR"
              [] after = "Close" -> "SUCCESS"
              [] OTHER -> ret
  /\ after' = "none"
  /\ UNCHANGED <<service, request, rowCounter, context, prefetch, executes, history>>

-----------------------------------------------------------------------------
(* Execute and MakeRequestExecute.                                         *)

\* Mutant: a running execution is not closed first.
ExecuteWithoutClose ==
  /\ pc = "idle"
  /\ executes < MaxExecutes
  /\ executes' = executes + 1
  /\ delivered' = << >>
  /\ told' = "open"
  /\ pc' = "request"
  /\ UNCHANGED <<service, request, position, context, prefetch, after, ret>>

Execute ==
  /\ pc = "idle"
  /\ executes < MaxExecutes
  /\ executes' = executes + 1
  /\ delivered' = << >>
  /\ told' = "open"
  /\ IF result_ # NoPage
     THEN BeginClose("Execute")
     ELSE /\ pc' = "request"
          /\ UNCHANGED <<after, isClosing_>>
  /\ UNCHANGED <<service, request, position, queue_, prefetch, ret>>

\* One turn of the loop in MakeRequestExecute: the request failed.
ExecuteFails ==
  /\ pc = "request"
  /\ BeginClose("Failed")
  /\ told' = "error"
  /\ UNCHANGED <<service, request, position, queue_, prefetch, executes, ret, delivered>>

\* An empty page: the result is empty, or the loop asks for the next page.
ExecuteEmptyPage ==
  /\ pc = "request"
  /\ \E page \in Outcomes(token) \ {Failure} :
       /\ Rows(page) = 0
       /\ result_' = page
       /\ IF NextToken(page) = NoToken
          THEN /\ pc' = "idle"
               /\ ret' = "NO_DATA"
               /\ told' = "end"
               /\ UNCHANGED token
          ELSE /\ token' = NextToken(page)
               /\ UNCHANGED <<pc, ret, told>>
  /\ UNCHANGED <<service, resultMetaAvailable_, cursor_, rowCounter, context,
                 prefetch, after, executes, delivered>>

\* The first page with rows: open the cursor, start to fetch the next page,
\* and read the metadata (MakeRequestFetch).
ExecuteFirstPage ==
  /\ pc = "request"
  /\ \E page \in Outcomes(token) \ {Failure} :
       /\ Rows(page) > 0
       /\ result_' = page
       /\ cursor_' = NewCursor(page)
       /\ IF NextToken(page) = NoToken
          THEN UNCHANGED <<token, prefetch>>
          ELSE /\ token' = NextToken(page)
               /\ \E t \in Threads : /\ StartThread(t, threads_)
                                     /\ tpc' = [tpc EXCEPT ![t] = "query"]
               /\ hasAsyncFetch' = TRUE
               /\ UNCHANGED outcome
  /\ resultMetaAvailable_' = TRUE
  /\ pc' = "idle"
  /\ ret' = "SUCCESS"
  /\ UNCHANGED <<service, rowCounter, context, after, executes, history>>

-----------------------------------------------------------------------------
(* FetchNextRow and SwitchCursor.                                          *)

\* The row under cursor c goes to the bound buffers; a conversion error makes
\* the fetch an error and leaves the row uncounted.
HandOver(c) ==
  /\ delivered' = Append(delivered, CurrentRow(c))
  /\ \/ ret' = "SUCCESS" /\ rowCounter' = rowCounter + 1
     \/ ret' = "ERROR" /\ UNCHANGED rowCounter
  /\ UNCHANGED told

\* FetchNextRow returns AI_NO_DATA.
SayNoData ==
  /\ ret' = "NO_DATA"
  /\ told' = IF told = "open" THEN "end" ELSE told
  /\ UNCHANGED <<delivered, rowCounter>>

FetchNoCursor ==
  /\ pc = "idle"
  /\ cursor_ = NoCursor
  /\ SayNoData
  /\ UNCHANGED <<service, request, result_, cursor_, context, prefetch, pc, after, executes>>

\* cursor_->Increment() stays within the page.
FetchNextRow ==
  /\ pc = "idle"
  /\ cursor_ # NoCursor
  /\ cursor_' = Incremented(cursor_)
  /\ HasData(cursor_')
  /\ HandOver(cursor_')
  /\ UNCHANGED <<service, request, result_, context, prefetch, pc, after, executes>>

\* cursor_->Increment() leaves the page, the last one or not.
FetchPastPage ==
  /\ pc = "idle"
  /\ cursor_ # NoCursor
  /\ cursor_.curPos < Rows(cursor_.page) + MaxPastEnd
  /\ cursor_' = Incremented(cursor_)
  /\ ~HasData(cursor_')
  /\ IF hasAsyncFetch
     THEN pc' = "switch" /\ UNCHANGED <<ret, rowCounter, history>>
     ELSE SayNoData /\ UNCHANGED pc
  /\ UNCHANGED <<service, request, result_, context, prefetch, after, executes>>

\* context_.cv_.wait: nothing in the queue yet.
SwitchWait ==
  /\ pc = "switch"
  /\ queue_ = << >>
  /\ pc' = "blocked"
  /\ UNCHANGED <<service, request, position, context, prefetch, after, executes, ret, history>>

\* Mutant: the failed page is taken for the end of the data.
SwitchFailedAsEnd ==
  /\ pc = "switch"
  /\ queue_ # << >> /\ Head(queue_) = Failure
  /\ queue_' = Tail(queue_)
  /\ hasAsyncFetch' = FALSE
  /\ pc' = "idle"
  /\ SayNoData
  /\ UNCHANGED <<service, request, result_, cursor_, isClosing_, threads_, tpc, outcome, after, executes>>

\* The page could not be fetched.
SwitchFailed ==
  /\ pc = "switch"
  /\ queue_ # << >> /\ Head(queue_) = Failure
  /\ queue_' = Tail(queue_)
  /\ cursor_' = NoCursor
  /\ hasAsyncFetch' = FALSE
  /\ pc' = "idle"
  /\ ret' = "ERROR"
  /\ told' = "error"
  /\ UNCHANGED <<service, request, result_, rowCounter, isClosing_, threads_, tpc,
                 outcome, after, executes, delivered>>

\* An empty page: AI_NO_DATA, whatever the token says.
SwitchEmptyPage ==
  /\ pc = "switch"
  /\ queue_ # << >> /\ Head(queue_) # Failure
  /\ Rows(Head(queue_)) = 0
  /\ queue_' = Tail(queue_)
  /\ result_' = Head(queue_)
  /\ pc' = "idle"
  /\ SayNoData
  /\ UNCHANGED <<service, request, cursor_, isClosing_, prefetch, after, executes>>

\* The last page: its first row is handed over.
SwitchLastPage ==
  /\ pc = "switch"
  /\ queue_ # << >> /\ Head(queue_) # Failure
  /\ Rows(Head(queue_)) > 0
  /\ NextToken(Head(queue_)) = NoToken
  /\ queue_' = Tail(queue_)
  /\ result_' = Head(queue_)
  /\ cursor_' = Incremented(NewCursor(Head(queue_)))
  /\ hasAsyncFetch' = FALSE
  /\ pc' = "idle"
  /\ HandOver(cursor_')
  /\ UNCHANGED <<service, request, isClosing_, threads_, tpc, outcome, after, executes>>

\* A page with a successor: the thread that fetched it must be joined first.
SwitchMorePages ==
  /\ pc = "switch"
  /\ queue_ # << >> /\ Head(queue_) # Failure
  /\ Rows(Head(queue_)) > 0
  /\ NextToken(Head(queue_)) # NoToken
  /\ queue_' = Tail(queue_)
  /\ result_' = Head(queue_)
  /\ cursor_' = Incremented(NewCursor(Head(queue_)))
  /\ pc' = "join"
  /\ UNCHANGED <<service, request, rowCounter, isClosing_, prefetch, after, executes,
                 ret, history>>

\* ... and then the next thread is started and the row handed over.
SwitchJoin ==
  /\ pc = "join"
  /\ token' = NextToken(result_)
  /\ \E t \in Threads :
       IF threads_ = << >>
       THEN /\ StartThread(t, << >>)
            /\ tpc' = [tpc EXCEPT ![t] = "query"]
       ELSE /\ tpc[Head(threads_)] = "done"
            /\ StartThread(t, Tail(threads_))
            /\ tpc' = [tpc EXCEPT ![Head(threads_)] = "none", ![t] = "query"]
  /\ pc' = "idle"
  /\ HandOver(cursor_)
  /\ UNCHANGED <<service, resultMetaAvailable_, result_, cursor_, context, hasAsyncFetch,
                 outcome, after, executes>>

-----------------------------------------------------------------------------
(* The other operations.                                                   *)

\* Cancel: a running prefetch is cancelled at the service first.  A refusal
\* other than ValidationException leaves everything as it is.
CancelRefused ==
  /\ pc = "idle"
  /\ hasAsyncFetch
  /\ ret' = "ERROR"
  /\ UNCHANGED <<service, request, position, context, prefetch, pc, after, executes, history>>

Cancel ==
  /\ pc = "idle"
  /\ hasAsyncFetch => result_ # NoPage
  /\ BeginClose("Close")
  /\ told' = IF told = "none" THEN "none" ELSE "closed"
  /\ UNCHANGED <<service, request, position, queue_, prefetch, executes, ret, delivered>>

Close ==
  /\ pc = "idle"
  /\ BeginClose("Close")
  /\ told' = IF told = "none" THEN "none" ELSE "closed"
  /\ UNCHANGED <<service, request, position, queue_, prefetch, executes, ret, delivered>>

\* GetMeta without metadata asks the service for it (MakeRequestResultsetMeta).
GetMetaRequest ==
  /\ pc = "idle"
  /\ ~resultMetaAvailable_
  /\ resultMetaAvailable_' = TRUE
  /\ ret' = "SUCCESS"
  /\ UNCHANGED <<service, token, position, context, prefetch, pc, after, executes, history>>

GetMetaFails ==
  /\ pc = "idle"
  /\ ~resultMetaAvailable_
  /\ BeginClose("Failed")
  /\ told' = "error"
  /\ UNCHANGED <<service, request, position, queue_, prefetch, executes, ret, delivered>>

GetColumn ==
  /\ pc = "idle"
  /\ ret' \in IF cursor_ = NoCursor THEN {"NO_DATA"}
              ELSE IF ~HasData(cursor_) THEN {"ERROR"}
              ELSE {"SUCCESS", "ERROR"}
  /\ UNCHANGED <<service, request, position, context, prefetch, pc, after, executes, history>>

\* The destructor.
Destroy ==
  /\ pc = "idle"
  /\ IF result_ # NoPage
     THEN BeginClose("Destroy")
     ELSE /\ pc' = "destroyed"
          /\ UNCHANGED <<after, isClosing_>>
  /\ UNCHANGED <<service, request, position, queue_, prefetch, executes, ret, history>>

\* Nothing happens to a destroyed query.
Destroyed == pc = "destroyed" /\ UNCHANGED vars

-----------------------------------------------------------------------------
\* What the application may call.
Call ==
  \/ Execute \/ FetchNoCursor \/ FetchNextRow \/ FetchPastPage
  \/ CancelRefused \/ Cancel \/ Close
  \/ GetMetaRequest \/ GetMetaFails \/ GetColumn \/ Destroy

\* What a call in progress does next.
Continue ==
  \/ CloseJoin \/ CloseEnd
  \/ ExecuteFails \/ ExecuteEmptyPage \/ ExecuteFirstPage
  \/ SwitchWait \/ SwitchFailed \/ SwitchEmptyPage \/ SwitchLastPage
  \/ SwitchMorePages \/ SwitchJoin

AsyncFetchOnePage(t) == AsyncQuery(t) \/ AsyncPush(t)

Next ==
  \/ Call \/ Continue
  \/ \E t \in Threads : AsyncFetchOnePage(t)
  \/ SpuriousWakeup \/ Destroyed

\* A call in progress and every fetch thread go on: the operating system
\* schedules them and the SDK returns from every request (it has timeouts).
\* What the application calls next is its own choice.
Fairness ==
  /\ WF_vars(Continue)
  /\ \A t \in Threads : WF_vars(AsyncFetchOnePage(t))

Spec == Init /\ [][Next]_vars /\ Fairness

-----------------------------------------------------------------------------
(* Properties of the threads.  They hold for every result, with any number *)
(* of executions of the same query.                                        *)

\* No fetch thread is alive when the query is gone: it would go on using
\* request_ and context_, and destroying a joinable std::thread terminates
\* the process.  The destructor only joins when result_ is set, so this
\* needs every path that starts a thread to leave result_ set.
NoThreadOutlivesQuery ==
  pc = "destroyed" => \A t \in Threads : tpc[t] = "none"

\* Neither SwitchCursor, which pops the queue, nor InternalClose, which sets
\* isClosing_, notifies context_.cv_: a fetch thread that found the queue
\* full and waited would sleep for ever, and the next join with it.  So no
\* fetch thread may ever have to wait.
FetchThreadNeverWaits == \A t \in Threads : tpc[t] # "waiting"

\* At most one fetch thread exists, and it is the one that threads_ will
\* join: two would race for the one place in the queue.
OneFetchThread ==
  /\ Len(threads_) <= 1
  /\ \A t \in Threads : tpc[t] # "none" => threads_ = << t >>

\* A fetch thread reads request_ through a reference, so the application's
\* thread must not change it while the request is being sent.
RequestStableWhileRead ==
  [][token' # token => \A t \in Threads : tpc[t] # "query"]_vars

\* The cursor never reads outside its page: wherever GetColumn and
\* FetchNextRow find that there is data, iterator_ points to a row.
CursorReadsARow ==
  cursor_ # NoCursor /\ HasData(cursor_) => cursor_.iterator < Rows(cursor_.page)

\* InternalClose returns: every thread it joins ends.
CloseReturns == pc = "closing" ~> pc # "closing"

\* Why they hold (the inductive invariants of the proofs).  A thread exists
\* exactly while it is in threads_, and then result_ is set; a request is only
\* sent with no thread around; until the query is first closed, what is in the
\* queue was put there by the thread that is still to be joined.
ThreadInv ==
  /\ threads_ = << >> \/ \E t \in Threads : threads_ = << t >>
  /\ \A t \in Threads : tpc[t] # "none" <=> threads_ = << t >>
  /\ FetchThreadNeverWaits
  /\ Len(queue_) <= 1
  /\ threads_ # << >> => result_ # NoPage
  /\ pc \in {"request", "destroyed"} => threads_ = << >>
  /\ pc = "closing" => isClosing_
  /\ pc = "join" => result_ # NoPage
  /\ ~isClosing_ /\ queue_ # << >> => threads_ # << >> /\ pc # "join"
  /\ ~isClosing_ /\ (queue_ # << >> \/ pc = "join") =>
       \A t \in Threads : tpc[t] \in {"none", "done"}

\* A cursor stands in a page with rows, and iterator_ follows curPos_.
CursorInv ==
  /\ cursor_.page = NoPage <=> cursor_ = NoCursor
  /\ pc = "join" => cursor_ # NoCursor
  /\ cursor_ # NoCursor =>
       /\ Rows(cursor_.page) > 0
       /\ cursor_.curPos = 0 => cursor_.iterator = 0
       /\ 0 < cursor_.curPos /\ cursor_.curPos <= Rows(cursor_.page)
            => cursor_.iterator = cursor_.curPos - 1

-----------------------------------------------------------------------------
(* Properties of the rows.  They hold for the first execution of a query   *)
(* whose pages, from the first one with rows on, all have rows.            *)

RowsInPages(p) == \A i, j \in 1..Len(p) : i < j /\ p[i] > 0 => p[j] > 0
FirstExecution == executes <= 1 /\ RowsInPages(pages)

\* The application sees a result set: rows in order, none lost, none twice,
\* AI_NO_DATA after the last one only, and a failed page never passed off as
\* the end of the data.  Every step up to the end of the first execution is one
\* of ResultSet (FetchNextRow, SwitchCursor, MakeRequestExecute); Execute again
\* goes on with the token that the last execution left in request_.
ImplementsResultSet == RS!Init /\ [][FirstExecution' => RS!Next]_(RS!streamVars)

\* Why rows are handed over in order (the inductive invariant of the proof).
\* Before the execution nothing is held, and once the application was told
\* that the rows are over there is no row left to read.
Untouched ==
  /\ told # "open" /\ delivered = << >>
  /\ token = NoToken /\ result_ = NoPage /\ cursor_ = NoCursor
  /\ queue_ = << >> /\ ~hasAsyncFetch

NothingToRead ==
  /\ pc \in {"idle", "closing", "destroyed"}
  /\ pc = "idle" => \/ cursor_ = NoCursor
                    \/ /\ told = "end" /\ ~hasAsyncFetch
                       /\ cursor_.curPos > Rows(cursor_.page)

\* MakeRequestExecute has only seen empty pages.
NoRowYet ==
  /\ delivered = << >> /\ cursor_ = NoCursor
  /\ queue_ = << >> /\ ~hasAsyncFetch
  /\ \A q \in 1..(token - 1) : Rows(q) = 0

\* n rows of the page were handed over, after all those of earlier pages.
HandedOver(page, n) ==
  IF n = 0
  THEN /\ \A q \in 1..(page - 1) : Rows(q) = 0
       /\ delivered = << >>
  ELSE /\ delivered # << >>
       /\ delivered[Len(delivered)] = <<page, n>>

\* The cursor tells what was handed over; what the prefetch has fetched, is
\* fetching or will fetch is the page after it.
Reading ==
  /\ cursor_ # NoCursor
  /\ pc = "idle" => /\ cursor_.curPos <= Rows(cursor_.page)
                    /\ HandedOver(cursor_.page, cursor_.curPos)
  /\ pc \in {"switch", "blocked"} =>
       hasAsyncFetch /\ HandedOver(cursor_.page, Rows(cursor_.page))
  /\ pc = "join" =>
       /\ cursor_.curPos = 1 /\ result_ = cursor_.page
       /\ 1 < result_ /\ result_ < Len(pages) /\ Rows(result_ - 1) > 0
       /\ HandedOver(result_ - 1, Rows(result_ - 1))
       /\ queue_ = << >> /\ hasAsyncFetch
  /\ pc # "join" => (hasAsyncFetch <=> cursor_.page < Len(pages))
  /\ pc # "join" /\ hasAsyncFetch =>
       /\ token = cursor_.page + 1
       /\ queue_ # << >> => Head(queue_) \in {Failure, token}
       /\ \A t \in Threads : tpc[t] = "push" => outcome[t] \in {Failure, token}
  /\ queue_ # << >> \/ pc = "join" => \A t \in Threads : tpc[t] \in {"none", "done"}

StreamInv ==
  /\ executes \in {0, 1} /\ after # "Execute"
  /\ executes = 0 => Untouched
  /\ told # "open" => NothingToRead
  /\ told = "open" /\ pc = "closing" => after = "Destroy"
  /\ told = "open" /\ pc = "request" => NoRowYet
  /\ told = "open" /\ pc \in {"idle", "switch", "blocked", "join"} => Reading

\* FetchNextRow returns: when it waits for a page, the page (or its failure)
\* arrives.
FetchReturns ==
  FirstExecution /\ pc \in {"switch", "blocked", "join"} ~> pc = "idle"

-----------------------------------------------------------------------------
(* What the code or its tests say and the code does not keep.              *)

\* "Data fetching is finished": FetchNextRow says AI_NO_DATA only when every
\* row was handed over.  An empty page that is not the last one ends the
\* result too early.
NoDataMeansComplete == told = "end" => RS!Complete
=============================================================================
