--------------------------- MODULE DataQueryProofs ---------------------------
(***************************************************************************)
(* Proofs about DataQuery, for every set of thread identities, every set   *)
(* of paged results and every number of executions.                        *)
(***************************************************************************)
EXTENDS DataQuery, TLAPS

\* What the operations of a queue (std::queue as a sequence) return.
LEMMA QueueType ==
  ASSUME NEW S, NEW q \in Seq(S)
  PROVE  /\ << >> \in Seq(S)
         /\ \A x \in S : Append(q, x) \in Seq(S)
         /\ q # << >> => Head(q) \in S /\ Tail(q) \in Seq(S)
OBVIOUS

\* A request with a valid token is answered with a page of the result or with
\* a failure, and the token of a page is valid: the service contract that
\* MakeRequestExecute and AsyncFetchOnePage rely on.
LEMMA TokensStayValid ==
  ASSUME pages \in PageSeqs
  PROVE  /\ Len(pages) \in Nat \ {0}
         /\ \A tok \in {NoToken} \cup 1..Len(pages) :
              Outcomes(tok) \subseteq {Failure} \cup 1..Len(pages)
         /\ \A page \in 1..Len(pages) : NextToken(page) \in {NoToken} \cup 1..Len(pages)
         /\ \A page \in 1..Len(pages) : Rows(page) \in Nat
<1>1. pages \in Seq(Nat) /\ pages # << >>
  BY DataQueryAssumption
<1>2. Len(pages) \in Nat \ {0}
  BY <1>1
<1> QED
  BY <1>1, <1>2 DEF Outcomes, NextToken, Rows, NoToken, Failure

\* A moved cursor is a cursor, in the same page.
LEMMA IncrementedType ==
  ASSUME pages \in PageSeqs,
         NEW c \in [page : {NoPage} \cup 1..Len(pages), curPos : Nat, iterator : Nat]
  PROVE  /\ Incremented(c) \in [page : {NoPage} \cup 1..Len(pages), curPos : Nat, iterator : Nat]
         /\ Incremented(c).page = c.page
         /\ Incremented(c).curPos = c.curPos + 1
         /\ CurrentRow(c) \in RS!Row
BY TokensStayValid DEF Incremented, CurrentRow, RS!Row, NoPage

\* Every step leaves the flags of DataQuery Boolean.
LEMMA FlagStep ==
  ASSUME TypeOK, [Next]_vars
  PROVE  /\ resultMetaAvailable_' \in BOOLEAN
         /\ isClosing_' \in BOOLEAN
         /\ hasAsyncFetch' \in BOOLEAN
<1> USE DEF TypeOK, service, request, position, context, prefetch, control, history
<1>1. CASE Execute \/ Cancel \/ Close \/ GetMetaFails \/ Destroy \/ ExecuteFails
  BY <1>1, Zenon DEF Execute, Cancel, Close, GetMetaFails, Destroy, ExecuteFails, BeginClose
<1>2. CASE FetchNoCursor \/ FetchNextRow \/ FetchPastPage
  BY <1>2, Zenon DEF FetchNoCursor, FetchNextRow, FetchPastPage
<1>3. CASE CancelRefused \/ GetMetaRequest \/ GetColumn
  BY <1>3, Zenon DEF CancelRefused, GetMetaRequest, GetColumn
<1>4. CASE CloseJoin \/ CloseEnd
  BY <1>4, Zenon DEF CloseJoin, CloseEnd
<1>5. CASE ExecuteEmptyPage \/ ExecuteFirstPage
  BY <1>5, Zenon DEF ExecuteEmptyPage, ExecuteFirstPage
<1>6. CASE SwitchWait \/ SwitchFailed \/ SwitchEmptyPage
  BY <1>6, Zenon DEF SwitchWait, SwitchFailed, SwitchEmptyPage
<1>7. CASE SwitchLastPage \/ SwitchMorePages \/ SwitchJoin
  BY <1>7, Zenon DEF SwitchLastPage, SwitchMorePages, SwitchJoin
<1>8. CASE SpuriousWakeup \/ (\E t \in Threads : AsyncFetchOnePage(t))
  BY <1>8, Zenon DEF SpuriousWakeup, AsyncFetchOnePage, AsyncQuery, AsyncPush
<1>9. CASE UNCHANGED vars
  BY <1>9, Zenon DEF vars
<1> QED
  BY <1>1, <1>2, <1>3, <1>4, <1>5, <1>6, <1>7, <1>8, <1>9, Zenon DEF Next, Call,
       Continue, Destroyed

\* iterator_ stays within the rows of its page.
LEMMA IteratorStep ==
  ASSUME TypeOK, [Next]_vars
  PROVE  IteratorInPage'
<1> USE DEF TypeOK, IteratorInPage, service, request, position, context, prefetch, control, history
<1>0. \A page \in 1..Len(pages) : pages[page] \in Nat
  BY TokensStayValid DEF Rows
<1>1. CASE UNCHANGED <<pages, cursor_>>
  BY <1>1 DEF Rows
<1>2. CASE cursor_' = NoCursor
  BY <1>2 DEF NoCursor
<1>3. ASSUME NEW page \in 1..Len(pages), UNCHANGED pages,
             cursor_' \in {NewCursor(page), Incremented(NewCursor(page))}
      PROVE  IteratorInPage'
  BY <1>3, <1>0 DEF NewCursor, Incremented, Rows
<1>4. ASSUME cursor_ # NoCursor, UNCHANGED pages, cursor_' = Incremented(cursor_)
      PROVE  IteratorInPage'
  <2>1. CASE cursor_.page \in 1..Len(pages)
    BY <1>4, <1>0, <2>1 DEF Incremented, Rows
  <2>2. CASE cursor_.page = NoPage
    BY <1>4, <2>2 DEF Incremented, Rows
  <2> QED
    BY <2>1, <2>2
<1>5. CASE CloseEnd \/ SwitchFailed
  BY <1>5, <1>2 DEF CloseEnd, SwitchFailed
<1>6. CASE ExecuteFirstPage
  BY <1>6, <1>3, TokensStayValid DEF ExecuteFirstPage
<1>7. CASE SwitchLastPage \/ SwitchMorePages
  BY <1>7, <1>3 DEF SwitchLastPage, SwitchMorePages
<1>8. CASE FetchNextRow \/ FetchPastPage
  BY <1>8, <1>4 DEF FetchNextRow, FetchPastPage
<1>9. CASE \E t \in Threads : AsyncQuery(t) \/ AsyncPush(t)
  BY <1>9, <1>1 DEF AsyncQuery, AsyncPush
<1>10. CASE UNCHANGED vars
  BY <1>10, <1>1 DEF vars
<1>11. CASE ExecuteFails \/ Execute \/ FetchNoCursor \/ CancelRefused \/ Cancel \/ Close
     \/ GetMetaRequest \/ GetMetaFails \/ GetColumn \/ Destroy \/ CloseJoin \/ SwitchJoin
     \/ ExecuteEmptyPage \/ SwitchWait \/ SwitchEmptyPage \/ SpuriousWakeup
  BY <1>11, <1>1 DEF ExecuteFails, Execute, FetchNoCursor, CancelRefused, Cancel, Close,
       GetMetaRequest, GetMetaFails, GetColumn, Destroy, CloseJoin, SwitchJoin,
       ExecuteEmptyPage, SwitchWait, SwitchEmptyPage, SpuriousWakeup
<1> QED BY <1>5, <1>6, <1>7, <1>8, <1>9, <1>10, <1>11 DEF Next, Call, Continue,
     AsyncFetchOnePage, Destroyed

\* Every step keeps the types of DataQuery's members.
LEMMA TypeStep ==
  ASSUME TypeOK, [Next]_vars
  PROVE  TypeOK'
<1>0. /\ resultMetaAvailable_' \in BOOLEAN
      /\ isClosing_' \in BOOLEAN
      /\ hasAsyncFetch' \in BOOLEAN
      /\ IteratorInPage'
  BY FlagStep, IteratorStep
<1> DEFINE Cursors == [page : {NoPage} \cup 1..Len(pages), curPos : Nat, iterator : Nat]
<1> USE DEF TypeOK, service, request, position, context, prefetch, control, history
<1>1. CASE Execute
  BY <1>0, <1>1, TokensStayValid DEF Execute, BeginClose, RS!Knowledge
<1>2. CASE FetchNoCursor
  BY <1>0, <1>2, TokensStayValid DEF FetchNoCursor, SayNoData, RS!Knowledge
<1>3. CASE FetchNextRow
  <2>1. cursor_' \in Cursors /\ CurrentRow(cursor_') \in RS!Row
    BY <1>0, <1>3, IncrementedType DEF FetchNextRow
  <2>2. delivered' \in Seq(RS!Row) /\ rowCounter' \in Nat /\ ret' \in {"SUCCESS", "ERROR"}
    BY <1>0, <1>3, <2>1 DEF FetchNextRow, HandOver
  <2> QED
    BY <1>0, <1>3, <2>1, <2>2 DEF FetchNextRow, HandOver
<1>4. CASE FetchPastPage
  <2>1. cursor_' \in Cursors
    BY <1>0, <1>4, IncrementedType DEF FetchPastPage
  <2> QED
    BY <1>0, <1>4, <2>1 DEF FetchPastPage, SayNoData, RS!Knowledge
<1>5. CASE CancelRefused
  BY <1>0, <1>5, TokensStayValid DEF CancelRefused
<1>6. CASE Cancel
  BY <1>0, <1>6, TokensStayValid DEF Cancel, BeginClose, RS!Knowledge
<1>7. CASE Close
  BY <1>0, <1>7, TokensStayValid DEF Close, BeginClose, RS!Knowledge
<1>8. CASE GetMetaRequest
  BY <1>0, <1>8, TokensStayValid DEF GetMetaRequest
<1>9. CASE GetMetaFails
  BY <1>0, <1>9, TokensStayValid DEF GetMetaFails, BeginClose, RS!Knowledge
<1>10. CASE GetColumn
  BY <1>0, <1>10, TokensStayValid DEF GetColumn
<1>11. CASE Destroy
  BY <1>0, <1>11, TokensStayValid DEF Destroy, BeginClose
<1>12. CASE CloseJoin
  BY <1>0, <1>12, TokensStayValid DEF CloseJoin, JoinThread
<1>13. CASE CloseEnd
  BY <1>0, <1>13, TokensStayValid DEF CloseEnd, NoCursor
<1>14. CASE ExecuteFails
  BY <1>0, <1>14, TokensStayValid DEF ExecuteFails, BeginClose, RS!Knowledge
<1>15. CASE ExecuteEmptyPage
  BY <1>0, <1>15, TokensStayValid DEF ExecuteEmptyPage, RS!Knowledge
<1>16. CASE ExecuteFirstPage
  <2>1. PICK page \in Outcomes(token) \ {Failure} :
          /\ result_' = page
          /\ cursor_' = NewCursor(page)
          /\ \/ UNCHANGED <<token, threads_, tpc, outcome>>
             \/ /\ token' = NextToken(page)
                /\ outcome' = outcome
                /\ \E t \in Threads : /\ threads_' = Append(threads_, t)
                                      /\ tpc' = [tpc EXCEPT ![t] = "query"]
    BY <1>0, <1>16, Zenon DEF ExecuteFirstPage, StartThread
  <2>2. page \in 1..Len(pages) /\ cursor_' \in Cursors
    BY <2>1, TokensStayValid DEF NewCursor
  <2>3. token' \in {NoToken} \cup 1..Len(pages)
    BY <2>1, <2>2, TokensStayValid
  <2>4. threads_' \in Seq(Threads) /\ outcome' = outcome
        /\ tpc' \in [Threads -> {"none", "query", "push", "waiting", "done"}]
    <3>1. threads_' \in Seq(Threads)
      <4>1. \A t \in Threads : Append(threads_, t) \in Seq(Threads)
        BY QueueType
      <4> QED
        BY <2>1, <4>1, Zenon
    <3> QED
      BY <2>1, <3>1
  <2> QED
    BY <1>0, <1>16, <2>1, <2>2, <2>3, <2>4 DEF ExecuteFirstPage
<1>17. CASE SwitchWait
  BY <1>0, <1>17, TokensStayValid DEF SwitchWait
<1>18. CASE SwitchFailed
  BY <1>0, <1>18, TokensStayValid DEF SwitchFailed, NoCursor, RS!Knowledge
<1>19. CASE SwitchEmptyPage
  BY <1>0, <1>19, TokensStayValid DEF SwitchEmptyPage, SayNoData, RS!Knowledge
<1>20. CASE SwitchLastPage
  <2>1. cursor_' \in Cursors /\ CurrentRow(cursor_') \in RS!Row
    <3>1. Head(queue_) \in 1..Len(pages)
      BY <1>0, <1>20 DEF SwitchLastPage
    <3>2. NewCursor(Head(queue_)) \in Cursors
      BY <3>1 DEF NewCursor
    <3> QED
      BY <1>0, <1>20, <3>2, IncrementedType DEF SwitchLastPage
  <2>2. delivered' \in Seq(RS!Row) /\ rowCounter' \in Nat /\ ret' \in {"SUCCESS", "ERROR"}
    BY <1>0, <1>20, <2>1 DEF SwitchLastPage, HandOver
  <2> QED
    BY <1>0, <1>20, <2>1, <2>2 DEF SwitchLastPage, HandOver
<1>21. CASE SwitchMorePages
  <2>1. cursor_' \in Cursors
    <3>1. Head(queue_) \in 1..Len(pages)
      BY <1>0, <1>21 DEF SwitchMorePages
    <3>2. NewCursor(Head(queue_)) \in Cursors
      BY <3>1 DEF NewCursor
    <3> QED
      BY <1>0, <1>21, <3>2, IncrementedType DEF SwitchMorePages
  <2> QED
    BY <1>0, <1>21, <2>1 DEF SwitchMorePages
<1>22. CASE SwitchJoin
  <2>1. CurrentRow(cursor_) \in RS!Row
    BY IncrementedType
  <2>2. delivered' \in Seq(RS!Row) /\ rowCounter' \in Nat /\ ret' \in {"SUCCESS", "ERROR"}
    BY <1>0, <1>22, <2>1 DEF SwitchJoin, HandOver
  <2>3. token' \in {NoToken} \cup 1..Len(pages)
    BY <1>0, <1>22, TokensStayValid DEF SwitchJoin, NextToken, NoPage, NoToken
  <2>4. threads_' \in Seq(Threads)
        /\ tpc' \in [Threads -> {"none", "query", "push", "waiting", "done"}]
    <3>1. PICK t \in Threads :
            \/ threads_' = Append(<< >>, t) /\ tpc' = [tpc EXCEPT ![t] = "query"]
            \/ /\ threads_ # << >>
               /\ threads_' = Append(Tail(threads_), t)
               /\ tpc' = [tpc EXCEPT ![Head(threads_)] = "none", ![t] = "query"]
      BY <1>0, <1>22 DEF SwitchJoin, StartThread
    <3>2. threads_' \in Seq(Threads)
      <4>1. /\ Append(<< >>, t) \in Seq(Threads)
            /\ (threads_ # << >> => Append(Tail(threads_), t) \in Seq(Threads))
        BY QueueType
      <4> QED
        BY <3>1, <4>1, Zenon
    <3>3. threads_ # << >> => Head(threads_) \in Threads
      OBVIOUS
    <3> QED
      BY <3>1, <3>2, <3>3
  <2> QED
    BY <1>0, <1>22, <2>1, <2>2, <2>3, <2>4 DEF SwitchJoin, HandOver
<1>23. CASE SpuriousWakeup
  BY <1>0, <1>23, TokensStayValid DEF SpuriousWakeup
<1>24. ASSUME NEW t \in Threads, AsyncQuery(t) PROVE TypeOK'
  BY <1>0, <1>24, TokensStayValid DEF AsyncQuery
<1>25. ASSUME NEW t \in Threads, AsyncPush(t) PROVE TypeOK'
  <2>1. queue_' \in Seq({Failure} \cup 1..Len(pages))
    BY <1>0, <1>25 DEF AsyncPush
  <2>2. pc' \in {pc, "switch"}
        /\ tpc' \in [Threads -> {"none", "query", "push", "waiting", "done"}]
    BY <1>0, <1>25 DEF AsyncPush
  <2> QED
    BY <1>0, <1>25, <2>1, <2>2 DEF AsyncPush
<1>26. CASE UNCHANGED vars
  BY <1>0, <1>26 DEF vars
<1> QED
  BY <1>0, <1>1, <1>2, <1>3, <1>4, <1>5, <1>6, <1>7, <1>8, <1>9, <1>10, <1>11, <1>12,
       <1>13, <1>14, <1>15, <1>16, <1>17, <1>18, <1>19, <1>20, <1>21, <1>22, <1>23, <1>24,
       <1>25, <1>26
  DEF Next, Call, Continue, AsyncFetchOnePage, Destroyed

\* Every step keeps the invariant of the threads and the queue.
LEMMA ThreadStep ==
  ASSUME TypeOK, ThreadInv, [Next]_vars
  PROVE  ThreadInv'
<1> USE DEF ThreadInv, FetchThreadNeverWaits, TypeOK, service, request, position,
     context, prefetch, control, history
<1>1. CASE Execute
  BY <1>1, TokensStayValid DEF Execute, BeginClose, NoPage, Failure
<1>2. CASE FetchNoCursor
  BY <1>2, TokensStayValid DEF FetchNoCursor, NoPage, Failure
<1>3. CASE FetchNextRow
  BY <1>3, TokensStayValid DEF FetchNextRow, NoPage, Failure
<1>4. CASE FetchPastPage
  BY <1>4, TokensStayValid DEF FetchPastPage, SayNoData, NoPage, Failure
<1>5. CASE CancelRefused
  BY <1>5, TokensStayValid DEF CancelRefused, NoPage, Failure
<1>6. CASE Cancel
  BY <1>6, TokensStayValid DEF Cancel, BeginClose, NoPage, Failure
<1>7. CASE Close
  BY <1>7, TokensStayValid DEF Close, BeginClose, NoPage, Failure
<1>8. CASE GetMetaRequest
  BY <1>8, TokensStayValid DEF GetMetaRequest, NoPage, Failure
<1>9. CASE GetMetaFails
  BY <1>9, TokensStayValid DEF GetMetaFails, BeginClose, NoPage, Failure
<1>10. CASE GetColumn
  BY <1>10, TokensStayValid DEF GetColumn, NoPage, Failure
<1>11. CASE Destroy
  BY <1>11, TokensStayValid DEF Destroy, BeginClose, NoPage, Failure
<1>12. CASE CloseJoin
  BY <1>12, TokensStayValid DEF CloseJoin, JoinThread, NoPage, Failure
<1>13. CASE CloseEnd
  BY <1>13, TokensStayValid DEF CloseEnd, NoPage, Failure
<1>14. CASE ExecuteFails
  BY <1>14, TokensStayValid DEF ExecuteFails, BeginClose, NoPage, Failure
<1>15. CASE ExecuteEmptyPage
  BY <1>15, TokensStayValid DEF ExecuteEmptyPage, NoPage, Failure
<1>16. CASE ExecuteFirstPage
  BY <1>16, TokensStayValid DEF ExecuteFirstPage, StartThread, NoPage, Failure
<1>17. CASE SwitchWait
  BY <1>17, TokensStayValid DEF SwitchWait, NoPage, Failure
<1>18. CASE SwitchFailed
  BY <1>18, TokensStayValid DEF SwitchFailed, NoPage, Failure
<1>19. CASE SwitchEmptyPage
  BY <1>19, TokensStayValid DEF SwitchEmptyPage, NoPage, Failure
<1>20. CASE SwitchLastPage
  BY <1>20, TokensStayValid DEF SwitchLastPage, NoPage, Failure
<1>21. CASE SwitchMorePages
  BY <1>21, TokensStayValid DEF SwitchMorePages, NoPage, Failure
<1>22. CASE SwitchJoin
  <2>1. PICK t \in Threads :
          /\ tpc[t] = "none"
          /\ \/ /\ threads_ = << >>
                /\ threads_' = Append(<< >>, t) 
                /\ tpc' = [tpc EXCEPT ![t] = "query"]
             \/ /\ threads_ # << >>
                /\ threads_' = Append(Tail(threads_), t)
                /\ tpc' = [tpc EXCEPT ![Head(threads_)] = "none", ![t] = "query"]
    BY <1>22 DEF SwitchJoin, StartThread
  <2>2. threads_' = << t >>
    BY <2>1
  <2>3. \A u \in Threads : tpc'[u] = IF u = t THEN "query" ELSE "none"
    BY <2>1
  <2>4. result_' # NoPage /\ pc' = "idle" /\ UNCHANGED <<queue_, isClosing_>>
    BY <1>22 DEF SwitchJoin
  <2>5. ~isClosing_ => queue_ = << >>
    BY <1>22 DEF SwitchJoin
  <2> QED
    BY <2>2, <2>3, <2>4, <2>5
<1>23. CASE SpuriousWakeup
  BY <1>23, TokensStayValid DEF SpuriousWakeup, NoPage, Failure
<1>24. ASSUME NEW t \in Threads, AsyncQuery(t) PROVE ThreadInv'
  BY <1>24 DEF AsyncQuery
<1>25. ASSUME NEW t \in Threads, AsyncPush(t) PROVE ThreadInv'
  <2>1. threads_ = << t >> /\ pc' \in {pc, "switch"} /\ UNCHANGED <<threads_, result_, isClosing_>>
    BY <1>25 DEF AsyncPush
  <2>2. queue_ = << >> \/ isClosing_
    BY <1>25 DEF AsyncPush
  <2>3. tpc' = [tpc EXCEPT ![t] = "done"]
    BY <1>25, <2>1, <2>2 DEF AsyncPush
  <2>4. pc' # "join" \/ pc' = pc
    BY <2>1
  <2>5. Len(queue_') <= 1
    BY <1>25 DEF AsyncPush
  <2> QED
    BY <1>25, <2>1, <2>2, <2>3, <2>4, <2>5 DEF AsyncPush
<1>26. CASE UNCHANGED vars
  BY <1>26 DEF vars
<1> QED
  BY <1>1, <1>2, <1>3, <1>4, <1>5, <1>6, <1>7, <1>8, <1>9, <1>10, <1>11, <1>12, <1>13,
       <1>14, <1>15, <1>16, <1>17, <1>18, <1>19, <1>20, <1>21, <1>22, <1>23, <1>24, <1>25,
       <1>26
  DEF Next, Call, Continue, AsyncFetchOnePage, Destroyed

\* Every step keeps the invariant of the cursor.
LEMMA CursorStep ==
  ASSUME TypeOK, CursorInv, [Next]_vars
  PROVE  CursorInv'
<1> USE DEF TypeOK, CursorInv, service, position, Rows
<1>0. \A page \in 1..Len(pages) : pages[page] \in Nat
  BY TokensStayValid
<1>1. CASE UNCHANGED <<service, cursor_>> /\ pc' # "join"
  BY <1>1
<1>2. CASE cursor_' = NoCursor /\ UNCHANGED service /\ pc' # "join"
  BY <1>2 DEF NoCursor
<1>3. ASSUME NEW page \in 1..Len(pages), pages[page] > 0, UNCHANGED service,
             cursor_' \in {NewCursor(page), Incremented(NewCursor(page))}
      PROVE  CursorInv'
  BY <1>3, <1>0 DEF NewCursor, NoCursor, Incremented, NoPage
<1>4. ASSUME cursor_ # NoCursor, UNCHANGED service, cursor_' = Incremented(cursor_)
      PROVE  CursorInv'
  BY <1>4, <1>0 DEF Incremented, NoPage, NoCursor

<1>5. CASE CloseEnd
  BY <1>5, <1>2 DEF CloseEnd
<1>6. CASE SwitchFailed
  BY <1>6, <1>2 DEF SwitchFailed
<1>7. CASE ExecuteFirstPage
  BY <1>7, <1>3, TokensStayValid DEF ExecuteFirstPage
<1>8. CASE SwitchLastPage \/ SwitchMorePages
  BY <1>8, <1>3 DEF SwitchLastPage, SwitchMorePages
<1>9. CASE FetchNextRow \/ FetchPastPage
  BY <1>9, <1>4 DEF FetchNextRow, FetchPastPage
<1>10. CASE SwitchJoin
  BY <1>10, <1>1 DEF SwitchJoin
<1>11. CASE \E t \in Threads : AsyncQuery(t) \/ AsyncPush(t)
  <2>1. UNCHANGED <<service, cursor_>> /\ (pc' = pc \/ pc' = "switch")
    BY <1>11 DEF AsyncQuery, AsyncPush, control
  <2> QED
    BY <2>1
<1>12. CASE UNCHANGED vars
  BY <1>12 DEF vars, control
<1>13. CASE ExecuteFails \/ Execute \/ FetchNoCursor \/ CancelRefused \/ Cancel \/ Close
     \/ GetMetaRequest \/ GetMetaFails \/ GetColumn \/ Destroy \/ CloseJoin \/
     ExecuteEmptyPage \/ SwitchWait \/ SwitchEmptyPage \/ SpuriousWakeup
  BY <1>13, <1>1 DEF ExecuteFails, Execute, FetchNoCursor, CancelRefused, Cancel, Close,
       GetMetaRequest, GetMetaFails, GetColumn, Destroy, CloseJoin, ExecuteEmptyPage,
       SwitchWait, SwitchEmptyPage, SpuriousWakeup, BeginClose, control
<1> QED BY <1>5, <1>6, <1>7, <1>8, <1>9, <1>10, <1>11, <1>12, <1>13 DEF Next, Call,
     Continue, AsyncFetchOnePage, Destroyed

-----------------------------------------------------------------------------
\* The invariants hold initially.
LEMMA InvInit == Init => TypeOK /\ ThreadInv /\ CursorInv
<1> SUFFICES ASSUME Init PROVE TypeOK /\ ThreadInv /\ CursorInv
  OBVIOUS
<1>1. TypeOK
  <2>1. 1..Len(pages) \subseteq Nat /\ << >> \in Seq(RS!Row)
    OBVIOUS
  <2>2. pages \in PageSeqs /\ cursor_ = NoCursor
    BY DEF Init
  <2>3. cursor_ \in [page : {NoPage} \cup 1..Len(pages), curPos : Nat, iterator : Nat]
    BY <2>2 DEF NoCursor
  <2>4. resultMetaAvailable_ \in BOOLEAN /\ isClosing_ \in BOOLEAN /\ hasAsyncFetch \in BOOLEAN
    BY Zenon DEF Init
  <2> QED
    BY <2>1, <2>2, <2>3, <2>4 DEF Init, TypeOK, IteratorInPage, NoCursor, RS!Knowledge
<1>2. ThreadInv
  BY DEF Init, ThreadInv, FetchThreadNeverWaits
<1>3. CursorInv
  BY DEF Init, CursorInv, NoCursor
<1> QED
  BY <1>1, <1>2, <1>3

\* The conjunction of the three is inductive.
LEMMA InvInductive == Spec => [](TypeOK /\ ThreadInv /\ CursorInv)
<1>1. TypeOK /\ ThreadInv /\ CursorInv /\ [Next]_vars => (TypeOK /\ ThreadInv /\ CursorInv)'
  BY TypeStep, ThreadStep, CursorStep
<1> QED
  BY <1>1, InvInit, PTL DEF Spec

\* TypeOK holds in every state of every execution of DataQuery.
THEOREM TypeCorrect == Spec => []TypeOK
BY InvInductive, PTL

\* No fetch thread is alive once the destructor has run, so that none uses
\* request_ or context_ after their end and no joinable thread is destroyed.
THEOREM QueryOutlivesItsThreads == Spec => []NoThreadOutlivesQuery
<1>1. ThreadInv => NoThreadOutlivesQuery
  BY DEF ThreadInv, NoThreadOutlivesQuery
<1> QED
  BY <1>1, InvInductive, PTL

\* No fetch thread ever sleeps on context_.cv_, where nobody would wake it.
THEOREM FetchThreadsNeverWait == Spec => []FetchThreadNeverWaits
<1>1. ThreadInv => FetchThreadNeverWaits
  BY DEF ThreadInv
<1> QED
  BY <1>1, InvInductive, PTL

\* There is at most one fetch thread, the one in threads_.
THEOREM SingleFetchThread == Spec => []OneFetchThread
<1>1. ASSUME ThreadInv PROVE OneFetchThread
  <2>1. CASE threads_ = << >>
    BY <1>1, <2>1 DEF ThreadInv, OneFetchThread
  <2>2. CASE \E t \in Threads : threads_ = << t >>
    <3>1. PICK t \in Threads : threads_ = << t >>
      BY <2>2
    <3>2. Len(threads_) = 1
      BY <3>1
    <3> QED
      BY <1>1, <3>2 DEF ThreadInv, OneFetchThread
  <2> QED
    BY <1>1, <2>1, <2>2 DEF ThreadInv
<1> QED
  BY <1>1, InvInductive, PTL

\* Wherever DataQuery finds data under its cursor, the iterator points to a
\* row of the page.
THEOREM CursorInBounds == Spec => []CursorReadsARow
<1>1. TypeOK /\ CursorInv => CursorReadsARow
  BY TokensStayValid DEF TypeOK, CursorInv, CursorReadsARow, HasData, NoPage
<1> QED
  BY <1>1, InvInductive, PTL

\* request_ is not written while a fetch thread is sending it.
THEOREM RequestNotWrittenWhileRead == Spec => RequestStableWhileRead
<1>1. ASSUME TypeOK, ThreadInv, [Next]_vars, token' # token
      PROVE  \A t \in Threads : tpc[t] # "query"
  <2>1. ExecuteEmptyPage \/ ExecuteFirstPage \/ SwitchJoin
    BY <1>1 DEF Next, Call, Continue, AsyncFetchOnePage, Destroyed, vars, request,
         Execute, FetchNoCursor, FetchNextRow, FetchPastPage, CancelRefused, Cancel,
         Close, GetMetaRequest, GetMetaFails, GetColumn, Destroy, CloseJoin, CloseEnd,
         ExecuteFails, SwitchWait, SwitchFailed, SwitchEmptyPage, SwitchLastPage,
         SwitchMorePages, SpuriousWakeup, AsyncQuery, AsyncPush
  <2>2. CASE pc = "request"
    BY <1>1, <2>2 DEF ThreadInv
  <2>3. CASE SwitchJoin
    <3>1. ASSUME NEW t \in Threads PROVE tpc[t] # "query"
      <4>1. CASE threads_ = << >>
        BY <1>1, <4>1 DEF ThreadInv
      <4>2. CASE threads_ # << >>
        <5>1. tpc[Head(threads_)] = "done"
          BY <2>3, <4>2 DEF SwitchJoin
        <5>2. tpc[t] # "none" => Head(threads_) = t
          BY <1>1 DEF ThreadInv
        <5> QED
          BY <5>1, <5>2
      <4> QED
        BY <4>1, <4>2
    <3> QED
      BY <3>1
  <2> QED
    BY <2>1, <2>2, <2>3 DEF ExecuteEmptyPage, ExecuteFirstPage
<1>2. TypeOK /\ ThreadInv /\ [Next]_vars
        => [token' # token => \A t \in Threads : tpc[t] # "query"]_vars
  BY <1>1
<1> QED
  BY <1>2, InvInductive, PTL DEF Spec, RequestStableWhileRead

-----------------------------------------------------------------------------
(* DataQuery implements ResultSet.                                         *)

\* Every step keeps the invariant of the rows.
LEMMA StreamStep ==
  ASSUME FirstExecution, FirstExecution',
         TypeOK, ThreadInv, CursorInv, StreamInv, [Next]_vars
  PROVE  StreamInv'
<1>1. /\ Len(pages) \in Nat \ {0}
      /\ \A page \in 1..Len(pages) : pages[page] \in Nat
      /\ executes \in Nat /\ token \in Nat /\ result_ \in Nat
      /\ cursor_ # NoCursor => cursor_.page \in 1..Len(pages) /\ cursor_.curPos \in Nat
  BY TokensStayValid DEF TypeOK, Rows, NoToken, NoPage, CursorInv
<1> USE DEF service, request, position, context, prefetch, control, history
<1>2. CASE Execute
  BY <1>2, <1>1 DEF Execute, BeginClose, FirstExecution, TypeOK, StreamInv, Untouched,
       NothingToRead, NoRowYet, NoToken
<1>3. CASE FetchNoCursor
  BY <1>3, <1>1 DEF FetchNoCursor, SayNoData, StreamInv, Untouched, NothingToRead,
       NoRowYet, Reading
<1>4. CASE CancelRefused \/ GetMetaRequest \/ GetColumn
  <2>1. /\ UNCHANGED <<pages, token, position, queue_, prefetch, pc, after, executes>>
        /\ UNCHANGED <<delivered, told>>
    BY <1>4 DEF CancelRefused, GetMetaRequest, GetColumn
  <2>2. Reading' = Reading /\ Untouched' = Untouched /\ NothingToRead' = NothingToRead
    BY <2>1 DEF Reading, Untouched, NothingToRead, HandedOver, Rows
  <2>3. pc = "idle"
    BY <1>4 DEF CancelRefused, GetMetaRequest, GetColumn
  <2> QED
    BY <2>1, <2>2, <2>3 DEF StreamInv
<1>5. CASE Cancel \/ Close \/ GetMetaFails \/ ExecuteFails
  BY <1>5, <1>1 DEF Cancel, Close, GetMetaFails, ExecuteFails, BeginClose, StreamInv,
       Untouched, NothingToRead
<1>6. CASE Destroy
  BY <1>6, <1>1 DEF Destroy, BeginClose, StreamInv, Untouched, NothingToRead
<1>7. CASE CloseJoin
  BY <1>7, <1>1 DEF CloseJoin, JoinThread, StreamInv, Untouched, NothingToRead
<1>8. CASE CloseEnd
  BY <1>8, <1>1 DEF CloseEnd, StreamInv, Untouched, NothingToRead, NoRowYet
<1>9. CASE ExecuteEmptyPage
  BY <1>9, <1>1 DEF ExecuteEmptyPage, StreamInv, Untouched, NothingToRead, NoRowYet,
       Reading, Rows, Outcomes, NextToken, NoToken, Failure
<1>10. CASE SwitchWait
  BY <1>10, <1>1 DEF SwitchWait, StreamInv, Untouched, NothingToRead, Reading,
       HandedOver, Rows
<1>11. CASE SwitchFailed
  BY <1>11, <1>1 DEF SwitchFailed, StreamInv, Untouched, NothingToRead
<1>12. CASE FetchNextRow
  <2>1. Reading /\ told = "open" /\ pc = "idle" /\ executes = 1
    BY <1>12, <1>1 DEF FetchNextRow, StreamInv, Untouched, NothingToRead, Incremented,
         HasData, Rows
  <2>2. /\ cursor_'.page = cursor_.page /\ cursor_'.curPos = cursor_.curPos + 1
        /\ cursor_'.iterator = cursor_.curPos
        /\ cursor_'.curPos <= pages[cursor_.page]
    BY <1>12, <1>1, <2>1 DEF FetchNextRow, CursorInv, Incremented, HasData, Rows, TypeOK
  <2>3. /\ delivered' # << >>
        /\ delivered'[Len(delivered')] = <<cursor_.page, cursor_'.curPos>>
    BY <1>12, <2>2, <1>1, <2>1 DEF FetchNextRow, HandOver, CurrentRow, TypeOK
  <2>4. HandedOver(cursor_.page, cursor_.curPos)' /\ cursor_' # NoCursor
    BY <2>1, <2>2, <2>3, <1>1 DEF HandedOver, Reading, NoCursor
  <2>5. Reading'
    BY <1>12, <1>1, <2>1, <2>2, <2>4 DEF FetchNextRow, Reading, Rows
  <2> QED
    BY <1>12, <2>1, <2>5 DEF FetchNextRow, HandOver, StreamInv
<1>13. CASE FetchPastPage
  <2>1. CASE told # "open"
    BY <1>13, <1>1, <2>1 DEF FetchPastPage, SayNoData, StreamInv, Untouched,
         NothingToRead, Incremented, HasData, Rows
  <2>2. CASE told = "open"
    <3>1. Reading /\ executes = 1 /\ pc = "idle"
      BY <1>13, <2>2, <1>1 DEF FetchPastPage, StreamInv, Untouched
    <3>2. /\ cursor_'.page = cursor_.page /\ cursor_'.curPos = cursor_.curPos + 1
          /\ cursor_.curPos = pages[cursor_.page] /\ cursor_' # NoCursor
      BY <1>13, <3>1, <1>1 DEF FetchPastPage, Reading, Incremented, HasData, Rows,
           NoCursor
    <3>3. CASE hasAsyncFetch
      <4>1. Reading'
        BY <1>13, <1>1, <3>1, <3>2, <3>3 DEF FetchPastPage, Reading, HandedOver, Rows
      <4> QED
        BY <1>13, <3>1, <3>3, <2>2, <4>1 DEF FetchPastPage, StreamInv
    <3>4. CASE ~hasAsyncFetch
      <4>1. NothingToRead' /\ told' = "end"
        BY <1>13, <1>1, <3>1, <3>2, <3>4, <2>2 DEF FetchPastPage, SayNoData,
             NothingToRead, Rows
      <4> QED
        BY <1>13, <3>1, <3>4, <4>1 DEF FetchPastPage, StreamInv
    <3> QED
      BY <3>3, <3>4
  <2> QED
    BY <2>1, <2>2
<1>14. CASE ExecuteFirstPage
  <2>1. told = "open" /\ NoRowYet /\ executes = 1
    BY <1>14, <1>1 DEF ExecuteFirstPage, StreamInv, NothingToRead, Untouched
  <2>2. PICK page \in Outcomes(token) \ {Failure} :
          /\ pages[page] > 0 /\ result_' = page /\ cursor_' = NewCursor(page)
          /\ IF NextToken(page) = NoToken
             THEN UNCHANGED <<token, prefetch>>
             ELSE /\ token' = NextToken(page)
                  /\ \E t \in Threads : tpc' = [tpc EXCEPT ![t] = "query"]
                  /\ hasAsyncFetch' = TRUE
    BY <1>14 DEF ExecuteFirstPage, Rows
  <2>3. page \in 1..Len(pages) /\ \A q \in 1..(page - 1) : pages[q] = 0
    BY <2>1, <1>1, <2>2, TokensStayValid DEF NoRowYet, Outcomes, NoToken, Failure, Rows,
         TypeOK
  <2>4. \A t \in Threads : tpc[t] = "none"
    BY <1>14 DEF ExecuteFirstPage, ThreadInv
  <2>5. hasAsyncFetch' <=> page < Len(pages)
    BY <1>1, <2>1, <2>2, <2>3 DEF NextToken, NoToken, NoRowYet
  <2>6. hasAsyncFetch' => token' = page + 1
    BY <1>1, <2>1, <2>2, <2>3 DEF NextToken, NoToken, NoRowYet
  <2>7. \A t \in Threads : tpc'[t] # "push"
    BY <2>2, <2>4 DEF TypeOK
  <2>8. Reading'
    BY <1>14, <2>1, <2>2, <2>3, <2>5, <2>6, <2>7, <1>1 DEF ExecuteFirstPage, NoRowYet,
         Reading, NewCursor, NoCursor, HandedOver, Rows, NoPage
  <2> QED
    BY <1>14, <2>1, <2>8 DEF ExecuteFirstPage, StreamInv
<1>15. CASE SwitchEmptyPage
  <2>1. Reading /\ told = "open"
    BY <1>15 DEF SwitchEmptyPage, StreamInv, NothingToRead
  <2>2. Head(queue_) = cursor_.page + 1 /\ cursor_.page < Len(pages) /\ pages[Head(queue_)] = 0
    BY <1>15, <2>1 DEF SwitchEmptyPage, Reading, Rows
  <2>3. pages[cursor_.page] > 0
    BY <2>1 DEF Reading, CursorInv, Rows
  <2> QED
    BY <1>1, <2>1, <2>2, <2>3 DEF FirstExecution, RowsInPages, TypeOK, Reading
<1>16. CASE SwitchLastPage \/ SwitchMorePages
  <2>1. Reading /\ told = "open" /\ executes = 1 /\ pc = "switch"
    BY <1>16, <1>1 DEF SwitchLastPage, SwitchMorePages, StreamInv, NothingToRead,
         Untouched
  <2> DEFINE page == Head(queue_)
  <2>2. page = cursor_.page + 1 /\ pages[page] > 0 /\ cursor_.page \in 1..(Len(pages) - 1)
    <3>1. queue_ # << >> /\ page # Failure /\ pages[page] > 0
      BY <1>16 DEF SwitchLastPage, SwitchMorePages, Rows
    <3>2. token = cursor_.page + 1 /\ page \in {Failure, token} /\ cursor_.page < Len(pages)
      BY <2>1, <3>1 DEF Reading
    <3> QED
      BY <2>1, <1>1, <3>1, <3>2 DEF Reading
  <2>3. cursor_' = [page |-> page, curPos |-> 1, iterator |-> 0]
    BY <1>16 DEF SwitchLastPage, SwitchMorePages, Incremented, NewCursor
  <2>4. queue_' = << >>
    BY <1>16 DEF SwitchLastPage, SwitchMorePages, TypeOK, ThreadInv
  <2>5. pages[cursor_.page] > 0
    BY <2>1 DEF CursorInv, Reading, Rows
  <2>6. /\ page = cursor_.page + 1 /\ page \in 2..Len(pages) /\ pages[page] > 0
        /\ pages[page] \in Nat /\ pages[cursor_.page] > 0
        /\ queue_' = << >> /\ cursor_' = [page |-> page, curPos |-> 1, iterator |-> 0]
        /\ result_' = page
        /\ told' = "open" /\ executes' = executes /\ pages' = pages /\ after' = after
    BY <1>16, <2>1, <1>1, <2>2, <2>3, <2>4, <2>5 DEF SwitchLastPage, SwitchMorePages,
         HandOver
  <2>7. \A t \in Threads : tpc'[t] \in {"none", "done"}
    BY <1>16, <2>1 DEF SwitchLastPage, SwitchMorePages, Reading
  <2>8. CASE SwitchLastPage
    <3>1. page = Len(pages) /\ pc' = "idle" /\ ~hasAsyncFetch'
      BY <2>8, <2>6, <1>1 DEF SwitchLastPage, NextToken, NoToken
    <3>2. /\ delivered' # << >>
          /\ delivered'[Len(delivered')] = <<page, 1>>
      <4>1. delivered \in Seq(RS!Row) /\ delivered' = Append(delivered, <<page, 1>>)
        BY <2>8, <2>6 DEF SwitchLastPage, HandOver, CurrentRow, TypeOK
      <4> QED
        BY <4>1
    <3>3. Reading'
      BY <2>6, <2>7, <3>1, <3>2 DEF Reading, HandedOver, Rows, NoCursor
    <3> QED
      BY <2>1, <2>6, <3>1, <3>3 DEF StreamInv
  <2>9. CASE SwitchMorePages
    <3>1. page < Len(pages) /\ pc' = "join" /\ hasAsyncFetch' /\ delivered' = delivered
      BY <2>9, <2>1, <2>6, <1>1 DEF SwitchMorePages, NextToken, NoToken, Reading
    <3>2. HandedOver(cursor_.page, pages[cursor_.page])
      BY <2>1 DEF Reading, Rows
    <3>3. HandedOver(result_ - 1, Rows(result_ - 1))' /\ Rows(result_ - 1)' > 0
      <4>1. result_' - 1 = cursor_.page
        BY <2>6, <2>2
      <4>2. Rows(result_ - 1)' = pages[cursor_.page]
        BY <2>6, <4>1 DEF Rows
      <4>3. delivered # << >> /\ delivered[Len(delivered)] = <<cursor_.page, pages[cursor_.page]>>
        BY <2>5, <2>2, <3>2 DEF HandedOver
      <4> QED
        BY <2>5, <3>1, <4>1, <4>2, <4>3 DEF HandedOver
    <3>4. cursor_' # NoCursor
      BY <2>6, <1>1 DEF NoCursor, NoPage
    <3>5. Reading'
      BY <2>6, <2>7, <3>1, <3>3, <3>4 DEF Reading
    <3> QED
      BY <2>1, <2>6, <3>1, <3>5 DEF StreamInv
  <2> QED
    BY <1>16, <2>8, <2>9
<1>17. CASE SwitchJoin
  <2>1. Reading /\ told = "open" /\ executes = 1 /\ pc = "join"
    BY <1>17, <1>1 DEF SwitchJoin, StreamInv, NothingToRead, Untouched
  <2>2. \E t \in Threads : \A u \in Threads : tpc'[u] = IF u = t THEN "query" ELSE "none"
    <3>1. PICK t \in Threads :
          /\ tpc[t] = "none"
          /\ \/ threads_ = << >> /\ tpc' = [tpc EXCEPT ![t] = "query"]
             \/ /\ threads_ # << >>
                /\ tpc' = [tpc EXCEPT ![Head(threads_)] = "none", ![t] = "query"]
      BY <1>17 DEF SwitchJoin, StartThread
    <3>2. ASSUME NEW u \in Threads PROVE tpc'[u] = IF u = t THEN "query" ELSE "none"
      <4>1. tpc \in [Threads -> {"none", "query", "push", "waiting", "done"}]
        BY DEF TypeOK
      <4>2. CASE threads_ = << >>
        BY <3>1, <4>1, <4>2 DEF ThreadInv
      <4>3. ASSUME NEW w \in Threads, threads_ = << w >>
            PROVE  tpc'[u] = IF u = t THEN "query" ELSE "none"
        <5>1. Head(threads_) = w /\ (u # w => tpc[u] = "none")
          BY <4>3 DEF ThreadInv
        <5> QED
          BY <3>1, <4>1, <4>3, <5>1
      <4> QED
        BY <4>2, <4>3 DEF ThreadInv
    <3> QED
      BY <3>2
  <2>3. /\ token' = result_ + 1 /\ result_ = cursor_.page /\ hasAsyncFetch' /\ queue_' = << >>
        /\ result_ < Len(pages) /\ cursor_' = cursor_ /\ cursor_.curPos = 1 /\ cursor_.iterator = 0
        /\ pages' = pages /\ pc' = "idle" /\ told' = "open" /\ pages[cursor_.page] > 0
        /\ executes' = executes /\ after' = after
    BY <1>17, <2>1, <1>1 DEF SwitchJoin, Reading, NextToken, NoToken, CursorInv,
         HandOver, Rows
  <2>4. /\ delivered' # << >>
        /\ delivered'[Len(delivered')] = <<cursor_.page, 1>>
    BY <1>17, <2>3 DEF SwitchJoin, HandOver, CurrentRow, TypeOK
  <2>5. HandedOver(cursor_.page, cursor_.curPos)' /\ \A u \in Threads : tpc'[u] # "push"
    BY <2>2, <2>3, <2>4 DEF HandedOver
  <2>6. Reading'
    BY <1>1, <2>1, <2>3, <2>5 DEF Reading, Rows
  <2> QED
    BY <2>1, <2>3, <2>6 DEF StreamInv
<1>18. CASE SpuriousWakeup
  <2>1. pc = "blocked" /\ pc' = "switch" /\ tpc' = [u \in Threads |-> tpc[u]]
    BY <1>18 DEF SpuriousWakeup, Waiters, ThreadInv, FetchThreadNeverWaits
  <2>2. Reading /\ told = "open"
    BY <2>1 DEF StreamInv, NothingToRead
  <2>3. Reading'
    BY <1>18, <2>1, <2>2 DEF SpuriousWakeup, Reading, HandedOver, Rows
  <2> QED
    BY <1>18, <2>1, <2>2, <2>3 DEF SpuriousWakeup, StreamInv, Untouched
<1>19. ASSUME NEW t \in Threads, AsyncQuery(t) PROVE StreamInv'
  <2>1. tpc[t] = "query" /\ tpc' = [tpc EXCEPT ![t] = "push"]
        /\ \E o \in Outcomes(token) : outcome' = [outcome EXCEPT ![t] = o]
    BY <1>19 DEF AsyncQuery
  <2>2. threads_ # << >>
    BY <2>1 DEF ThreadInv
  <2>3. result_ # NoPage /\ pc # "request"
    BY <2>2 DEF ThreadInv
  <2>4. CASE told = "open" /\ Reading /\ pc \in {"idle", "switch", "blocked", "join"}
    <3>1. pc # "join" /\ queue_ = << >>
      BY <2>1, <2>4 DEF Reading
    <3>2. hasAsyncFetch => \A u \in Threads : tpc'[u] = "push" => outcome'[u] \in {Failure, token}
      BY <2>1, <2>4, <3>1, <1>1 DEF Reading, Outcomes, NoToken, TypeOK, Failure
    <3>3. Reading'
      BY <1>19, <2>4, <3>1, <3>2 DEF AsyncQuery, Reading, HandedOver, Rows
    <3> QED
      BY <1>19, <2>4, <3>3, <2>3 DEF AsyncQuery, StreamInv, Untouched
  <2>5. CASE ~(told = "open" /\ pc \in {"idle", "switch", "blocked", "join"})
    BY <1>19, <2>3, <2>5 DEF AsyncQuery, StreamInv, Untouched, NothingToRead, Rows
  <2> QED
    BY <2>4, <2>5 DEF StreamInv
<1>20. ASSUME NEW t \in Threads, AsyncPush(t) PROVE StreamInv'
  <2>1. /\ tpc[t] = "push" /\ threads_ # << >> /\ result_ # NoPage /\ pc # "request"
        /\ \A u \in Threads : u # t => tpc[u] = "none"
    BY <1>20 DEF AsyncPush, ThreadInv
  <2>2. /\ pc' = pc \/ (pc = "blocked" /\ pc' = "switch")
        /\ \A u \in Threads : u # t => tpc'[u] = "none"
    BY <1>20, <2>1 DEF AsyncPush, NotifyOne, Waiters
  <2>3. CASE told = "open" /\ Reading /\ pc \in {"idle", "switch", "blocked", "join"}
    <3>1. pc # "join" /\ queue_ = << >> /\ queue_' = << outcome[t] >>
      <4>1. pc # "join" /\ queue_ = << >>
        BY <2>1, <2>3 DEF Reading
      <4> QED
        BY <1>20, <4>1 DEF AsyncPush
    <3>2. tpc'[t] = "done"
      BY <1>20, <3>1 DEF AsyncPush
    <3>3. Reading'
      BY <1>20, <2>1, <2>2, <2>3, <3>1, <3>2 DEF AsyncPush, Reading, HandedOver, Rows
    <3> QED
      BY <1>20, <2>1, <2>2, <2>3, <3>3 DEF AsyncPush, StreamInv, Untouched
  <2>4. CASE ~(told = "open" /\ pc \in {"idle", "switch", "blocked", "join"})
    BY <1>20, <2>1, <2>2, <2>4 DEF AsyncPush, StreamInv, Untouched, NothingToRead, Rows
  <2> QED
    BY <2>3, <2>4 DEF StreamInv
<1>21. CASE UNCHANGED vars
  BY <1>21, <1>1 DEF vars, StreamInv, Untouched, NothingToRead, NoRowYet, Reading,
       HandedOver, Rows
<1> QED
  BY <1>2, <1>3, <1>12, <1>13, <1>4, <1>5, <1>6, <1>7, <1>8, <1>9, <1>14, <1>10, <1>11,
       <1>15, <1>16, <1>17, <1>18, <1>19, <1>20, <1>21
  DEF Next, Call, Continue, AsyncFetchOnePage, Destroyed

\* Handing over the row of the cursor is what a result set allows: it is the
\* first row, or the row after the one that was handed over last.
LEMMA HandOverDelivers ==
  ASSUME TypeOK, told = "open", UNCHANGED <<pages, told>>,
         NEW p \in 1..Len(pages), NEW i \in 1..pages[p],
         delivered' = Append(delivered, <<p, i>>),
         \/ /\ delivered = << >> /\ i = 1
            /\ \A q \in 1..(p - 1) : pages[q] = 0
         \/ /\ delivered # << >> /\ delivered[Len(delivered)] = <<p, i - 1>>
         \/ /\ delivered # << >> /\ i = 1 /\ p > 1
            /\ delivered[Len(delivered)] = <<p - 1, pages[p - 1]>>
  PROVE  RS!Deliver
<1>1. p \in Nat /\ i \in Nat /\ pages[p] \in Nat /\ i <= pages[p] /\ 1 <= i
  BY TokensStayValid DEF TypeOK, Rows
<1>2. RS!IsNext(<<p, i>>)
  <2>1. CASE delivered = << >>
    BY <1>1, <2>1 DEF RS!IsNext, RS!IsFirst
  <2>2. CASE delivered # << >> /\ delivered[Len(delivered)] = <<p, i - 1>>
    BY <1>1, <2>2 DEF RS!IsNext, RS!Follows
  <2>3. CASE delivered # << >> /\ i = 1 /\ p > 1
             /\ delivered[Len(delivered)] = <<p - 1, pages[p - 1]>>
    BY <1>1, <2>3 DEF RS!IsNext, RS!Follows
  <2> QED
    BY <2>1, <2>2, <2>3
<1> QED
  BY <1>2 DEF RS!Deliver

\* Every step of DataQuery is a step of ResultSet, or none.
LEMMA StreamRefined ==
  ASSUME FirstExecution, FirstExecution',
         TypeOK, ThreadInv, CursorInv, StreamInv, [Next]_vars
  PROVE  [RS!Next]_(RS!streamVars)
<1>1. /\ Len(pages) \in Nat \ {0}
      /\ \A page \in 1..Len(pages) : pages[page] \in Nat
      /\ cursor_ # NoCursor => cursor_.page \in 1..Len(pages) /\ cursor_.curPos \in Nat
  BY TokensStayValid DEF TypeOK, Rows, NoPage, CursorInv
<1> USE DEF service, request, position, context, prefetch, control, history
<1>2. CASE Execute
  BY <1>2 DEF Execute, RS!Next, RS!Open
<1>3. CASE FetchNoCursor
  BY <1>3 DEF FetchNoCursor, SayNoData, StreamInv, Reading, RS!streamVars
<1>4. CASE FetchNextRow
  <2>1. Reading /\ told = "open" /\ pc = "idle"
    BY <1>4, <1>1 DEF FetchNextRow, StreamInv, NothingToRead, Incremented, HasData, Rows
  <2>2. /\ cursor_'.page = cursor_.page /\ cursor_'.curPos = cursor_.curPos + 1
        /\ cursor_'.iterator = cursor_.curPos
        /\ cursor_'.curPos <= pages[cursor_.page]
    BY <1>4, <1>1, <2>1 DEF FetchNextRow, CursorInv, Incremented, HasData, Rows, TypeOK
  <2>3. delivered' = Append(delivered, <<cursor_.page, cursor_.curPos + 1>>)
        /\ UNCHANGED <<pages, told>>
    BY <1>4, <2>2 DEF FetchNextRow, HandOver, CurrentRow
  <2>4. HandedOver(cursor_.page, cursor_.curPos)
    BY <2>1 DEF Reading
  <2>5. RS!Deliver
    <3>1. cursor_.page \in 1..Len(pages) /\ cursor_.curPos + 1 \in 1..pages[cursor_.page]
      BY <1>1, <2>1, <2>2 DEF Reading
    <3>2. \/ /\ delivered = << >> /\ cursor_.curPos + 1 = 1
             /\ \A q \in 1..(cursor_.page - 1) : pages[q] = 0
          \/ /\ delivered # << >>
             /\ delivered[Len(delivered)] = <<cursor_.page, (cursor_.curPos + 1) - 1>>
      BY <1>1, <2>1, <2>4 DEF HandedOver, Rows, Reading
    <3> QED
      BY <2>1, <2>3, <3>1, <3>2, HandOverDelivers
  <2> QED
    BY <2>5 DEF RS!Next
<1>5. CASE FetchPastPage
  <2>1. CASE told # "open" \/ hasAsyncFetch
    BY <1>5, <2>1 DEF FetchPastPage, SayNoData, RS!streamVars
  <2>2. CASE told = "open" /\ ~hasAsyncFetch
    <3>1. Reading
      BY <1>5, <2>2 DEF FetchPastPage, StreamInv
    <3>2. cursor_.curPos = pages[cursor_.page] /\ cursor_.page = Len(pages)
          /\ pages[cursor_.page] > 0
      BY <1>5, <2>2, <3>1, <1>1 DEF FetchPastPage, Reading, Incremented, HasData, Rows,
           CursorInv
    <3>3. delivered # << >> /\ delivered[Len(delivered)] = <<cursor_.page, pages[cursor_.page]>>
      BY <1>5, <3>1, <3>2, <1>1 DEF FetchPastPage, Reading, HandedOver
    <3>4. RS!Complete
      BY <1>1, <3>2, <3>3 DEF RS!Complete, RS!IsLast
    <3> QED
      BY <1>5, <2>2, <3>4 DEF FetchPastPage, SayNoData, RS!Next, RS!End
  <2> QED
    BY <2>1, <2>2
<1>6. CASE CancelRefused \/ GetMetaRequest \/ GetColumn \/ Destroy \/ CloseJoin \/ CloseEnd
           \/ ExecuteFirstPage \/ SwitchWait \/ SwitchMorePages \/ SpuriousWakeup
  BY <1>6 DEF CancelRefused, GetMetaRequest, GetColumn, Destroy, CloseJoin, CloseEnd,
       ExecuteFirstPage, SwitchWait, SwitchMorePages, SpuriousWakeup, RS!streamVars
<1>7. CASE Cancel \/ Close
  BY <1>7 DEF Cancel, Close, RS!streamVars, RS!Next, RS!Stop
<1>8. CASE GetMetaFails \/ ExecuteFails \/ SwitchFailed
  BY <1>8 DEF GetMetaFails, ExecuteFails, SwitchFailed, RS!Next, RS!Stop
<1>9. CASE ExecuteEmptyPage
  <2>1. told = "open" /\ NoRowYet
    BY <1>9 DEF ExecuteEmptyPage, StreamInv, NothingToRead
  <2>2. CASE told' = "end" /\ delivered' = delivered /\ pages' = pages /\ told # told'
    <3>1. PICK page \in Outcomes(token) \ {Failure} : pages[page] = 0 /\ NextToken(page) = NoToken
      BY <1>9, <2>1, <2>2 DEF ExecuteEmptyPage, Rows
    <3>2. page = Len(pages) /\ \A q \in 1..(page - 1) : pages[q] = 0
      BY <1>1, <2>1, <3>1, TokensStayValid DEF TypeOK, NextToken, NoToken, Outcomes,
           Failure, NoRowYet, Rows
    <3>3. RS!Complete
      BY <1>1, <2>1, <3>1, <3>2 DEF RS!Complete, NoRowYet
    <3> QED
      BY <2>1, <2>2, <3>3 DEF RS!Next, RS!End
  <2>3. CASE UNCHANGED RS!streamVars
    BY <2>3
  <2> QED
    BY <1>9, <2>1, <2>2, <2>3 DEF ExecuteEmptyPage, RS!streamVars
<1>10. CASE SwitchEmptyPage
  <2>1. Reading /\ told = "open"
    BY <1>10 DEF SwitchEmptyPage, StreamInv, NothingToRead
  <2>2. Head(queue_) = cursor_.page + 1 /\ cursor_.page < Len(pages) /\ pages[Head(queue_)] = 0
    BY <1>10, <2>1 DEF SwitchEmptyPage, Reading, Rows
  <2>3. pages[cursor_.page] > 0
    BY <2>1 DEF Reading, CursorInv, Rows
  <2> QED
    BY <1>1, <2>1, <2>2, <2>3 DEF FirstExecution, RowsInPages, TypeOK, Reading
<1>11. CASE SwitchLastPage
  <2>1. Reading /\ told = "open"
    BY <1>11 DEF SwitchLastPage, StreamInv, NothingToRead
  <2> DEFINE page == Head(queue_)
  <2>2. page = cursor_.page + 1 /\ pages[page] > 0 /\ cursor_.page \in 1..(Len(pages) - 1)
    <3>1. queue_ # << >> /\ page # Failure /\ pages[page] > 0
      BY <1>11 DEF SwitchLastPage, Rows
    <3>2. token = cursor_.page + 1 /\ page \in {Failure, token} /\ cursor_.page < Len(pages)
      BY <1>11, <2>1, <3>1 DEF Reading, SwitchLastPage
    <3> QED
      BY <2>1, <1>1, <3>1, <3>2 DEF Reading
  <2>3. pages[cursor_.page] > 0
    BY <2>1 DEF CursorInv, Reading, Rows
  <2>4. delivered # << >> /\ delivered[Len(delivered)] = <<cursor_.page, pages[cursor_.page]>>
    BY <1>11, <2>1, <2>2, <2>3 DEF SwitchLastPage, Reading, HandedOver, Rows
  <2>5. delivered' = Append(delivered, <<page, 1>>) /\ UNCHANGED <<pages, told>>
    BY <1>11 DEF SwitchLastPage, HandOver, CurrentRow, Incremented, NewCursor
  <2>6. RS!Deliver
    <3>1. page \in 1..Len(pages) /\ 1 \in 1..pages[page] /\ page - 1 = cursor_.page /\ page > 1
      BY <1>1, <2>2
    <3> QED
      BY <2>1, <2>4, <2>5, <3>1, HandOverDelivers
  <2> QED
    BY <2>6 DEF RS!Next
<1>12. CASE SwitchJoin
  <2>1. Reading /\ told = "open"
    BY <1>12 DEF SwitchJoin, StreamInv, NothingToRead
  <2>2. /\ cursor_.page > 1 /\ pages[cursor_.page - 1] > 0
        /\ pages[cursor_.page] > 0 /\ cursor_.iterator = 0
        /\ HandedOver(cursor_.page - 1, pages[cursor_.page - 1])
    BY <1>12, <1>1, <2>1 DEF SwitchJoin, Reading, CursorInv, Rows
  <2>3. delivered # << >>
        /\ delivered[Len(delivered)] = <<cursor_.page - 1, pages[cursor_.page - 1]>>
    BY <1>1, <2>1, <2>2 DEF HandedOver, Reading
  <2>4. delivered' = Append(delivered, <<cursor_.page, 1>>) /\ UNCHANGED <<pages, told>>
    BY <1>12, <2>2 DEF SwitchJoin, HandOver, CurrentRow
  <2>5. RS!Deliver
    <3>1. cursor_.page \in 1..Len(pages) /\ 1 \in 1..pages[cursor_.page]
      BY <1>1, <2>1, <2>2 DEF Reading
    <3> QED
      BY <2>1, <2>2, <2>3, <2>4, <3>1, HandOverDelivers
  <2> QED
    BY <2>5 DEF RS!Next
<1>13. CASE \E t \in Threads : AsyncFetchOnePage(t)
  BY <1>13 DEF AsyncFetchOnePage, AsyncQuery, AsyncPush, RS!streamVars
<1>14. CASE UNCHANGED vars
  BY <1>14 DEF vars, RS!streamVars
<1> QED
  BY <1>2, <1>3, <1>4, <1>5, <1>6, <1>7, <1>8, <1>9, <1>10, <1>11, <1>12, <1>13, <1>14
       DEF Next, Call, Continue, Destroyed

\* The invariant of the rows holds initially.
LEMMA StreamInit == Init => StreamInv
BY DEF Init, StreamInv, Untouched, NothingToRead

\* A first execution was one all along: the service keeps its pages and Execute
\* only counts up.
LEMMA FirstExecutionBefore ==
  ASSUME TypeOK, [Next]_vars, FirstExecution'
  PROVE  FirstExecution
<1> USE DEF service, request, position, context, prefetch, control, history
<1>1. executes \in Nat
  BY DEF TypeOK
<1>2. CASE Call
  <2>1. pages' = pages /\ executes' \in {executes, executes + 1}
    BY <1>2 DEF Call, Execute, FetchNoCursor, FetchNextRow, FetchPastPage, CancelRefused,
         Cancel, Close, GetMetaRequest, GetMetaFails, GetColumn, Destroy
  <2> QED
    BY <1>1, <2>1 DEF FirstExecution
<1>3. CASE Continue
  BY <1>3 DEF Continue, CloseJoin, CloseEnd, ExecuteFails, ExecuteEmptyPage,
       ExecuteFirstPage, SwitchWait, SwitchFailed, SwitchEmptyPage, SwitchLastPage,
       SwitchMorePages, SwitchJoin, FirstExecution
<1>4. CASE \E t \in Threads : AsyncFetchOnePage(t)
  BY <1>4 DEF AsyncFetchOnePage, AsyncQuery, AsyncPush, FirstExecution
<1>5. CASE SpuriousWakeup \/ UNCHANGED vars
  BY <1>5 DEF SpuriousWakeup, vars, FirstExecution
<1> QED
  BY <1>2, <1>3, <1>4, <1>5 DEF Next, Destroyed

\* DataQuery gives the application a result set: with all its threads, pages
\* and failures the first execution hands over the rows in order, none twice and
\* none left out, and says AI_NO_DATA only after the last one.
THEOREM DataQueryIsResultSet == Spec => ImplementsResultSet
<1> DEFINE Inv == TypeOK /\ ThreadInv /\ CursorInv /\ (FirstExecution => StreamInv)
<1>1. Init => Inv
  BY InvInit, StreamInit
<1>2. Inv /\ [Next]_vars => Inv'
  BY TypeStep, ThreadStep, CursorStep, StreamStep, FirstExecutionBefore
<1>3. Init => RS!Init
  BY DEF Init, RS!Init
<1>4. Inv /\ [Next]_vars => [FirstExecution' => RS!Next]_(RS!streamVars)
  BY StreamRefined, FirstExecutionBefore
<1> QED
  <2> HIDE DEF Inv
  <2> QED
    BY <1>1, <1>2, <1>3, <1>4, PTL DEF Spec, ImplementsResultSet
=============================================================================
