----------------------------- MODULE CellReader -----------------------------
(***************************************************************************)
(* Reading character cells: SQLGetData, which returns a cell in parts, and *)
(* a bound column, which every fetch fills.                                *)
(*                                                                         *)
(* Both end in ApplicationDataBuffer::PutStrToStrBuffer, which continues a *)
(* cell at the buffer's cellOffset.  For SQLGetData the statement keeps    *)
(* that offset between calls on the same column; the buffer of a bound     *)
(* column keeps its own.                                                   *)
(***************************************************************************)
EXTENDS Integers, Sequences

CONSTANTS Cells,          \* the rows of the result, each a sequence of cells
          WcharSize,      \* sizeof(SQLWCHAR)
          BufferLengths,  \* bufferLength arguments of SQLGetData, in bytes
          BoundLengths    \* bufferLength arguments of SQLBindCol, in bytes

(* A cell is the UTF-8 text of its characters, given by the character that *)
(* each byte belongs to: <<1, 2, 2, 3>> has three characters, the second   *)
(* of two bytes.                                                           *)
Chars(cell) == IF cell = << >> THEN 0 ELSE cell[Len(cell)]

IsCell(cell) ==
  /\ cell \in Seq(Nat)
  /\ \A i \in 1..Len(cell) :
       cell[i] = (IF i = 1 THEN 1 ELSE cell[i - 1])
         \/ (i > 1 /\ cell[i] = cell[i - 1] + 1)

ASSUME CellReaderAssumption ==
  /\ Cells \in Seq(Seq(Seq(Nat)))
  /\ Cells # << >>
  /\ \A r \in 1..Len(Cells) :
       /\ Len(Cells[r]) = Len(Cells[1])
       /\ \A c \in 1..Len(Cells[r]) : IsCell(Cells[r][c])
  /\ Len(Cells[1]) > 0
  /\ WcharSize \in {2, 4}
  /\ BufferLengths \subseteq Nat
  /\ BoundLengths \subseteq Nat

Columns == 1..Len(Cells[1])

(* What an application may rely on when it reads cells in parts.           *)

\* The text is not empty and every character of it is one byte.
PlainText ==
  \A r \in 1..Len(Cells), c \in Columns :
    /\ Cells[r][c] # << >>
    /\ \A i \in 1..Len(Cells[r][c]) : Cells[r][c][i] = i

BoundColumn == 1   \* the column that the application may bind

VARIABLES
  row,            \* rows fetched so far; one more than there are at the end
  fetchedBy,      \* the function the application fetches this result with
  currentColNum,  \* Statement::currentColNum
  cellOffset,     \* Statement::cellOffset
  bound,          \* the binding: its buffer in the driver and its memory
  ret,            \* result of the last SQLGetData
  resLen,         \* *strLengthOrIndicator of SQLGetData
  received        \* history: the parts read of the current column and row

vars == <<row, fetchedBy, currentColNum, cellOffset, bound, ret, resLen, received>>

\* cutAt is history: the first row that did not fit the buffer, 0 if all did
Bound(size, buflen) ==
  [size |-> size, buflen |-> buflen, offset |-> -1, text |-> << >>, cutAt |-> 0]
Unbound == Bound(0, 0)

-----------------------------------------------------------------------------
(* Copying text out of the driver.                                         *)

Replacement == <<0, 0, 0>>

\* The characters from..to of the cell at <<r, c>>, in the target's encoding:
\* a narrow buffer has a replacement ("?") for what is not ASCII.
Copied(r, c, from, to, size) ==
  [i \in 1..(to - from + 1) |->
     LET k == from + i - 1
         bytes == {j \in 1..Len(Cells[r][c]) : Cells[r][c][j] = k}
     IN IF size = 1 /\ \E j1, j2 \in bytes : j1 # j2
        THEN Replacement ELSE <<r, c, k>>]

\* Of n characters as many as there is room for.
Fit(n, room) == IF n <= room THEN n ELSE room

\* CopyUtf8StringToSqlCharString (size 1) and CopyUtf8StringToWcharString: n
\* characters are left, room for buflen bytes.  "kept" characters reach the
\* buffer, "written" is what the function reports.
CopyUtf8String(n, size, buflen) ==
  LET room == (buflen \div size) - 1
      fit == Fit(n, room)
  IN IF size = 1
     THEN IF buflen = 0
          THEN [kept |-> 0, written |-> 0, truncated |-> n > 0]
          ELSE [kept |-> fit, written |-> fit, truncated |-> fit < n]
     ELSE IF buflen = 0
          THEN [kept |-> 0, written |-> 0, truncated |-> FALSE]
     ELSE IF buflen <= size   \* converted into a proxy buffer
          THEN [kept |-> 0, written |-> n * size, truncated |-> FALSE]
          ELSE [kept |-> fit, written |-> fit * size, truncated |-> fit < n]

\* The text starts within a character: the narrow copy throws, the wide one
\* converts nothing and says that the text was truncated.
CopyInvalid(buflen) ==
  [kept |-> 0, written |-> 0, truncated |-> buflen > 0]

\* Mutant: nothing remains after the last part.
BytesLeftOnly(cell, total, size) == Chars(cell) * size - total

AtCharacter(cell, cur) == cur = 0 \/ cell[cur] # cell[cur + 1]
AllRead(cell, cur, size) == cur * size >= Chars(cell) * size
BytesLeft(cell, total, size) ==
  IF total # Chars(cell) * size THEN Chars(cell) * size - total ELSE Chars(cell) * size

\* Mutant: a buffer that is not on a continuation gets an offset too.
NextOffsetAlways(offset, cur, total, copy, size, buflen) ==
  IF copy.truncated THEN cur + (buflen \div size) - 1 ELSE total

\* cellOffset after a copy; it is counted in characters, in bytes at the end.
NextOffset(offset, cur, total, copy, size, buflen) ==
  IF copy.truncated THEN cur + (buflen \div size) - 1
  ELSE IF offset >= 0 THEN total ELSE offset

\* The read of the cell at <<r, c>> into a buffer of buflen bytes whose
\* cellOffset is offset.  "len" is what *resLenPtr becomes; "nothing" is set
\* when neither the buffer nor *resLenPtr is touched.
PutStrToStrBuffer(r, c, offset, size, buflen) ==
  LET cell  == Cells[r][c]
      cur   == IF offset >= 0 THEN offset ELSE 0
      valid == AtCharacter(cell, cur)
      first == cell[cur + 1]
      copy  == IF valid THEN CopyUtf8String(Chars(cell) - first + 1, size, buflen)
               ELSE CopyInvalid(buflen)
      total == cur * size + copy.written
  IN IF AllRead(cell, cur, size)
     THEN [res |-> "NO_DATA", nothing |-> TRUE, offset |-> offset, text |-> << >>, len |-> 0]
     ELSE IF size = 1 /\ ~valid
     THEN [res |-> "THROWN", nothing |-> TRUE, offset |-> offset, text |-> << >>, len |-> 0]
     ELSE [res     |-> IF copy.truncated THEN "TRUNCATED" ELSE "SUCCESS",
           nothing |-> FALSE,
           offset  |-> NextOffset(offset, cur, total, copy, size, buflen),
           text    |-> Copied(r, c, first, first + copy.kept - 1, size),
           len     |-> BytesLeft(cell, total, size)]

-----------------------------------------------------------------------------
Init ==
  /\ row = 0
  /\ fetchedBy = "none"
  /\ currentColNum = 0
  /\ cellOffset = 0
  /\ bound = Unbound
  /\ ret = "none"
  /\ resLen = 0
  /\ received = << >>

\* A wide buffer is a whole number of characters.
Buffers(lengths) ==
  {b \in {1, WcharSize} \X lengths : b[2] % b[1] = 0}

\* Every buffer has room for a character and the terminator.
RoomForPart ==
  \A b \in Buffers(BufferLengths) \cup Buffers(BoundLengths) : b[2] \div b[1] >= 2

\* Statement::SafeBindColumn: a new buffer, not on a continuation.
SQLBindCol ==
  /\ \E b \in Buffers(BoundLengths) : bound' = Bound(b[1], b[2])
  /\ UNCHANGED <<row, fetchedBy, currentColNum, cellOffset, ret, resLen, received>>

\* Statement::SafeUnbindColumn.
SQLUnbindCol ==
  /\ bound # Unbound
  /\ bound' = Unbound
  /\ UNCHANGED <<row, fetchedBy, currentColNum, cellOffset, ret, resLen, received>>

\* The bound buffer after DataQuery::FetchNextRow moved to row r.  Nothing
\* resets the offset that the last row left in it.
Filled(r) ==
  IF bound = Unbound \/ r > Len(Cells) THEN bound
  ELSE LET p == PutStrToStrBuffer(r, BoundColumn, bound.offset, bound.size, bound.buflen)
       IN IF p.nothing THEN bound
          ELSE [bound EXCEPT !.offset = p.offset, !.text = p.text,
                  !.cutAt = IF @ = 0 /\ p.res = "TRUNCATED" THEN r ELSE @]

\* The current row changes; a rowset of one row.  The driver manager does not
\* let an application mix the two functions on one result.
NextRow(function) ==
  /\ row <= Len(Cells)
  /\ fetchedBy \in {"none", function}
  /\ fetchedBy' = function
  /\ row' = row + 1
  /\ bound' = Filled(row + 1)
  /\ received' = << >>
  /\ UNCHANGED <<currentColNum, ret, resLen>>

\* Mutant: the offset within the last row's cell is kept.
FetchRowKeepsOffset == NextRow("SQLFetch") /\ UNCHANGED cellOffset

\* SQLFetch and SQLFetchScroll: InternalFetchRow.
FetchRow == NextRow("SQLFetch") /\ cellOffset' = 0

\* SQLExtendedFetch: InternalExtendedFetch leaves cellOffset alone.
ExtendedFetch == NextRow("SQLExtendedFetch") /\ UNCHANGED cellOffset

\* Mutant: the offset is kept when the application moves to another column.
StartOffsetKept(col) == cellOffset

\* Where SQLGetData starts in column col.
StartOffset(col) == IF col # currentColNum THEN 0 ELSE cellOffset

\* SQLGetData on the current row; the driver manager refuses it before the
\* first fetch.
SQLGetData(col, size, buflen) ==
  LET p == PutStrToStrBuffer(row, col, StartOffset(col), size, buflen)
  IN /\ row \in 1..Len(Cells)
     /\ currentColNum' = col
     /\ cellOffset' = p.offset
     /\ ret' = p.res
     /\ resLen' = IF p.nothing THEN resLen ELSE p.len
     /\ received' = (IF col # currentColNum THEN << >> ELSE received) \o p.text
     /\ UNCHANGED <<row, fetchedBy, bound>>

\* GetColumn refuses: the cursor is past the last row.
SQLGetDataPastEnd(col) ==
  /\ row > Len(Cells)
  /\ currentColNum' = col
  /\ cellOffset' = StartOffset(col)
  /\ ret' = "ERROR"
  /\ received' = << >>
  /\ UNCHANGED <<row, fetchedBy, bound, resLen>>

Next ==
  \/ SQLBindCol \/ SQLUnbindCol \/ FetchRow \/ ExtendedFetch
  \/ \E col \in Columns, b \in Buffers(BufferLengths) : SQLGetData(col, b[1], b[2])
  \/ \E col \in Columns : SQLGetDataPastEnd(col)

Spec == Init /\ [][Next]_vars

-----------------------------------------------------------------------------
(* Properties.                                                             *)

\* An offset of -1 ("not on a continuation") only comes from a call that gives
\* no room at all.
TypeOK ==
  /\ row \in 0..(Len(Cells) + 1)
  /\ fetchedBy \in {"none", "SQLFetch", "SQLExtendedFetch"}
  /\ currentColNum \in {0} \cup Columns
  /\ cellOffset \in Nat \cup (IF 0 \in BufferLengths THEN {-1} ELSE {})
  /\ bound.size \in {0, 1, WcharSize}
  /\ bound.buflen \in {0} \cup BoundLengths
  /\ bound.offset \in Int
  /\ ret \in {"none", "SUCCESS", "TRUNCATED", "NO_DATA", "ERROR", "THROWN"}
  /\ resLen \in Int

Whole(r, c) == [k \in 1..Chars(Cells[r][c]) |-> <<r, c, k>>]

IsPrefixOf(s, t) ==
  Len(s) <= Len(t) /\ \A i \in 1..Len(s) : s[i] \in {t[i], Replacement}

\* The offset is valid for the current row: cells of a row that was fetched
\* with SQLExtendedFetch are not read from their beginning.
Reset == fetchedBy = "SQLFetch"

\* The parts that SQLGetData returns for a column make up the cell of the
\* current row: in order, nothing twice, nothing left out, whatever the sizes
\* and types of the buffers and whichever columns and rows were read before.
PartsInOrder ==
  /\ TypeOK
  /\ Reset /\ received # << >> => IsPrefixOf(received, Whole(row, currentColNum))

\* SQL_SUCCESS and SQL_NO_DATA say that the whole cell was returned, and
\* SQL_SUCCESS_WITH_INFO that it was not.
\* A call after the last part returns SQL_NO_DATA and leaves the length alone:
\* an application that reads until SQL_NO_DATA comes to an end.
EndMeansComplete ==
  [][\A col \in Columns, b \in Buffers(BufferLengths) :
       SQLGetData(col, b[1], b[2]) =>
         /\ Reset => (ret' = "TRUNCATED" <=> received' # Whole(row, col))
         /\ col = currentColNum /\ received # << >> /\ received = Whole(row, col)
              => ret' = "NO_DATA" /\ resLen' = resLen]_vars

\* "resLenPtr receives the total number of bytes in the cell", and for a part
\* "the remaining required data", in the size of the target's characters.
LengthIsWhatRemains ==
  [][\A col \in Columns, b \in Buffers(BufferLengths) :
       Reset /\ SQLGetData(col, b[1], b[2]) /\ ret' # "NO_DATA" =>
         resLen' = b[1] * (IF ret' = "SUCCESS" THEN Chars(Cells[row][col])
                           ELSE Chars(Cells[row][col]) - Len(received'))]_vars

\* Where the offset leaves the reading of the current cell: what was received
\* ends at the offset, and after SQLFetch it starts at the cell's beginning.
\* The offset is in characters within the cell, anything from its length up at
\* its end.
ReadUpTo(cell) == IF cellOffset < Len(cell) THEN cellOffset ELSE Len(cell)

PartsInv ==
  /\ cellOffset \in Nat
  /\ received \in Seq(Nat \X Nat \X Nat)
  /\ row \notin 1..Len(Cells) \/ currentColNum = 0 => received = << >>
  /\ fetchedBy = "none" => row = 0
  /\ currentColNum = 0 => cellOffset = 0
  /\ received # << >> =>
       received[Len(received)] =
         <<row, currentColNum, ReadUpTo(Cells[row][currentColNum])>>
  /\ Reset /\ row \in 1..Len(Cells) /\ currentColNum # 0 =>
       received = [i \in 1..ReadUpTo(Cells[row][currentColNum]) |-> <<row, currentColNum, i>>]

\* The row that a bound buffer is to show; past the end it is the last one.
ShownRow == IF row > Len(Cells) THEN Len(Cells) ELSE row

\* "We're fetching a new row, ensure cellOffset is reset": a bound buffer that
\* a fetch has filled shows the row that was fetched, the beginning of its cell
\* and as much of it as fits (FetchNextRow, ReadColumnToBuffer).
BoundShowsRow ==
  bound.text # << >> =>
    /\ ShownRow > 0
    /\ IsPrefixOf(bound.text, Whole(ShownRow, BoundColumn))
    /\ Len(bound.text) = Fit(Chars(Cells[ShownRow][BoundColumn]),
                            (bound.buflen \div bound.size) - 1)

\* A bound buffer shows the row that was fetched, cut off where the buffer ends,
\* up to and with the first row that does not fit, whatever is read with
\* SQLGetData in between: a row that fits leaves no offset behind in the buffer
\* (PutStrToStrBuffer sets one after a truncation only).
BoundShowsRowUntilCut == bound.cutAt \in {0, ShownRow} => BoundShowsRow

\* Why: a buffer in which every row did fit is not on a continuation.
BoundInv ==
  /\ bound \in [size : {0, 1, WcharSize}, buflen : {0} \cup BoundLengths,
               offset : {-1} \cup Nat, text : Seq(Nat \X Nat \X Nat), cutAt : Nat]
  /\ bound = Unbound \/ <<bound.size, bound.buflen>> \in Buffers(BoundLengths)
  /\ bound.cutAt <= ShownRow
  /\ bound.cutAt = 0 => bound.offset = -1
  /\ BoundShowsRowUntilCut
=============================================================================
