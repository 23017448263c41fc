-------------------------- MODULE CellReaderProofs --------------------------
(***************************************************************************)
(* Proofs about CellReader, for every result, every size of a wide         *)
(* character and every set of buffers: text of one-byte characters that is *)
(* not empty, and buffers with room for a character.                       *)
(***************************************************************************)
EXTENDS CellReader, TLAPS

Hypotheses == PlainText /\ RoomForPart

\* What the assumption and PlainText say about one cell.
LEMMA CellFacts ==
  ASSUME PlainText, NEW r \in 1..Len(Cells), NEW c \in Columns
  PROVE  /\ Len(Cells) \in Nat
         /\ Cells[r][c] \in Seq(Nat)
         /\ Len(Cells[r][c]) \in Nat \ {0}
         /\ \A i \in 1..Len(Cells[r][c]) : Cells[r][c][i] = i
         /\ Chars(Cells[r][c]) = Len(Cells[r][c])
         /\ Len(Cells[1]) \in Nat \ {0}
         /\ BoundColumn \in Columns
<1>1. /\ Cells \in Seq(Seq(Seq(Nat))) /\ Len(Cells[r]) = Len(Cells[1]) /\ Len(Cells[1]) > 0
      /\ Cells # << >>
  BY CellReaderAssumption
<1>2. 1 \in 1..Len(Cells) /\ Cells[1] \in Seq(Seq(Nat)) /\ Cells[r] \in Seq(Seq(Nat))
  BY <1>1
<1>3. c \in 1..Len(Cells[r]) /\ Cells[r][c] \in Seq(Nat)
  BY <1>1, <1>2 DEF Columns
<1>4. Cells[r][c] # << >> /\ \A i \in 1..Len(Cells[r][c]) : Cells[r][c][i] = i
  BY DEF PlainText
<1>5. Len(Cells[r][c]) \in Nat \ {0}
  BY <1>3, <1>4
<1>6. Chars(Cells[r][c]) = Len(Cells[r][c])
  BY <1>4, <1>5 DEF Chars
<1>7. Len(Cells[1]) \in Nat \ {0} /\ BoundColumn \in Columns
  BY <1>1, <1>2 DEF Columns, BoundColumn
<1> QED
  BY <1>1, <1>3, <1>4, <1>5, <1>6, <1>7

\* What fits is at least one character, and fills the room if not everything
\* fits.
LEMMA FitBounds ==
  ASSUME NEW n \in Nat \ {0}, NEW room \in Nat \ {0}
  PROVE  /\ Fit(n, room) \in 1..n
         /\ Fit(n, room) < n => Fit(n, room) = room
  BY DEF Fit

\* Copying plain text of n characters from the one after cur: "fit" of them are
\* kept, and reported in bytes.
Fits(fit, n, cur, size, buflen) ==
  LET copy == CopyUtf8String(n - cur, size, buflen)
  IN /\ copy.kept = fit
     /\ copy.written = fit * size
     /\ copy.truncated <=> fit < n - cur
     /\ fit < n - cur => fit = (buflen \div size) - 1

\* What CopyDataToBuffer returns has the fields that the reader looks at.
LEMMA CopyFields ==
  ASSUME NEW k, NEW w, NEW t, NEW copy, copy = [kept |-> k, written |-> w, truncated |-> t]
  PROVE  copy.kept = k /\ copy.written = w /\ copy.truncated = t
  OBVIOUS

\* CopyUtf8StringToSqlCharString and CopyUtf8StringToWcharString copy what fits.
LEMMA CopyFits ==
  ASSUME NEW size \in {1, 2, 4}, NEW buflen \in Nat, NEW n \in Nat, NEW cur \in Nat, cur <= n,
         buflen \div size >= 2
  PROVE  Fits(Fit(n - cur, (buflen \div size) - 1), n, cur, size, buflen)
<1> DEFINE room == (buflen \div size) - 1
           left == n - cur
           fit == Fit(left, room)
           copy == CopyUtf8String(left, size, buflen)
<1> left \in Nat
  OBVIOUS
<1> HIDE DEF left
<1>1. copy = [kept |-> fit, written |-> fit * size, truncated |-> fit < left]
  <2>1. CASE size = 1
    BY <2>1 DEF CopyUtf8String, Fit
  <2>2. CASE size = 2
    BY <2>2 DEF CopyUtf8String, Fit
  <2>3. CASE size = 4
    BY <2>3 DEF CopyUtf8String, Fit
  <2> QED
    BY <2>1, <2>2, <2>3
<1>2. fit < left => fit = room
  <2>1. room \in Int
    OBVIOUS
  <2> HIDE DEF room
  <2> QED
    BY <2>1 DEF Fit
<1> HIDE DEF copy, fit
<1>3. copy.kept = fit /\ copy.written = fit * size /\ copy.truncated = (fit < left)
  BY <1>1, CopyFields, Zenon
<1> QED
  BY <1>2, <1>3, Zenon DEF Fits, copy, fit, left

\* The text is "fit" characters of the cell, those after cur.
TextFrom(text, r, c, cur, fit) ==
  /\ text \in Seq(Nat \X Nat \X Nat)
  /\ Len(text) = fit
  /\ \A i \in 1..fit : text[i] = <<r, c, cur + i>>

\* No character of plain text is replaced.
LEMMA CopiedPlain ==
  ASSUME PlainText, NEW r \in 1..Len(Cells), NEW c \in Columns, NEW size,
         NEW cur \in Nat, NEW fit \in Nat
  PROVE  TextFrom(Copied(r, c, cur + 1, cur + 1 + fit - 1, size), r, c, cur, fit)
<1> DEFINE bytes(k) == {j \in 1..Len(Cells[r][c]) : Cells[r][c][j] = k}
           text == Copied(r, c, cur + 1, cur + 1 + fit - 1, size)
<1>1. ASSUME NEW k PROVE ~ \E j1, j2 \in bytes(k) : j1 # j2
  BY CellFacts
<1> HIDE DEF bytes
<1>2. (cur + 1 + fit - 1) - (cur + 1) + 1 = fit
  OBVIOUS
<1>3. text = [i \in 1..fit |-> LET k == cur + 1 + i - 1 IN
                IF size = 1 /\ \E j1, j2 \in bytes(k) : j1 # j2
                THEN Replacement ELSE <<r, c, k>>]
  BY <1>2, Zenon DEF Copied, bytes
<1>4. \A i \in 1..fit : cur + 1 + i - 1 = cur + i
  OBVIOUS
<1> HIDE DEF text
<1>5. text = [i \in 1..fit |-> <<r, c, cur + i>>]
  BY <1>1, <1>3, <1>4
<1>6. \A i \in 1..fit : <<r, c, cur + i>> \in Nat \X Nat \X Nat
  BY DEF Columns
<1>7. /\ DOMAIN text = 1..fit /\ text = [i \in 1..fit |-> text[i]]
      /\ \A i \in 1..fit : text[i] = <<r, c, cur + i>>
  BY <1>5
<1>8. text \in [1..fit -> Nat \X Nat \X Nat]
  BY <1>5, <1>6
<1>9. text \in Seq(Nat \X Nat \X Nat) /\ Len(text) = fit
  BY <1>7, <1>8
<1> QED
  BY <1>7, <1>9, Zenon DEF text, TextFrom

\* A call at or after the cell's end returns nothing.
LEMMA ReadAtEnd ==
  ASSUME PlainText, NEW r \in 1..Len(Cells), NEW c \in Columns,
         NEW offset \in Nat, NEW size \in {1, WcharSize}, NEW buflen \in Nat,
         offset >= Len(Cells[r][c])
  PROVE  PutStrToStrBuffer(r, c, offset, size, buflen) =
           [res |-> "NO_DATA", nothing |-> TRUE, offset |-> offset,
            text |-> << >>, len |-> 0]
<1>1. size \in {1, 2, 4}
  BY CellReaderAssumption
<1>2. AllRead(Cells[r][c], offset, size)
  BY CellFacts, <1>1 DEF AllRead
<1>3. (IF offset >= 0 THEN offset ELSE 0) = offset
  OBVIOUS
<1> QED
  BY <1>2, <1>3 DEF PutStrToStrBuffer

HasLength(r, c, n) == n = Len(Cells[r][c])

\* Every position within plain text is the beginning of a character.
LEMMA PlainPosition ==
  ASSUME PlainText, NEW r \in 1..Len(Cells), NEW c \in Columns,
         NEW size \in {1, 2, 4}, NEW n, HasLength(r, c, n), NEW cur \in Nat, cur < n
  PROVE  LET cell == Cells[r][c]
         IN /\ AtCharacter(cell, cur) /\ cell[cur + 1] = cur + 1
            /\ ~AllRead(cell, cur, size)
            /\ Chars(cell) = n
            /\ Chars(cell) - cell[cur + 1] + 1 = n - cur
<1> DEFINE cell == Cells[r][c]
<1>1. (\A i \in 1..n : cell[i] = i) /\ n \in Nat /\ Chars(cell) = n
  BY CellFacts DEF HasLength
<1>2. cell[cur + 1] = cur + 1 /\ (cur # 0 => cell[cur] = cur)
  BY <1>1
<1>3. AtCharacter(cell, cur)
  BY <1>2 DEF AtCharacter
<1>4. ~AllRead(cell, cur, size)
  BY <1>1 DEF AllRead
<1> QED
  BY <1>1, <1>2, <1>3, <1>4

\* What PutStrToStrBuffer does within a cell of n characters.
PartRead(p, r, c, n, offset, cur, fit, size) ==
  /\ p.res = IF cur + fit < n THEN "TRUNCATED" ELSE "SUCCESS"
  /\ p.nothing = FALSE
  /\ TextFrom(p.text, r, c, cur, fit)
  /\ p.offset = IF cur + fit < n THEN cur + fit
                ELSE IF offset >= 0 THEN n * size ELSE offset
  /\ p.len = IF cur + fit < n THEN size * (n - (cur + fit)) ELSE size * n

\* When "fit" characters fit, a call within the cell returns them and moves the
\* offset behind them.  An offset of -1 stands for the beginning and stays when
\* everything fits.
LEMMA ReadWithin ==
  ASSUME PlainText, NEW r \in 1..Len(Cells), NEW c \in Columns,
         NEW offset, NEW size \in {1, 2, 4}, NEW buflen \in Nat,
         NEW n \in Nat \ {0}, HasLength(r, c, n),
         NEW cur \in Nat, cur < n, offset >= 0 => cur = offset, ~(offset >= 0) => cur = 0,
         NEW fit \in 1..(n - cur),
         Fits(fit, n, cur, size, buflen)
  PROVE  PartRead(PutStrToStrBuffer(r, c, offset, size, buflen), r, c, n, offset, cur, fit, size)
<1> DEFINE cell == Cells[r][c]
           copy == CopyUtf8String(n - cur, size, buflen)
           total == cur * size + copy.written
           text == Copied(r, c, cur + 1, cur + 1 + copy.kept - 1, size)
<1>1. AtCharacter(cell, cur) /\ cell[cur + 1] = cur + 1
  BY PlainPosition
<1>2. ~AllRead(cell, cur, size)
  BY PlainPosition
<1>3. Chars(cell) = n
  BY PlainPosition
<1>4. Chars(cell) - cell[cur + 1] + 1 = n - cur
  BY <1>1, <1>3
<1>5. cur = IF offset >= 0 THEN offset ELSE 0
  OBVIOUS
<1>6. PutStrToStrBuffer(r, c, offset, size, buflen) =
        [res     |-> IF copy.truncated THEN "TRUNCATED" ELSE "SUCCESS",
         nothing |-> FALSE,
         offset  |-> NextOffset(offset, cur, total, copy, size, buflen),
         text    |-> text,
         len     |-> BytesLeft(cell, total, size)]
  BY <1>1, <1>2, <1>4, <1>5 DEF PutStrToStrBuffer
<1> HIDE DEF copy
<1>7. /\ copy.kept = fit
      /\ copy.written = fit * size
      /\ copy.truncated <=> fit < n - cur
  BY Zenon DEF Fits, copy
<1>8. (fit < n - cur) <=> (cur + fit < n)
  OBVIOUS
<1>9. TextFrom(text, r, c, cur, fit)
  <2>1. fit \in Nat
    OBVIOUS
  <2> QED
    BY <1>7, <2>1, CopiedPlain, Zenon
<1>10. NextOffset(offset, cur, total, copy, size, buflen)
         = IF cur + fit < n THEN cur + fit
           ELSE IF offset >= 0 THEN n * size ELSE offset
  <2>1. cur + fit < n => cur + (buflen \div size) - 1 = cur + fit
    <3>1. cur + (buflen \div size) - 1 = cur + ((buflen \div size) - 1)
      OBVIOUS
    <3>2. fit < n - cur => fit = (buflen \div size) - 1
      BY Zenon DEF Fits
    <3> QED
      BY <3>1, <3>2, <1>8, Zenon
  <2>2. ~(cur + fit < n) => cur * size + fit * size = n * size
    <3>1. CASE size = 1
      BY <3>1
    <3>2. CASE size = 2
      BY <3>2
    <3>3. CASE size = 4
      BY <3>3
    <3> QED
      BY <3>1, <3>2, <3>3
  <2>3. total = cur * size + fit * size
    BY <1>7, Zenon
  <2> HIDE DEF total
  <2> QED
    BY <2>1, <2>2, <2>3, <1>7, <1>8, Zenon DEF NextOffset
<1>11. BytesLeft(cell, total, size)
         = IF cur + fit < n THEN size * (n - (cur + fit)) ELSE size * n
  <2> DEFINE bytes == cur * size + fit * size
  <2>1. /\ n * size = size * n
        /\ cur + fit < n <=> bytes # n * size
        /\ n * size - bytes = size * (n - (cur + fit))
    <3>1. CASE size = 1
      BY <3>1
    <3>2. CASE size = 2
      BY <3>2
    <3>3. CASE size = 4
      BY <3>3
    <3> QED
      BY <3>1, <3>2, <3>3
  <2>2. total = bytes
    BY <1>7, Zenon
  <2> QED
    BY <1>3, <2>1, <2>2, Zenon DEF BytesLeft
<1>12. (IF copy.truncated THEN "TRUNCATED" ELSE "SUCCESS")
         = IF cur + fit < n THEN "TRUNCATED" ELSE "SUCCESS"
  BY <1>7, <1>8, Zenon
<1> DEFINE p == PutStrToStrBuffer(r, c, offset, size, buflen)
           res == IF copy.truncated THEN "TRUNCATED" ELSE "SUCCESS"
           next == NextOffset(offset, cur, total, copy, size, buflen)
           left == BytesLeft(cell, total, size)
<1> HIDE DEF total, text, cell, p, res, next, left
<1>13. p = [res |-> res, nothing |-> FALSE, offset |-> next, text |-> text, len |-> left]
  BY <1>6, Zenon DEF p, res, next, left
<1>14. p.res = res /\ p.nothing = FALSE /\ p.offset = next /\ p.text = text /\ p.len = left
  BY <1>13
<1> QED
  BY <1>9, <1>10, <1>11, <1>12, <1>14, Zenon DEF PartRead, p, res, next, left

\* A call within the cell returns the next characters, as many as fit.
LEMMA ReadPart ==
  ASSUME PlainText, NEW r \in 1..Len(Cells), NEW c \in Columns,
         NEW offset, NEW size \in {1, 2, 4}, NEW buflen \in Nat,
         buflen \div size >= 2,
         NEW n \in Nat \ {0}, HasLength(r, c, n),
         NEW cur \in Nat, cur < n, offset >= 0 => cur = offset, ~(offset >= 0) => cur = 0
  PROVE  \E fit \in 1..(n - cur) :
           /\ fit = Fit(n - cur, (buflen \div size) - 1)
           /\ PartRead(PutStrToStrBuffer(r, c, offset, size, buflen),
                       r, c, n, offset, cur, fit, size)
<1> DEFINE room == (buflen \div size) - 1
           fit == Fit(n - cur, room)
<1>1. room \in Nat \ {0}
  OBVIOUS
<1>2. n - cur \in Nat \ {0} /\ cur <= n
  OBVIOUS
<1>3. fit \in 1..(n - cur)
  BY <1>1, <1>2, FitBounds, Zenon
<1> HIDE DEF room
<1>4. Fits(fit, n, cur, size, buflen)
  BY <1>2, CopyFits DEF room
<1> HIDE DEF fit
<1>5. PartRead(PutStrToStrBuffer(r, c, offset, size, buflen), r, c, n, offset, cur, fit, size)
  BY <1>3, <1>4, ReadWithin
<1> QED
  BY <1>3, <1>5, Zenon DEF fit, room

-----------------------------------------------------------------------------
(* The steps.                                                              *)

\* What SQLGetData does: nothing once the cell was read, else the next part.
NothingMore(col) ==
  /\ col = currentColNum
  /\ cellOffset >= Len(Cells[row][col])
  /\ UNCHANGED <<cellOffset, resLen, received>>
  /\ ret' = "NO_DATA"

NextPart(col, size, fit, text) ==
  LET n == Len(Cells[row][col])
      from == StartOffset(col)
  IN /\ from + fit <= n
     /\ TextFrom(text, row, col, from, fit)
     /\ received' = (IF col # currentColNum THEN << >> ELSE received) \o text
     /\ cellOffset' = IF from + fit < n THEN from + fit ELSE n * size
     /\ ret' = IF from + fit < n THEN "TRUNCATED" ELSE "SUCCESS"
     /\ resLen' = IF from + fit < n THEN size * (n - (from + fit)) ELSE size * n

IndInv == TypeOK /\ PartsInv /\ BoundInv

\* SQLGetData is one of the two.
LEMMA GetDataStep ==
  ASSUME Hypotheses, IndInv, NEW col \in Columns, NEW b \in Buffers(BufferLengths),
         SQLGetData(col, b[1], b[2])
  PROVE  /\ row \in 1..Len(Cells)
         /\ StartOffset(col) \in Nat
         /\ Len(Cells[row][col]) \in Nat \ {0}
         /\ Chars(Cells[row][col]) = Len(Cells[row][col])
         /\ b[1] \in {1, 2, 4}
         /\ \/ NothingMore(col)
            \/ \E fit \in Nat \ {0}, text \in Seq(Nat \X Nat \X Nat) :
                 NextPart(col, b[1], fit, text)
<1> DEFINE n == Len(Cells[row][col])
           from == StartOffset(col)
           p == PutStrToStrBuffer(row, col, from, b[1], b[2])
<1>1. row \in 1..Len(Cells)
  BY DEF SQLGetData
<1>2. n \in Nat \ {0} /\ Chars(Cells[row][col]) = n
  BY <1>1, CellFacts DEF Hypotheses
<1>3. b[1] \in {1, WcharSize} /\ b[2] \in Nat /\ b[2] \div b[1] >= 2
  <2>1. b \in {1, WcharSize} \X BufferLengths /\ b[2] \div b[1] >= 2
    BY DEF Hypotheses, RoomForPart, Buffers
  <2> QED
    BY <2>1, CellReaderAssumption
<1>4. b[1] \in {1, 2, 4}
  BY <1>3, CellReaderAssumption
<1>5. from \in Nat
  BY DEF IndInv, PartsInv, StartOffset
<1>6. /\ cellOffset' = p.offset
      /\ ret' = p.res
      /\ resLen' = IF p.nothing THEN resLen ELSE p.len
      /\ received' = (IF col # currentColNum THEN << >> ELSE received) \o p.text
  BY Zenon DEF SQLGetData
<1> HIDE DEF n, from, p
<1>7. CASE from >= n
  <2>1. p = [res |-> "NO_DATA", nothing |-> TRUE, offset |-> from, text |-> << >>, len |-> 0]
    BY <1>1, <1>3, <1>5, <1>7, ReadAtEnd DEF Hypotheses, p, n
  <2>2. p.res = "NO_DATA" /\ p.nothing = TRUE /\ p.offset = from /\ p.text = << >>
    BY <2>1
  <2>3. col = currentColNum /\ from = cellOffset
    BY <1>2, <1>7 DEF StartOffset, from
  <2>4. received' = received
    BY <1>6, <2>2, <2>3 DEF IndInv, PartsInv
  <2>5. NothingMore(col)
    BY <1>6, <1>7, <2>2, <2>3, <2>4 DEF NothingMore, n
  <2> QED
    BY <1>1, <1>2, <1>4, <1>5, <2>5 DEF n, from
<1>8. CASE from < n
  <2>1. from >= 0 /\ HasLength(row, col, n)
    BY <1>5 DEF HasLength, n
  <2>2. PICK fit \in 1..(n - from) : PartRead(p, row, col, n, from, from, fit, b[1])
    BY <1>1, <1>2, <1>3, <1>4, <1>5, <1>8, <2>1, ReadPart DEF Hypotheses, p
  <2>3. /\ TextFrom(p.text, row, col, from, fit)
        /\ p.res = IF from + fit < n THEN "TRUNCATED" ELSE "SUCCESS"
        /\ p.nothing = FALSE
        /\ p.offset = IF from + fit < n THEN from + fit ELSE n * b[1]
        /\ p.len = IF from + fit < n THEN b[1] * (n - (from + fit)) ELSE b[1] * n
    BY <2>1, <2>2, Zenon DEF PartRead
  <2>4. fit \in Nat \ {0} /\ from + fit <= n
    BY <1>2, <1>5
  <2>5. p.text \in Seq(Nat \X Nat \X Nat)
    BY <2>3, Zenon DEF TextFrom
  <2>6. NextPart(col, b[1], fit, p.text)
    BY <1>6, <2>3, <2>4, Zenon DEF NextPart, n, from
  <2> QED
    BY <1>1, <1>2, <1>4, <1>5, <2>4, <2>5, <2>6, Zenon DEF n, from
<1> QED
  BY <1>2, <1>5, <1>7, <1>8

\* The part that a call returns continues what was received, up to the offset.
LEMMA PartContinues ==
  ASSUME Hypotheses, IndInv, NEW col \in Columns, row \in 1..Len(Cells),
         StartOffset(col) \in Nat,
         NEW size \in {1, 2, 4}, NEW fit \in Nat \ {0},
         NEW text \in Seq(Nat \X Nat \X Nat), NextPart(col, size, fit, text),
         currentColNum' = col
  PROVE  LET n == Len(Cells[row][col])
             end == StartOffset(col) + fit
         IN /\ received' \in Seq(Nat \X Nat \X Nat)
            /\ received' # << >>
            /\ received'[Len(received')] = <<row, col, end>>
            /\ cellOffset' \in Nat
            /\ (IF cellOffset' < n THEN cellOffset' ELSE n) = end
            /\ Reset => /\ Len(received') = end
                        /\ \A i \in 1..end : received'[i] = <<row, col, i>>
<1> DEFINE n == Len(Cells[row][col])
           from == StartOffset(col)
           end == from + fit
           base == IF col # currentColNum THEN << >> ELSE received
<1>1. n \in Nat \ {0}
  BY CellFacts DEF Hypotheses
<1>2. from \in Nat /\ end \in Nat /\ end <= n
  <2>1. end <= n
    BY Zenon DEF NextPart
  <2> QED
    BY <2>1
<1>3. base \in Seq(Nat \X Nat \X Nat)
  BY DEF IndInv, PartsInv
<1>4. /\ received' = base \o text
      /\ Len(text) = fit
      /\ \A i \in 1..fit : text[i] = <<row, col, from + i>>
  BY Zenon DEF NextPart, TextFrom
<1>5. cellOffset' = IF end < n THEN end ELSE n * size
  BY Zenon DEF NextPart
<1>6. n * size \in Nat /\ n * size >= n
  BY <1>1
<1> HIDE DEF n, from, end, base
<1>7. cellOffset' \in Nat /\ (IF cellOffset' < n THEN cellOffset' ELSE n) = end
  BY <1>1, <1>2, <1>5, <1>6
<1> DEFINE S == Nat \X Nat \X Nat
<1> HIDE DEF S
<1>8. /\ base \o text \in Seq(S)
      /\ Len(base) \in Nat
      /\ Len(base \o text) = Len(base) + Len(text)
      /\ \A i \in 1..Len(base) : (base \o text)[i] = base[i]
      /\ \A i \in 1..Len(text) : (base \o text)[Len(base) + i] = text[i]
  <2>1. base \in Seq(S) /\ text \in Seq(S)
    BY <1>3, Zenon DEF S
  <2> QED
    BY <2>1
<1>9. /\ received' \in Seq(Nat \X Nat \X Nat)
      /\ Len(base) \in Nat
      /\ Len(received') = Len(base) + fit
      /\ \A i \in 1..Len(base) : received'[i] = base[i]
      /\ \A i \in 1..fit : received'[Len(base) + i] = text[i]
  BY <1>4, <1>8, Zenon DEF S
<1>10. received' # << >> /\ received'[Len(received')] = text[fit]
  <2>1. fit \in 1..fit /\ Len(received') # 0
    BY <1>9
  <2> QED
    BY <1>9, <1>9, <2>1
<1>11. text[fit] = <<row, col, end>>
  BY <1>4 DEF end
<1>12. ASSUME Reset
       PROVE  Len(base) = from /\ \A i \in 1..from : base[i] = <<row, col, i>>
  <2>1. CASE col # currentColNum
    BY <2>1 DEF base, from, StartOffset
  <2>2. CASE col = currentColNum
    <3>1. currentColNum # 0 /\ from = cellOffset /\ base = received
      BY <2>2 DEF base, from, StartOffset, Columns
    <3>2. from < n
      BY <1>1, <1>2 DEF end
    <3>3. ReadUpTo(Cells[row][currentColNum]) = from
      BY <2>2, <3>1, <3>2 DEF ReadUpTo, n
    <3>4. received = [i \in 1..from |-> <<row, currentColNum, i>>]
      BY <1>12, <3>1, <3>3, Zenon DEF IndInv, PartsInv
    <3> QED
      BY <1>2, <2>2, <3>1, <3>4
  <2> QED
    BY <2>1, <2>2
<1>13. ASSUME Reset
       PROVE  Len(received') = end /\ \A i \in 1..end : received'[i] = <<row, col, i>>
  <2>1. Len(base) = from /\ Len(received') = end
    BY <1>9, <1>12, <1>13 DEF end
  <2>2. ASSUME NEW i \in 1..end, i <= from
        PROVE  received'[i] = <<row, col, i>>
    <3>1. i \in 1..Len(base) /\ i \in 1..from
      BY <1>2, <2>1, <2>2
    <3> QED
      BY <1>9, <1>12, <1>13, <3>1
  <2>3. ASSUME NEW i \in 1..end, ~(i <= from)
        PROVE  received'[i] = <<row, col, i>>
    <3>1. i - from \in 1..fit /\ from + (i - from) = i
      BY <1>2, <2>3 DEF end
    <3>2. received'[i] = text[i - from]
      BY <1>9, <2>1, <3>1
    <3> QED
      BY <1>4, <3>1, <3>2
  <2> QED
    BY <2>1, <2>2, <2>3
<1> QED
  BY <1>7, <1>9, <1>10, <1>11, <1>13 DEF end, n, from

BoundType ==
  [size : {0, 1, WcharSize}, buflen : {0} \cup BoundLengths,
   offset : {-1} \cup Nat, text : Seq(Nat \X Nat \X Nat), cutAt : Nat]

\* What is known of the buffer that a bound column is copied to.
LEMMA BoundBuffer ==
  ASSUME Hypotheses, NEW r \in 1..Len(Cells), NEW b \in Buffers(BoundLengths)
  PROVE  /\ BoundColumn \in Columns
         /\ Len(Cells[r][BoundColumn]) \in Nat \ {0}
         /\ Chars(Cells[r][BoundColumn]) = Len(Cells[r][BoundColumn])
         /\ b[1] \in {1, WcharSize} /\ b[2] \in Nat /\ b[1] \in {1, 2, 4}
         /\ (b[2] \div b[1]) \in Int /\ b[2] \div b[1] >= 2
<1>1. /\ BoundColumn \in Columns
      /\ Len(Cells[r][BoundColumn]) \in Nat \ {0}
      /\ Chars(Cells[r][BoundColumn]) = Len(Cells[r][BoundColumn])
  <2>1. 1 \in 1..Len(Cells) /\ 1 \in Columns
    BY CellReaderAssumption DEF Columns
  <2>2. BoundColumn \in Columns
    BY <2>1 DEF BoundColumn
  <2> QED
    BY <2>2, CellFacts DEF Hypotheses
<1>2. b[1] \in {1, WcharSize} /\ b[2] \in Nat /\ b[1] \in {1, 2, 4}
  <2>1. b \in {1, WcharSize} \X BoundLengths
    BY DEF Buffers
  <2> QED
    BY <2>1, CellReaderAssumption
<1>3. b[2] \div b[1] >= 2
  BY DEF Hypotheses, RoomForPart
<1> QED
  BY <1>1, <1>2, <1>3

\* A fetch into a buffer that is not on a continuation puts the beginning of
\* the new row's cell there, and leaves an offset only when that is not all.
LEMMA BeginningOfCell ==
  ASSUME Hypotheses, NEW r \in 1..Len(Cells), NEW b \in Buffers(BoundLengths)
  PROVE  LET p == PutStrToStrBuffer(r, BoundColumn, -1, b[1], b[2])
             n == Len(Cells[r][BoundColumn])
             fit == Fit(n, (b[2] \div b[1]) - 1)
         IN /\ fit \in 1..n
            /\ p.nothing = FALSE
            /\ p.res = IF fit < n THEN "TRUNCATED" ELSE "SUCCESS"
            /\ p.offset = IF fit < n THEN fit ELSE -1
            /\ TextFrom(p.text, r, BoundColumn, 0, fit)
<1> DEFINE n == Len(Cells[r][BoundColumn])
           p == PutStrToStrBuffer(r, BoundColumn, -1, b[1], b[2])
           offset == -1
<1>1. /\ BoundColumn \in Columns /\ n \in Nat \ {0}
      /\ b[1] \in {1, 2, 4} /\ b[2] \in Nat /\ b[2] \div b[1] >= 2
  BY BoundBuffer
<1> HIDE DEF n
<1>2. HasLength(r, BoundColumn, n) /\ ~(offset >= 0) /\ 0 \in Nat /\ 0 < n /\ n - 0 = n
  BY <1>1 DEF HasLength, n
<1> HIDE DEF offset
<1>3. PICK fit \in 1..n : /\ fit = Fit(n, (b[2] \div b[1]) - 1)
                          /\ PartRead(p, r, BoundColumn, n, -1, 0, fit, b[1])
  <2>1. \E fit \in 1..(n - 0) :
           /\ fit = Fit(n - 0, (b[2] \div b[1]) - 1)
           /\ PartRead(PutStrToStrBuffer(r, BoundColumn, offset, b[1], b[2]),
                       r, BoundColumn, n, offset, 0, fit, b[1])
    BY <1>1, <1>2, ReadPart DEF Hypotheses
  <2> QED
    BY <1>2, <2>1, Zenon DEF offset
<1>4. 0 + fit = fit /\ ~(-1 >= 0)
  BY <1>1
<1>5. /\ p.nothing = FALSE
      /\ p.res = IF fit < n THEN "TRUNCATED" ELSE "SUCCESS"
      /\ p.offset = IF fit < n THEN fit ELSE -1
      /\ TextFrom(p.text, r, BoundColumn, 0, fit)
  BY <1>3, <1>4, Zenon DEF PartRead
<1> QED
  BY <1>3, <1>5, Zenon DEF n

\* A fetch into a buffer that is on a continuation goes on from there.
LEMMA ContinuedCell ==
  ASSUME Hypotheses, NEW r \in 1..Len(Cells), NEW b \in Buffers(BoundLengths),
         NEW offset \in Nat
  PROVE  LET p == PutStrToStrBuffer(r, BoundColumn, offset, b[1], b[2])
         IN p.nothing \/ (p.offset \in Nat /\ p.text \in Seq(Nat \X Nat \X Nat))
<1> DEFINE n == Len(Cells[r][BoundColumn])
           p == PutStrToStrBuffer(r, BoundColumn, offset, b[1], b[2])
<1>1. /\ BoundColumn \in Columns /\ n \in Nat \ {0}
      /\ b[1] \in {1, WcharSize}
      /\ b[1] \in {1, 2, 4} /\ b[2] \in Nat /\ b[2] \div b[1] >= 2
  BY BoundBuffer
<1>2. CASE offset >= n
  <2>1. p = [res |-> "NO_DATA", nothing |-> TRUE, offset |-> offset, text |-> << >>, len |-> 0]
    <3>1. PlainText /\ offset >= Len(Cells[r][BoundColumn])
      BY <1>2 DEF Hypotheses
    <3>2. b[1] \in {1, WcharSize} /\ b[2] \in Nat /\ BoundColumn \in Columns
      BY <1>1
    <3> QED
      BY <3>1, <3>2, ReadAtEnd
  <2>2. p.nothing = TRUE
    BY <2>1
  <2> QED
    BY <2>2, Zenon
<1>3. CASE offset < n
  <2> HIDE DEF n
  <2>1. HasLength(r, BoundColumn, n) /\ offset >= 0
    BY <1>1 DEF HasLength, n
  <2>2. PICK fit \in 1..(n - offset) :
          PartRead(p, r, BoundColumn, n, offset, offset, fit, b[1])
    BY <1>1, <1>3, <2>1, ReadPart DEF Hypotheses
  <2>3. /\ TextFrom(p.text, r, BoundColumn, offset, fit)
        /\ p.offset = IF offset + fit < n THEN offset + fit ELSE n * b[1]
    BY <2>1, <2>2, Zenon DEF PartRead
  <2>4. offset + fit \in Nat /\ n * b[1] \in Nat
    BY <1>1
  <2> HIDE DEF p
  <2>5. p.offset \in Nat
    BY <2>3, <2>4
  <2>6. p.text \in Seq(Nat \X Nat \X Nat)
    BY <2>3, Zenon DEF TextFrom
  <2> QED
    BY <2>5, <2>6, Zenon DEF p
<1> QED
  BY <1>1, <1>2, <1>3

\* Every fetch keeps a bound buffer in which all rows did fit off a
\* continuation, and notes the first row that does not.
LEMMA BoundStep ==
  ASSUME Hypotheses, IndInv, NEW function, NextRow(function)
  PROVE  BoundInv'
<1>1. row \in 0..Len(Cells) /\ row' = row + 1 /\ bound' = Filled(row + 1) /\ Len(Cells) \in Nat
  BY CellReaderAssumption DEF NextRow, IndInv, TypeOK
<1>2. /\ bound \in BoundType
      /\ bound = Unbound \/ <<bound.size, bound.buflen>> \in Buffers(BoundLengths)
      /\ bound.cutAt <= ShownRow
      /\ bound.cutAt = 0 => bound.offset = -1
  BY DEF IndInv, BoundInv, BoundType
<1>3. CASE bound = Unbound
  <2>1. bound' = Unbound
    BY <1>1, <1>3 DEF Filled
  <2>2. Unbound.text = << >> /\ Unbound.cutAt = 0 /\ Unbound.offset = -1
    BY DEF Unbound, Bound
  <2>3. 0 <= ShownRow'
    BY <1>1 DEF ShownRow
  <2> QED
    BY <1>2, <1>3, <2>1, <2>2, <2>3 DEF BoundInv, BoundType, BoundShowsRowUntilCut, BoundShowsRow
<1>4. CASE bound # Unbound /\ row + 1 > Len(Cells)
  <2>1. bound' = bound /\ ShownRow' = ShownRow
    BY <1>1, <1>4 DEF Filled, ShownRow
  <2> QED
    BY <2>1, Zenon DEF IndInv, BoundInv, BoundShowsRowUntilCut, BoundShowsRow
<1>5. CASE bound # Unbound /\ ~(row + 1 > Len(Cells))
  <2> DEFINE b == <<bound.size, bound.buflen>>
             p == PutStrToStrBuffer(row + 1, BoundColumn, bound.offset, b[1], b[2])
             n == Len(Cells[row + 1][BoundColumn])
             fit == Fit(n, (b[2] \div b[1]) - 1)
  <2>1. /\ row + 1 \in 1..Len(Cells) /\ b \in Buffers(BoundLengths)
        /\ ShownRow' = row + 1 /\ bound.cutAt <= row /\ bound.cutAt \in Nat
    BY <1>1, <1>2, <1>5 DEF ShownRow, BoundType
  <2>2. b[1] = bound.size /\ b[2] = bound.buflen
    OBVIOUS
  <2> HIDE DEF b
  <2>3. bound' = IF p.nothing THEN bound
                 ELSE [bound EXCEPT !.offset = p.offset, !.text = p.text,
                         !.cutAt = IF @ = 0 /\ p.res = "TRUNCATED" THEN row + 1 ELSE @]
    BY <1>1, <1>5, <2>2, Zenon DEF Filled
  <2>4. CASE bound.cutAt = 0
    <3>1. bound.offset = -1
      BY <1>2, <2>4
    <3>2. /\ fit \in 1..n /\ n \in Nat
          /\ p.nothing = FALSE
          /\ p.res = IF fit < n THEN "TRUNCATED" ELSE "SUCCESS"
          /\ p.offset = IF fit < n THEN fit ELSE -1
          /\ TextFrom(p.text, row + 1, BoundColumn, 0, fit)
          /\ Chars(Cells[row + 1][BoundColumn]) = n
      BY <2>1, <3>1, BeginningOfCell, BoundBuffer
    <3>3. /\ p.text \in Seq(Nat \X Nat \X Nat) /\ Len(p.text) = fit
          /\ \A i \in 1..fit : p.text[i] = <<row + 1, BoundColumn, 0 + i>>
      BY <3>2, Zenon DEF TextFrom
    <3> HIDE DEF p, n, fit
    <3>4. bound' = [bound EXCEPT !.offset = p.offset, !.text = p.text,
                      !.cutAt = IF p.res = "TRUNCATED" THEN row + 1 ELSE 0]
      BY <2>3, <2>4, <3>2
    <3>5. p.offset \in {-1} \cup Nat /\ row + 1 \in Nat
      BY <1>1, <3>2
    <3>6. /\ bound' \in BoundType
          /\ bound'.size = bound.size /\ bound'.buflen = bound.buflen
          /\ bound'.text = p.text /\ bound'.offset = p.offset
          /\ bound'.cutAt = IF p.res = "TRUNCATED" THEN row + 1 ELSE 0
      BY <1>2, <3>3, <3>4, <3>5 DEF BoundType
    <3>7. bound'.cutAt <= ShownRow' /\ (bound'.cutAt = 0 => bound'.offset = -1)
      BY <1>1, <2>1, <3>2, <3>6
    <3>8. BoundShowsRow'
      <4>1. Whole(row + 1, BoundColumn) = [i \in 1..n |-> <<row + 1, BoundColumn, i>>]
        BY <3>2 DEF Whole
      <4>2. Len(Whole(row + 1, BoundColumn)) = n
        BY <3>2, <4>1
      <4>3. ASSUME NEW i \in 1..fit
            PROVE  p.text[i] = Whole(row + 1, BoundColumn)[i]
        <5>1. i \in 1..n /\ 0 + i = i
          BY <3>2
        <5>2. p.text[i] = <<row + 1, BoundColumn, i>>
          BY <3>3, <5>1, Zenon
        <5> QED
          BY <4>1, <5>1, <5>2, Zenon
      <4>4. IsPrefixOf(p.text, Whole(row + 1, BoundColumn))
        BY <3>2, <3>3, <4>2, <4>3 DEF IsPrefixOf
      <4>5. row + 1 > 0
        BY <1>1
      <4>6. Len(p.text) = Fit(Chars(Cells[row + 1][BoundColumn]),
                              (bound'.buflen \div bound'.size) - 1)
        BY <2>2, <3>2, <3>3, <3>6, Zenon DEF fit
      <4> QED
        BY <2>1, <3>6, <4>4, <4>5, <4>6, Zenon DEF BoundShowsRow
    <3>9. <<bound'.size, bound'.buflen>> \in Buffers(BoundLengths)
      BY <1>2, <1>5, <3>6, Zenon
    <3> QED
      BY <3>6, <3>7, <3>8, <3>9, Zenon DEF BoundInv, BoundType, BoundShowsRowUntilCut
  <2>5. CASE bound.cutAt # 0
    <3>1. p.nothing \/ (p.offset \in {-1} \cup Nat /\ p.text \in Seq(Nat \X Nat \X Nat))
      <4>1. CASE bound.offset = -1
        <5>1. /\ fit \in 1..n /\ n \in Nat
              /\ p.offset = IF fit < n THEN fit ELSE -1
              /\ TextFrom(p.text, row + 1, BoundColumn, 0, fit)
          BY <2>1, <4>1, BeginningOfCell, BoundBuffer
        <5> HIDE DEF p, n, fit
        <5>2. p.text \in Seq(Nat \X Nat \X Nat)
          BY <5>1, Zenon DEF TextFrom
        <5> QED
          BY <5>1, <5>2
      <4>2. CASE bound.offset \in Nat
        BY <2>1, <4>2, ContinuedCell
      <4> QED
        BY <1>2, <4>1, <4>2 DEF BoundType
    <3> HIDE DEF p
    <3>2. /\ bound' \in BoundType
          /\ bound'.size = bound.size /\ bound'.buflen = bound.buflen
          /\ bound'.cutAt = bound.cutAt
      BY <1>2, <2>3, <2>5, <3>1 DEF BoundType
    <3>3. bound'.cutAt <= ShownRow' /\ bound'.cutAt # 0 /\ bound'.cutAt # ShownRow'
      BY <1>1, <2>1, <2>5, <3>2
    <3>4. <<bound'.size, bound'.buflen>> \in Buffers(BoundLengths)
      BY <1>2, <1>5, <3>2, Zenon
    <3> QED
      BY <3>2, <3>3, <3>4, Zenon DEF BoundInv, BoundType, BoundShowsRowUntilCut
  <2> QED
    BY <2>4, <2>5
<1> QED
  BY <1>3, <1>4, <1>5

\* SQLGetData keeps what was received in step with the offset.
LEMMA PartsStep ==
  ASSUME Hypotheses, IndInv, NEW col \in Columns, NEW b \in Buffers(BufferLengths),
         SQLGetData(col, b[1], b[2])
  PROVE  PartsInv'
<1>1. /\ row \in 1..Len(Cells) /\ StartOffset(col) \in Nat /\ b[1] \in {1, 2, 4}
      /\ Len(Cells[row][col]) \in Nat \ {0}
  BY GetDataStep
<1>2. row' = row /\ fetchedBy' = fetchedBy /\ currentColNum' = col /\ col # 0
  BY DEF SQLGetData, Columns
<1>3. CASE NothingMore(col)
  BY <1>2, <1>3 DEF NothingMore, IndInv, PartsInv, ReadUpTo, Reset
<1>4. ASSUME NEW fit \in Nat \ {0}, NEW text \in Seq(Nat \X Nat \X Nat),
             NextPart(col, b[1], fit, text)
      PROVE  PartsInv'
  <2> DEFINE n == Len(Cells[row][col])
             end == StartOffset(col) + fit
  <2>1. /\ received' \in Seq(Nat \X Nat \X Nat)
        /\ received' # << >>
        /\ received'[Len(received')] = <<row, col, end>>
        /\ cellOffset' \in Nat
        /\ (IF cellOffset' < n THEN cellOffset' ELSE n) = end
        /\ Reset => /\ Len(received') = end
                    /\ \A i \in 1..end : received'[i] = <<row, col, i>>
    BY <1>1, <1>2, <1>4, PartContinues
  <2> HIDE DEF end
  <2>2. ReadUpTo(Cells[row][col])' = end
    BY <1>2, <2>1 DEF ReadUpTo
  <2>3. Reset' => received' = [i \in 1..end |-> <<row, col, i>>]
    <3>1. end \in Nat
      BY <1>1 DEF end
    <3> QED
      BY <1>2, <2>1, <3>1 DEF Reset
  <2>4. fetchedBy' = "none" => row' = 0
    BY <1>2 DEF IndInv, PartsInv
  <2> QED
    BY <1>1, <1>2, <2>1, <2>2, <2>3, <2>4, Zenon DEF PartsInv
<1> QED
  BY <1>3, <1>4, GetDataStep

\* The invariant holds initially, every step keeps it, so it always holds.
LEMMA InitInv == Hypotheses /\ Init => IndInv
<1> SUFFICES ASSUME Hypotheses, Init PROVE IndInv
  OBVIOUS
<1>1. Len(Cells) \in Nat
  BY CellReaderAssumption
<1>2. Unbound \in BoundType /\ Unbound.text = << >> /\ Unbound.cutAt = 0 /\ Unbound.offset = -1
  BY DEF BoundType, Unbound, Bound
<1>3. BoundInv
  BY <1>1, <1>2 DEF Init, BoundInv, BoundType, BoundShowsRowUntilCut, BoundShowsRow, ShownRow
<1>4. PartsInv
  BY DEF Init, PartsInv, Reset
<1>5. TypeOK
  BY <1>1, CellReaderAssumption DEF Init, TypeOK, Unbound, Bound
<1> QED
  BY <1>3, <1>4, <1>5 DEF IndInv

\* BoundInv and PartsInv carry the types of what they speak about.
LEMMA Typing ==
  ASSUME Hypotheses, IndInv, [Next]_vars, PartsInv', BoundInv'
  PROVE  TypeOK'
<1>1. Len(Cells) \in Nat /\ 0 \notin Columns
  BY CellReaderAssumption DEF Columns
<1>2. row' \in 0..(Len(Cells) + 1)
  <2>1. row' = row \/ (row <= Len(Cells) /\ row' = row + 1)
    BY DEF Next, vars, SQLBindCol, SQLUnbindCol, FetchRow, ExtendedFetch,
         NextRow, SQLGetData, SQLGetDataPastEnd
  <2> QED
    BY <1>1, <2>1 DEF IndInv, TypeOK
<1>3. fetchedBy' \in {"none", "SQLFetch", "SQLExtendedFetch"}
  BY DEF IndInv, TypeOK, Next, vars, SQLBindCol, SQLUnbindCol, FetchRow,
       ExtendedFetch, NextRow, SQLGetData, SQLGetDataPastEnd
<1>4. currentColNum' \in {0} \cup Columns
  BY DEF IndInv, TypeOK, Next, vars, SQLBindCol, SQLUnbindCol, FetchRow,
       ExtendedFetch, NextRow, SQLGetData, SQLGetDataPastEnd
<1>5. cellOffset' \in Nat
  BY DEF PartsInv
<1>6. /\ bound'.size \in {0, 1, WcharSize}
      /\ bound'.buflen \in {0} \cup BoundLengths
      /\ bound'.offset \in Int
  BY DEF BoundInv
<1>7. ret' \in {"none", "SUCCESS", "TRUNCATED", "NO_DATA", "ERROR", "THROWN"} /\ resLen' \in Int
  <2>1. CASE UNCHANGED <<ret, resLen>>
    BY <2>1 DEF IndInv, TypeOK
  <2>2. ASSUME NEW col \in Columns, SQLGetDataPastEnd(col)
        PROVE  ret' = "ERROR" /\ resLen' = resLen
    BY <2>2 DEF SQLGetDataPastEnd
  <2>3. ASSUME NEW col \in Columns, NEW b \in Buffers(BufferLengths),
               SQLGetData(col, b[1], b[2])
        PROVE  ret' \in {"NO_DATA", "TRUNCATED", "SUCCESS"} /\ resLen' \in Int
    <3> DEFINE n == Len(Cells[row][col])
               from == StartOffset(col)
    <3>1. n \in Nat \ {0} /\ from \in Nat /\ b[1] \in {1, 2, 4}
      BY <2>3, GetDataStep
    <3> HIDE DEF n, from
    <3>2. CASE NothingMore(col)
      BY <3>2 DEF NothingMore, IndInv, TypeOK
    <3>3. ASSUME NEW fit \in Nat \ {0}, NEW text, NextPart(col, b[1], fit, text)
          PROVE  ret' \in {"NO_DATA", "TRUNCATED", "SUCCESS"} /\ resLen' \in Int
      <4>1. /\ ret' = IF from + fit < n THEN "TRUNCATED" ELSE "SUCCESS"
            /\ resLen' = IF from + fit < n THEN b[1] * (n - (from + fit)) ELSE b[1] * n
        BY <3>3, Zenon DEF NextPart, n, from
      <4>2. b[1] * (n - (from + fit)) \in Int /\ b[1] * n \in Int
        BY <3>1
      <4> QED
        BY <4>1, <4>2
    <3> QED
      BY <2>3, <3>2, <3>3, GetDataStep
  <2> QED
    BY <2>1, <2>2, <2>3 DEF Next, vars, SQLBindCol, SQLUnbindCol, FetchRow,
         ExtendedFetch, NextRow, IndInv, TypeOK
<1> QED
  BY <1>2, <1>3, <1>4, <1>5, <1>6, <1>7, Zenon DEF TypeOK

\* Every step of the specification keeps the inductive invariant.
LEMMA NextInv == Hypotheses /\ IndInv /\ [Next]_vars => IndInv'
<1> SUFFICES ASSUME Hypotheses, IndInv, [Next]_vars PROVE PartsInv' /\ BoundInv'
  BY Typing DEF IndInv
<1> DEFINE kept == <<row, fetchedBy, currentColNum, cellOffset, received>>
<1>1. UNCHANGED kept => PartsInv'
  BY DEF IndInv, PartsInv, ReadUpTo, Reset
<1>2. UNCHANGED <<row, bound>> => BoundInv'
  BY DEF IndInv, BoundInv, BoundShowsRowUntilCut, BoundShowsRow, ShownRow
<1>3. CASE SQLBindCol
  <2>1. PICK b \in Buffers(BoundLengths) :
          bound' = [size |-> b[1], buflen |-> b[2], offset |-> -1, text |-> << >>, cutAt |-> 0]
    BY <1>3 DEF SQLBindCol, Bound
  <2>2. b \in {1, WcharSize} \X BoundLengths /\ b = <<b[1], b[2]>>
    BY DEF Buffers
  <2>3. /\ bound' \in BoundType /\ bound'.text = << >> /\ bound'.size = b[1] /\ bound'.buflen = b[2]
        /\ bound'.cutAt = 0 /\ bound'.offset = -1
    BY <2>1, <2>2 DEF BoundType
  <2>4. <<bound'.size, bound'.buflen>> \in Buffers(BoundLengths)
    BY <2>2, <2>3
  <2>5. 0 <= ShownRow'
    BY <1>3, CellReaderAssumption DEF SQLBindCol, ShownRow, IndInv, TypeOK
  <2>6. BoundInv'
    BY <2>3, <2>4, <2>5, Zenon DEF BoundInv, BoundType, BoundShowsRowUntilCut, BoundShowsRow
  <2> QED
    BY <1>1, <1>3, <2>6 DEF SQLBindCol
<1>4. CASE SQLUnbindCol
  <2>1. Unbound \in BoundType /\ Unbound.text = << >> /\ Unbound.cutAt = 0 /\ Unbound.offset = -1
    BY DEF BoundType, Unbound, Bound
  <2>2. 0 <= ShownRow'
    BY <1>4, CellReaderAssumption DEF SQLUnbindCol, ShownRow, IndInv, TypeOK
  <2>3. BoundInv'
    BY <1>4, <2>1, <2>2, Zenon DEF SQLUnbindCol, BoundInv, BoundType, BoundShowsRowUntilCut,
         BoundShowsRow
  <2> QED
    BY <1>1, <1>4, <2>3 DEF SQLUnbindCol
<1>5. CASE FetchRow
  <2>1. BoundInv'
    BY <1>5, BoundStep DEF FetchRow
  <2>2. /\ cellOffset' = 0 /\ received' = << >> /\ fetchedBy' = "SQLFetch"
        /\ currentColNum' = currentColNum /\ currentColNum \in {0} \cup Columns
        /\ row' = row + 1
    BY <1>5 DEF FetchRow, NextRow, IndInv, TypeOK
  <2>3. ASSUME row' \in 1..Len(Cells), currentColNum # 0
        PROVE  ReadUpTo(Cells[row][currentColNum])' = 0
    <3>1. Len(Cells[row'][currentColNum]) \in Nat \ {0}
      BY <2>2, <2>3, CellFacts DEF Hypotheses
    <3> QED
      BY <2>2, <3>1 DEF ReadUpTo
  <2>4. ASSUME NEW c, NEW r PROVE << >> = [i \in 1..0 |-> <<r, c, i>>]
    OBVIOUS
  <2>5. PartsInv'
    BY <2>2, <2>3, <2>4 DEF PartsInv
  <2> QED
    BY <2>1, <2>5
<1>6. CASE ExtendedFetch
  <2>1. BoundInv'
    BY <1>6, BoundStep DEF ExtendedFetch
  <2>2. PartsInv'
    BY <1>6 DEF ExtendedFetch, NextRow, IndInv, PartsInv, Reset
  <2> QED
    BY <2>1, <2>2
<1>7. ASSUME NEW col \in Columns, NEW b \in Buffers(BufferLengths), SQLGetData(col, b[1], b[2])
      PROVE  PartsInv' /\ BoundInv'
  BY <1>2, <1>7, PartsStep DEF SQLGetData
<1>8. ASSUME NEW col \in Columns, SQLGetDataPastEnd(col)
      PROVE  PartsInv' /\ BoundInv'
  <2>1. col # 0 /\ row' = row /\ row \notin 1..Len(Cells) /\ fetchedBy' = fetchedBy
    BY <1>8, CellReaderAssumption DEF SQLGetDataPastEnd, Columns, IndInv, TypeOK
  <2>2. cellOffset' \in Nat
    BY <1>8 DEF SQLGetDataPastEnd, StartOffset, IndInv, PartsInv
  <2>3. PartsInv'
    BY <1>8, <2>1, <2>2 DEF SQLGetDataPastEnd, IndInv, PartsInv
  <2> QED
    BY <1>2, <1>8, <2>3 DEF SQLGetDataPastEnd
<1>9. CASE UNCHANGED vars
  BY <1>1, <1>2, <1>9 DEF vars
<1> QED
  BY <1>3, <1>4, <1>5, <1>6, <1>7, <1>8, <1>9 DEF Next

\* The inductive invariant holds in every reachable state.
LEMMA Invariance == ASSUME Hypotheses PROVE Spec => []IndInv
<1>1. Init => IndInv
  BY InitInv
<1>2. IndInv /\ [Next]_vars => IndInv'
  BY NextInv
<1> QED
  BY <1>1, <1>2, PTL DEF Spec

-----------------------------------------------------------------------------
(* The theorems.                                                           *)

\* The parts that SQLGetData returns make up the cell: cellOffset always is
\* where the received parts end, whichever sizes of buffer and of character
\* the calls mix.
THEOREM PartsMakeUpTheCell == ASSUME Hypotheses PROVE Spec => []PartsInOrder
<1>1. ASSUME IndInv PROVE PartsInOrder
  <2>1. TypeOK
    BY <1>1 DEF IndInv
  <2>2. ASSUME Reset, received # << >>
        PROVE  IsPrefixOf(received, Whole(row, currentColNum))
    <3> DEFINE cell == Cells[row][currentColNum]
               n == Len(cell)
               end == ReadUpTo(cell)
    <3>1. row \in 1..Len(Cells) /\ currentColNum # 0 /\ currentColNum \in Columns
      BY <1>1, <2>2 DEF IndInv, PartsInv, TypeOK
    <3>2. n \in Nat \ {0} /\ Chars(cell) = n
      BY <3>1, CellFacts DEF Hypotheses
    <3>3. received = [i \in 1..end |-> <<row, currentColNum, i>>]
      BY <1>1, <2>2, <3>1, Zenon DEF IndInv, PartsInv
    <3>4. end \in Nat /\ end <= n
      BY <1>1, <3>2 DEF ReadUpTo, IndInv, PartsInv
    <3>5. Whole(row, currentColNum) = [i \in 1..n |-> <<row, currentColNum, i>>]
      BY <3>2 DEF Whole
    <3> HIDE DEF end, n
    <3>6. Len(received) = end /\ Len(Whole(row, currentColNum)) = n
      BY <3>2, <3>3, <3>4, <3>5
    <3>7. ASSUME NEW i \in 1..Len(received)
          PROVE  received[i] = Whole(row, currentColNum)[i]
      BY <3>2, <3>3, <3>4, <3>5, <3>6
    <3> QED
      BY <3>4, <3>6, <3>7 DEF IsPrefixOf
  <2> QED
    BY <2>1, <2>2 DEF PartsInOrder
<1> QED
  BY <1>1, Invariance, PTL

\* A bound buffer shows the row fetched last, cut off where the buffer ends, up
\* to and with the first row that does not fit.
THEOREM BoundColumnFollows == ASSUME Hypotheses PROVE Spec => []BoundShowsRowUntilCut
<1>1. IndInv => BoundShowsRowUntilCut
  BY DEF IndInv, BoundInv
<1> QED
  BY <1>1, Invariance, PTL

\* What a call returns and what was received.
LEMMA CallTells ==
  ASSUME Hypotheses, IndInv, NEW col \in Columns, NEW b \in Buffers(BufferLengths),
         SQLGetData(col, b[1], b[2])
  PROVE  /\ Reset => (ret' = "TRUNCATED" <=> received' # Whole(row, col))
         /\ col = currentColNum /\ received # << >> /\ received = Whole(row, col)
              => ret' = "NO_DATA" /\ resLen' = resLen
         /\ Reset /\ ret' # "NO_DATA" =>
              resLen' = b[1] * (IF ret' = "SUCCESS" THEN Chars(Cells[row][col])
                                ELSE Chars(Cells[row][col]) - Len(received'))
<1> DEFINE n == Len(Cells[row][col])
           from == StartOffset(col)
           whole == [i \in 1..n |-> <<row, col, i>>]
<1>1. /\ row \in 1..Len(Cells) /\ from \in Nat /\ b[1] \in {1, 2, 4}
      /\ n \in Nat \ {0} /\ Chars(Cells[row][col]) = n
  BY GetDataStep
<1>2. Whole(row, col) = whole
  BY <1>1 DEF Whole
<1>3. currentColNum' = col /\ col # 0
  BY DEF SQLGetData, Columns
<1>4. CASE NothingMore(col)
  <2>1. ASSUME Reset PROVE received' = whole
    <3>1. ReadUpTo(Cells[row][col]) = n
      BY <1>1, <1>4 DEF NothingMore, ReadUpTo, IndInv, PartsInv
    <3>2. received = whole
      BY <1>1, <1>3, <1>4, <2>1, <3>1 DEF NothingMore, IndInv, PartsInv
    <3> QED
      BY <1>4, <3>2 DEF NothingMore
  <2> QED
    BY <1>2, <1>4, <2>1 DEF NothingMore
<1>5. ASSUME NEW fit \in Nat \ {0}, NEW text \in Seq(Nat \X Nat \X Nat),
             NextPart(col, b[1], fit, text)
      PROVE  /\ Reset => (ret' = "TRUNCATED" <=> received' # whole)
             /\ ~(col = currentColNum /\ received # << >> /\ received = whole)
             /\ Reset => resLen' = b[1] * (IF ret' = "SUCCESS" THEN n ELSE n - Len(received'))
  <2> DEFINE end == from + fit
  <2>1. /\ end <= n
        /\ ret' = IF end < n THEN "TRUNCATED" ELSE "SUCCESS"
        /\ resLen' = IF end < n THEN b[1] * (n - end) ELSE b[1] * n
    BY <1>5, Zenon DEF NextPart
  <2>2. Reset => Len(received') = end /\ \A i \in 1..end : received'[i] = <<row, col, i>>
    BY <1>1, <1>3, <1>5, PartContinues
  <2>3. received' \in Seq(Nat \X Nat \X Nat)
    BY <1>1, <1>3, <1>5, PartContinues
  <2>4. end \in Nat
    BY <1>1
  <2>5. ASSUME Reset PROVE ret' = "TRUNCATED" <=> received' # whole
    <3> HIDE DEF end, n
    <3>1. Len(whole) = n
      BY <1>1
    <3>2. end = n => received' = whole
      BY <2>2, <2>3, <2>5, <1>1
    <3> HIDE DEF whole
    <3>3. received' = whole => end = n
      BY <2>2, <2>5, <3>1
    <3>4. end < n <=> end # n
      BY <1>1, <2>1, <2>4
    <3> QED
      BY <2>1, <3>2, <3>3, <3>4
  <2>6. ~(col = currentColNum /\ received # << >> /\ received = whole)
    <3> SUFFICES ASSUME col = currentColNum, received # << >>, received = whole PROVE FALSE
      OBVIOUS
    <3>1. received[Len(received)] = <<row, col, n>>
      <4> HIDE DEF n
      <4>1. Len(whole) = n /\ n \in 1..n
        BY <1>1
      <4>2. whole[n] = <<row, col, n>>
        BY <4>1
      <4> HIDE DEF whole
      <4> QED
        BY <4>1, <4>2
    <3>2. received[Len(received)] = <<row, col, ReadUpTo(Cells[row][col])>>
      BY Zenon DEF IndInv, PartsInv
    <3>3. ReadUpTo(Cells[row][col]) = n
      <4> HIDE DEF whole, n
      <4> QED
        BY <3>1, <3>2
    <3>4. from = cellOffset /\ from < n
      BY <1>1, <2>1 DEF StartOffset
    <3> QED
      BY <1>1, <3>3, <3>4 DEF ReadUpTo
  <2>7. Reset => resLen' = b[1] * (IF ret' = "SUCCESS" THEN n ELSE n - Len(received'))
    <3> HIDE DEF end, n
    <3> QED
      BY <2>1, <2>2
  <2> QED
    BY <2>5, <2>6, <2>7
<1> HIDE DEF n, whole
<1>6. CASE ~NothingMore(col)
  <2>1. \E fit \in Nat \ {0}, text \in Seq(Nat \X Nat \X Nat) : NextPart(col, b[1], fit, text)
    BY <1>6, GetDataStep
  <2> QED
    BY <1>1, <1>2, <1>5, <2>1
<1> QED
  BY <1>4, <1>6

\* SQL_SUCCESS and SQL_NO_DATA mean that the application has the whole cell,
\* SQL_SUCCESS_WITH_INFO that it has not; a call after the last part returns
\* SQL_NO_DATA.
THEOREM ReturnTellsTheEnd == ASSUME Hypotheses PROVE Spec => EndMeansComplete
<1> DEFINE Step == \A col \in Columns, b \in Buffers(BufferLengths) :
       SQLGetData(col, b[1], b[2]) =>
         /\ Reset => (ret' = "TRUNCATED" <=> received' # Whole(row, col))
         /\ col = currentColNum /\ received # << >> /\ received = Whole(row, col)
              => ret' = "NO_DATA" /\ resLen' = resLen
<1>1. IndInv /\ [Next]_vars => [Step]_vars
  BY CallTells
<1> HIDE DEF Step
<1>2. EndMeansComplete <=> [][Step]_vars
  BY Zenon DEF EndMeansComplete, Step
<1> QED
  BY <1>1, <1>2, Invariance, PTL DEF Spec

\* The length that SQLGetData reports is that of the cell when the call
\* returned its end, and of what remains when it did not.
THEOREM LengthTellsTheRest == ASSUME Hypotheses PROVE Spec => LengthIsWhatRemains
<1> DEFINE Step == \A col \in Columns, b \in Buffers(BufferLengths) :
       Reset /\ SQLGetData(col, b[1], b[2]) /\ ret' # "NO_DATA" =>
         resLen' = b[1] * (IF ret' = "SUCCESS" THEN Chars(Cells[row][col])
                           ELSE Chars(Cells[row][col]) - Len(received'))
<1>1. IndInv /\ [Next]_vars => [Step]_vars
  BY CallTells
<1> HIDE DEF Step
<1>2. LengthIsWhatRemains <=> [][Step]_vars
  BY Zenon DEF LengthIsWhatRemains, Step
<1> QED
  BY <1>1, <1>2, Invariance, PTL DEF Spec
=============================================================================
