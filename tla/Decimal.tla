------------------------------ MODULE Decimal -------------------------------
(* Decimal: a BigInteger and the number of its digits after the point.     *)
EXTENDS BigInteger

Dec(scale, magnitude) == [scale |-> scale, magnitude |-> magnitude]
Zero == Dec(0, AssignInt64(0))

\* The result as the caller finds it in a new Decimal: nothing is assigned
\* when the scale stays.
SetScale(d, newScale) ==
  LET diff == d.scale - newScale IN
  IF diff = 0 THEN Zero
  ELSE Dec(newScale, IF diff > 0 THEN Divide(d.magnitude, GetPowerOfTen(diff), 0).q
                     ELSE Multiply(d.magnitude, GetPowerOfTen(-diff)))

DecimalToInt64(d) ==
  IF d.scale = 0 THEN ToInt64(d.magnitude) ELSE ToInt64(SetScale(d, 0).magnitude)

DecimalCompare(a, b) ==
  IF IsZero(a.magnitude) /\ IsZero(b.magnitude) THEN 0
  ELSE IF a.scale = b.scale THEN Compare(a.magnitude, b.magnitude, FALSE)
  ELSE IF a.scale > b.scale THEN Compare(a.magnitude, SetScale(b, a.scale).magnitude, FALSE)
  ELSE Compare(SetScale(a, b.scale).magnitude, b.magnitude, FALSE)

\* The digits mag with a point before the last scale of them; trailing zeroes
\* after the point are left out.
Pointed(mag, scale) ==
  LET last == CHOOSE i \in 1..Len(mag) : mag[i] # 0 /\ \A j \in (i + 1)..Len(mag) : mag[j] = 0
      dotPos == Len(mag) - scale
  IN IF dotPos <= 0 THEN <<0, Point>> \o Zeroes(-dotPos) \o SubSeq(mag, 1, last)
     ELSE SubSeq(mag, 1, dotPos)
            \o (IF last > dotPos THEN <<Point>> \o SubSeq(mag, dotPos + 1, last) ELSE << >>)

PointedText(text, scale) ==
  IF scale <= 0 THEN text \o Zeroes(-scale)
  ELSE Sign(text) \o Pointed(SubSeq(text, Len(Sign(text)) + 1, Len(text)), scale)

\* operator<<
DecimalText(d) ==
  IF IsZero(d.magnitude) THEN <<0>> ELSE PointedText(Text(d.magnitude), d.scale)

\* operator>>: digits and one point, then an exponent.
DecimalParse(text) ==
  LET start == Len(Sign(text)) + 1
      points == {i \in start..Len(text) : text[i] = Point}
      stop == {i \in start..(Len(text) + 1) :
                 \/ i = Len(text) + 1
                 \/ ~IsDigit(text[i]) /\ text[i] # Point
                 \/ text[i] = Point /\ \E j \in points : j < i}
      mag(n) == IF Sign(text) = <<Minus>> THEN Negate(n) ELSE n
      scale(body) == IF Contains(body, Point)
                     THEN Len(body) - (CHOOSE i \in 1..Len(body) : body[i] = Point) ELSE 0
      exp(tail) == (IF Sign(tail) = <<Minus>> THEN -1 ELSE 1)
                     * FoldLeft(LAMBDA n, c : 10 * n + c, 0, SelectSeq(tail, IsDigit))
      parsed(body, rest) ==
        Dec(scale(body) - (IF rest # << >> /\ rest[1] = Exponent THEN exp(Tail(rest)) ELSE 0),
            mag(ParseDigits(SelectSeq(body, IsDigit))))
      split(end) == parsed(SubSeq(text, start, end - 1), SubSeq(text, end, Len(text)))
  IN split(CHOOSE i \in stop : \A j \in stop : i <= j)

\* AssignInt64 and AssignUint64 of a Decimal.
DecimalOf(v) == Dec(0, AssignInt64(v))
=============================================================================
