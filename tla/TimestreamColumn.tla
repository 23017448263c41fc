-------------------------- MODULE TimestreamColumn --------------------------
(***************************************************************************)
(* TimestreamColumn: a Datum of the service, read into the buffer of the   *)
(* application.  A scalar is a text that is scanned by the type of the     *)
(* column; time series, arrays and rows become one text, each element of   *)
(* which goes through a buffer of NestedBuffer characters.                 *)
(*                                                                         *)
(* A datum is [kind, ...]: "scalar" with its text, "series" with points,   *)
(* "array" with vals, "row" with vals or none, "null", or "none".  Inside  *)
(* of a nested text a scalar is a sequence of characters.                  *)
(***************************************************************************)
EXTENDS DataBuffer

CONSTANT NestedBuffer        \* BUFFER_SIZE

ASSUME NestedBufferAssumption == NestedBuffer \in Nat \ {0, 1}

-----------------------------------------------------------------------------
(* Scalars.                                                                *)

\* utility::StringToInt and StringToLong: what is not a number is zero.
StringToNumber(text) == IF text = << >> THEN 0 ELSE text[1].v

Whole(text) == Holding(text, Length(text), 0)

\* The fraction of a second has no value before the scan.
ScanTimestamp(text, stray) ==
  LET f(i) == Scan(Whole(text), i, 0)
  IN [sec |-> IgniteTimeGm(Tm(f(1), f(2), f(3), f(4), f(5), f(6))),
      ns |-> Scan(Whole(text), 7, stray)]

ScanTime(text, stray) ==
  LET f(i) == Scan(Whole(text), i, stray)
  IN [sec |-> (f(1) * 60 + f(2)) * 60 + f(3), ns |-> f(4)]

ScanInterval(text, kind, stray) ==
  LET f(i) == Scan(Whole(text), i, stray)
  IN IF kind = "year-month" THEN [kind |-> kind, year |-> f(1), month |-> f(2)]
     ELSE [kind |-> kind, day |-> f(1), hour |-> f(2), minute |-> f(3), second |-> f(4),
           fraction |-> f(5)]

NumberSize == [DOUBLE |-> 8, BOOLEAN |-> 1, INTEGER |-> 4, BIGINT |-> 8]
ScanNumber(scalar, text) ==
  IF scalar = "BOOLEAN" /\ text[1].v # 1 THEN 0 ELSE StringToNumber(text)

ParseScalarType(b, scalar, text, stray) ==
  CASE scalar = "VARCHAR" -> PutString(b, text)
    [] scalar \in DOMAIN NumberSize -> PutNum(b, ScanNumber(scalar, text), NumberSize[scalar])
    [] scalar \in {"NOT_SET", "UNKNOWN"} -> PutNull(b)
    [] scalar = "TIMESTAMP" -> PutTimestamp(b, ScanTimestamp(text, stray))
    [] scalar = "DATE" -> PutDate(b, ScanTimestamp(text, 0).sec)
    [] scalar = "TIME" -> PutTime(b, ScanTime(text, stray))
    [] scalar = "INTERVAL_YEAR_TO_MONTH" -> PutInterval(b, ScanInterval(text, "year-month", stray))
    [] scalar = "INTERVAL_DAY_TO_SECOND" -> PutInterval(b, ScanInterval(text, "day-second", stray))

-----------------------------------------------------------------------------
(* Nested values.                                                          *)

Literal(tag, n) == [i \in 1..n |-> tag]

\* Texts that follow one another with a comma between them.
Separated(parts) ==
  FoldLeft(LAMBDA text, p : IF text = << >> THEN <<p>> ELSE text \o << <<",">>, p>>, << >>, parts)

Joined(parts) == FlattenSeq(Separated(parts))

\* PutString of an element into a buffer of its own, which is empty before.
IntoBuffer(text) ==
  SubSeq(text, 1, IF Len(text) < NestedBuffer THEN Len(text) ELSE NestedBuffer - 1)

RECURSIVE NestedText(_)

ParseTimeSeriesType(points) ==
  LET one(p) == Literal("time", 7) \o p.time \o Literal("value", 9)
                  \o (IF p.value.kind = "none" THEN << >> ELSE IntoBuffer(NestedText(p.value)))
                  \o <<"}">>
  IN <<"[">> \o Joined([i \in 1..Len(points) |-> one(points[i])]) \o <<"]">>

\* An array without elements is the empty text.
ParseArrayType(vals) ==
  IF vals = << >> THEN << >>
  ELSE <<"[">> \o Joined([i \in 1..Len(vals) |-> IntoBuffer(NestedText(vals[i]))]) \o <<"]">>

ParseRowType(vals) ==
  <<"(">> \o Joined([i \in 1..Len(vals) |-> IntoBuffer(NestedText(vals[i]))]) \o <<")">>

\* The text that an element leaves in its buffer; null and failures leave none.
NestedText(d) ==
  CASE d.kind = "scalar" -> d.text
    [] d.kind = "series" -> ParseTimeSeriesType(d.points)
    [] d.kind = "array" -> ParseArrayType(d.vals)
    [] d.kind = "row" -> ParseRowType(d.vals)
    [] OTHER -> << >>

\* ParseDatum.  The result of PutNull is not looked at.
ParseDatum(b, scalar, d, stray) ==
  CASE d.kind = "scalar" -> ParseScalarType(b, scalar, d.text, stray)
    [] d.kind \in {"series", "array", "row"} -> PutString(b, CharField(NestedText(d)))
    [] d.kind = "row without data" -> Outcome("NO_DATA", "unset", Untouched)
    [] d.kind = "null" -> [PutNull(b) EXCEPT !.res = "SUCCESS"]
    [] OTHER -> Outcome("FAILURE", "unset", Untouched)
=============================================================================
