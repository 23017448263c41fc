----------------------------- MODULE DataBuffer -----------------------------
(***************************************************************************)
(* ApplicationDataBuffer: a value of a result is converted into the memory *)
(* of the application, by the C type that the application asked for, and   *)
(* the parameters of the application are read back from such memory.       *)
(*                                                                         *)
(* A text is the sequence of its numeric fields, which one character       *)
(* separates: the digits, not the characters, are what a reader scans.     *)
(* Memory holds a number, a text of which "kept" characters are there, a   *)
(* date or time structure, or an interval structure; it also says how many *)
(* bytes were written, and whether a byte before the buffer was.           *)
(***************************************************************************)
EXTENDS Decimal

CONSTANTS Bits,        \* bits of the integer types char, short, long, bigint
          WcharSize,   \* sizeof(SQLWCHAR)
          LongSize     \* sizeof(long): eight on LP64, four on Windows

ASSUME DataBufferAssumption ==
  /\ Bits \in [{"char", "short", "long", "bigint"} -> Nat \ {0}]
  /\ Bits.char <= Bits.short /\ Bits.short <= Bits.long /\ Bits.long <= Bits.bigint
  /\ Bits.bigint = 2 * WordBits
  /\ WcharSize \in {2, 4} /\ LongSize \in {4, 8}

-----------------------------------------------------------------------------
(* Types.                                                                  *)

SignedTypes == {"SIGNED_TINYINT", "SIGNED_SHORT", "SIGNED_LONG", "SIGNED_BIGINT"}
UnsignedTypes == {"BIT", "UNSIGNED_TINYINT", "UNSIGNED_SHORT", "UNSIGNED_LONG", "UNSIGNED_BIGINT"}
FloatTypes == {"FLOAT", "DOUBLE"}
TextTypes == {"CHAR", "WCHAR"}
YearMonthTypes == {"INTERVAL_YEAR", "INTERVAL_MONTH", "INTERVAL_YEAR_TO_MONTH"}
DaySecondTypes ==
  {"INTERVAL_DAY", "INTERVAL_HOUR", "INTERVAL_MINUTE", "INTERVAL_SECOND",
   "INTERVAL_DAY_TO_HOUR", "INTERVAL_DAY_TO_MINUTE", "INTERVAL_DAY_TO_SECOND",
   "INTERVAL_HOUR_TO_MINUTE", "INTERVAL_HOUR_TO_SECOND", "INTERVAL_MINUTE_TO_SECOND"}
IntervalTypes == YearMonthTypes \union DaySecondTypes

\* type_traits::ToDriverType: the C types of the application.
ToDriverType ==
  [SQL_C_CHAR |-> "CHAR", SQL_C_WCHAR |-> "WCHAR", SQL_C_SSHORT |-> "SIGNED_SHORT",
   SQL_C_SHORT |-> "SIGNED_SHORT", SQL_C_USHORT |-> "UNSIGNED_SHORT", SQL_C_SLONG |-> "SIGNED_LONG",
   SQL_C_LONG |-> "SIGNED_LONG", SQL_C_ULONG |-> "UNSIGNED_LONG", SQL_C_FLOAT |-> "FLOAT",
   SQL_C_DOUBLE |-> "DOUBLE", SQL_C_BIT |-> "BIT", SQL_C_STINYINT |-> "SIGNED_TINYINT",
   SQL_C_TINYINT |-> "SIGNED_TINYINT", SQL_C_UTINYINT |-> "UNSIGNED_TINYINT",
   SQL_C_SBIGINT |-> "SIGNED_BIGINT", SQL_C_UBIGINT |-> "UNSIGNED_BIGINT", SQL_C_BINARY |-> "BINARY",
   SQL_C_DATE |-> "TDATE", SQL_C_TYPE_DATE |-> "TDATE", SQL_C_TIME |-> "TTIME",
   SQL_C_TYPE_TIME |-> "TTIME", SQL_C_TIMESTAMP |-> "TTIMESTAMP",
   SQL_C_TYPE_TIMESTAMP |-> "TTIMESTAMP", SQL_C_NUMERIC |-> "NUMERIC", SQL_C_DEFAULT |-> "DEFAULT",
   SQL_C_INTERVAL_YEAR |-> "INTERVAL_YEAR", SQL_C_INTERVAL_MONTH |-> "INTERVAL_MONTH",
   SQL_C_INTERVAL_DAY |-> "INTERVAL_DAY", SQL_C_INTERVAL_HOUR |-> "INTERVAL_HOUR",
   SQL_C_INTERVAL_MINUTE |-> "INTERVAL_MINUTE", SQL_C_INTERVAL_SECOND |-> "INTERVAL_SECOND",
   SQL_C_INTERVAL_DAY_TO_HOUR |-> "INTERVAL_DAY_TO_HOUR",
   SQL_C_INTERVAL_DAY_TO_MINUTE |-> "INTERVAL_DAY_TO_MINUTE",
   SQL_C_INTERVAL_HOUR_TO_MINUTE |-> "INTERVAL_HOUR_TO_MINUTE",
   SQL_C_INTERVAL_HOUR_TO_SECOND |-> "INTERVAL_HOUR_TO_SECOND",
   SQL_C_INTERVAL_MINUTE_TO_SECOND |-> "INTERVAL_MINUTE_TO_SECOND",
   SQL_C_INTERVAL_YEAR_TO_MONTH |-> "INTERVAL_YEAR_TO_MONTH",
   SQL_C_INTERVAL_DAY_TO_SECOND |-> "INTERVAL_DAY_TO_SECOND"]

IntSize(type) ==
  CASE type \in {"SIGNED_TINYINT", "UNSIGNED_TINYINT", "BIT"} -> <<"char", 1>>
    [] type \in {"SIGNED_SHORT", "UNSIGNED_SHORT"} -> <<"short", 2>>
    [] type \in {"SIGNED_LONG", "UNSIGNED_LONG"} -> <<"long", 4>>
    [] type \in {"SIGNED_BIGINT", "UNSIGNED_BIGINT"} -> <<"bigint", 8>>

\* Bytes of the structure that a conversion writes.
StructSize(type) ==
  CASE type \in SignedTypes \union UnsignedTypes -> IntSize(type)[2]
    [] type = "FLOAT" -> 4
    [] type = "DOUBLE" -> 8
    [] type = "NUMERIC" -> 19
    [] type \in {"TDATE", "TTIME"} -> 6
    [] type = "TTIMESTAMP" -> 16
    [] type \in IntervalTypes -> 28

\* The distance of two rows of a bound column.
GetElementSize(b) ==
  IF b.type \in TextTypes \union {"BINARY"} THEN b.buflen
  ELSE IF b.type \in IntervalTypes \union {"DEFAULT"} THEN 0
  ELSE StructSize(b.type)

-----------------------------------------------------------------------------
(* Texts.                                                                  *)

Abs(n) == IF n < 0 THEN -n ELSE n
NTS == -3     \* SQL_NTS

\* C++ division truncates towards zero.
Quotient(a, b) == IF a < 0 THEN -((-a) \div b) ELSE a \div b

Digits(n) == CHOOSE d \in 1..9 : n < 10^d /\ (d = 1 \/ n >= 10^(d - 1))
Printed(n) == [v |-> n, w |-> Digits(Abs(n)) + (IF n < 0 THEN 1 ELSE 0)]
\* "%02d": at least w characters, of which the sign is one.
Padded(n, w) == [v |-> n, w |-> IF Printed(n).w > w THEN Printed(n).w ELSE w]

\* Characters that do not start with a digit: as a number they are zero.
CharField(chars) == <<[v |-> 0, w |-> Len(chars), chars |-> chars]>>

Offset(text, i) == FoldLeft(LAMBDA acc, f : acc + f.w + 1, 0, SubSeq(text, 1, i - 1))
Length(text) == IF text = << >> THEN 0 ELSE Offset(text, Len(text) + 1) - 1

\* sscanf: the i-th field of a text of which "kept" characters are left, or
\* what the variable held before.
Scan(mem, i, before) ==
  LET f == mem.text[i]
      room == mem.kept - Offset(mem.text, i)
  IN IF i > Len(mem.text) \/ room <= 0 THEN before
     ELSE IF room >= f.w THEN f.v
     ELSE Quotient(f.v, 10^(f.w - room))

DateText(tm) == <<Padded(tm.year, 4), Padded(tm.mon, 2), Padded(tm.mday, 2)>>
TimeText(tm, ns) == <<Padded(tm.hour, 2), Padded(tm.min, 2), Padded(tm.sec, 2), Padded(ns, 9)>>
YearMonthText(i) == <<Printed(i.year), Printed(i.month)>>
DaySecondText(i) ==
  <<Printed(i.day), Padded(i.hour, 2), Padded(i.minute, 2), Padded(i.second, 2),
    Padded(i.fraction, 9)>>

-----------------------------------------------------------------------------
(* Calendar: gmtime and timegm of the C library.                           *)

Tm(y, mo, d, h, mi, s) == [year |-> y, mon |-> mo, mday |-> d, hour |-> h, min |-> mi, sec |-> s]

\* Days from 1970-01-01; months and days need not be in range.
DaysFromCivil(y0, mo0, d) ==
  LET y1 == y0 + ((mo0 - 1) \div 12)
      mo == ((mo0 - 1) % 12) + 1
      y  == IF mo <= 2 THEN y1 - 1 ELSE y1
      era == y \div 400
      doy == (153 * (mo + (IF mo > 2 THEN -3 ELSE 9)) + 2) \div 5 + d - 1
  IN era * 146097 + (y % 400) * 365 + (y % 400) \div 4 - (y % 400) \div 100 + doy - 719468

IgniteTimeGm(tm) ==
  DaysFromCivil(tm.year, tm.mon, tm.mday) * 86400 + tm.hour * 3600 + tm.min * 60 + tm.sec

IgniteGmTime(t) ==
  LET z == t \div 86400 + 719468
      s == t % 86400
      \* The month counted from March.
      date(yoe, doy, mp) ==
        Tm(yoe + (z \div 146097) * 400 + (IF mp < 10 THEN 0 ELSE 1), IF mp < 10 THEN mp + 3 ELSE mp - 9,
           doy - (153 * mp + 2) \div 5 + 1, s \div 3600, (s % 3600) \div 60, s % 60)
      dayOf(yoe, doy) == date(yoe, doy, (5 * doy + 2) \div 153)
      yearOf(doe, yoe) == dayOf(yoe, doe - (365 * yoe + yoe \div 4 - yoe \div 100))
      eraOf(doe) == yearOf(doe, (doe - doe \div 1460 + doe \div 36524 - doe \div 146096) \div 365)
  IN eraOf(z % 146097)

\* Date(ms), Timestamp(ms) and Time(ms).
OfMilliseconds(ms, unit) == [sec |-> Quotient(ms, 1000), ns |-> (ms - Quotient(ms, 1000) * 1000) * unit]

-----------------------------------------------------------------------------
(* Writing.                                                                *)

Untouched == [kind |-> "none"]
Outcome(res, len, mem) == [res |-> res, len |-> len, mem |-> mem]
Unsupported == Outcome("UNSUPPORTED_CONVERSION", "unset", Untouched)

Ind(b, n) == IF b.hasInd THEN n ELSE "unset"
Holding(text, kept, bytes) ==
  [kind |-> "text", text |-> text, kept |-> kept, bytes |-> bytes, before |-> FALSE]

\* CopyUtf8StringToSqlCharString and CopyUtf8StringToWcharString of n
\* characters into buflen bytes.  A wide buffer without room for a character
\* is replaced by one of the driver's own; a narrow one for which nothing is
\* left gets no terminator.
CopyUtf8String(n, size, buflen) ==
  LET room == (buflen \div size) - 1
      fit == IF n <= room THEN n ELSE room
  IN IF buflen = 0 THEN [kept |-> 0, bytes |-> 0, truncated |-> size = 1 /\ n > 0]
     ELSE IF size > 1 /\ buflen <= size THEN [kept |-> 0, bytes |-> 0, truncated |-> FALSE]
     ELSE [kept |-> fit, bytes |-> IF size = 1 /\ fit = 0 THEN 0 ELSE (fit + 1) * size,
           truncated |-> fit < n]

\* Mutant: room for the text, not for its terminator.
PutNarrowNoTerminator(b, text) ==
  LET n == Length(text) IN
  IF ~b.hasData THEN Outcome("SUCCESS", Ind(b, n), Untouched)
  ELSE IF n > b.buflen THEN Outcome("TRUNCATED", Ind(b, n), Holding(text, b.buflen - 1, b.buflen))
  ELSE Outcome("SUCCESS", Ind(b, n), Holding(text, n, n + 1))

\* strncpy and a terminator in the last place when the text does not fit.
PutNarrow(b, text) ==
  LET n == Length(text) IN
  IF ~b.hasData THEN Outcome("SUCCESS", Ind(b, n), Untouched)
  ELSE IF n + 1 > b.buflen
       THEN Outcome("TRUNCATED", Ind(b, n),
                    [Holding(text, b.buflen - 1, b.buflen) EXCEPT !.before = b.buflen = 0])
  ELSE Outcome("SUCCESS", Ind(b, n), Holding(text, n, n + 1))

\* CopyStringToBuffer; the indicator counts characters.
PutWide(b, text) ==
  LET n == Length(text)
      copy == CopyUtf8String(n, WcharSize, b.buflen)
  IN IF ~b.hasData THEN Outcome("SUCCESS", Ind(b, n), Untouched)
     ELSE Outcome(IF copy.truncated THEN "TRUNCATED" ELSE "SUCCESS", Ind(b, n),
                  Holding(text, copy.kept, copy.bytes))

PutText(b, text) == IF b.type = "CHAR" THEN PutNarrow(b, text) ELSE PutWide(b, text)

\* PutStrToStrBuffer of a cell that is read from its start.
PutStrToStrBuffer(b, text, size) ==
  LET n == Length(text)
      copy == CopyUtf8String(n, size, b.buflen)
      written == IF size > 1 /\ 0 < b.buflen /\ b.buflen <= size THEN n ELSE copy.kept
      left == IF n # written THEN n - written ELSE n
  IN IF ~b.hasData THEN Outcome("SUCCESS", Ind(b, n * size), Untouched)
     ELSE IF n = 0 THEN Outcome("NO_DATA", "unset", Untouched)
     ELSE Outcome(IF copy.truncated THEN "TRUNCATED" ELSE "SUCCESS", Ind(b, left * size),
                  Holding(text, copy.kept, copy.bytes))

PutNull(b) ==
  IF b.hasInd THEN Outcome("SUCCESS", "NULL_DATA", Untouched)
  ELSE Outcome("INDICATOR_NEEDED", "unset", Untouched)

Struct(b, mem) ==
  IF b.hasData THEN [mem EXCEPT !.bytes = StructSize(b.type)] ELSE Untouched

\* Structures of dates, times, intervals and decimals are filled without a
\* look at the pointer.
Filled(b, mem) == IF b.hasData THEN Struct(b, mem) ELSE [kind |-> "crash"]

\* static_cast to an integer type.
Cast(type, v) ==
  LET w == 2^(Bits[IntSize(type)[1]])
      u == v % w
  IN IF type \in SignedTypes /\ u >= w \div 2 THEN u - w ELSE u

PutDateStruct(b, tm, ns, res) ==
  Outcome(res, Ind(b, StructSize(b.type)),
          Filled(b, [kind |-> b.type, tm |-> tm, ns |-> ns, bytes |-> 0, before |-> FALSE]))

PutDate(b, sec) ==
  LET put(tm) ==
        CASE b.type = "CHAR" -> PutNarrow(b, DateText(tm))
          \* The length of the buffer in bytes is compared with characters.
          [] b.type = "WCHAR" ->
               [PutWide(b, DateText(tm)) EXCEPT !.res = IF Length(DateText(tm)) + 1 > b.buflen
                                                        THEN "TRUNCATED" ELSE "SUCCESS"]
          [] b.type \in {"TDATE", "TTIMESTAMP"} -> PutDateStruct(b, tm, 0, "SUCCESS")
          [] OTHER -> Unsupported
  IN put(IgniteGmTime(sec))

PutTimestamp(b, ts) ==
  LET put(tm) ==
        CASE b.type \in TextTypes -> PutText(b, DateText(tm) \o TimeText(tm, ts.ns))
          [] b.type \in {"TDATE", "TTIME"} -> PutDateStruct(b, tm, 0, "FRACTIONAL_TRUNCATED")
          [] b.type = "TTIMESTAMP" -> PutDateStruct(b, tm, ts.ns, "SUCCESS")
          [] OTHER -> Unsupported
  IN put(IgniteGmTime(ts.sec))

\* A time always counts as truncated in a time structure.
PutTime(b, t) ==
  LET put(tm) ==
        CASE b.type \in TextTypes -> PutText(b, TimeText(tm, t.ns))
          [] b.type = "TTIME" -> PutDateStruct(b, tm, 0, "TRUNCATED")
          [] b.type = "TTIMESTAMP" -> PutDateStruct(b, tm, t.ns, "SUCCESS")
          [] OTHER -> Unsupported
  IN put(IgniteGmTime(t.sec))

\* The fields of an interval structure that a type has.
IntervalFields(type) ==
  LET order == <<"day", "hour", "minute", "second">>
      between(a, z) == {order[i] : i \in a..z} \union (IF z = 4 THEN {"fraction"} ELSE {})
  IN CASE type = "INTERVAL_YEAR" -> {"year"}
       [] type = "INTERVAL_MONTH" -> {"month"}
       [] type = "INTERVAL_YEAR_TO_MONTH" -> {"year", "month"}
       [] type = "INTERVAL_DAY" -> between(1, 1)
       [] type = "INTERVAL_HOUR" -> between(2, 2)
       [] type = "INTERVAL_MINUTE" -> between(3, 3)
       [] type = "INTERVAL_SECOND" -> between(4, 4)
       [] type = "INTERVAL_DAY_TO_HOUR" -> between(1, 2)
       [] type = "INTERVAL_DAY_TO_MINUTE" -> between(1, 3)
       [] type = "INTERVAL_DAY_TO_SECOND" -> between(1, 4)
       [] type = "INTERVAL_HOUR_TO_MINUTE" -> between(2, 3)
       [] type = "INTERVAL_HOUR_TO_SECOND" -> between(2, 4)
       [] type = "INTERVAL_MINUTE_TO_SECOND" -> between(3, 4)

Parts(i) == IF i.kind = "year-month" THEN <<"year", "month">>
            ELSE <<"day", "hour", "minute", "second", "fraction">>

\* The first field that is not zero tells the sign.
IsNegative(i) ==
  \E k \in 1..Len(Parts(i)) :
    /\ i[Parts(i)[k]] < 0
    /\ \A j \in 1..(k - 1) : i[Parts(i)[j]] = 0

\* SetIntervalBufferValue: fields that the interval does not have are zero.
IntervalStruct(b, i) ==
  [kind |-> b.type, bytes |-> 0, before |-> FALSE,
   sign |-> IF IsNegative(i) THEN "SQL_FALSE" ELSE "SQL_TRUE",
   val |-> [f \in IntervalFields(b.type) |-> IF f \in Range(Parts(i)) THEN Abs(i[f]) ELSE 0]]

PutIntervalStruct(b, i) ==
  IF b.type \notin IntervalTypes THEN Unsupported
  ELSE Outcome("SUCCESS", Ind(b, StructSize(b.type)), Filled(b, IntervalStruct(b, i)))

PutIntervalYearMonth(b, i) ==
  IF b.type \in TextTypes THEN PutText(b, YearMonthText(i)) ELSE PutIntervalStruct(b, i)

PutIntervalDaySecond(b, i) ==
  IF b.type \in TextTypes THEN PutText(b, DaySecondText(i)) ELSE PutIntervalStruct(b, i)

PutInterval(b, i) ==
  IF i.kind = "year-month" THEN PutIntervalYearMonth(b, i) ELSE PutIntervalDaySecond(b, i)

NumericLen == 16     \* SQL_MAX_NUMERIC_LEN

\* The bytes of a magnitude in a numeric structure, the lowest first.
NumericBytes(x) ==
  LET bytes == Reverse(MagnitudeToBytes(x))
  IN [i \in 1..NumericLen |-> IF i <= Len(bytes) THEN bytes[i] ELSE 0]

Numeric(x, sign, precision) ==
  [kind |-> "numeric", val |-> NumericBytes(x), sign |-> sign, scale |-> 0,
   precision |-> precision, bytes |-> 0, before |-> FALSE]

PutRawDataToBuffer(b, v, vsize) ==
  Outcome(IF b.buflen < vsize THEN "TRUNCATED" ELSE "SUCCESS", Ind(b, vsize),
          IF ~b.hasData THEN Untouched
          ELSE [kind |-> "raw", v |-> v, before |-> FALSE,
                bytes |-> IF b.buflen < vsize THEN b.buflen ELSE vsize])

\* A number of vsize bytes.
PutNum(b, v, vsize) ==
  LET num(x) == Outcome("SUCCESS", Ind(b, StructSize(b.type)),
                        Struct(b, [kind |-> "num", v |-> x, bytes |-> 0, before |-> FALSE]))
  IN CASE b.type \in SignedTypes \union UnsignedTypes -> num(Cast(b.type, v))
       [] b.type \in FloatTypes -> num(v)
       [] b.type \in TextTypes ->
            PutStrToStrBuffer(b, <<Printed(v)>>, IF b.type = "CHAR" THEN 1 ELSE WcharSize)
       [] b.type = "NUMERIC" ->
            Outcome("SUCCESS", Ind(b, 19),
                    Struct(b, Numeric(AssignUint64(Abs(v)), v >= 0, DigitLength(Abs(v), WordBits))))
       [] b.type \in {"BINARY", "DEFAULT"} -> PutRawDataToBuffer(b, v, vsize)
       [] b.type = "TDATE" -> PutDate(b, OfMilliseconds(v, 0).sec)
       [] b.type = "TTIMESTAMP" -> PutTimestamp(b, OfMilliseconds(v, 1000000))
       [] b.type = "TTIME" -> PutTime(b, OfMilliseconds(v, 100000))
       [] OTHER -> Unsupported

\* A text converts to the number it starts with.
PutString(b, text) ==
  LET number == IF text = << >> THEN 0 ELSE text[1].v IN
  CASE b.type \in SignedTypes \union UnsignedTypes \union FloatTypes \union {"NUMERIC"} ->
         PutNum(b, number, 8)
    [] b.type \in {"CHAR", "BINARY", "DEFAULT"} -> PutStrToStrBuffer(b, text, 1)
    [] b.type = "WCHAR" -> PutStrToStrBuffer(b, text, WcharSize)
    [] OTHER -> Unsupported

-----------------------------------------------------------------------------
(* Reading.                                                                *)

Epoch == Tm(1970, 1, 1, 0, 0, 0)
Zeroed == Tm(1900, 1, 0, 0, 0, 0)    \* a tm of zeroes

WithTime(tm, from) == [tm EXCEPT !.hour = from.hour, !.min = from.min, !.sec = from.sec]
WithDate(tm, from) == [tm EXCEPT !.year = from.year, !.mon = from.mon, !.mday = from.mday]

\* IsDataAtExec, GetDataAtExecSize and GetInputSize: how long a parameter is.
\* An indicator is << >>, <<n>> for a length and <<"AT_EXEC", n>> otherwise.
GetInputSize(b, indicator) ==
  IF indicator = << >> THEN NTS
  ELSE IF Len(indicator) = 1 THEN indicator[1]
  ELSE IF b.type = "WCHAR" THEN indicator[2] * 2
  ELSE IF b.type \in {"CHAR", "BINARY"} THEN indicator[2]
  ELSE IF b.type \in IntervalTypes \union {"DEFAULT"} THEN 0
  ELSE IF b.type \in {"SIGNED_LONG", "UNSIGNED_LONG"} THEN LongSize
  ELSE StructSize(b.type)

\* The text of a parameter, no longer than its input size.
Received(b, mem, size) ==
  LET n == IF b.type = "CHAR" THEN size ELSE size \div WcharSize
  IN IF size = NTS THEN mem
     ELSE [mem EXCEPT !.kept = IF n < mem.kept THEN n ELSE mem.kept]

ScanDate(mem) ==
  Tm(Scan(mem, 1, 0), Scan(mem, 2, 0), Scan(mem, 3, 0),
     Scan(mem, 4, 0), Scan(mem, 5, 0), Scan(mem, 6, 0))

\* GetDate and GetTimestamp fill a tm in the same way; a text of size zero
\* leaves it as it is.
DateFields(b, mem, size) ==
  CASE mem.kind = "TDATE" -> WithDate(Zeroed, mem.tm)
    [] mem.kind = "TTIME" -> WithTime(Epoch, mem.tm)
    [] mem.kind = "TTIMESTAMP" -> mem.tm
    [] mem.kind = "text" /\ size # 0 -> ScanDate(Received(b, mem, size))
    [] OTHER -> Zeroed

GetDate(b, mem, size) == IgniteTimeGm(DateFields(b, mem, size))

\* Mutant: the fraction is lost.
GetTimestampSeconds(b, mem, size) == [sec |-> IgniteTimeGm(DateFields(b, mem, size)), ns |-> 0]

\* Only a structure carries the fraction of a second.
GetTimestamp(b, mem, size) ==
  [sec |-> IgniteTimeGm(DateFields(b, mem, size)),
   ns |-> IF mem.kind = "TTIMESTAMP" THEN mem.ns ELSE 0]

ClockFields(mem) == Tm(0, 0, 0, Scan(mem, 1, 0), Scan(mem, 2, 0), Scan(mem, 3, 0))

GetTime(b, mem, size) ==
  IgniteTimeGm(
    CASE mem.kind \in {"TTIME", "TTIMESTAMP"} -> WithTime(Epoch, mem.tm)
      [] mem.kind = "text" /\ size # 0 -> WithTime(Epoch, ClockFields(Received(b, mem, size)))
      [] OTHER -> Epoch)

\* GetNum<T> for T as wide as a type.  A long of eight bytes takes the four
\* after those of an SQLINTEGER along, stray.
GetNum(b, type, mem, size, stray) ==
  LET low == mem.v % 2^Bits.long
      long == IF LongSize = 8 THEN low + stray * 2^Bits.long ELSE mem.v
  IN CASE mem.kind = "num" /\ b.type \in {"SIGNED_LONG", "UNSIGNED_LONG"} -> Cast(type, long)
       [] mem.kind = "num" /\ b.type \notin {"SIGNED_LONG", "UNSIGNED_LONG"} -> Cast(type, mem.v)
       [] mem.kind = "numeric" ->
            Cast(type, DecimalToInt64(Dec(mem.scale, FromBytes(mem.val, IF mem.sign THEN 1 ELSE -1, FALSE))))
       [] mem.kind = "text" -> IF size = 0 THEN 0 ELSE Cast(type, Scan(Received(b, mem, size), 1, 0))
       [] OTHER -> 0

\* GetString: the text, or the digits of a number.
GetString(b, mem, size, stray, maxLen) ==
  LET wide == IF b.type \in UnsignedTypes THEN "UNSIGNED_BIGINT" ELSE "SIGNED_BIGINT"
      got == Received(b, mem, size)
      all(text) == [text |-> text, kept |-> Length(text)]
  IN CASE b.type \in TextTypes /\ size = 0 -> all(<< >>)
       [] b.type \in TextTypes /\ size # 0 ->
            [text |-> got.text, kept |-> IF got.kept > maxLen THEN maxLen ELSE got.kept]
       [] b.type \in SignedTypes \union UnsignedTypes ->
            all(<<Printed(GetNum(b, wide, mem, size, stray))>>)
       [] b.type \in FloatTypes \union {"NUMERIC"} ->
            all(<<Printed(IF mem.kind = "num" THEN mem.v
                          ELSE GetNum(b, "SIGNED_BIGINT", mem, size, stray))>>)
       [] OTHER -> all(<< >>)

-----------------------------------------------------------------------------
(* Decimals.  Their text is a single field of characters.                  *)

DecimalField(d) == CharField(DecimalText(d))

\* A decimal without digits after the point is put into a numeric structure
\* as the zero that SetScale leaves.
PutNumeric(b, zeroScaled) ==
  Outcome(IF Len(MagnitudeToBytes(zeroScaled)) > NumericLen
          THEN "FRACTIONAL_TRUNCATED" ELSE "SUCCESS",
          Ind(b, StructSize("NUMERIC")),
          Filled(b, Numeric(zeroScaled, zeroScaled.sign > 0, GetPrecision(zeroScaled))))

PutDecimal(b, d) ==
  CASE b.type \in SignedTypes \union UnsignedTypes \union FloatTypes ->
         [PutNum(b, IF b.type \in FloatTypes THEN DecimalText(d) ELSE DecimalToInt64(d), 8)
            EXCEPT !.res = "FRACTIONAL_TRUNCATED"]
    [] b.type \in TextTypes ->
         PutStrToStrBuffer(b, DecimalField(d), IF b.type = "CHAR" THEN 1 ELSE WcharSize)
    [] b.type = "NUMERIC" -> PutNumeric(b, SetScale(d, 0).magnitude)
    [] OTHER -> Unsupported

GetDecimal(b, mem, size, stray) ==
  LET got == Received(b, mem, size) IN
  CASE b.type \in TextTypes /\ size = 0 -> Zero
    [] b.type \in FloatTypes \/ (b.type \in TextTypes /\ size # 0) ->
         DecimalParse(IF b.type \in FloatTypes THEN mem.v
                      ELSE SubSeq(got.text[1].chars, 1, got.kept))
    [] b.type \in SignedTypes \union UnsignedTypes ->
         DecimalOf(GetNum(b, IF b.type \in UnsignedTypes \ {"BIT"} THEN "UNSIGNED_BIGINT"
                             ELSE "SIGNED_BIGINT", mem, size, stray))
    [] b.type = "NUMERIC" -> Dec(mem.scale, FromBytes(mem.val, IF mem.sign THEN 1 ELSE -1, FALSE))
    [] OTHER -> Zero
=============================================================================
