------------------------------- MODULE Values -------------------------------
(***************************************************************************)
(* The conversions of the driver, each as one call: an argument comes in,  *)
(* the result stays until the call returns.  A conversion keeps no state   *)
(* of its own, so every argument is tried from the same idle state.        *)
(***************************************************************************)
EXTENDS TimestreamColumn, TypeTraits, DriverInfo, Authentication

CONSTANTS
  Buffers,      \* buffers of applications: [type, buflen, hasData, hasInd]
  Whole64,      \* integers that are written into buffers
  Instants,     \* [sec, ns] that are written as dates, times and timestamps
  IntervalSet,  \* intervals of years and months, or of days to seconds
  Datums,       \* nested values of the service
  BigInts,      \* big integers
  Divisors,     \* big integers to divide by
  Decimals,     \* decimals
  Strays,       \* what memory that nobody has written may hold
  Described,    \* names of types that DESCRIBE has
  Assertions    \* texts that Okta's page may encode

VARIABLE call

Idle == [op |-> "none"]
Init == call = Idle

Start(op, arg, out) == call' = [op |-> op, arg |-> arg, out |-> out]

CallPutNum == \E b \in Buffers, v \in Whole64 : Start("PutNum", <<b, v>>, PutNum(b, v, 8))

CallPutTemporal ==
  \E b \in Buffers, t \in Instants :
    \/ Start("PutDate", <<b, t>>, PutDate(b, t.sec))
    \/ Start("PutTime", <<b, t>>, PutTime(b, [t EXCEPT !.sec = t.sec % 86400]))
    \/ Start("PutTimestamp", <<b, t>>, PutTimestamp(b, t))

CallPutInterval ==
  \E b \in Buffers, i \in IntervalSet : Start("PutInterval", <<b, i>>, PutInterval(b, i))

CallPutDecimal == \E b \in Buffers, d \in Decimals : Start("PutDecimal", <<b, d>>, PutDecimal(b, d))

\* What the service sends for a value of a type.  The sign of an interval is
\* written once, before its first field.
Reading(type, of, text) == [type |-> type, of |-> of, datum |-> [kind |-> "scalar", text |-> text]]
OfInstant(t, tm) ==
  {Reading("TIMESTAMP", t, DateText(tm) \o TimeText(tm, t.ns)),
   Reading("DATE", [sec |-> (t.sec \div 86400) * 86400, ns |-> 0], DateText(tm)),
   Reading("TIME", [t EXCEPT !.sec = t.sec % 86400], TimeText(tm, t.ns))}
OfNumber(v) == {Reading(type, v, <<Printed(v)>>) : type \in {"DOUBLE", "INTEGER", "BIGINT"}}
OfInterval(i) ==
  IF i.kind = "year-month"
  THEN Reading("INTERVAL_YEAR_TO_MONTH", i, <<Printed(i.year), Printed(Abs(i.month))>>)
  ELSE Reading("INTERVAL_DAY_TO_SECOND", i,
               <<Printed(i.day), Padded(Abs(i.hour), 2), Padded(Abs(i.minute), 2),
                 Padded(Abs(i.second), 2), Padded(Abs(i.fraction), 9)>>)

Scalars == UNION {OfInstant(t, IgniteGmTime(t.sec)) : t \in Instants}
             \union UNION {OfNumber(v) : v \in Whole64} \union {OfInterval(i) : i \in IntervalSet}
Nesteds == {[type |-> "VARCHAR", of |-> d, datum |-> d] : d \in Datums}

CallRead ==
  \E b \in Buffers, r \in Scalars \union Nesteds, stray \in Strays :
    Start("Read", <<b, r>>, ParseDatum(b, r.type, r.datum, stray))

CallArithmetic ==
  \E x \in BigInts, y \in Divisors, stray \in Strays :
    Start("Arithmetic", <<x, y>>, [product |-> Multiply(x, y), quotient |-> Divide(x, y, stray)])

CallText ==
  \E d \in Decimals : Start("Text", d, DecimalParse(DecimalText(d)))

CallCompare ==
  \E a, b \in Decimals : Start("Compare", <<a, b>>, DecimalCompare(a, b))

\* A column of a result, and a row that DESCRIBE has for a column of a table.
CallDescribe ==
  \E schema \in BOOLEAN :
    LET meta == NewColumnMeta("db", "t", schema) IN
    \/ \E t \in ScalarTypes : Start("Describe", t, ReadMetadata(meta, "c", t))
    \/ \E name \in Described, remark \in {"MEASURE_VALUE", "DIMENSION"} :
         LET read == ReadDescribe(meta, "c", name, remark, 1)
         IN Start("Describe", read.dataType, read)

CallGetFunctions ==
  \E f \in DOMAIN ApiId : Start("GetFunctions", f, InternalGetFunctions(f, FALSE))

CallDecode ==
  \E s \in Assertions :
    Start("Decode", s, DecodeNumericCharacters(
      FlattenSeq([i \in 1..Len(s) |->
        IF s[i] \in DOMAIN HexOf THEN <<"&", "#", "x">> \o HexOf[s[i]] \o <<";">> ELSE <<s[i]>>]), "x"))

Return == call # Idle /\ call' = Idle

Next ==
  \/ /\ call = Idle
     /\ \/ CallPutNum \/ CallPutTemporal \/ CallPutInterval \/ CallPutDecimal
        \/ CallRead \/ CallArithmetic \/ CallText \/ CallCompare
        \/ CallDescribe \/ CallGetFunctions \/ CallDecode
  \/ Return

Spec == Init /\ [][Next]_call

-----------------------------------------------------------------------------
(* What numbers stand for.                                                 *)

MagnitudeValue(x) ==
  FoldLeft(LAMBDA n, i : n + x.mag[i] * Word^(i - 1), 0, [i \in 1..Len(x.mag) |-> i])
Value(x) == x.sign * MagnitudeValue(x)

\* Both sides of a = b * 10^k for the scales of two decimals, as integers.
Aligned(a, b) ==
  LET up(x, y) == Value(x.magnitude) * 10^(IF y.scale > x.scale THEN y.scale - x.scale ELSE 0)
  IN <<up(a, b), up(b, a)>>
SameNumber(a, b) == Aligned(a, b)[1] = Aligned(a, b)[2]

-----------------------------------------------------------------------------
(* Buffers.                                                                *)

Conversions == {"PutNum", "PutDate", "PutTime", "PutTimestamp", "PutInterval", "PutDecimal",
                "Read"}
Converting == call.op \in Conversions
Target == call.arg[1]
Memory == call.out.mem
IsText == Converting /\ Memory.kind = "text"

\* No conversion writes outside of the buffer of the application, whatever the
\* length of the buffer and of the value.  (PutStrToStrBuffer, PutDate,
\* PutTimestamp, PutTime, PutInterval.  A buffer of no bytes is left out: its
\* terminator is written before it.)
TextStaysInBuffer ==
  IsText /\ Target.buflen >= 1 => Memory.bytes <= Target.buflen /\ ~Memory.before

IsDate == call.op = "PutDate" \/ (call.op = "Read" /\ call.arg[2].type = "DATE")

\* A conversion that says SUCCESS has put the whole text there.  Left out: the
\* text of a date in wide characters, whose length is compared with bytes, and
\* wide buffers without room for one character and a terminator.
NoSilentTruncation ==
  /\ IsText
  /\ call.out.res = "SUCCESS"
  /\ ~(Target.type = "WCHAR" /\ (IsDate \/ Target.buflen <= WcharSize))
  => Memory.kept = Length(Memory.text)

\* The rows of a bound column do not overlap: what is written for one row is no
\* longer than the distance to the next.  (GetElementSize.  Intervals and
\* SQL_C_DEFAULT have no distance at all.)
RowsDoNotOverlap ==
  Converting /\ Memory.kind \notin {"none", "crash"}
    /\ Target.type \notin IntervalTypes \union {"DEFAULT"} /\ Target.buflen >= 1
  => Memory.bytes <= GetElementSize(Target)

Complete == Memory.kind # "text" \/ Memory.kept = Length(Memory.text)

\* The sizes that the parameter in that memory may have: none, or the bytes of
\* the text, given at once or at execution.
TextBytes ==
  IF ~IsText THEN 0 ELSE Memory.kept * (IF Target.type = "WCHAR" THEN WcharSize ELSE 1)
GivenSizes ==
  {GetInputSize(Target, i) : i \in {<< >>, <<TextBytes>>, <<"AT_EXEC", TextBytes>>}}

\* The size that the indicator has after the conversion, as an application
\* passes it that gives the same buffer back.
WrittenSizes == IF Target.hasInd THEN {GetInputSize(Target, <<call.out.len>>)} ELSE {}

IsTemporal == call.op \in {"PutDate", "PutTime", "PutTimestamp"}

\* Left out: dates, times and timestamps in wide characters, where PutDate,
\* PutTime and PutTimestamp leave the number of characters and GetInputSize takes
\* it for bytes.
Sizes == GivenSizes \union (IF IsTemporal /\ Target.type = "WCHAR" THEN {} ELSE WrittenSizes)

LongIsWider == Target.type \in {"SIGNED_LONG", "UNSIGNED_LONG"} /\ LongSize # 4

\* A parameter of some size is the date, time or timestamp that was converted, to
\* the precision of its buffer: a date has no time, a time no date, and a text is
\* read up to its whole seconds.
TemporalRead(size) ==
  LET t == call.arg[2]
      day == (t.sec \div 86400) * 86400
  IN CASE call.op = "PutDate" ->
            GetDate(Target, Memory, size) = (IF Target.type = "TTIMESTAMP" THEN t.sec ELSE day)
       [] call.op = "PutTime" -> GetTime(Target, Memory, size) = t.sec % 86400
       [] Target.type = "TDATE" -> GetDate(Target, Memory, size) = day
       [] Target.type = "TTIME" -> GetTime(Target, Memory, size) = t.sec % 86400
       [] OTHER -> GetTimestamp(Target, Memory, size)
                     = [t EXCEPT !.ns = IF Target.type = "TTIMESTAMP" THEN t.ns ELSE 0]

TemporalIsThere == IsTemporal /\ Memory.kind \notin {"none", "crash"} /\ Complete

\* A parameter that is read back from what a conversion wrote is the value that
\* was converted, whatever way its size is given: GetDate after PutDate, GetTime
\* after PutTime and GetTimestamp after PutTimestamp.
TemporalReadsBack == TemporalIsThere => \A size \in Sizes : TemporalRead(size)

\* An integer that fits the C type of a buffer is read back unchanged, also
\* through a text or a numeric structure, whatever memory follows it.  (PutNum
\* and GetNum.  Left out: a long read as a type that is wider than SQLINTEGER,
\* and a negative number of two words in a numeric structure, which
\* BigInteger::ToInt64 negates word by word.)
NumberReadsBack ==
  /\ call.op = "PutNum"
  /\ Memory.kind \in {"num", "numeric", "text"}
  /\ Complete
  /\ Memory.kind = "numeric" => call.arg[2] > -Word
  /\ Target.type \in SignedTypes \union UnsignedTypes => Cast(Target.type, call.arg[2]) = call.arg[2]
  => \A stray \in Strays, size \in Sizes :
       /\ \A type \in SignedTypes :
            Cast(type, call.arg[2]) = call.arg[2] /\ (type = "SIGNED_BIGINT" => ~LongIsWider)
            => GetNum(Target, type, Memory, size, stray) = call.arg[2]
       /\ ~LongIsWider /\ Target.type # "BINARY"
            => GetString(Target, Memory, size, stray, Length(<<Printed(call.arg[2])>>))
                 = [text |-> <<Printed(call.arg[2])>>, kept |-> Length(<<Printed(call.arg[2])>>)]

\* A decimal that a buffer holds as text, and an integer in a buffer of numbers,
\* are read back as the same number.  (PutDecimal, PutNum and GetDecimal.)
DecimalReadsBack ==
  \/ call.op = "PutDecimal" /\ IsText /\ Complete
  \/ /\ call.op = "PutNum" /\ Memory.kind \in {"num", "numeric"} /\ ~LongIsWider
     /\ Target.type \in SignedTypes \union UnsignedTypes \union {"NUMERIC"}
     /\ Memory.kind = "num" => Cast(Target.type, call.arg[2]) = call.arg[2]
  => \A stray \in Strays, size \in Sizes :
       SameNumber(GetDecimal(Target, Memory, size, stray),
                  IF call.op = "PutNum" THEN DecimalOf(call.arg[2]) ELSE call.arg[2])

\* An interval structure has the size of each field and one sign, and the sign
\* is that of the interval as a length of time.  (PutInterval,
\* SetIntervalBufferValue; SQL_FALSE stands for negative.)
IntervalSignIsOfWhole ==
  call.op = "PutInterval" /\ Target.type \in IntervalTypes /\ Memory.kind # "crash"
  => LET i == call.arg[2]
         whole == IF i.kind = "year-month" THEN 12 * i.year + i.month
                  ELSE (((i.day * 24 + i.hour) * 60 + i.minute) * 60 + i.second) * 10 + i.fraction
     IN /\ (Memory.sign = "SQL_FALSE") = (whole < 0)
        /\ \A f \in DOMAIN Memory.val : Memory.val[f] >= 0

\* A scalar of the service is scanned to the value it stands for, whatever was in
\* memory before: an application that asks for text gets the text of the service,
\* any other the structure of the value.  (ParseScalarType.  Left out: a negative
\* interval whose first field is zero, since the scan finds no sign there.)
ScalarArrives ==
  call.op = "Read" /\ call.arg[2].type # "VARCHAR"
  => LET r == call.arg[2] IN
     IF Target.type \in TextTypes
     THEN Memory.kind = "text" => Memory.text = r.datum.text
     ELSE CASE r.type = "TIMESTAMP" -> call.out = PutTimestamp(Target, r.of)
            [] r.type = "DATE" -> call.out = PutDate(Target, r.of.sec)
            [] r.type = "TIME" -> call.out = PutTime(Target, r.of)
            [] r.type \in DOMAIN NumberSize -> call.out = PutNum(Target, r.of, NumberSize[r.type])
            [] OTHER -> ~IsNegative(r.of) \/ r.of[Parts(r.of)[1]] # 0
                        => call.out = PutInterval(Target, r.of)

\* What an application finds in its buffer: the text, cut where the code says
\* so, inside the buffer and inside the distance to the next row.
BufferHoldsValue == TextStaysInBuffer /\ NoSilentTruncation /\ RowsDoNotOverlap

-----------------------------------------------------------------------------
(* Nested values: the text they would have without the buffers in between. *)

RECURSIVE FullText(_)
FullText(d) ==
  LET all(vals) == Joined([i \in 1..Len(vals) |-> FullText(vals[i])]) IN
  CASE d.kind = "scalar" -> d.text
    [] d.kind = "array" -> IF d.vals = << >> THEN << >> ELSE <<"[">> \o all(d.vals) \o <<"]">>
    [] d.kind = "row" -> <<"(">> \o all(d.vals) \o <<")">>
    [] d.kind = "series" ->
         <<"[">> \o Joined([i \in 1..Len(d.points) |->
           Literal("time", 7) \o d.points[i].time \o Literal("value", 9)
             \o FullText(d.points[i].value) \o <<"}">>]) \o <<"]">>
    [] OTHER -> << >>

RECURSIVE ElementsFit(_)
ElementsFit(d) ==
  LET below == CASE d.kind \in {"array", "row"} -> ToSet(d.vals)
                 [] d.kind = "series" -> {p.value : p \in ToSet(d.points)}
                 [] OTHER -> {}
  IN \A e \in below : Len(FullText(e)) < NestedBuffer /\ ElementsFit(e)

Commas(text) == Cardinality({i \in 1..Len(text) : text[i] = ","})

\* A nested value whose elements fit their buffers arrives complete, and one
\* whose elements do not still has a comma for each of its own elements but one.
\* (ParseTimeSeriesType, ParseArrayType, ParseRowType.)
NestedTextComplete ==
  call.op = "Read" /\ call.arg[2].type = "VARCHAR" /\ Memory.kind = "text"
  => LET d == call.arg[2].datum
         text == Memory.text[1].chars
     IN /\ ElementsFit(d) => text = FullText(d)
        /\ /\ d.kind \in {"array", "row"} /\ d.vals # << >>
           /\ \A i \in 1..Len(d.vals) : d.vals[i].kind \in {"scalar", "null"}
           => Commas(text) = Len(d.vals) - 1

\* Values survive the conversions: what is written into a buffer, or comes from
\* the service, is what is read there.
ValueSurvives ==
  /\ TemporalReadsBack /\ NumberReadsBack /\ DecimalReadsBack /\ IntervalSignIsOfWhole
  /\ ScalarArrives /\ NestedTextComplete

-----------------------------------------------------------------------------
(* Numbers.                                                                *)

\* Multiplication is that of the integers, and a product is in normal form.
ProductExact ==
  call.op = "Arithmetic"
  => LET p == call.out.product
     IN Value(p) = Value(call.arg[1]) * Value(call.arg[2]) /\ (IsZero(p) \/ Last(p.mag) # 0)

QuotientIsExact ==
  /\ MagnitudeValue(call.out.quotient.q)
       = MagnitudeValue(call.arg[1]) \div MagnitudeValue(call.arg[2])
  /\ MagnitudeValue(call.out.quotient.rem)
       = MagnitudeValue(call.arg[1]) % MagnitudeValue(call.arg[2])

\* Division by a divisor of up to two words (as every power of ten that the
\* driver prints with) is exact, as far as it does not read memory before the
\* divisor: with a divisor of one word and a dividend of three it does.
DivisionByTwoWordsExact ==
  call.op = "Arithmetic" /\ Len(call.arg[2].mag) <= 2
    /\ (Len(call.arg[2].mag) = 1 => Len(call.arg[1].mag) <= 2)
  => QuotientIsExact

\* The digits of a number are counted right (GetPrecision by a logarithm of the
\* bit length, DigitLength), and its bytes make the same number again.
DigitsAndBytes ==
  call.op = "Arithmetic"
  => LET x == call.arg[1]
         n == MagnitudeValue(x)
     IN /\ GetPrecision(x) = Len(DigitsOf(n))
        /\ n < Double => DigitLength(n, WordBits) = Len(DigitsOf(n))
        /\ IsZero(x) \/ FromBytes(MagnitudeToBytes(x), x.sign, TRUE) = x
        /\ \A w \in {8, 16}, i \in {n % 256, (n % 256) + 1} :
             i > 0 /\ i < 2^8 =>
               /\ 2^BitLengthU32(i, w) > i /\ i >= 2^(BitLengthU32(i, w) - 1)
               /\ i % 2^NumberOfTrailingZerosI32(i, w) = 0
               /\ (i \div 2^NumberOfTrailingZerosI32(i, w)) % 2 = 1
               /\ GetCapasityForSize(i) >= i

\* A decimal that is printed and read again is the same number.
TextReadsBack ==
  call.op = "Text" => SameNumber(call.arg, call.out)

\* Decimals are ordered as the numbers they stand for, whatever their scales.
DecimalOrder ==
  call.op = "Compare"
  => LET v == Aligned(call.arg[1], call.arg[2])
     IN call.out = (IF v[1] > v[2] THEN 1 ELSE IF v[1] < v[2] THEN -1 ELSE 0)

\* Big integers and decimals are numbers: products, quotients by the divisors
\* the driver uses, digits, bytes, texts and the order are those of the values
\* they stand for (BigInteger, Decimal, bits.cpp).
ArithmeticExact ==
  /\ ProductExact /\ DivisionByTwoWordsExact /\ DigitsAndBytes
  /\ TextReadsBack /\ DecimalOrder

-----------------------------------------------------------------------------
(* Types and the driver's lists.                                           *)

Types == ScalarTypes \ {"NOT_SET", "UNKNOWN"}

\* SQLGetTypeInfo for the SQL type of a Timestream type is not refused and lists
\* that type and nothing else.
TypeInfoFindsType ==
  call.op = "Describe" /\ call.arg \in Types
  => /\ IsSqlTypeSupported(BinaryToSqlType(call.arg))
     /\ TypesListed(BinaryToSqlType(call.arg)) = <<call.arg>>

\* The structure that ODBC has for a type, as a C type of the driver.
StructureOf ==
  [BOOLEAN |-> "BIT", INTEGER |-> "SIGNED_LONG", BIGINT |-> "SIGNED_BIGINT", DOUBLE |-> "DOUBLE",
   DATE |-> "TDATE", TIME |-> "TTIME", TIMESTAMP |-> "TTIMESTAMP",
   INTERVAL_DAY_TO_SECOND |-> "INTERVAL_DAY_TO_SECOND",
   INTERVAL_YEAR_TO_MONTH |-> "INTERVAL_YEAR_TO_MONTH"]

\* An application that takes as many bytes as SQLColumns says (BUFFER_LENGTH), or
\* SQLColAttribute (SQL_DESC_OCTET_LENGTH), has room for what the conversions of
\* ApplicationDataBuffer write there, and SQLFetch keeps its rows apart.
BufferLengthIsEnough ==
  call.op = "Describe" /\ call.arg \in DOMAIN StructureOf
  => \A cell \in {ColumnsCell(call.out, "BUFFER_LENGTH", WcharSize),
                   ColumnAttribute(call.out, "SQL_DESC_OCTET_LENGTH", TRUE)} :
       cell[1] >= StructSize(StructureOf[call.arg])

\* The tables of type_traits.cpp, and what TypeInfoQuery and ColumnMeta add to
\* them, describe one kind of type: what has digits or a sign has a radix, what
\* is text has an octet length, is quoted and is case sensitive (and nothing
\* else), and a column is displayed in no less than its size.
DescriptionsAgree ==
  call.op = "Describe" /\ call.arg \in Types
  => LET columns(name) == ColumnsCell(call.out, name, WcharSize)
         attribute(field) == ColumnAttribute(call.out, field, TRUE)
         info(name) == TypeInfoCell(call.arg, name)
         text == columns("CHAR_OCTET_LENGTH") # <<0>>
     IN /\ columns("DECIMAL_DIGITS") # Null \/ info("UNSIGNED_ATTRIBUTE") = <<FALSE>>
             => columns("NUM_PREC_RADIX") # <<0>>
        /\ text = (info("LITERAL_PREFIX") # Null)
        /\ text = (attribute("SQL_DESC_LITERAL_SUFFIX") # <<"">>)
        /\ info("CASE_SENSITIVE") = <<text>> /\ attribute("SQL_DESC_CASE_SENSITIVE") = <<text>>
        /\ attribute("SQL_DESC_DISPLAY_SIZE")[1] >= columns("COLUMN_SIZE")[1]

\* A column that SQLColumns or SQLGetTypeInfo declares without nulls has a value
\* in each of its rows.
DeclaredColumnsWritten ==
  call.op = "Describe"
  => /\ \A i \in 1..Len(ColumnsColumns) :
          ~ColumnsColumns[i].nullable =>
            ColumnsCell(call.out, ColumnsColumns[i].name, WcharSize) # Null
     /\ \A i \in 1..Len(TypeInfoColumns) :
          ~TypeInfoColumns[i].nullable => TypeInfoCell(call.arg, TypeInfoColumns[i].name) # Null

\* The three answers of SQLGetFunctions agree: a function is in the bitmap or in
\* the array exactly if asking for it alone says yes, and no answer is written
\* outside the words the caller provides.
FunctionListsAgree ==
  call.op = "GetFunctions"
  => LET id == ApiId[call.arg]
     IN /\ call.arg \in Odbc3List => id \div 16 <= 249
        /\ call.arg \in Odbc2List => id <= 99
        /\ call.out = \/ id % 16 \in SetODBC3FunctionsValue[id \div 16]
                      \/ id <= 99 /\ SetODBC2FunctionsValue[id]

\* The driver does not contradict itself: its lists of types, of columns and of
\* functions say the same of the same thing (type_traits.cpp, column_meta.cpp,
\* type_info_query.cpp, column_metadata_query.cpp, connection_info.cpp).
ListsAgree ==
  /\ TypeInfoFindsType /\ BufferLengthIsEnough /\ DescriptionsAgree
  /\ DeclaredColumnsWritten /\ FunctionListsAgree

\* The assertion that Okta's page encodes comes out of DecodeNumericCharacters as
\* it was, and a token gets the padding that base64 needs.
AssertionDecoded ==
  call.op = "Decode" => call.out = call.arg /\ (Len(call.arg) + Padding(Len(call.arg))) % 4 = 0
=============================================================================
