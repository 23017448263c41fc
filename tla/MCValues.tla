------------------------------ MODULE MCValues ------------------------------
EXTENDS Values

\* Few bits per integer type; two words of four bits make an int64_t.
MCBits == [char |-> 2, short |-> 3, long |-> 4, bigint |-> 8]

Buffer(type, n) == [type |-> type, buflen |-> n, hasData |-> TRUE, hasInd |-> TRUE]

\* Every type; texts at the lengths around those of a date (10), a time (18) and a
\* timestamp (29), of one and of four bytes per character.
MCBuffers ==
  {Buffer(ToDriverType[c], 16) : c \in DOMAIN ToDriverType \ {"SQL_C_CHAR", "SQL_C_WCHAR"}}
    \union {Buffer("CHAR", n) : n \in {0, 1, 2, 10, 11, 18, 19, 29, 30, 40}}
    \union {Buffer("WCHAR", n) : n \in {0, 2, 4, 8, 12, 40, 44, 72, 76, 116, 120}}
    \union {[Buffer(t, 16) EXCEPT !.hasData = FALSE] : t \in {"CHAR", "NUMERIC", "TDATE"}}
    \union {[Buffer(t, 16) EXCEPT !.hasInd = FALSE] : t \in {"WCHAR", "SIGNED_LONG", "TTIMESTAMP"}}

MCWhole64 == {-128, -17, -8, -2, -1, 0, 1, 3, 7, 9, 10, 15, 16, 99, 100, 127}

\* Before and at the epoch, leap days, the turn of a year and of a century.
MCInstants ==
  {[sec |-> s, ns |-> n] : s \in {-86401, -1, 0, 1, 951782399, 951782400, 951868800, 1709164799,
                                  1709251199, 1735689599, 1735689600, 2147483000},
                           n \in {0, 999999999}}

MCIntervals ==
  {[kind |-> "year-month", year |-> s * y, month |-> s * m] :
     s \in {-1, 1}, y \in {0, 12}, m \in {0, 3}}
  \union
  {[kind |-> "day-second", day |-> s * d, hour |-> s * h, minute |-> s * m, second |-> s * c,
    fraction |-> s * f] :
     s \in {-1, 1}, d \in {0, 5}, h \in {0, 23}, m \in {0, 59}, c \in {0, 1}, f \in {0, 5}}

Scalar(n) == [kind |-> "scalar", text |-> [i \in 1..n |-> "x"]]
Flat == {Scalar(0), Scalar(2), Scalar(7), Scalar(9), [kind |-> "null"], [kind |-> "row without data"]}
UpTo2(S) == UNION {[1..n -> S] : n \in 0..2}
Nested(S) == {[kind |-> k, vals |-> v] : k \in {"array", "row"}, v \in UpTo2(S)}
Series(S) ==
  {[kind |-> "series", points |-> p] :
     p \in UpTo2({[time |-> <<"t">>, value |-> d] : d \in S \union {[kind |-> "none"]}})}
Some == {[kind |-> "array", vals |-> << >>], [kind |-> "array", vals |-> <<Scalar(2), Scalar(2)>>],
         [kind |-> "row", vals |-> <<Scalar(2)>>]}
MCDatums == Nested(Flat) \union Series({Scalar(2), Scalar(9), [kind |-> "null"]})
              \union Nested(Some) \union {[kind |-> "none"], [kind |-> "null"]}

Magnitudes(n) == {m \in UNION {[1..k -> {0, 1, 8, 15}] : k \in 1..n} : m[Len(m)] # 0}
MCBigInts == {BigInt(s, m) : s \in {-1, 1}, m \in Magnitudes(4)} \union {AssignInt64(0)}
MCDivisors ==
  {BigInt(1, m) : m \in Magnitudes(2) \union {<<4, 6>>, <<10>>}} \union {BigInt(-1, <<8, 1>>)}

MCDecimals ==
  {Dec(s, BigInt(g, m)) : s \in {-1, 0, 1, 3}, g \in {-1, 1},
     m \in {<<1>>, <<10>>, <<4, 6>>, <<15, 15>>, <<8, 14, 3>>, <<1, 0, 1>>}}
  \union {Dec(0, AssignInt64(0)), Dec(2, AssignInt64(0))}

MCDescribed ==
  {"varchar", "bigint", "double", "boolean", "timestamp", "date", "time", "integer",
   "interval day to second", "interval year to month", "array"}

MCStrays == {0, 15}
MCAssertions == UNION {[1..n -> {"a", "+", "=", "b"}] : n \in 0..5}
=============================================================================
