----------------------------- MODULE BigInteger -----------------------------
(***************************************************************************)
(* BigInteger and the bit operations under it: a sign and a magnitude, the *)
(* least word first.  A word has WordBits bits (32 in the code, four bytes *)
(* each), so int64_t is two words and UINT64_MAX_PRECISION is the number   *)
(* of powers of ten that two words hold: the algorithms are those of the   *)
(* code, on words that are small enough to try every case.                 *)
(***************************************************************************)
EXTENDS Integers, Sequences, SequencesExt

CONSTANT WordBits

ASSUME WordBitsAssumption == WordBits \in {4, 8}

Word == 2^WordBits
Double == Word * Word
ByteBase == 2^(WordBits \div 4)

-----------------------------------------------------------------------------
(* bits.cpp                                                                *)

\* The halving steps of a search in w bits: w/2, w/4, ..., 2.
HalvingSteps(w) == SelectSeq(<<16, 8, 4, 2>>, LAMBDA s : s < w)

NumberOfLeadingZerosU32(i, w) ==
  LET step(st, s) == IF st.i \div 2^(w - s) = 0 THEN [n |-> st.n + s, i |-> st.i * 2^s] ELSE st
      last == FoldLeft(step, [n |-> 1, i |-> i], HalvingSteps(w))
  IN IF i = 0 THEN w ELSE last.n - last.i \div 2^(w - 1)

\* Two words, the high one first.
NumberOfLeadingZerosU64(i, w) ==
  IF i \div 2^w = 0 THEN w + NumberOfLeadingZerosU32(i, w)
  ELSE NumberOfLeadingZerosU32(i \div 2^w, w)

\* Shifts to the left until the lowest set bit is alone in the highest place.
NumberOfTrailingZerosI32(i, w) ==
  LET shl(x, s) == (x * 2^s) % 2^w
      step(st, s) == IF shl(st.i, s) # 0 THEN [n |-> st.n - s, i |-> shl(st.i, s)] ELSE st
      last == FoldLeft(step, [n |-> w - 1, i |-> i], HalvingSteps(w))
  IN IF i = 0 THEN w ELSE last.n - shl(last.i, 1) \div 2^(w - 1)

BitLengthU32(i, w) == w - NumberOfLeadingZerosU32(i, w)

\* The capacity of an array of a size: a power of two, at least eight.
GetCapasityForSize(size) ==
  LET res == 2^BitLengthU32(size, 16)
  IN IF size <= 8 THEN 8 ELSE IF size > res THEN res * 2 ELSE res

\* Decimal digits of x, a value of two words of w bits, by a multiplication
\* that stands for log10(2).
DigitLength(x, w) ==
  LET r == ((2 * w - NumberOfLeadingZerosU64(x, w) + 1) * 1233) \div 4096
  IN IF x < 10 THEN 1 ELSE IF x < 10^r THEN r ELSE r + 1

\* TenPowerU64: the powers of ten that a double word holds.
MaxPrecision == CHOOSE n \in 1..20 : 10^n >= Double /\ 10^(n - 1) < Double

-----------------------------------------------------------------------------
(* Values.                                                                 *)

BigInt(sign, mag) == [sign |-> sign, mag |-> mag]
IsZero(x) == x.mag = << >>

Normalize(mag) ==
  LET used == {i \in 1..Len(mag) : mag[i] # 0}
  IN IF used = {} THEN << >> ELSE SubSeq(mag, 1, CHOOSE i \in used : \A j \in used : j <= i)

AssignUint64(v) ==
  BigInt(1, IF v = 0 THEN << >> ELSE IF v < Word THEN <<v>> ELSE <<v % Word, v \div Word>>)

AssignInt64(v) == IF v < 0 THEN [AssignUint64(-v) EXCEPT !.sign = -1] ELSE AssignUint64(v)

Negate(x) == IF IsZero(x) THEN x ELSE [x EXCEPT !.sign = -x.sign]

\* The constructor from bytes.  Zero bytes make a positive zero.
FromBytes(bytes, sign, bigEndian) ==
  LET little == Normalize(IF bigEndian THEN Reverse(bytes) ELSE bytes)
      byte(i) == IF i <= Len(little) THEN little[i] ELSE 0
      word(i) == byte(4 * i - 3) + byte(4 * i - 2) * ByteBase
                   + byte(4 * i - 1) * ByteBase^2 + byte(4 * i) * ByteBase^3
  IN IF little = << >> THEN AssignInt64(0)
     ELSE BigInt(sign, [i \in 1..((Len(little) + 3) \div 4) |-> word(i)])

GetBitLength(x) ==
  IF IsZero(x) THEN 0 ELSE BitLengthU32(Last(x.mag), WordBits) + (Len(x.mag) - 1) * WordBits

\* The bytes of the magnitude, the highest first; zero is one byte.
MagnitudeToBytes(x) ==
  LET bits == WordBits \div 4
      n == (GetBitLength(x) + bits - 1) \div bits
      byte(i) == (x.mag[i \div 4 + 1] \div ByteBase^(i % 4)) % ByteBase
  IN IF n = 0 THEN <<0>> ELSE [j \in 1..n |-> byte(n - j)]

-----------------------------------------------------------------------------
(* Arithmetic.                                                             *)

\* n words of zero, as a tuple.
Zeroes(n) == << >> \o [i \in 1..n |-> 0]

\* Mutant: the carry of a row is dropped.
MultiplyNoCarry(x, y) ==
  LET n == Len(x.mag)
      row(mag, i) ==
        FoldLeft(LAMBDA st, j :
                   LET product == x.mag[j] * y.mag[i] + st.mag[i + j - 1] + st.carry
                   IN [mag |-> [st.mag EXCEPT ![i + j - 1] = product % Word],
                       carry |-> product \div Word],
                 [mag |-> mag, carry |-> 0], [j \in 1..n |-> j]).mag
      all == FoldLeft(row, Zeroes(n + Len(y.mag)), [i \in 1..Len(y.mag) |-> i])
  IN BigInt(x.sign * y.sign, Normalize(all))

\* Schoolbook multiplication, word by word; the sign is not looked at again
\* when the product is zero.
Multiply(x, y) ==
  LET n == Len(x.mag)
      row(mag, i) ==
        LET end == FoldLeft(LAMBDA st, j :
                     LET product == x.mag[j] * y.mag[i] + st.mag[i + j - 1] + st.carry
                     IN [mag |-> [st.mag EXCEPT ![i + j - 1] = product % Word],
                         carry |-> product \div Word],
                   [mag |-> mag, carry |-> 0], [j \in 1..n |-> j])
        IN [end.mag EXCEPT ![i + n] = end.carry]
      all == FoldLeft(row, Zeroes(n + Len(y.mag)), [i \in 1..Len(y.mag) |-> i])
  IN BigInt(x.sign * y.sign, Normalize(all))

\* common::Add of two magnitudes from the same place: words and carry.
AddWords(mag, addend) ==
  FoldLeft(LAMBDA st, i :
             LET sum == st.mag[i] + addend[i] + st.carry
             IN [mag |-> [st.mag EXCEPT ![i] = sum % Word], carry |-> sum \div Word],
           [mag |-> mag, carry |-> 0], [i \in 1..Len(addend) |-> i])

\* BigInteger::Add(uint64_t): the magnitude grows, the sign stays.
Add(x, v) ==
  LET addend == AssignUint64(v).mag
      mag == IF Len(x.mag) < Len(addend) THEN x.mag \o <<0>> ELSE x.mag
      low == AddWords(mag, addend)
      high == FoldLeft(LAMBDA st, i :
                LET sum == st.mag[i] + st.carry
                IN [mag |-> [st.mag EXCEPT ![i] = sum % Word], carry |-> sum \div Word],
              low, [i \in 1..(Len(mag) - Len(addend)) |-> Len(addend) + i])
  IN IF v = 0 THEN x
     ELSE IF IsZero(x) THEN AssignUint64(v)
     ELSE [x EXCEPT !.mag = IF high.carry = 0 THEN high.mag ELSE Append(high.mag, high.carry)]

Compare(x, y, ignoreSign) ==
  LET mgt == IF ignoreSign THEN 1 ELSE x.sign
      differ == {i \in 1..Len(x.mag) : x.mag[i] # y.mag[i]}
      top == CHOOSE i \in differ : \A j \in differ : j <= i
  IN IF ~ignoreSign /\ x.sign # y.sign THEN IF x.sign > y.sign THEN 1 ELSE -1
     ELSE IF Len(x.mag) # Len(y.mag) THEN IF Len(x.mag) > Len(y.mag) THEN mgt ELSE -mgt
     ELSE IF differ = {} THEN 0
     ELSE IF x.mag[top] > y.mag[top] THEN mgt ELSE -mgt

RECURSIVE PowLoop(_, _, _)
PowLoop(res, mul, exp) ==
  IF exp = 0 THEN res
  ELSE LET next == IF exp % 2 = 1 THEN Multiply(res, mul) ELSE res
       IN IF exp = 1 THEN next ELSE PowLoop(next, Multiply(mul, mul), exp \div 2)

\* Zero stays zero, whatever the exponent.
Pow(x, exp) ==
  IF exp < 0 THEN AssignInt64(0)
  ELSE IF GetBitLength(x) = 0 THEN x
  ELSE IF GetBitLength(x) = 1 THEN IF exp % 2 = 0 /\ x.sign < 0 THEN BigInt(1, x.mag) ELSE x
  ELSE PowLoop(AssignInt64(1), x, exp)

GetPowerOfTen(n) == IF n < MaxPrecision THEN AssignUint64(10^n) ELSE Pow(AssignInt64(10), n)

\* 646456993 / 2^31 stands for log10(2); the product is taken in two parts.
GetPrecision(x) ==
  LET atLeast(r) == IF Compare(x, GetPowerOfTen(r), TRUE) < 0 THEN r ELSE r + 1
      digits(n) == (n * 9864 + (n * 9889) \div 65536) \div 32768
  IN IF IsZero(x) THEN 1 ELSE atLeast(digits(GetBitLength(x) + 1))

\* GetMagInt: each word is negated by itself.
GetMagInt(x, n) ==
  IF n >= Len(x.mag) THEN IF x.sign > 0 THEN 0 ELSE Word - 1
  ELSE (x.sign * x.mag[n + 1]) % Word

ToInt64(x) ==
  LET v == GetMagInt(x, 1) * Word + GetMagInt(x, 0)
  IN IF v >= Double \div 2 THEN v - Double ELSE v

-----------------------------------------------------------------------------
(* Division.                                                               *)

\* ShiftLeft of a magnitude into one of size words.
ShiftLeft(mag, n, size) ==
  << >> \o
  [i \in 1..size |->
     IF i > Len(mag) THEN 0
     ELSE ((mag[i] * 2^n) % Word)
            + (IF i = 1 \/ n = 0 THEN 0 ELSE mag[i - 1] \div 2^(WordBits - n))]

ShiftRight(mag, n) ==
  [i \in 1..Len(mag) |->
     (mag[i] \div 2^n)
       + (IF i = Len(mag) \/ n = 0 THEN 0 ELSE (mag[i + 1] * 2^(WordBits - n)) % Word)]

\* nu - (a * x) from place at on: the words and the carry.
MultiplyAndSubstruct(nu, at, a, x) ==
  FoldLeft(LAMBDA st, i :
             LET product == a[i] * x
                 difference == st.nu[at + i] - st.carry - (product % Word)
             IN [nu |-> [st.nu EXCEPT ![at + i] = difference % Word],
                 carry |-> (product \div Word) - (difference \div Word)],
           [nu |-> nu, carry |-> 0], [i \in 1..Len(a) |-> i])

RECURSIVE Adjust(_, _, _, _, _)
Adjust(qhat, rhat, top, below, rest) ==
  IF qhat > Word - 1 \/ qhat * below > Word * rhat + rest
  THEN IF rhat + top > Word - 1 THEN qhat - 1
       ELSE Adjust(qhat - 1, rhat + top, top, below, rest)
  ELSE qhat

\* One digit of the quotient.  The words of a magnitude are read with At,
\* which gives stray for the one before the first.  The difference is taken
\* in unsigned words: it is never negative, and nothing is added back.
Digit(st, i, nv, stray) ==
  LET At(mag, k) == IF k < 0 THEN stray ELSE mag[k + 1]
      vlen == Len(nv)
      top == Last(nv)
      qhat(base) == Adjust(base \div top, base % top, top, At(nv, vlen - 2), At(st.nu, i + vlen - 2))
                    % Word
      borrowed(sub) == [sub.nu EXCEPT ![i + vlen + 1] = (@ - sub.carry) % Word]
      next(q) == [nu |-> borrowed(MultiplyAndSubstruct(st.nu, i, nv, q)),
                  q |-> [st.q EXCEPT ![i + 1] = q]]
  IN next(qhat(At(st.nu, i + vlen) * Word + At(st.nu, i + vlen - 1)))

\* Knuth's algorithm D on magnitudes; stray is the word before an array.
DivideMagnitude(u, v, stray) ==
  LET n == Len(u) - Len(v)
      nu(shift) == IF NumberOfLeadingZerosU32(Last(u), WordBits) >= shift
                   THEN ShiftLeft(u, shift, Len(u) + 1)
                   ELSE [ShiftLeft(u, shift, Len(u) + 2)
                           EXCEPT ![Len(u) + 1] = Last(u) \div 2^(WordBits - shift)]
      digits(from, nv) == FoldLeft(LAMBDA st, i : Digit(st, i, nv, stray),
                                   [nu |-> from, q |-> Zeroes(n + 1)],
                                   [k \in 1..(n + 1) |-> n + 1 - k])
      result(end, shift) == [q |-> Normalize(end.q),
                             rem |-> Normalize(ShiftRight(SubSeq(end.nu, 1, Len(v)), shift))]
      shifted(shift) == result(digits(nu(shift), ShiftLeft(v, shift, Len(v))), shift)
  IN shifted(NumberOfLeadingZerosU32(Last(v), WordBits))

Signed(sign, r) == [q |-> BigInt(sign, r.q), rem |-> BigInt(sign, r.rem)]

\* BigInteger::Divide of a divisor that is not zero.  The remainder takes the
\* sign of the quotient, but where the dividend is smaller it is the dividend.
Divide(x, y, stray) ==
  LET cmp == Compare(x, y, TRUE)
      sign == x.sign * y.sign
      big(mag) == IF Len(mag) = 2 THEN mag[1] + mag[2] * Word ELSE mag[1]
      u == big(x.mag)
      v == big(y.mag)
  IN IF cmp = 0 THEN [q |-> AssignInt64(sign), rem |-> AssignInt64(0)]
     ELSE IF cmp = -1 THEN [q |-> AssignInt64(0), rem |-> x]
     ELSE IF GetBitLength(y) = 1 THEN [q |-> BigInt(sign, x.mag), rem |-> AssignInt64(0)]
     ELSE IF Len(x.mag) <= 2
     THEN [q |-> AssignInt64(sign * (u \div v)), rem |-> AssignInt64(sign * (u % v))]
     ELSE Signed(sign, DivideMagnitude(x.mag, y.mag, stray))

-----------------------------------------------------------------------------
(* Text: digits, most significant first.  Signs, the point and the letter  *)
(* of an exponent are characters of their own.                             *)

Minus == -1
Plus == -2
Point == -3
Exponent == -4
IsDigit(c) == c >= 0

DigitsOf(n) == IF n = 0 THEN <<0>>
               ELSE LET d == CHOOSE k \in 1..9 : n < 10^k /\ n >= 10^(k - 1)
                    IN [i \in 1..d |-> (n \div 10^(d - i)) % 10]
PaddedDigits(n, w) == [i \in 1..w |-> (n \div 10^(w - i)) % 10]

\* The least chunk of a number that is still to print, and what is left then.
TakeChunk(st, d) == [left |-> d.q, vals |-> Append(st.vals, ToInt64(d.rem) % Double)]
ChunkStep(st, i) ==
  IF IsZero(st.left) THEN st
  ELSE TakeChunk(st, Divide(st.left, AssignUint64(10^(MaxPrecision - 1)), 0))

\* The first chunk without, the others with leading zeroes.
ChunkDigits(vals) ==
  DigitsOf(Last(vals))
    \o FlattenSeq([i \in 1..(Len(vals) - 1) |->
                     PaddedDigits(vals[Len(vals) - i], MaxPrecision - 1)])

\* operator<<: the largest power of ten of a double word at a time.
Text(x) ==
  IF IsZero(x) THEN <<0>>
  ELSE (IF x.sign < 0 THEN <<Minus>> ELSE << >>)
         \o ChunkDigits(FoldLeft(ChunkStep, [left |-> BigInt(1, x.mag), vals |-> << >>],
                                 [i \in 1..(2 * Len(x.mag)) |-> i]).vals)

Sign(text) == IF text # << >> /\ text[1] \in {Minus, Plus} THEN <<text[1]>> ELSE << >>

\* Digits are gathered in an uint64_t until it is nearly full.
ParseStep(st, d) ==
  LET part == st.part * 10 + d
      n == st.digits + 1
  IN IF part >= 10^(MaxPrecision - 2)
     THEN [mag |-> Add(Multiply(st.mag, GetPowerOfTen(n)), part), part |-> 0, digits |-> 0]
     ELSE [mag |-> st.mag, part |-> part, digits |-> n]

ParseDigits(digits) ==
  LET finish(end) == IF end.digits = 0 THEN end.mag
                     ELSE Add(Multiply(end.mag, GetPowerOfTen(end.digits)), end.part)
  IN finish(FoldLeft(ParseStep, [mag |-> AssignInt64(0), part |-> 0, digits |-> 0], digits))
=============================================================================
