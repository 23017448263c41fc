------------------------ MODULE MetadataQueryProofs ------------------------
(***************************************************************************)
(* Proofs about MetadataQuery, for every catalog, every set of calls and   *)
(* every set of faults: what SQLFetch hands out is the answer, the answer  *)
(* has nothing that was not asked for and, unless an internal query failed *)
(* or was cut short, everything that was.                                  *)
(*                                                                         *)
(* The loops of the driver that filter rows are the recursive function in  *)
(* Keep.  What it computes is proved by looking at the smallest number of  *)
(* rows for which the claim would fail; the actions then only need         *)
(* KeepFacts.                                                              *)
(***************************************************************************)
EXTENDS MetadataQuery, FiniteSetTheorems, WellFoundedInduction, TLAPS

-----------------------------------------------------------------------------
(* Sequences.                                                               *)

\* A set of numbers that is not empty has a smallest one: the proofs by
\* induction below look at the smallest number for which a claim fails.
LEMMA Smallest ==
  ASSUME NEW S \in SUBSET Nat, S # {}
  PROVE  \E x \in S : \A y \in S : x =< y
<1> DEFINE R == OpToRel(<, Nat)
<1>1. \E x \in S : \A y \in S : ~(<<y, x>> \in R)
  BY NatLessThanWellFounded, WFMin, Zenon
<1>2. \A x, y \in Nat : <<y, x>> \in R <=> y < x
  BY DEF OpToRel
<1> HIDE DEF R
<1>3. PICK x \in S : \A y \in S : ~(<<y, x>> \in R)
  BY <1>1
<1>4. \A y \in S : x =< y
  <2> TAKE y \in S
  <2>1. x \in Nat /\ y \in Nat /\ ~(y < x)
    BY <1>2, <1>3
  <2> QED
    BY <2>1
<1> QED
  BY <1>4

\* f is the function that Keep defines, for the first n rows of s
Kept(s, T, f, n) ==
  f = [i \in 0..n |->
        IF i = 0 THEN <<>>
        ELSE IF s[i] \in T THEN Append(f[i - 1], s[i]) ELSE f[i - 1]]

\* The recursion of Keep has a solution.
LEMMA KeptExists ==
  ASSUME NEW S, NEW s \in Seq(S), NEW T
  PROVE  \A n \in 0..Len(s) : \E f : Kept(s, T, f, n)
<1> DEFINE Bad == {n \in Nat : n =< Len(s) /\ ~\E f : Kept(s, T, f, n)}
<1>1. SUFFICES Bad = {}
  OBVIOUS
<1>2. SUFFICES ASSUME Bad # {} PROVE FALSE
  OBVIOUS
<1>3. PICK n \in Bad : \A m \in Bad : n =< m
  BY <1>2, Smallest
<1>4. CASE n = 0
  <2>1. Kept(s, T, [i \in 0..0 |-> <<>>], 0)
    BY DEF Kept
  <2> QED
    BY <1>4, <2>1
<1>5. CASE n # 0
  <2>1. n - 1 \in Nat /\ n - 1 =< Len(s) /\ ~(n =< n - 1)
    BY <1>5
  <2>2. PICK f : Kept(s, T, f, n - 1)
    BY <1>3, <2>1
  <2> DEFINE g == [i \in 0..n |->
                    IF i = n
                    THEN IF s[n] \in T THEN Append(f[n - 1], s[n]) ELSE f[n - 1]
                    ELSE f[i]]
  <2>3. Kept(s, T, g, n)
    <3>1. \A i \in 0..n : i # n => i \in 0..(n - 1)
      BY <1>5
    <3>2. \A i \in 0..(n - 1) : f[i] = IF i = 0 THEN <<>>
            ELSE IF s[i] \in T THEN Append(f[i - 1], s[i]) ELSE f[i - 1]
      <4> DEFINE body(i) == IF i = 0 THEN <<>>
            ELSE IF s[i] \in T THEN Append(f[i - 1], s[i]) ELSE f[i - 1]
      <4> HIDE DEF body
      <4>1. f = [i \in 0..(n - 1) |-> body(i)]
        BY <2>2 DEF Kept, body
      <4>2. \A i \in 0..(n - 1) : f[i] = body(i)
        BY <4>1
      <4> QED
        BY <4>2 DEF body
    <3>3. /\ g[n] = IF s[n] \in T THEN Append(f[n - 1], s[n]) ELSE f[n - 1]
          /\ \A i \in 0..(n - 1) : g[i] = f[i]
      BY <1>5
    <3> HIDE DEF g
    <3>4. \A i \in 0..n : g[i] = IF i = 0 THEN <<>>
            ELSE IF s[i] \in T THEN Append(g[i - 1], s[i]) ELSE g[i - 1]
      <4> TAKE i \in 0..n
      <4>1. CASE i = n
        <5>1. n - 1 \in 0..(n - 1)
          BY <1>5
        <5> QED
          BY <4>1, <5>1, <3>3, <1>5
      <4>2. CASE i # n
        <5>1. i \in 0..(n - 1) /\ (i # 0 => i - 1 \in 0..(n - 1))
          BY <4>2
        <5> QED
          BY <5>1, <3>2, <3>3
      <4> QED
        BY <4>1, <4>2
    <3> QED
      BY <3>4 DEF Kept, g
  <2> QED
    BY <2>3, <1>3
<1> QED
  BY <1>4, <1>5

\* Keep is the last value of a solution of its recursion.
LEMMA KeepIsKept ==
  ASSUME NEW S, NEW s \in Seq(S), NEW T
  PROVE  \E f : Kept(s, T, f, Len(s)) /\ Keep(s, T) = f[Len(s)]
<1>1. \E f : Kept(s, T, f, Len(s))
  <2>1. Len(s) \in 0..Len(s)
    OBVIOUS
  <2> QED
    BY <2>1, KeptExists
<1> QED
  BY <1>1 DEF Keep, Kept

\* k is what has been kept of the first n rows of s
SoFar(s, T, n, k) ==
  /\ \A x : x \in ToSet(k) <=> x \in T /\ \E i \in 1..n : x = s[i]
  /\ IsInjective(s) => IsInjective(k)
  /\ (\A i \in 1..n : s[i] \in T) => Len(k) = n /\ \A i \in 1..n : k[i] = s[i]

\* What one more row adds.
LEMMA AppendFacts ==
  ASSUME NEW S, NEW k \in Seq(S), NEW x \in S
  PROVE  /\ Append(k, x) \in Seq(S)
         /\ \A y : y \in ToSet(Append(k, x)) <=> y \in ToSet(k) \/ y = x
         /\ IsInjective(k) /\ x \notin ToSet(k) => IsInjective(Append(k, x))
         /\ Len(Append(k, x)) = Len(k) + 1
         /\ \A i \in 1..Len(k) : Append(k, x)[i] = k[i]
         /\ Append(k, x)[Len(k) + 1] = x
<1> DEFINE a == Append(k, x)
<1>1. /\ a \in Seq(S) /\ Len(a) = Len(k) + 1
      /\ \A i \in 1..Len(k) : a[i] = k[i]
      /\ a[Len(k) + 1] = x
      /\ DOMAIN a = 1..(Len(k) + 1) /\ DOMAIN k = 1..Len(k) /\ Len(k) \in Nat
  OBVIOUS
<1> HIDE DEF a
<1>2. \A y : y \in ToSet(a) <=> y \in ToSet(k) \/ y = x
  BY <1>1 DEF ToSet
<1>3. IsInjective(k) /\ x \notin ToSet(k) => IsInjective(a)
  BY <1>1 DEF ToSet, IsInjective
<1> QED
  BY <1>1, <1>2, <1>3 DEF a

\* One step of the recursion of Keep.
LEMMA SoFarStep ==
  ASSUME NEW S, NEW s \in Seq(S), NEW T, NEW n \in 1..Len(s),
         NEW k \in Seq(S), SoFar(s, T, n - 1, k)
  PROVE  LET m == IF s[n] \in T THEN Append(k, s[n]) ELSE k
         IN  m \in Seq(S) /\ SoFar(s, T, n, m)
<1>1. s[n] \in S /\ DOMAIN s = 1..Len(s) /\ n \in Nat /\ n # 0 /\ Len(s) \in Nat
  OBVIOUS
<1>2. \A i : i \in 1..n <=> i \in 1..(n - 1) \/ i = n
  BY <1>1
<1>3. CASE s[n] \in T
  <2> DEFINE m == Append(k, s[n])
  <2>1. /\ m \in Seq(S)
        /\ \A y : y \in ToSet(m) <=> y \in ToSet(k) \/ y = s[n]
        /\ IsInjective(k) /\ s[n] \notin ToSet(k) => IsInjective(m)
        /\ Len(m) = Len(k) + 1
        /\ \A i \in 1..Len(k) : m[i] = k[i]
        /\ m[Len(k) + 1] = s[n]
    BY <1>1, AppendFacts
  <2> HIDE DEF m
  <2>2. \A x : x \in ToSet(m) <=> x \in T /\ \E i \in 1..n : x = s[i]
    BY <2>1, <1>2, <1>3 DEF SoFar
  <2>3. IsInjective(s) => IsInjective(m)
    <3> HAVE IsInjective(s)
    <3>1. \A i \in 1..(n - 1) : s[i] # s[n]
      <4> TAKE i \in 1..(n - 1)
      <4>1. i \in 1..Len(s) /\ n \in 1..Len(s) /\ i # n
        OBVIOUS
      <4> QED
        BY <4>1, <1>1 DEF IsInjective
    <3>2. s[n] \notin ToSet(k)
      BY <3>1 DEF SoFar
    <3> QED
      BY <3>2, <2>1 DEF SoFar
  <2>4. (\A i \in 1..n : s[i] \in T) => Len(m) = n /\ \A i \in 1..n : m[i] = s[i]
    <3> HAVE \A i \in 1..n : s[i] \in T
    <3>1. Len(k) = n - 1 /\ \A i \in 1..(n - 1) : k[i] = s[i]
      BY <1>2 DEF SoFar
    <3>2. Len(m) = n
      BY <3>1, <2>1
    <3>3. \A i \in 1..n : m[i] = s[i]
      BY <3>1, <2>1, <1>2
    <3> QED
      BY <3>2, <3>3
  <2> QED
    BY <2>1, <2>2, <2>3, <2>4, <1>3 DEF SoFar, m
<1>4. CASE s[n] \notin T
  <2>1. \A x : x \in ToSet(k) <=> x \in T /\ \E i \in 1..n : x = s[i]
    BY <1>2, <1>4 DEF SoFar
  <2>2. ~(\A i \in 1..n : s[i] \in T)
    BY <1>2, <1>4
  <2> QED
    BY <2>1, <2>2, <1>4 DEF SoFar
<1> QED
  BY <1>3, <1>4

\* k is what is kept of s in the end
Filtered(s, T, k) ==
  /\ ToSet(k) = ToSet(s) \cap T
  /\ IsInjective(s) => IsInjective(k)
  /\ ToSet(s) \subseteq T => k = s

\* What Keep gives: the rows in T and no other, none of them more often, and
\* all rows when all are in T.
LEMMA KeepFacts ==
  ASSUME NEW S, NEW s \in Seq(S), NEW T
  PROVE  Keep(s, T) \in Seq(S) /\ Filtered(s, T, Keep(s, T))
<1>1. PICK f : Kept(s, T, f, Len(s)) /\ Keep(s, T) = f[Len(s)]
  BY KeepIsKept
<1>2. /\ f[0] = <<>>
      /\ \A i \in 1..Len(s) :
           f[i] = IF s[i] \in T THEN Append(f[i - 1], s[i]) ELSE f[i - 1]
  <2> DEFINE body(i) == IF i = 0 THEN <<>>
        ELSE IF s[i] \in T THEN Append(f[i - 1], s[i]) ELSE f[i - 1]
  <2> HIDE DEF body
  <2>1. f = [i \in 0..Len(s) |-> body(i)]
    BY <1>1 DEF Kept, body
  <2>2. \A i \in 0..Len(s) : f[i] = body(i)
    BY <2>1
  <2>3. 0 \in 0..Len(s) /\ \A i \in 1..Len(s) : i \in 0..Len(s) /\ i # 0
    OBVIOUS
  <2> QED
    BY <2>2, <2>3 DEF body
<1> DEFINE Good(n) == f[n] \in Seq(S) /\ SoFar(s, T, n, f[n])
           Bad == {n \in Nat : n =< Len(s) /\ ~Good(n)}
<1>3. Good(0)
  <2>1. f[0] \in Seq(S) /\ ToSet(f[0]) = {} /\ IsInjective(f[0]) /\ Len(f[0]) = 0
    BY <1>2 DEF ToSet, IsInjective
  <2>2. 1..0 = {}
    OBVIOUS
  <2> QED
    BY <2>1, <2>2 DEF SoFar
<1>4. \A n \in 1..Len(s) : Good(n - 1) => Good(n)
  <2> TAKE n \in 1..Len(s)
  <2> HAVE Good(n - 1)
  <2> DEFINE k == f[n - 1]
  <2>1. k \in Seq(S) /\ SoFar(s, T, n - 1, k)
    OBVIOUS
  <2>2. f[n] = IF s[n] \in T THEN Append(k, s[n]) ELSE k
    BY <1>2
  <2> HIDE DEF k
  <2>3. LET m == IF s[n] \in T THEN Append(k, s[n]) ELSE k
        IN  m \in Seq(S) /\ SoFar(s, T, n, m)
    BY <2>1, SoFarStep
  <2> QED
    BY <2>2, <2>3
<1> HIDE DEF Good
<1>5. Bad = {}
  <2> SUFFICES ASSUME Bad # {} PROVE FALSE
    OBVIOUS
  <2>1. PICK n \in Bad : \A m \in Bad : n =< m
    BY Smallest
  <2>2. n # 0
    BY <1>3
  <2>3. n - 1 \in Nat /\ n - 1 =< Len(s) /\ ~(n =< n - 1) /\ n \in 1..Len(s)
    BY <2>2
  <2>4. Good(n - 1)
    BY <2>1, <2>3
  <2> QED
    BY <2>3, <2>4, <1>4
<1>6. Good(Len(s))
  BY <1>5
<1> DEFINE k == f[Len(s)]
<1>7. k \in Seq(S) /\ SoFar(s, T, Len(s), k)
  BY <1>6 DEF Good
<1> HIDE DEF k
<1>8. \A x : x \in ToSet(s) <=> \E i \in 1..Len(s) : x = s[i]
  BY DEF ToSet
<1>9. ToSet(k) = ToSet(s) \cap T
  BY <1>7, <1>8 DEF SoFar
<1>10. ToSet(s) \subseteq T => k = s
  <2> HAVE ToSet(s) \subseteq T
  <2>1. \A i \in 1..Len(s) : s[i] \in T
    BY <1>8
  <2>2. Len(k) = Len(s) /\ \A i \in 1..Len(s) : k[i] = s[i]
    BY <2>1, <1>7 DEF SoFar
  <2> QED
    BY <2>2, <1>7
<1> QED
  BY <1>1, <1>7, <1>9, <1>10 DEF SoFar, Filtered, k

\* The rows of two sequences put together.
LEMMA ConcatFacts ==
  ASSUME NEW S, NEW s \in Seq(S), NEW t \in Seq(S)
  PROVE  /\ s \o t \in Seq(S)
         /\ ToSet(s \o t) = ToSet(s) \cup ToSet(t)
         /\ (IsInjective(s) /\ IsInjective(t) /\ ToSet(s) \cap ToSet(t) = {})
              => IsInjective(s \o t)
<1> DEFINE c == s \o t
<1>1. /\ c \in Seq(S) /\ Len(c) = Len(s) + Len(t)
      /\ \A i \in 1..Len(s) : c[i] = s[i]
      /\ \A i \in 1..Len(t) : c[Len(s) + i] = t[i]
      /\ DOMAIN c = 1..(Len(s) + Len(t)) /\ DOMAIN s = 1..Len(s)
      /\ DOMAIN t = 1..Len(t) /\ Len(s) \in Nat /\ Len(t) \in Nat
  OBVIOUS
<1> HIDE DEF c
<1>2. \A i \in DOMAIN c : \/ i \in DOMAIN s /\ c[i] = s[i]
                          \/ i - Len(s) \in DOMAIN t /\ c[i] = t[i - Len(s)]
  <2> TAKE i \in DOMAIN c
  <2>1. CASE i =< Len(s)
    BY <2>1, <1>1
  <2>2. CASE ~(i =< Len(s))
    <3>1. i - Len(s) \in 1..Len(t) /\ Len(s) + (i - Len(s)) = i
      BY <2>2, <1>1
    <3> QED
      BY <3>1, <1>1
  <2> QED
    BY <2>1, <2>2
<1>3. \A x : x \in ToSet(c) <=> x \in ToSet(s) \/ x \in ToSet(t)
  <2> TAKE x
  <2>1. x \in ToSet(c) => x \in ToSet(s) \/ x \in ToSet(t)
    BY <1>2 DEF ToSet
  <2>2. x \in ToSet(s) => x \in ToSet(c)
    BY <1>1 DEF ToSet
  <2>3. x \in ToSet(t) => x \in ToSet(c)
    <3> SUFFICES ASSUME NEW i \in DOMAIN t, x = t[i] PROVE x \in ToSet(c)
      BY DEF ToSet
    <3>1. Len(s) + i \in DOMAIN c /\ c[Len(s) + i] = x
      BY <1>1
    <3> QED
      BY <3>1 DEF ToSet
  <2> QED
    BY <2>1, <2>2, <2>3
<1>4. (IsInjective(s) /\ IsInjective(t) /\ ToSet(s) \cap ToSet(t) = {})
        => IsInjective(c)
  <2> SUFFICES ASSUME IsInjective(s), IsInjective(t), ToSet(s) \cap ToSet(t) = {},
                      NEW i \in DOMAIN c, NEW j \in DOMAIN c, c[i] = c[j]
               PROVE  i = j
    BY DEF IsInjective
  <2>1. i \in Int /\ j \in Int /\ Len(s) \in Int
    BY <1>1
  <2>2. CASE i \in DOMAIN s /\ c[i] = s[i] /\ j \in DOMAIN s /\ c[j] = s[j]
    BY <2>2 DEF IsInjective
  <2>3. CASE /\ i - Len(s) \in DOMAIN t /\ c[i] = t[i - Len(s)]
             /\ j - Len(s) \in DOMAIN t /\ c[j] = t[j - Len(s)]
    <3>1. i - Len(s) = j - Len(s)
      BY <2>3 DEF IsInjective
    <3> QED
      BY <3>1, <2>1
  <2>4. \A a \in DOMAIN s, b \in DOMAIN t : s[a] # t[b]
    BY DEF ToSet
  <2> QED
    BY <1>2, <2>2, <2>3, <2>4
<1> QED
  BY <1>1, <1>3, <1>4 DEF c

\* The first row of a sequence and the rest.
LEMMA TailFacts ==
  ASSUME NEW S, NEW s \in Seq(S), s # <<>>
  PROVE  /\ Head(s) \in ToSet(s) /\ Head(s) \in S
         /\ Tail(s) \in Seq(S)
         /\ Len(s) > 1 => Tail(s) # <<>>
         /\ ToSet(s) = {Head(s)} \cup ToSet(Tail(s))
         /\ IsInjective(s) => Head(s) \notin ToSet(Tail(s)) /\ IsInjective(Tail(s))
         /\ ~(Len(s) > 1) => ToSet(s) = {Head(s)}
<1> DEFINE t == Tail(s)
<1>1. /\ t \in Seq(S) /\ Len(t) = Len(s) - 1 /\ Len(s) >= 1
      /\ \A i \in 1..Len(t) : t[i] = s[i + 1]
      /\ DOMAIN s = 1..Len(s) /\ DOMAIN t = 1..Len(t) /\ Len(s) \in Nat
      /\ Head(s) = s[1]
      /\ Len(s) > 1 => t # <<>>
  <2>1. /\ t \in Seq(S) /\ Len(t) = Len(s) - 1 /\ Len(s) >= 1
        /\ DOMAIN s = 1..Len(s) /\ DOMAIN t = 1..Len(t) /\ Len(s) \in Nat
    OBVIOUS
  <2>2. \A i \in 1..Len(t) : t[i] = s[i + 1]
    BY <2>1
  <2>3. Head(s) = s[1]
    OBVIOUS
  <2> HIDE DEF t
  <2>4. Len(s) > 1 => t # <<>>
    BY <2>1
  <2> QED
    BY <2>1, <2>2, <2>3, <2>4
<1> HIDE DEF t
<1>2. Head(s) \in ToSet(s) /\ Head(s) \in S
  BY <1>1 DEF ToSet
<1>3. \A i \in DOMAIN t : i + 1 \in DOMAIN s /\ i + 1 # 1 /\ t[i] = s[i + 1]
  BY <1>1
<1>4. \A i \in DOMAIN s : i = 1 \/ (i - 1 \in DOMAIN t /\ t[i - 1] = s[i])
  <2> TAKE i \in DOMAIN s
  <2> SUFFICES ASSUME i # 1 PROVE i - 1 \in DOMAIN t /\ t[i - 1] = s[i]
    OBVIOUS
  <2>1. i - 1 \in 1..Len(t) /\ (i - 1) + 1 = i
    BY <1>1
  <2> QED
    BY <2>1, <1>1
<1>5. \A x : x \in ToSet(s) <=> x = Head(s) \/ x \in ToSet(t)
  <2> TAKE x
  <2>1. x \in ToSet(s) => x = Head(s) \/ x \in ToSet(t)
    BY <1>4, <1>1 DEF ToSet
  <2>2. x \in ToSet(t) => x \in ToSet(s)
    BY <1>3 DEF ToSet
  <2> QED
    BY <2>1, <2>2, <1>2
<1>6. IsInjective(s) => Head(s) \notin ToSet(t) /\ IsInjective(t)
  <2> HAVE IsInjective(s)
  <2>1. Head(s) \notin ToSet(t)
    BY <1>3, <1>1 DEF ToSet, IsInjective
  <2>2. ASSUME NEW i \in DOMAIN t, NEW j \in DOMAIN t, t[i] = t[j] PROVE i = j
    <3>1. i + 1 = j + 1
      BY <1>3, <2>2 DEF IsInjective
    <3> QED
      BY <3>1, <1>1
  <2> QED
    BY <2>1, <2>2 DEF IsInjective
<1>7. ~(Len(s) > 1) => ToSet(s) = {Head(s)}
  <2> HAVE ~(Len(s) > 1)
  <2>1. DOMAIN s = {1}
    BY <1>1
  <2> QED
    BY <2>1, <1>1 DEF ToSet
<1> QED
  BY <1>1, <1>2, <1>5, <1>6, <1>7 DEF t

\* The first rows of a sequence.
LEMMA PrefixFacts ==
  ASSUME NEW S, NEW s \in Seq(S), NEW k \in 1..Len(s)
  PROVE  /\ SubSeq(s, 1, k) \in Seq(S) /\ Len(SubSeq(s, 1, k)) = k
         /\ \A i \in 1..k : SubSeq(s, 1, k)[i] = s[i]
         /\ ToSet(SubSeq(s, 1, k)) \subseteq ToSet(s)
         /\ IsInjective(s) => IsInjective(SubSeq(s, 1, k))
         /\ k = Len(s) => SubSeq(s, 1, k) = s
<1> DEFINE p == SubSeq(s, 1, k)
<1>1. /\ p \in Seq(S) /\ Len(p) = k
      /\ \A i \in 1..k : p[i] = s[i]
      /\ DOMAIN p = 1..k /\ DOMAIN s = 1..Len(s)
      /\ \A i \in 1..k : i \in 1..Len(s)
  OBVIOUS
<1>2. k = Len(s) => p = s
  OBVIOUS
<1> HIDE DEF p
<1>3. ToSet(p) \subseteq ToSet(s)
  BY <1>1 DEF ToSet
<1>4. IsInjective(s) => IsInjective(p)
  BY <1>1 DEF IsInjective
<1> QED
  BY <1>1, <1>2, <1>3, <1>4 DEF p

\* A sequence without repetition has as many rows as its set has members.
LEMMA OnceEach ==
  ASSUME NEW S, NEW s \in Seq(S), IsInjective(s)
  PROVE  Len(s) = Cardinality(ToSet(s))
<1> DEFINE D == 1..Len(s)
<1>1. s \in [D -> ToSet(s)] /\ DOMAIN s = D /\ Len(s) \in Nat
  BY DEF ToSet
<1>2. s \in Surjection(D, ToSet(s))
  BY <1>1 DEF ToSet, Surjection
<1>3. s \in Injection(D, ToSet(s))
  BY <1>1 DEF Injection, IsInjective
<1>4. IsFiniteSet(D) /\ Cardinality(D) = Len(s)
  <2>1. 1 \in Int /\ Len(s) \in Int /\ (IF 1 > Len(s) THEN 0 ELSE Len(s) - 1 + 1) = Len(s)
    BY <1>1
  <2>2. IsFiniteSet(1..Len(s)) /\ Cardinality(1..Len(s)) = IF 1 > Len(s) THEN 0 ELSE Len(s) - 1 + 1
    BY <2>1, FS_Interval, Zenon
  <2> QED
    BY <2>1, <2>2
<1> QED
  BY <1>2, <1>3, <1>4, FS_Surjection

\* What a listing says of the server's rows
ListingOf(l, L) ==
  /\ l.res \in {"ERROR", "NO_DATA", "SUCCESS"}
  /\ l.rows \in Seq(Names)
  /\ ToSet(l.rows) \subseteq ToSet(L)
  /\ IsInjective(L) => IsInjective(l.rows)
  /\ \A i \in 1..Len(l.rows) : i \in 1..Len(L) /\ l.rows[i] = L[i]
  /\ l.res # "SUCCESS" => l.rows = <<>>
  /\ l.res = "SUCCESS" => l.rows # <<>>
  /\ (l.res # "ERROR" /\ ~Cut(l, L)) => l.rows = L

\* An internal query gives the first rows of what the server has, and all of
\* them unless it fails or is cut short.
LEMMA ListingFacts ==
  ASSUME NEW L \in Seq(Names), NEW l \in Listings(L)
  PROVE  ListingOf(l, L)
<1>1. CASE l = [res |-> "ERROR", rows |-> <<>>] \/
           (L = <<>> /\ l = [res |-> "NO_DATA", rows |-> <<>>])
  <2>1. /\ l.res \in {"ERROR", "NO_DATA"} /\ l.rows = <<>>
        /\ l.res = "NO_DATA" => L = <<>>
    BY <1>1
  <2>2. /\ <<>> \in Seq(Names) /\ ToSet(<<>>) = {} /\ IsInjective(<<>>)
        /\ 1..Len(<<>>) = {}
    BY DEF ToSet, IsInjective
  <2> QED
    BY <2>1, <2>2 DEF ListingOf
<1>2. CASE \E k \in 1..Len(L) : l = [res |-> "SUCCESS", rows |-> SubSeq(L, 1, k)]
  <2>1. PICK k \in 1..Len(L) : l = [res |-> "SUCCESS", rows |-> SubSeq(L, 1, k)]
    BY <1>2
  <2>2. l.res = "SUCCESS" /\ l.rows = SubSeq(L, 1, k)
    BY <2>1
  <2>3. /\ l.rows \in Seq(Names) /\ Len(l.rows) = k
        /\ \A i \in 1..k : l.rows[i] = L[i]
        /\ ToSet(l.rows) \subseteq ToSet(L)
        /\ IsInjective(L) => IsInjective(l.rows)
        /\ k = Len(L) => l.rows = L
    BY <2>2, PrefixFacts
  <2>4. /\ l.rows # <<>>
        /\ \A i \in 1..Len(l.rows) : i \in 1..Len(L)
        /\ ~(k < Len(L)) => k = Len(L)
    BY <2>3
  <2> QED
    BY <2>2, <2>3, <2>4 DEF ListingOf, Cut
<1>3. L # <<>> => Len(L) \in 1..Len(L)
  OBVIOUS
<1> QED
  BY <1>1, <1>2, <1>3 DEF Listings

-----------------------------------------------------------------------------
(* The entries that the loops collect.                                      *)

\* The names that EntriesFor and ColumnEntriesOf keep
TablesKept == {t \in Names : ~args.id \/ SameIdentifier(t, args.table)}
ColumnsKept == {c \in Names : ColumnMatches(c)}

\* The entries that ShowTables makes of the rows of a database.
LEMMA TableEntriesFacts ==
  ASSUME NEW d \in Names, NEW rows \in Seq(Names)
  PROVE  /\ EntriesFor(d, rows) \in Seq(TableEntries)
         /\ \A e : e \in ToSet(EntriesFor(d, rows)) <=>
                     \E t \in ToSet(rows) \cap TablesKept : e = [db |-> d, table |-> t]
         /\ IsInjective(rows) => IsInjective(EntriesFor(d, rows))
<1> DEFINE kept == Keep(rows, TablesKept)
           m == [i \in 1..Len(kept) |-> [db |-> d, table |-> kept[i]]]
<1>1. EntriesFor(d, rows) = m
  BY Zenon DEF EntriesFor, TablesKept
<1>2. /\ kept \in Seq(Names) /\ ToSet(kept) = ToSet(rows) \cap TablesKept
      /\ IsInjective(rows) => IsInjective(kept)
  BY KeepFacts DEF Filtered
<1> HIDE DEF kept
<1>3. DOMAIN kept = 1..Len(kept) /\ \A i \in 1..Len(kept) : kept[i] \in Names
  BY <1>2
<1>4. m \in Seq(TableEntries)
  BY <1>2, <1>3 DEF TableEntries
<1>5. /\ DOMAIN m = 1..Len(kept)
      /\ \A i \in 1..Len(kept) : m[i] = [db |-> d, table |-> kept[i]]
  OBVIOUS
<1>6. \A i \in 1..Len(kept) : m[i].table = kept[i]
  BY <1>5
<1> HIDE DEF m
<1>7. \A e : e \in ToSet(m) <=>
               \E t \in ToSet(kept) : e = [db |-> d, table |-> t]
  BY <1>5, <1>3 DEF ToSet
<1>8. IsInjective(kept) => IsInjective(m)
  BY <1>5, <1>6, <1>3 DEF IsInjective
<1> QED
  BY <1>1, <1>2, <1>4, <1>7, <1>8

\* The entries that ShowDatabases makes when only databases were asked for.
LEMMA DatabaseEntriesFacts ==
  ASSUME NEW rows \in Seq(Names)
  PROVE  /\ DatabaseEntries(rows) \in Seq(TableEntries)
         /\ ToSet(DatabaseEntries(rows)) =
              {[db |-> d, table |-> Empty] : d \in ToSet(rows)}
         /\ IsInjective(rows) => IsInjective(DatabaseEntries(rows))
<1> DEFINE m == DatabaseEntries(rows)
<1>1. DOMAIN rows = 1..Len(rows) /\ \A i \in 1..Len(rows) : rows[i] \in Names
  OBVIOUS
<1>2. m \in Seq(TableEntries)
  BY <1>1, CallsAssumption DEF DatabaseEntries, TableEntries
<1>3. /\ DOMAIN m = 1..Len(rows)
      /\ \A i \in 1..Len(rows) : m[i] = [db |-> rows[i], table |-> Empty]
  BY DEF DatabaseEntries
<1>4. \A i \in 1..Len(rows) : m[i].db = rows[i]
  BY <1>3
<1> HIDE DEF m
<1>5. ToSet(m) = {[db |-> d, table |-> Empty] : d \in ToSet(rows)}
  BY <1>3, <1>1 DEF ToSet
<1>6. IsInjective(rows) => IsInjective(m)
  BY <1>3, <1>4, <1>1 DEF IsInjective
<1> QED
  BY <1>2, <1>5, <1>6 DEF m

\* The entries that Describe makes of the rows of a table.
LEMMA ColumnEntriesFacts ==
  ASSUME NEW e \in TableEntries, NEW rows \in Seq(Names)
  PROVE  LET m == ColumnEntriesOf(e, rows) IN
         /\ m \in Seq(ColumnEntries)
         /\ \A w : w \in ToSet(ColumnsIn(m)) <=>
              \E c \in ToSet(rows) \cap ColumnsKept : w = <<e.db, e.table, c>>
         /\ IsInjective(rows) => IsInjective(ColumnsIn(m))
         /\ ToSet(rows) \subseteq ColumnsKept =>
              \A i \in 1..Len(m) : /\ m[i].db = e.db /\ m[i].table = e.table
                                   /\ i \in 1..Len(rows)
                                   /\ m[i].ordinal = i /\ m[i].column = rows[i]
<1> DEFINE kept == Keep(rows, ColumnsKept)
           m == [i \in 1..Len(kept) |-> [db |-> e.db, table |-> e.table,
                                         column |-> kept[i], ordinal |-> i]]
<1>1. ColumnEntriesOf(e, rows) = m
  BY Zenon DEF ColumnEntriesOf, ColumnsKept
<1>2. /\ kept \in Seq(Names) /\ ToSet(kept) = ToSet(rows) \cap ColumnsKept
      /\ IsInjective(rows) => IsInjective(kept)
      /\ ToSet(rows) \subseteq ColumnsKept => kept = rows
  BY KeepFacts DEF Filtered
<1> HIDE DEF kept
<1>3. DOMAIN kept = 1..Len(kept) /\ \A i \in 1..Len(kept) : kept[i] \in Names
  BY <1>2
<1>4. m \in Seq(ColumnEntries)
  BY <1>2, <1>3 DEF ColumnEntries, TableEntries
<1>5. /\ DOMAIN m = 1..Len(kept) /\ Len(m) = Len(kept)
      /\ \A i \in 1..Len(kept) : /\ m[i].db = e.db /\ m[i].table = e.table
                                 /\ m[i].column = kept[i] /\ m[i].ordinal = i
  BY <1>3, <1>2
<1> HIDE DEF m
<1>6. /\ DOMAIN ColumnsIn(m) = 1..Len(kept)
      /\ \A i \in 1..Len(kept) : ColumnsIn(m)[i] = <<e.db, e.table, kept[i]>>
  BY <1>5 DEF ColumnsIn
<1>7. \A w : w \in ToSet(ColumnsIn(m)) <=>
              \E c \in ToSet(kept) : w = <<e.db, e.table, c>>
  BY <1>6, <1>3 DEF ToSet
<1>8. \A i \in 1..Len(kept) : ColumnsIn(m)[i][3] = kept[i]
  BY <1>6
<1>9. IsInjective(kept) => IsInjective(ColumnsIn(m))
  BY <1>6, <1>8, <1>3 DEF IsInjective
<1>10. ToSet(rows) \subseteq ColumnsKept =>
         \A i \in 1..Len(m) : /\ m[i].db = e.db /\ m[i].table = e.table
                              /\ i \in 1..Len(rows)
                              /\ m[i].ordinal = i /\ m[i].column = rows[i]
  BY <1>2, <1>5
<1> QED
  BY <1>1, <1>2, <1>4, <1>7, <1>9, <1>10

\* The columns named by two lists of entries put together.
LEMMA ColumnsOfConcat ==
  ASSUME NEW S, NEW s \in Seq(S), NEW t \in Seq(S)
  PROVE  /\ ColumnsIn(s \o t) = ColumnsIn(s) \o ColumnsIn(t)
         /\ ColumnsIn(s) \in Seq(ToSet(ColumnsIn(s)) \cup ToSet(ColumnsIn(t)))
         /\ ColumnsIn(t) \in Seq(ToSet(ColumnsIn(s)) \cup ToSet(ColumnsIn(t)))
         /\ Len(ColumnsIn(s)) = Len(s)
<1> DEFINE c == s \o t
           U == ToSet(ColumnsIn(s)) \cup ToSet(ColumnsIn(t))
<1>1. /\ Len(c) = Len(s) + Len(t)
      /\ \A i \in 1..Len(s) : c[i] = s[i]
      /\ \A i \in 1..Len(t) : c[Len(s) + i] = t[i]
      /\ DOMAIN c = 1..(Len(s) + Len(t)) /\ DOMAIN s = 1..Len(s)
      /\ DOMAIN t = 1..Len(t) /\ Len(s) \in Nat /\ Len(t) \in Nat
  OBVIOUS
<1> HIDE DEF c
<1>2. \A q \in {s, t, c} :
        /\ DOMAIN ColumnsIn(q) = DOMAIN q
        /\ \A i \in DOMAIN q :
             ColumnsIn(q)[i] = <<q[i].db, q[i].table, q[i].column>>
  BY DEF ColumnsIn
<1>3. \A q \in {s, t} : ColumnsIn(q) = [i \in 1..Len(q) |-> ColumnsIn(q)[i]]
  BY <1>1 DEF ColumnsIn
<1>4. ColumnsIn(s) \in Seq(U) /\ Len(ColumnsIn(s)) = Len(s)
  <2>1. \A i \in 1..Len(s) : ColumnsIn(s)[i] \in U
    BY <1>1, <1>2 DEF ToSet
  <2> HIDE DEF U
  <2> DEFINE f == ColumnsIn(s)
  <2>2. f = [i \in 1..Len(s) |-> f[i]] /\ \A i \in 1..Len(s) : f[i] \in U
    BY <1>3, <2>1
  <2> HIDE DEF f
  <2>3. f \in Seq(U) /\ Len(f) = Len(s)
    BY <2>2, <1>1
  <2> QED
    BY <2>3 DEF f
<1>5. ColumnsIn(t) \in Seq(U) /\ Len(ColumnsIn(t)) = Len(t)
  <2>1. \A i \in 1..Len(t) : ColumnsIn(t)[i] \in U
    BY <1>1, <1>2 DEF ToSet
  <2> HIDE DEF U
  <2> DEFINE f == ColumnsIn(t)
  <2>2. f = [i \in 1..Len(t) |-> f[i]] /\ \A i \in 1..Len(t) : f[i] \in U
    BY <1>3, <2>1
  <2> HIDE DEF f
  <2>3. f \in Seq(U) /\ Len(f) = Len(t)
    BY <2>2, <1>1
  <2> QED
    BY <2>3 DEF f
<1>6. ColumnsIn(c) = ColumnsIn(s) \o ColumnsIn(t)
  <2> DEFINE f == ColumnsIn(s)
             g == ColumnsIn(t)
             h == ColumnsIn(c)
  <2> HIDE DEF U
  <2>1. /\ f \in Seq(U) /\ Len(f) = Len(s) /\ g \in Seq(U) /\ Len(g) = Len(t)
    BY <1>4, <1>5
  <2>2. /\ \A i \in 1..Len(s) : h[i] = f[i]
        /\ \A i \in 1..Len(t) : h[Len(s) + i] = g[i]
    <3>1. ASSUME NEW i \in 1..Len(s) PROVE h[i] = f[i]
      <4>1. i \in DOMAIN c /\ i \in DOMAIN s /\ c[i] = s[i]
        BY <1>1
      <4> QED
        BY <4>1, <1>2
    <3>2. ASSUME NEW i \in 1..Len(t) PROVE h[Len(s) + i] = g[i]
      <4>1. Len(s) + i \in DOMAIN c /\ i \in DOMAIN t /\ c[Len(s) + i] = t[i]
        BY <1>1
      <4> QED
        BY <4>1, <1>2
    <3> QED
      BY <3>1, <3>2
  <2>3. h = [i \in 1..(Len(s) + Len(t)) |-> h[i]]
    BY <1>1 DEF ColumnsIn
  <2> HIDE DEF f, g, h
  <2>4. h = f \o g
    <3> DEFINE k == f \o g
    <3>1. /\ k = [i \in 1..(Len(s) + Len(t)) |-> k[i]]
          /\ \A i \in 1..Len(s) : k[i] = f[i]
          /\ \A i \in 1..Len(t) : k[Len(s) + i] = g[i]
      <4>1. k \in Seq(U) /\ Len(k) = Len(s) + Len(t)
        BY <2>1
      <4>2. \A i \in 1..Len(f) : k[i] = f[i]
        BY <2>1
      <4>3. \A i \in 1..Len(g) : k[Len(f) + i] = g[i]
        BY <2>1
      <4> HIDE DEF k
      <4>4. k = [i \in 1..(Len(s) + Len(t)) |-> k[i]]
        BY <4>1
      <4> QED
        BY <4>2, <4>3, <4>4, <2>1
    <3> HIDE DEF k
    <3>2. ASSUME NEW i \in 1..(Len(s) + Len(t)) PROVE h[i] = k[i]
      <4>1. CASE i =< Len(s)
        <5>1. i \in 1..Len(s)
          BY <4>1, <1>1
        <5> QED
          BY <5>1, <3>1, <2>2
      <4>2. CASE ~(i =< Len(s))
        <5>1. i - Len(s) \in 1..Len(t) /\ Len(s) + (i - Len(s)) = i
          BY <4>2, <1>1
        <5> QED
          BY <5>1, <3>1, <2>2
      <4> QED
        BY <4>1, <4>2
    <3>3. h = k
      BY <3>1, <3>2, <2>3
    <3> QED
      BY <3>3 DEF k
  <2> QED
    BY <2>4 DEF f, g, h
<1> QED
  BY <1>4, <1>5, <1>6 DEF c

\* What SHOW ... LIKE lists.
LEMMA ListedFacts ==
  ASSUME NEW L \in Seq(Names), NEW pattern
  PROVE  /\ Listed(L, pattern) \in Seq(Names)
         /\ \A n : n \in ToSet(Listed(L, pattern)) <=>
                     n \in ToSet(L) /\ Like(pattern, n)
         /\ IsInjective(L) => IsInjective(Listed(L, pattern))
<1> DEFINE T == {n \in Names : Like(pattern, n)}
<1>1. Keep(L, T) \in Seq(Names) /\ Filtered(L, T, Keep(L, T))
  BY KeepFacts
<1>2. \A n \in ToSet(L) : n \in Names
  BY DEF ToSet
<1> QED
  BY <1>1, <1>2 DEF Filtered, Listed

\* The database that getTablesWithIdentifier picks.
LEMMA FirstSameFacts ==
  ASSUME NEW rows \in Seq(Names), NEW id
  PROVE  /\ FirstSame(rows, id) \in Seq(Names)
         /\ \A d \in ToSet(FirstSame(rows, id)) :
              d \in ToSet(rows) /\ SameIdentifier(d, id)
         /\ IsInjective(FirstSame(rows, id))
         /\ FirstSame(rows, id) = <<>> =>
              \A d \in ToSet(rows) : ~SameIdentifier(d, id)
<1> DEFINE T == {d \in Names : SameIdentifier(d, id)}
           same == Keep(rows, T)
<1>1. same \in Seq(Names) /\ ToSet(same) = ToSet(rows) \cap T
  BY KeepFacts DEF Filtered
<1>2. \A n \in ToSet(rows) : n \in Names
  BY DEF ToSet
<1>3. FirstSame(rows, id) = IF same = <<>> THEN <<>> ELSE <<Head(same)>>
  BY DEF FirstSame
<1> HIDE DEF same
<1>4. CASE same = <<>>
  <2>1. ToSet(<<>>) = {} /\ IsInjective(<<>>) /\ <<>> \in Seq(Names)
    BY DEF ToSet, IsInjective
  <2> QED
    BY <1>1, <1>2, <1>3, <1>4, <2>1
<1>5. CASE same # <<>>
  <2>1. Head(same) \in ToSet(same) /\ Head(same) \in Names
    BY <1>1, <1>5, TailFacts
  <2> DEFINE h == Head(same)
  <2> HIDE DEF h
  <2>2. ToSet(<<h>>) = {h} /\ IsInjective(<<h>>) /\ <<h>> # <<>>
    BY DEF ToSet, IsInjective
  <2>3. h \in Names => <<h>> \in Seq(Names)
    OBVIOUS
  <2> QED
    BY <1>1, <1>3, <1>5, <2>1, <2>2, <2>3 DEF h
<1> QED
  BY <1>4, <1>5

\* The columns of a table, or nothing for a table the server does not have.
LEMMA ServerColumnsFacts ==
  ASSUME NEW e
  PROVE  ServerColumns(e) \in Seq(Names) /\ IsInjective(ServerColumns(e))
<1>1. <<>> \in Seq(Names) /\ IsInjective(<<>>)
  BY DEF IsInjective
<1> QED
  BY <1>1, CatalogAssumption DEF ServerColumns

\* DESCRIBE is an internal query like the others.
LEMMA DescribingFacts ==
  ASSUME NEW e, NEW l \in Describings(e)
  PROVE  ListingOf(l, ServerColumns(e))
<1> DEFINE L == ServerColumns(e)
<1>1. L \in Seq(Names) /\ IsInjective(L)
  BY ServerColumnsFacts
<1>2. CASE l \in Listings(L)
  BY <1>1, <1>2, ListingFacts
<1>3. CASE l = [res |-> "ERROR", rows |-> <<>>]
  <2>1. l.res = "ERROR" /\ l.rows = <<>>
    BY <1>3
  <2>2. /\ <<>> \in Seq(Names) /\ ToSet(<<>>) = {} /\ IsInjective(<<>>)
        /\ 1..Len(<<>>) = {}
    BY DEF ToSet, IsInjective
  <2> HIDE DEF L
  <2> QED
    BY <2>1, <2>2 DEF ListingOf, L
<1> QED
  BY <1>2, <1>3 DEF Describings

-----------------------------------------------------------------------------
(* What SQLFetch gives.                                                     *)

\* The end of TableMetadataQuery::Execute leaves nothing handed out and no
\* failure readable.
LEMMA TablesDoneFetch ==
  ASSUME TypeOK, FetchInv, pc # "idle",
         NEW r \in Codes, NEW meta \in Seq(TableEntries), TablesDone(r, meta),
         r = "SUCCESS" => meta # <<>>,
         UNCHANGED <<args, cmeta, fetchRet, delivered>>,
         failed' \in BOOLEAN, interrupted' \in BOOLEAN, failed' => r = "ERROR"
  PROVE  TypeOK' /\ FetchInv'
<1>1. /\ ~executed /\ ~fetched /\ cursor = 1 /\ delivered = <<>>
      /\ fetchRet = "NONE" /\ args \in Calls /\ args' = args /\ cmeta' = cmeta
      /\ delivered' = <<>> /\ fetchRet' = "NONE" /\ cmeta \in Seq(ColumnEntries)
      /\ executed \in BOOLEAN /\ fetched \in BOOLEAN /\ ret \in Codes \cup {"NONE"}
  BY DEF FetchInv, TypeOK
<1>2. tmeta' = meta
  BY DEF TablesDone
<1>3. Meta' \in Seq(TableEntries) \/ Meta' \in Seq(ColumnEntries)
  BY <1>1, <1>2 DEF Meta
<1>4. Len(Meta') \in Nat /\ SubSeq(Meta', 1, 0) = <<>>
  BY <1>3
<1>5. CASE \E q \in {r, "INFO"}, ok \in BOOLEAN :
             Return(q, ok) /\ (ok => TablesExecuted(r))
  <2>1. PICK q \in {r, "INFO"}, ok \in BOOLEAN :
           Return(q, ok) /\ (ok => TablesExecuted(r))
    BY <1>5
  <2>2. /\ pc' = "idle" /\ ret' = q /\ executed' = ok /\ fetched' = FALSE
        /\ cursor' = 1 /\ queue' = <<>> /\ ret' \in Codes
    BY <2>1 DEF Return, Codes
  <2>3. executed' => ~failed'
    BY <2>1, <2>2 DEF TablesExecuted
  <2>4. Given' = 0
    BY <2>2 DEF Given
  <2>5. TypeOK'
    <3>1. executed' \in BOOLEAN /\ fetched' \in BOOLEAN
      BY <2>2, Zenon
    <3>2. cursor' \in 1..(Len(Meta') + 1)
      BY <2>2, <1>4
    <3> QED
      BY <2>2, <1>1, <1>2, <3>1, <3>2 DEF TypeOK
  <2>6. FetchInv'
    BY <2>2, <2>3, <2>4, <1>1, <1>4 DEF FetchInv
  <2> QED
    BY <2>5, <2>6
<1>6. CASE /\ pc' = "describe" /\ queue' = meta /\ r = "SUCCESS"
           /\ UNCHANGED <<ret, executed, fetched, cursor>>
  <2>1. TypeOK'
    BY <1>6, <1>1, <1>2, <1>4 DEF TypeOK
  <2>2. FetchInv'
    BY <1>6, <1>1, <1>4 DEF FetchInv
  <2> QED
    BY <2>1, <2>2
<1>7. CASE args.kind = "tables"
  <2>1. Return(r, TablesExecuted(r)) /\ TablesExecuted(r) \in BOOLEAN
    BY <1>7 DEF TablesDone, TablesExecuted
  <2> QED
    BY <1>5, <2>1
<1>8. CASE args.kind # "tables" /\ r = "SUCCESS"
  BY <1>6, <1>8 DEF TablesDone
<1>9. CASE args.kind # "tables" /\ r # "SUCCESS"
  <2>1. Return("INFO", FALSE) /\ FALSE \in BOOLEAN
    BY <1>9 DEF TablesDone
  <2> QED
    BY <1>5, <2>1, Zenon
<1> QED
  BY <1>7, <1>8, <1>9

\* The ways an internal query can go
Noted(l, L) ==
  /\ failed' \in BOOLEAN /\ interrupted' \in BOOLEAN
  /\ failed' <=> failed \/ l.res = "ERROR"
  /\ interrupted' <=> interrupted \/ Cut(l, L)

\* What Record writes down of an internal query.
LEMMA NotedFacts ==
  ASSUME NEW l, NEW L, Record(l, L) PROVE Noted(l, L)
BY Zenon DEF Record, Noted

\* The databases whose tables are listed next
Found(rows) == IF args.id THEN FirstSame(rows, args.db) ELSE rows

\* What ShowDatabases does when its internal query goes as l
DatabasesShown(l) ==
  LET L == Listed(Databases, DatabasePattern(args)) IN
  /\ L \in Seq(Names) /\ ListingOf(l, L) /\ Noted(l, L)
  /\ UNCHANGED <<args, cmeta, fetchRet, delivered>>
  /\ \/ l.res = "ERROR" /\ TablesDone("ERROR", tmeta)
     \/ l.res = "NO_DATA" /\ TablesDone("INFO", tmeta)
     \/ /\ l.res = "SUCCESS" /\ AllDatabases(args)
        /\ TablesDone("SUCCESS", tmeta \o DatabaseEntries(l.rows))
     \/ /\ l.res = "SUCCESS" /\ ~AllDatabases(args) /\ Found(l.rows) = <<>>
        /\ TablesDone("INFO", tmeta)
     \/ /\ l.res = "SUCCESS" /\ ~AllDatabases(args) /\ Found(l.rows) # <<>>
        /\ pc' = "tables" /\ queue' = Found(l.rows)
        /\ UNCHANGED <<ret, tmeta, executed, fetched, cursor>>

\* The outcomes of SHOW DATABASES, one by one.
LEMMA ShowDatabasesCases ==
  ASSUME ShowDatabases
  PROVE  pc = "databases" /\ \E l : DatabasesShown(l)
<1> DEFINE L == Listed(Databases, DatabasePattern(args))
<1>1. L \in Seq(Names)
  BY CatalogAssumption, ListedFacts
<1> HIDE DEF L
<1>2. PICK l \in Listings(L) :
        /\ Record(l, L)
        /\ CASE l.res = "ERROR" -> TablesDone("ERROR", tmeta)
             [] l.res = "NO_DATA" -> TablesDone("INFO", tmeta)
             [] OTHER ->
                IF AllDatabases(args)
                THEN TablesDone("SUCCESS", tmeta \o DatabaseEntries(l.rows))
                ELSE LET dbs == IF args.id THEN FirstSame(l.rows, args.db)
                                           ELSE l.rows
                     IN  IF dbs = <<>>
                         THEN TablesDone("INFO", tmeta)
                         ELSE /\ pc' = "tables"
                              /\ queue' = dbs
                              /\ UNCHANGED <<ret, tmeta, executed, fetched,
                                             cursor>>
  BY Zenon DEF ShowDatabases, L
<1>3. ListingOf(l, L) /\ Noted(l, L)
  BY <1>1, <1>2, ListingFacts, NotedFacts
<1>4. l.res \in {"ERROR", "NO_DATA", "SUCCESS"}
  BY <1>3 DEF ListingOf
<1>5. UNCHANGED <<args, cmeta, fetchRet, delivered>> /\ pc = "databases"
  BY DEF ShowDatabases
<1>6. "ERROR" # "NO_DATA" /\ "ERROR" # "SUCCESS" /\ "NO_DATA" # "SUCCESS"
  OBVIOUS
<1>7. CASE l.res = "ERROR"
  <2>1. TablesDone("ERROR", tmeta)
    BY <1>2, <1>6, <1>7, Zenon
  <2> QED
    BY <1>1, <1>3, <1>5, <1>7, <2>1, Zenon DEF DatabasesShown, L
<1>8. CASE l.res = "NO_DATA"
  <2>1. TablesDone("INFO", tmeta)
    BY <1>2, <1>6, <1>8, Zenon
  <2> QED
    BY <1>1, <1>3, <1>5, <1>8, <2>1, Zenon DEF DatabasesShown, L
<1>9. CASE l.res = "SUCCESS"
  <2>1. l.res # "ERROR" /\ l.res # "NO_DATA"
    BY <1>9, <1>6
  <2>2. IF AllDatabases(args)
        THEN TablesDone("SUCCESS", tmeta \o DatabaseEntries(l.rows))
        ELSE IF Found(l.rows) = <<>>
             THEN TablesDone("INFO", tmeta)
             ELSE /\ pc' = "tables"
                  /\ queue' = Found(l.rows)
                  /\ UNCHANGED <<ret, tmeta, executed, fetched, cursor>>
    BY <1>2, <2>1, Zenon DEF Found
  <2> QED
    BY <1>1, <1>3, <1>5, <1>9, <2>2, Zenon DEF DatabasesShown, L
<1> QED
  BY <1>4, <1>5, <1>7, <1>8, <1>9

\* What ShowTables does when its internal query on d goes as l
TablesShown(l, d, meta) ==
  LET L == Listed(TablesOf[d], TablePattern(args)) IN
  /\ L \in Seq(Names) /\ ListingOf(l, L) /\ Noted(l, L)
  /\ UNCHANGED <<args, cmeta, fetchRet, delivered>>
  /\ meta = tmeta \o EntriesFor(d, l.rows)
  /\ \/ l.res = "ERROR" /\ TablesDone("ERROR", tmeta)
     \/ /\ l.res # "ERROR" /\ Len(queue) > 1
        /\ queue' = Tail(queue) /\ tmeta' = meta
        /\ UNCHANGED <<pc, ret, executed, fetched, cursor>>
     \/ /\ l.res # "ERROR" /\ ~(Len(queue) > 1) /\ meta = <<>>
        /\ TablesDone("INFO", meta)
     \/ /\ l.res # "ERROR" /\ ~(Len(queue) > 1) /\ meta # <<>>
        /\ TablesDone("SUCCESS", meta)

\* The outcomes of SHOW TABLES, one by one.
LEMMA ShowTablesCases ==
  ASSUME ShowTables, Head(queue) \in DOMAIN TablesOf
  PROVE  pc = "tables" /\ \E l, meta : TablesShown(l, Head(queue), meta)
<1> DEFINE d == Head(queue)
           L == Listed(TablesOf[d], TablePattern(args))
<1> HIDE DEF d
<1>1. L \in Seq(Names)
  BY CatalogAssumption, ListedFacts DEF d
<1> HIDE DEF L
<1>2. PICK l \in Listings(L) :
        /\ Record(l, L)
        /\ LET meta == tmeta \o EntriesFor(d, l.rows) IN
           IF l.res = "ERROR" THEN TablesDone("ERROR", tmeta)
           ELSE IF Len(queue) > 1
                THEN /\ queue' = Advance(queue)
                     /\ tmeta' = meta
                     /\ UNCHANGED <<pc, ret, executed, fetched, cursor>>
                ELSE TablesDone(IF meta = <<>> THEN "INFO" ELSE "SUCCESS", meta)
  BY Zenon DEF ShowTables, L, d
<1>3. ListingOf(l, L) /\ Noted(l, L)
  BY <1>1, <1>2, ListingFacts, NotedFacts
<1>4. UNCHANGED <<args, cmeta, fetchRet, delivered>> /\ pc = "tables"
  BY DEF ShowTables
<1> DEFINE meta == tmeta \o EntriesFor(d, l.rows)
<1>5. \/ l.res = "ERROR" /\ TablesDone("ERROR", tmeta)
      \/ /\ l.res # "ERROR" /\ Len(queue) > 1
         /\ queue' = Tail(queue) /\ tmeta' = meta
         /\ UNCHANGED <<pc, ret, executed, fetched, cursor>>
      \/ /\ l.res # "ERROR" /\ ~(Len(queue) > 1) /\ meta = <<>>
         /\ TablesDone("INFO", meta)
      \/ /\ l.res # "ERROR" /\ ~(Len(queue) > 1) /\ meta # <<>>
         /\ TablesDone("SUCCESS", meta)
  BY <1>2, Zenon DEF Advance
<1>6. TablesShown(l, d, meta)
  BY <1>1, <1>3, <1>4, <1>5, Zenon DEF TablesShown, L
<1> QED
  BY <1>4, <1>6 DEF d

\* What Describe does when its internal query on table e goes as l
Described(l, e, meta) ==
  LET L == ServerColumns(e) IN
  /\ L \in Seq(Names) /\ IsInjective(L) /\ ListingOf(l, L) /\ Noted(l, L)
  /\ UNCHANGED <<args, tmeta, fetchRet, delivered>>
  /\ meta = cmeta \o ColumnEntriesOf(e, l.rows) /\ cmeta' = meta
  /\ \/ /\ l.res = "SUCCESS" /\ Len(queue) > 1
        /\ queue' = Tail(queue) /\ UNCHANGED <<pc, ret, executed, fetched, cursor>>
     \/ /\ l.res = "SUCCESS" /\ ~(Len(queue) > 1)
        /\ \E r \in {"INFO", "SUCCESS"} : Return(r, r = "SUCCESS")
     \/ l.res # "SUCCESS" /\ Return("NO_DATA", FALSE)

\* The outcomes of DESCRIBE, one by one.
LEMMA DescribeCases ==
  ASSUME Describe
  PROVE  pc = "describe" /\ \E l, meta : Described(l, Head(queue), meta)
<1> DEFINE e == Head(queue)
           L == ServerColumns(e)
<1> HIDE DEF e
<1>1. L \in Seq(Names) /\ IsInjective(L)
  BY ServerColumnsFacts
<1> HIDE DEF L
<1>2. PICK l \in Describings(e) :
        /\ Record(l, L)
        /\ LET meta == Collect(e, l.rows)
               r == PerTableResult(l, meta)
           IN  /\ cmeta' = meta
               /\ IF r # "NO_DATA" /\ Len(queue) > 1
                  THEN /\ queue' = Advance(queue)
                       /\ UNCHANGED <<pc, ret, executed, fetched, cursor>>
                  ELSE Return(r, r = "SUCCESS")
  BY Zenon DEF Describe, L, e
<1>3. ListingOf(l, L) /\ Noted(l, L)
  BY <1>2, DescribingFacts, NotedFacts DEF L
<1>4. UNCHANGED <<args, tmeta, fetchRet, delivered>> /\ pc = "describe"
  BY DEF Describe
<1> DEFINE meta == Collect(e, l.rows)
           r == PerTableResult(l, meta)
<1>5. /\ meta = cmeta \o ColumnEntriesOf(e, l.rows)
      /\ l.res # "SUCCESS" => r = "NO_DATA"
      /\ l.res = "SUCCESS" => r \in {"INFO", "SUCCESS"}
  BY DEF Collect, PerTableResult
<1>6. /\ cmeta' = meta
      /\ IF r # "NO_DATA" /\ Len(queue) > 1
         THEN /\ queue' = Tail(queue)
              /\ UNCHANGED <<pc, ret, executed, fetched, cursor>>
         ELSE Return(r, r = "SUCCESS")
  BY <1>2, Zenon DEF Advance
<1> HIDE DEF meta, r
<1>7. CASE l.res = "SUCCESS"
  <2>1. r # "NO_DATA" /\ r \in {"INFO", "SUCCESS"}
    BY <1>5, <1>7
  <2>2. \/ /\ Len(queue) > 1 /\ queue' = Tail(queue)
           /\ UNCHANGED <<pc, ret, executed, fetched, cursor>>
        \/ ~(Len(queue) > 1) /\ Return(r, r = "SUCCESS")
    BY <1>6, <2>1, Zenon
  <2>3. Described(l, e, meta)
    BY <1>1, <1>3, <1>4, <1>5, <1>6, <1>7, <2>1, <2>2, Zenon DEF Described, L
  <2> QED
    BY <2>3, <1>4 DEF e
<1>8. CASE l.res # "SUCCESS"
  <2>1. r = "NO_DATA" /\ (r = "SUCCESS") = FALSE
    BY <1>5, <1>8
  <2>2. Return("NO_DATA", FALSE)
    <3>1. Return(r, r = "SUCCESS")
      BY <1>6, <2>1, Zenon
    <3> QED
      BY <3>1, <2>1, Zenon
  <2>3. Described(l, e, meta)
    BY <1>1, <1>3, <1>4, <1>5, <1>6, <1>8, <2>2, Zenon DEF Described, L
  <2> QED
    BY <2>3, <1>4 DEF e
<1> QED
  BY <1>7, <1>8

\* A sequence is a sequence over any set that holds its rows.
LEMMA SeqOfItsRange ==
  ASSUME NEW S, NEW s \in Seq(S), NEW T, ToSet(s) \subseteq T
  PROVE  s \in Seq(T)
<1>1. s \in [1..Len(s) -> T] /\ Len(s) \in Nat
  BY DEF ToSet
<1> QED
  BY <1>1

\* The databases that the call goes on with.
LEMMA FoundFacts ==
  ASSUME NEW rows \in Seq(Names)
  PROVE  /\ Found(rows) \in Seq(Names) /\ ToSet(Found(rows)) \subseteq ToSet(rows)
         /\ IsInjective(rows) => IsInjective(Found(rows))
         /\ args.id => \A d \in ToSet(Found(rows)) : SameIdentifier(d, args.db)
         /\ ~args.id => Found(rows) = rows
         /\ args.id /\ Found(rows) = <<>> =>
              \A d \in ToSet(rows) : ~SameIdentifier(d, args.db)
BY FirstSameFacts DEF Found

\* SHOW DATABASES keeps the invariant on fetching.
LEMMA ShowDatabasesFetch ==
  ASSUME TypeOK, FetchInv, ShowDatabases
  PROVE  TypeOK' /\ FetchInv'
<1>1. pc = "databases" /\ pc # "idle"
  BY ShowDatabasesCases
<1>2. PICK l : DatabasesShown(l)
  BY ShowDatabasesCases
<1> DEFINE L == Listed(Databases, DatabasePattern(args))
<1>3. L \in Seq(Names) /\ ListingOf(l, L) /\ Noted(l, L)
  BY <1>2 DEF DatabasesShown
<1>4. \A n : n \in ToSet(L) => n \in ToSet(Databases)
  BY CatalogAssumption, ListedFacts
<1> HIDE DEF L
<1>5. /\ l.rows \in Seq(Names) /\ ToSet(l.rows) \subseteq ToSet(Databases)
      /\ l.res = "SUCCESS" => l.rows # <<>>
      /\ failed' \in BOOLEAN /\ interrupted' \in BOOLEAN
      /\ failed' <=> l.res = "ERROR"
  BY <1>1, <1>3, <1>4 DEF ListingOf, Noted, FetchInv
<1>6. UNCHANGED <<args, cmeta, fetchRet, delivered>>
  BY <1>2 DEF DatabasesShown
<1>7. tmeta \in Seq(TableEntries)
  BY DEF TypeOK
<1>8. {"ERROR", "INFO", "SUCCESS"} \subseteq Codes
  BY DEF Codes
<1>9. CASE l.res = "ERROR" /\ TablesDone("ERROR", tmeta)
  BY <1>1, <1>5, <1>6, <1>7, <1>8, <1>9, TablesDoneFetch
<1>10. CASE l.res # "ERROR" /\ TablesDone("INFO", tmeta)
  BY <1>1, <1>5, <1>6, <1>7, <1>8, <1>10, TablesDoneFetch
<1>11. CASE /\ l.res = "SUCCESS"
            /\ TablesDone("SUCCESS", tmeta \o DatabaseEntries(l.rows))
  <2> DEFINE D == DatabaseEntries(l.rows)
             m == tmeta \o D
  <2>1. D \in Seq(TableEntries) /\ Len(D) = Len(l.rows) /\ Len(D) # 0
    <3>1. D \in Seq(TableEntries)
      BY <1>5, DatabaseEntriesFacts
    <3>2. DOMAIN D = 1..Len(l.rows)
      BY DEF DatabaseEntries
    <3> HIDE DEF D
    <3> QED
      BY <3>1, <3>2, <1>5, <1>11
  <2> HIDE DEF D
  <2>2. m \in Seq(TableEntries) /\ Len(m) # 0
    BY <2>1, <1>7
  <2>3. TablesDone("SUCCESS", m) /\ ~failed'
    BY <1>11, <1>5 DEF D
  <2> HIDE DEF m
  <2>4. m # <<>>
    BY <2>2
  <2> QED
    BY <1>1, <1>5, <1>6, <1>8, <2>2, <2>3, <2>4, TablesDoneFetch
<1>12. CASE /\ l.res = "SUCCESS" /\ Found(l.rows) # <<>>
            /\ pc' = "tables" /\ queue' = Found(l.rows)
            /\ UNCHANGED <<ret, tmeta, executed, fetched, cursor>>
  <2>1. queue' \in Seq(ToSet(Databases)) /\ queue' # <<>>
    BY <1>5, <1>12, FoundFacts, SeqOfItsRange
  <2>2. Meta' = Meta
    BY <1>6, <1>12 DEF Meta
  <2>3. TypeOK'
    BY <1>5, <1>6, <1>12, <2>1, <2>2 DEF TypeOK
  <2>4. FetchInv'
    BY <1>1, <1>5, <1>6, <1>12 DEF FetchInv
  <2> QED
    BY <2>3, <2>4
<1> QED
  BY <1>2, <1>9, <1>10, <1>11, <1>12 DEF DatabasesShown

\* SHOW TABLES keeps the invariant on fetching.
LEMMA ShowTablesFetch ==
  ASSUME TypeOK, FetchInv, ShowTables
  PROVE  TypeOK' /\ FetchInv'
<1> DEFINE d == Head(queue)
<1>1. pc = "tables" /\ pc # "idle"
  BY DEF ShowTables
<1>2. /\ queue \in Seq(ToSet(Databases)) /\ queue # <<>>
  BY <1>1 DEF TypeOK
<1>3. /\ d \in ToSet(Databases) /\ Tail(queue) \in Seq(ToSet(Databases))
      /\ Len(queue) > 1 => Tail(queue) # <<>>
  BY <1>2, TailFacts
<1>4. d \in DOMAIN TablesOf /\ d \in Names
  BY <1>3, CatalogAssumption DEF ToSet
<1>5. PICK l, meta : TablesShown(l, d, meta)
  BY <1>4, ShowTablesCases
<1> HIDE DEF d
<1> DEFINE L == Listed(TablesOf[d], TablePattern(args))
<1>6. L \in Seq(Names) /\ ListingOf(l, L) /\ Noted(l, L)
  BY <1>5 DEF TablesShown
<1> HIDE DEF L
<1>7. /\ l.rows \in Seq(Names)
      /\ failed' \in BOOLEAN /\ interrupted' \in BOOLEAN
      /\ failed' <=> l.res = "ERROR"
  BY <1>1, <1>6 DEF ListingOf, Noted, FetchInv
<1>8. UNCHANGED <<args, cmeta, fetchRet, delivered>>
  BY <1>5 DEF TablesShown
<1>9. tmeta \in Seq(TableEntries)
  BY DEF TypeOK
<1>10. meta \in Seq(TableEntries)
  <2>1. EntriesFor(d, l.rows) \in Seq(TableEntries)
    BY <1>4, <1>7, TableEntriesFacts
  <2>2. meta = tmeta \o EntriesFor(d, l.rows)
    BY <1>5 DEF TablesShown
  <2> QED
    BY <2>1, <2>2, <1>9, ConcatFacts
<1>11. {"ERROR", "INFO", "SUCCESS"} \subseteq Codes
  BY DEF Codes
<1>12. CASE l.res = "ERROR" /\ TablesDone("ERROR", tmeta)
  BY <1>1, <1>7, <1>8, <1>9, <1>11, <1>12, TablesDoneFetch
<1>13. CASE /\ l.res # "ERROR" /\ Len(queue) > 1
            /\ queue' = Tail(queue) /\ tmeta' = meta
            /\ UNCHANGED <<pc, ret, executed, fetched, cursor>>
  <2>1. queue' \in Seq(ToSet(Databases)) /\ queue' # <<>>
    BY <1>3, <1>13
  <2>2. Meta' \in Seq(TableEntries) \/ Meta' \in Seq(ColumnEntries)
    BY <1>8, <1>10, <1>13 DEF Meta, TypeOK
  <2>3. Len(Meta') \in Nat /\ cursor' = 1 /\ 1 \in 1..(Len(Meta') + 1)
    BY <1>1, <2>2, <1>13 DEF FetchInv
  <2>4. TypeOK'
    BY <1>1, <1>7, <1>8, <1>10, <1>13, <2>1, <2>3 DEF TypeOK
  <2>5. FetchInv'
    BY <1>1, <1>7, <1>8, <1>13 DEF FetchInv
  <2> QED
    BY <2>4, <2>5
<1>14. CASE l.res # "ERROR" /\ TablesDone("INFO", meta)
  BY <1>1, <1>7, <1>8, <1>10, <1>11, <1>14, TablesDoneFetch
<1>15. CASE l.res # "ERROR" /\ meta # <<>> /\ TablesDone("SUCCESS", meta)
  BY <1>1, <1>7, <1>8, <1>10, <1>11, <1>15, TablesDoneFetch
<1> QED
  BY <1>5, <1>12, <1>13, <1>14, <1>15 DEF TablesShown

\* DESCRIBE keeps the invariant on fetching.
LEMMA DescribeFetch ==
  ASSUME TypeOK, FetchInv, Describe
  PROVE  TypeOK' /\ FetchInv'
<1> DEFINE e == Head(queue)
<1>1. pc = "describe" /\ pc # "idle"
  BY DEF Describe
<1>2. /\ queue \in Seq(TableEntries) /\ queue # <<>>
  BY <1>1 DEF TypeOK
<1>3. /\ e \in TableEntries /\ Tail(queue) \in Seq(TableEntries)
      /\ Len(queue) > 1 => Tail(queue) # <<>>
  BY <1>2, TailFacts
<1>4. PICK l, meta : Described(l, e, meta)
  BY DescribeCases
<1> HIDE DEF e
<1>5. /\ l.rows \in Seq(Names) /\ l.res \in {"ERROR", "NO_DATA", "SUCCESS"}
      /\ failed' \in BOOLEAN /\ interrupted' \in BOOLEAN
      /\ failed' <=> l.res = "ERROR"
  BY <1>1, <1>4 DEF Described, ListingOf, Noted, FetchInv
<1>6. /\ UNCHANGED <<args, tmeta, fetchRet, delivered>>
      /\ meta = cmeta \o ColumnEntriesOf(e, l.rows) /\ cmeta' = meta
  BY <1>4 DEF Described
<1>7. meta \in Seq(ColumnEntries)
  <2>1. ColumnEntriesOf(e, l.rows) \in Seq(ColumnEntries)
    BY <1>3, <1>5, ColumnEntriesFacts
  <2>2. cmeta \in Seq(ColumnEntries)
    BY DEF TypeOK
  <2> QED
    BY <2>1, <2>2, <1>6, ConcatFacts
<1>8. Meta' \in Seq(TableEntries) \/ Meta' \in Seq(ColumnEntries)
  BY <1>6, <1>7 DEF Meta, TypeOK
<1>9. /\ Len(Meta') \in Nat /\ 1 \in 1..(Len(Meta') + 1)
      /\ SubSeq(Meta', 1, 0) = <<>>
  BY <1>8
<1>10. /\ ~executed /\ ~fetched /\ cursor = 1 /\ delivered' = <<>>
       /\ fetchRet' = "NONE" /\ args' \in Calls
  BY <1>1, <1>6 DEF FetchInv
<1>11. CASE /\ l.res = "SUCCESS" /\ Len(queue) > 1
            /\ queue' = Tail(queue)
            /\ UNCHANGED <<pc, ret, executed, fetched, cursor>>
  <2>1. TypeOK'
    BY <1>1, <1>3, <1>5, <1>6, <1>7, <1>9, <1>10, <1>11 DEF TypeOK
  <2>2. FetchInv'
    BY <1>1, <1>5, <1>10, <1>11 DEF FetchInv
  <2> QED
    BY <2>1, <2>2
<1>12. ASSUME NEW r \in {"NO_DATA", "INFO", "SUCCESS"}, NEW ok \in BOOLEAN,
              Return(r, ok), ok => l.res = "SUCCESS"
       PROVE  TypeOK' /\ FetchInv'
  <2>1. /\ pc' = "idle" /\ ret' = r /\ executed' = ok /\ fetched' = FALSE
        /\ cursor' = 1 /\ queue' = <<>> /\ ret' \in Codes
    BY <1>12 DEF Return, Codes
  <2>2. executed' => ~failed'
    BY <1>12, <2>1, <1>5
  <2>3. Given' = 0
    BY <2>1 DEF Given
  <2>4. executed' \in BOOLEAN /\ fetched' \in BOOLEAN
    BY <2>1, Zenon
  <2>5. TypeOK'
    BY <2>1, <2>4, <1>5, <1>6, <1>7, <1>9, <1>10 DEF TypeOK
  <2>6. FetchInv'
    BY <2>1, <2>2, <2>3, <1>9, <1>10 DEF FetchInv
  <2> QED
    BY <2>5, <2>6
<1>13. CASE /\ l.res = "SUCCESS"
            /\ \E r \in {"INFO", "SUCCESS"} : Return(r, r = "SUCCESS")
  <2>1. PICK r \in {"INFO", "SUCCESS"} : Return(r, r = "SUCCESS")
    BY <1>13
  <2>2. (r = "SUCCESS") \in BOOLEAN
    OBVIOUS
  <2> QED
    BY <2>1, <2>2, <1>12, <1>13
<1>14. CASE Return("NO_DATA", FALSE)
  BY <1>14, <1>12, Zenon
<1> QED
  BY <1>4, <1>11, <1>13, <1>14 DEF Described

\* The outcomes of the tests SQLTables makes of its arguments.
LEMMA SQLTablesCases ==
  ASSUME NEW a, SQLTables(a)
  PROVE  /\ a.kind = "tables" /\ NewQuery(a)
         /\ \/ AllTableTypes(a) /\ ReturnAtOnce("SUCCESS", TRUE, <<None>>)
            \/ /\ ~AllTableTypes(a) /\ (~ValidTableType(a) \/ TablesMatchNothing(a))
               /\ ReturnAtOnce("INFO", TRUE, <<>>)
            \/ ReturnAtOnce("ERROR", FALSE, <<>>)
            \/ Answerable(a) /\ StartWith("databases", <<>>)
BY Zenon DEF SQLTables, Answerable

\* The outcomes of the tests SQLColumns makes of its arguments.
LEMMA SQLColumnsCases ==
  ASSUME NEW a, SQLColumns(a)
  PROVE  /\ a.kind = "columns" /\ a.kind # "tables" /\ NewQuery(a)
         /\ \/ \E r \in {"INFO", "ERROR"} : ReturnAtOnce(r, FALSE, <<>>)
            \/ /\ Answerable(a) /\ a.id
               /\ StartWith("describe", <<[db |-> a.db, table |-> a.table]>>)
            \/ Answerable(a) /\ ~a.id /\ StartWith("databases", <<>>)
<1>1. a.kind = "columns" /\ a.kind # "tables" /\ NewQuery(a)
  BY DEF SQLColumns
<1> QED
  BY <1>1, Zenon DEF SQLColumns, Answerable

\* A call that returns at once has handed out nothing.
LEMMA ReturnAtOnceFetch ==
  ASSUME NEW a \in Calls, NewQuery(a), NEW r \in Codes, NEW ok \in BOOLEAN,
         NEW meta \in Seq(TableEntries), ReturnAtOnce(r, ok, meta)
  PROVE  TypeOK' /\ FetchInv'
<1>1. /\ args' = a /\ cmeta' = <<>> /\ fetchRet' = "NONE" /\ delivered' = <<>>
      /\ failed' = FALSE /\ interrupted' = FALSE
      /\ pc' = "idle" /\ ret' = r /\ executed' = ok /\ fetched' = FALSE
      /\ cursor' = 1 /\ queue' = <<>> /\ tmeta' = meta
  BY DEF NewQuery, ReturnAtOnce, Return
<1>2. /\ executed' \in BOOLEAN /\ fetched' \in BOOLEAN /\ failed' \in BOOLEAN
      /\ interrupted' \in BOOLEAN /\ ~failed'
  BY <1>1, Zenon
<1>3. cmeta' \in Seq(ColumnEntries) /\ tmeta' \in Seq(TableEntries)
  BY <1>1
<1>4. Meta' \in Seq(TableEntries) \/ Meta' \in Seq(ColumnEntries)
  BY <1>3 DEF Meta
<1>5. /\ Len(Meta') \in Nat /\ 1 \in 1..(Len(Meta') + 1)
      /\ SubSeq(Meta', 1, 0) = <<>>
  BY <1>4
<1>6. Given' = 0
  BY <1>1 DEF Given
<1>7. TypeOK'
  BY <1>1, <1>2, <1>3, <1>5 DEF TypeOK, Codes
<1>8. FetchInv'
  BY <1>1, <1>2, <1>5, <1>6 DEF FetchInv
<1> QED
  BY <1>7, <1>8

\* A call that starts its first internal query has handed out nothing.
LEMMA StartWithFetch ==
  ASSUME NEW a \in Calls, NewQuery(a), NEW next, NEW q, StartWith(next, q),
         \/ next = "databases"
         \/ next = "describe" /\ q \in Seq(TableEntries) /\ q # <<>>
  PROVE  TypeOK' /\ FetchInv'
<1>1. /\ args' = a /\ cmeta' = <<>> /\ fetchRet' = "NONE" /\ delivered' = <<>>
      /\ failed' = FALSE /\ interrupted' = FALSE
      /\ pc' = next /\ ret' = "NONE" /\ executed' = FALSE /\ fetched' = FALSE
      /\ cursor' = 1 /\ queue' = q /\ tmeta' = <<>>
  BY DEF NewQuery, StartWith
<1>2. /\ executed' \in BOOLEAN /\ fetched' \in BOOLEAN /\ failed' \in BOOLEAN
      /\ interrupted' \in BOOLEAN /\ ~failed' /\ ~executed' /\ ~fetched'
  BY <1>1, Zenon
<1>3. cmeta' \in Seq(ColumnEntries) /\ tmeta' \in Seq(TableEntries)
  BY <1>1
<1>4. Meta' \in Seq(TableEntries) \/ Meta' \in Seq(ColumnEntries)
  BY <1>3 DEF Meta
<1>5. Len(Meta') \in Nat /\ 1 \in 1..(Len(Meta') + 1)
  BY <1>4
<1>6. TypeOK'
  BY <1>1, <1>2, <1>3, <1>5 DEF TypeOK
<1>7. FetchInv'
  BY <1>1, <1>2 DEF FetchInv
<1> QED
  BY <1>6, <1>7

\* Every call of the application starts with the invariant on fetching.
LEMMA CallFetch ==
  ASSUME NEW a \in Calls, SQLTables(a) \/ SQLColumns(a)
  PROVE  TypeOK' /\ FetchInv'
<1>1. /\ <<>> \in Seq(TableEntries) /\ <<None>> \in Seq(TableEntries)
      /\ {"SUCCESS", "INFO", "ERROR"} \subseteq Codes
  BY CallsAssumption DEF None, TableEntries, Codes
<1>2. CASE SQLTables(a)
  <2>1. NewQuery(a)
    BY <1>2, SQLTablesCases
  <2>2. CASE ReturnAtOnce("SUCCESS", TRUE, <<None>>)
    BY <1>1, <2>1, <2>2, ReturnAtOnceFetch, Zenon
  <2>3. CASE ReturnAtOnce("INFO", TRUE, <<>>)
    BY <1>1, <2>1, <2>3, ReturnAtOnceFetch, Zenon
  <2>4. CASE ReturnAtOnce("ERROR", FALSE, <<>>)
    BY <1>1, <2>1, <2>4, ReturnAtOnceFetch, Zenon
  <2>5. CASE StartWith("databases", <<>>)
    BY <2>1, <2>5, StartWithFetch
  <2> QED
    BY <1>2, <2>2, <2>3, <2>4, <2>5, SQLTablesCases
<1>3. CASE SQLColumns(a)
  <2>1. NewQuery(a)
    BY <1>3, SQLColumnsCases
  <2>2. CASE \E r \in {"INFO", "ERROR"} : ReturnAtOnce(r, FALSE, <<>>)
    <3>1. PICK r \in {"INFO", "ERROR"} : ReturnAtOnce(r, FALSE, <<>>)
      BY <2>2
    <3>2. r \in Codes
      BY DEF Codes
    <3> QED
      BY <1>1, <2>1, <3>1, <3>2, ReturnAtOnceFetch, Zenon
  <2>3. CASE /\ Answerable(a) /\ a.id /\ a.kind # "tables"
             /\ StartWith("describe", <<[db |-> a.db, table |-> a.table]>>)
    <3> DEFINE e == [db |-> a.db, table |-> a.table]
    <3>1. e \in TableEntries
      BY <2>3, CallsAssumption DEF Answerable, ColumnsRefused, TableEntries
    <3> HIDE DEF e
    <3>2. <<e>> \in Seq(TableEntries) /\ <<e>> # <<>>
      BY <3>1
    <3> QED
      BY <2>1, <2>3, <3>2, StartWithFetch DEF e
  <2>4. CASE StartWith("databases", <<>>)
    BY <2>1, <2>4, StartWithFetch
  <2> QED
    BY <1>3, <2>2, <2>3, <2>4, SQLColumnsCases
<1> QED
  BY <1>2, <1>3

\* One more row of a sequence is a longer prefix.
LEMMA OneMoreRow ==
  ASSUME NEW S, NEW s \in Seq(S), NEW k \in Nat, k < Len(s)
  PROVE  Append(SubSeq(s, 1, k), s[k + 1]) = SubSeq(s, 1, k + 1)
OBVIOUS

\* SQLFetch hands out the next row or says NO_DATA behind the last.
LEMMA SQLFetchFetch ==
  ASSUME TypeOK, FetchInv, SQLFetch
  PROVE  TypeOK' /\ FetchInv'
<1>1. /\ pc = "idle" /\ pc' = pc /\ tmeta' = tmeta /\ cmeta' = cmeta
      /\ executed' = executed /\ failed' = failed /\ interrupted' = interrupted
      /\ args' = args /\ ret' = ret /\ queue' = queue
  BY DEF SQLFetch
<1>2. Meta' = Meta
  BY <1>1 DEF Meta
<1>3. Meta \in Seq(TableEntries) \/ Meta \in Seq(ColumnEntries)
  BY DEF Meta, TypeOK
<1>4. /\ Len(Meta) \in Nat /\ cursor \in 1..(Len(Meta) + 1)
      /\ executed \in BOOLEAN /\ fetched \in BOOLEAN
      /\ Meta = <<>> <=> Len(Meta) = 0
      /\ SubSeq(Meta, 1, 0) = <<>> /\ SubSeq(Meta, 1, Len(Meta)) = Meta
  BY <1>3 DEF TypeOK
<1>5. ASSUME NEW k \in Nat, k < Len(Meta)
      PROVE  Append(SubSeq(Meta, 1, k), Meta[k + 1]) = SubSeq(Meta, 1, k + 1)
  BY <1>3, <1>5, OneMoreRow
<1>6. CASE ~executed
  <2>1. /\ fetchRet' = "ERROR" /\ fetched' = fetched /\ cursor' = cursor
    BY <1>6 DEF SQLFetch
  <2>2. TypeOK'
    BY <1>1, <1>2, <1>4, <2>1 DEF TypeOK, Codes
  <2>3. FetchInv'
    BY <1>1, <1>6 DEF FetchInv
  <2> QED
    BY <2>2, <2>3
<1>7. CASE executed
  <2>1. /\ cursor' = NextCursor
        /\ fetched' = (fetched \/ Meta # <<>>)
        /\ \/ /\ NextCursor <= Len(Meta) /\ fetchRet' = "SUCCESS"
              /\ delivered' = Append(delivered, Meta[NextCursor])
           \/ /\ ~(NextCursor <= Len(Meta)) /\ fetchRet' = "NO_DATA"
              /\ delivered' = delivered
    BY <1>7 DEF SQLFetch
  <2>2. /\ delivered = SubSeq(Meta, 1, Given) /\ (~fetched => cursor = 1)
        /\ ~failed
    BY <1>1, <1>7 DEF FetchInv
  <2>3. fetched' \in BOOLEAN /\ fetchRet' \in Codes
    <3>1. fetched' \in BOOLEAN
      BY <2>1, Zenon
    <3> QED
      BY <2>1, <3>1 DEF Codes
  <2>4. NextCursor \in 1..(Len(Meta) + 1)
    BY <1>4 DEF NextCursor
  <2>5. TypeOK'
    BY <1>1, <1>2, <2>1, <2>3, <2>4 DEF TypeOK
  <2>6. CASE ~fetched /\ Meta = <<>>
    <3>1. /\ NextCursor = 1 /\ Given = 0 /\ Len(Meta) = 0 /\ ~fetched'
      BY <2>6, <2>1, <2>2, <1>4 DEF NextCursor, Given
    <3>2. /\ cursor' = 1 /\ delivered' = <<>> /\ Given' = 0
      BY <3>1, <2>1, <2>2, <1>4 DEF Given
    <3> QED
      BY <3>1, <3>2, <2>5, <2>6, <2>2, <1>1, <1>2, <1>4 DEF FetchInv
  <2>7. CASE ~fetched /\ Meta # <<>>
    <3>0. fetched'
      BY <2>7, <2>1, Zenon
    <3>1. /\ NextCursor = 1 /\ Given = 0 /\ 0 < Len(Meta) /\ fetched'
      BY <2>7, <3>0, <2>2, <1>4 DEF NextCursor, Given
    <3>2. delivered' = SubSeq(Meta, 1, 1) /\ cursor' = 1 /\ fetchRet' = "SUCCESS"
      BY <3>1, <2>1, <2>2, <1>5, <1>4
    <3>3. Given' = 1
      BY <3>1, <3>2, <1>2, <1>4 DEF Given
    <3> QED
      BY <3>1, <3>2, <3>3, <2>5, <2>2, <1>1, <1>2 DEF FetchInv
  <2>8. CASE fetched /\ cursor < Len(Meta)
    <3>1. /\ NextCursor = cursor + 1 /\ Given = cursor /\ cursor \in Nat
          /\ NextCursor <= Len(Meta) /\ fetched'
      <4>1. fetched'
        BY <2>8, <2>1, Zenon
      <4> QED
        <5>1. cursor \in Nat /\ cursor <= Len(Meta) /\ cursor + 1 <= Len(Meta)
          BY <2>8, <1>4
        <5>2. NextCursor = cursor + 1 /\ Given = cursor
          BY <2>8, <5>1, Zenon DEF NextCursor, Given
        <5> QED
          BY <4>1, <5>1, <5>2
    <3>2. /\ delivered' = SubSeq(Meta, 1, cursor + 1) /\ cursor' = cursor + 1
          /\ fetchRet' = "SUCCESS"
      BY <3>1, <2>1, <2>2, <2>8, <1>5
    <3>3. Given' = cursor + 1
      BY <3>1, <3>2, <1>2 DEF Given
    <3> QED
      BY <3>1, <3>2, <3>3, <2>5, <2>2, <1>1, <1>2 DEF FetchInv
  <2>9. CASE fetched /\ ~(cursor < Len(Meta))
    <3>1. /\ ~(NextCursor <= Len(Meta)) /\ Given = Len(Meta) /\ fetched'
      <4>1. fetched'
        BY <2>9, <2>1, Zenon
      <4> QED
        <5>0. cursor \in 1..(Len(Meta) + 1) /\ Len(Meta) \in Nat /\ ~(cursor < Len(Meta))
          BY <2>9, <1>4, Zenon
        <5>1. /\ cursor \in Nat /\ ~(cursor + 1 <= Len(Meta))
              /\ (cursor <= Len(Meta) => cursor = Len(Meta))
          BY <5>0
        <5>2. /\ (cursor <= Len(Meta) => NextCursor = cursor + 1)
              /\ (~(cursor <= Len(Meta)) => NextCursor = cursor)
          BY <2>9, Zenon DEF NextCursor
        <5>3. Given = Len(Meta)
          BY <2>9, <5>1, Zenon DEF Given
        <5> QED
          BY <4>1, <5>1, <5>2, <5>3
    <3>2. /\ delivered' = Meta /\ cursor' = NextCursor
      BY <3>1, <2>1, <2>2, <1>4
    <3>3. Given' = Len(Meta)
      BY <3>1, <3>2, <1>2 DEF Given
    <3> QED
      BY <3>1, <3>2, <3>3, <2>5, <2>2, <1>1, <1>2, <1>4 DEF FetchInv
  <2> QED
    BY <2>6, <2>7, <2>8, <2>9, <1>4
<1> QED
  BY <1>4, <1>6, <1>7

\* Closing, idle or in flight, leaves nothing to fetch.
LEMMA CloseFetch ==
  ASSUME TypeOK, FetchInv, CancelInFlight \/ CloseIdle
  PROVE  TypeOK' /\ FetchInv'
<1>1. /\ pc' = pc /\ args' = args /\ ret' = ret /\ queue' = queue
      /\ fetched' = fetched /\ fetchRet' = fetchRet /\ delivered' = delivered
      /\ failed' = failed /\ cursor' = 1 /\ executed' = FALSE
      /\ tmeta' \in {tmeta, <<>>} /\ cmeta' \in {cmeta, <<>>}
  BY DEF CancelInFlight, CloseIdle, CloseQuery
<1>2. /\ executed' \in BOOLEAN /\ interrupted' \in BOOLEAN /\ ~executed'
  <2>1. CASE CancelInFlight
    BY <1>1, <2>1, Zenon DEF CancelInFlight
  <2>2. CASE CloseIdle
    BY <1>1, <2>2 DEF CloseIdle, TypeOK
  <2> QED
    BY <2>1, <2>2
<1>3. tmeta' \in Seq(TableEntries) /\ cmeta' \in Seq(ColumnEntries)
  <2>1. tmeta \in Seq(TableEntries) /\ cmeta \in Seq(ColumnEntries)
    BY DEF TypeOK
  <2>2. <<>> \in Seq(TableEntries) /\ <<>> \in Seq(ColumnEntries)
    OBVIOUS
  <2> QED
    BY <1>1, <2>1, <2>2, Zenon
<1>4. Meta' \in Seq(TableEntries) \/ Meta' \in Seq(ColumnEntries)
  BY <1>3 DEF Meta
<1>5. Len(Meta') \in Nat /\ 1 \in 1..(Len(Meta') + 1)
  BY <1>4
<1>6. TypeOK'
  BY <1>1, <1>2, <1>3, <1>5 DEF TypeOK
<1>7. FetchInv'
  BY <1>1, <1>2 DEF FetchInv
<1> QED
  BY <1>6, <1>7

\* The type invariant and the invariant on fetching hold always.
LEMMA FetchInvariant == Spec => [](TypeOK /\ FetchInv)
<1>1. Init => TypeOK /\ FetchInv
  <2> SUFFICES ASSUME Init PROVE TypeOK /\ FetchInv
    OBVIOUS
  <2>1. /\ executed \in BOOLEAN /\ fetched \in BOOLEAN /\ failed \in BOOLEAN
        /\ interrupted \in BOOLEAN /\ ~executed
    BY Zenon DEF Init
  <2>2. Len(Meta) = 0
    BY DEF Init, Meta
  <2> QED
    BY <2>1, <2>2 DEF Init, TypeOK, FetchInv
<1>2. TypeOK /\ FetchInv /\ [Next]_vars => TypeOK' /\ FetchInv'
  <2> SUFFICES ASSUME TypeOK, FetchInv, [Next]_vars PROVE TypeOK' /\ FetchInv'
    OBVIOUS
  <2>1. CASE \E a \in Calls : SQLTables(a) \/ SQLColumns(a)
    BY <2>1, CallFetch
  <2>2. CASE ShowDatabases
    BY <2>2, ShowDatabasesFetch
  <2>3. CASE ShowTables
    BY <2>3, ShowTablesFetch
  <2>4. CASE Describe
    BY <2>4, DescribeFetch
  <2>5. CASE CancelInFlight \/ CloseIdle
    BY <2>5, CloseFetch
  <2>6. CASE SQLFetch
    BY <2>6, SQLFetchFetch
  <2>7. CASE UNCHANGED vars
    BY <2>7 DEF vars, TypeOK, FetchInv, Meta, Given
  <2> QED
    BY <2>1, <2>2, <2>3, <2>4, <2>5, <2>6, <2>7 DEF Next, InternalQuery
<1> QED
  BY <1>1, <1>2, PTL DEF Spec

\* For any catalog, any calls and any faults, what SQLFetch hands out after
\* SQLTables or SQLColumns are the collected rows, in order and each once,
\* NO_DATA comes behind the last of them only, and after a failed internal
\* query nothing can be fetched (TableMetadataQuery::FetchNextRow,
\* ColumnMetadataQuery::FetchNextRow).
THEOREM FetchedIsTheAnswer == Spec => []FetchGivesAnswer
<1>1. TypeOK /\ FetchInv => FetchGivesAnswer
  <2> SUFFICES ASSUME TypeOK, FetchInv PROVE FetchGivesAnswer
    OBVIOUS
  <2>1. FailureNotReadable
    BY DEF FailureNotReadable, FetchInv
  <2>2. ASSUME pc = "idle", executed
        PROVE  IsPrefix(delivered, Meta) /\ (fetchRet = "NO_DATA" => delivered = Meta)
    <3>1. Meta \in Seq(TableEntries) \/ Meta \in Seq(ColumnEntries)
      BY DEF Meta, TypeOK
    <3>2. Given \in 0..Len(Meta)
      BY <3>1 DEF Given, TypeOK
    <3>3. delivered = SubSeq(Meta, 1, Given)
      BY <2>2 DEF FetchInv
    <3>4. ASSUME NEW S, NEW s \in Seq(S), NEW k \in 0..Len(s)
          PROVE  IsPrefix(SubSeq(s, 1, k), s)
      BY DEF IsPrefix
    <3> QED
      BY <2>2, <3>1, <3>2, <3>3, <3>4 DEF FetchInv
  <2> QED
    BY <2>1, <2>2 DEF FetchGivesAnswer, FetchedInOrder
<1> QED
  BY <1>1, FetchInvariant, PTL

-----------------------------------------------------------------------------
(* What was asked for.                                                      *)

\* The tables asked for in one database, by what SHOW TABLES lists of it and
\* the driver keeps.
LEMMA WantedOfDatabase ==
  ASSUME NEW d \in ToSet(Databases), DatabaseAsked(args, d)
  PROVE  \A e : (e \in Wanted(args) /\ e.db = d) <=>
           \E t \in ToSet(Listed(TablesOf[d], TablePattern(args))) \cap TablesKept :
             e = [db |-> d, table |-> t]
<1> DEFINE L == Listed(TablesOf[d], TablePattern(args))
<1>1. TablesOf[d] \in Seq(Names)
  BY CatalogAssumption
<1>2. \A n : n \in ToSet(L) <=> n \in ToSet(TablesOf[d]) /\ Like(TablePattern(args), n)
  BY <1>1, ListedFacts
<1>3. \A n \in ToSet(TablesOf[d]) : n \in Names
  BY <1>1 DEF ToSet
<1> HIDE DEF L
<1> SUFFICES ASSUME NEW e
             PROVE  (e \in Wanted(args) /\ e.db = d) <=>
                      \E t \in ToSet(L) \cap TablesKept : e = [db |-> d, table |-> t]
  BY DEF L
<1>4. ASSUME e \in Wanted(args), e.db = d
      PROVE  e.table \in ToSet(L) \cap TablesKept /\ e = [db |-> d, table |-> e.table]
  <2>1. /\ e \in [db : ToSet(Databases), table : Names]
        /\ e.table \in ToSet(TablesOf[d])
        /\ IF args.id THEN SameIdentifier(e.table, args.table)
           ELSE Like(GetValueOr(args.table, Percent), e.table)
    BY <1>4 DEF Wanted
  <2>2. e.table \in Names /\ e = [db |-> d, table |-> e.table]
    BY <2>1, <1>4
  <2>3. Like(TablePattern(args), e.table)
    BY <2>1 DEF TablePattern, Like
  <2>4. e.table \in TablesKept
    BY <2>1, <2>2 DEF TablesKept
  <2> QED
    BY <1>2, <2>1, <2>2, <2>3, <2>4
<1>5. ASSUME NEW t \in ToSet(L) \cap TablesKept, e = [db |-> d, table |-> t]
      PROVE  e \in Wanted(args) /\ e.db = d
  <2>1. /\ t \in ToSet(TablesOf[d]) /\ t \in Names /\ Like(TablePattern(args), t)
        /\ ~args.id \/ SameIdentifier(t, args.table)
    BY <1>2, <1>3 DEF TablesKept
  <2>2. e.db = d /\ e.table = t /\ e \in [db : ToSet(Databases), table : Names]
    BY <1>5, <2>1
  <2>3. IF args.id THEN SameIdentifier(d, args.db) /\ SameIdentifier(t, args.table)
        ELSE /\ Like(GetValueOr(args.db, Percent), d)
             /\ Like(GetValueOr(args.table, Percent), t)
    BY <2>1 DEF DatabaseAsked, TablePattern
  <2> QED
    BY <2>1, <2>2, <2>3 DEF Wanted
<1> QED
  BY <1>4, <1>5

\* The columns asked for in one table, by what DESCRIBE lists of it and the
\* driver keeps.
LEMMA WantedOfTable ==
  ASSUME NEW e \in Wanted(args)
  PROVE  \A w : (/\ w \in WantedColumns(args)
                 /\ [db |-> w[1], table |-> w[2]] = e) <=>
           \E c \in ToSet(ServerColumns(e)) \cap ColumnsKept :
             w = <<e.db, e.table, c>>
<1>1. /\ e.db \in ToSet(Databases) /\ e.table \in Names
      /\ e = [db |-> e.db, table |-> e.table]
  BY DEF Wanted
<1>2. \A c \in ToSet(ServerColumns(e)) : c \in Names
  BY ServerColumnsFacts DEF ToSet
<1>3. ToSet(<<>>) = {}
  BY DEF ToSet
<1>4. /\ <<e.db, e.table>> \in DOMAIN ColumnsOf =>
           ServerColumns(e) = ColumnsOf[<<e.db, e.table>>]
      /\ <<e.db, e.table>> \notin DOMAIN ColumnsOf => ToSet(ServerColumns(e)) = {}
  BY <1>3 DEF ServerColumns
<1> TAKE w
<1>5. ASSUME w \in WantedColumns(args), [db |-> w[1], table |-> w[2]] = e
      PROVE  /\ w[3] \in ToSet(ServerColumns(e)) \cap ColumnsKept
             /\ w = <<e.db, e.table, w[3]>>
  <2>1. /\ w \in ToSet(Databases) \X Names \X Names
        /\ <<w[1], w[2]>> \in DOMAIN ColumnsOf
        /\ w[3] \in ToSet(ColumnsOf[<<w[1], w[2]>>])
        /\ GetValueOr(args.column, Percent) \in {Percent, w[3]}
    BY <1>5 DEF WantedColumns
  <2>2. w[1] = e.db /\ w[2] = e.table
    BY <1>5
  <2>3. w = <<e.db, e.table, w[3]>>
    BY <2>1, <2>2
  <2>4. w[3] \in ColumnsKept
    BY <2>1 DEF ColumnsKept, ColumnMatches
  <2> QED
    BY <2>1, <2>2, <2>3, <2>4, <1>4
<1>6. ASSUME NEW c \in ToSet(ServerColumns(e)) \cap ColumnsKept,
             w = <<e.db, e.table, c>>
      PROVE  w \in WantedColumns(args) /\ [db |-> w[1], table |-> w[2]] = e
  <2>1. w[1] = e.db /\ w[2] = e.table /\ w[3] = c
    BY <1>6
  <2>2. w \in ToSet(Databases) \X Names \X Names
    BY <1>1, <1>2, <1>6
  <2>3. <<w[1], w[2]>> \in DOMAIN ColumnsOf /\ w[3] \in ToSet(ColumnsOf[<<w[1], w[2]>>])
    BY <2>1, <1>4
  <2>4. GetValueOr(args.column, Percent) \in {Percent, w[3]}
    BY <2>1 DEF ColumnsKept, ColumnMatches
  <2>5. [db |-> w[1], table |-> w[2]] = e
    BY <2>1, <1>1
  <2> QED
    BY <2>2, <2>3, <2>4, <2>5 DEF WantedColumns
<1> QED
  BY <1>5, <1>6

\* What SQLTables is asked for when it needs internal queries.
LEMMA WantedOfAnswerable ==
  ASSUME NEW a, a.kind = "tables", Answerable(a)
  PROVE  WantedEntries(a) =
           IF AllDatabases(a)
           THEN {[db |-> d, table |-> Empty] : d \in ToSet(Databases)}
           ELSE Wanted(a)
BY DEF Answerable, WantedEntries

\* Nothing collected names nothing.
LEMMA NoColumns ==
  /\ ToSet(ColumnsIn(<<>>)) = {} /\ IsInjective(ColumnsIn(<<>>))
  /\ ToSet(<<>>) = {} /\ IsInjective(<<>>)
BY DEF ToSet, ColumnsIn, IsInjective

\* The end of TableMetadataQuery::Execute passes on only what was asked for.
LEMMA TablesDoneAsked ==
  ASSUME args \in Calls, AskedInv, pc \in {"databases", "tables"},
         NEW r, NEW meta, TablesDone(r, meta), UNCHANGED <<args, cmeta>>,
         ToSet(meta) \subseteq IF args.kind = "tables" THEN WantedEntries(args)
                               ELSE Wanted(args)
  PROVE  AskedInv'
<1>1. /\ args' = args /\ cmeta' = <<>> /\ tmeta' = meta /\ Answerable(args)
      /\ args.kind \in {"tables", "columns"}
  BY CallsAssumption DEF AskedInv, TablesDone
<1>2. ListsOnlyWhatWasAsked'
  BY <1>1, NoColumns DEF ListsOnlyWhatWasAsked
<1>3. \/ pc' = "idle"
      \/ pc' = "describe" /\ args.kind = "columns" /\ queue' = meta
  BY <1>1 DEF TablesDone, Return
<1>4. CASE pc' = "idle"
  BY <1>2, <1>4 DEF AskedInv
<1>5. CASE pc' = "describe" /\ args.kind = "columns" /\ queue' = meta
  BY <1>1, <1>2, <1>5 DEF AskedInv
<1> QED
  BY <1>3, <1>4, <1>5

\* SHOW DATABASES leads only to databases that were asked for.
LEMMA ShowDatabasesAsked ==
  ASSUME TypeOK, FetchInv, AskedInv, ShowDatabases
  PROVE  AskedInv'
<1>1. /\ pc = "databases" /\ args \in Calls /\ Answerable(args)
      /\ tmeta = <<>> /\ cmeta = <<>> /\ (args.kind = "columns" => ~args.id)
      /\ args.kind \in {"tables", "columns"}
  BY ShowDatabasesCases, CallsAssumption DEF FetchInv, AskedInv
<1>2. PICK l : DatabasesShown(l)
  BY ShowDatabasesCases
<1> DEFINE L == Listed(Databases, DatabasePattern(args))
<1>3. L \in Seq(Names) /\ ListingOf(l, L)
  BY <1>2 DEF DatabasesShown
<1>4. \A n : n \in ToSet(L) => n \in ToSet(Databases) /\ Like(DatabasePattern(args), n)
  BY CatalogAssumption, ListedFacts
<1> HIDE DEF L
<1>5. UNCHANGED <<args, cmeta>>
  BY <1>2 DEF DatabasesShown
<1>6. l.rows \in Seq(Names) /\ ToSet(l.rows) \subseteq ToSet(L)
  BY <1>3 DEF ListingOf
<1>7. ToSet(tmeta) = {}
  BY <1>1, NoColumns
<1>8. CASE TablesDone("ERROR", tmeta)
  BY <1>1, <1>5, <1>7, <1>8, TablesDoneAsked
<1>9. CASE TablesDone("INFO", tmeta)
  BY <1>1, <1>5, <1>7, <1>9, TablesDoneAsked
<1>10. CASE /\ AllDatabases(args)
            /\ TablesDone("SUCCESS", tmeta \o DatabaseEntries(l.rows))
  <2> DEFINE D == DatabaseEntries(l.rows)
             m == tmeta \o D
  <2>1. /\ D \in Seq(TableEntries)
        /\ ToSet(D) = {[db |-> d, table |-> Empty] : d \in ToSet(l.rows)}
    BY <1>6, DatabaseEntriesFacts
  <2> HIDE DEF D
  <2>2. ToSet(m) = ToSet(D)
    BY <2>1, <1>1, <1>7, ConcatFacts
  <2>3. args.kind = "tables"
    BY <1>1, <1>10 DEF AllDatabases, Answerable, ColumnsMatchNothing
  <2>4. WantedEntries(args) = {[db |-> d, table |-> Empty] : d \in ToSet(Databases)}
    BY <1>1, <1>10, <2>3, WantedOfAnswerable
  <2>5. ToSet(m) \subseteq WantedEntries(args)
    BY <2>1, <2>2, <2>4, <1>4, <1>6
  <2>6. TablesDone("SUCCESS", m)
    BY <1>10 DEF D
  <2> HIDE DEF m
  <2> QED
    BY <1>1, <1>5, <2>3, <2>5, <2>6, TablesDoneAsked
<1>11. CASE /\ ~AllDatabases(args) /\ pc' = "tables" /\ queue' = Found(l.rows)
            /\ UNCHANGED <<ret, tmeta, executed, fetched, cursor>>
  <2>1. \A d \in ToSet(queue') : d \in ToSet(Databases) /\ DatabaseAsked(args, d)
    <3> TAKE d \in ToSet(queue')
    <3>1. /\ d \in ToSet(l.rows) /\ (args.id => SameIdentifier(d, args.db))
      BY <1>6, <1>11, FoundFacts
    <3>2. d \in ToSet(Databases) /\ Like(DatabasePattern(args), d)
      BY <3>1, <1>4, <1>6
    <3>3. ~args.id => DatabasePattern(args) = GetValueOr(args.db, Percent)
      BY <1>11 DEF DatabasePattern
    <3> QED
      BY <3>1, <3>2, <3>3 DEF DatabaseAsked
  <2>2. ListsOnlyWhatWasAsked'
    BY <1>1, <1>5, <1>7, <1>11, NoColumns DEF ListsOnlyWhatWasAsked
  <2>3. args' = args /\ tmeta' = tmeta /\ cmeta' = cmeta /\ pc' = "tables"
    BY <1>5, <1>11
  <2>4. (~AllDatabases(args))' /\ Answerable(args)'
    BY <1>1, <1>11, <2>3 DEF AllDatabases, Answerable
  <2> QED
    BY <1>1, <1>7, <2>1, <2>2, <2>3, <2>4 DEF AskedInv
<1> QED
  BY <1>2, <1>8, <1>9, <1>10, <1>11 DEF DatabasesShown

\* What ShowTables adds
LEMMA TablesAdded ==
  ASSUME TypeOK, FetchInv, AskedInv, pc = "tables",
         NEW l, NEW meta, TablesShown(l, Head(queue), meta)
  PROVE  LET d == Head(queue)
             new == EntriesFor(d, l.rows) IN
         /\ meta = tmeta \o new
         /\ tmeta \in Seq(TableEntries) /\ new \in Seq(TableEntries)
         /\ d \in ToSet(queue) /\ IsInjective(new)
         /\ \A e \in ToSet(new) : e \in Wanted(args) /\ e.db = d
         /\ (l.res # "ERROR" /\ ~Cut(l, Listed(TablesOf[d], TablePattern(args)))) =>
              \A e \in Wanted(args) : e.db = d => e \in ToSet(new)
<1> DEFINE d == Head(queue)
           new == EntriesFor(d, l.rows)
<1>1. queue \in Seq(ToSet(Databases)) /\ queue # <<>> /\ tmeta \in Seq(TableEntries)
  BY DEF TypeOK
<1>2. d \in ToSet(queue) /\ d \in ToSet(Databases)
  BY <1>1, TailFacts
<1>3. DatabaseAsked(args, d) /\ d \in Names /\ d \in DOMAIN TablesOf
  BY <1>2, CatalogAssumption DEF AskedInv, ToSet
<1> HIDE DEF d
<1> DEFINE L == Listed(TablesOf[d], TablePattern(args))
<1>4. /\ L \in Seq(Names) /\ ListingOf(l, L) /\ meta = tmeta \o new
  BY DEF TablesShown, d
<1>5. IsInjective(L)
  BY <1>3, CatalogAssumption, ListedFacts
<1>6. \A e : (e \in Wanted(args) /\ e.db = d) <=>
        \E t \in ToSet(L) \cap TablesKept : e = [db |-> d, table |-> t]
  BY <1>2, <1>3, WantedOfDatabase
<1> HIDE DEF L
<1>7. /\ l.rows \in Seq(Names) /\ ToSet(l.rows) \subseteq ToSet(L)
      /\ IsInjective(l.rows)
      /\ (l.res # "ERROR" /\ ~Cut(l, L)) => l.rows = L
  BY <1>4, <1>5 DEF ListingOf
<1>8. /\ new \in Seq(TableEntries) /\ IsInjective(new)
      /\ \A e : e \in ToSet(new) <=>
           \E t \in ToSet(l.rows) \cap TablesKept : e = [db |-> d, table |-> t]
  BY <1>3, <1>7, TableEntriesFacts
<1> HIDE DEF new
<1>9. \A e \in ToSet(new) : e \in Wanted(args) /\ e.db = d
  BY <1>6, <1>7, <1>8
<1>10. (l.res # "ERROR" /\ ~Cut(l, L)) =>
         \A e \in Wanted(args) : e.db = d => e \in ToSet(new)
  BY <1>6, <1>7, <1>8
<1> QED
  BY <1>1, <1>2, <1>4, <1>8, <1>9, <1>10 DEF new, d, L

\* SHOW TABLES adds only tables that were asked for.
LEMMA ShowTablesAsked ==
  ASSUME TypeOK, FetchInv, AskedInv, ShowTables
  PROVE  AskedInv'
<1> DEFINE d == Head(queue)
<1>1. /\ pc = "tables" /\ args \in Calls /\ Answerable(args) /\ ~AllDatabases(args)
      /\ cmeta = <<>> /\ ToSet(tmeta) \subseteq Wanted(args)
      /\ args.kind \in {"tables", "columns"}
  BY CallsAssumption DEF ShowTables, FetchInv, AskedInv
<1>2. queue \in Seq(ToSet(Databases)) /\ queue # <<>>
  BY <1>1 DEF TypeOK
<1>3. /\ d \in DOMAIN TablesOf /\ ToSet(Tail(queue)) \subseteq ToSet(queue)
  BY <1>2, TailFacts, CatalogAssumption
<1>4. PICK l, meta : TablesShown(l, d, meta)
  BY <1>3, ShowTablesCases
<1>5. /\ meta = tmeta \o EntriesFor(d, l.rows)
      /\ tmeta \in Seq(TableEntries) /\ EntriesFor(d, l.rows) \in Seq(TableEntries)
      /\ \A e \in ToSet(EntriesFor(d, l.rows)) : e \in Wanted(args)
  BY <1>1, <1>4, TablesAdded
<1>6. ToSet(meta) \subseteq Wanted(args)
  BY <1>1, <1>5, ConcatFacts
<1>7. args.kind = "tables" => WantedEntries(args) = Wanted(args)
  BY <1>1, WantedOfAnswerable
<1>8. UNCHANGED <<args, cmeta>>
  BY <1>4 DEF TablesShown
<1> HIDE DEF d
<1>9. CASE TablesDone("ERROR", tmeta)
  BY <1>1, <1>7, <1>8, <1>9, TablesDoneAsked
<1>10. CASE /\ queue' = Tail(queue) /\ tmeta' = meta
            /\ UNCHANGED <<pc, ret, executed, fetched, cursor>>
  <2>1. args' = args /\ tmeta' = meta /\ cmeta' = <<>> /\ pc' = "tables"
    BY <1>1, <1>8, <1>10
  <2>2. \A x \in ToSet(queue') : x \in ToSet(Databases) /\ DatabaseAsked(args, x)
    BY <1>1, <1>3, <1>10 DEF AskedInv
  <2>3. ListsOnlyWhatWasAsked'
    BY <1>6, <1>7, <2>1, NoColumns DEF ListsOnlyWhatWasAsked
  <2>4. args.kind = "columns" => ~args.id
    BY <1>1 DEF AskedInv
  <2> QED
    BY <1>1, <1>6, <2>1, <2>2, <2>3, <2>4 DEF AskedInv
<1>11. CASE TablesDone("INFO", meta)
  BY <1>1, <1>6, <1>7, <1>8, <1>11, TablesDoneAsked
<1>12. CASE TablesDone("SUCCESS", meta)
  BY <1>1, <1>6, <1>7, <1>8, <1>12, TablesDoneAsked
<1> QED
  BY <1>4, <1>9, <1>10, <1>11, <1>12 DEF TablesShown

\* What Describe adds
LEMMA ColumnsAdded ==
  ASSUME TypeOK, FetchInv, AskedInv, pc = "describe", ~args.id,
         NEW l, NEW meta, Described(l, Head(queue), meta)
  PROVE  LET e == Head(queue)
             new == ColumnsIn(ColumnEntriesOf(e, l.rows)) IN
         /\ ColumnsIn(meta) = ColumnsIn(cmeta) \o new
         /\ \E S : ColumnsIn(cmeta) \in Seq(S) /\ new \in Seq(S)
         /\ e \in ToSet(queue) /\ IsInjective(new)
         /\ \A w \in ToSet(new) :
              w \in WantedColumns(args) /\ [db |-> w[1], table |-> w[2]] = e
         /\ (l.res # "ERROR" /\ ~Cut(l, ServerColumns(e))) =>
              \A w \in WantedColumns(args) :
                [db |-> w[1], table |-> w[2]] = e => w \in ToSet(new)
<1> DEFINE e == Head(queue)
           m == ColumnEntriesOf(e, l.rows)
           new == ColumnsIn(m)
           L == ServerColumns(e)
<1>1. queue \in Seq(TableEntries) /\ queue # <<>> /\ cmeta \in Seq(ColumnEntries)
  BY DEF TypeOK
<1>2. e \in ToSet(queue) /\ e \in TableEntries
  BY <1>1, TailFacts
<1>3. e \in Wanted(args)
  BY <1>2 DEF AskedInv
<1> HIDE DEF e
<1>4. /\ L \in Seq(Names) /\ ListingOf(l, L) /\ IsInjective(L) /\ meta = cmeta \o m
  BY DEF Described, e
<1>5. \A w : (w \in WantedColumns(args) /\ [db |-> w[1], table |-> w[2]] = e) <=>
        \E c \in ToSet(L) \cap ColumnsKept : w = <<e.db, e.table, c>>
  BY <1>3, WantedOfTable
<1> HIDE DEF L
<1>6. /\ l.rows \in Seq(Names) /\ ToSet(l.rows) \subseteq ToSet(L)
      /\ IsInjective(l.rows)
      /\ (l.res # "ERROR" /\ ~Cut(l, L)) => l.rows = L
  BY <1>4 DEF ListingOf
<1>7. /\ m \in Seq(ColumnEntries) /\ IsInjective(new)
      /\ \A w : w \in ToSet(new) <=>
           \E c \in ToSet(l.rows) \cap ColumnsKept : w = <<e.db, e.table, c>>
  BY <1>2, <1>6, ColumnEntriesFacts
<1> HIDE DEF m
<1>8. /\ ColumnsIn(meta) = ColumnsIn(cmeta) \o new
      /\ \E S : ColumnsIn(cmeta) \in Seq(S) /\ new \in Seq(S)
  BY <1>1, <1>4, <1>7, ColumnsOfConcat
<1> HIDE DEF new
<1>9. \A w \in ToSet(new) :
        w \in WantedColumns(args) /\ [db |-> w[1], table |-> w[2]] = e
  BY <1>5, <1>6, <1>7
<1>10. (l.res # "ERROR" /\ ~Cut(l, L)) =>
         \A w \in WantedColumns(args) :
           [db |-> w[1], table |-> w[2]] = e => w \in ToSet(new)
  BY <1>5, <1>6, <1>7
<1> QED
  BY <1>2, <1>7, <1>8, <1>9, <1>10 DEF new, m, e, L

\* DESCRIBE adds only columns that were asked for.
LEMMA DescribeAsked ==
  ASSUME TypeOK, FetchInv, AskedInv, Describe
  PROVE  AskedInv'
<1> DEFINE e == Head(queue)
<1>1. /\ pc = "describe" /\ pc # "idle" /\ args.kind = "columns" /\ Answerable(args)
      /\ (~args.id => ToSet(queue) \subseteq Wanted(args))
  BY DEF Describe, AskedInv
<1>2. PICK l, meta : Described(l, e, meta)
  BY DescribeCases
<1>3. /\ args' = args /\ cmeta' = meta /\ tmeta' = tmeta
  BY <1>2 DEF Described
<1>4. ~args.id => ToSet(ColumnsIn(meta)) \subseteq WantedColumns(args)
  <2> HAVE ~args.id
  <2> DEFINE new == ColumnsIn(ColumnEntriesOf(e, l.rows))
  <2>1. /\ ColumnsIn(meta) = ColumnsIn(cmeta) \o new
        /\ \E S : ColumnsIn(cmeta) \in Seq(S) /\ new \in Seq(S)
        /\ \A w \in ToSet(new) : w \in WantedColumns(args)
    BY <1>1, <1>2, ColumnsAdded
  <2> HIDE DEF new
  <2>2. ToSet(ColumnsIn(meta)) = ToSet(ColumnsIn(cmeta)) \cup ToSet(new)
    BY <2>1, ConcatFacts
  <2>3. ToSet(ColumnsIn(cmeta)) \subseteq WantedColumns(args)
    BY <1>1 DEF AskedInv, ListsOnlyWhatWasAsked
  <2> QED
    BY <2>1, <2>2, <2>3
<1>5. ListsOnlyWhatWasAsked'
  BY <1>1, <1>3, <1>4 DEF ListsOnlyWhatWasAsked
<1>6. \/ pc' = "idle"
      \/ pc' = "describe" /\ queue' = Tail(queue)
  BY <1>1, <1>2 DEF Described, Return
<1>7. CASE pc' = "idle"
  BY <1>5, <1>7 DEF AskedInv
<1>8. CASE pc' = "describe" /\ queue' = Tail(queue)
  <2>1. ToSet(queue') \subseteq ToSet(queue)
    BY <1>1, <1>8, TailFacts DEF TypeOK
  <2> QED
    BY <1>1, <1>3, <1>5, <1>8, <2>1 DEF AskedInv
<1> QED
  BY <1>6, <1>7, <1>8

\* Every call of the application starts with nothing unasked.
LEMMA CallAsked ==
  ASSUME NEW a \in Calls, SQLTables(a) \/ SQLColumns(a)
  PROVE  AskedInv'
<1>1. args' = a /\ cmeta' = <<>>
  BY SQLTablesCases, SQLColumnsCases DEF NewQuery
<1>2. CASE SQLTables(a)
  <2>1. a.kind = "tables" /\ a.kind # "columns"
    BY <1>2, SQLTablesCases
  <2>2. CASE AllTableTypes(a) /\ ReturnAtOnce("SUCCESS", TRUE, <<None>>)
    <3>1. pc' = "idle" /\ tmeta' = <<None>>
      BY <2>2 DEF ReturnAtOnce, Return
    <3>2. ToSet(<<None>>) = {None} /\ WantedEntries(a) = {None}
      BY <2>2 DEF ToSet, WantedEntries
    <3>3. ToSet(tmeta') \subseteq WantedEntries(a)
      BY <3>1, <3>2
    <3> QED
      BY <1>1, <2>1, <3>1, <3>3 DEF AskedInv, ListsOnlyWhatWasAsked
  <2>3. CASE \E r, ok : ReturnAtOnce(r, ok, <<>>)
    <3>1. pc' = "idle" /\ tmeta' = <<>>
      BY <2>3 DEF ReturnAtOnce, Return
    <3> QED
      BY <1>1, <2>1, <3>1, NoColumns DEF AskedInv, ListsOnlyWhatWasAsked
  <2>4. CASE Answerable(a) /\ StartWith("databases", <<>>)
    <3>1. pc' = "databases" /\ tmeta' = <<>>
      BY <2>4 DEF StartWith
    <3> QED
      BY <1>1, <2>1, <2>4, <3>1, NoColumns DEF AskedInv, ListsOnlyWhatWasAsked
  <2> QED
    BY <1>2, <2>2, <2>3, <2>4, SQLTablesCases
<1>3. CASE SQLColumns(a)
  <2>1. a.kind = "columns" /\ a.kind # "tables"
    BY <1>3, SQLColumnsCases
  <2>2. ListsOnlyWhatWasAsked'
    BY <1>1, <2>1, NoColumns DEF ListsOnlyWhatWasAsked
  <2>3. CASE \E r, ok : ReturnAtOnce(r, ok, <<>>)
    <3>1. pc' = "idle"
      BY <2>3 DEF ReturnAtOnce, Return
    <3> QED
      BY <2>2, <3>1 DEF AskedInv
  <2>4. CASE /\ Answerable(a) /\ a.id
             /\ StartWith("describe", <<[db |-> a.db, table |-> a.table]>>)
    <3>1. pc' = "describe"
      BY <2>4 DEF StartWith
    <3> QED
      BY <1>1, <2>1, <2>2, <2>4, <3>1 DEF AskedInv
  <2>5. CASE Answerable(a) /\ ~a.id /\ StartWith("databases", <<>>)
    <3>1. pc' = "databases" /\ tmeta' = <<>>
      BY <2>5 DEF StartWith
    <3> QED
      BY <1>1, <2>1, <2>2, <2>5, <3>1 DEF AskedInv
  <2> QED
    BY <1>3, <2>3, <2>4, <2>5, SQLColumnsCases
<1> QED
  BY <1>2, <1>3

\* What Close empties and what it leaves alone
LEMMA CloseCases ==
  ASSUME CancelInFlight \/ CloseIdle
  PROVE  /\ pc' = pc /\ args' = args /\ queue' = queue
         /\ \/ args.kind = "tables" /\ tmeta' = <<>> /\ cmeta' = cmeta
            \/ args.kind # "tables" /\ cmeta' = <<>> /\ tmeta' = tmeta
BY DEF CancelInFlight, CloseIdle, CloseQuery

\* Closing adds nothing.
LEMMA CloseAsked ==
  ASSUME AskedInv, CancelInFlight \/ CloseIdle
  PROVE  AskedInv'
<1>1. pc' = pc /\ args' = args /\ queue' = queue
  BY CloseCases
<1>2. CASE args.kind = "tables" /\ tmeta' = <<>> /\ cmeta' = cmeta
  <2>1. ListsOnlyWhatWasAsked'
    BY <1>1, <1>2, NoColumns DEF ListsOnlyWhatWasAsked
  <2>2. ToSet(tmeta') \subseteq Wanted(args)
    BY <1>2, NoColumns
  <2> QED
    BY <1>1, <1>2, <2>1, <2>2 DEF AskedInv
<1>3. CASE args.kind # "tables" /\ cmeta' = <<>> /\ tmeta' = tmeta
  <2>1. ListsOnlyWhatWasAsked'
    BY <1>1, <1>3, NoColumns DEF ListsOnlyWhatWasAsked
  <2> QED
    BY <1>1, <1>3, <2>1 DEF AskedInv
<1> QED
  BY <1>2, <1>3, CloseCases

\* The invariant on what was asked for holds always.
LEMMA AskedInvariant == Spec => []AskedInv
<1>1. Init => AskedInv
  <2> SUFFICES ASSUME Init PROVE AskedInv
    OBVIOUS
  <2>1. pc = "idle" /\ tmeta = <<>> /\ cmeta = <<>>
    BY DEF Init
  <2> QED
    BY <2>1, NoColumns DEF AskedInv, ListsOnlyWhatWasAsked
<1>2. TypeOK /\ FetchInv /\ AskedInv /\ [Next]_vars => AskedInv'
  <2> SUFFICES ASSUME TypeOK, FetchInv, AskedInv, [Next]_vars PROVE AskedInv'
    OBVIOUS
  <2>1. CASE \E a \in Calls : SQLTables(a) \/ SQLColumns(a)
    BY <2>1, CallAsked
  <2>2. CASE ShowDatabases
    BY <2>2, ShowDatabasesAsked
  <2>3. CASE ShowTables
    BY <2>3, ShowTablesAsked
  <2>4. CASE Describe
    BY <2>4, DescribeAsked
  <2>5. CASE CancelInFlight \/ CloseIdle
    BY <2>5, CloseAsked
  <2>6. CASE SQLFetch \/ UNCHANGED vars
    <3>1. UNCHANGED <<pc, args, queue, tmeta, cmeta>>
      BY <2>6 DEF SQLFetch, vars
    <3>2. ListsOnlyWhatWasAsked'
      BY <3>1 DEF AskedInv, ListsOnlyWhatWasAsked
    <3> QED
      BY <3>1, <3>2 DEF AskedInv
  <2> QED
    BY <2>1, <2>2, <2>3, <2>4, <2>5, <2>6 DEF Next, InternalQuery
<1> QED
  BY <1>1, <1>2, FetchInvariant, PTL DEF Spec

\* For any catalog, any calls and any faults, SQLTables lists only tables, and
\* SQLColumns only columns, that the server has and that the arguments ask for
\* (TableMetadataQuery::getTables,
\* ColumnMetadataQuery::MakeRequestGetColumnsMetaPerTable).
THEOREM NothingUnasked == Spec => []ListsOnlyWhatWasAsked
<1>1. AskedInv => ListsOnlyWhatWasAsked
  BY DEF AskedInv
<1> QED
  BY <1>1, AskedInvariant, PTL

-----------------------------------------------------------------------------
(* The whole of what was asked for.                                         *)

\* The end of TableMetadataQuery::Execute passes on all that was asked for.
LEMMA TablesDoneComplete ==
  ASSUME args \in Calls, AskedInv, pc \in {"databases", "tables"},
         NEW r, NEW meta, TablesDone(r, meta), UNCHANGED <<args, cmeta>>,
         (r # "ERROR" /\ ~interrupted') =>
           /\ IsInjective(meta)
           /\ ToSet(meta) = IF args.kind = "tables" THEN WantedEntries(args)
                            ELSE Wanted(args)
  PROVE  CompleteInv'
<1>1. /\ args' = args /\ cmeta' = <<>> /\ tmeta' = meta
      /\ args.kind \in {"tables", "columns"}
  BY CallsAssumption DEF AskedInv, TablesDone
<1>2. CASE args.kind = "tables"
  <2>1. pc' = "idle" /\ (executed' => r # "ERROR")
    BY <1>2 DEF TablesDone, Return, TablesExecuted
  <2> QED
    BY <1>1, <1>2, <2>1 DEF CompleteInv
<1>3. CASE args.kind # "tables" /\ r = "SUCCESS"
  <2>1. pc' = "describe" /\ queue' = meta
    BY <1>3 DEF TablesDone
  <2>2. \A w \in WantedColumns(args) : [db |-> w[1], table |-> w[2]] \in Wanted(args)
    BY DEF WantedColumns
  <2>3. ASSUME ~interrupted'
        PROVE  /\ IsInjective(queue') /\ IsInjective(ColumnsIn(cmeta'))
               /\ ToSet(ColumnsIn(cmeta')) =
                    {w \in WantedColumns(args) :
                       [db |-> w[1], table |-> w[2]] \notin ToSet(queue')}
    <3>1. IsInjective(meta) /\ ToSet(queue') = Wanted(args)
      BY <1>3, <2>1, <2>3
    <3>2. {w \in WantedColumns(args) :
             [db |-> w[1], table |-> w[2]] \notin ToSet(queue')} = {}
      BY <2>2, <3>1
    <3> QED
      BY <1>1, <2>1, <3>1, <3>2, NoColumns
  <2> QED
    BY <1>1, <2>1, <2>3 DEF CompleteInv
<1>4. CASE args.kind # "tables" /\ r # "SUCCESS"
  <2>1. pc' = "idle" /\ executed' = FALSE
    BY <1>4 DEF TablesDone, Return
  <2> QED
    BY <2>1 DEF CompleteInv
<1> QED
  BY <1>2, <1>3, <1>4

\* The database of a table that was asked for is one that SHOW DATABASES lists.
LEMMA DatabaseListed ==
  ASSUME ~AllDatabases(args), NEW e \in Wanted(args)
  PROVE  /\ e.db \in ToSet(Listed(Databases, DatabasePattern(args)))
         /\ e.db \in ToSet(Databases) /\ DatabaseAsked(args, e.db)
<1>1. e.db \in ToSet(Databases) /\ DatabaseAsked(args, e.db)
  BY DEF Wanted, DatabaseAsked
<1>2. Like(DatabasePattern(args), e.db)
  BY <1>1 DEF DatabaseAsked, DatabasePattern, Like
<1> QED
  BY <1>1, <1>2, CatalogAssumption, ListedFacts

\* SHOW DATABASES misses no database that holds what was asked for.
LEMMA ShowDatabasesComplete ==
  ASSUME OneDatabasePerIdentifier,
         TypeOK, FetchInv, AskedInv, CompleteInv, ShowDatabases
  PROVE  CompleteInv'
<1>1. /\ pc = "databases" /\ args \in Calls /\ Answerable(args)
      /\ tmeta = <<>> /\ cmeta = <<>> /\ (args.kind = "columns" => ~args.id)
      /\ args.kind \in {"tables", "columns"} /\ args.id \in BOOLEAN
  BY ShowDatabasesCases, CallsAssumption DEF FetchInv, AskedInv
<1>2. PICK l : DatabasesShown(l)
  BY ShowDatabasesCases
<1> DEFINE L == Listed(Databases, DatabasePattern(args))
<1>3. L \in Seq(Names) /\ ListingOf(l, L) /\ (interrupted' <=> interrupted \/ Cut(l, L))
  BY <1>2 DEF DatabasesShown, Noted
<1>4. /\ \A n : n \in ToSet(L) <=>
                  n \in ToSet(Databases) /\ Like(DatabasePattern(args), n)
      /\ IsInjective(L)
  BY CatalogAssumption, ListedFacts
<1>5. ~AllDatabases(args) => \A e \in Wanted(args) : e.db \in ToSet(L)
  BY DatabaseListed
<1> HIDE DEF L
<1>6. UNCHANGED <<args, cmeta>>
  BY <1>2 DEF DatabasesShown
<1>7. /\ l.rows \in Seq(Names) /\ ToSet(l.rows) \subseteq ToSet(L)
      /\ IsInjective(l.rows)
      /\ (l.res # "SUCCESS" => l.rows = <<>>)
      /\ ((l.res # "ERROR" /\ ~interrupted') => l.rows = L)
      /\ (l.res = "SUCCESS" => l.rows # <<>>)
  BY <1>3, <1>4 DEF ListingOf
<1>8. ToSet(tmeta) = {} /\ IsInjective(tmeta)
  BY <1>1, NoColumns
<1>9. AllDatabases(args) => args.kind = "tables" /\ ToSet(L) = ToSet(Databases)
  <2> HAVE AllDatabases(args)
  <2>1. args.kind = "tables"
    BY <1>1 DEF AllDatabases, Answerable, ColumnsMatchNothing
  <2>2. \A n : Like(DatabasePattern(args), n)
    BY DEF DatabasePattern, Like
  <2> QED
    BY <2>1, <2>2, <1>4
<1> DEFINE Goal == IF args.kind = "tables" THEN WantedEntries(args) ELSE Wanted(args)
<1>10. Goal = IF AllDatabases(args)
              THEN {[db |-> d, table |-> Empty] : d \in ToSet(Databases)}
              ELSE Wanted(args)
  BY <1>1, <1>9, WantedOfAnswerable
<1> HIDE DEF Goal
<1>11. CASE TablesDone("ERROR", tmeta)
  BY <1>1, <1>6, <1>11, TablesDoneComplete
<1>12. CASE l.res = "NO_DATA" /\ TablesDone("INFO", tmeta)
  <2>1. ~interrupted' => Goal = {}
    <3> HAVE ~interrupted'
    <3>1. ToSet(L) = {}
      BY <1>7, <1>12, NoColumns
    <3> QED
      BY <1>5, <1>9, <1>10, <3>1
  <2> QED
    BY <1>1, <1>6, <1>8, <1>12, <2>1, TablesDoneComplete DEF Goal
<1>13. CASE /\ l.res = "SUCCESS" /\ AllDatabases(args)
            /\ TablesDone("SUCCESS", tmeta \o DatabaseEntries(l.rows))
  <2> DEFINE D == DatabaseEntries(l.rows)
             m == tmeta \o D
  <2>1. /\ D \in Seq(TableEntries) /\ IsInjective(D)
        /\ ToSet(D) = {[db |-> d, table |-> Empty] : d \in ToSet(l.rows)}
    BY <1>7, DatabaseEntriesFacts
  <2> HIDE DEF D
  <2>2. ToSet(m) = ToSet(D) /\ IsInjective(m)
    <3>1. tmeta \in Seq(TableEntries) /\ ToSet(tmeta) \cap ToSet(D) = {}
      BY <1>1, <1>8
    <3> QED
      BY <2>1, <1>8, <3>1, ConcatFacts
  <2>3. ~interrupted' => ToSet(m) = Goal
    BY <1>7, <1>9, <1>10, <1>13, <2>1, <2>2
  <2>4. TablesDone("SUCCESS", m)
    BY <1>13 DEF D
  <2> HIDE DEF m
  <2> QED
    BY <1>1, <1>6, <2>2, <2>3, <2>4, TablesDoneComplete DEF Goal
<1>14. CASE /\ l.res = "SUCCESS" /\ ~AllDatabases(args) /\ Found(l.rows) = <<>>
            /\ TablesDone("INFO", tmeta)
  <2>1. ~interrupted' => Goal = {}
    <3> HAVE ~interrupted'
    <3>1. args.id /\ \A d \in ToSet(L) : ~SameIdentifier(d, args.db)
      BY <1>1, <1>7, <1>14, FoundFacts
    <3>2. \A e \in Wanted(args) : SameIdentifier(e.db, args.db)
      BY <3>1 DEF Wanted
    <3> QED
      BY <1>5, <1>10, <1>14, <3>1, <3>2
  <2> QED
    BY <1>1, <1>6, <1>8, <1>14, <2>1, TablesDoneComplete DEF Goal
<1>15. CASE /\ l.res = "SUCCESS" /\ ~AllDatabases(args) /\ Found(l.rows) # <<>>
            /\ pc' = "tables" /\ queue' = Found(l.rows)
            /\ UNCHANGED <<ret, tmeta, executed, fetched, cursor>>
  <2>1. IsInjective(queue')
    BY <1>7, <1>15, FoundFacts
  <2>2. ASSUME ~interrupted', NEW e \in Wanted(args)
        PROVE  e.db \in ToSet(queue')
    <3>1. CASE ~args.id
      <4>1. queue' = L
        BY <1>7, <1>15, <2>2, <3>1, FoundFacts
      <4> QED
        BY <4>1, <1>5, <1>15
    <3>2. CASE args.id
      <4>1. /\ Found(l.rows) \in Seq(Names)
            /\ \A d \in ToSet(Found(l.rows)) :
                 d \in ToSet(l.rows) /\ SameIdentifier(d, args.db)
        BY <1>7, <3>2, FoundFacts
      <4> DEFINE d == Head(Found(l.rows))
      <4>2. d \in ToSet(queue') /\ SameIdentifier(d, args.db) /\ d \in ToSet(l.rows)
        BY <1>15, <4>1, TailFacts
      <4>3. d \in ToSet(Databases)
        BY <4>2, <1>4, <1>7
      <4>4. e.db \in ToSet(Databases) /\ SameIdentifier(e.db, args.db)
        BY <2>2, <3>2 DEF Wanted
      <4> HIDE DEF d
      <4>5. d = e.db
        BY <4>2, <4>3, <4>4 DEF OneDatabasePerIdentifier, SameIdentifier
      <4> QED
        BY <4>2, <4>5
    <3> QED
      BY <3>1, <3>2, <1>1
  <2>3. ~interrupted' => {e \in Wanted(args) : e.db \notin ToSet(queue')} = {}
    BY <2>2
  <2>4. args' = args /\ tmeta' = tmeta /\ pc' = "tables"
    BY <1>6, <1>15
  <2> QED
    BY <1>8, <2>1, <2>3, <2>4 DEF CompleteInv
<1> QED
  BY <1>2, <1>11, <1>12, <1>13, <1>14, <1>15 DEF DatabasesShown

\* SHOW TABLES completes one database and repeats no table.
LEMMA ShowTablesComplete ==
  ASSUME TypeOK, FetchInv, AskedInv, CompleteInv, ShowTables
  PROVE  CompleteInv'
<1> DEFINE d == Head(queue)
<1>1. /\ pc = "tables" /\ args \in Calls /\ Answerable(args) /\ ~AllDatabases(args)
      /\ args.kind \in {"tables", "columns"}
  BY CallsAssumption DEF ShowTables, FetchInv, AskedInv
<1>2. queue \in Seq(ToSet(Databases)) /\ queue # <<>>
  BY <1>1 DEF TypeOK
<1>3. /\ d \in DOMAIN TablesOf
      /\ ToSet(queue) = {d} \cup ToSet(Tail(queue))
      /\ IsInjective(queue) => d \notin ToSet(Tail(queue)) /\ IsInjective(Tail(queue))
      /\ ~(Len(queue) > 1) => ToSet(queue) = {d}
  BY <1>2, TailFacts, CatalogAssumption
<1>4. PICK l, meta : TablesShown(l, d, meta)
  BY <1>3, ShowTablesCases
<1> DEFINE new == EntriesFor(d, l.rows)
           L == Listed(TablesOf[d], TablePattern(args))
<1>5. /\ meta = tmeta \o new /\ d \in ToSet(queue)
      /\ tmeta \in Seq(TableEntries) /\ new \in Seq(TableEntries)
      /\ IsInjective(new)
      /\ \A e \in ToSet(new) : e \in Wanted(args) /\ e.db = d
      /\ (l.res # "ERROR" /\ ~Cut(l, L)) =>
           \A e \in Wanted(args) : e.db = d => e \in ToSet(new)
  BY <1>1, <1>4, TablesAdded
<1>6. args' = args /\ cmeta' = cmeta /\ (interrupted' <=> interrupted \/ Cut(l, L))
  BY <1>4 DEF TablesShown, Noted
<1> HIDE DEF d, new, L
<1>7. ASSUME l.res # "ERROR", ~interrupted'
      PROVE  /\ IsInjective(queue) /\ IsInjective(meta)
             /\ \A e : e \in ToSet(meta) <=>
                  e \in Wanted(args) /\ (e.db \notin ToSet(queue) \/ e.db = d)
  <2>1. /\ ~interrupted /\ ~Cut(l, L)
    BY <1>6, <1>7
  <2>2. /\ IsInjective(queue) /\ IsInjective(tmeta)
        /\ ToSet(tmeta) = {e \in Wanted(args) : e.db \notin ToSet(queue)}
    BY <1>1, <2>1 DEF CompleteInv
  <2>3. ToSet(tmeta) \cap ToSet(new) = {}
    BY <1>5, <2>2
  <2>4. IsInjective(meta) /\ ToSet(meta) = ToSet(tmeta) \cup ToSet(new)
    BY <1>5, <2>2, <2>3, ConcatFacts
  <2>5. \A e : e \in ToSet(new) <=> e \in Wanted(args) /\ e.db = d
    BY <1>5, <1>7, <2>1
  <2> QED
    BY <2>2, <2>4, <2>5
<1>8. ASSUME l.res # "ERROR", ~interrupted', ~(Len(queue) > 1)
      PROVE  IsInjective(meta) /\ ToSet(meta) = Wanted(args)
  <2>1. \A e : e \in ToSet(meta) <=> e \in Wanted(args)
    BY <1>3, <1>7, <1>8
  <2> QED
    BY <1>7, <1>8, <2>1
<1>9. args.kind = "tables" => WantedEntries(args) = Wanted(args)
  BY <1>1, WantedOfAnswerable
<1>10. CASE TablesDone("ERROR", tmeta)
  BY <1>1, <1>6, <1>10, TablesDoneComplete
<1>11. CASE /\ l.res # "ERROR" /\ queue' = Tail(queue) /\ tmeta' = meta
            /\ UNCHANGED <<pc, ret, executed, fetched, cursor>>
  <2>1. ASSUME ~interrupted'
        PROVE  /\ IsInjective(queue') /\ IsInjective(tmeta')
               /\ ToSet(tmeta') = {e \in Wanted(args) : e.db \notin ToSet(queue')}
    <3>1. /\ IsInjective(queue) /\ IsInjective(meta)
          /\ \A e : e \in ToSet(meta) <=>
                  e \in Wanted(args) /\ (e.db \notin ToSet(queue) \/ e.db = d)
      BY <1>7, <1>11, <2>1
    <3>2. \A x : x \notin ToSet(Tail(queue)) <=> x \notin ToSet(queue) \/ x = d
      BY <1>3, <3>1
    <3>3. \A e : e \in ToSet(meta) <=>
                   e \in Wanted(args) /\ e.db \notin ToSet(Tail(queue))
      BY <3>1, <3>2
    <3> QED
      BY <1>3, <1>11, <3>1, <3>3
  <2> QED
    BY <1>1, <1>6, <1>11, <2>1 DEF CompleteInv
<1>12. CASE l.res # "ERROR" /\ ~(Len(queue) > 1) /\ TablesDone("INFO", meta)
  BY <1>1, <1>6, <1>8, <1>9, <1>12, TablesDoneComplete
<1>13. CASE l.res # "ERROR" /\ ~(Len(queue) > 1) /\ TablesDone("SUCCESS", meta)
  BY <1>1, <1>6, <1>8, <1>9, <1>13, TablesDoneComplete
<1> QED
  BY <1>4, <1>10, <1>11, <1>12, <1>13 DEF TablesShown

\* DESCRIBE completes one table and repeats no column.
LEMMA DescribeComplete ==
  ASSUME TypeOK, FetchInv, AskedInv, CompleteInv, Describe
  PROVE  CompleteInv'
<1> DEFINE e == Head(queue)
<1>1. /\ pc = "describe" /\ args.kind = "columns" /\ args.kind # "tables"
  BY DEF Describe, AskedInv
<1>2. queue \in Seq(TableEntries) /\ queue # <<>>
  BY <1>1 DEF TypeOK
<1>3. /\ ToSet(queue) = {e} \cup ToSet(Tail(queue))
      /\ IsInjective(queue) => e \notin ToSet(Tail(queue)) /\ IsInjective(Tail(queue))
      /\ ~(Len(queue) > 1) => ToSet(queue) = {e}
  BY <1>2, TailFacts
<1>4. PICK l, meta : Described(l, e, meta)
  BY DescribeCases
<1> DEFINE new == ColumnsIn(ColumnEntriesOf(e, l.rows))
           L == ServerColumns(e)
           old == ColumnsIn(cmeta)
<1>5. /\ args' = args /\ cmeta' = meta /\ (interrupted' <=> interrupted \/ Cut(l, L))
  BY <1>4 DEF Described, Noted
<1>6. ASSUME l.res = "SUCCESS", ~interrupted', ~args.id
      PROVE  /\ IsInjective(queue) /\ IsInjective(ColumnsIn(meta))
             /\ \A w : w \in ToSet(ColumnsIn(meta)) <=>
                  /\ w \in WantedColumns(args)
                  /\ \/ [db |-> w[1], table |-> w[2]] \notin ToSet(queue)
                     \/ [db |-> w[1], table |-> w[2]] = e
  <2>1. ~interrupted /\ ~Cut(l, L) /\ l.res # "ERROR"
    BY <1>5, <1>6
  <2>2. /\ ColumnsIn(meta) = old \o new /\ e \in ToSet(queue) /\ IsInjective(new)
        /\ \E S : old \in Seq(S) /\ new \in Seq(S)
        /\ \A w \in ToSet(new) :
             w \in WantedColumns(args) /\ [db |-> w[1], table |-> w[2]] = e
        /\ \A w \in WantedColumns(args) :
             [db |-> w[1], table |-> w[2]] = e => w \in ToSet(new)
    BY <1>1, <1>4, <1>6, <2>1, ColumnsAdded
  <2>3. /\ IsInjective(queue) /\ IsInjective(old)
        /\ ToSet(old) = {w \in WantedColumns(args) :
                           [db |-> w[1], table |-> w[2]] \notin ToSet(queue)}
    BY <1>1, <1>6, <2>1 DEF CompleteInv
  <2> HIDE DEF e, new, old, L
  <2>4. ToSet(old) \cap ToSet(new) = {}
    BY <2>2, <2>3
  <2>5. /\ IsInjective(ColumnsIn(meta))
        /\ ToSet(ColumnsIn(meta)) = ToSet(old) \cup ToSet(new)
    BY <2>2, <2>3, <2>4, ConcatFacts
  <2> QED
    BY <2>2, <2>3, <2>5
<1> HIDE DEF e, new, old, L
<1>7. CASE /\ l.res = "SUCCESS"
           /\ queue' = Tail(queue) /\ UNCHANGED <<pc, ret, executed, fetched, cursor>>
  <2>1. ASSUME ~interrupted', ~args.id
        PROVE  /\ IsInjective(queue') /\ IsInjective(ColumnsIn(cmeta'))
               /\ ToSet(ColumnsIn(cmeta')) =
                    {w \in WantedColumns(args) :
                       [db |-> w[1], table |-> w[2]] \notin ToSet(queue')}
    <3>1. /\ IsInjective(queue) /\ IsInjective(ColumnsIn(meta))
          /\ \A w : w \in ToSet(ColumnsIn(meta)) <=>
                  /\ w \in WantedColumns(args)
                  /\ \/ [db |-> w[1], table |-> w[2]] \notin ToSet(queue)
                     \/ [db |-> w[1], table |-> w[2]] = e
      BY <1>6, <1>7, <2>1
    <3>2. \A x : x \notin ToSet(Tail(queue)) <=> x \notin ToSet(queue) \/ x = e
      BY <1>3, <3>1
    <3>3. \A w : w \in ToSet(ColumnsIn(meta)) <=>
                  /\ w \in WantedColumns(args)
                  /\ [db |-> w[1], table |-> w[2]] \notin ToSet(Tail(queue))
      BY <3>1, <3>2
    <3> QED
      BY <1>3, <1>5, <1>7, <3>1, <3>3
  <2> QED
    BY <1>1, <1>5, <1>7, <2>1 DEF CompleteInv
<1>8. CASE /\ l.res = "SUCCESS" /\ ~(Len(queue) > 1)
           /\ \E r \in {"INFO", "SUCCESS"} : Return(r, r = "SUCCESS")
  <2>1. pc' = "idle"
    BY <1>8 DEF Return
  <2>2. ASSUME ~interrupted', ~args.id
        PROVE  /\ IsInjective(ColumnsIn(cmeta'))
               /\ ToSet(ColumnsIn(cmeta')) = WantedColumns(args)
    <3>1. \A w : w \in ToSet(ColumnsIn(meta)) <=> w \in WantedColumns(args)
      BY <1>3, <1>6, <1>8, <2>2
    <3> QED
      BY <1>5, <1>6, <1>8, <2>2, <3>1
  <2> QED
    BY <1>1, <1>5, <2>1, <2>2 DEF CompleteInv
<1>9. CASE Return("NO_DATA", FALSE)
  <2>1. pc' = "idle" /\ executed' = FALSE
    BY <1>9 DEF Return
  <2> QED
    BY <2>1 DEF CompleteInv
<1> QED
  BY <1>4, <1>7, <1>8, <1>9 DEF Described

\* A call that returns at once has the whole answer or cannot be read.
LEMMA CallComplete ==
  ASSUME NEW a \in Calls, SQLTables(a) \/ SQLColumns(a)
  PROVE  CompleteInv'
<1>1. args' = a /\ cmeta' = <<>>
  BY SQLTablesCases, SQLColumnsCases DEF NewQuery
<1>2. CASE SQLTables(a)
  <2>1. a.kind = "tables"
    BY <1>2, SQLTablesCases
  <2>2. CASE AllTableTypes(a) /\ ReturnAtOnce("SUCCESS", TRUE, <<None>>)
    <3>1. pc' = "idle" /\ tmeta' = <<None>>
      BY <2>2 DEF ReturnAtOnce, Return
    <3>2. /\ ToSet(<<None>>) = {None} /\ IsInjective(<<None>>)
          /\ WantedEntries(a) = {None}
      BY <2>2 DEF ToSet, IsInjective, WantedEntries
    <3>3. ToSet(tmeta') = WantedEntries(a) /\ IsInjective(tmeta')
      BY <3>1, <3>2
    <3> QED
      BY <1>1, <2>1, <3>1, <3>3 DEF CompleteInv
  <2>3. CASE /\ ~AllTableTypes(a) /\ (~ValidTableType(a) \/ TablesMatchNothing(a))
             /\ ReturnAtOnce("INFO", TRUE, <<>>)
    <3>1. pc' = "idle" /\ tmeta' = <<>>
      BY <2>3 DEF ReturnAtOnce, Return
    <3>2. WantedEntries(a) = {}
      BY <2>3 DEF WantedEntries
    <3>3. ToSet(tmeta') = WantedEntries(a) /\ IsInjective(tmeta')
      BY <3>1, <3>2, NoColumns
    <3> QED
      BY <1>1, <2>1, <3>1, <3>3 DEF CompleteInv
  <2>4. CASE ReturnAtOnce("ERROR", FALSE, <<>>)
    <3>1. pc' = "idle" /\ executed' = FALSE
      BY <2>4 DEF ReturnAtOnce, Return
    <3> QED
      BY <3>1 DEF CompleteInv
  <2>5. CASE StartWith("databases", <<>>)
    <3>1. pc' = "databases"
      BY <2>5 DEF StartWith
    <3> QED
      BY <3>1 DEF CompleteInv
  <2> QED
    BY <1>2, <2>2, <2>3, <2>4, <2>5, SQLTablesCases
<1>3. CASE SQLColumns(a)
  <2>1. CASE \E r : ReturnAtOnce(r, FALSE, <<>>)
    <3>1. pc' = "idle" /\ executed' = FALSE
      BY <2>1 DEF ReturnAtOnce, Return
    <3> QED
      BY <3>1 DEF CompleteInv
  <2>2. CASE /\ a.id
             /\ StartWith("describe", <<[db |-> a.db, table |-> a.table]>>)
    <3>1. pc' = "describe"
      BY <2>2 DEF StartWith
    <3> QED
      BY <1>1, <2>2, <3>1 DEF CompleteInv
  <2>3. CASE StartWith("databases", <<>>)
    <3>1. pc' = "databases"
      BY <2>3 DEF StartWith
    <3> QED
      BY <3>1 DEF CompleteInv
  <2> QED
    BY <1>3, <2>1, <2>2, <2>3, SQLColumnsCases
<1> QED
  BY <1>2, <1>3

\* Closing in flight loses nothing, or counts as an interruption.
LEMMA CloseComplete ==
  ASSUME TypeOK, CompleteInv, CancelInFlight \/ CloseIdle
  PROVE  CompleteInv'
<1>1. pc' = pc /\ args' = args /\ queue' = queue
  BY CloseCases
<1>2. CASE CloseIdle
  <2>1. pc = "idle" /\ executed' = FALSE
    BY <1>2 DEF CloseIdle, CloseQuery
  <2> QED
    BY <1>1, <2>1 DEF CompleteInv
<1>3. CASE CancelInFlight
  <2>1. pc # "idle" /\ (interrupted' <=> interrupted \/ Meta # <<>>)
    BY <1>3 DEF CancelInFlight
  <2>2. ~interrupted' => ~interrupted /\ tmeta' = tmeta /\ cmeta' = cmeta
    BY <2>1, CloseCases DEF Meta
  <2>3. CASE interrupted'
    BY <1>1, <2>1, <2>3 DEF CompleteInv
  <2>4. CASE ~interrupted'
    BY <1>1, <2>1, <2>2, <2>4 DEF CompleteInv
  <2> QED
    BY <2>3, <2>4
<1> QED
  BY <1>2, <1>3

\* The invariant on completeness holds always.
LEMMA CompleteInvariant ==
  ASSUME OneDatabasePerIdentifier PROVE Spec => []CompleteInv
<1>1. Init => CompleteInv
  <2> SUFFICES ASSUME Init PROVE CompleteInv
    OBVIOUS
  <2>1. pc = "idle" /\ executed = FALSE
    BY DEF Init
  <2> QED
    BY <2>1 DEF CompleteInv
<1>2. TypeOK /\ FetchInv /\ AskedInv /\ CompleteInv /\ [Next]_vars => CompleteInv'
  <2> SUFFICES ASSUME TypeOK, FetchInv, AskedInv, CompleteInv, [Next]_vars
               PROVE  CompleteInv'
    OBVIOUS
  <2>1. CASE \E a \in Calls : SQLTables(a) \/ SQLColumns(a)
    BY <2>1, CallComplete
  <2>2. CASE ShowDatabases
    BY <2>2, ShowDatabasesComplete
  <2>3. CASE ShowTables
    BY <2>3, ShowTablesComplete
  <2>4. CASE Describe
    BY <2>4, DescribeComplete
  <2>5. CASE CancelInFlight \/ CloseIdle
    BY <2>5, CloseComplete
  <2>6. CASE SQLFetch \/ UNCHANGED vars
    <3>1. UNCHANGED <<pc, args, queue, tmeta, cmeta, executed, interrupted>>
      BY <2>6 DEF SQLFetch, vars
    <3> QED
      BY <3>1 DEF CompleteInv
  <2> QED
    BY <2>1, <2>2, <2>3, <2>4, <2>5, <2>6 DEF Next, InternalQuery
<1> QED
  BY <1>1, <1>2, FetchInvariant, AskedInvariant, PTL DEF Spec

\* DESCRIBE numbers the columns it adds as the table does.
LEMMA DescribeOrdinal ==
  ASSUME TypeOK, OrdinalInv, Describe
  PROVE  OrdinalInv'
<1> DEFINE e == Head(queue)
<1>1. pc = "describe"
  BY DEF Describe
<1>2. queue \in Seq(TableEntries) /\ queue # <<>> /\ cmeta \in Seq(ColumnEntries)
  BY <1>1 DEF TypeOK
<1>3. e \in TableEntries
  BY <1>2, TailFacts
<1>4. PICK l, meta : Described(l, e, meta)
  BY DescribeCases
<1> HIDE DEF e
<1> DEFINE L == ServerColumns(e)
           m == ColumnEntriesOf(e, l.rows)
<1>5. /\ args' = args /\ cmeta' = meta /\ meta = cmeta \o m
      /\ L \in Seq(Names) /\ ListingOf(l, L)
  BY <1>4 DEF Described
<1>6. /\ l.rows \in Seq(Names)
      /\ \A i \in 1..Len(l.rows) : i \in 1..Len(L) /\ l.rows[i] = L[i]
  BY <1>5 DEF ListingOf
<1> SUFFICES ASSUME args.kind = "columns",
                    GetValueOr(args.column, Percent) = Percent,
                    NEW i \in 1..Len(meta)
             PROVE  /\ <<meta[i].db, meta[i].table>> \in DOMAIN ColumnsOf
                    /\ ColumnsOf[<<meta[i].db, meta[i].table>>][meta[i].ordinal]
                         = meta[i].column
  BY <1>5 DEF OrdinalInv
<1>7. ToSet(l.rows) \subseteq ColumnsKept
  BY <1>6 DEF ToSet, ColumnsKept, ColumnMatches
<1>8. /\ m \in Seq(ColumnEntries)
      /\ \A j \in 1..Len(m) : /\ m[j].db = e.db /\ m[j].table = e.table
                              /\ j \in 1..Len(l.rows)
                              /\ m[j].ordinal = j /\ m[j].column = l.rows[j]
  BY <1>3, <1>6, <1>7, ColumnEntriesFacts
<1>9. Len(L) # 0 => <<e.db, e.table>> \in DOMAIN ColumnsOf
                    /\ L = ColumnsOf[<<e.db, e.table>>]
  BY DEF ServerColumns
<1> HIDE DEF L, m
<1>10. CASE i =< Len(cmeta)
  <2>1. i \in 1..Len(cmeta) /\ meta[i] = cmeta[i]
    BY <1>2, <1>5, <1>8, <1>10
  <2> QED
    BY <2>1 DEF OrdinalInv
<1>11. CASE ~(i =< Len(cmeta))
  <2> DEFINE j == i - Len(cmeta)
  <2>1. j \in 1..Len(m) /\ meta[i] = m[j]
    BY <1>2, <1>5, <1>8, <1>11
  <2> HIDE DEF j
  <2>2. /\ m[j].db = e.db /\ m[j].table = e.table /\ m[j].ordinal = j
        /\ j \in 1..Len(L) /\ m[j].column = L[j]
    BY <1>6, <1>8, <2>1
  <2>3. Len(L) # 0
    BY <1>5, <2>2
  <2> QED
    BY <1>9, <2>1, <2>2, <2>3
<1>12. i \in Int /\ Len(cmeta) \in Int
  BY <1>2
<1> QED
  BY <1>10, <1>11

\* The invariant on ordinals holds always.
LEMMA OrdinalInvariant == Spec => []OrdinalInv
<1>1. Init => OrdinalInv
  BY DEF Init, OrdinalInv
<1>2. TypeOK /\ OrdinalInv /\ [Next]_vars => OrdinalInv'
  <2> SUFFICES ASSUME TypeOK, OrdinalInv, [Next]_vars PROVE OrdinalInv'
    OBVIOUS
  <2>1. cmeta' = <<>> => OrdinalInv'
    BY DEF OrdinalInv
  <2>2. args' = args /\ cmeta' = cmeta => OrdinalInv'
    BY DEF OrdinalInv
  <2>3. CASE \E a \in Calls : SQLTables(a) \/ SQLColumns(a)
    BY <2>1, <2>3 DEF SQLTables, SQLColumns, NewQuery
  <2>4. CASE ShowDatabases \/ ShowTables \/ SQLFetch \/ UNCHANGED vars
    BY <2>2, <2>4 DEF ShowDatabases, ShowTables, SQLFetch, vars
  <2>5. CASE Describe
    BY <2>5, DescribeOrdinal
  <2>6. CASE CancelInFlight \/ CloseIdle
    BY <2>1, <2>2, <2>6, CloseCases
  <2> QED
    BY <2>3, <2>4, <2>5, <2>6 DEF Next, InternalQuery
<1> QED
  BY <1>1, <1>2, FetchInvariant, PTL DEF Spec

\* For any catalog in which no two databases differ in case only, any calls and
\* any faults: when SQLTables or SQLColumns succeeds, and no page was lost and
\* nothing cancelled, it lists everything that was asked for, each once, and
\* every column with its position in the table (TableMetadataQuery::getTables,
\* ColumnMetadataQuery::MakeRequestGetColumnsMeta).
THEOREM TheWholeAnswer ==
  ASSUME OneDatabasePerIdentifier PROVE Spec => []ListsComplete
<1>1. TypeOK /\ CompleteInv => TablesComplete
  <2> SUFFICES ASSUME TypeOK, CompleteInv, pc = "idle", args.kind = "tables",
                      executed, ~interrupted
               PROVE  /\ ToSet(tmeta) = WantedEntries(args)
                      /\ Len(tmeta) = Cardinality(WantedEntries(args))
    BY DEF TablesComplete
  <2>1. IsInjective(tmeta) /\ ToSet(tmeta) = WantedEntries(args)
    BY DEF CompleteInv
  <2>2. Len(tmeta) = Cardinality(ToSet(tmeta))
    BY <2>1, OnceEach DEF TypeOK
  <2> QED
    BY <2>1, <2>2
<1>2. TypeOK /\ CompleteInv => ColumnsComplete
  <2> SUFFICES ASSUME TypeOK, CompleteInv, pc = "idle", args.kind = "columns",
                      executed, ~interrupted, ~args.id
               PROVE  /\ ToSet(ColumnsIn(cmeta)) = WantedColumns(args)
                      /\ Len(cmeta) = Cardinality(WantedColumns(args))
    BY DEF ColumnsComplete
  <2> DEFINE c == ColumnsIn(cmeta)
  <2>1. IsInjective(c) /\ ToSet(c) = WantedColumns(args)
    BY DEF CompleteInv
  <2>2. Len(c) = Len(cmeta) /\ \E S : c \in Seq(S)
    <3>1. cmeta \in Seq(ColumnEntries)
      BY DEF TypeOK
    <3> QED
      BY <3>1, ColumnsOfConcat
  <2> HIDE DEF c
  <2>3. Len(c) = Cardinality(ToSet(c))
    BY <2>1, <2>2, OnceEach
  <2> QED
    BY <2>1, <2>2, <2>3 DEF c
<1>3. OrdinalInv => OrdinalIsIndexInTable
  BY DEF OrdinalInv, OrdinalIsIndexInTable
<1>4. TypeOK /\ CompleteInv /\ OrdinalInv => ListsComplete
  BY <1>1, <1>2, <1>3 DEF ListsComplete
<1> QED
  BY <1>4, FetchInvariant, CompleteInvariant, OrdinalInvariant, PTL
=============================================================================
