-------------------------- MODULE ConnectionProofs --------------------------
(***************************************************************************)
(* Proofs about Connection and the settings it is given: the session is    *)
(* described truly, failures leave it alone, ConfigDSN loses no DSN, and   *)
(* settings survive connection strings and DSNs.                           *)
(*                                                                         *)
(* All rest on IInv: SessionTrue, and that configurations and DSN sections *)
(* hold only what the setters and RegisterDsn put there (ConfigOK, IniOK). *)
(* What the parser and the writer of connection strings compute, for texts *)
(* of any length, is proved from the recursive functions they define by a  *)
(* smallest counterexample (lemma Smallest): Parsing and Writing say what  *)
(* such a function is, ParsedBack that one undoes the other.               *)
(***************************************************************************)
EXTENDS Connection, SequenceTheorems, NaturalsInduction, WellFoundedInduction,
        TLAPS

-----------------------------------------------------------------------------
(* Configurations.                                                          *)

\* The tokens of texts.  They are all strings, which is more than the provers
\* know of a literal.
Token == STRING \cup Attrs \cup AuthTypes \cup DOMAIN Levels
           \cup {Equals, Separator, OpenBrace, CloseBrace}

LEMMA StringsAreTexts ==
  ASSUME NEW s \in Seq(STRING)
  PROVE  s \in Seq(Token)
<1>1. Len(s) \in Nat /\ s \in [1..Len(s) -> STRING]
  OBVIOUS
<1>2. STRING \subseteq Token
  BY DEF Token
<1> HIDE DEF Token
<1>3. s \in [1..Len(s) -> Token]
  BY <1>1, <1>2
<1> QED
  BY <1>1, <1>3, SeqDef

LevelNames == {"OFF", "ERROR", "WARNING", "INFO", "DEBUG"}

\* The values an attribute may be set to.
ValueOf(k) ==
  CASE k \in NumberAttrs -> -(IntMax + 1)..IntMax
    [] k = "authType" -> AuthTypes
    [] k = "logLevel" -> LevelNames
    [] k = "logPath" -> Directories
    [] OTHER -> Seq(Token)

Unset(k) == [val |-> DefaultValue(k), set |-> FALSE]
Held(v) == [val |-> v, set |-> TRUE]

\* A configuration that the setters can make.
ConfigOK(c) ==
  /\ c = [k \in Attrs |-> c[k]]
  /\ \A k \in Attrs : c[k] = Unset(k) \/ \E v \in ValueOf(k) : c[k] = Held(v)

\* What a handler of the parser takes and returns.
StateOK(r) ==
  /\ DOMAIN r = {"cfg", "warned", "log"}
  /\ ConfigOK(r.cfg)

LEMMA NewConfigurationOK == ConfigOK(NewConfiguration)
  BY DEF ConfigOK, NewConfiguration, Unset

LEMMA SetValueOK ==
  ASSUME NEW c, ConfigOK(c), NEW k \in Attrs, NEW v \in ValueOf(k)
  PROVE  /\ ConfigOK(SetValue(c, k, v))
         /\ SetValue(c, k, v)[k] = Held(v)
         /\ \A a \in Attrs : a # k => SetValue(c, k, v)[a] = c[a]
<1> DEFINE d == SetValue(c, k, v)
<1>1. d = [a \in Attrs |-> IF a = k THEN Held(v) ELSE c[a]]
  BY DEF ConfigOK, SetValue, Held
<1> HIDE DEF d
<1>2. /\ d[k] = Held(v)
      /\ \A a \in Attrs : a # k => d[a] = c[a]
  BY <1>1
<1>3. d = [a \in Attrs |-> d[a]]
  BY <1>1
<1>4. \A a \in Attrs : d[a] = Unset(a) \/ \E w \in ValueOf(a) : d[a] = Held(w)
  BY <1>2 DEF ConfigOK
<1> QED
  BY <1>2, <1>3, <1>4 DEF ConfigOK, d

\* A setter of the parser's state.
LEMMA WithOK ==
  ASSUME NEW r, StateOK(r), NEW k \in Attrs, NEW v \in ValueOf(k)
  PROVE  /\ StateOK(With(r, k, v))
         /\ With(r, k, v).cfg[k] = Held(v)
         /\ \A a \in Attrs : a # k => With(r, k, v).cfg[a] = r.cfg[a]
<1>1. /\ DOMAIN With(r, k, v) = {"cfg", "warned", "log"}
      /\ With(r, k, v).cfg = SetValue(r.cfg, k, v)
  BY DEF StateOK, With
<1> QED
  BY <1>1, SetValueOK DEF StateOK

LEMMA WarnOK ==
  ASSUME NEW r, StateOK(r)
  PROVE  StateOK(Warn(r)) /\ Warn(r).cfg = r.cfg
<1>1. ASSUME NEW b
      PROVE  /\ [r EXCEPT !.warned = b].cfg = r.cfg
             /\ StateOK([r EXCEPT !.warned = b])
  BY DEF StateOK
<1>2. Warn(r) = [r EXCEPT !.warned = TRUE]
  BY Zenon DEF Warn
<1> QED
  BY <1>1, <1>2, Zenon

LEMMA SetLogOK ==
  ASSUME NEW r, StateOK(r)
  PROVE  /\ \A l \in LevelNames :
              /\ StateOK(SetLogLevel(r, l))
              /\ SetLogLevel(r, l).cfg = With(r, "logLevel", l).cfg
         /\ \A p \in Directories :
              /\ StateOK(SetLogPath(r, p))
              /\ SetLogPath(r, p).cfg = With(r, "logPath", p).cfg
         /\ \A p : p \notin Directories => SetLogPath(r, p) = r
<1>1. "logLevel" \in Attrs /\ "logPath" \in Attrs
  BY DEF Attrs
<1>2. ValueOf("logLevel") = LevelNames /\ ValueOf("logPath") = Directories
  BY DEF ValueOf, NumberAttrs
<1>3. \A q, l : StateOK(q) => /\ StateOK([q EXCEPT !.log = l])
                             /\ [q EXCEPT !.log = l].cfg = q.cfg
  BY DEF StateOK
<1>4. ASSUME NEW l \in LevelNames
      PROVE  /\ StateOK(SetLogLevel(r, l))
             /\ SetLogLevel(r, l).cfg = With(r, "logLevel", l).cfg
  <2>1. StateOK(With(r, "logLevel", l))
    BY <1>1, <1>2, WithOK
  <2> QED
    BY <2>1, <1>3 DEF SetLogLevel
<1>5. ASSUME NEW p \in Directories
      PROVE  /\ StateOK(SetLogPath(r, p))
             /\ SetLogPath(r, p).cfg = With(r, "logPath", p).cfg
  <2>1. StateOK(With(r, "logPath", p))
    BY <1>1, <1>2, WithOK
  <2> QED
    BY <2>1, <1>3 DEF SetLogPath
<1>6. \A p : p \notin Directories => SetLogPath(r, p) = r
  BY DEF SetLogPath
<1> QED
  BY <1>4, <1>5, <1>6

-----------------------------------------------------------------------------
(* Numbers and texts.                                                       *)

\* A set of numbers that is not empty has a smallest one: the proofs by
\* induction below look at the smallest number for which a claim fails.
LEMMA Smallest ==
  ASSUME NEW S \in SUBSET Nat, S # {}
  PROVE  \E x \in S : \A y \in S : x =< y
<1> DEFINE R == OpToRel(<, Nat)
<1>1. \E x \in S : \A y \in S : ~(<<y, x>> \in R)
  BY NatLessThanWellFounded, WFMin, Zenon
<1>2. \A x, y \in Nat : <<y, x>> \in R <=> y < x
  BY DEF OpToRel
<1> HIDE DEF R
<1>3. PICK x \in S : \A y \in S : ~(<<y, x>> \in R)
  BY <1>1
<1>4. \A y \in S : x =< y
  <2> TAKE y \in S
  <2>1. x \in Nat /\ y \in Nat /\ ~(y < x)
    BY <1>2, <1>3
  <2> QED
    BY <2>1
<1> QED
  BY <1>4

LEMMA MinIsLeast ==
  ASSUME NEW S \in SUBSET Nat, S # {}
  PROVE  Min(S) \in S /\ \A y \in S : Min(S) =< y
<1>1. \E x \in S : \A y \in S : x =< y
  BY Smallest
<1> QED
  BY <1>1, Zenon DEF Min

LEMMA MaxIsGreatest ==
  ASSUME NEW n \in Nat, NEW S \in SUBSET (1..n), S # {}
  PROVE  Max(S) \in S /\ \A y \in S : Max(S) >= y
<1> DEFINE T == {m \in Nat : \E x \in S : m = n - x}
<1>1. PICK m \in T : \A y \in T : m =< y
  <2>1. T # {}
    <3>1. PICK x \in S : TRUE
      OBVIOUS
    <3>2. n - x \in Nat
      BY <3>1
    <3> QED
      BY <3>2
  <2> QED
    BY <2>1, Smallest
<1>2. PICK x \in S : m = n - x
  BY <1>1
<1>3. ASSUME NEW y \in S PROVE x >= y
  <2>1. n - y \in T
    OBVIOUS
  <2>2. n - x =< n - y
    BY <1>1, <1>2, <2>1
  <2> QED
    BY <2>2
<1>4. \E z \in S : \A y \in S : z >= y
  BY <1>3
<1> QED
  BY <1>4, Zenon DEF Max

LEMMA TrimOK ==
  ASSUME NEW s \in Seq(Token)
  PROVE  Trim(s) \in Seq(Token)
<1> DEFINE W == {i \in DOMAIN s : s[i] # Blank}
<1>1. CASE W = {}
  <2>1. Trim(s) = <<>>
    BY <1>1 DEF Trim
  <2> QED
    BY <2>1
<1>2. CASE W # {}
  <2>1. W \in SUBSET (1..Len(s)) /\ W \in SUBSET Nat /\ Len(s) \in Nat
    OBVIOUS
  <2>2. Min(W) \in W /\ Max(W) \in W
    BY <1>2, <2>1, MinIsLeast, MaxIsGreatest
  <2>3. Trim(s) = SubSeq(s, Min(W), Max(W))
    BY <1>2 DEF Trim
  <2> HIDE DEF W
  <2>4. Min(W) \in 1..Len(s) /\ Max(W) \in 1..Len(s)
    BY <2>1, <2>2
  <2>5. \A i \in Min(W)..Max(W) : s[i] \in Token
    BY <2>1, <2>4
  <2>6. SubSeq(s, Min(W), Max(W)) \in Seq(Token)
    BY <2>1, <2>4, <2>5, SubSeqProperties
  <2> QED
    BY <2>3, <2>6
<1> QED
  BY <1>1, <1>2

LEMMA UnbracedOK ==
  ASSUME NEW s \in Seq(Token)
  PROVE  Unbraced(s) \in Seq(Token)
<1>1. CASE s # <<>>
  <2>1. Len(s) \in Nat /\ Len(s) >= 1
    BY <1>1
  <2>2. SubSeq(s, 2, Len(s) - 1) \in Seq(Token)
    BY <2>1, SubSeqProperties
  <2> QED
    BY <2>2 DEF Unbraced
<1>2. CASE s = <<>>
  BY <1>2 DEF Unbraced
<1> QED
  BY <1>1, <1>2

\* A text without blanks, or whose first and last tokens are none, is its own
\* trimmed form.
LEMMA TrimSame ==
  ASSUME NEW s \in Seq(Token), s # <<>>, s[1] # Blank, s[Len(s)] # Blank
  PROVE  Trim(s) = s
<1> DEFINE W == {i \in DOMAIN s : s[i] # Blank}
<1>1. Len(s) \in Nat /\ Len(s) >= 1 /\ DOMAIN s = 1..Len(s)
  OBVIOUS
<1>2. 1 \in W /\ Len(s) \in W
  BY <1>1
<1>3. W \in SUBSET (1..Len(s)) /\ W \in SUBSET Nat /\ W # {}
  BY <1>1, <1>2
<1>4. Trim(s) = SubSeq(s, Min(W), Max(W))
  BY <1>3 DEF Trim
<1> HIDE DEF W
<1>5. /\ Min(W) \in W /\ \A y \in W : Min(W) =< y
      /\ Max(W) \in W /\ \A y \in W : Max(W) >= y
  BY <1>1, <1>3, MinIsLeast, MaxIsGreatest
<1>6. Min(W) = 1 /\ Max(W) = Len(s)
  <2>1. Min(W) \in 1..Len(s) /\ Max(W) \in 1..Len(s)
    BY <1>3, <1>5
  <2>2. Min(W) =< 1 /\ Max(W) >= Len(s)
    BY <1>2, <1>5
  <2> QED
    BY <1>1, <2>1, <2>2
<1>7. SubSeq(s, 1, Len(s)) = s
  BY SubSeqFull
<1> QED
  BY <1>4, <1>6, <1>7

-----------------------------------------------------------------------------
(* The parser.                                                              *)

LEMMA NumberOfOK ==
  ASSUME NEW v, AllDigits(v)
  PROVE  NumberOf(v) \in 0..(UintMax + 1)
<1>1. CASE v = TooManyDigits
  BY <1>1, IntMaxAssumption DEF NumberOf, UintMax
<1>2. CASE v # TooManyDigits
  <2>1. \E n \in 0..(UintMax + 1) : v = <<ToString(n)>>
    BY <1>2 DEF AllDigits, Numerals
  <2> QED
    BY <1>2, <2>1, Zenon DEF NumberOf
<1> QED
  BY <1>1, <1>2

LEMMA ToInt32OK ==
  ASSUME NEW n \in 0..UintMax
  PROVE  ToInt32(n) \in -(IntMax + 1)..IntMax
  BY IntMaxAssumption DEF ToInt32, UintMax

LEMMA LevelFromStringOK ==
  ASSUME NEW v, NEW dflt
  PROVE  LevelFromString(v, dflt) \in LevelNames \cup {dflt}
<1>1. \A t \in DOMAIN Levels : Levels[t] \in LevelNames
  BY DEF Levels, LevelNames
<1> QED
  BY <1>1 DEF LevelFromString

LEMMA AuthFromStringOK ==
  ASSUME NEW v
  PROVE  AuthFromString(v) \in AuthTypes
  BY DEF AuthFromString, AuthTypes

\* What a handler may have done to r: set k, or nothing.
Sets(r, k, q) ==
  /\ StateOK(q)
  /\ \/ q.cfg = r.cfg
     \/ /\ k \in Attrs
        /\ \E v \in ValueOf(k) : q.cfg[k] = Held(v)
        /\ \A a \in Attrs : a # k => q.cfg[a] = r.cfg[a]

LEMMA WithSets ==
  ASSUME NEW r, StateOK(r), NEW k \in Attrs, NEW v \in ValueOf(k)
  PROVE  Sets(r, k, With(r, k, v))
  BY WithOK DEF Sets

LEMMA WarnSets ==
  ASSUME NEW r, StateOK(r), NEW k
  PROVE  Sets(r, k, Warn(r)) /\ Sets(r, k, r)
  BY WarnOK DEF Sets

LEMMA HandleNumberSets ==
  ASSUME NEW r, StateOK(r), NEW k \in NumberAttrs, NEW v, NEW least \in {0, 1}
  PROVE  Sets(r, k, HandleNumber(r, k, v, least))
<1>1. k \in Attrs /\ ValueOf(k) = -(IntMax + 1)..IntMax
  BY DEF Attrs, ValueOf, NumberAttrs
<1>2. CASE AllDigits(v) /\ NumberOf(v) \in least..UintMax
  <2>1. ToInt32(NumberOf(v)) \in ValueOf(k)
    BY <1>1, <1>2, ToInt32OK, IntMaxAssumption DEF UintMax
  <2>2. Sets(r, k, With(r, k, ToInt32(NumberOf(v)))) /\ Sets(r, k, Warn(r))
    BY <1>1, <2>1, WithSets, WarnSets
  <2> QED
    BY <2>2 DEF HandleNumber
<1>3. CASE ~(AllDigits(v) /\ NumberOf(v) \in least..UintMax)
  BY <1>3, WarnSets DEF HandleNumber
<1> QED
  BY <1>2, <1>3

LEMMA HandleAuthTypeSets ==
  ASSUME NEW r, StateOK(r), NEW v
  PROVE  Sets(r, "authType", HandleAuthType(r, v))
<1>1. "authType" \in Attrs /\ ValueOf("authType") = AuthTypes
  BY DEF Attrs, ValueOf, NumberAttrs
<1> QED
  BY <1>1, AuthFromStringOK, WithSets, WarnSets DEF HandleAuthType

LEMMA HandleLogLevelSets ==
  ASSUME NEW r, StateOK(r), NEW v
  PROVE  Sets(r, "logLevel", HandleLogLevel(r, v))
<1>1. "logLevel" \in Attrs /\ ValueOf("logLevel") = LevelNames
  BY DEF Attrs, ValueOf, NumberAttrs
<1>2. CASE LevelFromString(v, "UNKNOWN") = "UNKNOWN"
  BY <1>2, WarnSets DEF HandleLogLevel
<1>3. CASE LevelFromString(v, "UNKNOWN") # "UNKNOWN"
  <2> DEFINE l == LevelFromString(v, "UNKNOWN")
  <2>1. l \in LevelNames
    BY <1>3, LevelFromStringOK
  <2> HIDE DEF l
  <2>2. Sets(r, "logLevel", SetLogLevel(r, l))
    BY <2>1, <1>1, SetLogOK, WithOK DEF Sets
  <2> QED
    BY <1>3, <2>2 DEF HandleLogLevel, l
<1> QED
  BY <1>2, <1>3

LEMMA SetLogPathSets ==
  ASSUME NEW r, StateOK(r), NEW v
  PROVE  Sets(r, "logPath", SetLogPath(r, v))
<1>1. "logPath" \in Attrs /\ ValueOf("logPath") = Directories
  BY DEF Attrs, ValueOf, NumberAttrs
<1>2. CASE v \in Directories
  BY <1>1, <1>2, SetLogOK, WithOK DEF Sets
<1>3. CASE v \notin Directories
  BY <1>3, WarnSets, SetLogOK
<1> QED
  BY <1>2, <1>3

LEMMA HandleTextSets ==
  ASSUME NEW r, StateOK(r), NEW k \in GuardedAttrs \cup PlainAttrs,
         NEW v \in Seq(Token)
  PROVE  Sets(r, k, HandleGuarded(r, k, v)) /\ Sets(r, k, With(r, k, v))
<1>1. k \in Attrs /\ ValueOf(k) = Seq(Token)
  BY DEF Attrs, ValueOf, NumberAttrs, GuardedAttrs, PlainAttrs, UserAttrs,
       IdPAttrs
<1>2. Sets(r, k, With(r, k, v))
  BY <1>1, WithSets
<1>3. StateOK(Warn(r)) /\ Warn(r).cfg = r.cfg
  BY WarnOK
<1>4. Sets(Warn(r), k, With(Warn(r), k, v))
  BY <1>1, <1>3, WithSets
<1>5. Sets(r, k, With(Warn(r), k, v))
  BY <1>3, <1>4 DEF Sets
<1> QED
  BY <1>2, <1>5 DEF HandleGuarded

\* The handler of each attribute.
LEMMA HandlerOf ==
  ASSUME NEW r, NEW v
  PROVE  /\ HandleAttributePair(r, "reqTimeout", v)
              = HandleNumber(r, "reqTimeout", v, 1)
         /\ HandleAttributePair(r, "connectionTimeout", v)
              = HandleNumber(r, "connectionTimeout", v, 1)
         /\ HandleAttributePair(r, "maxRetryCountClient", v)
              = HandleNumber(r, "maxRetryCountClient", v, 0)
         /\ HandleAttributePair(r, "maxConnections", v)
              = HandleNumber(r, "maxConnections", v, 1)
         /\ HandleAttributePair(r, "maxRowPerPage", v)
              = HandleNumber(r, "maxRowPerPage", v, 0)
         /\ HandleAttributePair(r, "authType", v) = HandleAuthType(r, v)
         /\ HandleAttributePair(r, "logLevel", v) = HandleLogLevel(r, v)
         /\ HandleAttributePair(r, "logPath", v) = SetLogPath(r, v)
         /\ \A k \in GuardedAttrs :
              HandleAttributePair(r, k, v) = HandleGuarded(r, k, v)
         /\ \A k \in PlainAttrs : HandleAttributePair(r, k, v) = With(r, k, v)
         /\ \A k : k \notin Attrs => HandleAttributePair(r, k, v) = Warn(r)
  BY DEF HandleAttributePair, Attrs, NumberAttrs, GuardedAttrs, PlainAttrs,
       UserAttrs, IdPAttrs, HandleReqTimeout, HandleIdP,
       HandleConnectionTimeout, HandleMaxRetryCountClient, HandleMaxConnections,
       HandleMaxRowPerPage

\* The parser sets the attribute it was given, or nothing.
LEMMA HandleAttributePairSets ==
  ASSUME NEW r, StateOK(r), NEW k, NEW v \in Seq(Token)
  PROVE  Sets(r, k, HandleAttributePair(r, k, v))
<1>1. CASE k \in NumberAttrs
  <2>1. \A least \in {0, 1} : Sets(r, k, HandleNumber(r, k, v, least))
    BY <1>1, HandleNumberSets
  <2> QED
    BY <1>1, <2>1, HandlerOf DEF NumberAttrs
<1>2. CASE k = "authType"
  BY <1>2, HandleAuthTypeSets, HandlerOf
<1>3. CASE k = "logLevel"
  BY <1>3, HandleLogLevelSets, HandlerOf
<1>4. CASE k = "logPath"
  BY <1>4, SetLogPathSets, HandlerOf
<1>5. CASE k \in GuardedAttrs \cup PlainAttrs
  <2>1. Sets(r, k, HandleGuarded(r, k, v)) /\ Sets(r, k, With(r, k, v))
    BY <1>5, HandleTextSets
  <2> QED
    BY <1>5, <2>1, HandlerOf
<1>6. CASE k \notin Attrs
  <2>1. HandleAttributePair(r, k, v) = Warn(r)
    BY <1>6, HandlerOf
  <2> QED
    BY <2>1, WarnSets
<1> QED
  BY <1>1, <1>2, <1>3, <1>4, <1>5, <1>6 DEF Attrs

LEMMA LastPosIs ==
  ASSUME NEW s, NEW n \in Nat, NEW t
  PROVE  /\ LastPos(s, n, t) \in 0..n
         /\ LastPos(s, n, t) # 0 => s[LastPos(s, n, t)] = t
         /\ \A i \in 1..n : s[i] = t => i =< LastPos(s, n, t)
<1> DEFINE P == {i \in 1..n : s[i] = t}
<1>1. CASE P = {}
  BY <1>1 DEF LastPos
<1>2. CASE P # {}
  <2>1. Max(P) \in P /\ \A y \in P : Max(P) >= y
    BY <1>2, MaxIsGreatest
  <2>2. LastPos(s, n, t) = Max(P)
    BY <1>2 DEF LastPos
  <2>3. LastPos(s, n, t) \in P /\ \A y \in P : y =< LastPos(s, n, t)
    BY <2>1, <2>2
  <2> QED
    BY <2>3
<1> QED
  BY <1>1, <1>2

LEMMA PieceEndIs ==
  ASSUME NEW s \in Seq(Token), NEW d \in 0..Len(s), NEW t
  PROVE  /\ PieceEnd(s, d, t) \in d..Len(s)
         /\ \A i \in (d + 1)..PieceEnd(s, d, t) : s[i] # t
         /\ PieceEnd(s, d, t) = Len(s) \/ s[PieceEnd(s, d, t) + 1] = t
<1> DEFINE P == {i \in (d + 1)..Len(s) : s[i] = t}
<1>1. Len(s) \in Nat
  OBVIOUS
<1>2. CASE P = {}
  BY <1>1, <1>2 DEF PieceEnd
<1>3. CASE P # {}
  <2>1. P \in SUBSET Nat
    BY <1>1
  <2>2. Min(P) \in P /\ \A y \in P : Min(P) =< y
    BY <1>3, <2>1, MinIsLeast
  <2>3. PieceEnd(s, d, t) = Min(P) - 1
    BY <1>3 DEF PieceEnd
  <2> DEFINE m == Min(P)
  <2> HIDE DEF m
  <2>4. m \in (d + 1)..Len(s) /\ s[m] = t /\ \A i \in (d + 1)..(m - 1) : s[i] # t
    <3>1. m \in P /\ \A y \in P : m =< y
      BY <2>2 DEF m
    <3>2. m \in (d + 1)..Len(s) /\ s[m] = t
      BY <3>1
    <3>3. ASSUME NEW i \in (d + 1)..(m - 1) PROVE s[i] # t
      <4>1. i \in (d + 1)..Len(s) /\ ~(m =< i)
        BY <1>1, <3>2
      <4> QED
        BY <3>1, <4>1
    <3> QED
      BY <3>2, <3>3
  <2>5. PieceEnd(s, d, t) = m - 1
    BY <2>3 DEF m
  <2> QED
    BY <1>1, <2>4, <2>5
<1> QED
  BY <1>2, <1>3

LEMMA HandlePieceOK ==
  ASSUME NEW r, StateOK(r), NEW s \in Seq(Token), NEW d \in 0..Len(s),
         NEW n \in 0..Len(s)
  PROVE  StateOK(HandlePiece(r, s, d, n))
<1> DEFINE e == LastPos(s, n, Equals)
<1> DEFINE key == Trim(SubSeq(s, d + 1, e - 1))
<1> DEFINE k == IF Len(key) = 1 THEN key[1] ELSE "unknown"
<1> DEFINE v == Unbraced(Trim(SubSeq(s, e + 1, n)))
<1>1. e \in 0..n /\ Len(s) \in Nat
  BY LastPosIs
<1>2. SubSeq(s, e + 1, n) \in Seq(Token)
  <2>1. \A i \in (e + 1)..n : s[i] \in Token
    BY <1>1
  <2> QED
    BY <1>1, <2>1, SubSeqProperties
<1>3. v \in Seq(Token)
  BY <1>2, TrimOK, UnbracedOK
<1> HIDE DEF k, v
<1>4. StateOK(HandleAttributePair(r, k, v))
  BY <1>3, HandleAttributePairSets DEF Sets
<1>5. HandlePiece(r, s, d, n)
        = IF d + 1 < e THEN HandleAttributePair(r, k, v) ELSE r
  BY DEF HandlePiece, k, v
<1> QED
  BY <1>4, <1>5

LEMMA HandleAtOK ==
  ASSUME NEW r, StateOK(r), NEW s \in Seq(Token), NEW d \in 0..Len(s), NEW t
  PROVE  StateOK(HandleAt(r, s, d, t))
<1>1. PieceEnd(s, d, t) \in 0..Len(s)
  BY PieceEndIs
<1> QED
  BY <1>1, HandlePieceOK DEF HandleAt

\* f is the function that ParseConnectionString defines, up to n.
Parsing(r, s, t, f, n) ==
  f = [i \in 0..n |->
        IF i = 0 THEN r ELSE HandleAt(f[i - 1], s, Len(s) + 1 - i, t)]

LEMMA ParsingStep ==
  ASSUME NEW r, NEW s, NEW t, NEW f, NEW n \in Nat, Parsing(r, s, t, f, n)
  PROVE  /\ f[0] = r
         /\ \A i \in 1..n : f[i] = HandleAt(f[i - 1], s, Len(s) + 1 - i, t)
<1> DEFINE body(i) == IF i = 0 THEN r
                      ELSE HandleAt(f[i - 1], s, Len(s) + 1 - i, t)
<1>1. f = [i \in 0..n |-> body(i)]
  BY DEF Parsing
<1> HIDE DEF body
<1>2. \A i \in 0..n : f[i] = body(i)
  BY <1>1
<1> QED
  BY <1>2 DEF body

\* The recursion of the parser has a solution.
LEMMA ParsingExists ==
  ASSUME NEW r, NEW s, NEW t
  PROVE  \A n \in Nat : \E f : Parsing(r, s, t, f, n)
<1> DEFINE Bad == {n \in Nat : ~\E f : Parsing(r, s, t, f, n)}
<1>1. SUFFICES ASSUME Bad # {} PROVE FALSE
  OBVIOUS
<1>2. PICK n \in Bad : \A m \in Bad : n =< m
  BY <1>1, Smallest
<1>3. CASE n = 0
  <2>1. Parsing(r, s, t, [i \in 0..0 |-> r], 0)
    BY DEF Parsing
  <2> QED
    BY <1>3, <2>1
<1>4. CASE n # 0
  <2>1. n - 1 \in Nat /\ ~(n =< n - 1)
    BY <1>4
  <2>2. PICK f : Parsing(r, s, t, f, n - 1)
    BY <1>2, <2>1
  <2> DEFINE g == [i \in 0..n |->
                    IF i = n THEN HandleAt(f[n - 1], s, Len(s) + 1 - n, t)
                    ELSE f[i]]
  <2>3. /\ f[0] = r
        /\ \A i \in 1..(n - 1) : f[i] = HandleAt(f[i - 1], s, Len(s) + 1 - i, t)
    BY <2>1, <2>2, ParsingStep
  <2>4. /\ g = [i \in 0..n |-> g[i]]
        /\ g[n] = HandleAt(f[n - 1], s, Len(s) + 1 - n, t)
        /\ \A i \in 0..(n - 1) : g[i] = f[i]
    BY <1>4
  <2> HIDE DEF g
  <2>5. \A i \in 0..n :
          g[i] = IF i = 0 THEN r ELSE HandleAt(g[i - 1], s, Len(s) + 1 - i, t)
    <3> TAKE i \in 0..n
    <3>1. CASE i = n
      <4>1. n - 1 \in 0..(n - 1)
        BY <1>4
      <4> QED
        BY <1>4, <3>1, <4>1, <2>4
    <3>2. CASE i = 0
      BY <1>4, <3>2, <2>3, <2>4
    <3>3. CASE i # n /\ i # 0
      <4>1. i \in 1..(n - 1) /\ i - 1 \in 0..(n - 1) /\ i \in 0..(n - 1)
        BY <3>3
      <4> QED
        BY <3>3, <4>1, <2>3, <2>4
    <3> QED
      BY <3>1, <3>2, <3>3
  <2>6. Parsing(r, s, t, g, n)
    BY <2>4, <2>5 DEF Parsing
  <2> QED
    BY <1>2, <2>6
<1> QED
  BY <1>3, <1>4

\* What the parser returns is the end of such a run.
LEMMA ParseIsParsing ==
  ASSUME NEW r, NEW s \in Seq(Token), NEW t
  PROVE  \E f : /\ Parsing(r, s, t, f, Len(s) + 1)
                /\ ParseConnectionString(r, s, t) = f[Len(s) + 1]
<1> DEFINE f == CHOOSE f : Parsing(r, s, t, f, Len(s) + 1)
<1>1. Parsing(r, s, t, f, Len(s) + 1)
  BY ParsingExists
<1>2. ParseConnectionString(r, s, t) = f[Len(s) + 1]
  BY DEF ParseConnectionString, Parsing
<1> QED
  BY <1>1, <1>2

\* Parsing a text leaves configurations that the setters can make.
LEMMA ParsingOK ==
  ASSUME NEW r, StateOK(r), NEW s \in Seq(Token), NEW t, NEW f,
         Parsing(r, s, t, f, Len(s) + 1)
  PROVE  \A i \in 0..(Len(s) + 1) : StateOK(f[i])
<1>1. Len(s) \in Nat
  OBVIOUS
<1>2. /\ f[0] = r
      /\ \A i \in 1..(Len(s) + 1) :
           f[i] = HandleAt(f[i - 1], s, Len(s) + 1 - i, t)
  BY <1>1, ParsingStep
<1> DEFINE Bad == {i \in Nat : i =< Len(s) + 1 /\ ~StateOK(f[i])}
<1>3. Bad = {}
  <2> SUFFICES ASSUME Bad # {} PROVE FALSE
    OBVIOUS
  <2>1. PICK i \in Bad : \A m \in Bad : i =< m
    BY Smallest
  <2>2. i # 0
    BY <1>2, <2>1
  <2>3. /\ i - 1 \in Nat /\ i - 1 =< Len(s) + 1 /\ ~(i =< i - 1)
        /\ i \in 1..(Len(s) + 1)
    BY <1>1, <2>1, <2>2
  <2>4. StateOK(f[i - 1])
    BY <2>1, <2>3
  <2>5. Len(s) + 1 - i \in 0..Len(s)
    BY <1>1, <2>3
  <2>6. StateOK(f[i])
    BY <1>2, <2>3, <2>4, <2>5, HandleAtOK
  <2> QED
    BY <2>1, <2>6
<1> QED
  BY <1>1, <1>3

LEMMA ParseOK ==
  ASSUME NEW r, StateOK(r), NEW s \in Seq(Token), NEW t
  PROVE  StateOK(ParseConnectionString(r, s, t))
<1>1. PICK f : /\ Parsing(r, s, t, f, Len(s) + 1)
               /\ ParseConnectionString(r, s, t) = f[Len(s) + 1]
  BY ParseIsParsing
<1>2. Len(s) + 1 \in 0..(Len(s) + 1)
  OBVIOUS
<1> QED
  BY <1>1, <1>2, ParsingOK

-----------------------------------------------------------------------------
(* DSN sections.                                                            *)

\* The texts AddToMap makes of the values of an attribute.
TextsOf(k) ==
  CASE k \in NumberAttrs -> {<<ToString(n)>> : n \in -(IntMax + 1)..IntMax}
    [] k = "authType" -> {<<a>> : a \in AuthTypes}
    [] k = "logLevel" -> {<<t>> : t \in DOMAIN Levels}
    [] k = "logPath" -> Directories
    [] OTHER -> Seq(Token)

SectionOK(section) ==
  \A k \in DOMAIN section :
    k \in Attrs \ {"dsn", "driver"} /\ section[k] \in TextsOf(k)

IniOK(i) == \A d \in DOMAIN i : SectionOK(i[d])

\* A section has a setting for attribute a that will be looked at.
Offers(section, a) ==
  /\ a \in DOMAIN section
  /\ a = "connectionTimeout" => "reqTimeout" \in DOMAIN section

\* The value it is read as.
Taken(section, a) ==
  CASE a \in NumberAttrs -> ReadDsnInt(section, a)
    [] a = "authType" -> AuthFromString(section[a])
    [] a = "logLevel" -> LevelFromString(section[a], "WARNING")
    [] OTHER -> section[a]

\* Reading the attributes K of the section from state r left q: what was set
\* stays, what was not is taken from the section where it has it.
Reads(r, section, K, q) ==
  /\ StateOK(q)
  /\ \A a \in Attrs :
       /\ a \notin K \/ IsSet(r.cfg, a) => q.cfg[a] = r.cfg[a]
       /\ a \in K /\ ~IsSet(r.cfg, a) /\ Offers(section, a)
            => q.cfg[a] = Held(Taken(section, a))

LEMMA ReadsBoth ==
  ASSUME NEW r, NEW q, NEW p, NEW section, NEW K, NEW L,
         Reads(r, section, K, q), Reads(q, section, L, p), K \cap L = {}
  PROVE  Reads(r, section, K \cup L, p)
<1>1. ASSUME NEW a \in Attrs
      PROVE  /\ a \notin K \cup L \/ IsSet(r.cfg, a) => p.cfg[a] = r.cfg[a]
             /\ a \in K \cup L /\ ~IsSet(r.cfg, a) /\ Offers(section, a)
                  => p.cfg[a] = Held(Taken(section, a))
  <2>1. CASE a \in K
    BY <2>1 DEF Reads, IsSet
  <2>2. CASE a \notin K
    BY <2>2 DEF Reads, IsSet
  <2> QED
    BY <2>1, <2>2
<1> QED
  BY <1>1 DEF Reads

LEMMA ReadDsnIntOK ==
  ASSUME NEW section, NEW k
  PROVE  /\ ReadDsnInt(section, k) \in -(IntMax + 1)..IntMax
         /\ \A n \in -(IntMax + 1)..IntMax :
              section[k] = <<ToString(n)>> => ReadDsnInt(section, k) = n
<1> DEFINE small == {n \in -(IntMax + 1)..IntMax : section[k] = <<ToString(n)>>}
<1>1. CASE small = {}
  <2>1. ReadDsnInt(section, k) = IF AllDigits(section[k]) THEN IntMax ELSE 0
    BY <1>1 DEF ReadDsnInt
  <2> QED
    BY <1>1, <2>1, IntMaxAssumption
<1>2. CASE small # {}
  <2>1. ReadDsnInt(section, k) = CHOOSE n \in small : TRUE
    BY <1>2 DEF ReadDsnInt
  <2>2. ReadDsnInt(section, k) \in small
    BY <1>2, <2>1, Zenon
  <2>3. ASSUME NEW n \in -(IntMax + 1)..IntMax, section[k] = <<ToString(n)>>
        PROVE  ReadDsnInt(section, k) = n
    <3> DEFINE m == ReadDsnInt(section, k)
    <3>1. m \in -(IntMax + 1)..IntMax /\ <<ToString(m)>> = <<ToString(n)>>
      BY <2>2, <2>3
    <3> HIDE DEF m
    <3>2. ToString(m) = ToString(n)
      BY <3>1
    <3>3. m \in -(IntMax + 1)..(UintMax + 1) /\ n \in -(IntMax + 1)..(UintMax + 1)
      BY <3>1, IntMaxAssumption DEF UintMax
    <3>4. m = n
      BY <3>2, <3>3, NumeralsAssumption
    <3> QED
      BY <3>4 DEF m
  <2> QED
    BY <2>2, <2>3
<1> QED
  BY <1>1, <1>2

\* What is read from a section is a value of the attribute.
LEMMA TakenOK ==
  ASSUME NEW section, SectionOK(section), NEW a \in DOMAIN section
  PROVE  a \in Attrs /\ Taken(section, a) \in ValueOf(a)
<1>1. a \in Attrs /\ section[a] \in TextsOf(a)
  BY DEF SectionOK
<1>2. CASE a \in NumberAttrs
  BY <1>1, <1>2, ReadDsnIntOK DEF Taken, ValueOf, NumberAttrs
<1>3. CASE a = "authType"
  BY <1>1, <1>3, AuthFromStringOK DEF Taken, ValueOf, NumberAttrs
<1>4. CASE a = "logLevel"
  <2>1. LevelFromString(section[a], "WARNING") \in LevelNames
    BY LevelFromStringOK DEF LevelNames
  <2> QED
    BY <1>1, <1>4, <2>1 DEF Taken, ValueOf, NumberAttrs
<1>5. CASE a = "logPath"
  BY <1>1, <1>5 DEF Taken, ValueOf, NumberAttrs, TextsOf
<1>6. CASE a \notin NumberAttrs \cup {"authType", "logLevel", "logPath"}
  <2>1. /\ TextsOf(a) = Seq(Token) /\ ValueOf(a) = Seq(Token)
        /\ Taken(section, a) = section[a]
    BY <1>6 DEF TextsOf, ValueOf, Taken
  <2> QED
    BY <1>1, <2>1
<1> QED
  BY <1>2, <1>3, <1>4, <1>5, <1>6

\* One attribute of a section.
LEMMA ReadsOne ==
  ASSUME NEW r, StateOK(r), NEW section, NEW k \in Attrs, NEW v \in ValueOf(k),
         Offers(section, k) => v = Taken(section, k)
  PROVE  /\ ~IsSet(r.cfg, k) => Reads(r, section, {k}, With(r, k, v))
         /\ ~Offers(section, k) \/ IsSet(r.cfg, k) => Reads(r, section, {k}, r)
<1>1. ASSUME ~IsSet(r.cfg, k)
      PROVE  Reads(r, section, {k}, With(r, k, v))
  BY <1>1, WithOK DEF Reads
<1>2. ASSUME ~Offers(section, k) \/ IsSet(r.cfg, k)
      PROVE  Reads(r, section, {k}, r)
  BY <1>2 DEF Reads
<1> QED
  BY <1>1, <1>2

TextAttrs == (GuardedAttrs \cup PlainAttrs) \ {"dsn", "driver"}

LEMMA ReadDsnStringsReads ==
  ASSUME NEW r, StateOK(r), NEW section, SectionOK(section),
         NEW K \in SUBSET TextAttrs
  PROVE  Reads(r, section, K, ReadDsnStrings(r, section, K))
<1> DEFINE q == ReadDsnStrings(r, section, K)
<1>1. /\ DOMAIN q = {"cfg", "warned", "log"}
      /\ q.cfg = [k \in DOMAIN r.cfg |->
                    IF k \in K THEN ReadDsnString(r.cfg, section, k) ELSE r.cfg[k]]
  BY DEF ReadDsnStrings, StateOK
<1>2. DOMAIN r.cfg = Attrs
  BY DEF StateOK, ConfigOK
<1> HIDE DEF q
<1>3. /\ q.cfg = [k \in Attrs |-> q.cfg[k]]
      /\ \A k \in Attrs : q.cfg[k] = IF k \in K THEN ReadDsnString(r.cfg, section, k)
                                     ELSE r.cfg[k]
  BY <1>1, <1>2
<1>4. ASSUME NEW k \in K, k \in DOMAIN section
      PROVE  section[k] = Taken(section, k) /\ section[k] \in ValueOf(k)
  <2>1. Taken(section, k) = section[k]
    BY DEF Taken, TextAttrs, GuardedAttrs, PlainAttrs, UserAttrs, IdPAttrs,
         NumberAttrs
  <2> QED
    BY <1>4, <2>1, TakenOK
<1>5. \A k \in Attrs : q.cfg[k] = Unset(k) \/ \E v \in ValueOf(k) : q.cfg[k] = Held(v)
  <2> TAKE k \in Attrs
  <2>1. CASE k \in K /\ k \in DOMAIN section /\ ~IsSet(r.cfg, k)
    <3>1. q.cfg[k] = Held(section[k])
      BY <1>3, <2>1 DEF ReadDsnString, Held
    <3> QED
      BY <3>1, <1>4, <2>1
  <2>2. CASE ~(k \in K /\ k \in DOMAIN section /\ ~IsSet(r.cfg, k))
    <3>1. q.cfg[k] = r.cfg[k]
      BY <1>3, <2>2 DEF ReadDsnString
    <3> QED
      BY <3>1 DEF StateOK, ConfigOK
  <2> QED
    BY <2>1, <2>2
<1>6. StateOK(q)
  BY <1>1, <1>3, <1>5 DEF StateOK, ConfigOK
<1>7. ASSUME NEW a \in Attrs
      PROVE  /\ a \notin K \/ IsSet(r.cfg, a) => q.cfg[a] = r.cfg[a]
             /\ a \in K /\ ~IsSet(r.cfg, a) /\ Offers(section, a)
                  => q.cfg[a] = Held(Taken(section, a))
  BY <1>3, <1>4 DEF ReadDsnString, Held, Offers
<1> QED
  BY <1>6, <1>7 DEF Reads, q

LEMMA ReadDsnNumberReads ==
  ASSUME NEW r, StateOK(r), NEW section, SectionOK(section),
         NEW k \in NumberAttrs \ {"connectionTimeout"}
  PROVE  Reads(r, section, {k}, ReadDsnNumber(r, section, k))
<1>1. k \in Attrs /\ ReadDsnInt(section, k) \in ValueOf(k)
  BY ReadDsnIntOK DEF Attrs, ValueOf, NumberAttrs
<1>2. Taken(section, k) = ReadDsnInt(section, k)
  BY DEF Taken, NumberAttrs
<1>3. Offers(section, k) <=> k \in DOMAIN section
  BY DEF Offers
<1> QED
  BY <1>1, <1>2, <1>3, ReadsOne DEF ReadDsnNumber

LEMMA ReadDsnConnectionTimeoutReads ==
  ASSUME NEW r, StateOK(r), NEW section, SectionOK(section)
  PROVE  Reads(r, section, {"connectionTimeout"}, ReadDsnConnectionTimeout(r, section))
<1> DEFINE k == "connectionTimeout"
<1> DEFINE v == IF k \in DOMAIN section THEN ReadDsnInt(section, k) ELSE 0
<1>1. k \in Attrs /\ v \in ValueOf(k)
  BY ReadDsnIntOK, IntMaxAssumption DEF Attrs, ValueOf, NumberAttrs
<1>2. Taken(section, k) = ReadDsnInt(section, k)
  BY DEF Taken, NumberAttrs
<1>3. Offers(section, k) <=> k \in DOMAIN section /\ "reqTimeout" \in DOMAIN section
  BY DEF Offers
<1>4. /\ ~IsSet(r.cfg, k) => Reads(r, section, {k}, With(r, k, v))
      /\ ~Offers(section, k) \/ IsSet(r.cfg, k) => Reads(r, section, {k}, r)
  BY <1>1, <1>2, <1>3, ReadsOne
<1> QED
  BY <1>3, <1>4 DEF ReadDsnConnectionTimeout

\* The parts of ReadDsnConfiguration.
LEMMA ReadDsnPartsRead ==
  ASSUME NEW r, StateOK(r), NEW section, SectionOK(section)
  PROVE  /\ Reads(r, section, UserAttrs \cup {"profileName"},
                  ReadDsnCredentials(r, section))
         /\ Reads(r, section, {"reqTimeout", "connectionTimeout",
                               "maxRetryCountClient", "maxConnections"},
                  ReadDsnNumbers(r, section))
         /\ Reads(r, section,
                  {"authType", "endpoint", "region", "idPHost", "idPUserName",
                   "idPPassword", "idPArn", "oktaAppId", "roleArn", "aadAppId",
                   "aadClientSecret", "aadTenant"},
                  ReadDsnIdentity(r, section))
         /\ Reads(r, section, {"logLevel", "logPath", "maxRowPerPage"},
                  ReadDsnLogging(r, section))
<1>1. Reads(r, section, UserAttrs \cup {"profileName"},
            ReadDsnCredentials(r, section))
  <2>1. UserAttrs \cup {"profileName"} \in SUBSET TextAttrs
    BY DEF TextAttrs, UserAttrs, GuardedAttrs, PlainAttrs, IdPAttrs
  <2> QED
    BY <2>1, ReadDsnStringsReads DEF ReadDsnCredentials
<1>2. Reads(r, section, {"reqTimeout", "connectionTimeout", "maxRetryCountClient",
                         "maxConnections"}, ReadDsnNumbers(r, section))
  <2> DEFINE q1 == ReadDsnNumber(r, section, "reqTimeout")
  <2> DEFINE q2 == ReadDsnConnectionTimeout(q1, section)
  <2> DEFINE q3 == ReadDsnNumber(q2, section, "maxRetryCountClient")
  <2> DEFINE q4 == ReadDsnNumber(q3, section, "maxConnections")
  <2>1. q4 = ReadDsnNumbers(r, section)
    BY DEF ReadDsnNumbers
  <2>2. {"reqTimeout", "maxRetryCountClient", "maxConnections"} \subseteq
          NumberAttrs \ {"connectionTimeout"}
    BY DEF NumberAttrs
  <2>3. Reads(r, section, {"reqTimeout"}, q1) /\ StateOK(q1)
    BY <2>2, ReadDsnNumberReads DEF Reads
  <2>4. Reads(q1, section, {"connectionTimeout"}, q2) /\ StateOK(q2)
    BY <2>3, ReadDsnConnectionTimeoutReads DEF Reads
  <2>5. Reads(q2, section, {"maxRetryCountClient"}, q3) /\ StateOK(q3)
    BY <2>2, <2>4, ReadDsnNumberReads DEF Reads
  <2>6. Reads(q3, section, {"maxConnections"}, q4)
    BY <2>2, <2>5, ReadDsnNumberReads
  <2> HIDE DEF q1, q2, q3, q4
  <2>7. Reads(r, section, {"reqTimeout"} \cup {"connectionTimeout"}, q2)
    BY <2>3, <2>4, ReadsBoth
  <2>8. Reads(r, section, {"reqTimeout"} \cup {"connectionTimeout"}
                            \cup {"maxRetryCountClient"}, q3)
    BY <2>5, <2>7, ReadsBoth
  <2>9. Reads(r, section, {"reqTimeout"} \cup {"connectionTimeout"}
                \cup {"maxRetryCountClient"} \cup {"maxConnections"}, q4)
    BY <2>6, <2>8, ReadsBoth
  <2>10. {"reqTimeout"} \cup {"connectionTimeout"} \cup {"maxRetryCountClient"}
           \cup {"maxConnections"}
         = {"reqTimeout", "connectionTimeout", "maxRetryCountClient", "maxConnections"}
    OBVIOUS
  <2> QED
    BY <2>1, <2>9, <2>10
<1>3. Reads(r, section,
            {"authType", "endpoint", "region", "idPHost", "idPUserName",
             "idPPassword", "idPArn", "oktaAppId", "roleArn", "aadAppId",
             "aadClientSecret", "aadTenant"},
            ReadDsnIdentity(r, section))
  <2> DEFINE K == {"endpoint", "region", "idPHost", "idPUserName",
                   "idPPassword", "idPArn", "oktaAppId", "roleArn", "aadAppId",
                   "aadClientSecret", "aadTenant"}
  <2> DEFINE q == IF "authType" \in DOMAIN section /\ ~IsSet(r.cfg, "authType")
                  THEN With(r, "authType", AuthFromString(section["authType"]))
                  ELSE r
  <2>1. ReadDsnIdentity(r, section) = ReadDsnStrings(q, section, K)
    BY DEF ReadDsnIdentity
  <2>2. Reads(r, section, {"authType"}, q)
    <3>1. /\ "authType" \in Attrs
          /\ AuthFromString(section["authType"]) \in ValueOf("authType")
          /\ Taken(section, "authType") = AuthFromString(section["authType"])
      BY AuthFromStringOK DEF Attrs, ValueOf, NumberAttrs, Taken
    <3>2. Offers(section, "authType") <=> "authType" \in DOMAIN section
      BY DEF Offers
    <3> QED
      BY <3>1, <3>2, ReadsOne
  <2>3. K \in SUBSET TextAttrs
    BY DEF TextAttrs, UserAttrs, GuardedAttrs, PlainAttrs, IdPAttrs
  <2> HIDE DEF q
  <2>4. Reads(q, section, K, ReadDsnStrings(q, section, K))
    BY <2>2, <2>3, ReadDsnStringsReads DEF Reads
  <2>5. {"authType"} \cap K = {}
    OBVIOUS
  <2>6. {"authType"} \cup K =
          {"authType", "endpoint", "region", "idPHost", "idPUserName",
             "idPPassword", "idPArn", "oktaAppId", "roleArn", "aadAppId",
             "aadClientSecret", "aadTenant"}
    OBVIOUS
  <2> HIDE DEF K
  <2>7. Reads(r, section, {"authType"} \cup K, ReadDsnStrings(q, section, K))
    BY <2>2, <2>4, <2>5, ReadsBoth
  <2> QED
    BY <2>1, <2>6, <2>7
<1>4. Reads(r, section, {"logLevel", "logPath", "maxRowPerPage"},
            ReadDsnLogging(r, section))
  <2> DEFINE q == IF "logLevel" \in DOMAIN section /\ ~IsSet(r.cfg, "logLevel")
                  THEN SetLogLevel(r, LevelFromString(section["logLevel"], "WARNING"))
                  ELSE r
  <2> DEFINE p == IF "logPath" \in DOMAIN section /\ ~IsSet(q.cfg, "logPath")
                  THEN SetLogPath(q, section["logPath"]) ELSE q
  <2>1. ReadDsnLogging(r, section) = ReadDsnNumber(p, section, "maxRowPerPage")
    BY DEF ReadDsnLogging
  <2>2. Reads(r, section, {"logLevel"}, q)
    <3> DEFINE l == LevelFromString(section["logLevel"], "WARNING")
    <3>1. l \in LevelNames
      BY LevelFromStringOK DEF LevelNames
    <3>2. "logLevel" \in Attrs /\ ValueOf("logLevel") = LevelNames
          /\ Taken(section, "logLevel") = l
      BY DEF Attrs, ValueOf, NumberAttrs, Taken
    <3>3. Offers(section, "logLevel") <=> "logLevel" \in DOMAIN section
      BY DEF Offers
    <3> HIDE DEF l
    <3>4. /\ ~IsSet(r.cfg, "logLevel") =>
               Reads(r, section, {"logLevel"}, With(r, "logLevel", l))
          /\ ~Offers(section, "logLevel") \/ IsSet(r.cfg, "logLevel")
               => Reads(r, section, {"logLevel"}, r)
      BY <3>1, <3>2, ReadsOne
    <3>5. ~IsSet(r.cfg, "logLevel") =>
            Reads(r, section, {"logLevel"}, SetLogLevel(r, l))
      BY <3>1, <3>4, SetLogOK DEF Reads
    <3> QED
      BY <3>3, <3>4, <3>5 DEF l
  <2> HIDE DEF q
  <2>3. Reads(q, section, {"logPath"}, p)
    <3>1. StateOK(q)
      BY <2>2 DEF Reads
    <3>2. Offers(section, "logPath") <=> "logPath" \in DOMAIN section
      BY DEF Offers
    <3>3. CASE "logPath" \in DOMAIN section /\ ~IsSet(q.cfg, "logPath")
      <4> DEFINE v == section["logPath"]
      <4>1. Taken(section, "logPath") = v /\ ValueOf("logPath") = Directories
        BY DEF Taken, NumberAttrs, ValueOf
      <4>2. "logPath" \in Attrs /\ v \in Directories
        BY <3>3, <4>1, TakenOK
      <4>3. p = SetLogPath(q, v)
        BY <3>3
      <4> HIDE DEF v, p
      <4>4. Reads(q, section, {"logPath"}, With(q, "logPath", v))
        BY <3>1, <3>3, <4>1, <4>2, ReadsOne
      <4> QED
        BY <3>1, <4>2, <4>3, <4>4, SetLogOK DEF Reads
    <3>4. CASE ~("logPath" \in DOMAIN section /\ ~IsSet(q.cfg, "logPath"))
      BY <3>1, <3>2, <3>4 DEF Reads
    <3> QED
      BY <3>3, <3>4
  <2> HIDE DEF p
  <2>4. Reads(r, section, {"logLevel"} \cup {"logPath"}, p)
    BY <2>2, <2>3, ReadsBoth
  <2>5. Reads(p, section, {"maxRowPerPage"},
              ReadDsnNumber(p, section, "maxRowPerPage"))
    BY <2>3, ReadDsnNumberReads DEF Reads, NumberAttrs
  <2>6. Reads(r, section, {"logLevel"} \cup {"logPath"} \cup {"maxRowPerPage"},
              ReadDsnNumber(p, section, "maxRowPerPage"))
    BY <2>4, <2>5, ReadsBoth
  <2>7. {"logLevel"} \cup {"logPath"} \cup {"maxRowPerPage"}
        = {"logLevel", "logPath", "maxRowPerPage"}
    OBVIOUS
  <2> QED
    BY <2>1, <2>6, <2>7
<1> QED
  BY <1>1, <1>2, <1>3, <1>4

SectionOf(i, d) == IF d \in DOMAIN i THEN i[d] ELSE <<>>

\* What reading a DSN does: nothing that was set changes, and what the section
\* has and was not set is taken.
LEMMA ReadDsnConfigurationReads ==
  ASSUME NEW r, StateOK(r), NEW i, IniOK(i), NEW d
  PROVE  Reads(r, SectionOf(i, d), Attrs \ {"dsn", "driver"},
               ReadDsnConfiguration(r, i, d))
<1> DEFINE section == SectionOf(i, d)
<1> DEFINE q1 == ReadDsnCredentials(r, section)
<1> DEFINE q2 == ReadDsnNumbers(q1, section)
<1> DEFINE q3 == ReadDsnIdentity(q2, section)
<1> DEFINE q4 == ReadDsnLogging(q3, section)
<1> DEFINE K1 == UserAttrs \cup {"profileName"}
<1> DEFINE K2 == {"reqTimeout", "connectionTimeout", "maxRetryCountClient",
                  "maxConnections"}
<1> DEFINE K3 == {"authType", "endpoint", "region", "idPHost", "idPUserName",
                  "idPPassword", "idPArn", "oktaAppId", "roleArn", "aadAppId",
                  "aadClientSecret", "aadTenant"}
<1> DEFINE K4 == {"logLevel", "logPath", "maxRowPerPage"}
<1>1. ReadDsnConfiguration(r, i, d) = q4
  BY DEF ReadDsnConfiguration, SectionOf
<1>2. SectionOK(section)
  BY DEF SectionOf, IniOK, SectionOK
<1> HIDE DEF section
<1>3. Reads(r, section, K1, q1) /\ StateOK(q1)
  BY <1>2, ReadDsnPartsRead DEF Reads
<1>4. Reads(q1, section, K2, q2) /\ StateOK(q2)
  BY <1>2, <1>3, ReadDsnPartsRead DEF Reads
<1>5. Reads(q2, section, K3, q3) /\ StateOK(q3)
  BY <1>2, <1>4, ReadDsnPartsRead DEF Reads
<1>6. Reads(q3, section, K4, q4)
  BY <1>2, <1>5, ReadDsnPartsRead
<1>7. /\ K1 \cap K2 = {} /\ (K1 \cup K2) \cap K3 = {}
      /\ (K1 \cup K2 \cup K3) \cap K4 = {}
      /\ K1 \cup K2 \cup K3 \cup K4 = Attrs \ {"dsn", "driver"}
  BY DEF UserAttrs, Attrs, NumberAttrs, GuardedAttrs, IdPAttrs, PlainAttrs
<1> HIDE DEF q1, q2, q3, q4, K1, K2, K3, K4
<1>8. Reads(r, section, K1 \cup K2, q2)
  BY <1>3, <1>4, <1>7, ReadsBoth
<1>9. Reads(r, section, K1 \cup K2 \cup K3, q3)
  BY <1>5, <1>7, <1>8, ReadsBoth
<1>10. Reads(r, section, K1 \cup K2 \cup K3 \cup K4, q4)
  BY <1>6, <1>7, <1>9, ReadsBoth
<1> QED
  BY <1>1, <1>7, <1>10 DEF section

LEMMA SetIsHeld ==
  ASSUME NEW c, ConfigOK(c), NEW k \in Attrs
  PROVE  c[k].set <=> \E v \in ValueOf(k) : c[k] = Held(v)
  BY DEF ConfigOK, Held, Unset

\* The keys of the map are the attributes that are set.
LEMMA ToMapIs ==
  ASSUME NEW c, ConfigOK(c)
  PROVE  /\ \A k : k \in DOMAIN ToMap(c) <=>
                     k \in Attrs /\ \E v \in ValueOf(k) : c[k] = Held(v)
         /\ \A k \in DOMAIN ToMap(c) : ToMap(c)[k] = AddToMap(c, k)
<1>1. \A k \in Attrs : c[k].set <=> \E v \in ValueOf(k) : c[k] = Held(v)
  BY SetIsHeld
<1> QED
  BY <1>1 DEF ToMap

LEMMA LevelToStringOK ==
  ASSUME NEW l \in LevelNames
  PROVE  \E t \in DOMAIN Levels : LevelToString(l) = <<t>> /\ Levels[t] = l
<1>1. \E t \in DOMAIN Levels : Levels[t] = l
  BY DEF Levels, LevelNames
<1> QED
  BY <1>1, Zenon DEF LevelToString

\* Each value is written as a text of its attribute.
LEMMA AddToMapOK ==
  ASSUME NEW c, NEW k \in Attrs, NEW v \in ValueOf(k), c[k] = Held(v)
  PROVE  AddToMap(c, k) \in TextsOf(k)
<1>1. Get(c, k) = v
  BY DEF Get, Held
<1>2. CASE k \in NumberAttrs
  <2>1. v \in -(IntMax + 1)..IntMax
    BY <1>2 DEF ValueOf, NumberAttrs
  <2>2. AddToMap(c, k) = <<ToString(v)>>
    BY <1>1, <1>2 DEF AddToMap, NumberAttrs
  <2>3. TextsOf(k) = {<<ToString(n)>> : n \in -(IntMax + 1)..IntMax}
    BY <1>2 DEF TextsOf, NumberAttrs
  <2> QED
    BY <2>1, <2>2, <2>3
<1>3. CASE k = "authType"
  BY <1>1, <1>3 DEF AddToMap, NumberAttrs, TextsOf, ValueOf, AuthToString
<1>4. CASE k = "logLevel"
  <2>1. v \in LevelNames
    BY <1>4 DEF ValueOf, NumberAttrs
  <2>2. AddToMap(c, k) = LevelToString(v)
    BY <1>1, <1>4 DEF AddToMap, NumberAttrs
  <2>3. TextsOf(k) = {<<t>> : t \in DOMAIN Levels}
    BY <1>4 DEF TextsOf, NumberAttrs
  <2> QED
    BY <2>1, <2>2, <2>3, LevelToStringOK
<1>5. CASE k \notin NumberAttrs \cup {"authType", "logLevel"}
  BY <1>1, <1>5 DEF AddToMap, TextsOf, ValueOf, NumberAttrs
<1> QED
  BY <1>2, <1>3, <1>4, <1>5

\* The sections that are written can be read.
LEMMA RegisterDsnOK ==
  ASSUME NEW i, IniOK(i), NEW c, ConfigOK(c), NEW written \in SUBSET DsnKeys(c)
  PROVE  IniOK(RegisterDsn(i, c, written))
<1> DEFINE new == [k \in written |-> ToMap(c)[k]]
<1>1. SectionOK(new)
  <2> SUFFICES ASSUME NEW k \in written
               PROVE  k \in Attrs \ {"dsn", "driver"} /\ ToMap(c)[k] \in TextsOf(k)
    BY DEF SectionOK
  <2>1. k \in DOMAIN ToMap(c) /\ k \notin {"dsn", "driver"}
    BY DEF DsnKeys
  <2>2. PICK v \in ValueOf(k) : k \in Attrs /\ c[k] = Held(v)
    BY <2>1, ToMapIs
  <2>3. ToMap(c)[k] \in TextsOf(k)
    BY <2>1, <2>2, ToMapIs, AddToMapOK
  <2> QED
    BY <2>1, <2>2, <2>3
<1>2. RegisterDsn(i, c, written)
        = [d \in DOMAIN i \cup {Get(c, "dsn")} |->
             IF d = Get(c, "dsn") THEN new ELSE i[d]]
  BY DEF RegisterDsn
<1> HIDE DEF new
<1> QED
  BY <1>1, <1>2 DEF IniOK

LEMMA UnregisterDsnOK ==
  ASSUME NEW i, IniOK(i), NEW d
  PROVE  IniOK(UnregisterDsn(i, d))
  BY DEF IniOK, UnregisterDsn

-----------------------------------------------------------------------------
(* The session.                                                             *)

\* The inductive invariant: the configuration and the one the client was made
\* from are such as the setters make, the DSN sections such as RegisterDsn
\* writes, and the session is described truly.
IInv ==
  /\ SessionTrue
  /\ ConfigOK(config)
  /\ client # NoClient => ConfigOK(client)
  /\ DOMAIN info = {"USER_NAME", "DATA_SOURCE_NAME"}
  /\ IniOK(ini)

Settings == <<config, session, ini>>

LEMMA ConfigNotNone ==
  ASSUME NEW c, ConfigOK(c)
  PROVE  DOMAIN c = Attrs /\ c # NoClient
<1>1. DOMAIN c = Attrs
  BY DEF ConfigOK
<1>2. "dsn" \in Attrs /\ "dsn" \notin DOMAIN NoClient
  BY DEF Attrs, PlainAttrs, NoClient
<1> QED
  BY <1>1, <1>2

LEMMA InitIInv ==
  ASSUME Init
  PROVE  IInv
<1>1. ConfigOK(config) /\ client = NoClient
  BY NewConfigurationOK DEF Init
<1>2. DOMAIN info = {"USER_NAME", "DATA_SOURCE_NAME"}
  BY DEF Init
<1>3. IniOK(ini)
  BY DEF Init, IniOK
<1>4. provider = FALSE /\ provider \in BOOLEAN /\ autoCommit \in BOOLEAN
      /\ metadataId \in BOOLEAN
  BY Zenon DEF Init
<1>5. ret = "SUCCESS" /\ records = {} /\ calls \in 0..MaxCalls
  BY MaxCallsAssumption DEF Init
<1>6. TypeOK
  BY <1>1, <1>4, <1>5, ConfigNotNone DEF TypeOK
<1>7. SessionTrue
  BY <1>1, <1>4, <1>5, <1>6 DEF SessionTrue, InfoDescribesSession,
       ProviderOnlyWithSession, CodeTellsRecords
<1> QED
  BY <1>1, <1>2, <1>3, <1>7 DEF IInv

\* A step that leaves the settings alone and ends a call with a code that tells
\* its records.
LEMMA FrameIInv ==
  ASSUME IInv, UNCHANGED Settings, calls' \in 0..MaxCalls,
         autoCommit' \in BOOLEAN, metadataId' \in BOOLEAN,
         ret' \in {"SUCCESS", "SUCCESS_WITH_INFO", "ERROR"}, CodeTellsRecords'
  PROVE  IInv'
<1>1. UNCHANGED <<config, client, provider, info, named, ini>>
  BY DEF Settings, session
<1>2. TypeOK'
  BY <1>1, Zenon DEF IInv, SessionTrue, TypeOK
<1>3. InfoDescribesSession' /\ ProviderOnlyWithSession'
  BY <1>1 DEF IInv, SessionTrue, InfoDescribesSession, ProviderOnlyWithSession,
       NoClient
<1> QED
  BY <1>1, <1>2, <1>3 DEF IInv, SessionTrue, NoClient

LEMMA CodesTell ==
  /\ \A w : Returns("SUCCESS", {}, w) => CodeTellsRecords' /\ ret' = "SUCCESS"
  /\ \A w : Fails(w) => CodeTellsRecords' /\ ret' = "ERROR"
  /\ Succeeds => CodeTellsRecords' /\ ret' = "SUCCESS"
  /\ Ignored => CodeTellsRecords' /\ ret' = "SUCCESS_WITH_INFO"
  BY DEF Returns, Fails, Succeeds, Ignored, CodeTellsRecords

\* InternalEstablish, of a configuration that was read.
LEMMA EstablishIInv ==
  ASSUME IInv, NEW c, ConfigOK(c), NEW name, NEW recs, NEW a, NEW query,
         name.by = "DriverConnect" /\ name.dsn # <<>> => Get(c, "dsn") = name.dsn,
         InternalEstablish(c, name, recs, a, query), UNCHANGED <<attributes, ini>>,
         calls' \in 0..MaxCalls
  PROVE  /\ IInv'
         /\ ret' = "ERROR" => UNCHANGED session
<1>1. config' = c /\ UNCHANGED <<autoCommit, metadataId, stmtAttr, ini>>
  BY DEF InternalEstablish, attributes
<1>2. ConfigOK(config') /\ IniOK(ini') /\ DOMAIN config' = Attrs
      /\ autoCommit' \in BOOLEAN /\ metadataId' \in BOOLEAN
  <2>1. ConfigOK(config') /\ IniOK(ini') /\ DOMAIN config' = Attrs
    BY <1>1, ConfigNotNone DEF IInv
  <2>2. autoCommit' \in BOOLEAN /\ metadataId' \in BOOLEAN
    BY <1>1, Zenon DEF IInv, SessionTrue, TypeOK
  <2> QED
    BY <2>1, <2>2
<1>3. CASE UNCHANGED session /\ ret' = "ERROR" /\ records' # {}
  <2>1. UNCHANGED <<client, provider, info, named>>
    BY <1>3 DEF session
  <2>2. TypeOK'
    BY <1>2, <1>3, <2>1, Zenon DEF IInv, SessionTrue, TypeOK, NoClient
  <2>3. InfoDescribesSession' /\ ProviderOnlyWithSession' /\ CodeTellsRecords'
    BY <1>3, <2>1 DEF IInv, SessionTrue, InfoDescribesSession,
         ProviderOnlyWithSession, CodeTellsRecords, NoClient
  <2> QED
    BY <1>2, <1>3, <2>1, <2>2, <2>3 DEF IInv, SessionTrue, NoClient
<1>4. CASE client # NoClient \/ ~Validate(c)
  <2>1. UNCHANGED session /\ ret' = "ERROR" /\ records' # {}
    BY <1>4 DEF InternalEstablish, Returns
  <2> QED
    BY <1>3, <2>1
<1>5. CASE client = NoClient /\ Validate(c)
  <2>1. TryRestoreConnection(c, name, a, query)
    BY <1>5 DEF InternalEstablish
  <2>2. IF client' = NoClient
        THEN Returns("ERROR", recs \cup {"08001"}, Unwritten)
        ELSE Returns(IF recs # {} THEN "SUCCESS_WITH_INFO" ELSE "SUCCESS",
                     recs, Unwritten)
    BY <1>5 DEF InternalEstablish
  <2>3. CASE ~(Credentials(c, a).text /\ query)
    <3>1. client' = NoClient /\ provider' = FALSE /\ info' = info /\ named' = named
      BY <2>1, <2>3, Zenon DEF TryRestoreConnection
    <3>2. provider = FALSE
      BY <1>5, Zenon DEF IInv, SessionTrue, TypeOK, ProviderOnlyWithSession
    <3>3. UNCHANGED session
      BY <1>5, <3>1, <3>2 DEF session
    <3>4. ret' = "ERROR" /\ records' # {}
      BY <2>2, <3>1 DEF Returns
    <3> QED
      BY <1>3, <3>3, <3>4
  <2>4. CASE Credentials(c, a).text /\ query
    <3>1. client' = c /\ info' = UpdateConnectionRuntimeInfo(c) /\ named' = name
      BY <2>1, <2>4, Zenon DEF TryRestoreConnection
    <3>2. provider' = (Get(c, "authType") \in {"okta", "aad"})
      BY <2>1, <2>4, Zenon DEF TryRestoreConnection
    <3>3. client' # NoClient /\ ConfigOK(client') /\ DOMAIN client' = Attrs
      BY <3>1, ConfigNotNone
    <3>4. Returns(IF recs # {} THEN "SUCCESS_WITH_INFO" ELSE "SUCCESS",
                  recs, Unwritten)
      BY <2>2, <3>3
    <3>5. /\ CodeTellsRecords' /\ ret' # "ERROR"
          /\ ret' \in {"SUCCESS", "SUCCESS_WITH_INFO", "ERROR"}
      BY <3>4 DEF Returns, CodeTellsRecords
    <3>6. info' = [USER_NAME |-> GetDSNUserName(c), DATA_SOURCE_NAME |-> Get(c, "dsn")]
      BY <3>1 DEF UpdateConnectionRuntimeInfo, SetInfo, IInv
    <3>7. InfoDescribesSession' /\ DOMAIN info' = {"USER_NAME", "DATA_SOURCE_NAME"}
      <4>1. /\ GetDSNUserName(client') = GetDSNUserName(c)
            /\ named' = name
        BY <3>1
      <4>2. DOMAIN info' = {"USER_NAME", "DATA_SOURCE_NAME"}
        BY <3>6
      <4>3. info'.USER_NAME = GetDSNUserName(c) /\ info'.DATA_SOURCE_NAME = Get(c, "dsn")
        BY <3>6
      <4> QED
        BY <4>1, <4>2, <4>3 DEF InfoDescribesSession
    <3>8. provider' \in BOOLEAN /\ ProviderOnlyWithSession'
      <4>1. provider' \in BOOLEAN
        BY <3>2
      <4>2. Get(client', "authType") = Get(c, "authType")
        BY <3>1
      <4>3. provider' => /\ client' # NoClient
                         /\ Get(client', "authType") \in {"okta", "aad"}
        BY <3>2, <3>3, <4>2
      <4> QED
        BY <4>1, <4>3 DEF ProviderOnlyWithSession, NoClient
    <3>9. TypeOK'
      BY <1>2, <3>3, <3>5, <3>8, Zenon DEF TypeOK
    <3> QED
      BY <1>2, <3>3, <3>5, <3>7, <3>8, <3>9 DEF IInv, SessionTrue, NoClient
  <2> QED
    BY <2>3, <2>4
<1> QED
  BY <1>4, <1>5

\* The settings the two connecting calls and ConfigDSN read.
LEMMA SettingsOK ==
  ASSUME IInv
  PROVE  /\ \A s \in ConnectStrings : ConfigOK(ReadSettings(config, s).cfg)
         /\ \A d : ConfigOK(ReadDsnConfiguration(
                     [cfg |-> NewConfiguration, warned |-> FALSE, log |-> log],
                     ini, d).cfg)
         /\ \A s \in DsnStrings :
              /\ StateOK(ConfigDsnSettings(s))
              /\ \A d : StateOK(ReadDsnConfiguration(ConfigDsnSettings(s), ini, d))
<1>1. \A c : ConfigOK(c) => StateOK([cfg |-> c, warned |-> FALSE, log |-> log])
  BY DEF StateOK
<1>2. \A r, d : StateOK(r) => StateOK(ReadDsnConfiguration(r, ini, d))
  BY ReadDsnConfigurationReads DEF Reads, IInv
<1>3. ASSUME NEW s \in ConnectStrings PROVE ConfigOK(ReadSettings(config, s).cfg)
  <2> DEFINE r == ParseConnectionString([cfg |-> config, warned |-> FALSE, log |-> log],
                                        s, Separator)
  <2>1. s \in Seq(Token)
    BY TextsAssumption, StringsAreTexts
  <2>2. StateOK([cfg |-> config, warned |-> FALSE, log |-> log])
    BY <1>1 DEF IInv
  <2>3. StateOK(r)
    BY <2>1, <2>2, ParseOK
  <2>4. ReadSettings(config, s) = IF IsSet(r.cfg, "dsn")
                                  THEN ReadDsnConfiguration(r, ini, Get(r.cfg, "dsn")) ELSE r
    BY DEF ReadSettings
  <2> HIDE DEF r
  <2> QED
    BY <1>2, <2>3, <2>4 DEF StateOK
<1>4. ASSUME NEW d
      PROVE  ConfigOK(ReadDsnConfiguration(
                     [cfg |-> NewConfiguration, warned |-> FALSE, log |-> log],
                     ini, d).cfg)
  <2>1. StateOK([cfg |-> NewConfiguration, warned |-> FALSE, log |-> log])
    BY <1>1, NewConfigurationOK
  <2>2. StateOK(ReadDsnConfiguration(
                     [cfg |-> NewConfiguration, warned |-> FALSE, log |-> log], ini, d))
    BY <1>2, <2>1
  <2> QED
    BY <2>2 DEF StateOK
<1>5. ASSUME NEW s \in DsnStrings PROVE StateOK(ConfigDsnSettings(s))
  <2>1. s \in Seq(Token)
    BY TextsAssumption, StringsAreTexts
  <2>2. StateOK([cfg |-> NewConfiguration, warned |-> FALSE, log |-> log])
    BY <1>1, NewConfigurationOK
  <2> QED
    BY <2>1, <2>2, ParseOK DEF ConfigDsnSettings
<1> QED
  BY <1>2, <1>3, <1>4, <1>5

\* The handlers of the same piece of text leave two configurations that agree on
\* the data source: they set it to the same name, or not at all.
Follows(p, q) == p.cfg["dsn"].set => q.cfg["dsn"] = p.cfg["dsn"]

LEMMA HandleAtFollows ==
  ASSUME NEW p, StateOK(p), NEW q, StateOK(q), Follows(p, q),
         NEW s \in Seq(Token), NEW d \in 0..Len(s), NEW t
  PROVE  Follows(HandleAt(p, s, d, t), HandleAt(q, s, d, t))
<1> DEFINE n == PieceEnd(s, d, t)
           e == LastPos(s, n, Equals)
           key == Trim(SubSeq(s, d + 1, e - 1))
           k == IF Len(key) = 1 THEN key[1] ELSE "unknown"
           v == Unbraced(Trim(SubSeq(s, e + 1, n)))
<1>1. n \in 0..Len(s)
  BY PieceEndIs
<1>2. v \in Seq(Token)
  <2>1. e \in 0..n /\ Len(s) \in Nat
    BY <1>1, LastPosIs
  <2>2. \A i \in (e + 1)..n : s[i] \in Token
    BY <1>1, <2>1
  <2>3. SubSeq(s, e + 1, n) \in Seq(Token)
    BY <1>1, <2>1, <2>2, SubSeqProperties
  <2> QED
    BY <2>3, TrimOK, UnbracedOK
<1>3. \A r : HandleAt(r, s, d, t) = IF (d = 0 \/ s[d] = t) /\ d + 1 < e
                                    THEN HandleAttributePair(r, k, v) ELSE r
  BY Zenon DEF HandleAt, HandlePiece
<1> HIDE DEF n, e, key, k, v
<1>4. Follows(HandleAttributePair(p, k, v), HandleAttributePair(q, k, v))
  <2>1. CASE k = "dsn"
    <3>1. "dsn" \in PlainAttrs /\ "dsn" \in Attrs /\ ValueOf("dsn") = Seq(Token)
      BY DEF PlainAttrs, Attrs, ValueOf, NumberAttrs
    <3>2. /\ HandleAttributePair(p, k, v) = With(p, "dsn", v)
          /\ HandleAttributePair(q, k, v) = With(q, "dsn", v)
      BY <2>1, <3>1, HandlerOf
    <3>3. /\ With(p, "dsn", v).cfg["dsn"] = Held(v)
          /\ With(q, "dsn", v).cfg["dsn"] = Held(v)
      BY <1>2, <3>1, WithOK
    <3> QED
      BY <3>2, <3>3 DEF Follows
  <2>2. CASE k # "dsn"
    <3>1. "dsn" \in Attrs
      BY DEF PlainAttrs, Attrs
    <3>2. Sets(p, k, HandleAttributePair(p, k, v)) /\ Sets(q, k, HandleAttributePair(q, k, v))
      BY <1>2, HandleAttributePairSets
    <3>3. /\ HandleAttributePair(p, k, v).cfg["dsn"] = p.cfg["dsn"]
          /\ HandleAttributePair(q, k, v).cfg["dsn"] = q.cfg["dsn"]
      BY <2>2, <3>1, <3>2 DEF Sets
    <3> QED
      BY <3>3 DEF Follows
  <2> QED
    BY <2>1, <2>2
<1>5. CASE (d = 0 \/ s[d] = t) /\ d + 1 < e
  <2>1. /\ HandleAt(p, s, d, t) = HandleAttributePair(p, k, v)
        /\ HandleAt(q, s, d, t) = HandleAttributePair(q, k, v)
    BY <1>3, <1>5
  <2> QED
    BY <1>4, <2>1, Zenon
<1>6. CASE ~((d = 0 \/ s[d] = t) /\ d + 1 < e)
  <2>1. HandleAt(p, s, d, t) = p /\ HandleAt(q, s, d, t) = q
    BY <1>3, <1>6
  <2> QED
    BY <2>1, Zenon
<1> QED
  BY <1>5, <1>6

\* So a data source that a text names is the one that is read, whatever the
\* configuration was before.
LEMMA ParseFollows ==
  ASSUME NEW p, StateOK(p), NEW q, StateOK(q), Follows(p, q), NEW s \in Seq(Token), NEW t
  PROVE  Follows(ParseConnectionString(p, s, t), ParseConnectionString(q, s, t))
<1>1. PICK f : /\ Parsing(p, s, t, f, Len(s) + 1)
               /\ ParseConnectionString(p, s, t) = f[Len(s) + 1]
  BY ParseIsParsing
<1>2. PICK g : /\ Parsing(q, s, t, g, Len(s) + 1)
               /\ ParseConnectionString(q, s, t) = g[Len(s) + 1]
  BY ParseIsParsing
<1>3. Len(s) \in Nat /\ Len(s) + 1 \in Nat
  OBVIOUS
<1>4. /\ f[0] = p
      /\ \A i \in 1..(Len(s) + 1) : f[i] = HandleAt(f[i - 1], s, Len(s) + 1 - i, t)
  BY <1>1, <1>3, ParsingStep
<1>5. /\ g[0] = q
      /\ \A i \in 1..(Len(s) + 1) : g[i] = HandleAt(g[i - 1], s, Len(s) + 1 - i, t)
  BY <1>2, <1>3, ParsingStep
<1>6. \A i \in 0..(Len(s) + 1) : StateOK(f[i]) /\ StateOK(g[i])
  BY <1>1, <1>2, ParsingOK
<1> DEFINE Bad == {i \in Nat : i =< Len(s) + 1 /\ ~Follows(f[i], g[i])}
<1>7. Bad = {}
  <2> SUFFICES ASSUME Bad # {} PROVE FALSE
    OBVIOUS
  <2>1. PICK i \in Bad : \A m \in Bad : i =< m
    BY Smallest
  <2>2. i # 0
    BY <1>4, <1>5, <2>1
  <2>3. /\ i - 1 \in Nat /\ i - 1 =< Len(s) + 1 /\ ~(i =< i - 1)
        /\ i \in 1..(Len(s) + 1) /\ i - 1 \in 0..(Len(s) + 1)
        /\ Len(s) + 1 - i \in 0..Len(s)
    BY <1>3, <2>1, <2>2
  <2>4. Follows(f[i - 1], g[i - 1])
    BY <2>1, <2>3
  <2>5. Follows(HandleAt(f[i - 1], s, Len(s) + 1 - i, t),
                HandleAt(g[i - 1], s, Len(s) + 1 - i, t))
    BY <1>6, <2>3, <2>4, HandleAtFollows
  <2> QED
    BY <1>4, <1>5, <2>1, <2>3, <2>5
<1> QED
  BY <1>1, <1>2, <1>3, <1>7

\* SQLDriverConnect reads the data source that its connection string names.
LEMMA KeywordIsRead ==
  ASSUME IInv, NEW s \in ConnectStrings, DsnKeyword(s) # <<>>
  PROVE  Get(ReadSettings(config, s).cfg, "dsn") = DsnKeyword(s)
<1> DEFINE r0 == [cfg |-> NewConfiguration, warned |-> FALSE, log |-> log]
           r1 == [cfg |-> config, warned |-> FALSE, log |-> log]
           said == ParseConnectionString(r0, s, Separator)
           parsed == ParseConnectionString(r1, s, Separator)
<1>1. "dsn" \in Attrs /\ s \in Seq(Token)
  BY TextsAssumption, StringsAreTexts DEF Attrs, PlainAttrs
<1>2. StateOK(r0) /\ StateOK(r1) /\ Follows(r0, r1)
  <2>1. StateOK(r0) /\ StateOK(r1)
    BY NewConfigurationOK DEF StateOK, IInv
  <2>2. NewConfiguration["dsn"].set = FALSE
    BY <1>1, Zenon DEF NewConfiguration
  <2> QED
    BY <2>1, <2>2 DEF Follows
<1> HIDE DEF r0, r1
<1>3. StateOK(parsed) /\ Follows(said, parsed)
  BY <1>1, <1>2, ParseOK, ParseFollows
<1>4. IsSet(said.cfg, "dsn") /\ DsnKeyword(s) = Get(said.cfg, "dsn")
  <2>1. DsnKeyword(s) = IF IsSet(said.cfg, "dsn") THEN Get(said.cfg, "dsn") ELSE <<>>
    BY Zenon DEF DsnKeyword, r0
  <2> HIDE DEF said
  <2> QED
    BY <2>1
<1>5. ReadSettings(config, s) = IF IsSet(parsed.cfg, "dsn")
                                THEN ReadDsnConfiguration(parsed, ini, Get(parsed.cfg, "dsn"))
                                ELSE parsed
  BY Zenon DEF ReadSettings, r1
<1> HIDE DEF said, parsed
<1>6. parsed.cfg["dsn"] = said.cfg["dsn"]
  BY <1>3, <1>4 DEF Follows, IsSet
<1>7. \A d : ReadDsnConfiguration(parsed, ini, d).cfg["dsn"] = parsed.cfg["dsn"]
  <2> TAKE d
  <2>1. Reads(parsed, SectionOf(ini, d), Attrs \ {"dsn", "driver"},
              ReadDsnConfiguration(parsed, ini, d))
    BY <1>3, ReadDsnConfigurationReads DEF IInv
  <2> QED
    BY <1>1, <2>1 DEF Reads
<1> QED
  BY <1>4, <1>5, <1>6, <1>7 DEF Get

LEMMA DriverConnectIInv ==
  ASSUME IInv, NEW s \in ConnectStrings, DriverConnect(s), calls' \in 0..MaxCalls
  PROVE  /\ IInv'
         /\ ret' = "ERROR" => UNCHANGED <<session, attributes>>
<1> DEFINE r == ReadSettings(config, s)
<1> DEFINE recs == IF r.warned THEN {"01S02"} ELSE {}
           name == [by |-> "DriverConnect", dsn |-> DsnKeyword(s)]
<1>1. /\ ConfigOK(r.cfg)
      /\ name.by = "DriverConnect" /\ name.dsn # <<>> => Get(r.cfg, "dsn") = name.dsn
  BY SettingsOK, KeywordIsRead
<1>2. PICK a \in Replies, query \in BOOLEAN : InternalEstablish(r.cfg, name, recs, a, query)
  BY DEF DriverConnect
<1>3. UNCHANGED <<attributes, ini>>
  BY DEF DriverConnect
<1> HIDE DEF r, recs, name
<1>4. IInv' /\ (ret' = "ERROR" => UNCHANGED session)
  BY <1>1, <1>2, <1>3, EstablishIInv
<1> QED
  BY <1>3, <1>4

LEMMA ConnectIInv ==
  ASSUME IInv, NEW d \in Dsns, NEW u \in Users, Connect(d, u, <<"pwd">>),
         calls' \in 0..MaxCalls
  PROVE  /\ IInv'
         /\ ret' = "ERROR" => UNCHANGED <<session, attributes>>
<1> DEFINE r == ReadDsnConfiguration(
             [cfg |-> NewConfiguration, warned |-> FALSE, log |-> log], ini, d)
<1> DEFINE c == SetValue(SetValue(r.cfg, "uid", u), "pwd", <<"pwd">>)
<1>1. ConfigOK(r.cfg)
  BY SettingsOK
<1> DEFINE name == [by |-> "Connect", dsn |-> d]
<1>2. /\ \E a \in Replies, query \in BOOLEAN : InternalEstablish(c, name, {}, a, query)
      /\ name.by # "DriverConnect"
  BY DEF Connect
<1>3. UNCHANGED <<attributes, ini>>
  BY DEF Connect
<1> HIDE DEF r
<1>4. ConfigOK(c)
  <2>1. "uid" \in Attrs /\ "pwd" \in Attrs
    BY DEF Attrs, GuardedAttrs, UserAttrs
  <2>2. ValueOf("uid") = Seq(Token) /\ ValueOf("pwd") = Seq(Token)
    BY DEF ValueOf, NumberAttrs
  <2>3. u \in Seq(Token)
    BY TextsAssumption, StringsAreTexts
  <2>4. <<"pwd">> \in Seq(Token)
    <3>1. "pwd" \in Token
      BY <2>1 DEF Token
    <3> QED
      BY <3>1
  <2> QED
    BY <1>1, <2>1, <2>2, <2>3, <2>4, SetValueOK
<1> HIDE DEF c, name
<1>5. IInv' /\ (ret' = "ERROR" => UNCHANGED session)
  BY <1>2, <1>3, <1>4, EstablishIInv
<1> QED
  BY <1>3, <1>5

LEMMA ReleaseIInv ==
  ASSUME IInv, InternalRelease, calls' \in 0..MaxCalls
  PROVE  /\ IInv'
         /\ ret' # "ERROR"
<1>1. /\ client' = NoClient /\ provider' = FALSE
      /\ UNCHANGED <<config, info, ini, autoCommit, metadataId>>
  BY Zenon DEF InternalRelease, Close, attributes
<1>2. ret' \in {"SUCCESS", "SUCCESS_WITH_INFO"} /\ CodeTellsRecords'
  BY DEF InternalRelease, Returns, Succeeds, CodeTellsRecords
<1>3. TypeOK'
  BY <1>1, <1>2, Zenon DEF IInv, SessionTrue, TypeOK, NoClient
<1>4. ProviderOnlyWithSession' /\ InfoDescribesSession'
  BY <1>1, Zenon DEF ProviderOnlyWithSession, InfoDescribesSession, NoClient
<1> QED
  BY <1>1, <1>2, <1>3, <1>4 DEF IInv, SessionTrue, NoClient

\* The calls that only end with a code, and perhaps change attributes.
LEMMA SetAttributeIInv ==
  ASSUME IInv, NEW attr, NEW value, InternalSetAttribute(attr, value),
         calls' \in 0..MaxCalls
  PROVE  /\ IInv' /\ UNCHANGED Settings
         /\ ret' = "ERROR" => UNCHANGED attributes
<1> DEFINE no == AttributeRefusal(attr, value)
<1> HIDE DEF no
<1>1. /\ IF no # "no" THEN Fails(no) ELSE Succeeds
      /\ autoCommit' = IF no = "no" /\ attr = "AUTOCOMMIT" THEN value = 1
                       ELSE autoCommit
      /\ metadataId' = IF no = "no" /\ attr = "METADATA_ID" THEN value = 1
                       ELSE metadataId
      /\ UNCHANGED <<config, session, stmtAttr, ini>>
  BY DEF InternalSetAttribute, no
<1>2. UNCHANGED Settings
  BY <1>1 DEF Settings
<1>3. CodeTellsRecords' /\ ret' \in {"SUCCESS", "SUCCESS_WITH_INFO", "ERROR"}
      /\ (ret' = "ERROR" => no # "no")
  BY <1>1, CodesTell
<1>4. autoCommit \in BOOLEAN /\ metadataId \in BOOLEAN
  BY Zenon DEF IInv, SessionTrue, TypeOK
<1>5. autoCommit' \in BOOLEAN /\ metadataId' \in BOOLEAN
  BY <1>1, <1>4
<1>6. ret' = "ERROR" => UNCHANGED attributes
  BY <1>1, <1>3 DEF attributes
<1> QED
  BY <1>2, <1>3, <1>5, <1>6, FrameIInv

LEMMA SetStmtAttributeIInv ==
  ASSUME IInv, NEW option, NEW value, InternalSetStmtAttribute(option, value),
         calls' \in 0..MaxCalls
  PROVE  /\ IInv' /\ UNCHANGED Settings
         /\ ret' = "ERROR" => UNCHANGED attributes
<1> DEFINE takes == \/ option = "rowsetSize"
                    \/ /\ option \in DOMAIN SupportedOption
                       /\ value = SupportedOption[option]
<1>1. takes \in BOOLEAN
  OBVIOUS
<1> HIDE DEF takes
<1>2. /\ IF takes THEN Succeeds
         ELSE IF option \in IgnoredStmtOptions THEN Ignored
         ELSE Fails("HYC00")
      /\ stmtAttr' = IF takes THEN [stmtAttr EXCEPT ![option] = value] ELSE stmtAttr
      /\ UNCHANGED <<config, session, autoCommit, metadataId, ini>>
  BY DEF InternalSetStmtAttribute, takes
<1>3. UNCHANGED Settings
  BY <1>2 DEF Settings
<1>4. CodeTellsRecords' /\ ret' \in {"SUCCESS", "SUCCESS_WITH_INFO", "ERROR"}
      /\ (ret' = "ERROR" => ~takes)
  BY <1>2, CodesTell
<1>5. autoCommit' \in BOOLEAN /\ metadataId' \in BOOLEAN
  BY <1>2, Zenon DEF IInv, SessionTrue, TypeOK
<1>6. ret' = "ERROR" => UNCHANGED attributes
  BY <1>2, <1>4 DEF attributes
<1> QED
  BY <1>3, <1>4, <1>5, <1>6, FrameIInv

\* A call that changes nothing but its result.
LEMMA QuietIInv ==
  ASSUME IInv, UNCHANGED <<config, session, attributes, ini>>,
         calls' \in 0..MaxCalls,
         ret' \in {"SUCCESS", "SUCCESS_WITH_INFO", "ERROR"}, CodeTellsRecords'
  PROVE  IInv' /\ UNCHANGED Settings /\ UNCHANGED attributes
<1>1. UNCHANGED Settings /\ UNCHANGED attributes
      /\ UNCHANGED autoCommit /\ UNCHANGED metadataId
  BY DEF Settings, attributes
<1>2. autoCommit' \in BOOLEAN /\ metadataId' \in BOOLEAN
  BY <1>1, Zenon DEF IInv, SessionTrue, TypeOK
<1> QED
  BY <1>1, <1>2, FrameIInv

LEMMA GetAttributeIInv ==
  ASSUME IInv, NEW attr, NEW buf, InternalGetAttribute(attr, buf),
         calls' \in 0..MaxCalls
  PROVE  IInv' /\ UNCHANGED Settings /\ UNCHANGED attributes
<1>1. UNCHANGED <<config, session, attributes, ini>>
  BY DEF InternalGetAttribute
<1>2. \/ \E w : Fails(w)
      \/ \E w : Returns("SUCCESS", {}, w)
  BY DEF InternalGetAttribute
<1> QED
  BY <1>1, <1>2, CodesTell, QuietIInv

LEMMA SetConnectOptionIInv ==
  ASSUME IInv, NEW option, NEW value, InternalSetConnectOption(option, value),
         calls' \in 0..MaxCalls
  PROVE  /\ IInv' /\ UNCHANGED Settings
         /\ ret' = "ERROR" => UNCHANGED attributes
<1>1. CASE InternalSetStmtAttribute(option, value)
  BY <1>1, SetStmtAttributeIInv
<1>2. CASE Ignored /\ UNCHANGED <<config, session, attributes, ini, log>>
  BY <1>2, CodesTell, QuietIInv
<1>3. CASE InternalSetAttribute(option, value)
  BY <1>3, SetAttributeIInv
<1> QED
  BY <1>1, <1>2, <1>3 DEF InternalSetConnectOption

LEMMA GetConnectOptionIInv ==
  ASSUME IInv, NEW option, InternalGetConnectOption(option),
         calls' \in 0..MaxCalls
  PROVE  IInv' /\ UNCHANGED Settings /\ UNCHANGED attributes
<1>1. CASE Ignored /\ UNCHANGED <<config, session, attributes, ini, log>>
  BY <1>1, CodesTell, QuietIInv
<1>2. CASE InternalGetAttribute(option, TRUE)
  BY <1>2, GetAttributeIInv
<1> QED
  BY <1>1, <1>2 DEF InternalGetConnectOption

LEMMA GetInfoIInv ==
  ASSUME IInv, NEW type, NEW buf, NEW buflen, InternalGetInfo(type, buf, buflen),
         calls' \in 0..MaxCalls
  PROVE  IInv' /\ UNCHANGED Settings /\ UNCHANGED attributes
<1>1. UNCHANGED <<config, session, attributes, ini>>
  BY DEF InternalGetInfo
<1>2. \/ \E w : Fails(w)
      \/ \E w : Returns("SUCCESS", {}, w)
  BY Zenon DEF InternalGetInfo
<1> QED
  BY <1>1, <1>2, CodesTell, QuietIInv

LEMMA GetFunctionsIInv ==
  ASSUME IInv, NEW f, GetFunctions(f), calls' \in 0..MaxCalls
  PROVE  IInv' /\ UNCHANGED Settings /\ UNCHANGED attributes
<1>1. UNCHANGED <<config, session, attributes, ini>>
  BY DEF GetFunctions
<1>2. \E w : Returns("SUCCESS", {}, w)
  BY DEF GetFunctions
<1> QED
  BY <1>1, <1>2, CodesTell, QuietIInv

\* ConfigDSN only changes the sections.
LEMMA ConfigIInv ==
  ASSUME IInv, UNCHANGED <<config, session, attributes, ret, records>>, IniOK(ini'),
         calls' \in 0..MaxCalls
  PROVE  IInv'
<1>1. UNCHANGED <<config, client, provider, info, named, autoCommit, metadataId, ret,
                  records>>
  BY DEF session, attributes
<1>2. TypeOK'
  BY <1>1, Zenon DEF IInv, SessionTrue, TypeOK, NoClient
<1>3. InfoDescribesSession' /\ ProviderOnlyWithSession' /\ CodeTellsRecords'
  BY <1>1 DEF IInv, SessionTrue, InfoDescribesSession, ProviderOnlyWithSession,
       CodeTellsRecords, NoClient
<1> QED
  BY <1>1, <1>2, <1>3 DEF IInv, SessionTrue, NoClient

LEMMA AddDsnIInv ==
  ASSUME IInv, NEW s \in DsnStrings, NEW written, AddDsn(s, written),
         calls' \in 0..MaxCalls
  PROVE  /\ IInv' /\ UNCHANGED <<session, attributes>>
         /\ DOMAIN ini \subseteq DOMAIN ini'
<1> DEFINE r == ConfigDsnSettings(s)
<1>1. /\ written \subseteq DsnKeys(r.cfg)
      /\ ini' = RegisterDsn(ini, r.cfg, written)
      /\ UNCHANGED <<config, session, attributes, ret, records>>
  BY DEF AddDsn
<1>2. ConfigOK(r.cfg)
  BY SettingsOK DEF StateOK
<1> HIDE DEF r
<1>3. IniOK(ini')
  BY <1>1, <1>2, RegisterDsnOK DEF IInv
<1>4. DOMAIN ini \subseteq DOMAIN ini'
  BY <1>1 DEF RegisterDsn
<1>5. IInv'
  BY <1>1, <1>3, ConfigIInv
<1> QED
  BY <1>1, <1>4, <1>5

LEMMA RemoveDsnIInv ==
  ASSUME IInv, NEW s \in DsnStrings, RemoveDsn(s), calls' \in 0..MaxCalls
  PROVE  IInv' /\ UNCHANGED <<session, attributes>>
<1>1. /\ ini' = UnregisterDsn(ini, Get(ConfigDsnSettings(s).cfg, "dsn"))
      /\ UNCHANGED <<config, session, attributes, ret, records>>
  BY DEF RemoveDsn
<1>2. IniOK(ini')
  BY <1>1, UnregisterDsnOK DEF IInv
<1>3. IInv'
  BY <1>1, <1>2, ConfigIInv
<1> QED
  BY <1>1, <1>3

\* A DSN that is renamed: its settings are in the configuration read from it,
\* and all of that is written before the old section goes.
LEMMA ConfigureDsnIInv ==
  ASSUME IInv, NEW s \in DsnStrings, NEW renamed \in Dsns, NEW written,
         ConfigureDsn(s, renamed, written), calls' \in 0..MaxCalls
  PROVE  /\ IInv' /\ UNCHANGED <<session, attributes>>
         /\ \A d \in DOMAIN ini \ DOMAIN ini' :
              \E e \in DOMAIN ini' :
                \A k \in DOMAIN ini[d] \ {"connectionTimeout"} : k \in DOMAIN ini'[e]
<1> DEFINE r == ConfigDsnSettings(s)
<1> DEFINE old == Get(r.cfg, "dsn")
<1> DEFINE loaded == ReadDsnConfiguration(r, ini, old)
<1> DEFINE c == SetValue(loaded.cfg, "dsn", renamed)
<1> DEFINE added == RegisterDsn(ini, c, written)
<1>1. /\ written \subseteq DsnKeys(c)
      /\ ini' = IF renamed # old /\ written = DsnKeys(c)
                THEN UnregisterDsn(added, old) ELSE added
      /\ UNCHANGED <<config, session, attributes, ret, records>>
  BY DEF ConfigureDsn
<1>2. StateOK(r) /\ StateOK(loaded)
  BY SettingsOK
<1>3. Reads(r, SectionOf(ini, old), Attrs \ {"dsn", "driver"}, loaded)
  BY <1>2, ReadDsnConfigurationReads DEF IInv
<1> HIDE DEF r, old, loaded
<1>4. "dsn" \in Attrs /\ renamed \in ValueOf("dsn")
  BY TextsAssumption, StringsAreTexts DEF Attrs, PlainAttrs, ValueOf,
       NumberAttrs
<1>5. ConfigOK(loaded.cfg)
  BY <1>2 DEF StateOK
<1>6. /\ ConfigOK(c) /\ c["dsn"] = Held(renamed)
      /\ \A a \in Attrs : a # "dsn" => c[a] = loaded.cfg[a]
  BY <1>4, <1>5, SetValueOK
<1>7. Get(c, "dsn") = renamed
  BY <1>6 DEF Get, Held
<1> HIDE DEF c
<1>8. IniOK(added)
  BY <1>1, <1>6, RegisterDsnOK DEF IInv
<1>9. /\ DOMAIN added = DOMAIN ini \cup {renamed}
      /\ DOMAIN added[renamed] = written
  BY <1>7 DEF RegisterDsn
<1> HIDE DEF added
<1>10. IniOK(ini')
  BY <1>1, <1>8, UnregisterDsnOK
<1>11. IInv'
  BY <1>1, <1>10, ConfigIInv
<1>12. ASSUME NEW d \in DOMAIN ini \ DOMAIN ini'
       PROVE  \E e \in DOMAIN ini' :
                \A k \in DOMAIN ini[d] \ {"connectionTimeout"} : k \in DOMAIN ini'[e]
  <2>1. renamed # old /\ written = DsnKeys(c) /\ ini' = UnregisterDsn(added, old)
    BY <1>1, <1>9, <1>12
  <2>2. /\ DOMAIN ini' = (DOMAIN ini \cup {renamed}) \ {old}
        /\ ini'[renamed] = added[renamed]
    BY <1>9, <2>1 DEF UnregisterDsn
  <2>3. d = old /\ renamed \in DOMAIN ini' /\ DOMAIN ini'[renamed] = DsnKeys(c)
    BY <1>9, <1>12, <2>1, <2>2
  <2>4. ASSUME NEW k \in DOMAIN ini[d] \ {"connectionTimeout"}
        PROVE  k \in DsnKeys(c)
    <3>1. SectionOf(ini, old) = ini[d] /\ SectionOK(ini[d])
      BY <1>12, <2>3 DEF SectionOf, IInv, IniOK
    <3>2. k \in Attrs \ {"dsn", "driver"} /\ Offers(ini[d], k)
      BY <3>1, <2>4 DEF SectionOK, Offers
    <3>3. \E v \in ValueOf(k) : loaded.cfg[k] = Held(v)
      <4>1. CASE IsSet(r.cfg, k)
        <5>1. loaded.cfg[k] = r.cfg[k]
          BY <1>3, <3>2, <4>1 DEF Reads
        <5>2. loaded.cfg[k].set
          BY <4>1, <5>1 DEF IsSet
        <5> QED
          BY <1>5, <3>2, <5>2, SetIsHeld
      <4>2. CASE ~IsSet(r.cfg, k)
        <5>1. loaded.cfg[k] = Held(Taken(ini[d], k))
          BY <1>3, <3>1, <3>2, <4>2 DEF Reads
        <5>2. Taken(ini[d], k) \in ValueOf(k)
          BY <3>1, <2>4, TakenOK
        <5> QED
          BY <5>1, <5>2
      <4> QED
        BY <4>1, <4>2
    <3>4. k \in DOMAIN ToMap(c)
      BY <1>6, <3>2, <3>3, ToMapIs
    <3> QED
      BY <3>2, <3>4 DEF DsnKeys
  <2> QED
    BY <2>3, <2>4
<1> QED
  BY <1>1, <1>11, <1>12

\* One step, of whichever call: it keeps the invariant, a failed call keeps the
\* session and the attributes, and only ConfigDSN removes sections.
LEMMA NextKeeps ==
  ASSUME IInv, [Next]_vars
  PROVE  /\ IInv'
         /\ ret' = "ERROR" /\ calls' # calls => UNCHANGED <<session, attributes>>
         /\ \A d \in DOMAIN ini \ DOMAIN ini' :
              \/ \E s \in DsnStrings : RemoveDsn(s)
              \/ \E e \in DOMAIN ini' :
                   \A k \in DOMAIN ini[d] \ {"connectionTimeout"} :
                     k \in DOMAIN ini'[e]
<1> DEFINE Goal ==
      /\ IInv'
      /\ ret' = "ERROR" /\ calls' # calls => UNCHANGED <<session, attributes>>
      /\ \A d \in DOMAIN ini \ DOMAIN ini' :
           \/ \E s \in DsnStrings : RemoveDsn(s)
           \/ \E e \in DOMAIN ini' :
                \A k \in DOMAIN ini[d] \ {"connectionTimeout"} : k \in DOMAIN ini'[e]
<1>1. ASSUME UNCHANGED vars PROVE Goal
  <2>1. UNCHANGED <<config, session, attributes, ret, records, ini, calls>>
    BY <1>1 DEF vars
  <2>2. IniOK(ini') /\ calls' \in 0..MaxCalls
    BY <2>1 DEF IInv, SessionTrue, TypeOK
  <2>3. IInv'
    BY <2>1, <2>2, ConfigIInv
  <2> QED
    BY <2>1, <2>3
<1>2. ASSUME Next PROVE Goal
  <2>1. calls' \in 0..MaxCalls
    BY <1>2, MaxCallsAssumption DEF Next, IInv, SessionTrue, TypeOK
  <2>2. ASSUME UNCHANGED Settings, IInv', ret' = "ERROR" => UNCHANGED attributes
        PROVE  Goal
    <3>1. UNCHANGED session /\ UNCHANGED ini
      BY <2>2 DEF Settings
    <3> QED
      BY <2>2, <3>1
  <2>3. ASSUME IInv', ret' = "ERROR" => UNCHANGED <<session, attributes>>,
               UNCHANGED ini
        PROVE  Goal
    BY <2>3
  <2>4. ASSUME NEW s \in ConnectStrings, DriverConnect(s) PROVE Goal
    <3>1. UNCHANGED ini
      BY <2>4 DEF DriverConnect
    <3> QED
      BY <2>1, <2>3, <2>4, <3>1, DriverConnectIInv
  <2>5. ASSUME NEW d \in Dsns, NEW u \in Users, Connect(d, u, <<"pwd">>) PROVE Goal
    <3>1. UNCHANGED ini
      BY <2>5 DEF Connect
    <3> QED
      BY <2>1, <2>3, <2>5, <3>1, ConnectIInv
  <2>6. ASSUME InternalRelease PROVE Goal
    <3>1. UNCHANGED ini
      BY <2>6 DEF InternalRelease
    <3> QED
      BY <2>1, <2>3, <2>6, <3>1, ReleaseIInv
  <2> HIDE DEF Goal
  <2>7. ASSUME NEW i \in AttributeInputs, InternalSetAttribute(i[1], i[2]) PROVE Goal
    BY <2>1, <2>2, <2>7, SetAttributeIInv
  <2>8. ASSUME NEW i \in OptionInputs, InternalSetConnectOption(i[1], i[2]) PROVE Goal
    BY <2>1, <2>2, <2>8, SetConnectOptionIInv
  <2>9. ASSUME NEW attr, NEW buf, InternalGetAttribute(attr, buf) PROVE Goal
    BY <2>1, <2>2, <2>9, GetAttributeIInv
  <2>10. ASSUME NEW option, InternalGetConnectOption(option) PROVE Goal
    BY <2>1, <2>2, <2>10, GetConnectOptionIInv
  <2>11. ASSUME NEW type, NEW buf, NEW buflen, InternalGetInfo(type, buf, buflen)
         PROVE  Goal
    BY <2>1, <2>2, <2>11, GetInfoIInv
  <2>12. ASSUME NEW f, GetFunctions(f) PROVE Goal
    BY <2>1, <2>2, <2>12, GetFunctionsIInv
  <2>13. ASSUME NEW s \in DsnStrings, NEW written, AddDsn(s, written) PROVE Goal
    BY <2>1, <2>13, AddDsnIInv DEF Goal
  <2>14. ASSUME NEW s \in DsnStrings, RemoveDsn(s) PROVE Goal
    BY <2>1, <2>14, RemoveDsnIInv DEF Goal
  <2>15. ASSUME NEW s \in DsnStrings, NEW d \in Dsns, NEW written,
                ConfigureDsn(s, d, written)
         PROVE  Goal
    BY <2>1, <2>15, ConfigureDsnIInv DEF Goal
  <2>16. Calls
    BY <1>2 DEF Next
  <2> QED
    BY <2>4, <2>5, <2>6, <2>7, <2>8, <2>9, <2>10, <2>11, <2>12, <2>13, <2>14,
         <2>15,
      <2>16, Zenon DEF Calls
<1> QED
  BY <1>1, <1>2

\* The types of the state, and that the session is described truly by SQLGetInfo,
\* by the credentials held for it and by the records of the last call, whatever
\* the application connects with and the services answer.
THEOREM SessionIsTrue == Spec => []SessionTrue
<1>1. Init => IInv
  BY InitIInv
<1>2. IInv /\ [Next]_vars => IInv'
  BY NextKeeps
<1>3. IInv => SessionTrue
  BY DEF IInv
<1> QED
  BY <1>1, <1>2, <1>3, PTL DEF Spec

\* A call that fails neither opens nor drops a session, and leaves the attributes
\* and the information of the connection as they were.
THEOREM FailureNeverTouchesSession == Spec => FailureKeepsSession
<1>1. Init => IInv
  BY InitIInv
<1>2. IInv /\ [Next]_vars => IInv'
  BY NextKeeps
<1>3. IInv /\ [Next]_vars =>
        [ret' = "ERROR" /\ calls' # calls => UNCHANGED <<session, attributes>>]_vars
  BY NextKeeps
<1> QED
  BY <1>1, <1>2, <1>3, PTL DEF Spec, FailureKeepsSession

\* ConfigDSN loses no DSN: a section disappears because its removal was asked
\* for, or when a section with all its settings is there under another name.
THEOREM DsnsAreKept == Spec => NoDsnLost
<1> DEFINE Kept == \A d \in DOMAIN ini \ DOMAIN ini' :
                     \/ \E s \in DsnStrings : RemoveDsn(s)
                     \/ \E e \in DOMAIN ini' :
                          \A k \in DOMAIN ini[d] \ {"connectionTimeout"} :
                            k \in DOMAIN ini'[e]
<1>1. Init => IInv
  BY InitIInv
<1>2. IInv /\ [Next]_vars => IInv'
  BY NextKeeps
<1>3. IInv /\ [Next]_vars => [Kept]_vars
  BY NextKeeps
<1>4. [][Kept]_vars => NoDsnLost
  BY DEF NoDsnLost
<1> HIDE DEF Kept
<1> QED
  BY <1>1, <1>2, <1>3, <1>4, PTL DEF Spec

-----------------------------------------------------------------------------
(* Settings survive their way through DSNs.                                 *)

LEMMA TrimWord ==
  ASSUME NEW t \in Token, t # Blank
  PROVE  Trim(<<t>>) = <<t>>
<1>1. <<t>> \in Seq(Token) /\ <<t>> # <<>> /\ Len(<<t>>) = 1 /\ <<t>>[1] = t
  OBVIOUS
<1> QED
  BY <1>1, TrimSame

LEMMA AuthReadsBack ==
  ASSUME NEW a \in AuthTypes
  PROVE  Trim(<<a>>) = <<a>> /\ AuthFromString(<<a>>) = a
<1>1. a \in Token /\ a # Blank
  BY DEF Token, AuthTypes, Blank
<1>2. Trim(<<a>>) = <<a>>
  BY <1>1, TrimWord
<1> QED
  BY <1>2 DEF AuthFromString

LEMMA LevelReadsBack ==
  ASSUME NEW t \in DOMAIN Levels, NEW dflt
  PROVE  LevelFromString(<<t>>, dflt) = Levels[t]
<1>1. t \in Token /\ t # Blank
  BY DEF Token, Levels, Blank
<1>2. Trim(<<t>>) = <<t>>
  BY <1>1, TrimWord
<1> QED
  BY <1>2 DEF LevelFromString

LEMMA LevelsDiffer ==
  ASSUME NEW t \in DOMAIN Levels, NEW u \in DOMAIN Levels, Levels[t] = Levels[u]
  PROVE  t = u
  BY DEF Levels

\* What is read from a section is written as it stands there.
LEMMA TakenWritesBack ==
  ASSUME NEW section, SectionOK(section), NEW k \in DOMAIN section,
         NEW c, c[k] = Held(Taken(section, k))
  PROVE  AddToMap(c, k) = section[k]
<1>1. section[k] \in TextsOf(k) /\ Get(c, k) = Taken(section, k)
  BY DEF SectionOK, Get, Held
<1>2. CASE k \in NumberAttrs
  <2>1. PICK n \in -(IntMax + 1)..IntMax : section[k] = <<ToString(n)>>
    BY <1>1, <1>2 DEF TextsOf, NumberAttrs
  <2>2. ReadDsnInt(section, k) = n
    BY <2>1, ReadDsnIntOK
  <2>3. /\ AddToMap(c, k) = <<ToString(Get(c, k))>>
        /\ Taken(section, k) = ReadDsnInt(section, k)
    BY <1>2 DEF AddToMap, NumberAttrs, Taken
  <2> QED
    BY <1>1, <2>1, <2>2, <2>3
<1>3. CASE k = "authType"
  <2>1. PICK a \in AuthTypes : section[k] = <<a>>
    BY <1>1, <1>3 DEF TextsOf, NumberAttrs
  <2>2. /\ AddToMap(c, k) = <<Get(c, k)>>
        /\ Taken(section, k) = AuthFromString(section[k])
    BY <1>3 DEF AddToMap, NumberAttrs, Taken, AuthToString
  <2> QED
    BY <1>1, <2>1, <2>2, AuthReadsBack
<1>4. CASE k = "logLevel"
  <2>1. PICK t \in DOMAIN Levels : section[k] = <<t>>
    BY <1>1, <1>4 DEF TextsOf, NumberAttrs
  <2>2. /\ AddToMap(c, k) = LevelToString(Get(c, k))
        /\ Taken(section, k) = LevelFromString(section[k], "WARNING")
    BY <1>4 DEF AddToMap, NumberAttrs, Taken
  <2>3. Get(c, k) = Levels[t]
    BY <1>1, <2>1, <2>2, LevelReadsBack
  <2>4. Levels[t] \in LevelNames
    BY DEF Levels, LevelNames
  <2>5. PICK u \in DOMAIN Levels :
          LevelToString(Levels[t]) = <<u>> /\ Levels[u] = Levels[t]
    BY <2>4, LevelToStringOK
  <2>6. u = t
    BY <2>5, LevelsDiffer
  <2> QED
    BY <2>1, <2>2, <2>3, <2>5, <2>6
<1>5. CASE k \notin NumberAttrs \cup {"authType", "logLevel"}
  BY <1>1, <1>5 DEF AddToMap, Taken
<1> QED
  BY <1>2, <1>3, <1>4, <1>5

LEMMA NewState ==
  /\ StateOK([cfg |-> NewConfiguration, warned |-> FALSE, log |-> log])
  /\ \A k \in Attrs : ~IsSet(NewConfiguration, k)
<1>1. StateOK([cfg |-> NewConfiguration, warned |-> FALSE, log |-> log])
  BY NewConfigurationOK DEF StateOK
<1>2. \A k \in Attrs : NewConfiguration[k].set = FALSE
  BY Zenon DEF NewConfiguration
<1> QED
  BY <1>1, <1>2 DEF IsSet

LEMMA ReadsBack ==
  ASSUME IInv
  PROVE  DsnReadsBack
<1> DEFINE r == [cfg |-> NewConfiguration, warned |-> FALSE, log |-> log]
<1>1. r.cfg = NewConfiguration /\ StateOK(r)
  BY NewState
<1> SUFFICES ASSUME NEW d \in DOMAIN ini, NEW k \in DOMAIN ini[d],
                    k = "connectionTimeout" => "reqTimeout" \in DOMAIN ini[d]
             PROVE  AddToMap(ReadDsnConfiguration(r, ini, d).cfg, k) = ini[d][k]
  BY DEF DsnReadsBack
<1> HIDE DEF r
<1>2. SectionOf(ini, d) = ini[d] /\ SectionOK(ini[d])
  BY DEF SectionOf, IInv, IniOK
<1>3. k \in Attrs \ {"dsn", "driver"} /\ Offers(ini[d], k)
  BY <1>2 DEF SectionOK, Offers
<1>4. ~IsSet(r.cfg, k)
  BY <1>1, <1>3, NewState
<1>5. Reads(r, ini[d], Attrs \ {"dsn", "driver"}, ReadDsnConfiguration(r, ini, d))
  BY <1>1, <1>2, ReadDsnConfigurationReads DEF IInv
<1>6. ReadDsnConfiguration(r, ini, d).cfg[k] = Held(Taken(ini[d], k))
  BY <1>3, <1>4, <1>5 DEF Reads
<1> QED
  BY <1>2, <1>6, TakenWritesBack

LEMMA StringWins ==
  ASSUME IInv
  PROVE  StringWinsOverDsn
<1> DEFINE r == [cfg |-> NewConfiguration, warned |-> FALSE, log |-> log]
<1> SUFFICES ASSUME NEW s \in ConnectStrings, NEW k \in Attrs,
                    IsSet(ParseConnectionString(r, s, Separator).cfg, k)
             PROVE  ReadSettings(NewConfiguration, s).cfg[k]
                      = ParseConnectionString(r, s, Separator).cfg[k]
  BY DEF StringWinsOverDsn
<1> DEFINE said == ParseConnectionString(r, s, Separator)
<1>1. StateOK(said)
  BY NewState, ParseOK, TextsAssumption, StringsAreTexts
<1>2. ReadSettings(NewConfiguration, s) =
        IF IsSet(said.cfg, "dsn")
        THEN ReadDsnConfiguration(said, ini, Get(said.cfg, "dsn")) ELSE said
  BY DEF ReadSettings
<1> HIDE DEF said
<1>3. \A d : ReadDsnConfiguration(said, ini, d).cfg[k] = said.cfg[k]
  <2> TAKE d
  <2>1. Reads(said, SectionOf(ini, d), Attrs \ {"dsn", "driver"},
              ReadDsnConfiguration(said, ini, d))
    BY <1>1, ReadDsnConfigurationReads DEF IInv
  <2> QED
    BY <2>1 DEF Reads, said
<1> QED
  BY <1>2, <1>3 DEF said

-----------------------------------------------------------------------------
(* Settings survive their way through connection strings.                   *)

\* Every attribute has its place in the order.
LEMMA OrderOK ==
  /\ Len(AttrOrder) \in Nat
  /\ \A j \in 1..Len(AttrOrder) : AttrOrder[j] \in Attrs
  /\ \A k \in Attrs : \E j \in 1..Len(AttrOrder) : AttrOrder[j] = k
<1>1. Len(AttrOrder) = 27
  BY DEF AttrOrder
<1>2. \A j \in 1..27 : AttrOrder[j] \in Attrs
  BY DEF AttrOrder, Attrs, NumberAttrs, GuardedAttrs, UserAttrs, IdPAttrs,
       PlainAttrs
<1>3. \A k \in Attrs : \E j \in 1..27 : AttrOrder[j] = k
  BY DEF AttrOrder, Attrs, NumberAttrs, GuardedAttrs, UserAttrs, IdPAttrs,
       PlainAttrs
<1> QED
  BY <1>1, <1>2, <1>3

\* f is the function that ToConnectString defines, up to n.
Writing(m, f, n) ==
  f = [j \in 0..n |-> IF j = 0 THEN <<>> ELSE f[j - 1] \o Piece(m, AttrOrder[j])]

LEMMA WritingStep ==
  ASSUME NEW m, NEW f, NEW n \in Nat, Writing(m, f, n)
  PROVE  /\ f[0] = <<>>
         /\ \A j \in 1..n : f[j] = f[j - 1] \o Piece(m, AttrOrder[j])
<1> DEFINE longer(j) == f[j - 1] \o Piece(m, AttrOrder[j])
<1> DEFINE body(j) == IF j = 0 THEN <<>> ELSE longer(j)
<1>1. f = [j \in 0..n |-> body(j)]
  BY DEF Writing
<1> HIDE DEF body, longer
<1>2. \A j \in 0..n : f[j] = body(j)
  BY <1>1
<1>3. f[0] = <<>> /\ \A j \in 1..n : f[j] = longer(j)
  BY <1>2 DEF body
<1> QED
  BY <1>3 DEF longer

LEMMA WritingExists ==
  ASSUME NEW m
  PROVE  \A n \in Nat : \E f : Writing(m, f, n)
<1> DEFINE Bad == {n \in Nat : ~\E f : Writing(m, f, n)}
<1>1. SUFFICES ASSUME Bad # {} PROVE FALSE
  OBVIOUS
<1>2. PICK n \in Bad : \A i \in Bad : n =< i
  BY <1>1, Smallest
<1>3. CASE n = 0
  <2>1. Writing(m, [j \in 0..0 |-> <<>>], 0)
    BY DEF Writing
  <2> QED
    BY <1>3, <2>1
<1>4. CASE n # 0
  <2>1. n - 1 \in Nat /\ ~(n =< n - 1)
    BY <1>4
  <2>2. PICK f : Writing(m, f, n - 1)
    BY <1>2, <2>1
  <2> DEFINE last == f[n - 1] \o Piece(m, AttrOrder[n])
  <2> DEFINE g == [j \in 0..n |-> IF j = n THEN last ELSE f[j]]
  <2>3. /\ f[0] = <<>>
        /\ \A j \in 1..(n - 1) : f[j] = f[j - 1] \o Piece(m, AttrOrder[j])
    BY <2>1, <2>2, WritingStep
  <2>4. /\ g = [j \in 0..n |-> g[j]]
        /\ g[n] = f[n - 1] \o Piece(m, AttrOrder[n])
        /\ \A j \in 0..(n - 1) : g[j] = f[j]
    <3> HIDE DEF last
    <3>1. /\ g = [j \in 0..n |-> g[j]]
          /\ g[n] = last
          /\ \A j \in 0..(n - 1) : g[j] = f[j]
      BY <1>4
    <3> QED
      BY <3>1 DEF last
  <2> HIDE DEF g
  <2>5. \A j \in 0..n :
          g[j] = IF j = 0 THEN <<>> ELSE g[j - 1] \o Piece(m, AttrOrder[j])
    <3> TAKE j \in 0..n
    <3>1. CASE j = n
      <4>1. n - 1 \in 0..(n - 1)
        BY <1>4
      <4> QED
        BY <1>4, <3>1, <4>1, <2>4
    <3>2. CASE j = 0
      BY <1>4, <3>2, <2>3, <2>4
    <3>3. CASE j # n /\ j # 0
      <4>1. j \in 1..(n - 1) /\ j - 1 \in 0..(n - 1) /\ j \in 0..(n - 1)
        BY <3>3
      <4> QED
        BY <3>3, <4>1, <2>3, <2>4
    <3> QED
      BY <3>1, <3>2, <3>3
  <2>6. Writing(m, g, n)
    BY <2>4, <2>5 DEF Writing
  <2> QED
    BY <1>2, <2>6
<1> QED
  BY <1>3, <1>4

LEMMA WriteIsWriting ==
  ASSUME NEW c
  PROVE  \E f : /\ Writing(ToMap(c), f, Len(AttrOrder))
                /\ ToConnectString(c) = f[Len(AttrOrder)]
<1> DEFINE f == CHOOSE f : Writing(ToMap(c), f, Len(AttrOrder))
<1>1. Writing(ToMap(c), f, Len(AttrOrder))
  BY WritingExists, OrderOK
<1>2. ToConnectString(c) = f[Len(AttrOrder)]
  BY DEF ToConnectString, Writing
<1> QED
  BY <1>1, <1>2

\* Texts that can be divided at the delimiters.
Word(v) == v \in Seq(Token) /\ ~Contains(v, Separator) /\ ~Contains(v, Equals)

\* What a map of settings holds.
MapOK(m) == \A k \in DOMAIN m : k \in Attrs /\ Word(m[k])

LEMMA TokensDiffer ==
  /\ Separator # Equals /\ Separator # OpenBrace /\ Separator # CloseBrace
  /\ Equals # OpenBrace /\ Equals # CloseBrace
  /\ Blank # OpenBrace /\ Blank # CloseBrace
  BY Zenon DEF Separator, Equals, OpenBrace, CloseBrace, Blank

LEMMA WordIs ==
  ASSUME NEW v
  PROVE  Word(v) <=> /\ v \in Seq(Token)
                     /\ \A i \in 1..Len(v) : v[i] # Separator /\ v[i] # Equals
  BY Zenon DEF Word, Contains

\* Putting tokens before and after a text.
LEMMA Around ==
  ASSUME NEW S, NEW v \in Seq(S), NEW a \in S, NEW b \in S,
         NEW res, res = <<a>> \o v \o <<b>>
  PROVE  /\ res \in Seq(S) /\ Len(res) = Len(v) + 2
         /\ res[1] = a /\ res[Len(v) + 2] = b
         /\ \A i \in 1..Len(v) : res[i + 1] = v[i]
<1>1. Len(v) \in Nat
  OBVIOUS
<1> DEFINE h == <<a>> \o v
<1>2. /\ h \in Seq(S) /\ Len(h) = Len(v) + 1 /\ h[1] = a
      /\ \A i \in 1..Len(v) : h[i + 1] = v[i]
  BY <1>1, ConcatProperties
<1> HIDE DEF h
<1>3. /\ res \in Seq(S) /\ Len(res) = Len(h) + 1 /\ res[Len(h) + 1] = b
      /\ \A i \in 1..Len(h) : res[i] = h[i]
  <2>1. res = h \o <<b>>
    BY Zenon DEF h
  <2> QED
    BY <1>2, <2>1, ConcatProperties
<1>4. /\ res \in Seq(S) /\ Len(res) = Len(v) + 2
      /\ res[1] = a /\ res[Len(v) + 2] = b
      /\ \A i \in 1..Len(v) : res[i + 1] = v[i]
  BY <1>1, <1>2, <1>3
<1> QED
  BY <1>4

LEMMA AroundPair ==
  ASSUME NEW S, NEW v \in Seq(S), NEW a \in S, NEW e \in S, NEW b \in S,
         NEW res, res = <<a, e>> \o v \o <<b>>
  PROVE  /\ res \in Seq(S) /\ Len(res) = Len(v) + 3
         /\ res[1] = a /\ res[2] = e /\ res[Len(v) + 3] = b
         /\ \A i \in 1..Len(v) : res[i + 2] = v[i]
<1>1. Len(v) \in Nat
  OBVIOUS
<1> DEFINE h == <<a, e>> \o v
<1>2. /\ h \in Seq(S) /\ Len(h) = Len(v) + 2 /\ h[1] = a /\ h[2] = e
      /\ \A i \in 1..Len(v) : h[i + 2] = v[i]
  BY <1>1, ConcatProperties
<1> HIDE DEF h
<1>3. /\ res \in Seq(S) /\ Len(res) = Len(h) + 1 /\ res[Len(h) + 1] = b
      /\ \A i \in 1..Len(h) : res[i] = h[i]
  <2>1. res = h \o <<b>>
    BY Zenon DEF h
  <2> QED
    BY <1>2, <2>1, ConcatProperties
<1>4. /\ res \in Seq(S) /\ Len(res) = Len(v) + 3
      /\ res[1] = a /\ res[2] = e /\ res[Len(v) + 3] = b
      /\ \A i \in 1..Len(v) : res[i + 2] = v[i]
  BY <1>1, <1>2, <1>3
<1> QED
  BY <1>4

LEMMA BracedOK ==
  ASSUME NEW v, Word(v)
  PROVE  Word(Braced(v))
<1>1. v \in Seq(Token) /\ \A i \in 1..Len(v) : v[i] # Separator /\ v[i] # Equals
  BY WordIs, Zenon
<1>2. Len(v) \in Nat
  BY <1>1, LenProperties
<1> DEFINE b == <<OpenBrace>> \o v \o <<CloseBrace>>
<1>3. OpenBrace \in Token /\ CloseBrace \in Token
  BY DEF Token
<1>4. /\ b \in Seq(Token) /\ Len(b) = Len(v) + 2
      /\ b[1] = OpenBrace /\ b[Len(v) + 2] = CloseBrace
      /\ \A i \in 1..Len(v) : b[i + 1] = v[i]
  <2>1. b = <<OpenBrace>> \o v \o <<CloseBrace>>
    OBVIOUS
  <2> HIDE DEF b
  <2> QED
    <3>1. v \in Seq(Token)
      BY <1>1, Zenon
    <3>2. \A x, y \in Token : b = <<x>> \o v \o <<y>> =>
            /\ b \in Seq(Token) /\ Len(b) = Len(v) + 2
            /\ b[1] = x /\ b[Len(v) + 2] = y
            /\ \A i \in 1..Len(v) : b[i + 1] = v[i]
      <4> SUFFICES ASSUME NEW x \in Token, NEW y \in Token, b = <<x>> \o v \o <<y>>
                   PROVE  /\ b \in Seq(Token) /\ Len(b) = Len(v) + 2
                          /\ b[1] = x /\ b[Len(v) + 2] = y
                          /\ \A i \in 1..Len(v) : b[i + 1] = v[i]
        BY Zenon
      <4> QED
        BY <3>1, Around
    <3> QED
      BY <1>3, <2>1, <3>2, Zenon
<1> HIDE DEF b
<1>5. Len(b) = Len(v) + 2
  BY <1>4, Zenon
<1>6. ASSUME NEW i \in 1..Len(b) PROVE b[i] # Separator /\ b[i] # Equals
  <2>1. CASE i = 1 \/ i = Len(v) + 2
    BY <1>4, <2>1, TokensDiffer
  <2>2. CASE i # 1 /\ i # Len(v) + 2
    <3>1. i - 1 \in 1..Len(v) /\ (i - 1) + 1 = i
      BY <1>2, <1>5, <2>2
    <3>2. b[(i - 1) + 1] = v[i - 1]
      BY <1>4, <3>1, Zenon
    <3> QED
      BY <1>1, <3>1, <3>2
  <2> QED
    BY <2>1, <2>2
<1>7. Word(b)
  BY <1>4, <1>6, WordIs, Zenon
<1> QED
  BY <1>7, Zenon DEF Braced, b

\* A piece that is not empty: the key, "=", the value and ";".
LEMMA PieceIs ==
  ASSUME NEW m, MapOK(m), NEW k, NEW p, p = Piece(m, k), p # <<>>,
         NEW v, v = Braced(m[k])
  PROVE  /\ k \in DOMAIN m /\ k \in Attrs /\ Word(v)
         /\ p \in Seq(Token) /\ Len(p) = Len(v) + 3
         /\ p[1] = k /\ p[2] = Equals /\ p[Len(v) + 3] = Separator
         /\ \A i \in 1..Len(v) : p[i + 2] = v[i]
<1>1. k \in DOMAIN m /\ p = <<k, Equals>> \o v \o <<Separator>>
  BY Zenon DEF Piece
<1>2. k \in Attrs /\ Word(v)
  BY <1>1, BracedOK DEF MapOK
<1>3. v \in Seq(Token)
  BY <1>2, Zenon DEF Word
<1>4. k \in Token /\ Equals \in Token /\ Separator \in Token
  BY <1>2 DEF Token
<1>5. /\ p \in Seq(Token) /\ Len(p) = Len(v) + 3
      /\ p[1] = k /\ p[2] = Equals /\ p[Len(v) + 3] = Separator
      /\ \A i \in 1..Len(v) : p[i + 2] = v[i]
  <2>1. \A x, y, z \in Token : p = <<x, y>> \o v \o <<z>> =>
          /\ p \in Seq(Token) /\ Len(p) = Len(v) + 3
          /\ p[1] = x /\ p[2] = y /\ p[Len(v) + 3] = z
          /\ \A i \in 1..Len(v) : p[i + 2] = v[i]
    BY <1>3, AroundPair
  <2> QED
    BY <1>1, <1>4, <2>1, Zenon
<1> QED
  BY <1>1, <1>2, <1>5, Zenon

\* The text after n keys: each shorter one is a prefix of it, it ends with ";",
\* and every ";" in it is the end of a piece.
Laid(f, n) ==
  /\ f[n] \in Seq(Token)
  /\ \A j \in 0..n : /\ Len(f[j]) \in Nat
                     /\ Len(f[j]) =< Len(f[n])
                     /\ \A i \in 1..Len(f[j]) : f[n][i] = f[j][i]
  /\ Len(f[n]) # 0 => f[n][Len(f[n])] = Separator
  /\ \A d \in 1..Len(f[n]) : f[n][d] = Separator => \E j \in 0..n : Len(f[j]) = d

LEMMA Appended ==
  ASSUME NEW s \in Seq(Token), NEW p \in Seq(Token)
  PROVE  /\ s \o p \in Seq(Token) /\ Len(s \o p) = Len(s) + Len(p)
         /\ Len(s) \in Nat /\ Len(p) \in Nat
         /\ \A i \in 1..Len(s) : (s \o p)[i] = s[i]
         /\ \A i \in 1..Len(p) : (s \o p)[Len(s) + i] = p[i]
<1>1. Len(s) \in Nat /\ Len(p) \in Nat
  OBVIOUS
<1> QED
  BY <1>1, ConcatProperties

LEMMA KeysDivide ==
  ASSUME NEW k \in Attrs
  PROVE  k # Separator /\ k # Equals /\ k # Blank /\ k \in Token
<1>1. k \in Token
  BY DEF Token
<1> QED
  BY <1>1, Zenon DEF Attrs, NumberAttrs, GuardedAttrs, UserAttrs, IdPAttrs,
       PlainAttrs, Blank, Separator, Equals

\* The only ";" of a piece is its last token.
LEMMA PieceEnds ==
  ASSUME NEW m, MapOK(m), NEW k, NEW p, p = Piece(m, k), p # <<>>
  PROVE  /\ p \in Seq(Token) /\ Len(p) \in Nat /\ Len(p) >= 3
         /\ \A i \in 1..Len(p) : p[i] = Separator <=> i = Len(p)
<1> DEFINE v == Braced(m[k])
<1>1. v = Braced(m[k])
  OBVIOUS
<1> HIDE DEF v
<1>2. /\ k \in Attrs /\ Word(v)
      /\ p \in Seq(Token) /\ Len(p) = Len(v) + 3
      /\ p[1] = k /\ p[2] = Equals /\ p[Len(v) + 3] = Separator
      /\ \A i \in 1..Len(v) : p[i + 2] = v[i]
  BY <1>1, PieceIs
<1>3. v \in Seq(Token) /\ Len(p) = Len(v) + 3
  BY <1>2, Zenon DEF Word
<1>4. Len(v) \in Nat /\ Len(p) \in Nat /\ Len(p) >= 3
  BY <1>3, LenProperties
<1>5. Len(p) # 1 /\ Len(p) # 2
  <2>1. \A n \in Nat : n >= 3 => n # 1 /\ n # 2
    OBVIOUS
  <2> QED
    BY <1>4, <2>1, Zenon
<1>6. ASSUME NEW i \in 1..Len(p) PROVE p[i] = Separator <=> i = Len(p)
  <2>1. CASE i = 1
    <3>1. p[i] # Separator
      BY <1>2, <2>1, KeysDivide, Zenon
    <3>2. i # Len(p)
      BY <1>5, <2>1, Zenon
    <3> QED
      BY <3>1, <3>2
  <2>2. CASE i = 2
    <3>1. p[i] # Separator
      BY <1>2, <2>2, TokensDiffer
    <3>2. i # Len(p)
      BY <1>5, <2>2, Zenon
    <3> QED
      BY <3>1, <3>2
  <2>3. CASE i = Len(p)
    BY <1>2, <1>3, <2>3
  <2>4. CASE i # 1 /\ i # 2 /\ i # Len(p)
    <3>1. i - 2 \in 1..Len(v) /\ (i - 2) + 2 = i
      BY <1>3, <1>4, <2>4
    <3>2. p[(i - 2) + 2] = v[i - 2]
      BY <1>2, <3>1, Zenon
    <3>3. v[i - 2] # Separator
      BY <1>2, <3>1, WordIs, Zenon
    <3> QED
      BY <2>4, <3>1, <3>2, <3>3
  <2> QED
    BY <2>1, <2>2, <2>3, <2>4
<1> QED
  BY <1>2, <1>4, <1>6, Zenon

LEMMA LaidOut ==
  ASSUME NEW m, MapOK(m), NEW n \in Nat, NEW f, Writing(m, f, n)
  PROVE  \A j \in 0..n : Laid(f, j)
<1>1. /\ f[0] = <<>>
      /\ \A j \in 1..n : f[j] = f[j - 1] \o Piece(m, AttrOrder[j])
  BY WritingStep
<1> DEFINE Bad == {j \in Nat : j =< n /\ ~Laid(f, j)}
<1>2. SUFFICES ASSUME Bad # {} PROVE FALSE
  OBVIOUS
<1>3. PICK j \in Bad : \A i \in Bad : j =< i
  BY <1>2, Smallest
<1>4. CASE j = 0
  <2>1. Laid(f, 0)
    <3>1. /\ f[0] \in Seq(Token) /\ Len(f[0]) = 0
      BY <1>1
    <3>2. \A i \in 0..0 : i = 0
      OBVIOUS
    <3>3. 1..0 = {} /\ 0 \in Nat /\ 0 =< 0
      OBVIOUS
    <3> QED
      BY <3>1, <3>2, <3>3, Zenon DEF Laid
  <2> QED
    BY <1>3, <1>4, <2>1
<1>5. CASE j # 0
  <2>1. j - 1 \in Nat /\ j - 1 =< n /\ ~(j =< j - 1) /\ j \in 1..n
    BY <1>3, <1>5
  <2>2. Laid(f, j - 1)
    BY <1>3, <2>1
  <2> DEFINE s == f[j - 1]
  <2> DEFINE p == Piece(m, AttrOrder[j])
  <2>3. f[j] = s \o p
    BY <1>1, <2>1
  <2>4. CASE p = <<>>
    <3>1. f[j] = s
      <4>1. s \in Seq(Token)
        BY <2>2, Zenon DEF Laid
      <4> HIDE DEF s, p
      <4> QED
        BY <4>1, <2>3, <2>4, ConcatEmptySeq
    <3>2. Laid(f, j)
      <4>1. \A i \in 0..j : i \in 0..(j - 1) \/ f[i] = f[j - 1]
        BY <2>1, <3>1
      <4>2. \A i \in 0..(j - 1) : i \in 0..j
        BY <2>1
      <4>3. j - 1 \in 0..(j - 1)
        BY <2>1
      <4> QED
        BY <2>2, <3>1, <4>1, <4>2, <4>3, Zenon DEF Laid
    <3> QED
      BY <1>3, <3>2
  <2>5. CASE p # <<>>
    <3>1. /\ p \in Seq(Token) /\ Len(p) \in Nat /\ Len(p) >= 3
          /\ \A i \in 1..Len(p) : p[i] = Separator <=> i = Len(p)
      BY <2>5, PieceEnds, Zenon
    <3> HIDE DEF s, p
    <3>2. s \in Seq(Token)
      BY <2>2, Zenon DEF Laid, s
    <3> DEFINE t == f[j]
    <3>3. /\ t \in Seq(Token) /\ Len(t) = Len(s) + Len(p)
          /\ Len(s) \in Nat
          /\ \A i \in 1..Len(s) : t[i] = s[i]
          /\ \A i \in 1..Len(p) : t[Len(s) + i] = p[i]
      <4>1. p \in Seq(Token)
        BY <3>1, Zenon
      <4> QED
        BY <2>3, <3>2, <4>1, Appended
    <3>4. Len(p) \in Nat /\ Len(p) >= 3
      BY <3>1, Zenon
    <3> HIDE DEF t
    <3>5. ASSUME NEW i \in 0..j
          PROVE  /\ Len(f[i]) \in Nat
                 /\ Len(f[i]) =< Len(t)
                 /\ \A x \in 1..Len(f[i]) : t[x] = f[i][x]
      <4>1. CASE i = j
        BY <3>3, <3>4, <4>1 DEF t
      <4>2. CASE i # j
        <5>1. i \in 0..(j - 1)
          BY <2>1, <4>2
        <5>2. /\ Len(f[i]) \in Nat /\ Len(f[i]) =< Len(s)
              /\ \A x \in 1..Len(f[i]) : s[x] = f[i][x]
          BY <2>2, <5>1, Zenon DEF Laid, s
        <5> QED
          BY <3>3, <3>4, <5>2
      <4> QED
        BY <4>1, <4>2
    <3>6. t[Len(t)] = Separator
      <4>1. Len(p) \in 1..Len(p)
        BY <3>4
      <4>2. t[Len(t)] = p[Len(p)]
        BY <3>3, <4>1
      <4> QED
        BY <3>1, <4>1, <4>2, Zenon
    <3>7. ASSUME NEW d \in 1..Len(t), t[d] = Separator
          PROVE  \E i \in 0..j : Len(f[i]) = d
      <4>1. CASE d =< Len(s)
        <5>1. d \in 1..Len(s) /\ s[d] = t[d]
          BY <3>3, <4>1
        <5>2. PICK i \in 0..(j - 1) : Len(f[i]) = d
          BY <2>2, <3>7, <5>1, Zenon DEF Laid, s
        <5>3. i \in 0..j
          BY <2>1
        <5> QED
          BY <5>2, <5>3
      <4>2. CASE ~(d =< Len(s))
        <5>1. d - Len(s) \in 1..Len(p) /\ Len(s) + (d - Len(s)) = d
          BY <3>3, <3>4, <4>2
        <5>2. p[d - Len(s)] = t[d]
          BY <3>3, <5>1
        <5>3. d - Len(s) = Len(p)
          BY <3>1, <3>7, <5>1, <5>2, Zenon
        <5>4. Len(t) = d /\ j \in 0..j
          BY <2>1, <3>3, <3>4, <5>3
        <5> QED
          BY <5>4 DEF t
      <4> QED
        BY <4>1, <4>2
    <3>8. Laid(f, j)
      BY <3>3, <3>5, <3>6, <3>7, Zenon DEF Laid, t
    <3> QED
      BY <1>3, <3>8
  <2> QED
    BY <2>4, <2>5
<1> QED
  BY <1>4, <1>5

LEMMA SubSeqIs ==
  ASSUME NEW s \in Seq(Token), NEW d \in Nat, NEW v \in Seq(Token),
         d + Len(v) =< Len(s),
         \A i \in 1..Len(v) : s[d + i] = v[i]
  PROVE  SubSeq(s, d + 1, d + Len(v)) = v
<1>1. Len(v) \in Nat /\ Len(s) \in Nat
  OBVIOUS
<1> DEFINE u == SubSeq(s, d + 1, d + Len(v))
<1>2. \A i \in (d + 1)..(d + Len(v)) : s[i] \in Token
  BY <1>1
<1>3. /\ u \in Seq(Token)
      /\ Len(u) = IF d + 1 =< d + Len(v) THEN (d + Len(v)) - (d + 1) + 1 ELSE 0
      /\ \A i \in 1..((d + Len(v)) - (d + 1) + 1) : u[i] = s[(d + 1) + i - 1]
  <2>1. d + 1 \in Int /\ d + Len(v) \in Int
    BY <1>1
  <2> QED
    BY <1>2, <2>1, SubSeqProperties
<1> HIDE DEF u
<1>4. Len(u) = Len(v)
  BY <1>1, <1>3
<1>5. \A i \in 1..Len(v) : u[i] = v[i]
  <2> TAKE i \in 1..Len(v)
  <2>1. i \in 1..((d + Len(v)) - (d + 1) + 1) /\ (d + 1) + i - 1 = d + i
    BY <1>1
  <2> QED
    BY <1>3, <2>1
<1>6. u = v
  BY <1>3, <1>4, <1>5, SeqEqual
<1> QED
  BY <1>6 DEF u

\* The parser comes to the piece of k, which starts after position d of s.
LEMMA PieceHandled ==
  ASSUME NEW m, MapOK(m), NEW k, NEW p, p = Piece(m, k), p # <<>>,
         NEW s \in Seq(Token), NEW d \in Nat, d + Len(p) =< Len(s),
         \A i \in 1..Len(p) : s[d + i] = p[i], NEW r
  PROVE  HandlePiece(r, s, d, PieceEnd(s, d, Separator))
           = HandleAttributePair(r, k, Unbraced(Trim(Braced(m[k]))))
<1> DEFINE v == Braced(m[k])
<1>1. v = Braced(m[k])
  OBVIOUS
<1> HIDE DEF v
<1>2. /\ k \in Attrs /\ Word(v)
      /\ p \in Seq(Token) /\ Len(p) = Len(v) + 3
      /\ p[1] = k /\ p[2] = Equals /\ p[Len(v) + 3] = Separator
      /\ \A i \in 1..Len(v) : p[i + 2] = v[i]
  BY <1>1, PieceIs
<1>3. v \in Seq(Token) /\ Len(v) \in Nat /\ Len(s) \in Nat /\ d \in 0..Len(s)
  <2>1. v \in Seq(Token)
    BY <1>2, Zenon DEF Word
  <2>2. Len(v) \in Nat /\ Len(s) \in Nat
    BY <2>1, LenProperties
  <2> QED
    BY <1>2, <2>1, <2>2
<1>4. /\ s[d + 1] = k /\ s[d + 2] = Equals /\ s[d + Len(v) + 3] = Separator
      /\ \A i \in 1..Len(v) : s[d + 2 + i] = v[i]
      /\ d + Len(v) + 3 =< Len(s)
  <2>1. 1 \in 1..Len(p) /\ 2 \in 1..Len(p) /\ Len(v) + 3 \in 1..Len(p)
    BY <1>2, <1>3
  <2>2. s[d + 1] = k /\ s[d + 2] = Equals /\ s[d + (Len(v) + 3)] = Separator
    BY <1>2, <2>1
  <2>3. d + (Len(v) + 3) = d + Len(v) + 3 /\ d + Len(v) + 3 =< Len(s)
    BY <1>2, <1>3
  <2>4. ASSUME NEW i \in 1..Len(v) PROVE s[d + 2 + i] = v[i]
    <3>1. i + 2 \in 1..Len(p) /\ d + 2 + i = d + (i + 2)
      BY <1>2, <1>3
    <3> QED
      BY <1>2, <3>1
  <2> QED
    BY <2>2, <2>3, <2>4
<1>5. \A i \in 1..Len(v) : v[i] # Separator /\ v[i] # Equals
  BY <1>2, WordIs, Zenon
<1>6. k # Separator /\ k # Equals /\ k # Blank /\ k \in Token
  BY <1>2, KeysDivide, Zenon
<1> DEFINE n == PieceEnd(s, d, Separator)
<1>7. n = d + Len(v) + 2
  <2>1. /\ n \in d..Len(s) /\ \A i \in (d + 1)..n : s[i] # Separator
        /\ n = Len(s) \/ s[n + 1] = Separator
    BY <1>3, PieceEndIs
  <2> HIDE DEF n
  <2>2. n < d + Len(v) + 3
    BY <1>3, <1>4, <2>1
  <2>3. s[n + 1] = Separator
    BY <1>3, <1>4, <2>1, <2>2
  <2>4. n + 1 # d + 1
    BY <1>4, <1>6, <2>3
  <2>5. n + 1 # d + 2
    BY <1>4, <2>3, TokensDiffer
  <2>6. n + 1 - d - 2 \notin 1..Len(v)
    <3> SUFFICES ASSUME n + 1 - d - 2 \in 1..Len(v) PROVE FALSE
      OBVIOUS
    <3>1. d + 2 + (n + 1 - d - 2) = n + 1
      BY <1>3, <2>1
    <3>2. s[n + 1] = v[n + 1 - d - 2]
      BY <1>4, <3>1
    <3> QED
      BY <1>5, <2>3, <3>2
  <2> QED
    BY <1>3, <2>1, <2>2, <2>4, <2>5, <2>6
<1> DEFINE e == LastPos(s, n, Equals)
<1>8. e = d + 2
  <2>1. n \in Nat
    BY <1>3, <1>7
  <2>2. /\ e \in 0..n /\ (e # 0 => s[e] = Equals)
        /\ \A i \in 1..n : s[i] = Equals => i =< e
    BY <2>1, LastPosIs
  <2> HIDE DEF e, n
  <2>3. d + 2 \in 1..n
    BY <1>3, <1>7
  <2>4. d + 2 =< e
    BY <1>4, <2>2, <2>3
  <2>5. s[e] = Equals
    BY <1>3, <2>2, <2>4
  <2>6. e - d - 2 \notin 1..Len(v)
    <3> SUFFICES ASSUME e - d - 2 \in 1..Len(v) PROVE FALSE
      OBVIOUS
    <3>1. d + 2 + (e - d - 2) = e
      BY <1>3, <2>1, <2>2
    <3>2. s[e] = v[e - d - 2]
      BY <1>4, <3>1
    <3> QED
      BY <1>5, <2>5, <3>2
  <2> QED
    BY <1>3, <1>7, <2>1, <2>2, <2>4, <2>6
<1>9. SubSeq(s, e + 1, n) = v
  <2>1. d + 2 \in Nat /\ (d + 2) + Len(v) =< Len(s) /\ e + 1 = (d + 2) + 1
        /\ n = (d + 2) + Len(v)
    BY <1>3, <1>4, <1>7, <1>8
  <2> HIDE DEF e, n
  <2>2. SubSeq(s, (d + 2) + 1, (d + 2) + Len(v)) = v
    BY <1>3, <1>4, <2>1, SubSeqIs
  <2> QED
    BY <2>1, <2>2
<1>10. Trim(SubSeq(s, d + 1, e - 1)) = <<k>>
  <2>1. <<k>> \in Seq(Token) /\ Len(<<k>>) = 1 /\ <<k>>[1] = k
    BY <1>6
  <2>2. d + Len(<<k>>) =< Len(s) /\ \A i \in 1..Len(<<k>>) : s[d + i] = <<k>>[i]
    BY <1>3, <1>4, <2>1
  <2>3. SubSeq(s, d + 1, d + Len(<<k>>)) = <<k>>
    BY <2>1, <2>2, SubSeqIs
  <2>4. e - 1 = d + 1
    BY <1>8
  <2>5. SubSeq(s, d + 1, e - 1) = <<k>>
    BY <2>1, <2>3, <2>4
  <2> QED
    BY <1>6, <2>5, TrimWord
<1>11. d + 1 < e
  BY <1>8
<1> HIDE DEF e, n
<1>12. HandlePiece(r, s, d, n)
         = HandleAttributePair(r, k, Unbraced(Trim(SubSeq(s, e + 1, n))))
  <2>1. Len(<<k>>) = 1 /\ <<k>>[1] = k
    OBVIOUS
  <2> QED
    BY <1>10, <1>11, <2>1 DEF HandlePiece, e
<1> QED
  BY <1>1, <1>9, <1>12 DEF n

\* A value in braces comes back as it was.
LEMMA BracesComeOff ==
  ASSUME NEW v \in Seq(Token), v # <<>>, Contains(v, Blank) \/ Unbraced(v) = v
  PROVE  Unbraced(Trim(Braced(v))) = v
<1>1. Len(v) \in Nat /\ Len(v) >= 1
  OBVIOUS
<1>2. CASE Contains(v, Blank)
  <2> DEFINE b == <<OpenBrace>> \o v \o <<CloseBrace>>
  <2>1. OpenBrace \in Token /\ CloseBrace \in Token
    BY DEF Token
  <2>2. b = <<OpenBrace>> \o v \o <<CloseBrace>> /\ Braced(v) = b
    BY <1>2 DEF Braced
  <2> HIDE DEF b
  <2>3. /\ b \in Seq(Token) /\ Len(b) = Len(v) + 2
        /\ b[1] = OpenBrace /\ b[Len(v) + 2] = CloseBrace
        /\ \A i \in 1..Len(v) : b[i + 1] = v[i]
    BY <2>1, <2>2, Around
  <2>4. b # <<>> /\ b[1] # Blank /\ b[Len(b)] # Blank
    BY <1>1, <2>3, TokensDiffer
  <2>5. Trim(b) = b
    BY <2>3, <2>4, TrimSame
  <2>6. Head(b) = OpenBrace /\ Last(b) = CloseBrace
    BY <2>3, <2>4 DEF Last
  <2>7. Unbraced(b) = SubSeq(b, 2, Len(b) - 1)
    BY <2>4, <2>6 DEF Unbraced
  <2>8. SubSeq(b, 1 + 1, 1 + Len(v)) = v
    <3>1. 1 + Len(v) =< Len(b) /\ \A i \in 1..Len(v) : b[1 + i] = v[i]
      <4>1. \A i \in 1..Len(v) : 1 + i = i + 1
        BY <1>1
      <4> QED
        BY <1>1, <2>3, <4>1
    <3> QED
      BY <2>3, <3>1, SubSeqIs
  <2>9. 1 + 1 = 2 /\ 1 + Len(v) = Len(b) - 1
    BY <1>1, <2>3
  <2> QED
    BY <2>2, <2>5, <2>7, <2>8, <2>9
<1>3. CASE ~Contains(v, Blank)
  <2>1. v[1] # Blank /\ v[Len(v)] # Blank
    BY <1>1, <1>3 DEF Contains
  <2> QED
    BY <1>3, <2>1, TrimSame DEF Braced
<1> QED
  BY <1>2, <1>3

\* The values that are plain are taken by their handlers as they are written.
LEMMA HandleWrites ==
  ASSUME NEW r, StateOK(r), NEW c, NEW k \in Attrs, NEW v \in ValueOf(k),
         c[k] = Held(v), Plain(k, v)
  PROVE  /\ AddToMap(c, k) \in Seq(Token) /\ AddToMap(c, k) # <<>>
         /\ \/ Contains(AddToMap(c, k), Blank)
            \/ Unbraced(AddToMap(c, k)) = AddToMap(c, k)
         /\ HandleAttributePair(r, k, AddToMap(c, k)).cfg[k] = c[k]
<1> DEFINE w == AddToMap(c, k)
<1>1. Get(c, k) = v
  BY DEF Get, Held
<1>2. ASSUME NEW t \in Token, t # OpenBrace, w = <<t>>
      PROVE  w \in Seq(Token) /\ w # <<>> /\ Unbraced(w) = w
  <2> HIDE DEF w
  <2>1. w \in Seq(Token) /\ w # <<>> /\ Head(w) = t
    BY <1>2
  <2> QED
    BY <1>2, <2>1 DEF Unbraced
<1>3. CASE k \in NumberAttrs
  <2>1. v \in -(IntMax + 1)..IntMax
    BY <1>3 DEF ValueOf, NumberAttrs
  <2>2. w = <<ToString(v)>>
    BY <1>1, <1>3 DEF AddToMap, NumberAttrs
  <2> DEFINE least ==
               IF k \in {"maxRetryCountClient", "maxRowPerPage"} THEN 0 ELSE 1
  <2>3. /\ v >= least /\ least \in {0, 1}
        /\ v \in 0..(UintMax + 1) /\ v \in least..UintMax
    BY <1>3, <2>1, IntMaxAssumption DEF Plain, UintMax
  <2>4. HandleAttributePair(r, k, w) = HandleNumber(r, k, w, least)
    <3> HIDE DEF w
    <3> QED
      BY <1>3, HandlerOf DEF NumberAttrs
  <2>5. /\ ToString(v) \in STRING /\ ToString(v) # OpenBrace
        /\ ToString(v) # TooManyDigits[1]
    <3>1. v \in -(IntMax + 1)..(UintMax + 1)
      BY <2>1, IntMaxAssumption DEF UintMax
    <3> QED
      BY <3>1, NumeralsAssumption
  <2>6. ToString(v) \in Token
    BY <2>5 DEF Token
  <2>7. w \in Seq(Token) /\ w # <<>> /\ Unbraced(w) = w
    BY <1>2, <2>2, <2>5, <2>6
  <2>8. AllDigits(w) /\ w # TooManyDigits
    <3>1. AllDigits(w)
      BY <2>2, <2>3 DEF AllDigits, Numerals
    <3>2. w[1] = ToString(v)
      BY <2>2
    <3> HIDE DEF w
    <3> QED
      BY <2>5, <3>1, <3>2
  <2>9. NumberOf(w) = v
    <3>1. NumberOf(w) = CHOOSE n \in 0..(UintMax + 1) : w = <<ToString(n)>>
      BY <2>8 DEF NumberOf
    <3>2. ASSUME NEW n \in 0..(UintMax + 1), w = <<ToString(n)>> PROVE n = v
      <4>1. ToString(n) = ToString(v)
        <5>1. <<ToString(n)>>[1] = <<ToString(v)>>[1]
          BY <2>2, <3>2
        <5> QED
          BY <5>1
      <4>2. n \in -(IntMax + 1)..(UintMax + 1) /\ v \in -(IntMax + 1)..(UintMax + 1)
        BY <2>3, IntMaxAssumption DEF UintMax
      <4> QED
        BY <4>1, <4>2, NumeralsAssumption
    <3> HIDE DEF w
    <3> QED
      BY <2>2, <2>3, <3>1, <3>2, Zenon
  <2>10. ToInt32(v) = v
    <3>1. v \in Int /\ ~(v > IntMax)
      BY <2>1, IntMaxAssumption
    <3> HIDE DEF w, least
    <3> QED
      BY <3>1 DEF ToInt32
  <2> HIDE DEF w, least
  <2>11. HandleNumber(r, k, w, least) = With(r, k, v)
    BY <2>3, <2>7, <2>8, <2>9, <2>10 DEF HandleNumber
  <2>12. HandleAttributePair(r, k, w).cfg[k] = c[k]
    BY <2>4, <2>11, WithOK
  <2> QED
    BY <2>7, <2>12 DEF w
<1>4. CASE k = "authType"
  <2>1. v \in AuthTypes /\ w = <<v>>
    BY <1>1, <1>4 DEF ValueOf, NumberAttrs, AddToMap, AuthToString
  <2>2. v \in Token /\ v # OpenBrace
    <3>1. v \in Token
      BY <2>1 DEF Token
    <3> QED
      BY <2>1, <3>1, Zenon DEF AuthTypes, OpenBrace
  <2>3. w \in Seq(Token) /\ w # <<>> /\ Unbraced(w) = w
    BY <1>2, <2>1, <2>2
  <2> HIDE DEF w
  <2>4. Trim(w) = <<v>> /\ AuthFromString(w) = v
    BY <2>1, AuthReadsBack
  <2>5. HandleAuthType(r, w) = With(r, k, v)
    BY <1>4, <2>4 DEF HandleAuthType
  <2>6. HandleAttributePair(r, k, w).cfg[k] = c[k]
    BY <1>4, <2>5, WithOK, HandlerOf
  <2> QED
    BY <2>3, <2>6 DEF w
<1>5. CASE k = "logLevel"
  <2>1. v \in LevelNames /\ w = LevelToString(v)
    BY <1>1, <1>5 DEF ValueOf, NumberAttrs, AddToMap
  <2>2. PICK t \in DOMAIN Levels : w = <<t>> /\ Levels[t] = v
    BY <2>1, LevelToStringOK
  <2>3. t \in Token /\ t # OpenBrace
    <3>1. t \in Token
      BY DEF Token
    <3>2. t \in {"0", "1", "2", "3", "4"}
      BY DEF Levels
    <3> QED
      BY <3>1, <3>2, Zenon DEF OpenBrace
  <2>4. w \in Seq(Token) /\ w # <<>> /\ Unbraced(w) = w
    BY <1>2, <2>2, <2>3
  <2> HIDE DEF w
  <2>5. LevelFromString(w, "UNKNOWN") = v
    BY <2>2, LevelReadsBack
  <2>6. v # "UNKNOWN"
    BY <2>1 DEF LevelNames
  <2>7. HandleLogLevel(r, w) = SetLogLevel(r, v)
    BY <2>5, <2>6 DEF HandleLogLevel
  <2>8. HandleAttributePair(r, k, w).cfg = With(r, k, v).cfg
    BY <1>5, <2>1, <2>7, SetLogOK, HandlerOf
  <2>9. HandleAttributePair(r, k, w).cfg[k] = c[k]
    BY <2>8, WithOK
  <2> QED
    BY <2>4, <2>9 DEF w
<1>6. CASE k = "logPath"
  <2>1. v \in Directories /\ w = v
    BY <1>1, <1>6 DEF ValueOf, NumberAttrs, AddToMap
  <2>2. v \in Seq(Token)
    BY <2>1, DirectoriesAssumption, StringsAreTexts
  <2>3. v # <<>> /\ (Contains(v, Blank) \/ Unbraced(v) = v)
    BY <1>6 DEF Plain, NumberAttrs
  <2> HIDE DEF w
  <2>4. HandleAttributePair(r, k, w).cfg = With(r, k, v).cfg
    BY <1>6, <2>1, SetLogOK, HandlerOf
  <2>5. HandleAttributePair(r, k, w).cfg[k] = c[k]
    BY <2>4, WithOK
  <2> QED
    BY <2>1, <2>2, <2>3, <2>5 DEF w
<1>7. CASE k \in GuardedAttrs \cup PlainAttrs
  <2>1. k \notin NumberAttrs \cup {"authType", "logLevel", "logPath"}
    BY <1>7 DEF GuardedAttrs, PlainAttrs, UserAttrs, IdPAttrs, NumberAttrs
  <2>2. v \in Seq(Token) /\ w = v
    BY <1>1, <2>1 DEF ValueOf, AddToMap
  <2>3. v # <<>> /\ (Contains(v, Blank) \/ Unbraced(v) = v)
    BY <2>1 DEF Plain
  <2> HIDE DEF w
  <2>4. StateOK(Warn(r))
    BY WarnOK
  <2>5. With(r, k, v).cfg[k] = c[k] /\ With(Warn(r), k, v).cfg[k] = c[k]
    BY <2>4, WithOK
  <2>6. HandleAttributePair(r, k, w).cfg[k] = c[k]
    BY <1>7, <2>2, <2>5, HandlerOf DEF HandleGuarded
  <2> QED
    BY <2>2, <2>3, <2>6 DEF w
<1> QED
  BY <1>3, <1>4, <1>5, <1>6, <1>7 DEF Attrs

\* p is in s after position d.
Placed(p, s, d) ==
  /\ Len(p) \in Nat /\ Len(s) \in Nat /\ d \in Nat /\ d + Len(p) =< Len(s)
  /\ \A i \in 1..Len(p) : s[d + i] = p[i]

\* A text s that begins with u \o p.
LEMMA Begins ==
  ASSUME NEW u \in Seq(Token), NEW p \in Seq(Token), NEW s \in Seq(Token),
         NEW w, w = u \o p, Len(w) =< Len(s), \A i \in 1..Len(w) : s[i] = w[i]
  PROVE  Placed(u, s, 0) /\ Placed(p, s, Len(u))
<1>1. Len(u) \in Nat /\ Len(p) \in Nat /\ Len(s) \in Nat
  BY LenProperties
<1>2. /\ Len(w) = Len(u) + Len(p)
      /\ \A i \in 1..Len(u) : w[i] = u[i]
      /\ \A i \in 1..Len(p) : w[Len(u) + i] = p[i]
  BY Appended
<1>3. ASSUME NEW i \in 1..Len(u) PROVE s[0 + i] = u[i]
  <2>1. i \in 1..Len(w) /\ 0 + i = i
    BY <1>1, <1>2
  <2> QED
    BY <1>2, <2>1
<1>4. ASSUME NEW i \in 1..Len(p) PROVE s[Len(u) + i] = p[i]
  <2>1. Len(u) + i \in 1..Len(w)
    BY <1>1, <1>2
  <2> QED
    BY <1>2, <2>1
<1> QED
  BY <1>1, <1>2, <1>3, <1>4 DEF Placed

\* The piece of the j-th key of m starts after position d of s.
Starts(m, j, s, d) ==
  /\ s \in Seq(Token)
  /\ Placed(Piece(m, AttrOrder[j]), s, d)
  /\ d < Len(s) /\ s[d + 1] = AttrOrder[j]
  /\ d = 0 \/ s[d] = Separator

LEMMA PieceAt ==
  ASSUME NEW m, MapOK(m), NEW n \in Nat, NEW f, Writing(m, f, n),
         NEW j \in 1..n, Piece(m, AttrOrder[j]) # <<>>
  PROVE  Starts(m, j, f[n], Len(f[j - 1]))
<1> DEFINE p == Piece(m, AttrOrder[j])
           s == f[n]
           u == f[j - 1]
           w == f[j]
<1>1. w = u \o p
  BY WritingStep
<1>2. Laid(f, j - 1) /\ Laid(f, n)
  <2>1. j - 1 \in 0..n /\ n \in 0..n
    OBVIOUS
  <2> QED
    BY <2>1, LaidOut
<1>3. p \in Seq(Token) /\ Len(p) \in Nat /\ Len(p) >= 3
  BY PieceEnds
<1>4. u \in Seq(Token) /\ s \in Seq(Token)
  BY <1>2, Zenon DEF Laid
<1>5. j \in 0..n
  OBVIOUS
<1>6. Len(w) =< Len(s) /\ \A i \in 1..Len(w) : s[i] = w[i]
  BY <1>2, <1>5, Zenon DEF Laid
<1>7. p[1] = AttrOrder[j]
  BY PieceIs
<1>8. Len(u) # 0 => u[Len(u)] = Separator
  BY <1>2, Zenon DEF Laid
<1> HIDE DEF p, s, u, w
<1>9. Placed(u, s, 0) /\ Placed(p, s, Len(u))
  BY <1>1, <1>3, <1>4, <1>6, Begins
<1>10. Len(u) < Len(s) /\ s[Len(u) + 1] = AttrOrder[j]
  BY <1>3, <1>7, <1>9 DEF Placed
<1>11. Len(u) = 0 \/ s[Len(u)] = Separator
  <2> SUFFICES ASSUME Len(u) # 0 PROVE s[Len(u)] = Separator
    OBVIOUS
  <2>1. Len(u) \in 1..Len(u) /\ 0 + Len(u) = Len(u)
    BY <1>9 DEF Placed
  <2> QED
    BY <1>8, <1>9, <2>1 DEF Placed
<1>12. s \in Seq(Token) /\ Placed(p, s, Len(u))
  BY <1>4, <1>9
<1> QED
  BY <1>10, <1>11, <1>12 DEF Starts, p, s, u

\* The start of the text, and what follows a ";" in it, is the start of a piece.
LEMMA PieceStarts ==
  ASSUME NEW m, MapOK(m), NEW n \in Nat, NEW f, Writing(m, f, n),
         NEW d \in Nat, d < Len(f[n]), d = 0 \/ f[n][d] = Separator
  PROVE  \E j \in 1..n : Piece(m, AttrOrder[j]) # <<>> /\ Len(f[j - 1]) = d
<1>1. \A j \in 0..n : Laid(f, j)
  BY LaidOut
<1>2. /\ f[0] = <<>>
      /\ \A j \in 1..n : f[j] = f[j - 1] \o Piece(m, AttrOrder[j])
  BY WritingStep
<1>3. \A j \in 0..n : \A i \in 0..j : Len(f[i]) \in Nat /\ Len(f[i]) =< Len(f[j])
  BY <1>1, Zenon DEF Laid
<1>4. \A j \in 0..n : f[j] \in Seq(Token) /\ Len(f[j]) \in Nat
  <2>1. \A j \in 0..n : f[j] \in Seq(Token)
    BY <1>1, Zenon DEF Laid
  <2> QED
    BY <2>1, LenProperties
<1>5. 0 \in 0..n /\ n \in 0..n /\ Len(f[0]) = 0
  BY <1>2
<1>6. PICK i \in 0..n : Len(f[i]) = d
  <2>1. CASE d = 0
    BY <1>5, <2>1
  <2>2. CASE d # 0
    <3>1. d \in 1..Len(f[n])
      BY <1>4, <1>5, <2>2
    <3> QED
      BY <1>1, <1>5, <2>2, <3>1, Zenon DEF Laid
  <2> QED
    BY <2>1, <2>2
<1> DEFINE Past == {j \in Nat : j =< n /\ Len(f[j]) > d}
<1>7. n \in Past
  BY <1>4, <1>5
<1>8. PICK j \in Past : \A q \in Past : j =< q
  BY <1>7, Smallest
<1>9. j \in 1..n /\ j - 1 \in 0..n
  <2>1. j # 0
    BY <1>5, <1>8
  <2> QED
    BY <1>8, <2>1
<1>10. Len(f[j]) > d /\ ~(Len(f[j - 1]) > d)
  <2>1. ~(j =< j - 1) /\ j - 1 \in Nat /\ j - 1 =< n
    BY <1>9
  <2>2. j - 1 \notin Past
    BY <1>8, <2>1
  <2> QED
    BY <1>8, <2>1, <2>2
<1> HIDE DEF Past
<1>11. i =< j - 1
  <2> SUFFICES ASSUME ~(i =< j - 1) PROVE FALSE
    OBVIOUS
  <2>1. j \in 0..i
    BY <1>9
  <2>2. Len(f[j]) =< Len(f[i]) /\ Len(f[j]) \in Nat
    BY <1>3, <2>1
  <2> QED
    BY <1>6, <1>10, <2>2
<1>12. Len(f[j - 1]) = d
  <2>1. i \in 0..(j - 1)
    BY <1>9, <1>11
  <2>2. Len(f[i]) =< Len(f[j - 1]) /\ Len(f[j - 1]) \in Nat
    BY <1>3, <1>4, <1>9, <2>1
  <2> QED
    BY <1>6, <1>10, <2>2
<1>13. Piece(m, AttrOrder[j]) # <<>>
  <2> SUFFICES ASSUME Piece(m, AttrOrder[j]) = <<>> PROVE FALSE
    OBVIOUS
  <2>1. f[j] = f[j - 1] \o <<>>
    BY <1>2, <1>9
  <2>2. f[j - 1] \in Seq(Token) /\ <<>> \in Seq(Token) /\ Len(<<>>) = 0
    BY <1>4, <1>9
  <2>3. Len(f[j]) = Len(f[j - 1]) + 0
    BY <2>1, <2>2, Appended
  <2> QED
    BY <1>10, <1>12, <2>3
<1> QED
  BY <1>9, <1>12, <1>13

\* The j-th piece is read as its key with the value that was written.
LEMMA PieceRead ==
  ASSUME NEW m, MapOK(m), NEW j, Piece(m, AttrOrder[j]) # <<>>,
         NEW s, NEW d, Starts(m, j, s, d), NEW r
  PROVE  HandleAt(r, s, d, Separator)
           = HandleAttributePair(r, AttrOrder[j],
                                 Unbraced(Trim(Braced(m[AttrOrder[j]]))))
<1> DEFINE p == Piece(m, AttrOrder[j])
<1>1. p = Piece(m, AttrOrder[j]) /\ p # <<>>
  OBVIOUS
<1> HIDE DEF p
<1>2. /\ s \in Seq(Token) /\ d \in Nat /\ d + Len(p) =< Len(s)
      /\ \A i \in 1..Len(p) : s[d + i] = p[i]
  BY <1>1, Zenon DEF Starts, Placed
<1>3. d = 0 \/ s[d] = Separator
  BY Zenon DEF Starts
<1>4. HandleAt(r, s, d, Separator)
        = HandlePiece(r, s, d, PieceEnd(s, d, Separator))
  BY <1>3, Zenon DEF HandleAt
<1>5. HandlePiece(r, s, d, PieceEnd(s, d, Separator))
        = HandleAttributePair(r, AttrOrder[j],
                              Unbraced(Trim(Braced(m[AttrOrder[j]]))))
  BY <1>1, <1>2, PieceHandled
<1> QED
  BY <1>4, <1>5

\* A plain setting is read from its piece, and no other setting is lost there.
LEMMA PieceSets ==
  ASSUME NEW c, ConfigOK(c), NEW m, m = ToMap(c), MapOK(m),
         NEW k, Piece(m, k) # <<>>, NEW r, StateOK(r),
         NEW q, q = HandleAttributePair(r, k, Unbraced(Trim(Braced(m[k]))))
  PROVE  /\ Plain(k, Get(c, k)) => q.cfg[k] = c[k]
         /\ \A a \in Attrs : a # k => q.cfg[a] = r.cfg[a]
<1>1. k \in DOMAIN m /\ m[k] # <<>>
  BY Zenon DEF Piece
<1>2. k \in Attrs /\ Word(m[k])
  BY <1>1 DEF MapOK
<1>3. PICK v \in ValueOf(k) : c[k] = Held(v)
  BY <1>1, <1>2, ToMapIs
<1>4. m[k] = AddToMap(c, k) /\ Get(c, k) = v
  <2>1. m[k] = AddToMap(c, k)
    BY <1>1, ToMapIs
  <2> QED
    BY <1>3, <2>1 DEF Get, Held
<1>5. ASSUME Plain(k, Get(c, k)) PROVE q.cfg[k] = c[k]
  <2>1. /\ m[k] \in Seq(Token) /\ m[k] # <<>>
        /\ Contains(m[k], Blank) \/ Unbraced(m[k]) = m[k]
        /\ HandleAttributePair(r, k, m[k]).cfg[k] = c[k]
    BY <1>2, <1>3, <1>4, <1>5, HandleWrites
  <2>2. Unbraced(Trim(Braced(m[k]))) = m[k]
    BY <2>1, BracesComeOff
  <2> QED
    BY <2>1, <2>2
<1>6. Sets(r, k, q)
  <2>1. Braced(m[k]) \in Seq(Token)
    BY <1>2, BracedOK, Zenon DEF Word
  <2>2. Unbraced(Trim(Braced(m[k]))) \in Seq(Token)
    BY <2>1, TrimOK, UnbracedOK
  <2> QED
    BY <2>2, HandleAttributePairSets
<1>7. \A a \in Attrs : a # k => q.cfg[a] = r.cfg[a]
  BY <1>6, Zenon DEF Sets
<1> QED
  BY <1>5, <1>7

\* Read from the right, each piece gives back its setting, and keeps those of
\* the pieces behind it.
LEMMA ParsedBack ==
  ASSUME NEW c, ConfigOK(c), MapOK(ToMap(c)),
         NEW f, Writing(ToMap(c), f, Len(AttrOrder)), NEW r, StateOK(r),
         NEW g, Parsing(r, f[Len(AttrOrder)], Separator, g,
                        Len(f[Len(AttrOrder)]) + 1)
  PROVE  \A j \in 1..Len(AttrOrder) :
           /\ Piece(ToMap(c), AttrOrder[j]) # <<>>
           /\ Plain(AttrOrder[j], Get(c, AttrOrder[j]))
           => g[Len(f[Len(AttrOrder)]) + 1].cfg[AttrOrder[j]] = c[AttrOrder[j]]
<1> DEFINE m == ToMap(c)
           n == Len(AttrOrder)
           s == f[n]
<1>1. n \in Nat /\ \A j \in 1..n : AttrOrder[j] \in Attrs
  BY OrderOK
<1>2. /\ m = ToMap(c) /\ s = f[n] /\ MapOK(m) /\ Writing(m, f, n)
      /\ Parsing(r, s, Separator, g, Len(s) + 1)
  OBVIOUS
<1> HIDE DEF m, n, s
<1>3. ASSUME NEW j \in 1..n, Piece(m, AttrOrder[j]) # <<>>
      PROVE  Starts(m, j, s, Len(f[j - 1]))
  BY <1>1, <1>2, <1>3, PieceAt
<1>4. ASSUME NEW d \in Nat, d < Len(s), d = 0 \/ s[d] = Separator
      PROVE  \E j \in 1..n : Piece(m, AttrOrder[j]) # <<>> /\ Len(f[j - 1]) = d
  BY <1>1, <1>2, <1>4, PieceStarts
<1>5. s \in Seq(Token) /\ Len(s) \in Nat
  <2>1. n \in 0..n
    BY <1>1
  <2>2. s \in Seq(Token)
    BY <1>1, <1>2, <2>1, LaidOut, Zenon DEF Laid
  <2> QED
    BY <2>2, LenProperties
<1>6. \A i \in 0..(Len(s) + 1) : StateOK(g[i])
  BY <1>2, <1>5, ParsingOK
<1>7. \A i \in 1..(Len(s) + 1) :
        g[i] = HandleAt(g[i - 1], s, Len(s) + 1 - i, Separator)
  <2> DEFINE l == Len(s) + 1
  <2>1. l \in Nat /\ Parsing(r, s, Separator, g, l)
    BY <1>2, <1>5
  <2> HIDE DEF l
  <2>2. \A i \in 1..l : g[i] = HandleAt(g[i - 1], s, Len(s) + 1 - i, Separator)
    BY <2>1, ParsingStep
  <2> QED
    BY <2>2 DEF l
<1> DEFINE Sure(j) == /\ Piece(m, AttrOrder[j]) # <<>>
                      /\ Plain(AttrOrder[j], Get(c, AttrOrder[j]))
           Lost(i) == \E j \in 1..n :
                        /\ Sure(j) /\ Len(f[j - 1]) >= Len(s) + 1 - i
                        /\ g[i].cfg[AttrOrder[j]] # c[AttrOrder[j]]
           Bad == {i \in Nat : i =< Len(s) + 1 /\ Lost(i)}
<1>8. Bad = {}
  <2> SUFFICES ASSUME Bad # {} PROVE FALSE
    OBVIOUS
  <2>1. PICK i \in Bad : \A q \in Bad : i =< q
    BY Smallest
  <2>2. i \in Nat /\ i =< Len(s) + 1 /\ Lost(i)
    BY <2>1
  <2>3. PICK j \in 1..n :
          /\ Sure(j) /\ Len(f[j - 1]) >= Len(s) + 1 - i
          /\ g[i].cfg[AttrOrder[j]] # c[AttrOrder[j]]
    BY <2>2
  <2> DEFINE k == AttrOrder[j]
             e == Len(f[j - 1])
             d == Len(s) + 1 - i
  <2>4. Starts(m, j, s, e) /\ k \in Attrs /\ e >= d
    BY <1>1, <1>3, <2>3
  <2>5. ASSUME i - 1 \in Nat, e >= Len(s) + 1 - (i - 1)
        PROVE  g[i - 1].cfg[k] = c[k]
    <3>1. i - 1 =< Len(s) + 1 /\ ~(i =< i - 1)
      BY <1>5, <2>2
    <3>2. ~Lost(i - 1)
      BY <2>1, <2>5, <3>1
    <3> HIDE DEF Sure
    <3> QED
      BY <2>3, <2>5, <3>2
  <2>6. i \in Nat /\ i =< Len(s) + 1
    BY <2>2
  <2>7. g[i].cfg[k] # c[k] /\ Plain(k, Get(c, k))
    BY <2>3
  <2> HIDE DEF Bad, Lost, Sure, k, e
  <2>8. e \in Nat /\ e < Len(s) /\ s[e + 1] = k /\ (e = 0 \/ s[e] = Separator)
    <3>1. e \in Nat
      BY <2>4, Zenon DEF Starts, Placed
    <3>2. e < Len(s) /\ s[e + 1] = k /\ (e = 0 \/ s[e] = Separator)
      BY <2>4, Zenon DEF Starts, k
    <3> QED
      BY <3>1, <3>2
  <2>9. /\ i \in 1..(Len(s) + 1) /\ i - 1 \in Nat /\ i - 1 \in 0..(Len(s) + 1)
        /\ d \in Nat /\ d < Len(s)
    BY <1>5, <2>4, <2>6, <2>8
  <2>10. e # d => e >= Len(s) + 1 - (i - 1)
    BY <1>5, <2>4, <2>6, <2>8
  <2>11. g[i] = HandleAt(g[i - 1], s, d, Separator) /\ StateOK(g[i - 1])
    BY <1>6, <1>7, <2>9
  <2> HIDE DEF d
  <2>12. CASE d = 0 \/ s[d] = Separator
    <3>1. PICK b \in 1..n : Piece(m, AttrOrder[b]) # <<>> /\ Len(f[b - 1]) = d
      BY <1>4, <2>9, <2>12
    <3>2. Starts(m, b, s, d)
      BY <1>3, <3>1
    <3>3. g[i] = HandleAttributePair(g[i - 1], AttrOrder[b],
                                     Unbraced(Trim(Braced(m[AttrOrder[b]]))))
      BY <1>2, <2>11, <3>1, <3>2, PieceRead
    <3>4. /\ Plain(AttrOrder[b], Get(c, AttrOrder[b]))
               => g[i].cfg[AttrOrder[b]] = c[AttrOrder[b]]
          /\ \A a \in Attrs : a # AttrOrder[b] => g[i].cfg[a] = g[i - 1].cfg[a]
      BY <1>2, <2>11, <3>1, <3>3, PieceSets
    <3>5. AttrOrder[b] # k
      BY <2>7, <3>4
    <3>6. s[d + 1] = AttrOrder[b]
      BY <3>2, Zenon DEF Starts
    <3>7. e # d
      BY <2>8, <3>5, <3>6
    <3>8. g[i - 1].cfg[k] = c[k]
      BY <2>5, <2>9, <2>10, <3>7
    <3> QED
      BY <2>4, <2>7, <3>4, <3>5, <3>8
  <2>13. CASE d # 0 /\ s[d] # Separator
    <3>1. g[i] = g[i - 1]
      BY <2>11, <2>13, Zenon DEF HandleAt
    <3>2. e # d
      BY <2>8, <2>13
    <3> QED
      BY <2>5, <2>7, <2>9, <2>10, <3>1, <3>2
  <2> QED
    BY <2>12, <2>13
<1>9. ASSUME NEW j \in 1..n, Sure(j)
      PROVE  g[Len(s) + 1].cfg[AttrOrder[j]] = c[AttrOrder[j]]
  <2>1. Len(f[j - 1]) >= Len(s) + 1 - (Len(s) + 1)
    <3>1. Len(f[j - 1]) \in Nat
      BY <1>3, <1>9, Zenon DEF Starts, Placed
    <3> QED
      BY <1>5, <3>1
  <2>2. ~Lost(Len(s) + 1)
    BY <1>5, <1>8
  <2> HIDE DEF Sure
  <2> QED
    BY <1>9, <2>1, <2>2
<1> QED
  BY <1>9 DEF m, n, s

\* The values of an attribute are written as texts.
LEMMA TextsAreTexts ==
  ASSUME NEW k \in Attrs
  PROVE  TextsOf(k) \subseteq Seq(Token)
<1>1. CASE k \in NumberAttrs
  <2> SUFFICES ASSUME NEW w \in TextsOf(k) PROVE w \in Seq(Token)
    OBVIOUS
  <2>1. PICK v \in -(IntMax + 1)..IntMax : w = <<ToString(v)>>
    BY <1>1 DEF TextsOf, NumberAttrs
  <2>2. v \in -(IntMax + 1)..(UintMax + 1)
    BY IntMaxAssumption DEF UintMax
  <2>3. ToString(v) \in Token
    BY <2>2, NumeralsAssumption DEF Token
  <2> HIDE DEF Token
  <2> QED
    BY <2>1, <2>3
<1>2. CASE k = "authType"
  <2>1. TextsOf(k) = {<<a>> : a \in AuthTypes}
    BY <1>2 DEF TextsOf, NumberAttrs
  <2>2. AuthTypes \subseteq Token
    BY DEF Token
  <2> HIDE DEF Token
  <2> QED
    BY <2>1, <2>2
<1>3. CASE k = "logLevel"
  <2>1. TextsOf(k) = {<<a>> : a \in DOMAIN Levels}
    BY <1>3 DEF TextsOf, NumberAttrs
  <2>2. DOMAIN Levels \subseteq Token
    BY DEF Token
  <2> HIDE DEF Token
  <2> QED
    BY <2>1, <2>2
<1>4. CASE k = "logPath"
  <2>1. TextsOf(k) = Directories
    BY <1>4 DEF TextsOf, NumberAttrs
  <2> QED
    BY <2>1, DirectoriesAssumption, StringsAreTexts
<1>5. CASE k \notin NumberAttrs \cup {"authType", "logLevel", "logPath"}
  BY <1>5 DEF TextsOf, NumberAttrs
<1> QED
  BY <1>1, <1>2, <1>3, <1>4, <1>5

LEMMA RoundTrip ==
  ASSUME IInv
  PROVE  ConnectStringRoundTrip
<1> DEFINE r == [cfg |-> NewConfiguration, warned |-> FALSE, log |-> log]
           m == ToMap(config)
           n == Len(AttrOrder)
           s == ToConnectString(config)
<1> SUFFICES ASSUME Undivided(config), NEW k \in Attrs, config[k].set,
                    Plain(k, Get(config, k))
             PROVE  ParseConnectionString(r, s, Separator).cfg[k] = config[k]
  BY Zenon DEF ConnectStringRoundTrip
<1>1. StateOK(r) /\ ConfigOK(config) /\ n \in Nat
  BY NewState, OrderOK DEF IInv
<1>2. MapOK(m)
  <2> SUFFICES ASSUME NEW a \in DOMAIN m PROVE a \in Attrs /\ Word(m[a])
    BY Zenon DEF MapOK
  <2>1. /\ a \in Attrs /\ m[a] = AddToMap(config, a)
        /\ \E v \in ValueOf(a) : config[a] = Held(v)
    BY <1>1, ToMapIs
  <2>2. m[a] \in Seq(Token)
    BY <2>1, AddToMapOK, TextsAreTexts
  <2> QED
    BY <2>1, <2>2, Zenon DEF Undivided, Word
<1>3. PICK f : Writing(m, f, n) /\ s = f[n]
  BY WriteIsWriting
<1>4. m = ToMap(config) /\ n = Len(AttrOrder)
  OBVIOUS
<1> HIDE DEF r, m, n, s
<1>5. s \in Seq(Token)
  <2>1. n \in 0..n
    BY <1>1
  <2> QED
    BY <1>1, <1>2, <1>3, <2>1, LaidOut, Zenon DEF Laid
<1>6. PICK g : /\ Parsing(r, s, Separator, g, Len(s) + 1)
               /\ ParseConnectionString(r, s, Separator) = g[Len(s) + 1]
  BY <1>5, ParseIsParsing
<1>7. PICK j \in 1..n : AttrOrder[j] = k
  BY OrderOK DEF n
<1>8. Piece(m, k) # <<>>
  <2>1. PICK v \in ValueOf(k) : config[k] = Held(v)
    BY <1>1, SetIsHeld
  <2>2. Get(config, k) = v
    BY <2>1 DEF Get, Held
  <2>3. AddToMap(config, k) # <<>>
    BY <1>1, <2>1, <2>2, HandleWrites
  <2>4. k \in DOMAIN m /\ m[k] # <<>>
    BY <1>1, <1>4, <2>1, <2>3, ToMapIs
  <2>5. Piece(m, k) = <<k, Equals>> \o Braced(m[k]) \o <<Separator>>
    BY <2>4, Zenon DEF Piece
  <2>6. Braced(m[k]) \in Seq(Token)
    BY <1>2, <2>4, BracedOK, Zenon DEF MapOK, Word
  <2>7. k \in Token /\ Equals \in Token /\ Separator \in Token
    BY DEF Token
  <2>8. Len(Piece(m, k)) = Len(Braced(m[k])) + 3 /\ Len(Braced(m[k])) \in Nat
    BY <2>5, <2>6, <2>7, AroundPair, LenProperties
  <2> QED
    BY <2>8
<1>9. g[Len(s) + 1].cfg[k] = config[k]
  <2>1. /\ Piece(ToMap(config), AttrOrder[j]) # <<>>
        /\ Plain(AttrOrder[j], Get(config, AttrOrder[j]))
    BY <1>4, <1>7, <1>8
  <2>2. g[Len(f[Len(AttrOrder)]) + 1].cfg[AttrOrder[j]] = config[AttrOrder[j]]
    BY <1>1, <1>2, <1>3, <1>6, <2>1, ParsedBack DEF m, n
  <2> QED
    BY <1>3, <1>7, <2>2 DEF n
<1> QED
  BY <1>6, <1>9

\* Settings survive wherever they are carried: back from the connection string
\* that a configuration is written as, over the DSN that a connection string
\* names, and back from the section that RegisterDsn wrote.
THEOREM SettingsAlwaysSurvive == Spec => []SettingsSurvive
<1>1. Init => IInv
  BY InitIInv
<1>2. IInv /\ [Next]_vars => IInv'
  BY NextKeeps
<1>3. IInv => SettingsSurvive
  BY ReadsBack, StringWins, RoundTrip DEF SettingsSurvive
<1> QED
  BY <1>1, <1>2, <1>3, PTL DEF Spec
=============================================================================
