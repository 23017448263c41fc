--------------------------- MODULE Configuration ---------------------------
(***************************************************************************)
(* The settings of a connection: config::Configuration, the parser of      *)
(* connection strings and of DSN attribute lists, and the DSN entries of   *)
(* the operating system's ODBC.INI.                                        *)
(*                                                                         *)
(* A text is a sequence of tokens (words, blanks, and the delimiters the   *)
(* parser looks for), and upper and lower case are one.  A number is read  *)
(* into 32 bits; IntMax stands for INT32_MAX, so that a small instance     *)
(* reaches both edges of the range.                                        *)
(***************************************************************************)
EXTENDS Integers, Sequences, FiniteSets, SequencesExt

CONSTANTS
  IntMax,       \* INT32_MAX
  Directories   \* the texts that name an existing directory

ASSUME IntMaxAssumption == IntMax \in Nat \ {0}
ASSUME DirectoriesAssumption == Directories \subseteq Seq(STRING)

\* The largest number the parser accepts, UINT32_MAX.
UintMax == 2 * IntMax + 1

\* The tokens the parser tells from words.
Blank == " "
Separator == ";"
Equals == "="
OpenBrace == "{"
CloseBrace == "}"

-----------------------------------------------------------------------------
(* Attributes, and what a configuration holds of each: a value, and whether *)
(* it was set.                                                              *)

NumberAttrs == {"reqTimeout", "connectionTimeout", "maxRetryCountClient",
                "maxConnections", "maxRowPerPage"}

\* Attributes a second mention of which in a connection string is reported.
UserAttrs == {"uid", "pwd", "accessKeyId", "secretKey", "sessionToken"}
IdPAttrs == {"idPUserName", "idPPassword", "aadClientSecret"}
GuardedAttrs == UserAttrs \cup IdPAttrs

PlainAttrs == {"dsn", "driver", "profileName", "endpoint", "region", "idPHost",
               "idPArn", "oktaAppId", "roleArn", "aadAppId", "aadTenant"}

Attrs == NumberAttrs \cup GuardedAttrs \cup PlainAttrs
           \cup {"authType", "logLevel", "logPath"}

\* Default numbers keep their order and their relation to the bounds of the
\* range: the timeouts and the pool are positive, -1 is "no page limit".
DefaultValue(k) ==
  CASE k = "dsn" -> <<"Timestream", Blank, "DSN">>
    [] k = "driver" -> <<"Amazon", Blank, "Driver">>
    [] k = "region" -> <<"us-east-1">>
    [] k = "authType" -> "aws_profile"
    [] k = "logLevel" -> "WARNING"
    [] k = "logPath" -> <<"home">>
    [] k \in {"reqTimeout", "connectionTimeout", "maxConnections"} -> IntMax
    [] k = "maxRetryCountClient" -> 0
    [] k = "maxRowPerPage" -> -1
    [] OTHER -> <<>>

NewConfiguration == [k \in Attrs |-> [val |-> DefaultValue(k), set |-> FALSE]]

Get(c, k) == c[k].val

\* An empty profile name counts as unset.
IsSet(c, k) == c[k].set /\ (k = "profileName" => c[k].val # <<>>)

SetValue(c, k, v) == [c EXCEPT ![k] = [val |-> v, set |-> TRUE]]

GetDSNUserName(c) ==
  IF Get(c, "uid") # <<>> THEN Get(c, "uid")
  ELSE CASE Get(c, "authType") = "iam" -> Get(c, "accessKeyId")
         [] Get(c, "authType") \in {"okta", "aad"} -> Get(c, "idPUserName")
         [] OTHER -> Get(c, "uid")

GetDSNPassword(c) ==
  IF Get(c, "pwd") # <<>> THEN Get(c, "pwd")
  ELSE CASE Get(c, "authType") = "iam" -> Get(c, "secretKey")
         [] Get(c, "authType") \in {"okta", "aad"} -> Get(c, "idPPassword")
         [] OTHER -> Get(c, "pwd")

\* What each kind of authentication needs before it is tried.
Required(auth) ==
  CASE auth = "okta" -> {"idPHost", "idPArn", "roleArn", "oktaAppId"}
    [] auth = "aad" -> {"idPArn", "roleArn", "aadAppId", "aadTenant",
                        "aadClientSecret"}
    [] OTHER -> {}

Validate(c) ==
  LET auth == Get(c, "authType") IN
  auth \in {"okta", "aad", "iam"} =>
    /\ GetDSNUserName(c) # <<>> /\ GetDSNPassword(c) # <<>>
    /\ \A k \in Required(auth) : Get(c, k) # <<>>

-----------------------------------------------------------------------------
(* Texts.                                                                   *)

LastPos(s, n, t) == LET P == {i \in 1..n : s[i] = t}
                    IN IF P = {} THEN 0 ELSE Max(P)

\* Without its leading and trailing blanks.
Trim(s) ==
  LET W == {i \in DOMAIN s : s[i] # Blank}
  IN IF W = {} THEN <<>> ELSE SubSeq(s, Min(W), Max(W))

\* The texts of digits only that the model has: those of the numbers up to one
\* past the range, and one of more digits than any 64 bit number.
Numerals == {<<ToString(n)>> : n \in 0..(UintMax + 1)}
TooManyDigits == <<"99999999999999999999">>
AllDigits(v) == v \in Numerals \cup {TooManyDigits}
NumberOf(v) == IF v = TooManyDigits THEN UintMax + 1
               ELSE CHOOSE n \in 0..(UintMax + 1) : v = <<ToString(n)>>

\* Numbers are written as different words, none of which divides a text.
ASSUME NumeralsAssumption ==
  LET range == -(IntMax + 1)..(UintMax + 1) IN
  /\ \A n \in range :
       /\ ToString(n) \in STRING
       /\ ToString(n) \notin {Blank, Separator, Equals, OpenBrace, CloseBrace,
                               TooManyDigits[1]}
  /\ \A m, n \in range : ToString(m) = ToString(n) => m = n

\* static_cast<uint32_t>, then the int32_t parameter of the setter.
ToInt32(n) == IF n > IntMax THEN n - 2 * (IntMax + 1) ELSE n

Levels == [t \in {"0", "1", "2", "3", "4"} |->
             CASE t = "0" -> "OFF" [] t = "1" -> "ERROR" [] t = "2" -> "WARNING"
               [] t = "3" -> "INFO" [] t = "4" -> "DEBUG"]
LevelFromString(v, dflt) ==
  LET w == Trim(v) IN
  IF Len(w) = 1 /\ w[1] \in DOMAIN Levels THEN Levels[w[1]] ELSE dflt
LevelToString(l) == <<CHOOSE t \in DOMAIN Levels : Levels[t] = l>>

AuthTypes == {"aws_profile", "iam", "aad", "okta"}
AuthFromString(v) ==
  LET w == Trim(v) IN
  IF Len(w) = 1 /\ w[1] \in AuthTypes THEN w[1] ELSE "aws_profile"
AuthToString(a) == <<a>>

-----------------------------------------------------------------------------
(* The connection string parser.  A handler takes and returns               *)
(* [cfg, warned, log]: the configuration, whether a status record was added, *)
(* and the process-wide logger's level and path, which two setters change.   *)

Warn(r) == [r EXCEPT !.warned = TRUE]
With(r, k, v) == [r EXCEPT !.cfg = SetValue(@, k, v)]

SetLogLevel(r, level) == [With(r, "logLevel", level) EXCEPT !.log.level = level]

SetLogPath(r, path) ==
  IF path \in Directories
  THEN [With(r, "logPath", path) EXCEPT !.log.path = path]
  ELSE r

\* A number is taken if it is all digits and in least..UINT32_MAX; otherwise the
\* value the configuration already has is kept and a record is added.
HandleNumber(r, k, v, least) ==
  IF v # <<>> /\ AllDigits(v) /\ NumberOf(v) \in least..UintMax
  THEN With(r, k, ToInt32(NumberOf(v)))
  ELSE Warn(r)

HandleReqTimeout(r, v) == HandleNumber(r, "reqTimeout", v, 1)
HandleConnectionTimeout(r, v) == HandleNumber(r, "connectionTimeout", v, 1)
HandleMaxRetryCountClient(r, v) == HandleNumber(r, "maxRetryCountClient", v, 0)
HandleMaxConnections(r, v) == HandleNumber(r, "maxConnections", v, 1)
HandleMaxRowPerPage(r, v) == HandleNumber(r, "maxRowPerPage", v, 0)

\* An unknown kind of authentication leaves the configuration alone.
HandleAuthType(r, v) ==
  IF AuthFromString(v) = "aws_profile" /\ Trim(v) # <<"aws_profile">>
  THEN Warn(r)
  ELSE With(r, "authType", AuthFromString(v))

\* A second mention replaces the first, with a record.
HandleGuarded(r, k, v) ==
  With(IF Get(r.cfg, k) # <<>> THEN Warn(r) ELSE r, k, v)

HandleIdP(r, k, v) == HandleGuarded(r, k, v)

HandleLogLevel(r, v) ==
  IF LevelFromString(v, "UNKNOWN") = "UNKNOWN"
  THEN Warn(r)
  ELSE SetLogLevel(r, LevelFromString(v, "UNKNOWN"))

HandleAttributePair(r, k, v) ==
  CASE k = "reqTimeout" -> HandleReqTimeout(r, v)
    [] k = "connectionTimeout" -> HandleConnectionTimeout(r, v)
    [] k = "maxRetryCountClient" -> HandleMaxRetryCountClient(r, v)
    [] k = "maxConnections" -> HandleMaxConnections(r, v)
    [] k = "maxRowPerPage" -> HandleMaxRowPerPage(r, v)
    [] k = "authType" -> HandleAuthType(r, v)
    [] k = "logLevel" -> HandleLogLevel(r, v)
    [] k = "logPath" -> SetLogPath(r, v)
    [] k \in UserAttrs -> HandleGuarded(r, k, v)
    [] k \in IdPAttrs -> HandleIdP(r, k, v)
    [] k \in PlainAttrs -> With(r, k, v)
    [] OTHER -> Warn(r)

\* A value in braces loses them.
Unbraced(v) ==
  IF v # <<>> /\ Head(v) = OpenBrace /\ Last(v) = CloseBrace
  THEN SubSeq(v, 2, Len(v) - 1) ELSE v

\* The pair of the piece s[d + 1 .. n], split at the last "=".  A piece whose
\* last "=" is its first token, or that has none, is passed over.
HandlePiece(r, s, d, n) ==
  LET e == LastPos(s, n, Equals)
      key == Trim(SubSeq(s, d + 1, e - 1))
  IN IF d + 1 < e
     THEN HandleAttributePair(r, IF Len(key) = 1 THEN key[1] ELSE "unknown",
                              Unbraced(Trim(SubSeq(s, e + 1, n))))
     ELSE r

\* Where the piece after position d ends: before the next delimiter.
PieceEnd(s, d, delimiter) ==
  LET P == {i \in (d + 1)..Len(s) : s[i] = delimiter}
  IN IF P = {} THEN Len(s) ELSE Min(P) - 1

\* The loop comes to position d, a token or 0, the start of the text.
HandleAt(r, s, d, delimiter) ==
  IF d = 0 \/ s[d] = delimiter
  THEN HandlePiece(r, s, d, PieceEnd(s, d, delimiter)) ELSE r

\* The pieces are handled from the right: done[i] is what the last i positions
\* of the text make of r.
ParseConnectionString(r, s, delimiter) ==
  LET done[i \in 0..(Len(s) + 1)] ==
        IF i = 0 THEN r
        ELSE HandleAt(done[i - 1], s, Len(s) + 1 - i, delimiter)
  IN done[Len(s) + 1]

-----------------------------------------------------------------------------
(* The connection string of a configuration.                                *)

AddToMap(c, k) ==
  CASE k \in NumberAttrs -> <<ToString(Get(c, k))>>
    [] k = "authType" -> AuthToString(Get(c, k))
    [] k = "logLevel" -> LevelToString(Get(c, k))
    [] OTHER -> Get(c, k)

ToMap(c) == [k \in {a \in Attrs : c[a].set} |-> AddToMap(c, k)]

\* The order of the keys in a std::map.
AttrOrder ==
  <<"aadAppId", "aadClientSecret", "aadTenant", "accessKeyId", "authType",
    "connectionTimeout", "driver", "dsn", "endpoint", "idPArn", "idPHost",
    "idPPassword", "idPUserName", "logLevel", "logPath", "maxConnections",
    "maxRetryCountClient", "maxRowPerPage", "oktaAppId", "profileName", "pwd",
    "region", "reqTimeout", "roleArn", "secretKey", "sessionToken", "uid">>

\* Empty values are left out; a value with a blank in it gets braces.
Braced(v) ==
  IF Contains(v, Blank) THEN <<OpenBrace>> \o v \o <<CloseBrace>> ELSE v

Piece(map, k) ==
  IF k \in DOMAIN map /\ map[k] # <<>>
  THEN <<k, Equals>> \o Braced(map[k]) \o <<Separator>> ELSE <<>>

ToConnectString(c) ==
  LET text[j \in 0..Len(AttrOrder)] ==
        IF j = 0 THEN <<>> ELSE text[j - 1] \o Piece(ToMap(c), AttrOrder[j])
  IN text[Len(AttrOrder)]

-----------------------------------------------------------------------------
(* DSN entries: ini[d] is the section of DSN d, a function from the keys     *)
(* written to it to their texts.                                            *)

\* LexicalCast<int>: what is not a number reads as 0, one too large as
\* INT32_MAX.
ReadDsnInt(section, k) ==
  LET v == section[k]
      small == {n \in -(IntMax + 1)..IntMax : v = <<ToString(n)>>}
  IN IF small # {} THEN CHOOSE n \in small : TRUE
     ELSE IF AllDigits(v) THEN IntMax ELSE 0

\* Mutant: the section's setting is taken whether or not there is one.
ReadDsnStringAlways(c, section, k) ==
  IF k \in DOMAIN section THEN [val |-> section[k], set |-> TRUE] ELSE c[k]

\* A string setting of the section, unless the configuration has one.
ReadDsnString(c, section, k) ==
  IF k \in DOMAIN section /\ ~IsSet(c, k)
  THEN [val |-> section[k], set |-> TRUE] ELSE c[k]

ReadDsnStrings(r, section, K) ==
  [r EXCEPT !.cfg = [k \in DOMAIN @ |->
                       IF k \in K THEN ReadDsnString(@, section, k) ELSE @[k]]]

ReadDsnCredentials(r, section) ==
  ReadDsnStrings(r, section, UserAttrs \cup {"profileName"})

ReadDsnNumber(r, section, k) ==
  IF k \in DOMAIN section /\ ~IsSet(r.cfg, k)
  THEN With(r, k, ReadDsnInt(section, k)) ELSE r

\* The connection timeout is read, but is taken when the section has a REQUEST
\* timeout: 0 if the section has no connection timeout then.
ReadDsnConnectionTimeout(r, section) ==
  IF "reqTimeout" \in DOMAIN section /\ ~IsSet(r.cfg, "connectionTimeout")
  THEN With(r, "connectionTimeout",
            IF "connectionTimeout" \in DOMAIN section
            THEN ReadDsnInt(section, "connectionTimeout") ELSE 0)
  ELSE r

ReadDsnNumbers(r, section) ==
  LET timeouts == ReadDsnConnectionTimeout(
                    ReadDsnNumber(r, section, "reqTimeout"), section)
  IN ReadDsnNumber(ReadDsnNumber(timeouts, section, "maxRetryCountClient"),
                   section, "maxConnections")

ReadDsnIdentity(r, section) ==
  LET withAuth == IF "authType" \in DOMAIN section /\ ~IsSet(r.cfg, "authType")
                  THEN With(r, "authType", AuthFromString(section["authType"]))
                  ELSE r
  IN ReadDsnStrings(withAuth, section,
       {"endpoint", "region", "idPHost", "idPUserName", "idPPassword", "idPArn",
        "oktaAppId", "roleArn", "aadAppId", "aadClientSecret", "aadTenant"})

ReadDsnLogging(r, section) ==
  LET level == IF "logLevel" \in DOMAIN section /\ ~IsSet(r.cfg, "logLevel")
               THEN SetLogLevel(r, LevelFromString(section["logLevel"], "WARNING"))
               ELSE r
      path == IF "logPath" \in DOMAIN section /\ ~IsSet(level.cfg, "logPath")
              THEN SetLogPath(level, section["logPath"]) ELSE level
  IN ReadDsnNumber(path, section, "maxRowPerPage")

ReadDsnConfiguration(r, ini, dsn) ==
  LET section == IF dsn \in DOMAIN ini THEN ini[dsn] ELSE <<>> IN
  ReadDsnLogging(ReadDsnIdentity(ReadDsnNumbers(
    ReadDsnCredentials(r, section), section), section), section)

\* SQLWriteDSNToIni puts an empty section in place of the DSN's, which is then
\* written key by key; written is the set of keys written before the installer
\* failed, all of DsnKeys(c) if it did not.
RegisterDsn(ini, c, written) ==
  LET dsn == Get(c, "dsn")
  IN [d \in DOMAIN ini \cup {dsn} |->
        IF d = dsn THEN [k \in written |-> ToMap(c)[k]] ELSE ini[d]]

DsnKeys(c) == DOMAIN ToMap(c) \ {"dsn", "driver"}

UnregisterDsn(ini, dsn) == [d \in DOMAIN ini \ {dsn} |-> ini[d]]
=============================================================================
