----------------------------- MODULE Connection -----------------------------
(***************************************************************************)
(* A connection handle: connecting by a connection string or by a DSN,     *)
(* disconnecting, its attributes and options, the information it gives,    *)
(* and the DSN entries that the installer functions write meanwhile.       *)
(*                                                                         *)
(* A call clears the diagnostic records of the handle, runs, and leaves    *)
(* its return code in the header (IGNITE_ODBC_API_CALL): ret and records   *)
(* are the code and the SQLSTATEs of the last call on the handle, and out  *)
(* what it wrote to the caller's buffer.  The network, the identity        *)
(* provider, STS and the ODBC installer are external.                      *)
(***************************************************************************)
EXTENDS Authentication, DriverInfo

CONSTANTS
  ConnectStrings,   \* connection strings of the application
  DsnStrings,       \* attribute lists given to ConfigDSN
  Dsns,             \* DSN names given to SQLConnect
  Users,            \* user names given to SQLConnect
  Replies,          \* the answers of the services that are tried, of Answers
  MaxCalls          \* bound on the calls of a behaviour

ASSUME RepliesAssumption == Replies \subseteq Answers
ASSUME TextsAssumption ==
  ConnectStrings \cup DsnStrings \cup Dsns \cup Users \subseteq Seq(STRING)
ASSUME MaxCallsAssumption == MaxCalls \in Nat

VARIABLES
  config,       \* config_
  client,       \* queryClient_: the configuration it was made from, or NoClient
  provider,     \* whether samlCredProvider_ is held
  info,         \* the strings of info_ that change
  named,        \* history: how the application named the session's data source
  autoCommit,   \* autoCommit_
  metadataId,   \* metadataID_
  stmtAttr,     \* stmtAttr_, the attributes statements start with
  ret,          \* the return code of the last call
  records,      \* the SQLSTATEs it left
  out,          \* what it wrote to the caller's buffer
  ini,          \* the DSN sections of ODBC.INI
  log,          \* the process-wide logger's level and path
  calls         \* how many calls were made, up to MaxCalls

session == <<client, provider, info, named>>
attributes == <<autoCommit, metadataId, stmtAttr>>
vars == <<config, session, attributes, ret, records, out, ini, log,
          calls>>

NoClient == <<>>
Unwritten == "unwritten"

-----------------------------------------------------------------------------
(* Return codes.                                                            *)

\* The end of a call: its code and records, and what it wrote.
Returns(code, recs, written) == ret' = code /\ records' = recs /\ out' = written

Succeeds == Returns("SUCCESS", {}, Unwritten)
Fails(state) == Returns("ERROR", {state}, Unwritten)
Ignored == Returns("SUCCESS_WITH_INFO", {"01000"}, Unwritten)

-----------------------------------------------------------------------------
(* Connecting.                                                              *)

\* Mutant: the configuration the connection had before is described.
RuntimeInfoOfOld(c) ==
  [USER_NAME |-> GetDSNUserName(config), DATA_SOURCE_NAME |-> Get(config, "dsn")]

\* The name of the configuration, which is the default one, "Timestream DSN",
\* unless some connection string of this connection had the keyword.
UpdateConnectionRuntimeInfo(c) ==
  SetInfo(SetInfo(info, "USER_NAME", GetDSNUserName(c)),
          "DATA_SOURCE_NAME", Get(c, "dsn"))

\* The provider is made before the identity provider is asked and, like the
\* client, is dropped by Close when the credentials or the trial query fail.
TryRestoreConnection(c, name, a, query) ==
  IF Credentials(c, a).text /\ query
  THEN /\ client' = c
       /\ provider' = (Get(c, "authType") \in {"okta", "aad"})
       /\ info' = UpdateConnectionRuntimeInfo(c)
       /\ named' = name
  ELSE /\ client' = NoClient
       /\ provider' = FALSE
       /\ UNCHANGED <<info, named>>

\* config_ is replaced first; recs are the records the reading of the settings
\* left, name is what the application called the data source.
InternalEstablish(c, name, recs, a, query) ==
  /\ config' = c
  /\ IF client # NoClient
     THEN /\ Returns("ERROR", recs \cup {"08002"}, Unwritten)
          /\ UNCHANGED session
     ELSE IF ~Validate(c)
     THEN /\ Returns("ERROR", recs \cup {"01S00"}, Unwritten)
          /\ UNCHANGED session
     ELSE /\ TryRestoreConnection(c, name, a, query)
          /\ IF client' = NoClient
             THEN Returns("ERROR", recs \cup {"08001"}, Unwritten)
             ELSE Returns(IF recs # {} THEN "SUCCESS_WITH_INFO" ELSE "SUCCESS",
                          recs, Unwritten)

\* The settings read into c0: by the parser from s, then from the DSN it names.
ReadSettings(c0, s) ==
  LET parsed == ParseConnectionString([cfg |-> c0, warned |-> FALSE, log |-> log],
                                      s, Separator)
  IN IF IsSet(parsed.cfg, "dsn")
     THEN ReadDsnConfiguration(parsed, ini, Get(parsed.cfg, "dsn"))
     ELSE parsed

\* The value of the DSN keyword of s, empty without one.
DsnKeyword(s) ==
  LET said == ParseConnectionString([cfg |-> NewConfiguration, warned |-> FALSE, log |-> log],
                                    s, Separator).cfg
  IN IF IsSet(said, "dsn") THEN Get(said, "dsn") ELSE <<>>

\* SQLDriverConnect: the parser writes into the configuration the connection
\* already has.
DriverConnect(s) ==
  LET r == ReadSettings(config, s)
  IN /\ \E a \in Replies, query \in BOOLEAN :
          InternalEstablish(r.cfg, [by |-> "DriverConnect", dsn |-> DsnKeyword(s)],
                            IF r.warned THEN {"01S02"} ELSE {}, a, query)
     /\ log' = r.log
     /\ UNCHANGED <<attributes, ini>>

\* SQLConnect: a configuration of its own, in which the DSN's name is not set.
\* What reading the DSN reports is cleared by the call that connects.
Connect(dsn, user, pwd) ==
  LET r == ReadDsnConfiguration(
             [cfg |-> NewConfiguration, warned |-> FALSE, log |-> log], ini, dsn)
      c == SetValue(SetValue(r.cfg, "uid", user), "pwd", pwd)
  IN /\ \E a \in Replies, query \in BOOLEAN :
          InternalEstablish(c, [by |-> "Connect", dsn |-> dsn], {}, a, query)
     /\ log' = r.log
     /\ UNCHANGED <<attributes, ini>>

Close == client' = NoClient /\ provider' = FALSE

\* SQLDisconnect.
InternalRelease ==
  /\ Close
  /\ IF client = NoClient
     THEN Returns("SUCCESS_WITH_INFO", {"08003"}, Unwritten)
     ELSE Succeeds
  /\ UNCHANGED <<config, info, named, attributes, ini, log>>

-----------------------------------------------------------------------------
(* Attributes and options.                                                  *)

\* SQL_ATTR_CONNECTION_DEAD runs on into the case of the timeout, which is 0.
AttributeValue(attr) ==
  CASE attr \in {"CONNECTION_DEAD", "CONNECTION_TIMEOUT"} -> 0
    [] attr = "AUTOCOMMIT" -> IF autoCommit THEN 1 ELSE 0
    [] attr = "METADATA_ID" -> IF metadataId THEN 1 ELSE 0
    [] attr \in {"AUTO_IPD", "ASYNC_ENABLE"} -> 0
    [] attr = "TSLOG_DEBUG" -> log.level

ReadableAttributes == {"CONNECTION_DEAD", "CONNECTION_TIMEOUT", "AUTOCOMMIT",
                       "METADATA_ID", "AUTO_IPD", "ASYNC_ENABLE", "TSLOG_DEBUG"}

InternalGetAttribute(attr, buf) ==
  /\ IF ~buf THEN Fails("HY009")
     ELSE IF attr \in ReadableAttributes
     THEN Returns("SUCCESS", {}, AttributeValue(attr))
     ELSE Fails("HYC00")
  /\ UNCHANGED <<config, session, attributes, ini, log>>

\* What InternalSetAttribute refuses.
AttributeRefusal(attr, value) ==
  CASE attr = "CONNECTION_DEAD" -> "HY092"
    [] attr = "ANSI_APP" -> "HY000"
    [] attr = "AUTOCOMMIT" /\ value \notin {0, 1} -> "HYC00"
    [] attr = "METADATA_ID" /\ value \notin {0, 1} -> "HY024"
    [] attr \notin {"CONNECTION_DEAD", "ANSI_APP", "AUTOCOMMIT", "METADATA_ID",
                    "TSLOG_DEBUG", "LOGIN_TIMEOUT"} -> "HYC00"
    [] OTHER -> "no"

\* Mutant: the value is taken before it is looked at.
SetAttributeFirst(attr, value) ==
  /\ IF AttributeRefusal(attr, value) # "no"
     THEN Fails(AttributeRefusal(attr, value)) ELSE Succeeds
  /\ autoCommit' = IF attr = "AUTOCOMMIT" THEN value = 1 ELSE autoCommit
  /\ UNCHANGED <<config, session, metadataId, stmtAttr, ini, log>>

\* The level is taken as it is given.
InternalSetAttribute(attr, value) ==
  LET no == AttributeRefusal(attr, value) IN
  /\ IF no # "no" THEN Fails(no) ELSE Succeeds
  /\ autoCommit' = IF no = "no" /\ attr = "AUTOCOMMIT" THEN value = 1
                   ELSE autoCommit
  /\ metadataId' = IF no = "no" /\ attr = "METADATA_ID" THEN value = 1
                   ELSE metadataId
  /\ log' = IF attr = "TSLOG_DEBUG" THEN [log EXCEPT !.level = value] ELSE log
  /\ UNCHANGED <<config, session, stmtAttr, ini>>

\* The one value each statement option may be given; the row set size is free.
SupportedOption == [bindType |-> "BY_COLUMN", concurrency |-> "READ_ONLY",
                    cursorType |-> "FORWARD_ONLY", retrieveData |-> "ON"]
IgnoredStmtOptions == {"NOSCAN", "QUERY_TIMEOUT", "MAX_ROWS", "MAX_LENGTH",
                       "KEYSET_SIZE", "ASYNC_ENABLE"}
UnsupportedStmtOptions == {"USE_BOOKMARKS", "SIMULATE_CURSOR"}

InternalSetStmtAttribute(option, value) ==
  LET takes == \/ option = "rowsetSize"
               \/ /\ option \in DOMAIN SupportedOption
                  /\ value = SupportedOption[option]
  IN /\ IF takes THEN Succeeds
        ELSE IF option \in IgnoredStmtOptions THEN Ignored
        ELSE Fails("HYC00")
     /\ stmtAttr' = IF takes THEN [stmtAttr EXCEPT ![option] = value] ELSE stmtAttr
     /\ UNCHANGED <<config, session, autoCommit, metadataId, ini, log>>

StmtOptions == DOMAIN SupportedOption \cup {"rowsetSize"} \cup IgnoredStmtOptions
                 \cup UnsupportedStmtOptions

IgnoredOptions == {"TRANSLATE_DLL", "TRANSLATE_OPTION", "TXN_ISOLATION",
                   "ACCESS_MODE", "CURRENT_QUALIFIER", "PACKET_SIZE",
                   "QUIET_MODE", "LOGIN_TIMEOUT"}

InternalSetConnectOption(option, value) ==
  \/ option \in StmtOptions /\ InternalSetStmtAttribute(option, value)
  \/ /\ option \in IgnoredOptions
     /\ Ignored
     /\ UNCHANGED <<config, session, attributes, ini, log>>
  \/ /\ option \notin StmtOptions \cup IgnoredOptions
     /\ InternalSetAttribute(option, value)

InternalGetConnectOption(option) ==
  \/ /\ option \in IgnoredOptions \cup {"QUERY_TIMEOUT"}
     /\ Ignored
     /\ UNCHANGED <<config, session, attributes, ini, log>>
  \/ /\ option \notin IgnoredOptions \cup {"QUERY_TIMEOUT"}
     /\ InternalGetAttribute(option, TRUE)

-----------------------------------------------------------------------------
(* Information.                                                             *)

InternalGetInfo(type, buf, buflen) ==
  LET r == GetInfo(info @@ StrParams(FALSE), FALSE, type, buf, buflen)
  IN /\ IF r.code = "SUCCESS" THEN Returns("SUCCESS", {}, r.value)
        ELSE Fails("HYC00")
     /\ UNCHANGED <<config, session, attributes, ini, log>>

GetFunctions(f) ==
  /\ Returns("SUCCESS", {}, InternalGetFunctions(f, Unwritten))
  /\ UNCHANGED <<config, session, attributes, ini, log>>

-----------------------------------------------------------------------------
(* ConfigDSN, of the ODBC installer: not a call on the connection, but of   *)
(* the same process, whose logger it sets.  written is what the installer   *)
(* wrote before it failed; renamed is the name the user gave the DSN in the *)
(* configuration window.                                                    *)

\* The attribute list is separated by NUL characters, here ",".
ConfigDsnSettings(s) ==
  ParseConnectionString([cfg |-> NewConfiguration, warned |-> FALSE, log |-> log],
                        s, ",")

AddDsn(s, written) ==
  LET r == ConfigDsnSettings(s) IN
  /\ written \subseteq DsnKeys(r.cfg)
  /\ ini' = RegisterDsn(ini, r.cfg, written)
  /\ log' = r.log
  /\ UNCHANGED <<config, session, attributes, ret, records, out>>

\* Mutant: the old section is removed even if the new one could not be written.
ConfigureDsnRemoving(s, renamed, written) ==
  LET r == ConfigDsnSettings(s)
      old == Get(r.cfg, "dsn")
      c == SetValue(ReadDsnConfiguration(r, ini, old).cfg, "dsn", renamed)
  IN /\ written \subseteq DsnKeys(c)
     /\ ini' = IF renamed # old
               THEN UnregisterDsn(RegisterDsn(ini, c, written), old)
               ELSE RegisterDsn(ini, c, written)
     /\ UNCHANGED <<config, session, attributes, ret, records, out, log>>

\* The old section is removed only once the new one is complete.
ConfigureDsn(s, renamed, written) ==
  LET r == ConfigDsnSettings(s)
      old == Get(r.cfg, "dsn")
      loaded == ReadDsnConfiguration(r, ini, old)
      c == SetValue(loaded.cfg, "dsn", renamed)
      added == RegisterDsn(ini, c, written)
  IN /\ written \subseteq DsnKeys(c)
     /\ ini' = IF renamed # old /\ written = DsnKeys(c)
               THEN UnregisterDsn(added, old) ELSE added
     /\ log' = loaded.log
     /\ UNCHANGED <<config, session, attributes, ret, records, out>>

RemoveDsn(s) ==
  LET r == ConfigDsnSettings(s) IN
  /\ ini' = UnregisterDsn(ini, Get(r.cfg, "dsn"))
  /\ log' = r.log
  /\ UNCHANGED <<config, session, attributes, ret, records, out>>

-----------------------------------------------------------------------------
Init ==
  /\ config = NewConfiguration
  /\ client = NoClient
  /\ provider = FALSE
  /\ info = [USER_NAME |-> <<>>, DATA_SOURCE_NAME |-> <<>>]
  /\ named = [by |-> "none", dsn |-> <<>>]
  /\ autoCommit = TRUE
  /\ metadataId = FALSE
  /\ stmtAttr = [bindType |-> "BY_COLUMN", concurrency |-> "READ_ONLY",
                 cursorType |-> "FORWARD_ONLY", retrieveData |-> "OFF",
                 rowsetSize |-> 1]
  /\ ret = "SUCCESS"
  /\ records = {}
  /\ out = Unwritten
  /\ ini = <<>>
  /\ log = [level |-> "WARNING", path |-> <<"home">>]
  /\ calls = 0

\* What the application asks for, one of each kind the code tells apart.
AttributeInputs == {<<"CONNECTION_DEAD", 0>>, <<"ANSI_APP", 1>>,
  <<"AUTOCOMMIT", 0>>, <<"AUTOCOMMIT", 1>>, <<"AUTOCOMMIT", 2>>,
  <<"METADATA_ID", 1>>, <<"METADATA_ID", 2>>, <<"TSLOG_DEBUG", "ERROR">>,
  <<"LOGIN_TIMEOUT", 1>>, <<"TRACE", 1>>}
OptionInputs == {<<"bindType", "BY_ROW">>, <<"retrieveData", "ON">>,
  <<"rowsetSize", 2>>, <<"MAX_ROWS", 1>>, <<"USE_BOOKMARKS", 1>>,
  <<"PACKET_SIZE", 1>>, <<"METADATA_ID", 0>>}
ReadInputs == {"CONNECTION_DEAD", "AUTOCOMMIT", "TSLOG_DEBUG", "TRACE"}
InfoInputs == {"USER_NAME", "CATALOG_TERM", "CONVERT_INTEGER",
               "MAX_TABLE_NAME_LEN", "unknown"}
FunctionInputs == {"Fetch", "AllocHandle", "unknown"}

Calls ==
  \/ \E s \in ConnectStrings : DriverConnect(s)
  \/ \E d \in Dsns, u \in Users : Connect(d, u, <<"pwd">>)
  \/ InternalRelease
  \/ \E i \in AttributeInputs : InternalSetAttribute(i[1], i[2])
  \/ \E i \in OptionInputs : InternalSetConnectOption(i[1], i[2])
  \/ \E attr \in ReadInputs, buf \in BOOLEAN : InternalGetAttribute(attr, buf)
  \/ \E option \in {"QUERY_TIMEOUT", "METADATA_ID"} : InternalGetConnectOption(option)
  \/ \E type \in InfoInputs, buf \in BOOLEAN, buflen \in {0, 8} :
       InternalGetInfo(type, buf, buflen)
  \/ \E f \in FunctionInputs : GetFunctions(f)
  \/ \E s \in DsnStrings :
       \/ \E written \in SUBSET DsnKeys(ConfigDsnSettings(s).cfg) : AddDsn(s, written)
       \/ RemoveDsn(s)
       \/ \E d \in Dsns, all \in BOOLEAN :
            LET c == ReadDsnConfiguration(ConfigDsnSettings(s), ini,
                                          Get(ConfigDsnSettings(s).cfg, "dsn")).cfg
            IN ConfigureDsn(s, d, IF all THEN DsnKeys(SetValue(c, "dsn", d)) ELSE {})

Next == calls < MaxCalls /\ calls' = calls + 1 /\ Calls

Spec == Init /\ [][Next]_vars

-----------------------------------------------------------------------------
(* Properties.                                                              *)

TypeOK ==
  /\ DOMAIN config = Attrs
  /\ client = NoClient \/ DOMAIN client = Attrs
  /\ provider \in BOOLEAN /\ autoCommit \in BOOLEAN /\ metadataId \in BOOLEAN
  /\ ret \in {"SUCCESS", "SUCCESS_WITH_INFO", "ERROR"}
  /\ calls \in 0..MaxCalls

\* While a session is open, SQLGetInfo names the user the client logs in as, and
\* the data source that the connection string named, if it named one: although
\* InternalEstablish replaces config_ even when it then refuses with 08002, and
\* a failed attempt with other names may lie before or after.
InfoDescribesSession ==
  client # NoClient =>
    /\ info.USER_NAME = GetDSNUserName(client)
    /\ named.by = "DriverConnect" /\ named.dsn # <<>> =>
         info.DATA_SOURCE_NAME = named.dsn

\* "If the application called SQLConnect, this is the value of the szDSN
\* argument. [...] If the connection string did not contain the DSN keyword [...]
\* this is an empty string": SQL_DATA_SOURCE_NAME, however the session was opened
\* (SQLConnect, Connection::InternalEstablish, UpdateConnectionRuntimeInfo).
DataSourceNamed == client # NoClient => info.DATA_SOURCE_NAME = named.dsn

\* A SAML credentials provider is held only along with the session it was made
\* for: every failure between its creation and the trial query drops it.
ProviderOnlyWithSession ==
  provider => /\ client # NoClient
              /\ Get(client, "authType") \in {"okta", "aad"}

\* The return code and the records agree: an error has a record, a plain success
\* none, and SUCCESS_WITH_INFO says that there is one to read.
CodeTellsRecords ==
  /\ ret = "ERROR" => records # {}
  /\ (ret = "SUCCESS") = (records = {})

\* The session is described truly: by SQLGetInfo, by the credentials held for it
\* and by the records of the last call.
SessionTrue ==
  TypeOK /\ InfoDescribesSession /\ ProviderOnlyWithSession /\ CodeTellsRecords

\* A call that fails neither opens nor drops a session, and leaves the attributes
\* and the information of the connection as they were.
FailureKeepsSession ==
  [][ret' = "ERROR" /\ calls' # calls => UNCHANGED <<session, attributes>> ]_vars

\* The values a connection string carries: not the empty one, nor one that is
\* itself in braces, and of the numbers those that the parser takes.
Plain(k, v) ==
  IF k \in NumberAttrs
  THEN v >= IF k \in {"maxRetryCountClient", "maxRowPerPage"} THEN 0 ELSE 1
  ELSE k \notin {"authType", "logLevel"} =>
         v # <<>> /\ (Contains(v, Blank) \/ Unbraced(v) = v)

\* No value of c has a delimiter in it, as one given to SQLConnect or to
\* ConfigDSN may have.
Undivided(c) ==
  \A k \in DOMAIN ToMap(c) :
    ~Contains(ToMap(c)[k], Separator) /\ ~Contains(ToMap(c)[k], Equals)

\* What a connection string carries comes back: parsing the string that
\* ToConnectString makes of the configuration a connection has reached gives
\* every set value a connection string may carry.
ConnectStringRoundTrip ==
  LET back == ParseConnectionString(
                [cfg |-> NewConfiguration, warned |-> FALSE, log |-> log],
                ToConnectString(config), Separator).cfg
  IN Undivided(config) =>
       \A k \in Attrs :
         config[k].set /\ Plain(k, Get(config, k)) => back[k] = config[k]

\* What the connection string says is never replaced by what the DSN it names
\* says, whatever the installer has written there.
StringWinsOverDsn ==
  \A s \in ConnectStrings :
    LET said == ParseConnectionString(
                  [cfg |-> NewConfiguration, warned |-> FALSE, log |-> log], s,
                  Separator)
        used == ReadSettings(NewConfiguration, s)
    IN \A k \in Attrs : IsSet(said.cfg, k) => used.cfg[k] = said.cfg[k]

\* A DSN reads back as it was written: every setting of its section is in the
\* configuration read from it (the connection timeout only along with a request
\* timeout).
DsnReadsBack ==
  \A d \in DOMAIN ini :
    LET c == ReadDsnConfiguration(
               [cfg |-> NewConfiguration, warned |-> FALSE, log |-> log], ini, d).cfg
    IN \A k \in DOMAIN ini[d] :
         (k = "connectionTimeout" => "reqTimeout" \in DOMAIN ini[d])
           => AddToMap(c, k) = ini[d][k]

\* Settings survive their way through connection strings and DSNs.
SettingsSurvive == ConnectStringRoundTrip /\ StringWinsOverDsn /\ DsnReadsBack

\* ConfigDSN loses no DSN: a section disappears because its removal was asked
\* for, or when a section with all its settings is there under another name.
NoDsnLost ==
  [][\A d \in DOMAIN ini \ DOMAIN ini' :
       \/ \E s \in DsnStrings : RemoveDsn(s)
       \/ \E e \in DOMAIN ini' :
            \A k \in DOMAIN ini[d] \ {"connectionTimeout"} :
              k \in DOMAIN ini'[e]]_vars
=============================================================================
