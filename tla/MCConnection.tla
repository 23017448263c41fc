---------------------------- MODULE MCConnection ----------------------------
(* Connection strings and services for model checking Connection.           *)
EXTENDS Connection

MCConnectStrings == {
  \* IAM, with a password that begins with a blank
  <<"authType", "=", "iam", ";", "uid", "=", "u1", ";",
    "pwd", "=", "{", " ", "p", "}", ";">>,
  \* a DSN, one setting of it replaced, and a number past INT32_MAX
  <<"uid", "=", "u2", ";", "reqTimeout", "=", "5", ";", "dsn", "=", "d1">>,
  \* Okta
  <<"idPHost", "=", "h", ";", "idPArn", "=", "i", ";", "roleArn", "=", "r", ";",
    "oktaAppId", "=", "o", ";", "idPUserName", "=", "u3", ";",
    "idPPassword", "=", "p", ";", "authType", "=", " ", "okta">>,
  \* an unknown key, a number out of range, a value with a blank inside, and
  \* Azure AD without the settings it needs
  <<"bogus", "=", "1", ";", "maxConnections", "=", "0", ";",
    "region", "=", "r", " ", "s", ";", "uid", "=", "u1", ";", "uid", "=", "u2", ";",
    "authType", "=", "aad", ";", "pwd", "=", "p">>}

MCDsnStrings == {
  <<"dsn", "=", "d1", ",", "authType", "=", "iam", ",", "uid", "=", "u4", ",",
    "pwd", "=", "p">>,
  <<"dsn", "=", "d2", ",", "reqTimeout", "=", "5", ",", "connectionTimeout", "=",
    "2", ",", "logLevel", "=", "3">>}

\* Every step of a login fails in one of them.
MCReplies ==
  LET fine == [login |-> "token", page |-> "field", sts |-> "credentials",
               profile |-> "credentials"]
  IN {fine} \cup {[fine EXCEPT !.login = l] : l \in LoginReplies}
            \cup {[fine EXCEPT !.page = p] : p \in PageReplies}
            \cup {[fine EXCEPT !.sts = t] : t \in StsReplies}
            \cup {[fine EXCEPT !.profile = "empty"]}

MCDsns == {<<"d1">>, <<"d3">>}
MCUsers == {<<"u5">>}
MCDirectories == {<<"home">>}
=============================================================================
