SPECIFICATION Spec
CONSTANTS
  IntMax = 3
  Directories <- MCDirectories
  ConnectStrings <- MCConnectStrings
  DsnStrings <- MCDsnStrings
  Dsns <- MCDsns
  Users <- MCUsers
  Replies <- MCReplies
  MaxCalls = 3
INVARIANTS
  SessionTrue
  SettingsSurvive
PROPERTIES
  FailureKeepsSession
  NoDsnLost
CHECK_DEADLOCK FALSE
