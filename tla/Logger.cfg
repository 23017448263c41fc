SPECIFICATION Spec
CONSTANTS
  NULL = NULL
  t1 = t1
  t2 = t2
  home = home
  other = other
  readonly = readonly
  Threads = {t1, t2}
  Paths = {home, other, readonly}
  DefaultPath = home
  Writable = {home, other}
  MaxCalls = 5
INVARIANTS
  MessagesArrive
  PathFollowed
PROPERTIES
  CallsReturn
CHECK_DEADLOCK FALSE
