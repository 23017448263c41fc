---------------------------- MODULE LoggerProofs ----------------------------
(***************************************************************************)
(* Proofs about Logger, for every set of threads and of directories and    *)
(* any number of calls.                                                    *)
(***************************************************************************)
EXTENDS Logger, TLAPS

\* A thread that moves on within a call changes its pc and nothing else.
LEMMA GotoMoves ==
  ASSUME TypeOK, NEW t \in Threads, NEW pc \in Pcs, Goto(t, pc)
  PROVE  /\ thread' \in [Threads -> ThreadStates]
         /\ thread'[t].pc = pc /\ thread'[t].then = thread[t].then
         /\ \A u \in Others(t) : thread'[u] = thread[u]
BY DEF TypeOK, Goto, Others, Pcs, ThreadStates

\* A message that is done returns to the call it belongs to.
LEMMA DoneMoves ==
  ASSUME TypeOK, NEW t \in Threads, MessageDone(t)
  PROVE  /\ thread' \in [Threads -> ThreadStates]
         /\ thread'[t].pc = thread[t].then /\ thread'[t].then = "idle"
         /\ thread'[t].pc \in {"idle", "close", "setstream"}
         /\ \A u \in Others(t) : thread'[u] = thread[u]
BY DEF TypeOK, MessageDone, Others, Pcs, ThreadStates, Idle, Levels, OFF,
     DEBUG_LEVEL

\* A thread that starts a message, or that returns from its call.
LEMMA MessageMoves ==
  ASSUME TypeOK, NEW t \in Threads, NEW s \in ThreadStates,
         thread' = [thread EXCEPT ![t] = s]
  PROVE  /\ thread' \in [Threads -> ThreadStates]
         /\ thread'[t] = s
         /\ \A u \in Others(t) : thread'[u] = thread[u]
BY DEF TypeOK, Others, Pcs, ThreadStates

\* The records that threads are set to.
LEMMA MessageType ==
  /\ Idle \in ThreadStates /\ Idle.pc = "idle" /\ Idle.then = "idle"
  /\ \A level \in Levels, then \in {"idle", "close", "setstream"} :
       /\ Message(level, then) \in ThreadStates
       /\ Message(level, then).pc = "get" /\ Message(level, then).then = then
  /\ {ERROR_LEVEL, DEBUG_LEVEL, OFF, INFO_LEVEL} \subseteq Levels
BY DEF Idle, Message, ThreadStates, Pcs, Levels, OFF, DEBUG_LEVEL, ERROR_LEVEL,
     INFO_LEVEL

\* What thread t may do next.
ActionOf(t) ==
  \/ Step(t)
  \/ \E level \in {ERROR_LEVEL, DEBUG_LEVEL} : Log(t, level)
  \/ \E level \in {OFF, DEBUG_LEVEL} : SetLogLevel(t, level)
  \/ \E path \in Paths : SetLogPath(t, path)

\* A stream that is opened, written to or closed is a stream.
LEMMA StreamType ==
  ASSUME NEW f \in [open : Paths \cup {NULL}, fail : BOOLEAN], NEW path \in Paths \cup {NULL}
  PROVE  /\ Opened(f, path) \in [open : Paths \cup {NULL}, fail : BOOLEAN]
         /\ Closed(f) \in [open : Paths \cup {NULL}, fail : BOOLEAN]
         /\ [f EXCEPT !.fail = TRUE] \in [open : Paths \cup {NULL}, fail : BOOLEAN]
BY LoggerAssumption DEF Opened, Closed

\* Every step leaves the flags of the logger Boolean.
LEMMA FlagStep ==
  ASSUME TypeOK, NEW t \in Threads, ActionOf(t)
  PROVE  /\ named' \in BOOLEAN /\ streamSet' \in BOOLEAN
         /\ lost' \in BOOLEAN /\ raced' \in BOOLEAN /\ deaf' \in BOOLEAN
<1> USE DEF TypeOK, settings
<1>1. CASE GetLoggerInstance(t) \/ CreateLogger(t) \/ CheckLevel(t) \/ SetLogStream(t)
  BY <1>1, Zenon DEF GetLoggerInstance, CreateLogger, CheckLevel, SetLogStream
<1>2. CASE EnableLog(t) \/ NameFile(t) \/ OpenFile(t)
  BY <1>2, Zenon DEF EnableLog, NameFile, OpenFile
<1>3. CASE Enabled(t) \/ WriteMessage(t) \/ WriteLine(t)
  BY <1>3, Zenon DEF Enabled, WriteMessage, WriteLine
<1>4. CASE AfterMove(t) \/ CloseFile(t)
  BY <1>4, Zenon DEF AfterMove, CloseFile
<1>5. ASSUME NEW level, Log(t, level) \/ SetLogLevel(t, level)
      PROVE  /\ named' \in BOOLEAN /\ streamSet' \in BOOLEAN
             /\ lost' \in BOOLEAN /\ raced' \in BOOLEAN /\ deaf' \in BOOLEAN
  BY <1>5, Zenon DEF Log, SetLogLevel
<1>6. ASSUME NEW path, SetLogPath(t, path)
      PROVE  /\ named' \in BOOLEAN /\ streamSet' \in BOOLEAN
             /\ lost' \in BOOLEAN /\ raced' \in BOOLEAN /\ deaf' \in BOOLEAN
  BY <1>6, Zenon DEF SetLogPath
<1> QED
  BY <1>1, <1>2, <1>3, <1>4, <1>5, <1>6, Zenon DEF ActionOf, Step

\* Every step keeps the types of the logger's members.
LEMMA TypeStep ==
  ASSUME TypeOK, NEW t \in Threads, ActionOf(t)
  PROVE  TypeOK'
<1>1. /\ named' \in BOOLEAN /\ streamSet' \in BOOLEAN
      /\ lost' \in BOOLEAN /\ raced' \in BOOLEAN /\ deaf' \in BOOLEAN
  BY FlagStep
<1> USE <1>1 DEF settings
<1>2. CASE GetLoggerInstance(t)
  BY <1>2, GotoMoves DEF GetLoggerInstance, TypeOK, Pcs
<1>3. CASE CreateLogger(t)
  <2>1. thread' \in [Threads -> ThreadStates]
    BY <1>3, GotoMoves DEF CreateLogger, Pcs
  <2>2. created' \in 0..2
    BY <1>3 DEF CreateLogger, TypeOK
  <2> QED
    BY <1>3, <2>1, <2>2 DEF CreateLogger, TypeOK
<1>4. CASE CheckLevel(t)
  BY <1>4, GotoMoves, DoneMoves DEF CheckLevel, TypeOK, Pcs
<1>5. CASE EnableLog(t)
  BY <1>5, GotoMoves, DoneMoves DEF EnableLog, TypeOK, Pcs
<1>6. CASE NameFile(t)
  BY <1>6, GotoMoves DEF NameFile, TypeOK, Pcs
<1>7. CASE OpenFile(t)
  BY <1>7, GotoMoves, StreamType DEF OpenFile, TypeOK, Pcs
<1>8. CASE Enabled(t)
  BY <1>8, GotoMoves, DoneMoves DEF Enabled, TypeOK, Pcs
<1>9. CASE WriteMessage(t)
  BY <1>9, GotoMoves, DoneMoves DEF WriteMessage, TypeOK, Pcs
<1>10. CASE WriteLine(t)
  BY <1>10, DoneMoves, StreamType DEF WriteLine, TypeOK, Pcs
<1>11. CASE AfterMove(t)
  BY <1>11, GotoMoves, MessageMoves, MessageType DEF AfterMove, TypeOK, Pcs
<1>12. CASE CloseFile(t)
  BY <1>12, MessageMoves, MessageType, StreamType DEF CloseFile, TypeOK, Pcs
<1>13. CASE SetLogStream(t)
  BY <1>13, MessageMoves, MessageType DEF SetLogStream, TypeOK, Pcs
<1>14. ASSUME NEW level \in {ERROR_LEVEL, DEBUG_LEVEL}, Log(t, level) PROVE TypeOK'
  BY <1>14, MessageMoves, MessageType, LoggerAssumption DEF Log, Call, TypeOK
<1>15. ASSUME NEW level \in {OFF, DEBUG_LEVEL}, SetLogLevel(t, level) PROVE TypeOK'
  BY <1>15, MessageType, LoggerAssumption DEF SetLogLevel, Call, TypeOK
<1>16. ASSUME NEW path \in Paths, SetLogPath(t, path) PROVE TypeOK'
  <2>1. thread' \in [Threads -> ThreadStates]
    <3>1. CASE path = logPath
      BY <1>16, <3>1, MessageMoves, MessageType DEF SetLogPath
    <3>2. CASE path # logPath
      BY <1>16, <3>2, GotoMoves DEF SetLogPath, Pcs
    <3> QED
      BY <3>1, <3>2
  <2>2. logPath' \in Paths /\ calls' \in 0..MaxCalls
    BY <1>16, LoggerAssumption DEF SetLogPath, Call, TypeOK
  <2> QED
    BY <1>16, <2>1, <2>2 DEF SetLogPath, TypeOK
<1> QED
  BY <1>2, <1>3, <1>4, <1>5, <1>6, <1>7, <1>8, <1>9, <1>10, <1>11, <1>12, <1>13,
       <1>14,
       <1>15, <1>16 DEF ActionOf, Step

\* Every step keeps the mutex with the thread that opens the file.
LEMMA LockStep ==
  ASSUME TypeOK, LockInv, NEW t \in Threads, ActionOf(t)
  PROVE  LockInv'
<1>1. NULL \notin Threads
  BY LoggerAssumption
<1> USE DEF LockInv, At, settings
<1>2. ASSUME UNCHANGED <<mutex, named, logFilePath>>, thread[t].pc # "open", thread'[t].pc # "open",
             \A u \in Others(t) : thread'[u] = thread[u]
      PROVE  LockInv'
  BY <1>2 DEF Others
<1>3. CASE GetLoggerInstance(t) \/ CreateLogger(t)
  BY <1>2, <1>3, GotoMoves DEF GetLoggerInstance, CreateLogger, Pcs
<1>4. CASE CheckLevel(t)
  BY <1>2, <1>4, GotoMoves, DoneMoves DEF CheckLevel, Pcs
<1>5. CASE EnableLog(t)
  BY <1>2, <1>5, GotoMoves, DoneMoves DEF EnableLog, Pcs
<1>6. CASE NameFile(t)
  BY <1>1, <1>6, GotoMoves DEF NameFile, TypeOK, Pcs, Others
<1>7. CASE OpenFile(t)
  BY <1>1, <1>7, GotoMoves DEF OpenFile, TypeOK, Pcs, Others
<1>8. CASE Enabled(t)
  BY <1>2, <1>8, GotoMoves, DoneMoves DEF Enabled, Pcs
<1>9. CASE WriteMessage(t)
  BY <1>2, <1>9, GotoMoves, DoneMoves DEF WriteMessage, Pcs
<1>10. CASE WriteLine(t)
  BY <1>2, <1>10, DoneMoves DEF WriteLine, Pcs
<1>11. CASE AfterMove(t)
  BY <1>2, <1>11, GotoMoves, MessageMoves, MessageType DEF AfterMove, Pcs
<1>12. CASE CloseFile(t)
  BY <1>1, <1>12, MessageMoves, MessageType DEF CloseFile, TypeOK, Others
<1>13. CASE SetLogStream(t)
  BY <1>2, <1>13, MessageMoves, MessageType DEF SetLogStream, TypeOK
<1>14. ASSUME NEW level \in {ERROR_LEVEL, DEBUG_LEVEL}, Log(t, level) PROVE LockInv'
  BY <1>2, <1>14, MessageMoves, MessageType DEF Log, Call, TypeOK
<1>15. ASSUME NEW level \in {OFF, DEBUG_LEVEL}, SetLogLevel(t, level) PROVE LockInv'
  BY <1>15 DEF SetLogLevel, Call, TypeOK
<1>16. ASSUME NEW path \in Paths, SetLogPath(t, path) PROVE LockInv'
  BY <1>2, <1>16, GotoMoves, MessageMoves, MessageType DEF SetLogPath, Call, Pcs
<1> QED
  BY <1>3, <1>4, <1>5, <1>6, <1>7, <1>8, <1>9, <1>10, <1>11, <1>12, <1>13,
       <1>14,
       <1>15, <1>16 DEF ActionOf, Step

\* One logger is created, and the open file is the one that was named.
LEMMA NamedStep ==
  ASSUME TypeOK, LockInv, OneLogger, OpenWhereNamed, NEW t \in Threads, ActionOf(t)
  PROVE  OneLogger' /\ OpenWhereNamed'
<1> USE DEF OneLogger, OpenWhereNamed, IsFileStreamOpen, settings
<1>1. CASE GetLoggerInstance(t) \/ CheckLevel(t) \/ EnableLog(t) \/ Enabled(t)
           \/ WriteMessage(t) \/ AfterMove(t) \/ SetLogStream(t)
  BY <1>1 DEF GetLoggerInstance, CheckLevel, EnableLog, Enabled, WriteMessage,
       AfterMove, SetLogStream
<1>2. CASE CreateLogger(t)
  BY <1>2 DEF CreateLogger, TypeOK
<1>3. CASE NameFile(t)
  BY <1>3 DEF NameFile
<1>4. CASE OpenFile(t)
  BY <1>4, LoggerAssumption DEF OpenFile, Opened, LockInv, TypeOK
<1>5. CASE WriteLine(t)
  BY <1>5 DEF WriteLine, TypeOK
<1>6. CASE CloseFile(t)
  BY <1>6 DEF CloseFile, Closed, TypeOK
<1>7. ASSUME NEW level, Log(t, level) \/ SetLogLevel(t, level) PROVE OneLogger' /\ OpenWhereNamed'
  BY <1>7 DEF Log, SetLogLevel
<1>8. ASSUME NEW path, SetLogPath(t, path) PROVE OneLogger' /\ OpenWhereNamed'
  BY <1>8 DEF SetLogPath
<1> QED
  BY <1>1, <1>2, <1>3, <1>4, <1>5, <1>6, <1>7, <1>8 DEF ActionOf, Step

\* Every step that does not race keeps one thread opening the file and the
\* log enabled for those that write.
LEMMA UnracedStep ==
  ASSUME TypeOK, LockInv, OpenWhereNamed, UnracedInv, NEW t \in Threads, ActionOf(t)
  PROVE  UnracedInv'
<1> SUFFICES ASSUME ~raced' PROVE UnracedInv'
  BY DEF UnracedInv
<1> DEFINE Quiet == {"idle", "get", "create", "check", "enable", "moved", "close", "setstream"}
<1>1. NULL \notin Threads /\ NULL \notin Paths
  BY LoggerAssumption
<1> USE DEF UnracedInv, Opening, AloneOpening, EnabledOrReadOnly, At, IsEnabled,
     IsFileStreamOpen, settings
<1>2. ASSUME UNCHANGED <<file, named, logFilePath, lost, raced>>, streamSet => streamSet',
             thread'[t].pc \in Quiet,
             \A u \in Others(t) : thread'[u] = thread[u]
      PROVE  UnracedInv'
  BY <1>2 DEF Others
<1>3. CASE GetLoggerInstance(t) \/ CreateLogger(t)
  BY <1>2, <1>3, GotoMoves DEF GetLoggerInstance, CreateLogger, Pcs
<1>4. CASE CheckLevel(t)
  <2>1. CASE IsEnabled /\ Goto(t, "write")
    BY <1>4, <2>1, GotoMoves DEF CheckLevel, Pcs, Others
  <2>2. CASE MessageDone(t)
    BY <1>2, <1>4, <2>2, DoneMoves DEF CheckLevel
  <2>3. CASE Goto(t, "enable")
    BY <1>2, <1>4, <2>3, GotoMoves DEF CheckLevel, Pcs
  <2> QED
    BY <1>4, <2>1, <2>2, <2>3 DEF CheckLevel
<1>5. CASE EnableLog(t)
  <2>1. CASE IsFileStreamOpen /\ Goto(t, "write") /\ UNCHANGED raced
    BY <1>5, <2>1, GotoMoves DEF EnableLog, Pcs, Others
  <2>2. CASE MessageDone(t) /\ UNCHANGED raced
    BY <1>2, <1>5, <2>2, DoneMoves DEF EnableLog
  <2>3. CASE /\ ~IsFileStreamOpen /\ Goto(t, "name")
             /\ raced' = (raced \/ \E u \in Others(t) : At(u, "name") \/ At(u, "open"))
    <3>1. /\ thread'[t].pc = "name" /\ \A u \in Others(t) : thread'[u] = thread[u]
          /\ ~raced /\ \A u \in Others(t) : ~Opening(u)
      BY <2>3, GotoMoves DEF Pcs
    <3>2. UNCHANGED <<file, named, logFilePath, lost>> /\ streamSet'
      BY <1>5 DEF EnableLog
    <3> QED
      BY <2>3, <3>1, <3>2 DEF Others
  <2> QED
    BY <1>5, <2>1, <2>2, <2>3 DEF EnableLog
<1>6. CASE NameFile(t)
  BY <1>6, GotoMoves DEF NameFile, Pcs, Others
<1>7. CASE OpenFile(t)
  <2>1. /\ thread[t].pc = "open" /\ thread'[t].pc = "enabled"
        /\ \A u \in Others(t) : thread'[u] = thread[u] /\ ~Opening(u)
        /\ file.open = NULL /\ streamSet /\ ~lost /\ named
    BY <1>7, GotoMoves DEF OpenFile, Pcs, LockInv
  <2>2. UNCHANGED <<streamSet, named, logFilePath, lost, raced>>
    BY <1>7 DEF OpenFile
  <2>3. file' = IF logFilePath \in Writable THEN [open |-> logFilePath, fail |-> FALSE]
                ELSE [file EXCEPT !.fail = TRUE]
    BY <1>7, <2>1 DEF OpenFile, Opened
  <2>4. IF logFilePath \in Writable THEN file'.open # NULL /\ ~file'.fail ELSE file'.open = NULL
    BY <1>1, <2>1, <2>3 DEF LockInv, TypeOK
  <2> QED
    BY <2>1, <2>2, <2>4 DEF Others
<1>8. CASE Enabled(t)
  <2>1. CASE IsEnabled /\ Goto(t, "write") /\ UNCHANGED lost
    BY <1>8, <2>1, GotoMoves DEF Enabled, Pcs, Others
  <2>2. CASE ~IsEnabled /\ MessageDone(t) /\ lost' = (lost \/ logFilePath \in Writable)
    <3>1. lost' = lost
      BY <1>8, <2>2 DEF Enabled, TypeOK
    <3> QED
      BY <1>2, <1>8, <2>2, <3>1, DoneMoves DEF Enabled
  <2> QED
    BY <1>8, <2>1, <2>2 DEF Enabled
<1>9. CASE WriteMessage(t)
  BY <1>9, GotoMoves DEF WriteMessage, Pcs, Others
<1>10. CASE WriteLine(t)
  <2>1. UNCHANGED <<file, lost>>
    BY <1>10 DEF WriteLine, TypeOK
  <2> QED
    BY <1>2, <1>10, <2>1, DoneMoves DEF WriteLine
<1>11. CASE AfterMove(t)
  BY <1>2, <1>11, GotoMoves, MessageMoves, MessageType DEF AfterMove, Pcs
<1>12. CASE CloseFile(t)
  BY <1>1, <1>12, MessageMoves, MessageType DEF CloseFile, Closed, CloseRaces,
       TypeOK, Others
<1>13. CASE SetLogStream(t)
  BY <1>2, <1>13, MessageMoves, MessageType DEF SetLogStream
<1>14. ASSUME NEW level \in {ERROR_LEVEL, DEBUG_LEVEL}, Log(t, level) PROVE UnracedInv'
  BY <1>2, <1>14, MessageMoves, MessageType DEF Log, Call
<1>15. ASSUME NEW level \in {OFF, DEBUG_LEVEL}, SetLogLevel(t, level) PROVE UnracedInv'
  BY <1>15 DEF SetLogLevel, Call, Others
<1>16. ASSUME NEW path \in Paths, SetLogPath(t, path) PROVE UnracedInv'
  BY <1>2, <1>16, GotoMoves, MessageMoves, MessageType DEF SetLogPath, Call, Pcs
<1> QED
  BY <1>3, <1>4, <1>5, <1>6, <1>7, <1>8, <1>9, <1>10, <1>11, <1>12, <1>13,
       <1>14,
       <1>15, <1>16 DEF ActionOf, Step

\* Every step keeps a thread outside messages without a call to return to.
LEMMA ThenStep ==
  ASSUME TypeOK, ThenInv, NEW t \in Threads, ActionOf(t)
  PROVE  ThenInv'
<1> DEFINE Outside == {"idle", "moved", "close", "setstream"}
<1>1. ASSUME thread'[t].pc \notin Outside \/ thread'[t].then = "idle",
             \A u \in Others(t) : thread'[u] = thread[u]
      PROVE  ThenInv'
  BY <1>1 DEF ThenInv, Others
<1>2. ASSUME NEW pc \in Pcs \ Outside, Goto(t, pc) PROVE ThenInv'
  BY <1>1, <1>2, GotoMoves
<1>3. CASE MessageDone(t)
  BY <1>1, <1>3, DoneMoves
<1>4. ASSUME NEW pc \in Pcs, thread[t].pc \in Outside, Goto(t, pc) PROVE ThenInv'
  BY <1>1, <1>4, GotoMoves DEF ThenInv
<1>5. ASSUME NEW s \in ThreadStates, s.pc = "get" \/ s.then = "idle",
             thread' = [thread EXCEPT ![t] = s]
      PROVE  ThenInv'
  BY <1>1, <1>5, MessageMoves
<1>6. CASE GetLoggerInstance(t) \/ CreateLogger(t) \/ CheckLevel(t) \/ EnableLog(t)
  BY <1>2, <1>3, <1>6 DEF GetLoggerInstance, CreateLogger, CheckLevel,
       EnableLog, Pcs
<1>7. CASE NameFile(t) \/ OpenFile(t) \/ Enabled(t) \/ WriteMessage(t) \/ WriteLine(t)
  BY <1>2, <1>3, <1>7 DEF NameFile, OpenFile, Enabled, WriteMessage, WriteLine,
       Pcs
<1>8. CASE AfterMove(t)
  BY <1>4, <1>5, <1>8, MessageType DEF AfterMove, At, Pcs
<1>9. CASE CloseFile(t) \/ SetLogStream(t)
  BY <1>5, <1>9, MessageType DEF CloseFile, SetLogStream
<1>10. ASSUME NEW level \in {ERROR_LEVEL, DEBUG_LEVEL}, Log(t, level) PROVE ThenInv'
  BY <1>5, <1>10, MessageType DEF Log
<1>11. ASSUME NEW level \in {OFF, DEBUG_LEVEL}, SetLogLevel(t, level) PROVE ThenInv'
  BY <1>11 DEF SetLogLevel, ThenInv
<1>12. ASSUME NEW path \in Paths, SetLogPath(t, path) PROVE ThenInv'
  BY <1>4, <1>5, <1>12, MessageType DEF SetLogPath, Call, At, Pcs
<1> QED
  BY <1>6, <1>7, <1>8, <1>9, <1>10, <1>11, <1>12 DEF ActionOf, Step

\* Every step keeps the file in the directory that was set last.
LEMMA PathStep ==
  ASSUME TypeOK, ThenInv, PathFollowed, NEW t \in Threads, ActionOf(t)
  PROVE  PathFollowed'
<1> DEFINE Moving(u) == thread[u].pc \in {"moved", "close"} \/ thread[u].then = "close"
<1>1. PathFollowed <=> \/ deaf
                       \/ \E u \in Threads : Moving(u)
                       \/ named => logFilePath = logPath
  BY DEF PathFollowed
<1> USE DEF At, settings
<1>2. ASSUME UNCHANGED <<named, logFilePath, logPath>>, deaf => deaf', Moving(t) => Moving(t)',
             \A u \in Others(t) : thread'[u] = thread[u]
      PROVE  PathFollowed'
  BY <1>2 DEF Others, PathFollowed
<1>3. CASE GetLoggerInstance(t) \/ CreateLogger(t)
  BY <1>2, <1>3, GotoMoves DEF GetLoggerInstance, CreateLogger, Pcs
<1>4. CASE CheckLevel(t)
  BY <1>2, <1>4, GotoMoves, DoneMoves DEF CheckLevel, Pcs
<1>5. CASE EnableLog(t)
  BY <1>2, <1>5, GotoMoves, DoneMoves DEF EnableLog, Pcs
<1>6. CASE NameFile(t)
  BY <1>6, GotoMoves DEF NameFile, Pcs, Others, PathFollowed
<1>7. CASE OpenFile(t)
  BY <1>2, <1>7, GotoMoves DEF OpenFile, Pcs
<1>8. CASE Enabled(t)
  BY <1>2, <1>8, GotoMoves, DoneMoves DEF Enabled, Pcs
<1>9. CASE WriteMessage(t)
  BY <1>2, <1>9, GotoMoves, DoneMoves DEF WriteMessage, Pcs
<1>10. CASE WriteLine(t)
  BY <1>2, <1>10, DoneMoves DEF WriteLine
<1>11. CASE AfterMove(t)
  <2>1. CASE thread' = [thread EXCEPT ![t] = Message(INFO_LEVEL, "close")] /\ UNCHANGED deaf
    BY <1>2, <1>11, <2>1, MessageMoves, MessageType DEF AfterMove
  <2>2. CASE deaf' = (deaf \/ named)
    BY <1>11, <2>2 DEF AfterMove, PathFollowed
  <2> QED
    BY <1>11, <2>1, <2>2 DEF AfterMove
<1>12. CASE CloseFile(t)
  BY <1>12 DEF CloseFile, PathFollowed
<1>13. CASE SetLogStream(t)
  BY <1>2, <1>13, MessageMoves, MessageType DEF SetLogStream, ThenInv
<1>14. ASSUME NEW level \in {ERROR_LEVEL, DEBUG_LEVEL}, Log(t, level) PROVE PathFollowed'
  BY <1>2, <1>14, MessageMoves, MessageType DEF Log, Call, ThenInv
<1>15. ASSUME NEW level \in {OFF, DEBUG_LEVEL}, SetLogLevel(t, level) PROVE PathFollowed'
  BY <1>15 DEF SetLogLevel, Call, PathFollowed
<1>16. ASSUME NEW path \in Paths, SetLogPath(t, path) PROVE PathFollowed'
  <2>1. CASE path = logPath
    BY <1>2, <1>16, <2>1, MessageMoves, MessageType DEF SetLogPath, Call,
         ThenInv
  <2>2. CASE path # logPath
    BY <1>16, <2>2, GotoMoves DEF SetLogPath, Pcs, PathFollowed
  <2> QED
    BY <2>1, <2>2
<1> QED
  BY <1>3, <1>4, <1>5, <1>6, <1>7, <1>8, <1>9, <1>10, <1>11, <1>12, <1>13,
       <1>14,
       <1>15, <1>16 DEF ActionOf, Step

-----------------------------------------------------------------------------
\* The invariants hold initially.
LEMMA InvInit ==
  Init => TypeOK /\ LockInv /\ OneLogger /\ OpenWhereNamed /\ UnracedInv /\ ThenInv
       /\ PathFollowed
<1> SUFFICES ASSUME Init
             PROVE  TypeOK /\ LockInv /\ OneLogger /\ OpenWhereNamed /\ UnracedInv /\ ThenInv
       /\ PathFollowed
  OBVIOUS
<1>1. /\ named \in BOOLEAN /\ streamSet \in BOOLEAN
      /\ lost \in BOOLEAN /\ raced \in BOOLEAN /\ deaf \in BOOLEAN
  BY Zenon DEF Init
<1>2. thread \in [Threads -> ThreadStates] /\ \A t \in Threads : thread[t].pc = "idle"
  BY MessageType DEF Init
<1>3. TypeOK
  BY <1>1, <1>2, LoggerAssumption DEF Init, TypeOK, Levels, OFF, DEBUG_LEVEL,
       WARNING_LEVEL
<1>4. LockInv
  BY <1>2, LoggerAssumption DEF Init, LockInv, At
<1>5. OneLogger /\ OpenWhereNamed /\ PathFollowed
  BY DEF Init, OneLogger, OpenWhereNamed, IsFileStreamOpen, PathFollowed
<1>6. ThenInv
  BY MessageType DEF Init, ThenInv
<1>7. UnracedInv
  BY <1>2 DEF Init, UnracedInv, IsFileStreamOpen, Opening, At
<1> QED
  BY <1>3, <1>4, <1>5, <1>7, <1>6

\* Together they are inductive.
LEMMA InvInductive ==
  Spec => [](TypeOK /\ LockInv /\ OneLogger /\ OpenWhereNamed /\ UnracedInv /\ ThenInv
       /\ PathFollowed)
<1> DEFINE Inv == TypeOK /\ LockInv /\ OneLogger /\ OpenWhereNamed /\ UnracedInv /\ ThenInv
       /\ PathFollowed
<1>1. Inv /\ [Next]_vars => Inv'
  <2> SUFFICES ASSUME Inv, [Next]_vars PROVE Inv'
    OBVIOUS
  <2>1. CASE Next
    <3>1. PICK t \in Threads : ActionOf(t)
      BY <2>1 DEF Next, ActionOf
    <3> QED
      BY <3>1, TypeStep, LockStep, NamedStep, UnracedStep, ThenStep, PathStep
  <2>2. CASE UNCHANGED vars
    BY <2>2 DEF vars, settings, TypeOK, LockInv, OneLogger, OpenWhereNamed,
         UnracedInv, ThenInv, PathFollowed, At, Opening, AloneOpening,
         EnabledOrReadOnly, IsEnabled, IsFileStreamOpen
  <2> QED
    BY <2>1, <2>2
<1> HIDE DEF Inv
<1>2. Init => Inv
  BY InvInit DEF Inv
<1>3. Spec => []Inv
  BY <1>1, <1>2, PTL DEF Spec
<1> QED
  BY <1>3, PTL DEF Inv

\* Messages of any number of threads reach the file of the one logger: the
\* first is written by whoever opens the file, and none is lost to a thread
\* that only writes.
THEOREM LoggerDelivers == Spec => []MessagesArrive
<1>1. TypeOK /\ OneLogger /\ OpenWhereNamed /\ UnracedInv => MessagesArrive
  BY DEF MessagesArrive, UnracedInv, NoMessageLost
<1> QED
  BY <1>1, InvInductive, PTL

\* After a change of the log path the file is in the new directory, unless
\* the change found a named file that it did not close.
THEOREM LoggerFollowsPath == Spec => []PathFollowed
BY InvInductive, PTL
=============================================================================
