------------------------------- MODULE Logger -------------------------------
(***************************************************************************)
(* odbc::Logger: one object for the process, a file stream that is opened  *)
(* when the first message has to be written, and a path and a level that   *)
(* connections change while other threads write.                           *)
(*                                                                         *)
(* The mutex is held to name and open the file, to write a line and to     *)
(* close the file; whether the log is enabled is always found out before   *)
(* the mutex is taken.  Opening a stream that is open fails, and a stream  *)
(* that has failed writes nothing until it is opened again.                *)
(*                                                                         *)
(* A thread in a message of its own, or in one that SetLogPath writes,     *)
(* goes through the pcs                                                    *)
(*   get, create, check, enable, name, open, enabled, write, writing       *)
(* and then to its field then.  Streams other than the file are only set   *)
(* by tests.  The day in the name of the file, and what a message says,    *)
(* are left out.                                                           *)
(***************************************************************************)
EXTENDS Naturals

CONSTANTS
  Threads,
  Paths,         \* directories
  DefaultPath,
  Writable,      \* those in which a file can be opened
  NULL,
  MaxCalls       \* bound: messages and settings of the application

ASSUME LoggerAssumption ==
  /\ DefaultPath \in Paths /\ Writable \subseteq Paths
  /\ NULL \notin Paths \cup Threads /\ MaxCalls \in Nat

\* LogLevel::Type
OFF == 0
ERROR_LEVEL == 1
WARNING_LEVEL == 2
INFO_LEVEL == 3
DEBUG_LEVEL == 4
Levels == OFF..DEBUG_LEVEL

VARIABLES
  created,      \* loggers made by GetLoggerInstance
  logLevel, logPath,
  named,        \* logFileName is not empty
  logFilePath,  \* directory of the file that was named last, NULL before
  streamSet,    \* stream points to the file stream
  file,         \* fileStream: [open: the directory or NULL, fail: failbit]
  mutex,        \* the thread that holds it, or NULL
  thread,       \* [pc, level, then]
  calls,
  lost,         \* history: a message was to be written and was not
  raced,        \* history: two threads were opening the file together, or it
                \* was closed between a thread's check and its write
  deaf          \* history: a new path found a file named and not open, or
                \* the log switched off

settings == <<created, logLevel, logPath, streamSet>>
vars == <<settings, named, logFilePath, file, mutex, thread, calls, lost, raced,
          deaf>>

Idle == [pc |-> "idle", level |-> OFF, then |-> "idle"]
Message(level, then) == [pc |-> "get", level |-> level, then |-> then]

IsFileStreamOpen == file.open # NULL
IsEnabled == streamSet /\ IsFileStreamOpen

At(t, pc) == thread[t].pc = pc
Others(t) == Threads \ {t}
Goto(t, pc) == thread' = [thread EXCEPT ![t].pc = pc]
MessageDone(t) ==
  thread' = [thread EXCEPT ![t] =
               IF @.then = "idle" THEN Idle ELSE [Idle EXCEPT !.pc = thread[t].then]]

-----------------------------------------------------------------------------
(* A message: WRITE_MSG_TO_STREAM *)

GetLoggerInstance(t) ==
  /\ At(t, "get")
  /\ Goto(t, IF created = 0 THEN "create" ELSE "check")
  /\ UNCHANGED <<settings, named, logFilePath, file, mutex, calls, lost, raced, deaf>>

\* mutexForCreation is held for this one step.
CreateLogger(t) ==
  /\ At(t, "create")
  /\ created' = IF created = 0 THEN 1 ELSE created
  /\ Goto(t, "check")
  /\ UNCHANGED <<logLevel, logPath, streamSet, named, logFilePath, file, mutex,
                 calls, lost, raced, deaf>>

CheckLevel(t) ==
  /\ At(t, "check")
  /\ \/ logLevel < thread[t].level /\ MessageDone(t)
     \/ logLevel >= thread[t].level /\ IsEnabled /\ Goto(t, "write")
     \/ logLevel >= thread[t].level /\ ~IsEnabled /\ Goto(t, "enable")
  /\ UNCHANGED <<settings, named, logFilePath, file, mutex, calls, lost, raced, deaf>>

\* Up to the mutex
EnableLog(t) ==
  /\ At(t, "enable")
  /\ streamSet' = TRUE
  /\ \/ /\ IsFileStreamOpen
        /\ Goto(t, "write") /\ UNCHANGED raced
     \/ /\ ~IsFileStreamOpen /\ logLevel = OFF
        /\ MessageDone(t) /\ UNCHANGED raced
     \/ /\ ~IsFileStreamOpen /\ logLevel # OFF
        /\ Goto(t, "name")
        /\ raced' = (raced \/ \E u \in Others(t) : At(u, "name") \/ At(u, "open"))
  /\ UNCHANGED <<created, logLevel, logPath, named, logFilePath, file, mutex,
                 calls, lost, deaf>>

\* Mutant: the file is named each time
NameFileAgain(t) ==
  /\ At(t, "name") /\ mutex = NULL
  /\ mutex' = t
  /\ named' = TRUE /\ logFilePath' = logPath
  /\ Goto(t, "open")
  /\ UNCHANGED <<settings, file, calls, lost, raced, deaf>>

\* Under the mutex, but the threads that change the path do not take it.
NameFile(t) ==
  /\ At(t, "name") /\ mutex = NULL
  /\ mutex' = t
  /\ named' = TRUE
  /\ logFilePath' = IF named THEN logFilePath ELSE logPath
  /\ Goto(t, "open")
  /\ UNCHANGED <<settings, file, calls, lost, raced, deaf>>

\* std::ofstream::open, which clears the state when it succeeds
Opened(f, path) ==
  IF f.open = NULL /\ path \in Writable THEN [open |-> path, fail |-> FALSE]
  ELSE [f EXCEPT !.fail = TRUE]

OpenFile(t) ==
  /\ At(t, "open")
  /\ file' = Opened(file, logFilePath)
  /\ mutex' = NULL
  /\ Goto(t, "enabled")
  /\ UNCHANGED <<settings, named, logFilePath, calls, lost, raced, deaf>>

\* What EnableLog returns.  A file that cannot be opened is not an error.
Enabled(t) ==
  /\ At(t, "enabled")
  /\ \/ IsEnabled /\ Goto(t, "write") /\ UNCHANGED lost
     \/ /\ ~IsEnabled
        /\ lost' = (lost \/ logFilePath \in Writable)
        /\ MessageDone(t)
  /\ UNCHANGED <<settings, named, logFilePath, file, mutex, calls, raced, deaf>>

\* Up to the mutex
WriteMessage(t) ==
  /\ At(t, "write")
  /\ \/ IsEnabled /\ Goto(t, "writing") /\ UNCHANGED lost
     \/ ~IsEnabled /\ MessageDone(t) /\ lost' = TRUE
  /\ UNCHANGED <<settings, named, logFilePath, file, mutex, calls, raced, deaf>>

\* std::ostream::operator<<, which sets badbit when there is no file
WriteLine(t) ==
  /\ At(t, "writing") /\ mutex = NULL
  /\ LET good == IsFileStreamOpen /\ ~file.fail
     IN /\ lost' = (lost \/ ~good)
        /\ file' = IF good THEN file ELSE [file EXCEPT !.fail = TRUE]
  /\ MessageDone(t)
  /\ UNCHANGED <<settings, named, logFilePath, mutex, calls, raced, deaf>>

-----------------------------------------------------------------------------
(* What the driver calls *)

Call(t) == At(t, "idle") /\ calls < MaxCalls /\ calls' = calls + 1

Log(t, level) ==
  /\ Call(t)
  /\ thread' = [thread EXCEPT ![t] = Message(level, "idle")]
  /\ UNCHANGED <<settings, named, logFilePath, file, mutex, lost, raced, deaf>>

\* The functions of the API that lead here have written a message before,
\* so there is a logger.
SetLogLevel(t, level) ==
  /\ Call(t) /\ created > 0
  /\ logLevel' = level
  /\ UNCHANGED <<created, logPath, streamSet, named, logFilePath, file, mutex,
                 thread, lost, raced, deaf>>

\* Configuration::SetLogPath has found that path is a directory.
SetLogPath(t, path) ==
  /\ Call(t) /\ created > 0
  /\ \/ /\ path = logPath
        /\ thread' = [thread EXCEPT ![t] = Message(DEBUG_LEVEL, "idle")]
        /\ UNCHANGED logPath
     \/ /\ path # logPath
        /\ logPath' = path
        /\ Goto(t, "moved")
  /\ UNCHANGED <<created, logLevel, streamSet, named, logFilePath, file, mutex,
                 lost, raced, deaf>>

\* The file is only given up when it is open and the log not switched off.
AfterMove(t) ==
  /\ At(t, "moved")
  /\ \/ /\ IsEnabled /\ logLevel # OFF
        /\ thread' = [thread EXCEPT ![t] = Message(INFO_LEVEL, "close")]
        /\ UNCHANGED deaf
     \/ /\ ~(IsEnabled /\ logLevel # OFF)
        /\ Goto(t, "setstream")
        /\ deaf' = (deaf \/ named)
  /\ UNCHANGED <<settings, named, logFilePath, file, mutex, calls, lost, raced>>

\* std::ofstream::close, which fails when there is no file
Closed(f) == IF f.open = NULL THEN [f EXCEPT !.fail = TRUE] ELSE [f EXCEPT !.open = NULL]

CloseRaces(t) ==
  \E u \in Others(t) : At(u, "enabled") \/ At(u, "write") \/ At(u, "writing")

\* Mutant: the old name is kept
CloseKeepingName(t) ==
  /\ At(t, "close") /\ mutex = NULL
  /\ file' = Closed(file)
  /\ raced' = (raced \/ CloseRaces(t))
  /\ thread' = [thread EXCEPT ![t] = Message(INFO_LEVEL, "setstream")]
  /\ UNCHANGED <<settings, named, logFilePath, mutex, calls, lost, deaf>>

\* Mutant: the mutex is kept for the message that follows
CloseKeepingMutex(t) ==
  /\ At(t, "close") /\ mutex = NULL
  /\ mutex' = t
  /\ file' = Closed(file)
  /\ named' = FALSE
  /\ raced' = (raced \/ CloseRaces(t))
  /\ thread' = [thread EXCEPT ![t] = Message(INFO_LEVEL, "setstream")]
  /\ UNCHANGED <<settings, logFilePath, calls, lost, deaf>>

CloseFile(t) ==
  /\ At(t, "close") /\ mutex = NULL
  /\ file' = Closed(file)
  /\ named' = FALSE
  /\ raced' = (raced \/ CloseRaces(t))
  /\ thread' = [thread EXCEPT ![t] = Message(INFO_LEVEL, "setstream")]
  /\ UNCHANGED <<settings, logFilePath, mutex, calls, lost, deaf>>

SetLogStream(t) ==
  /\ At(t, "setstream")
  /\ streamSet' = TRUE
  /\ thread' = [thread EXCEPT ![t] = Idle]
  /\ UNCHANGED <<created, logLevel, logPath, named, logFilePath, file, mutex,
                 calls, lost, raced, deaf>>

-----------------------------------------------------------------------------
Init ==
  /\ created = 0 /\ logLevel = WARNING_LEVEL /\ logPath = DefaultPath
  /\ named = FALSE /\ logFilePath = NULL /\ streamSet = FALSE
  /\ file = [open |-> NULL, fail |-> FALSE]
  /\ mutex = NULL /\ thread = [t \in Threads |-> Idle] /\ calls = 0
  /\ lost = FALSE /\ raced = FALSE /\ deaf = FALSE

Step(t) ==
  \/ GetLoggerInstance(t) \/ CreateLogger(t) \/ CheckLevel(t) \/ EnableLog(t)
  \/ NameFile(t) \/ OpenFile(t) \/ Enabled(t) \/ WriteMessage(t) \/ WriteLine(t)
  \/ AfterMove(t) \/ CloseFile(t) \/ SetLogStream(t)

Next ==
  \E t \in Threads :
    \/ Step(t)
    \/ \E level \in {ERROR_LEVEL, DEBUG_LEVEL} : Log(t, level)
    \/ \E level \in {OFF, DEBUG_LEVEL} : SetLogLevel(t, level)
    \/ \E path \in Paths : SetLogPath(t, path)

\* A thread in the logger runs on; nothing makes the application call it.
Spec == Init /\ [][Next]_vars /\ \A t \in Threads : WF_vars(Step(t))

-----------------------------------------------------------------------------
(* Properties *)

Pcs == {"idle", "get", "create", "check", "enable", "name", "open", "enabled",
        "write", "writing", "moved", "close", "setstream"}
ThreadStates == [pc : Pcs, level : Levels, then : {"idle", "close", "setstream"}]

TypeOK ==
  /\ created \in 0..2 /\ logLevel \in Levels /\ logPath \in Paths
  /\ named \in BOOLEAN /\ logFilePath \in Paths \cup {NULL}
  /\ streamSet \in BOOLEAN
  /\ file \in [open : Paths \cup {NULL}, fail : BOOLEAN]
  /\ mutex \in Threads \cup {NULL}
  /\ thread \in [Threads -> ThreadStates]
  /\ calls \in 0..MaxCalls
  /\ lost \in BOOLEAN /\ raced \in BOOLEAN /\ deaf \in BOOLEAN

\* However many threads write the first message together, one logger is made
\* (Logger::GetLoggerInstance looks at the pointer again under the mutex).
OneLogger == created <= 1

\* The file that is open is the one the logger has named, so what SetLogPath
\* says of where earlier messages are is true (Logger::EnableLog names the
\* file when it has no name, SetLogPath erases the name when it closes).
OpenWhereNamed == IsFileStreamOpen => named /\ file.open = logFilePath

\* A message that is to be written, in a directory that can be written to,
\* is written, and an open stream is good, unless two threads have opened the
\* file together or a path was changed in the middle of a message: threads
\* that write to an open log never lose one another's messages
\* (Logger::EnableLog, WriteMessage).
NoMessageLost == ~raced => ~lost /\ (IsFileStreamOpen => ~file.fail)

\* Messages reach the file of the one logger.
MessagesArrive == TypeOK /\ OneLogger /\ OpenWhereNamed /\ NoMessageLost

\* When no thread is changing the path, messages go to the directory that
\* was set last, whatever else ran meanwhile, unless a change of the path
\* found a named file it did not close (Logger::SetLogPath).
PathFollowed ==
  \/ deaf
  \/ \E t \in Threads :
       thread[t].pc \in {"moved", "close"} \/ thread[t].then = "close"
  \/ named => logFilePath = logPath

\* Why they hold (the inductive invariants of the proofs).  The mutex is held
\* from naming the file to opening it, and until the file is opened its name
\* stays.
LockInv ==
  /\ \A t \in Threads : At(t, "open") <=> mutex = t
  /\ \A t \in Threads : At(t, "open") => named
  /\ named => logFilePath \in Paths

\* Only a thread in a message has a call to return to.
ThenInv ==
  \A t \in Threads :
    thread[t].pc \in {"idle", "moved", "close", "setstream"} => thread[t].then = "idle"

\* While nothing has raced, one thread at a time opens the file, and a thread
\* that was told that the log is enabled finds it so.
Opening(t) == At(t, "name") \/ At(t, "open")
AloneOpening(t) == streamSet /\ ~IsFileStreamOpen /\ \A u \in Others(t) : ~Opening(u)
EnabledOrReadOnly == streamSet /\ named /\ (IsFileStreamOpen \/ logFilePath \notin Writable)

UnracedInv ==
  raced \/ /\ ~lost /\ (IsFileStreamOpen => ~file.fail)
           /\ \A t \in Threads : Opening(t) => AloneOpening(t)
           /\ \A t \in Threads : At(t, "enabled") => EnabledOrReadOnly
           /\ \A t \in Threads : At(t, "write") \/ At(t, "writing") => IsEnabled

\* Every call of the logger returns: SetLogPath does not log under the mutex
\* that logging takes, which cannot be taken twice.
CallsReturn == \A t \in Threads : ~At(t, "idle") ~> At(t, "idle")
=============================================================================
