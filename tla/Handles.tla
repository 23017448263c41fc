------------------------------ MODULE Handles ------------------------------
(***************************************************************************)
(* Environments, connections, statements and descriptors, and the pointers *)
(* between them.  A handle is the address of an object, and an address may *)
(* be given to a new object once the old one is deleted.                   *)
(*                                                                         *)
(* A statement points to its active row descriptor; a descriptor points to *)
(* its connection and to the statement it was set on last.  The driver     *)
(* clears neither pointer when the other end is deleted.  A call that      *)
(* follows a null pointer or one to a deleted object has no defined        *)
(* outcome: it ends the behaviour, and fault says which call it was.       *)
(*                                                                         *)
(* The Driver Manager between the application and the driver passes only   *)
(* handles that exist, frees connections after their statements and        *)
(* descriptors, environments after their connections, never frees a        *)
(* descriptor that the driver has allocated, and does not let a statement  *)
(* use one of another statement.                                           *)
(***************************************************************************)
EXTENDS Descriptor, Diagnostics, FiniteSets

CONSTANTS Envs, Conns, Stmts, Descs,  \* addresses
          Kinds,      \* the descriptors of a statement that are looked at
          Columns, Buffers,
          Targets,    \* types of buffers, and one the driver does not know
          FieldValues,  \* pairs of a field and a value for SQLSetDescField
          Fields,       \* fields for SQLGetDescField
          Copies,       \* pairs of descriptors for SQLCopyDesc
          MaxMoves,     \* bound: calls that free a handle or move a pointer
          MaxCalls      \* bound: other calls on handles that exist, for each
                        \* number of moves

ASSUME HandlesAssumption ==
  /\ Kinds \subseteq {"ARD", "APD", "IRD", "IPD"} /\ "ARD" \in Kinds
  /\ Columns \subseteq Nat \ {0}
  /\ MaxMoves \in Nat /\ MaxCalls \in [0..MaxMoves -> Nat]

VARIABLES
  live,     \* handles whose object exists
  env,      \* [connections, odbcVersion]
  conn,     \* [env, metadataID]
  stmt,     \* see NewStatement
  desc,     \* see NewDescriptor
  owner,    \* the connection the Driver Manager knows a descriptor by
  diag,     \* the diagnostic records of each handle
  fault,    \* the call that followed a dead pointer, or NULL
  copied,   \* history: descriptors SQLCopyDesc has written
  switched, \* history: statements that have had another row descriptor
  pointed,  \* history: descriptors given a data pointer by SQLSetDescField
  calls     \* calls so far: [moves, others]

history == <<copied, switched, pointed>>
objects == <<live, env, conn, stmt, desc, owner>>
vars == <<objects, diag, fault, history, calls>>

Implicit(s, k) == <<s, k>>
ImplicitOf(s) == {Implicit(s, k) : k \in Kinds}
DescIds == Descs \cup Stmts \X Kinds
Handles == Envs \cup Conns \cup Stmts \cup DescIds

\* The kind of a handle is part of every call, so handles of different kinds
\* are told apart; none is null.  SQLCopyDesc is called with descriptors.
ASSUME AddressesAssumption ==
  /\ Envs \cap (Conns \cup Stmts \cup DescIds) = {}
  /\ Conns \cap (Stmts \cup DescIds) = {}
  /\ Stmts \cap DescIds = {}
  /\ Descs \cap (Stmts \X Kinds) = {}
  /\ NULL \notin Handles
  /\ Copies \subseteq DescIds \X DescIds

-----------------------------------------------------------------------------
(* What the end of a call has in common                                    *)

\* No pointer that is dead has been followed, and none is now.
Sound == fault = NULL /\ UNCHANGED fault

\* The call on h adds the records states and ends with r.
Return(h, states, r) ==
  /\ diag' = [diag EXCEPT ![h] = ApiCall(@, states, r)]
  /\ Sound

Succeed(h) == Return(h, <<>>, "SUCCESS")
Fail(h, state) == Return(h, <<state>>, "ERROR")

\* fn follows a pointer to or from the descriptor d that leads nowhere.
Fault(fn, d) ==
  /\ fault = NULL
  /\ fault' = [fn |-> fn, desc |-> d]
  /\ UNCHANGED <<objects, diag, history>>

Within(n) == n.moves <= MaxMoves /\ n.others <= MaxCalls[n.moves]
Moved ==
  /\ calls' = [calls EXCEPT !.moves = @ + 1]
  /\ Within(calls')
Counted ==
  /\ calls' = [calls EXCEPT !.others = @ + 1]
  /\ Within(calls')

-----------------------------------------------------------------------------
(* Making handles *)

\* Statement::Statement, with the attributes Connection::CreateStatement
\* passes on: the defaults again.  SQL_ATTR_RETRIEVE_DATA among them is
\* refused, but the calls that follow clear the record.
NewStatement(c, s) ==
  [conn |-> c, ard |-> Implicit(s, "ARD"),
   bindings |-> [n \in Columns |-> NULL],
   rowArraySize |-> 1, columnBindOffset |-> NULL, query |-> FALSE]

NewImplicit(s, k) ==
  NewDescriptor(k, NULL, s,
                IF k \in {"ARD", "APD"} THEN InitAppHead(TRUE) ELSE InitImpHead)

NewEnvironment == [connections |-> {}, odbcVersion |-> 3]
NewConnection(e) == [env |-> e, metadataID |-> FALSE]

SQLAllocEnv(e) ==
  /\ e \notin live
  /\ live' = live \cup {e}
  /\ env' = [env EXCEPT ![e] = NewEnvironment]
  /\ diag' = [diag EXCEPT ![e] = NewStorage]
  /\ Sound /\ UNCHANGED <<conn, stmt, desc, owner, history, calls>>

SQLAllocConnect(e, c) ==
  /\ e \in live /\ c \notin live
  /\ live' = live \cup {c}
  /\ env' = [env EXCEPT ![e].connections = @ \cup {c}]
  /\ conn' = [conn EXCEPT ![c] = NewConnection(e)]
  /\ diag' = [diag EXCEPT ![e] = ApiCall(@, <<>>, "SUCCESS"), ![c] = NewStorage]
  /\ Sound /\ UNCHANGED <<stmt, desc, owner, history, calls>>

SQLAllocStmt(c, s) ==
  /\ c \in live /\ s \notin live
  /\ live' = live \cup {s} \cup ImplicitOf(s)
  /\ stmt' = [stmt EXCEPT ![s] = NewStatement(c, s)]
  /\ desc' = [d \in DescIds |-> IF d \in ImplicitOf(s) THEN NewImplicit(s, d[2])
                                                       ELSE desc[d]]
  /\ diag' = [h \in Handles |-> CASE h = c -> ApiCall(diag[c], <<>>, "SUCCESS")
                                  [] h = s \/ h \in ImplicitOf(s) -> NewStorage
                                  [] OTHER -> diag[h]]
  /\ pointed' = pointed \ ImplicitOf(s) /\ switched' = switched \ {s}
  /\ Sound /\ UNCHANGED <<env, conn, owner, copied, calls>>

SQLAllocDesc(c, d) ==
  /\ c \in live /\ d \notin live
  /\ live' = live \cup {d}
  /\ desc' = [desc EXCEPT ![d] =
                NewDescriptor("UNKNOWN", c, NULL, InitAppHead(FALSE))]
  /\ owner' = [owner EXCEPT ![d] = c]
  /\ diag' = [diag EXCEPT ![c] = ApiCall(@, <<>>, "SUCCESS"), ![d] = NewStorage]
  /\ Sound /\ UNCHANGED <<env, conn, stmt, history, calls>>

-----------------------------------------------------------------------------
(* Freeing handles.  What a deleted object held is forgotten.              *)

NoDescriptor == NewDescriptor("UNKNOWN", NULL, NULL, NoHeader)

Freed(h) ==
  /\ diag' = [g \in Handles |-> IF g = h \/ (h \in Stmts /\ g \in ImplicitOf(h))
                                THEN NewStorage ELSE diag[g]]
  /\ Sound

SQLFreeEnv(e) ==
  /\ e \in live
  /\ Moved
  /\ \A c \in Conns \cap live : conn[c].env # e    \* the Driver Manager's
  /\ live' = live \ {e}
  /\ env' = [env EXCEPT ![e] = NewEnvironment]
  /\ Freed(e)
  /\ UNCHANGED <<conn, stmt, desc, owner, history>>

SQLFreeConnect(c) ==
  /\ c \in live
  /\ Moved
  /\ \A s \in Stmts \cap live : stmt[s].conn # c   \* the Driver Manager's
  /\ \A d \in Descs \cap live : owner[d] # c
  /\ env' = [env EXCEPT ![conn[c].env].connections = @ \ {c}]
  /\ conn' = [conn EXCEPT ![c] = NewConnection(NULL)]
  /\ live' = live \ {c}
  /\ Freed(c)
  /\ UNCHANGED <<stmt, desc, owner, history>>

\* The descriptors set on the statement are not told.
SQLDropStmt(s) ==
  /\ s \in live
  /\ Moved
  /\ live' = live \ ({s} \cup ImplicitOf(s))
  /\ stmt' = [stmt EXCEPT ![s] = NewStatement(NULL, s)]
  /\ desc' = [d \in DescIds |-> IF d \in ImplicitOf(s) THEN NoDescriptor
                                                       ELSE desc[d]]
  /\ Freed(s)
  /\ UNCHANGED <<env, conn, owner, history>>

RestoreDescriptor(s, type) ==
  IF type = "ARD" THEN [stmt[s] EXCEPT !.ard = Implicit(s, "ARD")] ELSE stmt[s]

\* Descriptor::Deregister and delete.  The statement gets its own row
\* descriptor back, whichever descriptor it is using.
SQLFreeDescriptor(d) ==
  /\ d \in live
  /\ Moved
  /\ LET s == desc[d].stmt
     IN \/ /\ s \notin live
           /\ Fault("SQLFreeDescriptor", d)
        \/ /\ s \in live
           /\ stmt' = [stmt EXCEPT ![s] = RestoreDescriptor(s, desc[d].type)]
           /\ desc' = [desc EXCEPT ![d] = NoDescriptor]
           /\ owner' = [owner EXCEPT ![d] = NULL]
           /\ live' = live \ {d}
           /\ Freed(d)
           /\ UNCHANGED <<env, conn, history>>

-----------------------------------------------------------------------------
(* The row descriptor of a statement *)

\* Mutant: a descriptor that is in use elsewhere is taken
RefusalOfTaken(s, d) == IF desc[d].conn # stmt[s].conn THEN "HY024" ELSE "00000"

\* SQL_ATTR_APP_ROW_DESC: why the descriptor is refused
Refusal(s, d) ==
  CASE desc[d].conn # stmt[s].conn -> "HY024"
    [] desc[d].conn = stmt[s].conn /\ desc[d].stmt \notin {NULL, s} -> "HY000"
    [] OTHER -> "00000"

SetARDDesc(s, d) ==
  /\ stmt' = [stmt EXCEPT ![s].ard = d]
  /\ desc' = [desc EXCEPT ![d].type = "ARD", ![d].stmt = s]

\* The array size and the bind offset stay with the statement.
SQLSetAppRowDesc(s, d) ==
  /\ s \in live /\ d \in live
  /\ Moved
  /\ \/ /\ Refusal(s, d) # "00000"
        /\ Fail(s, Refusal(s, d))
        /\ UNCHANGED <<objects, history>>
     \/ /\ Refusal(s, d) = "00000"
        /\ SetARDDesc(s, d)
        /\ switched' = switched \cup {s}
        /\ Succeed(s)
        /\ UNCHANGED <<live, env, conn, owner, copied, pointed>>

SQLResetAppRowDesc(s) ==
  /\ s \in live
  /\ Moved
  /\ stmt' = [stmt EXCEPT ![s].ard = Implicit(s, "ARD")]
  /\ Succeed(s)
  /\ UNCHANGED <<live, env, conn, desc, owner, history>>

SQLCopyDesc(src, dst) ==
  /\ src \in live /\ dst \in live
  /\ Moved
  /\ \/ /\ desc[dst].type = "IRD"
        /\ Fail(src, "HY016")
        /\ UNCHANGED <<objects, history>>
     \/ /\ desc[dst].type # "IRD"
        /\ desc' = [desc EXCEPT ![dst] = CopyOf(desc[src], src = dst)]
        /\ copied' = copied \cup {dst}
        /\ Succeed(src)
        /\ UNCHANGED <<live, env, conn, stmt, owner, switched, pointed>>

-----------------------------------------------------------------------------
(* Columns and fields *)

\* Statement::SetDescriptorFields
Described(d, n, target, buf) ==
  [WithRecord(d, n, BoundRecord(RecordAt(d, n), target, buf, buf))
     EXCEPT !.head.count = IF @ < n THEN n ELSE @]

\* buf is NULL when both the buffer and the indicator are; lenOk is FALSE
\* for a length that is negative, or zero with a buffer for text.
SQLBindCol(s, n, target, buf, lenOk) ==
  /\ s \in live
  /\ Counted
  /\ LET d == stmt[s].ard
     IN \/ /\ target = "UNSUPPORTED"
           /\ Fail(s, "HY003")
           /\ UNCHANGED <<objects, history>>
        \/ /\ target # "UNSUPPORTED" /\ ~lenOk
           /\ Fail(s, "HY090")
           /\ UNCHANGED <<objects, history>>
        \/ /\ target # "UNSUPPORTED" /\ lenOk /\ buf = NULL
           /\ stmt' = [stmt EXCEPT ![s].bindings[n] = NULL]
           /\ Succeed(s)
           /\ UNCHANGED <<live, env, conn, desc, owner, history>>
        \/ /\ target # "UNSUPPORTED" /\ lenOk /\ buf # NULL /\ d \in live
           /\ stmt' = [stmt EXCEPT ![s].bindings[n] = buf]
           /\ desc' = [desc EXCEPT ![d] = Described(@, n, target, buf)]
           /\ Succeed(s)
           /\ UNCHANGED <<live, env, conn, owner, history>>
        \/ /\ target # "UNSUPPORTED" /\ lenOk /\ buf # NULL /\ d \notin live
           /\ Fault("SQLBindCol", d)

\* SQLFreeStmt with SQL_UNBIND: the descriptor is not touched
SQLUnbind(s) ==
  /\ s \in live
  /\ Counted
  /\ stmt' = [stmt EXCEPT ![s].bindings = [n \in Columns |-> NULL]]
  /\ Succeed(s)
  /\ UNCHANGED <<live, env, conn, desc, owner, history>>

\* lenOk is FALSE for a negative length that is neither SQL_NTS nor
\* SQL_IS_POINTER.  The record comes into being even when the field is
\* refused.
SQLSetDescField(d, n, field, v, lenOk) ==
  /\ d \in live
  /\ Counted
  /\ LET out == FieldOutcome(RecordAt(desc[d], n), field, v)
         s == desc[d].stmt
         unbinds == field = "DATA_PTR" /\ v = NULL
     IN \/ /\ ~lenOk
           /\ Fail(d, "HY000")
           /\ UNCHANGED <<objects, history>>
        \/ /\ lenOk /\ unbinds /\ s \notin live
           /\ Fault("SQLSetDescField", d)
        \/ /\ lenOk /\ (unbinds => s \in live)
           /\ desc' = [desc EXCEPT ![d] = WithRecord(@, n, out.record)]
           /\ stmt' = IF unbinds THEN [stmt EXCEPT ![s].bindings[n] = NULL] ELSE stmt
           /\ pointed' = IF field = "DATA_PTR" /\ v # NULL THEN pointed \cup {d}
                                                           ELSE pointed
           /\ IF out.state = "00000" THEN Succeed(d) ELSE Fail(d, out.state)
           /\ UNCHANGED <<live, env, conn, owner, copied, switched>>

\* Reading a field makes the record as well.
SQLGetDescField(d, n, field) ==
  /\ d \in live
  /\ Counted
  /\ desc' = [desc EXCEPT ![d] = WithRecord(@, n, RecordAt(@, n))]
  /\ IF desc[d].type \in ReadableFrom(field) THEN Succeed(d) ELSE Fail(d, "HY000")
  /\ UNCHANGED <<live, env, conn, stmt, owner, history>>

-----------------------------------------------------------------------------
Init ==
  /\ live = {}
  /\ env = [e \in Envs |-> NewEnvironment]
  /\ conn = [c \in Conns |-> NewConnection(NULL)]
  /\ stmt = [s \in Stmts |-> NewStatement(NULL, s)]
  /\ desc = [d \in DescIds |-> NoDescriptor]
  /\ owner = [d \in Descs |-> NULL]
  /\ diag = [h \in Handles |-> NewStorage]
  /\ fault = NULL
  /\ copied = {} /\ switched = {} /\ pointed = {}
  /\ calls = [moves |-> 0, others |-> 0]

HandleCalls ==
  \/ \E e \in Envs : SQLAllocEnv(e) \/ SQLFreeEnv(e)
  \/ \E e \in Envs, c \in Conns : SQLAllocConnect(e, c)
  \/ \E c \in Conns : SQLFreeConnect(c)
  \/ \E c \in Conns, s \in Stmts : SQLAllocStmt(c, s)
  \/ \E c \in Conns, d \in Descs : SQLAllocDesc(c, d)
  \/ \E d \in Descs : SQLFreeDescriptor(d)
  \/ \E s \in Stmts : SQLDropStmt(s) \/ SQLResetAppRowDesc(s) \/ SQLUnbind(s)
  \/ \E s \in Stmts : \E d \in Descs \cup {Implicit(s, "ARD")} :
       SQLSetAppRowDesc(s, d)
  \/ \E p \in Copies : SQLCopyDesc(p[1], p[2])
  \/ \E s \in Stmts, n \in Columns, t \in Targets, b \in Buffers \cup {NULL},
        lenOk \in BOOLEAN : SQLBindCol(s, n, t, b, lenOk)
  \/ \E d \in DescIds, n \in Columns, fv \in FieldValues, lenOk \in BOOLEAN :
       SQLSetDescField(d, n, fv[1], fv[2], lenOk)
  \/ \E d \in DescIds, n \in Columns, f \in Fields : SQLGetDescField(d, n, f)
=============================================================================
