----------------------------- MODULE CursorNames -----------------------------
(***************************************************************************)
(* The cursor names of a connection: SQLSetCursorName and the drop of a    *)
(* statement, on statements that different threads use at the same time.   *)
(*                                                                         *)
(* InternalSetCursorName looks the name up without a lock                  *)
(* (CursorNameExists) and adds it under cursorNameMutex_ (AddCursorName):  *)
(* two steps, between which calls on other statements go on.  A lookup     *)
(* that runs while another thread changes the set is a data race: it may   *)
(* find any answer.                                                        *)
(***************************************************************************)
EXTENDS Naturals, FiniteSets

CONSTANTS Stmts,     \* the statements of the connection
          Names,     \* names an application asks for
          BadNames,  \* those that are too long or start with SQL_CUR
          NoName     \* no cursor name

ASSUME CursorNamesAssumption ==
  /\ NoName \notin Names
  /\ BadNames \subseteq Names

VARIABLES cursorNames_,    \* the names in use
          cursorNameMap_,  \* the name of each statement, or NoName
          call,            \* where the call on each statement is
          name,            \* the name that call asks for
          ret,             \* the result of the last call on it
          overlapped       \* history: names asked for by a call that ran at
                           \* the same time as another one

namesVars == <<cursorNames_, cursorNameMap_, call, name, ret, overlapped>>

NamesTypeOK ==
  /\ cursorNames_ \subseteq Names \ BadNames
  /\ cursorNameMap_ \in [Stmts -> (Names \ BadNames) \cup {NoName}]
  /\ call \in [Stmts -> {"none", "idle", "lookup", "add", "drop"}]
  /\ name \in [Stmts -> Names \cup {NoName}]
  /\ ret \in [Stmts -> {"none", "SUCCESS", "ERROR"}]
  /\ \A s \in Stmts :
       IF call[s] \in {"lookup", "add"} THEN name[s] \in Names \ BadNames
       ELSE name[s] = NoName
  /\ overlapped \subseteq Names

NamesInit ==
  /\ cursorNames_ = {}
  /\ cursorNameMap_ = [s \in Stmts |-> NoName]
  /\ call = [s \in Stmts |-> "none"]
  /\ name = [s \in Stmts |-> NoName]
  /\ ret = [s \in Stmts |-> "none"]
  /\ overlapped = {}

\* The statements whose call is under way.
Running == {s \in Stmts : call[s] \in {"lookup", "add", "drop"}}

\* A call that asks for n begins beside those under way.
Begun(n) ==
  IF Running = {} THEN overlapped
  ELSE (overlapped \cup {n} \cup {name[t] : t \in Running}) \ {NoName}

\* SQLAllocHandle(SQL_HANDLE_STMT)
Allocate(s) ==
  /\ call[s] = "none"
  /\ call' = [call EXCEPT ![s] = "idle"]
  /\ UNCHANGED <<cursorNames_, cursorNameMap_, name, ret, overlapped>>

\* The checks of the name itself.
SetCursorName(s, n) ==
  /\ call[s] = "idle"
  /\ IF n \in BadNames
     THEN /\ ret' = [ret EXCEPT ![s] = "ERROR"]
          /\ UNCHANGED <<call, name, overlapped>>
     ELSE /\ call' = [call EXCEPT ![s] = "lookup"]
          /\ name' = [name EXCEPT ![s] = n]
          /\ overlapped' = Begun(n)
          /\ UNCHANGED ret
  /\ UNCHANGED <<cursorNames_, cursorNameMap_>>

\* What cursorNames_.find(cursorName) may answer: anything while another
\* thread is in AddCursorName or RemoveCursorName.
Found(s) ==
  IF \E t \in Stmts \ {s} : call[t] \in {"add", "drop"} THEN BOOLEAN
  ELSE {name[s] \in cursorNames_}

\* The call of s goes on with the answer found.
Looked(s, found) ==
  /\ call[s] = "lookup"
  /\ IF found
     THEN /\ call' = [call EXCEPT ![s] = "idle"]
          /\ ret' = [ret EXCEPT ![s] = "ERROR"]
          /\ name' = [name EXCEPT ![s] = NoName]
     ELSE /\ call' = [call EXCEPT ![s] = "add"]
          /\ UNCHANGED <<name, ret>>
  /\ UNCHANGED <<cursorNames_, cursorNameMap_, overlapped>>

\* Mutant: only the statement's own name is looked up.
CursorNameExistsForStatement(s) == Looked(s, name[s] = cursorNameMap_[s])

\* connection.CursorNameExists(cursorName), without the mutex
CursorNameExists(s) == \E found \in Found(s) : Looked(s, found)

\* Mutant: the name the statement had before is kept in use.
AddCursorNameKeepsOld(s) ==
  /\ call[s] = "add"
  /\ cursorNames_' = cursorNames_ \cup {name[s]}
  /\ cursorNameMap_' = [cursorNameMap_ EXCEPT ![s] = name[s]]
  /\ call' = [call EXCEPT ![s] = "idle"]
  /\ name' = [name EXCEPT ![s] = NoName]
  /\ ret' = [ret EXCEPT ![s] = "SUCCESS"]
  /\ UNCHANGED overlapped

\* connection.AddCursorName(this, cursorName), one critical section
AddCursorName(s) ==
  /\ call[s] = "add"
  /\ cursorNames_' = (cursorNames_ \ {cursorNameMap_[s]}) \cup {name[s]}
  /\ cursorNameMap_' = [cursorNameMap_ EXCEPT ![s] = name[s]]
  /\ call' = [call EXCEPT ![s] = "idle"]
  /\ name' = [name EXCEPT ![s] = NoName]
  /\ ret' = [ret EXCEPT ![s] = "SUCCESS"]
  /\ UNCHANGED overlapped

\* SQLFreeStmt(SQL_DROP) on s begins ...
Drop(s) ==
  /\ call[s] = "idle"
  /\ call' = [call EXCEPT ![s] = "drop"]
  /\ overlapped' = Begun(NoName)
  /\ UNCHANGED <<cursorNames_, cursorNameMap_, name, ret>>

\* ... RemoveCursorName, one critical section; then the statement is deleted.
RemoveCursorName(s) ==
  /\ call[s] = "drop"
  /\ cursorNames_' = cursorNames_ \ {cursorNameMap_[s]}
  /\ cursorNameMap_' = [cursorNameMap_ EXCEPT ![s] = NoName]
  /\ call' = [call EXCEPT ![s] = "none"]
  /\ ret' = [ret EXCEPT ![s] = "none"]
  /\ UNCHANGED <<name, overlapped>>

NamesNext ==
  \E s \in Stmts :
    \/ Allocate(s)
    \/ \E n \in Names : SetCursorName(s, n)
    \/ CursorNameExists(s)
    \/ AddCursorName(s)
    \/ Drop(s)
    \/ RemoveCursorName(s)

NamesSpec == NamesInit /\ [][NamesNext]_namesVars

-----------------------------------------------------------------------------
\* A name in cursorNames_, which CursorNameExists refuses, is the name of some
\* statement: neither a rename nor the drop of a statement leaves a name behind
\* that nobody can use any more, however calls overlap.
NoNameLeaks == \A n \in cursorNames_ : \E s \in Stmts : cursorNameMap_[s] = n

\* "cursor name must be unique for a connection" (InternalSetCursorName)
NamesUnique ==
  \A s, t \in Stmts :
    s # t /\ cursorNameMap_[s] = cursorNameMap_[t] => cursorNameMap_[s] = NoName

\* Two statements have the same name only if some call that asked for that name
\* ran at the same time as another call: overlapping calls for one name do not
\* spoil the uniqueness of the others, and a name that was never asked for in
\* an overlap stays reserved through all renames and drops
\* (InternalSetCursorName, AddCursorName, RemoveCursorName).
SharedOnlyAfterOverlap ==
  \A s, t \in Stmts :
    s # t /\ cursorNameMap_[s] = cursorNameMap_[t] =>
      cursorNameMap_[s] \in overlapped \cup {NoName}

\* Why (the inductive invariant): a name not in overlapped is in the set while
\* a statement has it, the call that asks for it runs alone, and what that call
\* found free is still free when it is added.
OverlapInv ==
  /\ SharedOnlyAfterOverlap
  /\ \A s \in Stmts : cursorNameMap_[s] \in cursorNames_ \cup overlapped \cup {NoName}
  /\ \A s \in Running :
       call[s] # "drop" /\ name[s] \notin overlapped => Running = {s}
  /\ \A s \in Stmts :
       call[s] = "add" /\ name[s] \notin overlapped => name[s] \notin cursorNames_
=============================================================================
