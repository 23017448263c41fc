------------------------- MODULE SharedStateProofs -------------------------
(***************************************************************************)
(* Proofs about what the threads of an application share.                  *)
(*                                                                         *)
(* AwsSdkLifecycle, shared by all connections: with allocations and frees  *)
(* kept apart, the double-checked initialisation and the reference count   *)
(* are right for any number of connections.                                *)
(*                                                                         *)
(* CursorNames, shared by the statements of a connection: no name leaks,   *)
(* and two statements share a name only after calls that overlapped.       *)
(***************************************************************************)
EXTENDS AwsSdkLifecycle, CursorNames, FiniteSetTheorems, TLAPS

\* The connections that refCount_ counts.
CountedSet == {c \in Conns : pc[c] \in Counted}

\* ++refCount_ and --refCount_ keep the count exact: one more, or one less,
\* connection is counted, and zero means that none is left.
LEMMA CountOfConnections ==
  /\ CountedSet \subseteq Conns
  /\ IsFiniteSet(CountedSet)
  /\ Cardinality(CountedSet) \in Nat
  /\ Cardinality(CountedSet) = 0 <=> CountedSet = {}
  /\ \A c \in Conns \ CountedSet :
       Cardinality(CountedSet \cup {c}) = Cardinality(CountedSet) + 1
  /\ \A c \in CountedSet :
       Cardinality(CountedSet \ {c}) = Cardinality(CountedSet) - 1
<1>1. CountedSet \subseteq Conns
  BY DEF CountedSet
<1>2. IsFiniteSet(CountedSet)
  BY <1>1, FS_Subset, LifecycleAssumption
<1>3. /\ Cardinality(CountedSet) \in Nat
      /\ Cardinality(CountedSet) = 0 <=> CountedSet = {}
  BY <1>2, FS_CardinalityType, FS_EmptySet
<1>4. \A c \in Conns \ CountedSet :
        Cardinality(CountedSet \cup {c}) = Cardinality(CountedSet) + 1
  BY <1>2, FS_AddElement
<1>5. \A c \in CountedSet :
        Cardinality(CountedSet \ {c}) = Cardinality(CountedSet) - 1
  BY <1>2, FS_RemoveElement
<1> QED
  BY <1>1, <1>2, <1>3, <1>4, <1>5

\* LifecycleInv holds initially.
LEMMA LifecycleInit == Init => TypeOK /\ LifecycleInv
<1> SUFFICES ASSUME Init PROVE TypeOK /\ LifecycleInv
  OBVIOUS
<1>1. CountedSet = {}
  BY DEF Init, CountedSet, Counted
<1>2. refCount_ = Cardinality({c \in Conns : pc[c] \in Counted})
  BY <1>1, CountOfConnections DEF Init, CountedSet
<1>3. TypeOK
  <2>1. awsSDKReady_ \in BOOLEAN
    BY Zenon DEF Init
  <2> QED
    BY <2>1 DEF Init, TypeOK
<1>4. LifecycleInv
  BY <1>2, LifecycleAssumption
     DEF Init, LifecycleInv, Locked, Destroying, Constructing
<1> QED
  BY <1>3, <1>4

\* The steps of a constructor or destructor that leave refCount_ alone.
LEMMA UncountedStep ==
  ASSUME Phased, TypeOK, LifecycleInv, NEW c \in Conns,
         \/ Construct(c) \/ Check(c) \/ Lock(c) \/ Recheck(c) \/ InitAPI(c)
         \/ Publish(c) \/ Destruct(c) \/ ShutdownAPI(c) \/ Clear(c)
  PROVE  TypeOK' /\ LifecycleInv'
<1> USE LifecycleAssumption
        DEF TypeOK, LifecycleInv, Goto, Locked, Counted, Destroying, Constructing
<1>0. CountedSet' = CountedSet /\ refCount_' = refCount_
  BY DEF CountedSet, Construct, Check, Lock, Recheck, InitAPI, Publish, Destruct,
         ShutdownAPI, Clear
<1>1. refCount_' = Cardinality({d \in Conns : pc'[d] \in Counted})
  BY <1>0 DEF CountedSet
<1>2. CASE Construct(c)
  BY <1>1, <1>2 DEF Construct
<1>3. CASE Check(c)
  BY <1>1, <1>3 DEF Check
<1>4. CASE Lock(c)
  BY <1>1, <1>4 DEF Lock
<1>5. CASE Recheck(c)
  BY <1>1, <1>5 DEF Recheck
<1>6. CASE InitAPI(c)
  BY <1>1, <1>6 DEF InitAPI
<1>7. CASE Publish(c)
  BY <1>1, <1>7 DEF Publish
<1>8. CASE Destruct(c)
  BY <1>1, <1>8 DEF Destruct
<1>9. CASE ShutdownAPI(c)
  BY <1>1, <1>9 DEF ShutdownAPI
<1>10. CASE Clear(c)
  <2>1. /\ pc[c] = "clear" /\ pc' = [pc EXCEPT ![c] = "none"]
        /\ UNCHANGED <<mutex_, refCount_, sdk>>
    BY <1>10 DEF Clear
  <2>2. ~awsSDKReady_' /\ awsSDKReady_' \in BOOLEAN
    BY <1>10, Zenon DEF Clear
  <2>3. \A d \in Conns : pc'[d] \in {"none"}
    BY <2>1
  <2>4. sdk = 0
    BY <2>1
  <2> QED
    BY <1>1, <2>1, <2>2, <2>3, <2>4
<1> QED
  BY <1>2, <1>3, <1>4, <1>5, <1>6, <1>7, <1>8, <1>9, <1>10

\* ++refCount_ and 0 == --refCount_.
LEMMA CountStep ==
  ASSUME Phased, TypeOK, LifecycleInv, NEW c \in Conns, Count(c) \/ Uncount(c)
  PROVE  TypeOK' /\ LifecycleInv'
<1> USE LifecycleAssumption DEF TypeOK
<1>1. CASE Count(c)
  <2>1. /\ pc[c] = "count" /\ pc' = [pc EXCEPT ![c] = "live"]
        /\ refCount_' = refCount_ + 1
        /\ UNCHANGED <<mutex_, awsSDKReady_, sdk>>
    BY <1>1 DEF Count, Goto
  <2>2. c \notin CountedSet /\ CountedSet' = CountedSet \cup {c}
    BY <2>1 DEF CountedSet, Counted
  <2>3. refCount_' = Cardinality({d \in Conns : pc'[d] \in Counted})
    BY <2>1, <2>2, CountOfConnections DEF CountedSet, LifecycleInv
  <2> QED
    BY <2>1, <2>3 DEF LifecycleInv, Locked, Counted, Destroying, Constructing
<1>2. CASE Uncount(c)
  <2>1. pc[c] = "uncount" /\ refCount_' = refCount_ - 1
        /\ pc' = [pc EXCEPT ![c] = IF refCount_' = 0 THEN "shutdown" ELSE "none"]
        /\ UNCHANGED <<mutex_, awsSDKReady_, sdk>>
    BY <1>2 DEF Uncount, Goto
  <2>2. c \in CountedSet /\ CountedSet' = CountedSet \ {c}
    BY <2>1 DEF CountedSet, Counted
  <2>3. refCount_' = Cardinality(CountedSet \ {c}) /\ refCount_' \in Nat
    <3>1. refCount_ = Cardinality(CountedSet)
      BY DEF LifecycleInv, CountedSet
    <3>2. Cardinality(CountedSet) # 0
      BY <2>2, CountOfConnections
    <3> QED
      BY <2>1, <2>2, <3>1, <3>2, CountOfConnections
  <2>4. refCount_' = Cardinality({d \in Conns : pc'[d] \in Counted})
    BY <2>2, <2>3 DEF CountedSet
  <2>5. CASE refCount_' = 0
    <3>1. CountedSet' = {}
      <4>1. IsFiniteSet(CountedSet \ {c})
        BY CountOfConnections, FS_Difference
      <4> QED
        BY <4>1, <2>2, <2>3, <2>5, FS_EmptySet
    <3>2. \A d \in Conns : pc'[d] \notin Counted
      BY <3>1 DEF CountedSet
    <3>3. pc' = [pc EXCEPT ![c] = "shutdown"]
      BY <2>1, <2>5
    <3>4. \A d \in Conns : pc[d] \notin {"shutdown", "clear"}
      BY <2>1 DEF LifecycleInv, Counted
    <3>5. awsSDKReady_ /\ \A d \in Conns : pc[d] \notin Constructing
      BY <2>1 DEF LifecycleInv, Destroying
    <3>6. \A d \in Conns : pc'[d] # "clear" /\ pc'[d] \notin Constructing
      BY <3>3, <3>4, <3>5 DEF Constructing
    <3>7. sdk = 1
      BY <3>4, <3>5 DEF LifecycleInv
    <3>8. \A d \in Conns : pc'[d] \in Locked <=> mutex_' = d
      BY <2>1, <3>3 DEF LifecycleInv, Locked
    <3>9. \A d, e \in Conns : /\ pc'[d] \in {"shutdown", "clear"}
                              /\ pc'[e] \in {"shutdown", "clear"}
                            => d = e
      BY <3>3, <3>4
    <3>10. TypeOK'
      BY <2>1, <2>3, <3>3 DEF Destroying
    <3> QED
      BY <2>1, <2>4, <3>2, <3>3, <3>5, <3>6, <3>7, <3>8, <3>9, <3>10
         DEF LifecycleInv, Constructing
  <2>6. CASE refCount_' # 0
    <3>1. PICK d \in Conns : pc'[d] \in Counted
      <4>1. CountedSet' # {}
        BY <2>2, <2>3, <2>6, FS_EmptySet
      <4> QED
        BY <4>1 DEF CountedSet
    <3> QED
      BY <2>1, <2>3, <2>4, <2>6, <3>1
         DEF LifecycleInv, Locked, Counted, Destroying, Constructing
  <2> QED
    BY <2>5, <2>6
<1> QED
  BY <1>1, <1>2

\* LifecycleInv is inductive when allocations and frees are kept apart.
LEMMA LifecycleInductive == ASSUME Phased PROVE Spec => [](TypeOK /\ LifecycleInv)
<1>1. TypeOK /\ LifecycleInv /\ [Next]_vars => (TypeOK /\ LifecycleInv)'
  <2> SUFFICES ASSUME TypeOK, LifecycleInv, [Next]_vars PROVE (TypeOK /\ LifecycleInv)'
    OBVIOUS
  <2>1. CASE UNCHANGED vars
    BY <2>1 DEF vars, TypeOK, LifecycleInv
  <2>2. CASE Next
    BY <2>2, UncountedStep, CountStep DEF Next, Step
  <2> QED
    BY <2>1, <2>2
<1> QED
  BY <1>1, LifecycleInit, PTL DEF Spec

\* With allocations and frees kept apart, no living connection is ever without
\* the SDK, whatever the interleaving of the constructors among themselves and
\* of the destructors among themselves.
THEOREM SdkUpWhileLiveWhenPhased == ASSUME Phased PROVE Spec => []SdkUpWhileLive
<1>1. TypeOK /\ LifecycleInv => SdkUpWhileLive
  BY DEF TypeOK, LifecycleInv, SdkUpWhileLive, Counted
<1> QED
  BY <1>1, LifecycleInductive, PTL

\* With allocations and frees kept apart, the SDK is never initialised twice
\* and never shut down twice.
THEOREM SdkOnceWhenPhased == ASSUME Phased PROVE Spec => []SdkOnce
<1>1. LifecycleInv => SdkOnce
  BY DEF LifecycleInv, SdkOnce
<1> QED
  BY <1>1, LifecycleInductive, PTL

\* With allocations and frees kept apart, the last destructor leaves the SDK
\* shut down.
THEOREM SdkDownWhenUnusedWhenPhased ==
  ASSUME Phased PROVE Spec => []SdkDownWhenUnused
<1>1. TypeOK /\ LifecycleInv => SdkDownWhenUnused
  BY DEF TypeOK, LifecycleInv, SdkDownWhenUnused
<1> QED
  BY <1>1, LifecycleInductive, PTL

-----------------------------------------------------------------------------
(* The cursor names of a connection.                                       *)

\* The names that a call asks for which begins now, or which is under way.
LEMMA BegunType ==
  ASSUME NamesTypeOK, NEW n \in Names \cup {NoName}
  PROVE  Begun(n) \subseteq Names /\ overlapped \subseteq Begun(n)
  BY CursorNamesAssumption DEF NamesTypeOK, Begun, Running

\* Every step keeps the types.
LEMMA NamesTypeStep ==
  ASSUME NamesTypeOK, [NamesNext]_namesVars PROVE NamesTypeOK'
<1> USE CursorNamesAssumption DEF NamesTypeOK
<1>1. CASE UNCHANGED namesVars
  BY <1>1 DEF namesVars
<1>2. ASSUME NEW s \in Stmts, Allocate(s) PROVE NamesTypeOK'
  BY <1>2 DEF Allocate
<1>3. ASSUME NEW s \in Stmts, NEW n \in Names, SetCursorName(s, n)
      PROVE  NamesTypeOK'
  BY <1>3, BegunType DEF SetCursorName
<1>4. ASSUME NEW s \in Stmts, CursorNameExists(s) PROVE NamesTypeOK'
  BY <1>4 DEF CursorNameExists, Looked
<1>5. ASSUME NEW s \in Stmts, AddCursorName(s) PROVE NamesTypeOK'
  BY <1>5 DEF AddCursorName
<1>6. ASSUME NEW s \in Stmts, Drop(s) PROVE NamesTypeOK'
  BY <1>6, BegunType DEF Drop
<1>7. ASSUME NEW s \in Stmts, RemoveCursorName(s) PROVE NamesTypeOK'
  BY <1>7 DEF RemoveCursorName
<1> QED
  BY <1>1, <1>2, <1>3, <1>4, <1>5, <1>6, <1>7 DEF NamesNext

\* Every step keeps a statement for every name in use.
LEMMA LeakStep ==
  ASSUME NamesTypeOK, NoNameLeaks, [NamesNext]_namesVars
  PROVE  NoNameLeaks'
<1> USE CursorNamesAssumption DEF NamesTypeOK, NoNameLeaks
<1>1. CASE UNCHANGED <<cursorNames_, cursorNameMap_>>
  BY <1>1
<1>2. ASSUME NEW s \in Stmts, AddCursorName(s) PROVE NoNameLeaks'
  BY <1>2 DEF AddCursorName
<1>3. ASSUME NEW s \in Stmts, RemoveCursorName(s) PROVE NoNameLeaks'
  BY <1>3 DEF RemoveCursorName
<1> QED
  BY <1>1, <1>2, <1>3
     DEF NamesNext, namesVars, Allocate, SetCursorName, CursorNameExists, Looked,
         Drop

\* A call on s begins: those under way are noted, and it is beside them.
LEMMA CallBegins ==
  ASSUME NamesTypeOK, OverlapInv, NEW s \in Stmts, NEW n \in Names \cup {NoName},
         s \notin Running, Running' = Running \cup {s}, overlapped' = Begun(n),
         \A t \in Running : call'[t] = call[t] /\ name'[t] = name[t],
         call'[s] \in {"lookup", "drop"}, name'[s] = n,
         call'[s] # "drop" => n # NoName,
         \A t \in Stmts : call'[t] = "add" => t \in Running,
         UNCHANGED <<cursorNames_, cursorNameMap_>>
  PROVE  OverlapInv'
<1>1. overlapped \subseteq overlapped'
  BY BegunType
<1>2. SharedOnlyAfterOverlap'
  BY <1>1 DEF OverlapInv, SharedOnlyAfterOverlap
<1>3. \A t \in Stmts : cursorNameMap_'[t] \in cursorNames_' \cup overlapped' \cup {NoName}
  BY <1>1 DEF OverlapInv
<1>4. ASSUME NEW t \in Running', call'[t] # "drop", name'[t] \notin overlapped'
      PROVE  Running' = {t}
  <2>1. name'[t] # NoName
    <3>1. CASE t \in Running
      BY <1>4, <3>1, CursorNamesAssumption DEF NamesTypeOK, Running
    <3>2. CASE t = s
      BY <1>4, <3>2
    <3> QED
      BY <3>1, <3>2
  <2>2. Running = {}
    BY <1>4, <2>1 DEF Begun
  <2> QED
    BY <1>4, <2>2
<1>5. ASSUME NEW t \in Stmts, call'[t] = "add", name'[t] \notin overlapped'
      PROVE  name'[t] \notin cursorNames_'
  BY <1>1, <1>5 DEF OverlapInv
<1> QED
  BY <1>2, <1>3, <1>4, <1>5 DEF OverlapInv

\* Every step keeps the names that no overlap has touched apart.
LEMMA OverlapStep ==
  ASSUME NamesTypeOK, OverlapInv, [NamesNext]_namesVars
  PROVE  OverlapInv'
<1> USE CursorNamesAssumption
<1>1. CASE UNCHANGED namesVars
  BY <1>1 DEF namesVars, OverlapInv, SharedOnlyAfterOverlap, Running
<1>2. ASSUME NEW s \in Stmts, Allocate(s) PROVE OverlapInv'
  <2>1. Running' = Running /\ \A t \in Running : call'[t] = call[t]
    BY <1>2 DEF Allocate, Running, NamesTypeOK
  <2> QED
    BY <1>2, <2>1 DEF Allocate, OverlapInv, SharedOnlyAfterOverlap, NamesTypeOK, Running
<1>3. ASSUME NEW s \in Stmts, NEW n \in Names, SetCursorName(s, n)
      PROVE  OverlapInv'
  <2>1. CASE n \in BadNames
    BY <1>3, <2>1 DEF SetCursorName, OverlapInv, SharedOnlyAfterOverlap, Running
  <2>2. CASE n \notin BadNames
    <3>1. s \notin Running /\ Running' = Running \cup {s}
      BY <1>3, <2>2 DEF SetCursorName, Running, NamesTypeOK
    <3>2. \A t \in Stmts : call'[t] = "add" => t \in Running
      BY <1>3, <2>2 DEF SetCursorName, Running, NamesTypeOK
    <3> QED
      BY <1>3, <2>2, <3>1, <3>2, CallBegins DEF SetCursorName, NamesTypeOK, Running
  <2> QED
    BY <2>1, <2>2
<1>4. ASSUME NEW s \in Stmts, CursorNameExists(s) PROVE OverlapInv'
  <2>1. PICK found \in Found(s) : Looked(s, found)
    BY <1>4 DEF CursorNameExists
  <2>2. /\ s \in Running /\ call[s] = "lookup"
        /\ UNCHANGED <<cursorNames_, cursorNameMap_, overlapped>>
    BY <2>1 DEF Looked, Running
  <2>3. \A t \in Stmts : t # s => call'[t] = call[t] /\ name'[t] = name[t]
    BY <2>1 DEF Looked, NamesTypeOK
  <2>4. CASE found
    <3>1. Running' = Running \ {s} /\ call'[s] = "idle"
      BY <2>1, <2>4 DEF Looked, Running, NamesTypeOK
    <3> QED
      BY <2>2, <2>3, <3>1 DEF OverlapInv, SharedOnlyAfterOverlap, Running
  <2>5. CASE ~found
    <3>1. Running' = Running /\ call'[s] = "add" /\ name' = name
      BY <2>1, <2>5 DEF Looked, Running, NamesTypeOK
    <3>2. name[s] \notin overlapped => name[s] \notin cursorNames_
      <4>1. ASSUME name[s] \notin overlapped PROVE Running = {s}
        BY <2>2, <4>1 DEF OverlapInv
      <4> QED
        BY <2>1, <2>5, <4>1 DEF Found, Running
    <3>3. \A t \in Running' :
            call'[t] # "drop" /\ name'[t] \notin overlapped' => Running' = {t}
      BY <2>2, <2>3, <3>1 DEF OverlapInv, Running
    <3>4. \A t \in Stmts :
            call'[t] = "add" /\ name'[t] \notin overlapped' => name'[t] \notin cursorNames_'
      BY <2>2, <2>3, <3>1, <3>2 DEF OverlapInv
    <3> QED
      BY <2>2, <3>3, <3>4 DEF OverlapInv, SharedOnlyAfterOverlap
  <2> QED
    BY <2>4, <2>5
<1>5. ASSUME NEW s \in Stmts, AddCursorName(s) PROVE OverlapInv'
  <2>1. /\ s \in Running /\ Running' = Running \ {s}
        /\ name[s] \in Names \ BadNames /\ name[s] # NoName
        /\ \A t \in Stmts : t # s => /\ call'[t] = call[t] /\ name'[t] = name[t]
                                    /\ cursorNameMap_'[t] = cursorNameMap_[t]
        /\ cursorNameMap_'[s] = name[s] /\ call'[s] = "idle"
        /\ cursorNames_' = (cursorNames_ \ {cursorNameMap_[s]}) \cup {name[s]}
        /\ overlapped' = overlapped
    BY <1>5 DEF AddCursorName, Running, NamesTypeOK
  <2>2. name[s] \notin overlapped => Running = {s} /\ name[s] \notin cursorNames_
    BY <1>5, <2>1 DEF OverlapInv, AddCursorName
  <2>3. SharedOnlyAfterOverlap'
    BY <2>1, <2>2 DEF OverlapInv, SharedOnlyAfterOverlap
  <2>4. \A t \in Stmts : cursorNameMap_'[t] \in cursorNames_' \cup overlapped' \cup {NoName}
    BY <2>1, <2>2 DEF OverlapInv, SharedOnlyAfterOverlap
  <2>5. \A t \in Running' :
          call'[t] # "drop" /\ name'[t] \notin overlapped' => Running' = {t}
    BY <2>1 DEF OverlapInv, Running
  <2>6. \A t \in Stmts :
          call'[t] = "add" /\ name'[t] \notin overlapped' => name'[t] \notin cursorNames_'
    <3>1. ASSUME NEW t \in Stmts, call'[t] = "add"
          PROVE  name'[t] \in overlapped'
      <4>1. t # s /\ t \in Running /\ call[t] = "add"
        BY <2>1, <3>1 DEF Running
      <4> QED
        BY <2>1, <4>1 DEF OverlapInv
    <3> QED
      BY <3>1
  <2> QED
    BY <2>3, <2>4, <2>5, <2>6 DEF OverlapInv
<1>6. ASSUME NEW s \in Stmts, Drop(s) PROVE OverlapInv'
  <2>1. s \notin Running /\ Running' = Running \cup {s} /\ name[s] = NoName
    BY <1>6 DEF Drop, Running, NamesTypeOK
  <2>2. \A t \in Stmts : call'[t] = "add" => t \in Running
    BY <1>6 DEF Drop, Running, NamesTypeOK
  <2> QED
    BY <1>6, <2>1, <2>2, CallBegins DEF Drop, NamesTypeOK, Running
<1>7. ASSUME NEW s \in Stmts, RemoveCursorName(s) PROVE OverlapInv'
  <2>1. /\ Running' = Running \ {s} /\ call'[s] = "none" /\ call[s] = "drop"
        /\ \A t \in Stmts : t # s => /\ call'[t] = call[t] /\ name'[t] = name[t]
                                    /\ cursorNameMap_'[t] = cursorNameMap_[t]
        /\ cursorNameMap_'[s] = NoName
        /\ cursorNames_' = cursorNames_ \ {cursorNameMap_[s]}
        /\ overlapped' = overlapped
    BY <1>7 DEF RemoveCursorName, Running, NamesTypeOK
  <2>2. SharedOnlyAfterOverlap'
    BY <2>1 DEF OverlapInv, SharedOnlyAfterOverlap
  <2>3. \A t \in Stmts : cursorNameMap_'[t] \in cursorNames_' \cup overlapped' \cup {NoName}
    BY <2>1 DEF OverlapInv, SharedOnlyAfterOverlap
  <2> QED
    BY <2>1, <2>2, <2>3 DEF OverlapInv, Running
<1> QED
  BY <1>1, <1>2, <1>3, <1>4, <1>5, <1>6, <1>7 DEF NamesNext

\* The members of Connection that keep the cursor names keep their types.
THEOREM CursorNamesTypeCorrect == NamesSpec => []NamesTypeOK
<1>1. NamesInit => NamesTypeOK
  BY DEF NamesInit, NamesTypeOK
<1> QED
  BY <1>1, NamesTypeStep, PTL DEF NamesSpec

\* A refused name belongs to a statement, even with overlapping calls.
THEOREM NoNameLeaksEver == NamesSpec => []NoNameLeaks
<1>1. NamesInit => NoNameLeaks
  BY DEF NamesInit, NoNameLeaks
<1> QED
  BY <1>1, LeakStep, CursorNamesTypeCorrect, PTL DEF NamesSpec

\* Two statements share a name only after a call that asked for it ran beside
\* another one.
THEOREM NamesStayApart == NamesSpec => []SharedOnlyAfterOverlap
<1>1. NamesInit => OverlapInv
  BY DEF NamesInit, OverlapInv, SharedOnlyAfterOverlap, Running
<1>2. NamesTypeOK /\ OverlapInv /\ [NamesNext]_namesVars => OverlapInv'
  BY OverlapStep
<1>3. OverlapInv => SharedOnlyAfterOverlap
  BY DEF OverlapInv
<1> QED
  BY <1>1, <1>2, <1>3, CursorNamesTypeCorrect, PTL DEF NamesSpec
=============================================================================
