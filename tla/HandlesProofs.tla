--------------------------- MODULE HandlesProofs ----------------------------
(***************************************************************************)
(* Proofs about Handles and ApiCalls, for any sets of handles, columns,    *)
(* buffers, fields and copies and any bounds on the number of calls.       *)
(***************************************************************************)
EXTENDS ApiCalls, TLAPS, WellFoundedInduction

\* The fields of the records that the state is made of.
StorageFields == {"result", "records"}
HeadFields == {"allocType", "arraySize", "bindOffsetPtr", "count"}
DescFields == {"type", "conn", "stmt", "head", "records"}
RecordFields == {"type", "conciseType", "code", "dataPtr", "indicatorPtr"}
StmtType ==
  [conn : Conns \cup {NULL}, ard : DescIds, bindings : [Columns -> Buffers \cup {NULL}],
   rowArraySize : Sizes, columnBindOffset : Buffers \cup {NULL}, query : BOOLEAN]

\* The states a call that succeeds may leave behind, and all that calls add.
Tolerated == {"24000", "01000", "HYC00"}
SqlStates == Tolerated \cup {"01S02", "HY000", "HY003", "HY010", "HY016", "HY024",
                             "HY090", "HY091"}
StatusRecord == [state : SqlStates, retrieved : BOOLEAN]

InOrder(s) == \A i, j \in DOMAIN s : i < j /\ s[j].retrieved => s[i].retrieved

\* What RecordsTellCalls asks of the storage of one handle
IsStorage(d) ==
  /\ DOMAIN d = StorageFields /\ d.result \in Results
  /\ d.records \in Seq(StatusRecord)
  /\ d.result = "ERROR" => d.records # << >>
  /\ d.result = "SUCCESS" => \A i \in DOMAIN d.records : d.records[i].state \in Tolerated
  /\ InOrder(d.records)

\* The records a call may add for a result
Explains(states, r) ==
  /\ r \in Results /\ states \in Seq(SqlStates)
  /\ r = "ERROR" => states # << >>
  /\ r = "SUCCESS" => \A i \in DOMAIN states : states[i] \in Tolerated

\* What RecordTypesAgree asks of one record
IsRecord(r) ==
  /\ DOMAIN r = RecordFields
  /\ r.type \notin Verbose => r.conciseType = r.type
  /\ r.conciseType \in DOMAIN Codes => r.type \in Verbose

IsDescriptor(d) ==
  /\ DOMAIN d = DescFields /\ DOMAIN d.head = HeadFields /\ d.head.count \in Nat
  /\ d.type \in DescTypes
  /\ d.conn \in Conns \cup {NULL} /\ d.stmt \in Stmts \cup {NULL}
  /\ d.head.arraySize \in Sizes \cup {0}
  /\ DOMAIN d.records \subseteq Columns
  /\ \A n \in DOMAIN d.records : IsRecord(d.records[n])

EnvOK == env \in [Envs -> [connections : SUBSET Conns, odbcVersion : {2, 3}]]
ConnOK == conn \in [Conns -> [env : Envs \cup {NULL}, metadataID : BOOLEAN]]
StmtOK == stmt \in [Stmts -> StmtType]
DescOK == DOMAIN desc = DescIds /\ \A d \in DescIds : IsDescriptor(desc[d])
OwnerOK == owner \in [Descs -> Conns \cup {NULL}]
DiagOK == DOMAIN diag = Handles /\ \A h \in Handles : IsStorage(diag[h])
SetsOK == /\ live \subseteq Handles /\ copied \subseteq DescIds
          /\ pointed \subseteq DescIds /\ switched \subseteq Stmts

Typed == EnvOK /\ ConnOK /\ StmtOK /\ DescOK /\ OwnerOK /\ SetsOK

\* The typing kept through the proofs is the type invariant of the module.
LEMMA TypedIsTypeOK == Typed /\ DiagOK => TypeOK
  BY DEF Typed, EnvOK, ConnOK, StmtOK, DescOK, OwnerOK, DiagOK, SetsOK, TypeOK,
       StmtType, IsDescriptor, IsStorage

-----------------------------------------------------------------------------
(* The operators on storages and descriptors.                              *)

\* The first of a set of numbers
LEMMA Smallest ==
  ASSUME NEW S \in SUBSET Nat, S # {}
  PROVE  Min(S) \in S /\ \A y \in S : Min(S) =< y
<1> DEFINE R == OpToRel(<, Nat)
<1>1. \E x \in S : \A y \in S : ~(<<y, x>> \in R)
  BY NatLessThanWellFounded, WFMin, Zenon
<1>2. \A x, y \in Nat : <<y, x>> \in R <=> y < x
  BY DEF OpToRel
<1> HIDE DEF R
<1>3. PICK x \in S : \A y \in S : ~(<<y, x>> \in R)
  BY <1>1
<1>4. \A y \in S : x =< y
  <2> TAKE y \in S
  <2>1. x \in Nat /\ y \in Nat /\ ~(y < x)
    BY <1>2, <1>3
  <2> QED
    BY <2>1
<1> QED
  BY <1>4, Zenon DEF Min

\* GetLastNonRetrieved gives a record that SQLError has not handed out, and all
\* before it have been.
LEMMA FirstNotHandedOut ==
  ASSUME NEW d, d.records \in Seq(StatusRecord), GetLastNonRetrieved(d) # 0
  PROVE  LET n == GetLastNonRetrieved(d)
         IN /\ n \in DOMAIN d.records
            /\ \A i \in DOMAIN d.records : i < n => d.records[i].retrieved
<1> DEFINE I == {i \in 1..Len(d.records) : ~d.records[i].retrieved}
           n == GetLastNonRetrieved(d)
<1>1. n = IF I # {} THEN Min(I) ELSE 0
  BY DEF SelectInSeq, GetLastNonRetrieved
<1>2. I # {} /\ n = Min(I)
  BY <1>1, Zenon
<1>3. I \in SUBSET Nat
  OBVIOUS
<1>4. n \in I /\ \A y \in I : n =< y
  BY <1>2, <1>3, Smallest, Zenon
<1> HIDE DEF n
<1>5. n \in DOMAIN d.records /\ \A i \in DOMAIN d.records : i < n => d.records[i].retrieved
  BY <1>4
<1> QED
  BY <1>5 DEF n

\* The records of s with a new one for each of states behind them
WithStates(s, states) ==
  s \o [i \in DOMAIN states |-> [state |-> states[i], retrieved |-> FALSE]]
Appends(s, states, t) ==
  /\ t \in Seq(StatusRecord) /\ Len(t) = Len(s) + Len(states)
  /\ \A i \in 1..Len(s) : t[i] = s[i]
  /\ \A i \in 1..Len(states) : t[Len(s) + i].state = states[i]
  /\ InOrder(s) => InOrder(t)

\* AddStatusRecord puts the new records where they keep the order of the list.
LEMMA Appended ==
  ASSUME NEW s \in Seq(StatusRecord), NEW states \in Seq(SqlStates)
  PROVE  Appends(s, states, WithStates(s, states))
<1> DEFINE u == [i \in DOMAIN states |-> [state |-> states[i], retrieved |-> FALSE]]
           t == WithStates(s, states)
<1>1. u \in Seq(StatusRecord) /\ Len(u) = Len(states)
  <2>1. \A i \in DOMAIN states : [state |-> states[i], retrieved |-> FALSE] \in StatusRecord
    BY DEF StatusRecord
  <2> QED
    BY <2>1
<1>2. \A i \in 1..Len(states) : u[i].state = states[i] /\ u[i].retrieved = FALSE
  OBVIOUS
<1> HIDE DEF u
<1>3. t = s \o u
  BY DEF u, WithStates
<1> HIDE DEF t
<1>4. t \in Seq(StatusRecord) /\ Len(t) = Len(s) + Len(states)
  <2>1. s \o u \in Seq(StatusRecord) /\ Len(s \o u) = Len(s) + Len(u)
    BY <1>1
  <2> QED
    BY <1>1, <1>3, <2>1
<1>5. \A i \in 1..Len(s) : t[i] = s[i]
  BY <1>1, <1>3
<1>6. \A i \in 1..Len(states) : t[Len(s) + i] = u[i]
  BY <1>1, <1>3
<1>7. InOrder(s) => InOrder(t)
  <2> SUFFICES ASSUME InOrder(s), NEW i \in 1..Len(t), NEW j \in 1..Len(t), i < j,
                      t[j].retrieved
               PROVE  t[i].retrieved
    BY <1>4 DEF InOrder
  <2>1. CASE j <= Len(s)
    BY <1>4, <1>5, <2>1 DEF InOrder
  <2>2. CASE j > Len(s)
    <3>1. j - Len(s) \in 1..Len(states) /\ j = Len(s) + (j - Len(s))
      BY <1>4, <2>2
    <3> DEFINE k == j - Len(s)
    <3> HIDE DEF k
    <3>2. t[j] = u[k] /\ k \in 1..Len(states)
      BY <1>6, <3>1 DEF k
    <3> QED
      BY <1>2, <3>2
  <2> QED
    BY <1>4, <2>1, <2>2
<1> QED
  BY <1>2, <1>4, <1>5, <1>6, <1>7 DEF Appends, t

\* A call that empties a storage and fills it anew leaves as many records as
\* its result needs.
LEMMA StorageCalls ==
  ASSUME NEW d, NEW states, NEW r, Explains(states, r)
  PROVE  IsStorage(ApiCall(d, states, r)) /\ ApiCall(d, states, r).result = r
<1> DEFINE e == Reset.records
           t == WithStates(e, states)
<1>1. ApiCall(d, states, r) = [result |-> r, records |-> t]
  <2>1. AddStatusRecords(Reset, states) = [Reset EXCEPT !.records = t]
    BY DEF AddStatusRecords, WithStates
  <2> HIDE DEF t
  <2>2. [Reset EXCEPT !.records = t] = [result |-> "ERROR", records |-> t]
    BY DEF Reset
  <2>3. SetHeaderRecord([result |-> "ERROR", records |-> t], r)
          = [result |-> r, records |-> t]
    BY DEF SetHeaderRecord
  <2> QED
    BY <2>1, <2>2, <2>3, Zenon DEF ApiCall
<1>2. e \in Seq(StatusRecord) /\ InOrder(e) /\ Len(e) = 0
  BY DEF InOrder, Reset
<1>3. states \in Seq(SqlStates)
  BY DEF Explains
<1>4. Appends(e, states, t)
  BY <1>2, <1>3, Appended, Zenon
<1> HIDE DEF t, e
<1>5. /\ t \in Seq(StatusRecord) /\ Len(t) = Len(states) /\ InOrder(t)
      /\ \A i \in 1..Len(states) : t[i].state = states[i]
  BY <1>2, <1>3, <1>4 DEF Appends
<1>6. r = "ERROR" => t # << >>
  BY <1>3, <1>5 DEF Explains
<1>7. r = "SUCCESS" => \A i \in DOMAIN t : t[i].state \in Tolerated
  BY <1>3, <1>5 DEF Explains
<1> QED
  BY <1>1, <1>5, <1>6, <1>7 DEF IsStorage, StorageFields, Explains

\* The storage of a handle just allocated is in order.
LEMMA FreshStorage == IsStorage(NewStorage)
<1>1. NewStorage.records \in Seq(StatusRecord) /\ DOMAIN NewStorage.records = {}
  BY DEF NewStorage
<1> QED
  BY <1>1 DEF IsStorage, NewStorage, StorageFields, Results, InOrder

\* A call that adds to a storage that already explains its result keeps it so.
LEMMA StorageMore ==
  ASSUME NEW d, IsStorage(d), NEW st \in Tolerated
  PROVE  IsStorage(AddStatusRecords(d, <<st>>))
<1> DEFINE states == <<st>>
           t == WithStates(d.records, states)
<1>1. AddStatusRecords(d, states) = [d EXCEPT !.records = t]
  BY DEF AddStatusRecords, WithStates
<1>2. states \in Seq(SqlStates) /\ Len(states) = 1 /\ states[1] = st
  <2>1. st \in SqlStates
    BY DEF SqlStates
  <2> QED
    BY <2>1
<1>3. d.records \in Seq(StatusRecord) /\ InOrder(d.records)
  BY DEF IsStorage
<1>4. Appends(d.records, states, t)
  BY <1>2, <1>3, Appended, Zenon
<1> HIDE DEF t, states
<1>5. /\ t \in Seq(StatusRecord) /\ Len(t) = Len(d.records) + 1
      /\ \A i \in 1..Len(d.records) : t[i] = d.records[i]
      /\ t[Len(d.records) + 1].state = st /\ InOrder(t)
  BY <1>2, <1>3, <1>4 DEF Appends
<1>6. t # << >> /\ InOrder(t)
  BY <1>2, <1>3, <1>5
<1>7. ASSUME d.result = "SUCCESS", NEW i \in DOMAIN t PROVE t[i].state \in Tolerated
  <2>1. CASE i \in 1..Len(d.records)
    BY <1>3, <1>5, <1>7, <2>1 DEF IsStorage
  <2>2. CASE i = Len(d.records) + 1
    BY <1>2, <1>3, <1>5, <2>2
  <2> QED
    BY <1>2, <1>3, <1>5, <2>1, <2>2
<1>8. IsStorage([d EXCEPT !.records = t])
  BY <1>5, <1>6, <1>7 DEF IsStorage, StorageFields
<1> QED
  BY <1>1, <1>8 DEF states

\* SQLError, which marks a record, takes nothing from the storage.
LEMMA StorageRead ==
  ASSUME NEW d, IsStorage(d), GetLastNonRetrieved(d) # 0
  PROVE  IsStorage(MarkRetrieved(d, GetLastNonRetrieved(d)))
<1> DEFINE n == GetLastNonRetrieved(d)
<1>1. d.records \in Seq(StatusRecord) /\ InOrder(d.records)
  BY DEF IsStorage
<1>2. n \in DOMAIN d.records /\ \A i \in DOMAIN d.records : i < n => d.records[i].retrieved
  BY <1>1, FirstNotHandedOut
<1> HIDE DEF n
<1> DEFINE t == [d.records EXCEPT ![n].retrieved = TRUE]
<1>3. MarkRetrieved(d, n) = [d EXCEPT !.records = t]
  BY DEF MarkRetrieved
<1>4. /\ t \in Seq(StatusRecord) /\ DOMAIN t = DOMAIN d.records
      /\ \A i \in DOMAIN t : t[i].state = d.records[i].state
      /\ \A i \in DOMAIN t : i # n => t[i] = d.records[i]
      /\ t[n].retrieved
  <2>1. ASSUME NEW b \in BOOLEAN
        PROVE  LET u == [d.records EXCEPT ![n].retrieved = b]
               IN /\ u \in Seq(StatusRecord) /\ DOMAIN u = DOMAIN d.records
                  /\ \A i \in DOMAIN u : u[i].state = d.records[i].state
                  /\ \A i \in DOMAIN u : i # n => u[i] = d.records[i]
                  /\ u[n].retrieved = b
    <3> DEFINE v == d.records
               x == [v[n] EXCEPT !.retrieved = b]
    <3>1. v[n] \in StatusRecord /\ n \in DOMAIN v
      BY <1>1, <1>2
    <3>2. x \in StatusRecord /\ x.state = v[n].state /\ x.retrieved = b
      BY <3>1 DEF StatusRecord
    <3>3. [v EXCEPT ![n].retrieved = b] = [v EXCEPT ![n] = x]
      OBVIOUS
    <3> HIDE DEF x
    <3>4. [v EXCEPT ![n] = x] \in Seq(StatusRecord)
      BY <1>1, <3>1, <3>2
    <3> QED
      BY <1>1, <3>1, <3>2, <3>3, <3>4
  <2>2. TRUE \in BOOLEAN
    OBVIOUS
  <2> QED
    BY <2>1, <2>2, Zenon
<1> HIDE DEF t
<1>5. InOrder(t)
  BY <1>1, <1>2, <1>4 DEF InOrder
<1>6. t # << >>
  BY <1>2, <1>4
<1>7. IsStorage([d EXCEPT !.records = t])
  BY <1>4, <1>5, <1>6 DEF IsStorage, StorageFields
<1> QED
  BY <1>3, <1>7 DEF n

\* A header whose array size is one of Sizes or not set
IsHead(h) ==
  DOMAIN h = HeadFields /\ h.arraySize \in Sizes \cup {0} /\ h.count \in Nat

\* The header fields a descriptor starts with are well formed.
LEMMA Heads ==
  ASSUME NEW b
  PROVE  IsHead(NoHeader) /\ IsHead(InitImpHead) /\ IsHead(InitAppHead(b))
<1>1. /\ DOMAIN NoHeader = HeadFields /\ NoHeader.arraySize = 0 /\ NoHeader.count = 0
      /\ DOMAIN InitImpHead = HeadFields /\ InitImpHead.arraySize = 0
      /\ InitImpHead.count = 0
  BY DEF NoHeader, InitImpHead, HeadFields
<1>2. /\ DOMAIN InitAppHead(b) = HeadFields /\ InitAppHead(b).arraySize = 1
      /\ InitAppHead(b).count = 0
  BY DEF InitAppHead, HeadFields
<1>3. 1 \in Sizes \cup {0} /\ 0 \in Sizes \cup {0} /\ 0 \in Nat
  BY ApiCallsAssumption
<1> QED
  BY <1>1, <1>2, <1>3, Zenon DEF IsHead

\* A descriptor put together from a header and no records is well formed.
LEMMA NewDescriptors ==
  ASSUME NEW t \in DescTypes, NEW x \in Conns \cup {NULL}, NEW y \in Stmts \cup {NULL},
         NEW h, IsHead(h)
  PROVE  LET d == NewDescriptor(t, x, y, h)
         IN IsDescriptor(d) /\ d.type = t /\ d.stmt = y
<1> DEFINE d == NewDescriptor(t, x, y, h)
<1>1. /\ DOMAIN d = DescFields /\ d.type = t /\ d.conn = x /\ d.stmt = y /\ d.head = h
      /\ DOMAIN d.records = {}
  BY DEF NewDescriptor, DescFields
<1> HIDE DEF d
<1>2. IsDescriptor(d)
  BY <1>1 DEF IsDescriptor, IsHead
<1> QED
  BY <1>1, <1>2 DEF d

\* The value for a descriptor that does not exist is well formed.
LEMMA EmptyDescriptor == IsDescriptor(NoDescriptor)
<1>1. "UNKNOWN" \in DescTypes /\ NULL \in Conns \cup {NULL} /\ NULL \in Stmts \cup {NULL}
  BY DEF DescTypes
<1> QED
  BY <1>1, Heads, NewDescriptors, Zenon DEF NoDescriptor

\* What SQLAllocHandle makes of a descriptor handle is well formed.
LEMMA ExplicitDescriptor ==
  ASSUME NEW c \in Conns
  PROVE  IsDescriptor(NewDescriptor("UNKNOWN", c, NULL, InitAppHead(FALSE)))
<1>1. "UNKNOWN" \in DescTypes /\ c \in Conns \cup {NULL} /\ NULL \in Stmts \cup {NULL}
  BY DEF DescTypes
<1> QED
  BY <1>1, Heads, NewDescriptors, Zenon

\* The four descriptors a statement starts with are well formed.
LEMMA ImplicitDescriptor ==
  ASSUME NEW s \in Stmts, NEW k \in Kinds
  PROVE  /\ IsDescriptor(NewImplicit(s, k))
         /\ NewImplicit(s, k).stmt = s /\ NewImplicit(s, k).type = k
<1> DEFINE head == IF k \in {"ARD", "APD"} THEN InitAppHead(TRUE) ELSE InitImpHead
<1>1. IsHead(head)
  BY Heads, Zenon
<1>2. NewImplicit(s, k) = NewDescriptor(k, NULL, s, head)
  BY Zenon DEF NewImplicit
<1>3. k \in DescTypes /\ NULL \in Conns \cup {NULL} /\ s \in Stmts \cup {NULL}
  BY HandlesAssumption DEF DescTypes
<1> HIDE DEF head
<1> DEFINE d == NewDescriptor(k, NULL, s, head)
<1>4. IsDescriptor(d) /\ d.type = k /\ d.stmt = s
  BY <1>1, <1>3, NewDescriptors
<1> QED
  BY <1>2, <1>4, Zenon

\* Writing a record, a field of the header or binding a column leaves the
\* kind, the connection and the statement of a descriptor alone.
SameOwner(d, e) == IsDescriptor(e) /\ e.type = d.type /\ e.conn = d.conn /\ e.stmt = d.stmt

\* Writing a header or a record leaves the owner of a descriptor alone.
LEMMA WritesKeepOwner ==
  ASSUME NEW d, IsDescriptor(d), NEW n \in Columns, NEW r, IsRecord(r)
  PROVE  /\ SameOwner(d, WithRecord(d, n, r)) /\ WithRecord(d, n, r).head = d.head
         /\ DOMAIN WithRecord(d, n, r).records = DOMAIN d.records \cup {n}
         /\ WithRecord(d, n, r).records[n] = r
         /\ \A m \in DOMAIN d.records \ {n} :
              WithRecord(d, n, r).records[m] = d.records[m]
<1> DEFINE recs == [m \in DOMAIN d.records \cup {n} |-> IF m = n THEN r ELSE d.records[m]]
<1>1. WithRecord(d, n, r) = [d EXCEPT !.records = recs]
  BY DEF WithRecord
<1>2. /\ DOMAIN recs = DOMAIN d.records \cup {n} /\ recs[n] = r
      /\ \A m \in DOMAIN d.records \ {n} : recs[m] = d.records[m]
      /\ \A m \in DOMAIN recs : IsRecord(recs[m])
  BY DEF IsDescriptor
<1> HIDE DEF recs
<1> QED
  BY <1>1, <1>2 DEF IsDescriptor, DescFields, SameOwner

\* The record that is read where none was written is a record, and not bound.
LEMMA EmptyIsRecord == IsRecord(EmptyRecord) /\ EmptyRecord.dataPtr = NULL
  BY DEF IsRecord, EmptyRecord, RecordFields, Codes, DatetimeCode, IntervalCode

\* What is read from a descriptor at any number is a record.
LEMMA ReadIsRecord == ASSUME NEW d, IsDescriptor(d), NEW n PROVE IsRecord(RecordAt(d, n))
  BY EmptyIsRecord DEF RecordAt, IsDescriptor

\* The types SetDescField derives from each other stay in their sets.
LEMMA TypesOfTypes ==
  ASSUME NEW v
  PROVE  /\ VerboseOf(v) \notin Verbose => VerboseOf(v) = v
         /\ v \in DOMAIN Codes => VerboseOf(v) \in Verbose
<1>1. DOMAIN Codes = DOMAIN DatetimeCode \cup DOMAIN IntervalCode
  BY DEF Codes
<1>2. DOMAIN DatetimeCode \cap DOMAIN IntervalCode = {}
  BY DEF DatetimeCode, IntervalCode
<1>3. /\ v \in DOMAIN DatetimeCode => VerboseOf(v) = "DATETIME"
      /\ v \in DOMAIN IntervalCode => VerboseOf(v) = "INTERVAL"
      /\ v \notin DOMAIN Codes => VerboseOf(v) = v
  <2> HIDE DEF DatetimeCode, IntervalCode
  <2>1. v \in DOMAIN DatetimeCode => v \notin DOMAIN IntervalCode
    BY <1>2
  <2> QED
    BY <1>1, <2>1, Zenon DEF VerboseOf
<1> QED
  BY <1>1, <1>3 DEF Verbose

\* The record SQLBindCol writes is a record.
LEMMA BoundIsRecord ==
  ASSUME NEW r, IsRecord(r), NEW target, NEW data, NEW ind
  PROVE  /\ IsRecord(BoundRecord(r, target, data, ind))
         /\ BoundRecord(r, target, data, ind).dataPtr = data
<1> DEFINE code == IF target \in DOMAIN Codes THEN Codes[target] ELSE r.code
           type == VerboseOf(target)
<1>1. type \notin Verbose => type = target
  BY TypesOfTypes
<1>2. target \in DOMAIN Codes => type \in Verbose
  BY TypesOfTypes
<1> HIDE DEF code, type
<1>3. BoundRecord(r, target, data, ind)
        = [r EXCEPT !.type = type, !.conciseType = target, !.code = code, !.dataPtr = data,
                    !.indicatorPtr = ind]
  BY Zenon DEF BoundRecord, code, type
<1> QED
  BY <1>1, <1>2, <1>3 DEF IsRecord, RecordFields

\* What SQLSetDescField makes of a record is a record; only DATA_PTR changes
\* the data pointer, and not when it is null.
LEMMA OutcomeIsRecord ==
  ASSUME NEW r, IsRecord(r), NEW f, NEW v
  PROVE  LET out == FieldOutcome(r, f, v)
         IN /\ IsRecord(out.record)
            /\ f # "DATA_PTR" \/ v = NULL => out.record.dataPtr = r.dataPtr
<1> DEFINE Fits(out) == IsRecord(out.record) /\ out.record.dataPtr = r.dataPtr
<1>1. \A x, st : Accepted(x).record = x /\ Refused(x, st).record = x
  BY DEF Accepted, Refused
<1>2. ASSUME NEW x, IsRecord(x), x.dataPtr = r.dataPtr, NEW ok
      PROVE  Fits(AcceptedIf(ok, x, r)) /\ Fits(Accepted(x)) /\ \A st : Fits(Refused(x, st))
  BY <1>1, <1>2 DEF AcceptedIf
<1>3. IsRecord(r) /\ r.dataPtr = r.dataPtr
  OBVIOUS
<1>4. /\ IsRecord(SetConciseType(r, v)) /\ SetConciseType(r, v).dataPtr = r.dataPtr
  <2> DEFINE type == VerboseOf(v)
             code == CodeOf(v)
  <2>1. (type \notin Verbose => type = v) /\ (v \in DOMAIN Codes => type \in Verbose)
    BY TypesOfTypes
  <2> HIDE DEF type, code
  <2>2. SetConciseType(r, v) = [r EXCEPT !.conciseType = v, !.type = type, !.code = code]
    BY Zenon DEF SetConciseType, type, code
  <2> QED
    BY <2>1, <2>2 DEF IsRecord, RecordFields
<1>5. IsValidType(v) => /\ IsRecord(SetDescType(r, v))
                        /\ SetDescType(r, v).dataPtr = r.dataPtr
  <2>1. CASE v \in Verbose
    <3>1. SetDescType(r, v) = [r EXCEPT !.type = v]
      BY <2>1 DEF SetDescType
    <3> QED
      BY <2>1, <3>1 DEF IsRecord, RecordFields
  <2>2. CASE v \notin Verbose /\ IsValidType(v)
    <3>1. SetDescType(r, v) = [r EXCEPT !.type = v, !.conciseType = v, !.code = "0"]
      BY <2>2 DEF SetDescType
    <3>2. v \notin DOMAIN Codes
      BY <2>2 DEF IsValidType, Codes, DatetimeCode, IntervalCode, CharTypes,
           NumberTypes
    <3> QED
      BY <2>2, <3>1, <3>2 DEF IsRecord, RecordFields
  <2> QED
    BY <2>1, <2>2
<1>6. /\ IsRecord([r EXCEPT !.code = v]) /\ [r EXCEPT !.code = v].dataPtr = r.dataPtr
      /\ IsRecord([r EXCEPT !.indicatorPtr = v])
      /\ [r EXCEPT !.indicatorPtr = v].dataPtr = r.dataPtr
  BY DEF IsRecord, RecordFields
<1> DEFINE p == IF v = NULL THEN r.dataPtr ELSE v
           q == [r EXCEPT !.dataPtr = p]
<1>7. IsRecord(q) /\ q.dataPtr = p
  <2> HIDE DEF p
  <2> QED
    BY DEF IsRecord, RecordFields
<1> DEFINE out == FieldOutcome(r, f, v)
<1>8. CASE f = "DATA_PTR"
  <2>1. f \notin HeaderFieldIds /\ f \notin {"LENGTH", "OCTET_LENGTH"}
    BY <1>8 DEF HeaderFieldIds
  <2>2. out = Accepted(q)
    BY <1>8, <2>1, Zenon DEF FieldOutcome
  <2> HIDE DEF q, out
  <2>3. out.record = q
    BY <1>1, <2>2
  <2>4. v = NULL => p = r.dataPtr
    OBVIOUS
  <2> QED
    BY <1>7, <1>8, <2>3, <2>4 DEF out
<1>9. CASE f # "DATA_PTR"
  <2>1. ASSUME IsValidType(v) PROVE Fits(AcceptedIf(IsValidType(v), SetDescType(r, v), r))
    BY <1>2, <1>5, <2>1, Zenon
  <2>2. ASSUME ~IsValidType(v) PROVE Fits(AcceptedIf(IsValidType(v), SetDescType(r, v), r))
    BY <1>1, <2>2, Zenon DEF AcceptedIf
  <2>3. Fits(AcceptedIf(IsValidConciseType(v), SetConciseType(r, v), r))
    BY <1>2, <1>4, Zenon
  <2>4. Fits(AcceptedIf(IsValidIntervalCode(r, v), [r EXCEPT !.code = v], r))
    BY <1>2, <1>6, Zenon
  <2>5. Fits(Accepted([r EXCEPT !.indicatorPtr = v]))
    BY <1>2, <1>6, Zenon
  <2> HIDE DEF Fits
  <2>6. Fits(out)
    BY <1>2, <1>3, <1>9, <2>1, <2>2, <2>3, <2>4, <2>5, Zenon DEF FieldOutcome
  <2> QED
    BY <1>9, <2>6 DEF Fits
<1> QED
  BY <1>8, <1>9

\* SetField on a record leaves the owner of the descriptor alone.
LEMMA DescribedKeepsOwner ==
  ASSUME NEW d, IsDescriptor(d), NEW n \in Columns, NEW target, NEW buf
  PROVE  LET e == Described(d, n, target, buf)
         IN /\ SameOwner(d, e) /\ e.head.arraySize = d.head.arraySize
            /\ e.head.bindOffsetPtr = d.head.bindOffsetPtr
            /\ e.head.count >= d.head.count /\ e.head.count >= n
            /\ DOMAIN e.records = DOMAIN d.records \cup {n} /\ e.records[n].dataPtr = buf
            /\ \A m \in DOMAIN d.records \ {n} : e.records[m] = d.records[m]
<1> DEFINE r == BoundRecord(RecordAt(d, n), target, buf, buf)
           w == WithRecord(d, n, r)
           count == IF w.head.count < n THEN n ELSE w.head.count
           e == Described(d, n, target, buf)
<1>1. IsRecord(r) /\ r.dataPtr = buf
  BY BoundIsRecord, ReadIsRecord
<1> HIDE DEF r
<1>2. /\ SameOwner(d, w) /\ w.head = d.head /\ w.records[n] = r
      /\ DOMAIN w.records = DOMAIN d.records \cup {n}
      /\ \A m \in DOMAIN d.records \ {n} : w.records[m] = d.records[m]
  BY <1>1, WritesKeepOwner
<1> HIDE DEF w
<1>3. count \in Nat /\ count >= w.head.count /\ count >= n
  BY <1>2, HandlesAssumption DEF SameOwner, IsDescriptor
<1> HIDE DEF count
<1>4. e = [w EXCEPT !.head.count = count]
  BY DEF Described, w, r, count
<1> HIDE DEF e
<1>5. /\ DOMAIN e = DescFields /\ DOMAIN e.head = HeadFields /\ e.type = w.type
      /\ e.conn = w.conn /\ e.stmt = w.stmt /\ e.records = w.records
      /\ e.head.count = count /\ e.head.arraySize = w.head.arraySize
      /\ e.head.bindOffsetPtr = w.head.bindOffsetPtr
  BY <1>2, <1>4 DEF SameOwner, IsDescriptor, DescFields, HeadFields
<1>6. SameOwner(d, e)
  BY <1>2, <1>3, <1>5 DEF SameOwner, IsDescriptor
<1> QED
  BY <1>1, <1>2, <1>3, <1>5, <1>6 DEF e

\* SetField on the header leaves the owner of the descriptor alone.
LEMMA HeaderKeepsOwner ==
  ASSUME NEW d, IsDescriptor(d), NEW attr, NEW v, attr = "ROW_ARRAY_SIZE" => v \in Sizes
  PROVE  SameOwner(d, ArdWith(d, attr, v))
<1>1. CASE attr = "ROW_ARRAY_SIZE"
  BY <1>1 DEF SameOwner, ArdWith, IsDescriptor, DescFields, HeadFields
<1>2. CASE attr = "ROW_BIND_OFFSET_PTR"
  BY <1>2 DEF SameOwner, ArdWith, IsDescriptor, DescFields, HeadFields
<1>3. CASE attr \notin {"ROW_ARRAY_SIZE", "ROW_BIND_OFFSET_PTR"}
  <2>1. ArdWith(d, attr, v) = d
    BY <1>3, Zenon DEF ArdWith
  <2> QED
    BY <2>1 DEF SameOwner
<1> QED
  BY <1>1, <1>2, <1>3

\* What SQLCopyDesc writes into its target is well formed and keeps its owner.
LEMMA CopyIsDescriptor ==
  ASSUME NEW d, IsDescriptor(d), NEW self
  PROVE  IsDescriptor(CopyOf(d, self))
<1> DEFINE head == IF d.type \in {"ARD", "APD"} THEN InitAppHead(TRUE) ELSE InitImpHead
           records == IF self THEN << >> ELSE d.records
<1>1. IsHead(head)
  BY Heads, Zenon
<1>2. DOMAIN records \subseteq Columns /\ \A n \in DOMAIN records : IsRecord(records[n])
  BY DEF IsDescriptor
<1> HIDE DEF head, records
<1>3. CopyOf(d, self) = [d EXCEPT !.head = head, !.records = records]
  BY Zenon DEF CopyOf, head, records
<1> QED
  BY <1>1, <1>2, <1>3 DEF IsDescriptor, IsHead, DescFields

-----------------------------------------------------------------------------
(* Every call leaves a storage behind every handle.                        *)

\* The records of each kind of return explain it.
LEMMA Explanations ==
  /\ Explains(<< >>, "SUCCESS") /\ Explains(<< >>, "INFO")
  /\ Explains(<<"01S02">>, "INFO") /\ Explains(<<"24000">>, "SUCCESS")
  /\ \A st \in SqlStates : Explains(<<st>>, "ERROR")
<1>1. \A st \in SqlStates : /\ <<st>> \in Seq(SqlStates) /\ <<st>> # << >>
                            /\ \A i \in DOMAIN <<st>> : <<st>>[i] = st
  OBVIOUS
<1>2. "01S02" \in SqlStates /\ "24000" \in SqlStates /\ "24000" \in Tolerated
  BY DEF SqlStates, Tolerated
<1>3. "SUCCESS" \in Results /\ "INFO" \in Results /\ "ERROR" \in Results
  BY DEF Results
<1>4. << >> \in Seq(SqlStates) /\ DOMAIN << >> = {}
  OBVIOUS
<1>5. Explains(<< >>, "SUCCESS") /\ Explains(<< >>, "INFO")
  BY <1>3, <1>4 DEF Explains
<1>6. ASSUME NEW st \in SqlStates
      PROVE  Explains(<<st>>, "ERROR") /\ Explains(<<st>>, "INFO")
             /\ (st \in Tolerated => Explains(<<st>>, "SUCCESS"))
  <2> DEFINE states == <<st>>
  <2>1. states \in Seq(SqlStates) /\ states # << >> /\ \A i \in DOMAIN states : states[i] = st
    BY <1>1
  <2> HIDE DEF states
  <2>2. /\ Explains(states, "ERROR") /\ Explains(states, "INFO")
        /\ (st \in Tolerated => Explains(states, "SUCCESS"))
    BY <1>3, <2>1 DEF Explains
  <2> QED
    BY <2>2 DEF states
<1> QED
  BY <1>2, <1>5, <1>6

\* Each way of ending a call leaves the storage of the handle in order.
LEMMA Answers ==
  ASSUME NEW s, NEW n, NEW attr, NEW buf
  PROVE  LET a == AttributeAnswer(s, attr, buf)
             b == AttributeOf(s, n, attr, buf)
         IN Explains(a.states, a.code) /\ Explains(b.states, b.code)
<1> DEFINE A(states, code) == [states |-> states, code |-> code]
           err(st) == A(<<st>>, "ERROR")
           ok == A(<< >>, "SUCCESS")
           info == A(<< >>, "INFO")
           row == A(<<"24000">>, "SUCCESS")
           E(x) == Explains(x.states, x.code)
<1>1. AttributeAnswer(s, attr, buf) \in {err("HY000"), err("HYC00"), row, ok}
  BY Zenon DEF AttributeAnswer
<1>2. AttributeOf(s, n, attr, buf) \in {err("HY010"), err("HY000"), err("HYC00"), info, ok}
  BY Zenon DEF AttributeOf
<1>3. \A states, code : A(states, code).states = states /\ A(states, code).code = code
  OBVIOUS
<1>4. "HY000" \in SqlStates /\ "HYC00" \in SqlStates /\ "HY010" \in SqlStates
  BY DEF SqlStates, Tolerated
<1> HIDE DEF A
<1>5. E(err("HY000")) /\ E(err("HYC00")) /\ E(err("HY010")) /\ E(ok) /\ E(info) /\ E(row)
  <2>1. ASSUME NEW states, NEW code, Explains(states, code) PROVE E(A(states, code))
    BY <1>3, <2>1
  <2> HIDE DEF E
  <2> QED
    BY <1>4, <2>1, Explanations
<1> HIDE DEF ok, info, row, err, E
<1>6. E(AttributeAnswer(s, attr, buf)) /\ E(AttributeOf(s, n, attr, buf))
  BY <1>1, <1>2, <1>5
<1> QED
  BY <1>6, Zenon DEF E

\* The reasons for which calls refuse
LEMMA Refusals ==
  ASSUME NEW s, NEW d, NEW r, NEW f, NEW v
  PROVE  /\ Refusal(s, d) # "00000" => Refusal(s, d) \in SqlStates
         /\ LET out == FieldOutcome(r, f, v)
            IN out.state # "00000" => out.state \in SqlStates /\ out.record = r
<1>1. Refusal(s, d) \in {"00000", "HY024", "HY000"}
  BY Zenon DEF Refusal
<1>2. "HY024" \in SqlStates /\ "HY000" \in SqlStates /\ "HY091" \in SqlStates
  BY DEF SqlStates
<1> DEFINE Fits(out) == out.state # "00000" => out.state \in SqlStates /\ out.record = r
<1>3. ASSUME NEW x PROVE Fits(Accepted(x)) /\ Fits(Refused(r, "HY000"))
                         /\ Fits(Refused(r, "HY091"))
  BY <1>2 DEF Accepted, Refused
<1> HIDE DEF Fits
<1>4. ASSUME NEW ok, NEW x PROVE Fits(AcceptedIf(ok, x, r))
  BY <1>3, Zenon DEF AcceptedIf
<1>5. Fits(FieldOutcome(r, f, v))
  BY <1>3, <1>4, Zenon DEF FieldOutcome
<1> QED
  BY <1>1, <1>2, <1>5 DEF Fits

\* A call that ends on one handle keeps all storages in order.
LEMMA ReturnKeeps ==
  ASSUME DiagOK, NEW h, NEW states, NEW r, Explains(states, r), Return(h, states, r)
  PROVE  DiagOK'
<1>1. IsStorage(ApiCall(diag[h], states, r))
  BY StorageCalls
<1>2. diag' = [diag EXCEPT ![h] = ApiCall(diag[h], states, r)]
  BY DEF Return
<1> QED
  BY <1>1, <1>2 DEF DiagOK

\* A call that frees its handle keeps all storages in order.
LEMMA FreedKeeps == ASSUME DiagOK, NEW h, Freed(h) PROVE DiagOK'
  BY FreshStorage DEF Freed, DiagOK

\* So does a call that answers on one handle and writes to another.
LEMMA TwoCallsKeep ==
  ASSUME DiagOK, NEW g, NEW h, NEW x, NEW y, IsStorage(x), IsStorage(y),
         diag' = [diag EXCEPT ![g] = x, ![h] = y]
  PROVE  DiagOK'
  BY DEF DiagOK

\* The states that calls name
LEMMA NamedStates == {"01000", "24000", "HY000", "HY003", "HY010", "HY016", "HY024", "HY090",
                      "HYC00"} \subseteq SqlStates
  BY DEF SqlStates, Tolerated

\* The calls of Handles keep all storages in order.
LEMMA HandleDiag == ASSUME DiagOK, HandleCalls PROVE DiagOK'
<1>0. ASSUME NEW d PROVE IsStorage(ApiCall(d, << >>, "SUCCESS")) /\ IsStorage(NewStorage)
  BY Explanations, FreshStorage, StorageCalls
<1>1. ASSUME NEW h, Succeed(h) PROVE DiagOK'
  BY <1>1, Explanations, ReturnKeeps DEF Succeed
<1>2. ASSUME NEW h, NEW st \in SqlStates, Fail(h, st) PROVE DiagOK'
  BY <1>2, Explanations, ReturnKeeps DEF Fail
<1>3. ASSUME UNCHANGED diag PROVE DiagOK'
  BY <1>3 DEF DiagOK
<1>4. ASSUME NEW e \in Envs, SQLAllocEnv(e) \/ SQLFreeEnv(e) PROVE DiagOK'
  <2>1. CASE SQLAllocEnv(e)
    BY <1>0, <2>1 DEF SQLAllocEnv, DiagOK
  <2>2. CASE SQLFreeEnv(e)
    BY <2>2, FreedKeeps DEF SQLFreeEnv
  <2> QED
    BY <1>4, <2>1, <2>2
<1>5. ASSUME NEW e \in Envs, NEW c \in Conns, SQLAllocConnect(e, c) PROVE DiagOK'
  BY <1>0, <1>5, TwoCallsKeep DEF SQLAllocConnect
<1>6. ASSUME NEW c \in Conns, SQLFreeConnect(c) PROVE DiagOK'
  BY <1>6, FreedKeeps DEF SQLFreeConnect
<1>7. ASSUME NEW c \in Conns, NEW s \in Stmts, SQLAllocStmt(c, s) PROVE DiagOK'
  <2> DEFINE x == ApiCall(diag[c], << >>, "SUCCESS")
  <2>1. IsStorage(x) /\ IsStorage(NewStorage)
    BY <1>0
  <2>2. diag' = [h \in Handles |-> CASE h = c -> x
                                  [] h = s \/ h \in ImplicitOf(s) -> NewStorage
                                  [] OTHER -> diag[h]]
    BY <1>7 DEF SQLAllocStmt
  <2> HIDE DEF x
  <2>3. DOMAIN diag' = Handles /\ \A h \in Handles : diag'[h] \in {x, NewStorage, diag[h]}
    BY <2>2, Zenon
  <2> QED
    BY <2>1, <2>3 DEF DiagOK
<1>8. ASSUME NEW c \in Conns, NEW d \in Descs, SQLAllocDesc(c, d) PROVE DiagOK'
  BY <1>0, <1>8, TwoCallsKeep DEF SQLAllocDesc
<1>9. ASSUME NEW d \in Descs, SQLFreeDescriptor(d) PROVE DiagOK'
  BY <1>3, <1>9, FreedKeeps DEF SQLFreeDescriptor, Fault
<1>10. ASSUME NEW s \in Stmts, SQLDropStmt(s) \/ SQLResetAppRowDesc(s) \/ SQLUnbind(s)
       PROVE  DiagOK'
  BY <1>1, <1>10, FreedKeeps DEF SQLDropStmt, SQLResetAppRowDesc, SQLUnbind
<1>11. ASSUME NEW s, NEW d, SQLSetAppRowDesc(s, d) PROVE DiagOK'
  BY <1>1, <1>2, <1>11, Refusals, NamedStates, Zenon DEF SQLSetAppRowDesc
<1>12. ASSUME NEW x, NEW y, SQLCopyDesc(x, y) PROVE DiagOK'
  BY <1>1, <1>2, <1>12, NamedStates, Zenon DEF SQLCopyDesc
<1>13. ASSUME NEW s, NEW n, NEW t, NEW b, NEW lenOk, SQLBindCol(s, n, t, b, lenOk) PROVE DiagOK'
  BY <1>1, <1>2, <1>3, <1>13, NamedStates, Zenon DEF SQLBindCol, Fault
<1>14. ASSUME NEW d, NEW n, NEW f, NEW v, NEW lenOk, SQLSetDescField(d, n, f, v, lenOk)
       PROVE  DiagOK'
  BY <1>1, <1>2, <1>3, <1>14, Refusals, NamedStates, Zenon DEF SQLSetDescField,
       Fault
<1>15. ASSUME NEW d, NEW n, NEW f, SQLGetDescField(d, n, f) PROVE DiagOK'
  BY <1>1, <1>2, <1>15, NamedStates, Zenon DEF SQLGetDescField
<1> QED
  BY <1>4, <1>5, <1>6, <1>7, <1>8, <1>9, <1>10, <1>11, <1>12, <1>13, <1>14,
       <1>15, Zenon DEF HandleCalls

\* The calls of ApiCalls keep all storages in order.
LEMMA ApiDiag == ASSUME DiagOK, ApiCallsNext PROVE DiagOK'
<1>1. ASSUME NEW h, Succeed(h) PROVE DiagOK'
  BY <1>1, Explanations, ReturnKeeps DEF Succeed
<1>2. ASSUME NEW h, NEW st \in SqlStates, Fail(h, st) PROVE DiagOK'
  BY <1>2, Explanations, ReturnKeeps DEF Fail
<1>3. ASSUME UNCHANGED diag PROVE DiagOK'
  BY <1>3 DEF DiagOK
<1>4. ASSUME NEW e, NEW a, NEW v, SQLSetEnvAttr(e, a, v) \/ SQLGetEnvAttr(e, a) PROVE DiagOK'
  <2>1. ASSUME Return(e, <<"01S02">>, "INFO") PROVE DiagOK'
    BY <2>1, Explanations, ReturnKeeps
  <2> QED
    BY <1>1, <1>2, <1>4, <2>1, NamedStates, Zenon DEF SQLSetEnvAttr,
         SQLGetEnvAttr
<1>5. ASSUME NEW s, NEW v, SQLSetMetadataID(s, v) PROVE DiagOK'
  <2> DEFINE c == stmt[s].conn
  <2>1. ASSUME diag' = [diag EXCEPT ![s] = ApiCall(@, << >>, "SUCCESS"),
                                    ![c] = ApiCall(@, << >>, "SUCCESS")]
        PROVE  DiagOK'
    <3>1. \A d : IsStorage(ApiCall(d, << >>, "SUCCESS"))
      BY Explanations, StorageCalls
    <3> HIDE DEF c
    <3> QED
      BY <2>1, <3>1 DEF DiagOK
  <2> QED
    BY <1>2, <1>5, <2>1, NamedStates, Zenon DEF SQLSetMetadataID
<1>6. ASSUME NEW s, NEW a, NEW v, SQLSetStmtAttr(s, a, v) PROVE DiagOK'
  BY <1>1, <1>2, <1>3, <1>6, NamedStates, Zenon DEF SQLSetStmtAttr,
       SetAttribute, Fault
<1>7. ASSUME NEW s, NEW a, NEW buf, SQLGetStmtAttr(s, a, buf) PROVE DiagOK'
  BY <1>7, Answers, ReturnKeeps, NamedStates, Zenon DEF SQLGetStmtAttr
<1>8. ASSUME NEW s, NEW b, SQLGetTypeInfo(s, b) PROVE DiagOK'
  BY <1>1, <1>2, <1>8, NamedStates, Zenon DEF SQLGetTypeInfo
<1>9. ASSUME NEW h, NEW state \in Tolerated, AppendRecord(h, state) PROVE DiagOK'
  BY <1>9, StorageMore DEF AppendRecord, DiagOK
<1>10. ASSUME NEW s, SQLAskQuery(s) \/ SQLColumnsUnnamed(s) PROVE DiagOK'
  BY <1>1, <1>2, <1>9, <1>10, NamedStates, Zenon DEF SQLAskQuery,
       SQLColumnsUnnamed, Tolerated
<1>11. ASSUME NEW s, NEW n, NEW fits, SQLDescribeCol(s, n, fits) PROVE DiagOK'
  BY <1>11, Answers, ReturnKeeps, NamedStates, Zenon DEF SQLDescribeCol
<1>12. ASSUME NEW s, NEW n, NEW a, NEW fits, NEW odbc2, SQLColAttribute(s, n, a, fits, odbc2)
       PROVE  DiagOK'
  <2> DEFINE x == AttributeOf(s, n, a, fits)
             e == conn[stmt[s].conn].env
  <2>1. \A d : IsStorage(ApiCall(d, x.states, x.code))
    BY Answers, StorageCalls, Zenon
  <2>2. \A d : IsStorage(ApiCall(d, << >>, "SUCCESS"))
    BY Explanations, StorageCalls
  <2>3. diag' = [diag EXCEPT ![s] = ApiCall(@, x.states, x.code),
                             ![e] = IF odbc2 THEN ApiCall(@, << >>, "SUCCESS") ELSE @]
    BY <1>12 DEF SQLColAttribute
  <2> HIDE DEF x, e
  <2> QED
    BY <2>1, <2>2, <2>3 DEF DiagOK
<1>13. ASSUME NEW h, SQLError(h) PROVE DiagOK'
  <2>1. diag' = [diag EXCEPT ![h] = MarkRetrieved(@, GetLastNonRetrieved(diag[h]))]
    BY <1>13 DEF SQLError
  <2> QED
    BY <1>13, <2>1, StorageRead DEF DiagOK, SQLError
<1>14. ASSUME NEW h, NotImplemented(h) PROVE DiagOK'
  BY <1>9, <1>14 DEF NotImplemented, Tolerated
<1> QED
  BY <1>4, <1>5, <1>6, <1>7, <1>8, <1>10, <1>11, <1>12, <1>13, <1>14, Zenon DEF
       ApiCallsNext

-----------------------------------------------------------------------------
(* The pointers.  Good is inductive together with DiagOK: ImplicitInv is   *)
(* what brings a statement's own descriptor back to life with it and lets  *)
(* nobody else have it.                                                    *)

Good == Typed /\ ImplicitInv /\ ActiveDescriptorIsOwn /\ FaultNeedsOrphan

\* Nothing a pointer says has changed, but in descriptors that are copied.
Kept ==
  /\ \A h \in Stmts \cup DescIds : h \in live' <=> h \in live
  /\ copied \subseteq copied'
  /\ \A s \in Stmts : stmt'[s].ard = stmt[s].ard
  /\ \A d \in DescIds :
       d \in copied' \/ (desc'[d].stmt = desc[d].stmt /\ desc'[d].type = desc[d].type)

\* A step that keeps every owner and every implicit descriptor keeps the
\* pointers sound.
LEMMA KeptPointers == ASSUME Good, Typed', Kept, Sound PROVE Good'
<1>1. FaultNeedsOrphan'
  BY DEF Sound, FaultNeedsOrphan
<1>2. ImplicitInv'
  <2> SUFFICES ASSUME NEW s \in Stmts, NEW k \in Kinds
               PROVE  /\ <<s, k>> \in live' <=> s \in live'
                      /\ s \in live' => \/ <<s, k>> \in copied'
                                        \/ /\ desc'[<<s, k>>].stmt = s
                                           /\ desc'[<<s, k>>].type = k
    BY DEF ImplicitInv, Implicit
  <2>1. <<s, k>> \in DescIds
    BY DEF DescIds
  <2>2. /\ <<s, k>> \in live <=> s \in live
        /\ s \in live => \/ <<s, k>> \in copied
                         \/ desc[<<s, k>>].stmt = s /\ desc[<<s, k>>].type = k
    BY DEF Good, ImplicitInv, Implicit
  <2> DEFINE d == <<s, k>>
  <2> HIDE DEF d
  <2> QED
    BY <2>1, <2>2 DEF Kept, d
<1>3. ActiveDescriptorIsOwn'
  <2> SUFFICES ASSUME NEW s \in Stmts, s \in live'
               PROVE  \/ stmt'[s].ard \in copied'
                      \/ /\ stmt'[s].ard \in live' /\ desc'[stmt'[s].ard].stmt = s
                         /\ desc'[stmt'[s].ard].type = "ARD"
    BY DEF ActiveDescriptorIsOwn
  <2>1. stmt[s].ard \in DescIds
    BY DEF Good, Typed, StmtOK, StmtType
  <2>2. \/ stmt[s].ard \in copied
        \/ /\ stmt[s].ard \in live /\ desc[stmt[s].ard].stmt = s
           /\ desc[stmt[s].ard].type = "ARD"
    BY DEF Good, ActiveDescriptorIsOwn, Kept
  <2> QED
    BY <2>1, <2>2 DEF Kept
<1> QED
  BY <1>1, <1>2, <1>3 DEF Good

\* A step that writes diagnostics only keeps the pointers sound.
LEMMA IdlePointers == ASSUME Good, UNCHANGED <<objects, history>>, Sound PROVE Good'
<1>1. Typed'
  BY DEF Good, Typed, EnvOK, ConnOK, StmtOK, DescOK, OwnerOK, SetsOK, objects,
       history
<1>2. Kept
  BY DEF Kept, objects, history
<1> QED
  BY <1>1, <1>2, KeptPointers

\* A call through a pointer that dangles ends the process, and only an orphan
\* has one.
LEMMA FaultPointers ==
  ASSUME Good, NEW fn, NEW d, Fault(fn, d),
         \/ d \in copied
         \/ /\ d \in Descs /\ fn \in {"SQLFreeDescriptor", "SQLSetDescField"}
            /\ desc[d].stmt \notin live
  PROVE  Good'
<1>1. UNCHANGED <<live, env, conn, stmt, desc, owner, copied, switched, pointed>>
  BY DEF Fault, objects, history
<1>2. Typed'
  BY <1>1 DEF Good, Typed, EnvOK, ConnOK, StmtOK, DescOK, OwnerOK, SetsOK
<1>3. ImplicitInv' /\ ActiveDescriptorIsOwn'
  BY <1>1 DEF Good, ImplicitInv, ActiveDescriptorIsOwn
<1>4. fault'.fn = fn /\ fault'.desc = d
  BY DEF Fault
<1>5. FaultNeedsOrphan'
  BY <1>1, <1>4 DEF FaultNeedsOrphan
<1> QED
  BY <1>2, <1>3, <1>5 DEF Good

\* Allocating and freeing an environment.
LEMMA EnvPointers ==
  ASSUME Good, NEW e \in Envs, SQLAllocEnv(e) \/ SQLFreeEnv(e)
  PROVE  Good'
<1>1. /\ UNCHANGED <<conn, stmt, desc, owner, copied, switched, pointed>> /\ Sound
      /\ live' \in {live \cup {e}, live \ {e}}
      /\ env' = [env EXCEPT ![e] = NewEnvironment]
  BY DEF SQLAllocEnv, SQLFreeEnv, Freed, history
<1>2. e \in Handles /\ e \notin Stmts \cup DescIds
  BY AddressesAssumption DEF Handles
<1>3. EnvOK'
  BY <1>1 DEF Good, Typed, EnvOK, NewEnvironment
<1>4. Typed' /\ Kept
  BY <1>1, <1>2, <1>3 DEF Good, Typed, SetsOK, ConnOK, StmtOK, DescOK, OwnerOK,
       Kept
<1> QED
  BY <1>1, <1>4, KeptPointers

\* Allocating a connection.
LEMMA AllocConnectPointers ==
  ASSUME Good, NEW e \in Envs, NEW c \in Conns, SQLAllocConnect(e, c)
  PROVE  Good'
<1>1. /\ UNCHANGED <<stmt, desc, owner, copied, switched, pointed>> /\ Sound
      /\ live' = live \cup {c}
      /\ env' = [env EXCEPT ![e].connections = @ \cup {c}]
      /\ conn' = [conn EXCEPT ![c] = NewConnection(e)]
  BY DEF SQLAllocConnect, history
<1>2. c \in Handles /\ c \notin Stmts \cup DescIds
  BY AddressesAssumption DEF Handles
<1>3. EnvOK' /\ ConnOK'
  BY <1>1 DEF Good, Typed, EnvOK, ConnOK, NewConnection
<1>4. Typed' /\ Kept
  BY <1>1, <1>2, <1>3 DEF Good, Typed, SetsOK, StmtOK, DescOK, OwnerOK, Kept
<1> QED
  BY <1>1, <1>4, KeptPointers

\* Freeing a connection orphans its statements and descriptors.
LEMMA FreeConnectPointers == ASSUME Good, NEW c \in Conns, SQLFreeConnect(c) PROVE Good'
<1>1. /\ UNCHANGED <<stmt, desc, owner, copied, switched, pointed>> /\ Sound
      /\ live' = live \ {c}
      /\ env' = [env EXCEPT ![conn[c].env].connections = @ \ {c}]
      /\ conn' = [conn EXCEPT ![c] = NewConnection(NULL)]
  BY DEF SQLFreeConnect, Freed, history
<1>2. c \notin Stmts \cup DescIds
  BY AddressesAssumption
<1>3. EnvOK' /\ ConnOK'
  BY <1>1 DEF Good, Typed, EnvOK, ConnOK, NewConnection
<1>4. Typed' /\ Kept
  BY <1>1, <1>2, <1>3 DEF Good, Typed, SetsOK, StmtOK, DescOK, OwnerOK, Kept
<1> QED
  BY <1>1, <1>4, KeptPointers

\* How the parts of a state that types are about are reached.
LEMMA NewStatements ==
  ASSUME NEW c \in Conns \cup {NULL}, NEW s \in Stmts
  PROVE  NewStatement(c, s) \in StmtType /\ NewStatement(c, s).ard = <<s, "ARD">>
<1>1. 1 \in Sizes /\ <<s, "ARD">> \in DescIds
  BY HandlesAssumption, ApiCallsAssumption DEF DescIds
<1> QED
  BY <1>1 DEF NewStatement, StmtType, Implicit

\* The descriptors of different statements are different, and none is one of
\* the application's, a statement or a connection.
LEMMA OwnDescriptors ==
  ASSUME NEW s \in Stmts
  PROVE  /\ ImplicitOf(s) \subseteq DescIds /\ s \notin DescIds
         /\ \A t \in Stmts, k \in Kinds : <<t, k>> \in ImplicitOf(s) <=> t = s
         /\ \A d \in Descs : d \notin ImplicitOf(s)
         /\ \A d \in ImplicitOf(s) : d = <<s, d[2]>> /\ d[2] \in Kinds
         /\ <<s, "ARD">> \in ImplicitOf(s)
  BY HandlesAssumption, AddressesAssumption DEF ImplicitOf, Implicit, DescIds

\* Allocating a statement with its four descriptors.
LEMMA AllocStmtPointers ==
  ASSUME Good, NEW c \in Conns, NEW s \in Stmts, SQLAllocStmt(c, s)
  PROVE  Good'
<1>1. /\ UNCHANGED <<env, conn, owner, copied>> /\ Sound /\ s \notin live
      /\ live' = live \cup {s} \cup ImplicitOf(s)
      /\ stmt' = [stmt EXCEPT ![s] = NewStatement(c, s)]
      /\ pointed' = pointed \ ImplicitOf(s) /\ switched' = switched \ {s}
  BY DEF SQLAllocStmt
<1>2. /\ DOMAIN desc' = DescIds
      /\ \A k \in Kinds : desc'[<<s, k>>] = NewImplicit(s, k)
      /\ \A d \in DescIds : d \notin ImplicitOf(s) => desc'[d] = desc[d]
  <2>1. desc' = [d \in DescIds |-> IF d \in ImplicitOf(s) THEN NewImplicit(s, d[2])
                                                          ELSE desc[d]]
    BY DEF SQLAllocStmt
  <2>2. \A k \in Kinds : <<s, k>> \in ImplicitOf(s) /\ <<s, k>> \in DescIds /\ <<s, k>>[2] = k
    BY OwnDescriptors
  <2> QED
    BY <2>1, <2>2
<1>3. \A k \in Kinds : /\ IsDescriptor(desc'[<<s, k>>])
                       /\ desc'[<<s, k>>].stmt = s /\ desc'[<<s, k>>].type = k
  <2> TAKE k \in Kinds
  <2>1. desc'[<<s, k>>] = NewImplicit(s, k)
    BY <1>2
  <2>2. /\ IsDescriptor(NewImplicit(s, k))
        /\ NewImplicit(s, k).stmt = s /\ NewImplicit(s, k).type = k
    BY ImplicitDescriptor
  <2> QED
    BY <2>1, <2>2, Zenon
<1>4. DescOK'
  <2>1. ASSUME NEW d \in DescIds PROVE IsDescriptor(desc'[d])
    <3>1. CASE d \in ImplicitOf(s)
      <4>1. PICK k \in Kinds : d = <<s, k>>
        BY <3>1 DEF ImplicitOf, Implicit
      <4> QED
        BY <1>3, <4>1
    <3>2. CASE d \notin ImplicitOf(s)
      BY <1>2, <3>2 DEF Good, Typed, DescOK
    <3> QED
      BY <3>1, <3>2
  <2> QED
    BY <1>2, <2>1 DEF DescOK
<1>5. StmtOK' /\ stmt'[s].ard = <<s, "ARD">>
  BY <1>1, NewStatements DEF Good, Typed, StmtOK
<1>6. Typed'
  <2>1. SetsOK'
    BY <1>1, OwnDescriptors DEF Good, Typed, SetsOK, Handles
  <2> QED
    BY <1>1, <1>4, <1>5, <2>1 DEF Good, Typed, EnvOK, ConnOK, OwnerOK
<1>7. ImplicitInv'
  <2> SUFFICES ASSUME NEW t \in Stmts, NEW k \in Kinds
               PROVE  /\ <<t, k>> \in live' <=> t \in live'
                      /\ t \in live' => \/ <<t, k>> \in copied'
                                        \/ /\ desc'[<<t, k>>].stmt = t
                                           /\ desc'[<<t, k>>].type = k
    BY DEF ImplicitInv, Implicit
  <2>1. CASE t = s
    BY <1>1, <1>3, <2>1, OwnDescriptors
  <2>2. CASE t # s
    <3>1. <<t, k>> \notin ImplicitOf(s) /\ <<t, k>> \in DescIds /\ s \notin DescIds
      BY <2>2, OwnDescriptors DEF DescIds
    <3>2. t \notin ImplicitOf(s)
      BY OwnDescriptors
    <3>3. /\ <<t, k>> \in live <=> t \in live
          /\ t \in live => \/ <<t, k>> \in copied
                           \/ desc[<<t, k>>].stmt = t /\ desc[<<t, k>>].type = k
      BY DEF Good, ImplicitInv, Implicit
    <3> QED
      BY <1>1, <1>2, <2>2, <3>1, <3>2, <3>3
  <2> QED
    BY <2>1, <2>2
<1>8. ActiveDescriptorIsOwn'
  <2> SUFFICES ASSUME NEW t \in Stmts, t \in live'
               PROVE  \/ stmt'[t].ard \in copied'
                      \/ /\ stmt'[t].ard \in live' /\ desc'[stmt'[t].ard].stmt = t
                         /\ desc'[stmt'[t].ard].type = "ARD"
    BY DEF ActiveDescriptorIsOwn
  <2>1. CASE t = s
    <3>1. "ARD" \in Kinds /\ <<s, "ARD">> \in live'
      BY <1>1, OwnDescriptors, HandlesAssumption
    <3>2. desc'[<<s, "ARD">>].stmt = s /\ desc'[<<s, "ARD">>].type = "ARD"
      BY <1>3, <3>1
    <3> QED
      BY <1>5, <2>1, <3>1, <3>2
  <2>2. CASE t # s
    <3> DEFINE d == stmt[t].ard
    <3>1. stmt'[t] = stmt[t] /\ d \in DescIds /\ t \in live
      BY <1>1, <2>2, OwnDescriptors DEF Good, Typed, StmtOK, StmtType
    <3>2. d \in copied \/ (d \in live /\ desc[d].stmt = t /\ desc[d].type = "ARD")
      BY <3>1 DEF Good, ActiveDescriptorIsOwn
    <3>3. d \in live => d \notin ImplicitOf(s)
      <4>1. \A k \in Kinds : <<s, k>> \notin live
        BY <1>1 DEF Good, ImplicitInv, Implicit
      <4> HIDE DEF d
      <4> QED
        BY <4>1 DEF ImplicitOf, Implicit
    <3> HIDE DEF d
    <3>4. stmt'[t].ard = d
      BY <3>1 DEF d
    <3> QED
      BY <1>1, <1>2, <3>1, <3>2, <3>3, <3>4
  <2> QED
    BY <2>1, <2>2
<1>9. FaultNeedsOrphan'
  BY <1>1 DEF Sound, FaultNeedsOrphan
<1> QED
  BY <1>6, <1>7, <1>8, <1>9 DEF Good

\* Freeing a statement takes its implicit descriptors along.
LEMMA DropStmtPointers ==
  ASSUME Good, NEW s \in Stmts, SQLDropStmt(s)
  PROVE  Good'
<1>1. /\ UNCHANGED <<env, conn, owner, copied, switched, pointed>> /\ Sound /\ s \in live
      /\ live' = live \ ({s} \cup ImplicitOf(s))
      /\ stmt' = [stmt EXCEPT ![s] = NewStatement(NULL, s)]
  BY DEF SQLDropStmt, Freed, history
<1>2. /\ DOMAIN desc' = DescIds
      /\ \A d \in DescIds : desc'[d] \in {NoDescriptor, desc[d]}
      /\ \A d \in DescIds : d \notin ImplicitOf(s) => desc'[d] = desc[d]
  <2>1. desc' = [d \in DescIds |-> IF d \in ImplicitOf(s) THEN NoDescriptor ELSE desc[d]]
    BY DEF SQLDropStmt
  <2> QED
    BY <2>1
<1>3. DescOK'
  BY <1>2, EmptyDescriptor DEF Good, Typed, DescOK
<1>4. StmtOK'
  BY <1>1, NewStatements DEF Good, Typed, StmtOK
<1>5. Typed'
  <2>1. SetsOK'
    BY <1>1 DEF Good, Typed, SetsOK
  <2> QED
    BY <1>1, <1>3, <1>4, <2>1 DEF Good, Typed, EnvOK, ConnOK, OwnerOK
<1>6. ImplicitInv'
  <2> SUFFICES ASSUME NEW t \in Stmts, NEW k \in Kinds
               PROVE  /\ <<t, k>> \in live' <=> t \in live'
                      /\ t \in live' => \/ <<t, k>> \in copied'
                                        \/ /\ desc'[<<t, k>>].stmt = t
                                           /\ desc'[<<t, k>>].type = k
    BY DEF ImplicitInv, Implicit
  <2>1. CASE t = s
    BY <1>1, <2>1, OwnDescriptors
  <2>2. CASE t # s
    <3>1. <<t, k>> \notin ImplicitOf(s) /\ <<t, k>> \in DescIds /\ s \notin DescIds
      BY <2>2, OwnDescriptors DEF DescIds
    <3>2. t \notin ImplicitOf(s)
      BY OwnDescriptors
    <3>3. /\ <<t, k>> \in live <=> t \in live
          /\ t \in live => \/ <<t, k>> \in copied
                           \/ desc[<<t, k>>].stmt = t /\ desc[<<t, k>>].type = k
      BY DEF Good, ImplicitInv, Implicit
    <3> QED
      BY <1>1, <1>2, <2>2, <3>1, <3>2, <3>3
  <2> QED
    BY <2>1, <2>2
<1>7. ActiveDescriptorIsOwn'
  <2> SUFFICES ASSUME NEW t \in Stmts, t \in live'
               PROVE  \/ stmt'[t].ard \in copied'
                      \/ /\ stmt'[t].ard \in live' /\ desc'[stmt'[t].ard].stmt = t
                         /\ desc'[stmt'[t].ard].type = "ARD"
    BY DEF ActiveDescriptorIsOwn
  <2> DEFINE d == stmt[t].ard
  <2>1. t # s /\ t \in live
    BY <1>1
  <2>2. stmt'[t].ard = d /\ d \in DescIds
    BY <1>1, <2>1 DEF Good, Typed, StmtOK, StmtType
  <2>3. d \in copied \/ (d \in live /\ desc[d].stmt = t /\ desc[d].type = "ARD")
    BY <2>1 DEF Good, ActiveDescriptorIsOwn
  <2> HIDE DEF d
  <2>4. d \in copied \/ d \notin ImplicitOf(s)
    <3>1. \A k \in Kinds : <<s, k>> \in copied \/ desc[<<s, k>>].stmt = s
      BY <1>1 DEF Good, ImplicitInv, Implicit
    <3> QED
      BY <2>1, <2>3, <3>1 DEF ImplicitOf, Implicit
  <2>5. s \notin DescIds
    BY OwnDescriptors
  <2> QED
    BY <1>1, <1>2, <2>2, <2>3, <2>4, <2>5
<1>8. FaultNeedsOrphan'
  BY <1>1 DEF Sound, FaultNeedsOrphan
<1> QED
  BY <1>5, <1>6, <1>7, <1>8 DEF Good

\* Allocating an explicit descriptor.
LEMMA AllocDescPointers ==
  ASSUME Good, NEW c \in Conns, NEW d \in Descs, SQLAllocDesc(c, d)
  PROVE  Good'
<1> DEFINE new == NewDescriptor("UNKNOWN", c, NULL, InitAppHead(FALSE))
<1>1. /\ UNCHANGED <<env, conn, stmt, copied, switched, pointed>> /\ Sound /\ d \notin live
      /\ live' = live \cup {d} /\ desc' = [desc EXCEPT ![d] = new]
      /\ owner' = [owner EXCEPT ![d] = c]
  BY DEF SQLAllocDesc, history
<1>2. IsDescriptor(new)
  BY ExplicitDescriptor
<1> HIDE DEF new
<1>3. /\ d \in DescIds /\ d \in Handles /\ d \notin Stmts
      /\ \A t \in Stmts, k \in Kinds : <<t, k>> # d /\ <<t, k>> \in DescIds
  BY AddressesAssumption DEF DescIds, Handles
<1>4. Typed'
  <2>1. SetsOK' /\ OwnerOK'
    BY <1>1, <1>3 DEF Good, Typed, SetsOK, OwnerOK
  <2>2. DescOK'
    BY <1>1, <1>2, <1>3 DEF Good, Typed, DescOK
  <2> QED
    BY <1>1, <2>1, <2>2 DEF Good, Typed, EnvOK, ConnOK, StmtOK
<1>5. ImplicitInv'
  <2> SUFFICES ASSUME NEW t \in Stmts, NEW k \in Kinds
               PROVE  /\ <<t, k>> \in live' <=> t \in live'
                      /\ t \in live' => \/ <<t, k>> \in copied'
                                        \/ /\ desc'[<<t, k>>].stmt = t
                                           /\ desc'[<<t, k>>].type = k
    BY DEF ImplicitInv, Implicit
  <2>1. <<t, k>> # d /\ <<t, k>> \in DescIds /\ t # d
    BY <1>3
  <2>2. desc'[<<t, k>>] = desc[<<t, k>>]
    BY <1>1, <2>1 DEF Good, Typed, DescOK
  <2>3. /\ <<t, k>> \in live <=> t \in live
        /\ t \in live => \/ <<t, k>> \in copied
                         \/ desc[<<t, k>>].stmt = t /\ desc[<<t, k>>].type = k
    BY DEF Good, ImplicitInv, Implicit
  <2> QED
    BY <1>1, <2>1, <2>2, <2>3
<1>6. ActiveDescriptorIsOwn'
  <2> SUFFICES ASSUME NEW t \in Stmts, t \in live'
               PROVE  \/ stmt'[t].ard \in copied'
                      \/ /\ stmt'[t].ard \in live' /\ desc'[stmt'[t].ard].stmt = t
                         /\ desc'[stmt'[t].ard].type = "ARD"
    BY DEF ActiveDescriptorIsOwn
  <2> DEFINE x == stmt[t].ard
  <2>1. t \in live /\ x \in DescIds
    BY <1>1, <1>3 DEF Good, Typed, StmtOK, StmtType
  <2>2. x \in copied \/ (x \in live /\ desc[x].stmt = t /\ desc[x].type = "ARD")
    BY <2>1 DEF Good, ActiveDescriptorIsOwn
  <2>3. stmt'[t].ard = x
    BY <1>1
  <2> HIDE DEF x
  <2> QED
    BY <1>1, <2>1, <2>2, <2>3 DEF Good, Typed, DescOK
<1>7. FaultNeedsOrphan'
  BY <1>1 DEF Sound, FaultNeedsOrphan
<1> QED
  BY <1>4, <1>5, <1>6, <1>7 DEF Good

\* Freeing an explicit descriptor gives its statements back their own.
LEMMA FreeDescriptorPointers ==
  ASSUME Good, NEW d \in Descs, SQLFreeDescriptor(d)
  PROVE  Good'
<1> DEFINE s == desc[d].stmt
<1>1. CASE s \notin live /\ Fault("SQLFreeDescriptor", d)
  BY <1>1, FaultPointers
<1>2. CASE /\ s \in live
           /\ stmt' = [stmt EXCEPT ![s] = RestoreDescriptor(s, desc[d].type)]
           /\ desc' = [desc EXCEPT ![d] = NoDescriptor]
           /\ owner' = [owner EXCEPT ![d] = NULL]
           /\ live' = live \ {d}
           /\ Freed(d)
           /\ UNCHANGED <<env, conn, history>>
  <2>1. /\ UNCHANGED <<env, conn, copied, switched, pointed>> /\ Sound
        /\ live' = live \ {d} /\ desc' = [desc EXCEPT ![d] = NoDescriptor]
        /\ owner' = [owner EXCEPT ![d] = NULL]
    BY <1>2 DEF Freed, history
  <2>2. /\ d \in DescIds /\ d \in Handles /\ d \notin Stmts
        /\ \A t \in Stmts, k \in Kinds : <<t, k>> # d /\ <<t, k>> \in DescIds
    BY AddressesAssumption DEF DescIds, Handles
  <2>3. s \in Stmts
    <3>1. s \in Stmts \cup {NULL} /\ s \in Handles
      BY <1>2, <2>2 DEF Good, Typed, DescOK, IsDescriptor, SetsOK
    <3> QED
      BY <3>1, AddressesAssumption
  <2> HIDE DEF s
  <2>4. \/ desc[d].type = "ARD" /\ stmt' = [stmt EXCEPT ![s].ard = <<s, "ARD">>]
        \/ desc[d].type # "ARD" /\ stmt' = stmt
    BY <1>2, <2>3 DEF RestoreDescriptor, Implicit, Good, Typed, StmtOK
  <2>5. <<s, "ARD">> \in DescIds /\ "ARD" \in Kinds
    BY <2>3, HandlesAssumption DEF DescIds
  <2>6. Typed'
    <3>1. SetsOK' /\ OwnerOK'
      BY <2>1 DEF Good, Typed, SetsOK, OwnerOK
    <3>2. DescOK'
      BY <2>1, <2>2, EmptyDescriptor DEF Good, Typed, DescOK
    <3>3. StmtOK'
      BY <2>4, <2>5 DEF Good, Typed, StmtOK, StmtType
    <3> QED
      BY <2>1, <3>1, <3>2, <3>3 DEF Good, Typed, EnvOK, ConnOK
  <2>7. ASSUME NEW t \in Stmts, NEW k \in Kinds
        PROVE  /\ <<t, k>> \in live' <=> t \in live'
               /\ t \in live' => \/ <<t, k>> \in copied'
                                 \/ /\ desc'[<<t, k>>].stmt = t
                                    /\ desc'[<<t, k>>].type = k
    <3>1. <<t, k>> # d /\ <<t, k>> \in DescIds /\ t # d
      BY <2>2
    <3>2. desc'[<<t, k>>] = desc[<<t, k>>]
      BY <2>1, <3>1 DEF Good, Typed, DescOK
    <3>3. /\ <<t, k>> \in live <=> t \in live
          /\ t \in live => \/ <<t, k>> \in copied
                           \/ desc[<<t, k>>].stmt = t /\ desc[<<t, k>>].type = k
      BY DEF Good, ImplicitInv, Implicit
    <3> QED
      BY <2>1, <3>1, <3>2, <3>3
  <2>8. ImplicitInv'
    BY <2>7 DEF ImplicitInv, Implicit
  <2>9. ActiveDescriptorIsOwn'
    <3> SUFFICES ASSUME NEW t \in Stmts, t \in live'
                 PROVE  \/ stmt'[t].ard \in copied'
                        \/ /\ stmt'[t].ard \in live' /\ desc'[stmt'[t].ard].stmt = t
                           /\ desc'[stmt'[t].ard].type = "ARD"
      BY DEF ActiveDescriptorIsOwn
    <3>1. CASE stmt'[t].ard = <<t, "ARD">>
      BY <2>5, <2>7, <3>1
    <3>2. CASE stmt'[t].ard # <<t, "ARD">>
      <4> DEFINE x == stmt[t].ard
      <4>1. stmt'[t].ard = x /\ x \in DescIds /\ (t # s \/ desc[d].type # "ARD")
        BY <2>3, <2>4, <3>2 DEF Good, Typed, StmtOK, StmtType
      <4>2. x \in copied \/ (x \in live /\ desc[x].stmt = t /\ desc[x].type = "ARD")
        BY <2>1 DEF Good, ActiveDescriptorIsOwn
      <4> HIDE DEF x
      <4>3. x \in copied \/ x # d
        BY <4>1, <4>2 DEF s
      <4> QED
        BY <2>1, <4>1, <4>2, <4>3 DEF Good, Typed, DescOK
    <3> QED
      BY <3>1, <3>2
  <2>10. FaultNeedsOrphan'
    BY <2>1 DEF Sound, FaultNeedsOrphan
  <2> QED
    BY <2>6, <2>8, <2>9, <2>10 DEF Good
<1> QED
  BY <1>1, <1>2, Zenon DEF SQLFreeDescriptor

\* A statement takes an explicit descriptor as its row descriptor.
LEMMA SetAppRowDescPointers ==
  ASSUME Good, NEW s \in Stmts, NEW d \in Descs \cup {Implicit(s, "ARD")},
         SQLSetAppRowDesc(s, d)
  PROVE  Good'
<1>1. CASE Fail(s, Refusal(s, d)) /\ UNCHANGED <<objects, history>>
  BY <1>1, IdlePointers DEF Fail, Return
<1>2. CASE /\ Refusal(s, d) = "00000" /\ SetARDDesc(s, d) /\ switched' = switched \cup {s}
           /\ Succeed(s) /\ UNCHANGED <<live, env, conn, owner, copied, pointed>>
  <2>1. /\ stmt' = [stmt EXCEPT ![s].ard = d]
        /\ desc' = [desc EXCEPT ![d].type = "ARD", ![d].stmt = s]
        /\ Sound /\ UNCHANGED <<live, copied>> /\ s \in live /\ d \in live
    BY <1>2 DEF SetARDDesc, Succeed, Return, SQLSetAppRowDesc
  <2>2. d \in DescIds /\ "ARD" \in DescTypes /\ "ARD" \in Kinds
    BY HandlesAssumption DEF DescIds, DescTypes, Implicit
  <2>3. desc[d].stmt \in {NULL, s}
    <3>1. desc[d].conn = stmt[s].conn /\ desc[d].stmt \notin {NULL, s}
            => Refusal(s, d) = "HY000"
      BY Zenon DEF Refusal
    <3>2. desc[d].conn # stmt[s].conn => Refusal(s, d) = "HY024"
      BY Zenon DEF Refusal
    <3> QED
      BY <1>2, <3>1, <3>2
  <2>4. /\ IsDescriptor(desc'[d]) /\ desc'[d].stmt = s /\ desc'[d].type = "ARD"
        /\ DOMAIN desc' = DescIds
        /\ \A x \in DescIds : x # d => desc'[x] = desc[x]
    BY <2>1, <2>2 DEF Good, Typed, DescOK, IsDescriptor, DescFields
  <2>5. Typed'
    <3>1. SetsOK' /\ EnvOK' /\ ConnOK' /\ OwnerOK'
      BY <1>2 DEF Good, Typed, SetsOK, EnvOK, ConnOK, OwnerOK
    <3>2. StmtOK'
      BY <2>1, <2>2 DEF Good, Typed, StmtOK, StmtType
    <3>3. DescOK'
      BY <2>4 DEF Good, Typed, DescOK
    <3> QED
      BY <3>1, <3>2, <3>3 DEF Typed
  <2>6. ImplicitInv'
    <3> SUFFICES ASSUME NEW t \in Stmts, NEW k \in Kinds
                 PROVE  /\ <<t, k>> \in live' <=> t \in live'
                        /\ t \in live' => \/ <<t, k>> \in copied'
                                          \/ /\ desc'[<<t, k>>].stmt = t
                                             /\ desc'[<<t, k>>].type = k
      BY DEF ImplicitInv, Implicit
    <3>1. <<t, k>> \in DescIds /\ (<<t, k>> = d => t = s /\ k = "ARD")
      BY AddressesAssumption DEF DescIds, Implicit
    <3>2. /\ <<t, k>> \in live <=> t \in live
          /\ t \in live => \/ <<t, k>> \in copied
                           \/ desc[<<t, k>>].stmt = t /\ desc[<<t, k>>].type = k
      BY DEF Good, ImplicitInv, Implicit
    <3> QED
      BY <2>1, <2>4, <3>1, <3>2
  <2>7. ActiveDescriptorIsOwn'
    <3> SUFFICES ASSUME NEW t \in Stmts, t \in live'
                 PROVE  \/ stmt'[t].ard \in copied'
                        \/ /\ stmt'[t].ard \in live' /\ desc'[stmt'[t].ard].stmt = t
                           /\ desc'[stmt'[t].ard].type = "ARD"
      BY DEF ActiveDescriptorIsOwn
    <3>1. CASE t = s
      <4>1. stmt'[t].ard = d
        BY <2>1, <3>1 DEF Good, Typed, StmtOK, StmtType
      <4>2. d \in live' /\ desc'[d].stmt = t /\ desc'[d].type = "ARD"
        BY <2>1, <2>4, <3>1
      <4> QED
        BY <4>1, <4>2, Zenon
    <3>2. CASE t # s
      <4> DEFINE x == stmt[t].ard
      <4>1. stmt'[t].ard = x /\ x \in DescIds
        BY <2>1, <3>2 DEF Good, Typed, StmtOK, StmtType
      <4>2. x \in copied \/ (x \in live /\ desc[x].stmt = t /\ desc[x].type = "ARD")
        BY <2>1 DEF Good, ActiveDescriptorIsOwn
      <4> HIDE DEF x
      <4>3. t # NULL
        BY AddressesAssumption DEF Handles
      <4>4. x \in copied \/ x # d
        BY <2>3, <3>2, <4>2, <4>3
      <4> QED
        BY <2>1, <2>4, <4>1, <4>2, <4>4
    <3> QED
      BY <3>1, <3>2
  <2>8. FaultNeedsOrphan'
    BY <2>1 DEF Sound, FaultNeedsOrphan
  <2> QED
    BY <2>5, <2>6, <2>7, <2>8 DEF Good
<1> QED
  BY <1>1, <1>2, Zenon DEF SQLSetAppRowDesc

\* A statement goes back to its implicit row descriptor.
LEMMA ResetAppRowDescPointers ==
  ASSUME Good, NEW s \in Stmts, SQLResetAppRowDesc(s)
  PROVE  Good'
<1>1. /\ stmt' = [stmt EXCEPT ![s].ard = <<s, "ARD">>] /\ Sound
      /\ UNCHANGED <<live, env, conn, desc, owner, copied, switched, pointed>>
  BY DEF SQLResetAppRowDesc, Succeed, Return, Implicit, history
<1>2. <<s, "ARD">> \in DescIds /\ "ARD" \in Kinds
  BY HandlesAssumption DEF DescIds
<1>3. Typed'
  <2>1. SetsOK' /\ EnvOK' /\ ConnOK' /\ OwnerOK' /\ DescOK'
    BY <1>1 DEF Good, Typed, SetsOK, EnvOK, ConnOK, OwnerOK, DescOK
  <2>2. StmtOK'
    BY <1>1, <1>2 DEF Good, Typed, StmtOK, StmtType
  <2> QED
    BY <2>1, <2>2 DEF Typed
<1>4. ImplicitInv'
  BY <1>1 DEF Good, ImplicitInv
<1>5. ActiveDescriptorIsOwn'
  <2> SUFFICES ASSUME NEW t \in Stmts, t \in live
               PROVE  \/ stmt'[t].ard \in copied
                      \/ /\ stmt'[t].ard \in live /\ desc[stmt'[t].ard].stmt = t
                         /\ desc[stmt'[t].ard].type = "ARD"
    BY <1>1 DEF ActiveDescriptorIsOwn
  <2>1. \/ <<t, "ARD">> \in copied
        \/ /\ <<t, "ARD">> \in live /\ desc[<<t, "ARD">>].stmt = t
           /\ desc[<<t, "ARD">>].type = "ARD"
    BY <1>2 DEF Good, ImplicitInv, Implicit
  <2>2. \/ stmt[t].ard \in copied
        \/ /\ stmt[t].ard \in live /\ desc[stmt[t].ard].stmt = t
           /\ desc[stmt[t].ard].type = "ARD"
    BY DEF Good, ActiveDescriptorIsOwn
  <2>3. stmt'[t].ard = stmt[t].ard \/ stmt'[t].ard = <<t, "ARD">>
    BY <1>1 DEF Good, Typed, StmtOK, StmtType
  <2> QED
    BY <2>1, <2>2, <2>3
<1>6. FaultNeedsOrphan'
  BY <1>1 DEF Sound, FaultNeedsOrphan
<1> QED
  BY <1>3, <1>4, <1>5, <1>6 DEF Good

\* Copying one descriptor into another.
LEMMA CopyDescPointers ==
  ASSUME Good, NEW src \in DescIds, NEW dst \in DescIds, SQLCopyDesc(src, dst)
  PROVE  Good'
<1>1. CASE Fail(src, "HY016") /\ UNCHANGED <<objects, history>>
  BY <1>1, IdlePointers DEF Fail, Return
<1>2. CASE /\ desc' = [desc EXCEPT ![dst] = CopyOf(desc[src], src = dst)]
           /\ copied' = copied \cup {dst} /\ Succeed(src)
           /\ UNCHANGED <<live, env, conn, stmt, owner, switched, pointed>>
  <2>1. IsDescriptor(CopyOf(desc[src], src = dst))
    BY CopyIsDescriptor DEF Good, Typed, DescOK
  <2>2. DescOK'
    BY <1>2, <2>1 DEF Good, Typed, DescOK
  <2>3. Typed'
    BY <1>2, <2>2 DEF Good, Typed, SetsOK, EnvOK, ConnOK, OwnerOK, StmtOK
  <2>4. Kept
    BY <1>2 DEF Kept, Good, Typed, DescOK
  <2> QED
    BY <1>2, <2>3, <2>4, KeptPointers DEF Succeed, Return
<1> QED
  BY <1>1, <1>2, Zenon DEF SQLCopyDesc

\* Binding and unbinding one column.
LEMMA BindColPointers ==
  ASSUME Good, NEW s \in Stmts, NEW n \in Columns, NEW t, NEW b \in Buffers \cup {NULL},
         NEW lenOk, SQLBindCol(s, n, t, b, lenOk)
  PROVE  Good'
<1> DEFINE d == stmt[s].ard
<1>1. ASSUME NEW st, Fail(s, st), UNCHANGED <<objects, history>> PROVE Good'
  BY <1>1, IdlePointers DEF Fail, Return
<1>2. s \in live /\ d \in DescIds
  BY DEF SQLBindCol, Good, Typed, StmtOK, StmtType
<1>3. CASE /\ stmt' = [stmt EXCEPT ![s].bindings[n] = NULL] /\ Succeed(s)
           /\ UNCHANGED <<live, env, conn, desc, owner, history>>
  <2>1. StmtOK' /\ \A x \in Stmts : stmt'[x].ard = stmt[x].ard
    BY <1>3 DEF Good, Typed, StmtOK, StmtType
  <2>2. Typed' /\ Kept
    BY <1>3, <2>1 DEF Good, Typed, SetsOK, EnvOK, ConnOK, OwnerOK, DescOK, Kept,
         history
  <2> QED
    BY <1>3, <2>2, KeptPointers DEF Succeed, Return
<1>4. CASE /\ stmt' = [stmt EXCEPT ![s].bindings[n] = b]
           /\ desc' = [desc EXCEPT ![d] = Described(@, n, t, b)] /\ Succeed(s)
           /\ UNCHANGED <<live, env, conn, owner, history>>
  <2>1. StmtOK' /\ \A x \in Stmts : stmt'[x].ard = stmt[x].ard
    BY <1>4 DEF Good, Typed, StmtOK, StmtType
  <2>2. SameOwner(desc[d], Described(desc[d], n, t, b))
    BY <1>2, DescribedKeepsOwner DEF Good, Typed, DescOK
  <2>3. DescOK' /\ \A x \in DescIds : /\ desc'[x].stmt = desc[x].stmt
                                      /\ desc'[x].type = desc[x].type
    <3> HIDE DEF d
    <3> QED
      BY <1>2, <1>4, <2>2 DEF Good, Typed, DescOK, SameOwner
  <2>4. Typed' /\ Kept
    BY <1>4, <2>1, <2>3 DEF Good, Typed, SetsOK, EnvOK, ConnOK, OwnerOK, Kept,
         history
  <2> QED
    BY <1>4, <2>4, KeptPointers DEF Succeed, Return
<1>5. CASE d \notin live /\ Fault("SQLBindCol", d)
  <2>1. d \in copied
    BY <1>2, <1>5 DEF Good, ActiveDescriptorIsOwn
  <2> QED
    BY <1>5, <2>1, FaultPointers, Zenon
<1> QED
  BY <1>1, <1>3, <1>4, <1>5, Zenon DEF SQLBindCol

\* Unbinding all columns.
LEMMA UnbindPointers == ASSUME Good, NEW s \in Stmts, SQLUnbind(s) PROVE Good'
<1>1. /\ stmt' = [stmt EXCEPT ![s].bindings = [n \in Columns |-> NULL]] /\ Sound
      /\ UNCHANGED <<live, env, conn, desc, owner, copied, switched, pointed>>
  BY DEF SQLUnbind, Succeed, Return, history
<1>2. StmtOK' /\ \A x \in Stmts : stmt'[x].ard = stmt[x].ard
  BY <1>1 DEF Good, Typed, StmtOK, StmtType
<1>3. Typed' /\ Kept
  BY <1>1, <1>2 DEF Good, Typed, SetsOK, EnvOK, ConnOK, OwnerOK, DescOK, Kept
<1> QED
  BY <1>1, <1>3, KeptPointers

\* Writing a descriptor field.
LEMMA SetDescFieldPointers ==
  ASSUME Good, NEW d \in DescIds, NEW n \in Columns, NEW f, NEW v, NEW lenOk,
         SQLSetDescField(d, n, f, v, lenOk)
  PROVE  Good'
<1> DEFINE out == FieldOutcome(RecordAt(desc[d], n), f, v)
           s == desc[d].stmt
           unbinds == f = "DATA_PTR" /\ v = NULL
<1>0. d \in live
  BY DEF SQLSetDescField
<1>1. CASE Fail(d, "HY000") /\ UNCHANGED <<objects, history>>
  BY <1>1, IdlePointers DEF Fail, Return
<1>2. CASE s \notin live /\ Fault("SQLSetDescField", d)
  <2>1. CASE d \in Descs
    BY <1>2, <2>1, FaultPointers
  <2>2. CASE d \notin Descs
    <3>1. PICK t \in Stmts, k \in Kinds : d = <<t, k>>
      BY <2>2 DEF DescIds
    <3>2. /\ <<t, k>> \in live <=> t \in live
          /\ t \in live => <<t, k>> \in copied \/ desc[<<t, k>>].stmt = t
      BY DEF Good, ImplicitInv, Implicit
    <3>3. d \in copied
      BY <1>0, <1>2, <3>1, <3>2
    <3> QED
      BY <1>2, <3>3, FaultPointers
  <2> QED
    BY <2>1, <2>2
<1>3. CASE /\ unbinds => s \in live
           /\ desc' = [desc EXCEPT ![d] = WithRecord(@, n, out.record)]
           /\ stmt' = IF unbinds THEN [stmt EXCEPT ![s].bindings[n] = NULL] ELSE stmt
           /\ pointed' = IF f = "DATA_PTR" /\ v # NULL THEN pointed \cup {d} ELSE pointed
           /\ IF out.state = "00000" THEN Succeed(d) ELSE Fail(d, out.state)
           /\ UNCHANGED <<live, env, conn, owner, copied, switched>>
  <2>1. Sound
    BY <1>3, Zenon DEF Succeed, Fail, Return
  <2> HIDE DEF out
  <2>2. SameOwner(desc[d], WithRecord(desc[d], n, out.record))
    <3>1. IsDescriptor(desc[d])
      BY DEF Good, Typed, DescOK
    <3>2. IsRecord(out.record)
      BY <3>1, OutcomeIsRecord, ReadIsRecord DEF out
    <3> QED
      BY <3>1, <3>2, WritesKeepOwner
  <2>3. DescOK' /\ \A x \in DescIds : /\ desc'[x].stmt = desc[x].stmt
                                      /\ desc'[x].type = desc[x].type
    BY <1>3, <2>2 DEF Good, Typed, DescOK, SameOwner
  <2>4. StmtOK' /\ \A x \in Stmts : stmt'[x].ard = stmt[x].ard
    <3>1. stmt' = stmt \/ (s \in live /\ stmt' = [stmt EXCEPT ![s].bindings[n] = NULL])
      BY <1>3, Zenon
    <3>2. s \in Stmts \cup {NULL}
      BY DEF Good, Typed, DescOK, IsDescriptor
    <3> HIDE DEF s
    <3>3. s \in live => s \in Stmts
      BY <3>2, AddressesAssumption DEF Good, Typed, SetsOK
    <3>4. CASE stmt' = stmt
      BY <3>4 DEF Good, Typed, StmtOK
    <3>5. CASE s \in Stmts /\ stmt' = [stmt EXCEPT ![s].bindings[n] = NULL]
      BY <3>5 DEF Good, Typed, StmtOK, StmtType
    <3> QED
      BY <3>1, <3>3, <3>4, <3>5
  <2>5. SetsOK'
    <3>1. pointed' = pointed \/ pointed' = pointed \cup {d}
      BY <1>3, Zenon
    <3> QED
      BY <1>3, <3>1 DEF Good, Typed, SetsOK
  <2>6. Typed' /\ Kept
    BY <1>3, <2>3, <2>4, <2>5 DEF Good, Typed, EnvOK, ConnOK, OwnerOK, Kept
  <2> QED
    BY <2>1, <2>6, KeptPointers
<1> QED
  BY <1>1, <1>2, <1>3, Zenon DEF SQLSetDescField

\* Reading a descriptor field.
LEMMA GetDescFieldPointers ==
  ASSUME Good, NEW d \in DescIds, NEW n \in Columns, NEW f, SQLGetDescField(d, n, f)
  PROVE  Good'
<1> DEFINE r == RecordAt(desc[d], n)
<1>1. /\ desc' = [desc EXCEPT ![d] = WithRecord(desc[d], n, r)]
      /\ UNCHANGED <<live, env, conn, stmt, owner, copied, switched, pointed>>
  BY DEF SQLGetDescField, history
<1>2. Sound
  BY Zenon DEF SQLGetDescField, Succeed, Fail, Return
<1>3. SameOwner(desc[d], WithRecord(desc[d], n, r))
  BY ReadIsRecord, WritesKeepOwner DEF Good, Typed, DescOK
<1> HIDE DEF r
<1>4. DescOK' /\ \A x \in DescIds : desc'[x].stmt = desc[x].stmt /\ desc'[x].type = desc[x].type
  BY <1>1, <1>3 DEF Good, Typed, DescOK, SameOwner
<1>5. Typed' /\ Kept
  BY <1>1, <1>4 DEF Good, Typed, SetsOK, EnvOK, ConnOK, OwnerOK, StmtOK, Kept
<1> QED
  BY <1>2, <1>5, KeptPointers

\* The calls of Handles keep the pointers sound.
LEMMA HandlePointers == ASSUME Good, HandleCalls PROVE Good'
<1>1. ASSUME NEW e \in Envs, SQLAllocEnv(e) \/ SQLFreeEnv(e) PROVE Good'
  BY <1>1, EnvPointers
<1>2. ASSUME NEW e \in Envs, NEW c \in Conns, SQLAllocConnect(e, c) PROVE Good'
  BY <1>2, AllocConnectPointers
<1>3. ASSUME NEW c \in Conns, SQLFreeConnect(c) PROVE Good'
  BY <1>3, FreeConnectPointers
<1>4. ASSUME NEW c \in Conns, NEW s \in Stmts, SQLAllocStmt(c, s) PROVE Good'
  BY <1>4, AllocStmtPointers
<1>5. ASSUME NEW c \in Conns, NEW d \in Descs, SQLAllocDesc(c, d) PROVE Good'
  BY <1>5, AllocDescPointers
<1>6. ASSUME NEW d \in Descs, SQLFreeDescriptor(d) PROVE Good'
  BY <1>6, FreeDescriptorPointers
<1>7. ASSUME NEW s \in Stmts, SQLDropStmt(s) \/ SQLResetAppRowDesc(s) \/ SQLUnbind(s)
      PROVE  Good'
  BY <1>7, DropStmtPointers, ResetAppRowDescPointers, UnbindPointers
<1>8. ASSUME NEW s \in Stmts, NEW d \in Descs \cup {Implicit(s, "ARD")},
             SQLSetAppRowDesc(s, d)
      PROVE  Good'
  BY <1>8, SetAppRowDescPointers
<1>9. ASSUME NEW p \in Copies, SQLCopyDesc(p[1], p[2]) PROVE Good'
  <2>1. p[1] \in DescIds /\ p[2] \in DescIds
    BY AddressesAssumption
  <2> QED
    BY <1>9, <2>1, CopyDescPointers
<1>10. ASSUME NEW s \in Stmts, NEW n \in Columns, NEW t, NEW b \in Buffers \cup {NULL},
              NEW lenOk, SQLBindCol(s, n, t, b, lenOk)
       PROVE  Good'
  BY <1>10, BindColPointers
<1>11. ASSUME NEW d \in DescIds, NEW n \in Columns, NEW f, NEW v, NEW lenOk,
              SQLSetDescField(d, n, f, v, lenOk)
       PROVE  Good'
  BY <1>11, SetDescFieldPointers
<1>12. ASSUME NEW d \in DescIds, NEW n \in Columns, NEW f, SQLGetDescField(d, n, f)
       PROVE  Good'
  BY <1>12, GetDescFieldPointers
<1> QED
  BY <1>1, <1>2, <1>3, <1>4, <1>5, <1>6, <1>7, <1>8, <1>9, <1>10, <1>11, <1>12,
       Zenon DEF HandleCalls

\* Setting an environment attribute.
LEMMA SetEnvAttrPointers ==
  ASSUME Good, NEW e \in Envs, NEW a, NEW v, SQLSetEnvAttr(e, a, v)
  PROVE  Good'
<1>1. /\ UNCHANGED <<live, conn, stmt, desc, owner, copied, switched, pointed>>
      /\ UNCHANGED env \/ (v \in {2, 3} /\ env' = [env EXCEPT ![e].odbcVersion = v])
  BY Zenon DEF SQLSetEnvAttr, history
<1>2. Sound
  BY Zenon DEF SQLSetEnvAttr, Succeed, Fail, Return
<1>3. EnvOK'
  BY <1>1 DEF Good, Typed, EnvOK
<1>4. Typed' /\ Kept
  BY <1>1, <1>3 DEF Good, Typed, SetsOK, ConnOK, OwnerOK, StmtOK, DescOK, Kept
<1> QED
  BY <1>2, <1>4, KeptPointers

\* Setting SQL_ATTR_METADATA_ID of a connection.
LEMMA SetMetadataIDPointers ==
  ASSUME Good, NEW s \in Stmts, NEW v, SQLSetMetadataID(s, v)
  PROVE  Good'
<1> DEFINE c == stmt[s].conn
<1>1. /\ UNCHANGED <<live, env, stmt, desc, owner, copied, switched, pointed>>
      /\ UNCHANGED conn \/ (v \in BOOLEAN /\ conn' = [conn EXCEPT ![c].metadataID = v])
  BY Zenon DEF SQLSetMetadataID, history
<1>2. Sound
  BY Zenon DEF SQLSetMetadataID, Fail, Return
<1>3. ConnOK'
  <2> HIDE DEF c
  <2> QED
    BY <1>1 DEF Good, Typed, ConnOK
<1>4. Typed' /\ Kept
  BY <1>1, <1>3 DEF Good, Typed, SetsOK, EnvOK, OwnerOK, StmtOK, DescOK, Kept
<1> QED
  BY <1>2, <1>4, KeptPointers

\* Setting a statement attribute.
LEMMA SetStmtAttrPointers ==
  ASSUME Good, NEW s \in Stmts, NEW a, NEW v, SQLSetStmtAttr(s, a, v),
         a = "ROW_ARRAY_SIZE" => v \in Sizes, a = "ROW_BIND_OFFSET_PTR" => v \in Buffers
  PROVE  Good'
<1> DEFINE d == stmt[s].ard
<1>1. s \in live /\ d \in DescIds
  BY DEF SQLSetStmtAttr, Good, Typed, StmtOK, StmtType
<1>2. CASE Fail(s, "HYC00") /\ UNCHANGED <<objects, history>>
  BY <1>2, IdlePointers DEF Fail, Return
<1>3. CASE d \notin live /\ Fault("SQLSetStmtAttr", d)
  <2>1. d \in copied
    BY <1>1, <1>3 DEF Good, ActiveDescriptorIsOwn
  <2> QED
    BY <1>3, <2>1, FaultPointers, Zenon
<1>4. CASE /\ stmt' = [stmt EXCEPT ![s] = StatementWith(@, a, v)]
           /\ desc' = IF a \in ArdAttrs THEN [desc EXCEPT ![d] = ArdWith(@, a, v)] ELSE desc
           /\ Succeed(s)
           /\ UNCHANGED <<live, env, conn, owner, history>>
  <2>1. ASSUME NEW t \in StmtType
        PROVE  StatementWith(t, a, v) \in StmtType /\ StatementWith(t, a, v).ard = t.ard
    <3>1. CASE a = "ROW_ARRAY_SIZE"
      BY <3>1 DEF StatementWith, StmtType
    <3>2. CASE a = "ROW_BIND_OFFSET_PTR"
      BY <3>2 DEF StatementWith, StmtType
    <3>3. CASE a \notin {"ROW_ARRAY_SIZE", "ROW_BIND_OFFSET_PTR"}
      <4>1. StatementWith(t, a, v) = t
        BY <3>3, Zenon DEF StatementWith
      <4> QED
        BY <4>1
    <3> QED
      BY <3>1, <3>2, <3>3
  <2>2. StmtOK' /\ \A x \in Stmts : stmt'[x].ard = stmt[x].ard
    BY <1>4, <2>1 DEF Good, Typed, StmtOK
  <2>3. SameOwner(desc[d], ArdWith(desc[d], a, v))
    BY <1>1, HeaderKeepsOwner DEF Good, Typed, DescOK
  <2> HIDE DEF d
  <2>4. desc' = desc \/ desc' = [desc EXCEPT ![d] = ArdWith(desc[d], a, v)]
    BY <1>4, Zenon
  <2>5. DescOK' /\ \A x \in DescIds : /\ desc'[x].stmt = desc[x].stmt
                                      /\ desc'[x].type = desc[x].type
    BY <2>3, <2>4 DEF Good, Typed, DescOK, SameOwner
  <2>6. Typed' /\ Kept
    BY <1>4, <2>2, <2>5 DEF Good, Typed, SetsOK, EnvOK, ConnOK, OwnerOK, Kept,
         history
  <2> QED
    BY <1>4, <2>6, KeptPointers DEF Succeed, Return
<1> QED
  BY <1>2, <1>3, <1>4, Zenon DEF SQLSetStmtAttr, SetAttribute

\* Running a query of the type information.
LEMMA GetTypeInfoPointers ==
  ASSUME Good, NEW s \in Stmts, NEW b, SQLGetTypeInfo(s, b)
  PROVE  Good'
<1>1. /\ UNCHANGED <<live, env, conn, desc, owner, copied, switched, pointed>> /\ Sound
      /\ UNCHANGED stmt \/ stmt' = [stmt EXCEPT ![s].query = TRUE]
  BY Zenon DEF SQLGetTypeInfo, Succeed, Fail, Return, history
<1>2. StmtOK' /\ \A x \in Stmts : stmt'[x].ard = stmt[x].ard
  <2>1. ASSUME NEW q \in BOOLEAN, stmt' = [stmt EXCEPT ![s].query = q]
        PROVE  StmtOK' /\ \A x \in Stmts : stmt'[x].ard = stmt[x].ard
    BY <2>1 DEF Good, Typed, StmtOK, StmtType
  <2>2. CASE UNCHANGED stmt
    BY <2>2 DEF Good, Typed, StmtOK
  <2>3. TRUE \in BOOLEAN
    OBVIOUS
  <2> QED
    BY <1>1, <2>1, <2>2, <2>3, Zenon
<1>3. Typed' /\ Kept
  BY <1>1, <1>2 DEF Good, Typed, SetsOK, EnvOK, ConnOK, OwnerOK, DescOK, Kept
<1> QED
  BY <1>1, <1>3, KeptPointers

\* The calls of ApiCalls keep the pointers sound.
LEMMA ApiPointers == ASSUME Good, ApiCallsNext PROVE Good'
<1>1. ASSUME UNCHANGED <<objects, history>>, Sound PROVE Good'
  BY <1>1, IdlePointers
<1>2. ASSUME NEW e \in Envs, NEW a, NEW v, SQLSetEnvAttr(e, a, v) \/ SQLGetEnvAttr(e, a)
      PROVE  Good'
  BY <1>1, <1>2, SetEnvAttrPointers, Zenon DEF SQLGetEnvAttr, Succeed, Fail,
       Return
<1>3. ASSUME NEW s \in Stmts, NEW a, NEW b, SQLGetStmtAttr(s, a, b) PROVE Good'
  BY <1>1, <1>3, Zenon DEF SQLGetStmtAttr, Return
<1>4. ASSUME NEW h, NEW st, AppendRecord(h, st) PROVE Good'
  BY <1>1, <1>4, Zenon DEF AppendRecord
<1>5. ASSUME NEW s \in Stmts, SQLAskQuery(s) \/ SQLColumnsUnnamed(s) PROVE Good'
  BY <1>1, <1>4, <1>5, Zenon DEF SQLAskQuery, SQLColumnsUnnamed, Succeed, Fail,
       Return
<1>6. ASSUME NEW s, NEW n, NEW fits, SQLDescribeCol(s, n, fits) PROVE Good'
  BY <1>1, <1>6, Zenon DEF SQLDescribeCol, Return
<1>7. ASSUME NEW s, NEW n, NEW a, NEW fits, NEW odbc2, SQLColAttribute(s, n, a, fits, odbc2)
      PROVE  Good'
  BY <1>1, <1>7, Zenon DEF SQLColAttribute
<1>8. ASSUME NEW h, NotImplemented(h) \/ SQLError(h) PROVE Good'
  <2>1. CASE NotImplemented(h)
    BY <1>4, <2>1 DEF NotImplemented
  <2>2. CASE SQLError(h)
    BY <1>1, <2>2, Zenon DEF SQLError
  <2> QED
    BY <1>8, <2>1, <2>2
<1>9. ASSUME NEW s \in Stmts, NEW n \in Sizes, SQLSetStmtAttr(s, "ROW_ARRAY_SIZE", n)
      PROVE  Good'
  BY <1>9, SetStmtAttrPointers
<1>10. ASSUME NEW s \in Stmts, NEW b \in Buffers, SQLSetStmtAttr(s, "ROW_BIND_OFFSET_PTR", b)
       PROVE  Good'
  BY <1>10, SetStmtAttrPointers
<1>11. ASSUME NEW s \in Stmts, NEW a \in DOMAIN OnlyValue \cup {"OTHER"},
              SQLSetStmtAttr(s, a, "BY_COLUMN")
       PROVE  Good'
  <2>1. a # "ROW_ARRAY_SIZE" /\ a # "ROW_BIND_OFFSET_PTR"
    BY DEF OnlyValue
  <2> QED
    BY <1>11, <2>1, SetStmtAttrPointers
<1>12. ASSUME NEW s \in Stmts, NEW v, SQLSetMetadataID(s, v) PROVE Good'
  BY <1>12, SetMetadataIDPointers
<1>13. ASSUME NEW s \in Stmts, NEW b, SQLGetTypeInfo(s, b) PROVE Good'
  BY <1>13, GetTypeInfoPointers
<1> QED
  BY <1>2, <1>3, <1>5, <1>6, <1>7, <1>8, <1>9, <1>10, <1>11, <1>12, <1>13, Zenon
       DEF ApiCallsNext

\* The invariant holds before the first call.
LEMMA InitPointers == Init => Good /\ DiagOK
<1> SUFFICES ASSUME Init PROVE Good /\ DiagOK
  OBVIOUS
<1>1. EnvOK /\ ConnOK /\ OwnerOK /\ SetsOK
  BY DEF Init, EnvOK, ConnOK, OwnerOK, SetsOK, NewEnvironment, NewConnection
<1>2. StmtOK
  <2>1. \A s \in Stmts : NewStatement(NULL, s) \in StmtType
    BY NewStatements
  <2> QED
    BY <2>1 DEF Init, StmtOK
<1>3. DescOK
  BY EmptyDescriptor DEF Init, DescOK
<1>4. DiagOK
  BY FreshStorage DEF Init, DiagOK
<1>5. ImplicitInv /\ ActiveDescriptorIsOwn /\ FaultNeedsOrphan
  BY DEF Init, ImplicitInv, ActiveDescriptorIsOwn, FaultNeedsOrphan
<1> QED
  BY <1>1, <1>2, <1>3, <1>4, <1>5 DEF Good, Typed

\* Every step keeps the pointers sound and the storages in order.
LEMMA StepPointers == ASSUME Good, DiagOK, [Next]_vars PROVE Good' /\ DiagOK'
<1>1. CASE HandleCalls
  BY <1>1, HandlePointers, HandleDiag
<1>2. CASE ApiCallsNext
  BY <1>2, ApiPointers, ApiDiag
<1>3. CASE UNCHANGED vars
  <2>1. UNCHANGED <<live, env, conn, stmt, desc, owner, diag, fault, copied, switched, pointed>>
    BY <1>3 DEF vars, objects, history
  <2>2. Typed' /\ DiagOK'
    BY <2>1 DEF Good, Typed, EnvOK, ConnOK, StmtOK, DescOK, OwnerOK, SetsOK,
         DiagOK
  <2>3. ImplicitInv' /\ ActiveDescriptorIsOwn' /\ FaultNeedsOrphan'
    BY <2>1 DEF Good, ImplicitInv, ActiveDescriptorIsOwn, FaultNeedsOrphan
  <2> QED
    BY <2>2, <2>3 DEF Good
<1> QED
  BY <1>1, <1>2, <1>3 DEF Next, Faulted

-----------------------------------------------------------------------------
(* What IsStorage says of every handle is what RecordsTellCalls asks.      *)

\* A storage with at least n records in front of the rest has n to hand out.
LEMMA CountedRecords ==
  ASSUME DiagOK, NEW h \in Handles \ DescIds, NEW n \in 0..(Len(diag[h].records) + 1)
  PROVE  (SQLGetDiagRec(h, n, TRUE, TRUE) = "SUCCESS") <=>
            n \in 1..SQLGetDiagField(h, n, "NUMBER").value
<1> DEFINE recs == diag[h].records
<1>1. recs \in Seq(StatusRecord)
  BY DEF DiagOK, IsStorage
<1>2. SQLGetDiagField(h, n, "NUMBER").value = Len(recs)
  <2>1. SQLGetDiagField(h, n, "NUMBER") = GetField(diag[h], n, "NUMBER")
    BY DEF SQLGetDiagField
  <2>2. GetField(diag[h], n, "NUMBER")
          = [code |-> "SUCCESS",
             value |-> CASE "NUMBER" = "NUMBER" -> Len(recs)
                         [] "NUMBER" = "RETURNCODE" -> ReturnCode(diag[h])
                         [] OTHER -> 0]
    <3>1. "NUMBER" \in HeaderFields /\ "NUMBER" \notin StatusFields
      BY DEF HeaderFields, StatusFields
    <3> QED
      BY <3>1, Zenon DEF GetField
  <2>3. (CASE "NUMBER" = "NUMBER" -> Len(recs)
           [] "NUMBER" = "RETURNCODE" -> ReturnCode(diag[h])
           [] OTHER -> 0) = Len(recs)
    BY Zenon
  <2> HIDE DEF recs
  <2> QED
    BY <2>1, <2>2, <2>3
<1>3. n < 1 => SQLGetDiagRec(h, n, TRUE, TRUE) = "ERROR"
  <2>1. n < 1 => ~(n > Len(recs)) /\ n \notin DOMAIN recs
    BY <1>1
  <2> QED
    BY <2>1, Zenon DEF SQLGetDiagRec
<1>4. n > Len(recs) => SQLGetDiagRec(h, n, TRUE, TRUE) = "NO_DATA"
  <2>1. n > Len(recs) => ~(n < 1) /\ n \notin DOMAIN recs
    BY <1>1
  <2> QED
    BY <2>1, Zenon DEF SQLGetDiagRec
<1>5. ~(n < 1) /\ ~(n > Len(recs)) => SQLGetDiagRec(h, n, TRUE, TRUE) = "SUCCESS"
  BY Zenon DEF SQLGetDiagRec
<1> HIDE DEF recs
<1> DEFINE told == SQLGetDiagRec(h, n, TRUE, TRUE)
           number == SQLGetDiagField(h, n, "NUMBER").value
<1> HIDE DEF told, number
<1>6. n \in Nat /\ Len(recs) \in Nat
  BY <1>1
<1>7. number = Len(recs)
  BY <1>2 DEF number
<1>8. (told = "SUCCESS") <=> ~(n < 1) /\ ~(n > Len(recs))
  BY <1>3, <1>4, <1>5 DEF told
<1>9. (told = "SUCCESS") <=> n \in 1..number
  BY <1>6, <1>7, <1>8
<1> QED
  BY <1>9 DEF told, number

\* A failure of one of the five calls is a failure of the last.
LEMMA LastCallExplains ==
  ASSUME NEW s, NEW n, NEW fits, DescribeCode(s, n, fits) = "ERROR"
  PROVE  AttributeOf(s, n, Last(DescribeAttrs), fits).states # << >>
<1>1. Last(DescribeAttrs) = "NULLABLE" /\ \A i \in DOMAIN DescribeAttrs :
        DescribeAttrs[i] \in {"NAME", "TYPE", "PRECISION", "SCALE", "NULLABLE"}
  BY DEF DescribeAttrs, Last
<1> DEFINE codes == {AttributeOf(s, n, DescribeAttrs[i], fits).code :
                       i \in DOMAIN DescribeAttrs}
<1>2. "ERROR" \in codes
  <2>1. DescribeCode(s, n, fits) = CASE "ERROR" \in codes -> "ERROR"
                                     [] codes = {"SUCCESS"} -> "SUCCESS"
                                     [] OTHER -> "INFO"
    BY DEF DescribeCode
  <2> HIDE DEF codes
  <2> QED
    BY <2>1, Zenon
<1>3. PICK i \in DOMAIN DescribeAttrs :
        AttributeOf(s, n, DescribeAttrs[i], fits).code = "ERROR"
  BY <1>2
<1> DEFINE A(states, code) == [states |-> states, code |-> code]
<1>4. A(<< >>, "INFO").code # "ERROR" /\ A(<< >>, "SUCCESS").code # "ERROR"
  OBVIOUS
<1>5. \A st : A(<<st>>, "ERROR").states # << >>
  OBVIOUS
<1> HIDE DEF A
<1>6. CASE ~stmt[s].query
  <2>1. AttributeOf(s, n, "NULLABLE", fits) = A(<<"HY010">>, "ERROR")
    BY <1>6, Zenon DEF AttributeOf, A
  <2> QED
    BY <1>1, <1>5, <2>1
<1>7. CASE stmt[s].query /\ n \notin 1..ColumnCount
  <2>1. AttributeOf(s, n, "NULLABLE", fits) = A(<<"HY000">>, "ERROR")
    BY <1>7, Zenon DEF AttributeOf, A
  <2> QED
    BY <1>1, <1>5, <2>1
<1>8. CASE stmt[s].query /\ n \in 1..ColumnCount
  <2>1. ASSUME NEW a, a # "UNKNOWN"
        PROVE  AttributeOf(s, n, a, fits) \in {A(<< >>, "INFO"), A(<< >>, "SUCCESS")}
    BY <1>8, <2>1, Zenon DEF AttributeOf, A
  <2>2. DescribeAttrs[i] # "UNKNOWN"
    BY <1>1
  <2> QED
    BY <1>3, <1>4, <2>1, <2>2
<1> QED
  BY <1>6, <1>7, <1>8

\* Storages in order are what the property on records and results asks for.
LEMMA StoragesTellCalls == ASSUME DiagOK, Typed PROVE RecordsTellCalls
<1>1. live \subseteq Handles
  BY DEF Typed, SetsOK
<1>2. RetrievedInOrder
  BY DEF DiagOK, IsStorage, InOrder, RetrievedInOrder
<1>3. ASSUME NEW h \in live
      PROVE  /\ ReturnCode(diag[h]) = "ERROR" => diag[h].records # << >>
             /\ ReturnCode(diag[h]) = "SUCCESS" =>
                  \A i \in DOMAIN diag[h].records :
                    diag[h].records[i].state \in {"24000", "01000", "HYC00"}
  <2>1. IsStorage(diag[h])
    BY <1>1 DEF DiagOK
  <2>2. ReturnCode(diag[h]) = diag[h].result
    BY <2>1 DEF ReturnCode, SqlResultToReturnCode, IsStorage
  <2> QED
    BY <2>1, <2>2 DEF IsStorage, Tolerated
<1>4. ASSUME NEW h \in live, h \notin DescIds, NEW n \in 0..(Len(diag[h].records) + 1)
      PROVE  (SQLGetDiagRec(h, n, TRUE, TRUE) = "SUCCESS") <=>
                n \in 1..SQLGetDiagField(h, n, "NUMBER").value
  BY <1>1, <1>4, CountedRecords
<1>5. CodeTellsRecords
  BY <1>3, <1>4, LastCallExplains, Zenon DEF CodeTellsRecords
<1> QED
  BY <1>2, <1>5 DEF RecordsTellCalls

-----------------------------------------------------------------------------
(* A call that fails changes no object.                                    *)

FailsNow == \E h \in Handles : diag'[h] # diag[h] /\ diag'[h].result = "ERROR"
Harmless ==
  /\ UNCHANGED <<live, env, conn, stmt, owner, history>>
  /\ \A d \in DescIds :
       /\ [desc'[d] EXCEPT !.records = <<>>] = [desc[d] EXCEPT !.records = <<>>]
       /\ \A n \in DOMAIN desc'[d].records :
            desc'[d].records[n] = RecordAt(desc[d], n)

\* A step that writes diagnostics only harms nothing.
LEMMA IdleHarmless == ASSUME UNCHANGED <<objects, history>> PROVE Harmless
  BY DEF Harmless, objects, RecordAt

\* A call fails in the step that stores an error result.
LEMMA NoFailure ==
  ASSUME DiagOK, \A h \in Handles : diag'[h] = diag[h] \/ diag'[h].result = "SUCCESS"
  PROVE  ~FailsNow
  BY DEF FailsNow

\* Success is not an error result.
LEMMA SuccessResult ==
  ASSUME NEW d
  PROVE  NewStorage.result = "SUCCESS" /\ ApiCall(d, << >>, "SUCCESS").result = "SUCCESS"
  BY Explanations, StorageCalls DEF NewStorage

\* A call that ends in success is not a failure.
LEMMA SucceedNoFailure == ASSUME DiagOK, NEW h, Succeed(h) PROVE ~FailsNow
<1> DEFINE x == ApiCall(diag[h], << >>, "SUCCESS")
<1>1. diag' = [diag EXCEPT ![h] = x] /\ x.result = "SUCCESS"
  BY SuccessResult DEF Succeed, Return
<1> HIDE DEF x
<1> QED
  BY <1>1, NoFailure DEF DiagOK

\* A call that frees its handle is not a failure.
LEMMA FreedNoFailure == ASSUME DiagOK, NEW h, Freed(h) PROVE ~FailsNow
<1>1. \A g \in Handles : diag'[g] = diag[g] \/ diag'[g] = NewStorage
  BY Zenon DEF Freed
<1> QED
  BY <1>1, NoFailure, SuccessResult

\* A call that succeeds on one handle and writes to another is not a failure.
LEMMA TwoNoFailure ==
  ASSUME DiagOK, NEW g, NEW h, NEW x, NEW y, x.result = "SUCCESS", y.result = "SUCCESS",
         diag' = [diag EXCEPT ![g] = x, ![h] = y]
  PROVE  ~FailsNow
<1>1. \A f \in Handles : diag'[f] = diag[f] \/ diag'[f] = x \/ diag'[f] = y
  BY DEF DiagOK
<1> QED
  BY <1>1, NoFailure

\* A record that comes into being empty is the only change.
LEMMA RecordHarmless ==
  ASSUME DescOK, NEW d \in DescIds, NEW n \in Columns,
         desc' = [desc EXCEPT ![d] = WithRecord(desc[d], n, RecordAt(desc[d], n))],
         UNCHANGED <<live, env, conn, stmt, owner, history>>
  PROVE  Harmless
<1> SUFFICES ASSUME NEW x \in DescIds
             PROVE  /\ [desc'[x] EXCEPT !.records = <<>>] = [desc[x] EXCEPT !.records = <<>>]
                    /\ \A m \in DOMAIN desc'[x].records :
                         desc'[x].records[m] = RecordAt(desc[x], m)
  BY DEF Harmless
<1>1. CASE x # d
  BY <1>1 DEF DescOK, RecordAt
<1>2. CASE x = d
  <2> DEFINE r == RecordAt(desc[d], n)
             recs == [m \in DOMAIN desc[d].records \cup {n} |->
                        IF m = n THEN r ELSE desc[d].records[m]]
  <2>1. desc'[x] = [desc[d] EXCEPT !.records = recs]
    BY <1>2 DEF DescOK, WithRecord
  <2>2. DOMAIN desc[d] = DescFields
    BY DEF DescOK, IsDescriptor
  <2>3. \A m \in DOMAIN recs : recs[m] = RecordAt(desc[d], m)
    BY DEF RecordAt
  <2> HIDE DEF recs
  <2>4. desc'[x].records = recs
    BY <2>1, <2>2 DEF DescFields
  <2>5. [desc'[x] EXCEPT !.records = <<>>] = [desc[x] EXCEPT !.records = <<>>]
    BY <1>2, <2>1, <2>2 DEF DescFields
  <2> QED
    BY <1>2, <2>3, <2>4, <2>5
<1> QED
  BY <1>1, <1>2

\* A call of Handles that fails changes no object.
LEMMA HandleFailures == ASSUME Good, DiagOK, HandleCalls PROVE FailsNow => Harmless
<1>1. ASSUME UNCHANGED <<objects, history>> PROVE FailsNow => Harmless
  BY <1>1, IdleHarmless
<1>2. ASSUME NEW h, Succeed(h) PROVE FailsNow => Harmless
  BY <1>2, SucceedNoFailure
<1>3. ASSUME NEW h, Freed(h) PROVE FailsNow => Harmless
  BY <1>3, FreedNoFailure
<1>4. ASSUME NEW fn, NEW d, Fault(fn, d) PROVE FailsNow => Harmless
  BY <1>1, <1>4, Zenon DEF Fault
<1>5. ASSUME NEW e \in Envs, SQLAllocEnv(e) \/ SQLFreeEnv(e) PROVE FailsNow => Harmless
  <2>1. CASE SQLAllocEnv(e)
    BY <2>1, NoFailure, SuccessResult DEF SQLAllocEnv, DiagOK
  <2> QED
    BY <1>3, <1>5, <2>1, Zenon DEF SQLFreeEnv
<1>6. ASSUME NEW e, NEW c, SQLAllocConnect(e, c) PROVE FailsNow => Harmless
  BY <1>6, SuccessResult, TwoNoFailure DEF SQLAllocConnect
<1>7. ASSUME NEW c, SQLFreeConnect(c) PROVE FailsNow => Harmless
  BY <1>3, <1>7, Zenon DEF SQLFreeConnect
<1>8. ASSUME NEW c, NEW s, SQLAllocStmt(c, s) PROVE FailsNow => Harmless
  <2> DEFINE x == ApiCall(diag[c], << >>, "SUCCESS")
  <2>1. diag' = [h \in Handles |-> CASE h = c -> x
                                  [] h = s \/ h \in ImplicitOf(s) -> NewStorage
                                  [] OTHER -> diag[h]]
    BY <1>8 DEF SQLAllocStmt
  <2>2. x.result = "SUCCESS" /\ NewStorage.result = "SUCCESS"
    BY SuccessResult
  <2> HIDE DEF x
  <2>3. \A h \in Handles : diag'[h] \in {x, NewStorage, diag[h]}
    BY <2>1, Zenon
  <2> QED
    BY <2>2, <2>3, NoFailure
<1>9. ASSUME NEW c, NEW d, SQLAllocDesc(c, d) PROVE FailsNow => Harmless
  BY <1>9, SuccessResult, TwoNoFailure DEF SQLAllocDesc
<1>10. ASSUME NEW d, SQLFreeDescriptor(d) PROVE FailsNow => Harmless
  BY <1>3, <1>4, <1>10, Zenon DEF SQLFreeDescriptor
<1>11. ASSUME NEW s, SQLDropStmt(s) \/ SQLResetAppRowDesc(s) \/ SQLUnbind(s)
       PROVE  FailsNow => Harmless
  BY <1>2, <1>3, <1>11, Zenon DEF SQLDropStmt, SQLResetAppRowDesc, SQLUnbind
<1>12. ASSUME NEW s, NEW d, SQLSetAppRowDesc(s, d) PROVE FailsNow => Harmless
  BY <1>1, <1>2, <1>12, Zenon DEF SQLSetAppRowDesc
<1>13. ASSUME NEW x, NEW y, SQLCopyDesc(x, y) PROVE FailsNow => Harmless
  BY <1>1, <1>2, <1>13, Zenon DEF SQLCopyDesc
<1>14. ASSUME NEW s, NEW n, NEW t, NEW b, NEW lenOk, SQLBindCol(s, n, t, b, lenOk)
       PROVE  FailsNow => Harmless
  BY <1>1, <1>2, <1>4, <1>14, Zenon DEF SQLBindCol
<1>15. ASSUME NEW d \in DescIds, NEW n \in Columns, NEW f, NEW v, NEW lenOk,
              SQLSetDescField(d, n, f, v, lenOk)
       PROVE  FailsNow => Harmless
  <2> DEFINE r == RecordAt(desc[d], n)
             out == FieldOutcome(r, f, v)
             s == desc[d].stmt
             unbinds == f = "DATA_PTR" /\ v = NULL
  <2>1. CASE Fail(d, "HY000") /\ UNCHANGED <<objects, history>>
    BY <1>1, <2>1
  <2>2. CASE Fault("SQLSetDescField", d)
    BY <1>4, <2>2
  <2>3. CASE /\ desc' = [desc EXCEPT ![d] = WithRecord(@, n, out.record)]
             /\ stmt' = IF unbinds THEN [stmt EXCEPT ![s].bindings[n] = NULL] ELSE stmt
             /\ pointed' = IF f = "DATA_PTR" /\ v # NULL THEN pointed \cup {d} ELSE pointed
             /\ IF out.state = "00000" THEN Succeed(d) ELSE Fail(d, out.state)
             /\ UNCHANGED <<live, env, conn, owner, copied, switched>>
    <3>1. CASE out.state = "00000"
      BY <1>2, <2>3, <3>1, Zenon
    <3>2. CASE out.state # "00000"
      <4>1. out.record = r
        BY <3>2, Refusals, Zenon
      <4>2. f # "DATA_PTR"
        <5>1. ASSUME f = "DATA_PTR" PROVE out.state = "00000"
          <6> DEFINE q == [r EXCEPT !.dataPtr = IF v = NULL THEN @ ELSE v]
          <6>1. f \notin HeaderFieldIds
            BY <5>1 DEF HeaderFieldIds
          <6>2. out = Accepted(q)
            BY <5>1, <6>1, Zenon DEF FieldOutcome
          <6> HIDE DEF q, out
          <6> QED
            BY <6>2 DEF Accepted
        <5> QED
          BY <3>2, <5>1
      <4>3. stmt' = stmt /\ pointed' = pointed
        BY <2>3, <4>2, Zenon
      <4> HIDE DEF out, r
      <4>4. desc' = [desc EXCEPT ![d] = WithRecord(desc[d], n, r)]
        BY <2>3, <4>1
      <4>5. UNCHANGED <<live, env, conn, stmt, owner, history>>
        BY <2>3, <4>3 DEF history
      <4> QED
        BY <4>4, <4>5, RecordHarmless DEF r, Good, Typed
    <3> QED
      BY <3>1, <3>2
  <2> QED
    BY <1>15, <2>1, <2>2, <2>3, Zenon DEF SQLSetDescField
<1>16. ASSUME NEW d \in DescIds, NEW n \in Columns, NEW f, SQLGetDescField(d, n, f)
       PROVE  FailsNow => Harmless
  BY <1>16, RecordHarmless DEF SQLGetDescField, Good, Typed
<1> QED
  BY <1>5, <1>6, <1>7, <1>8, <1>9, <1>10, <1>11, <1>12, <1>13, <1>14, <1>15,
       <1>16, Zenon DEF HandleCalls

\* A call of ApiCalls that fails changes no object.
LEMMA ApiFailures == ASSUME Good, DiagOK, ApiCallsNext PROVE FailsNow => Harmless
<1>1. ASSUME UNCHANGED <<objects, history>> PROVE FailsNow => Harmless
  BY <1>1, IdleHarmless
<1>2. ASSUME NEW h, Succeed(h) PROVE FailsNow => Harmless
  BY <1>2, SucceedNoFailure
<1>3. ASSUME NEW e, NEW a, NEW v, SQLSetEnvAttr(e, a, v) PROVE FailsNow => Harmless
  <2>1. CASE UNCHANGED env
    BY <1>1, <1>3, <2>1 DEF SQLSetEnvAttr, objects
  <2> QED
    BY <1>2, <1>3, <2>1, Zenon DEF SQLSetEnvAttr
<1>4. ASSUME NEW s, NEW v, SQLSetMetadataID(s, v) PROVE FailsNow => Harmless
  <2> DEFINE c == stmt[s].conn
  <2>1. CASE UNCHANGED conn
    BY <1>1, <1>4, <2>1 DEF SQLSetMetadataID, objects
  <2>2. CASE diag' = [diag EXCEPT ![s] = ApiCall(@, << >>, "SUCCESS"),
                                  ![c] = ApiCall(@, << >>, "SUCCESS")]
    <3>1. \A d : ApiCall(d, << >>, "SUCCESS").result = "SUCCESS"
      BY SuccessResult
    <3> HIDE DEF c
    <3> QED
      BY <2>2, <3>1, NoFailure DEF DiagOK
  <2> QED
    BY <1>4, <2>1, <2>2, Zenon DEF SQLSetMetadataID
<1>5. ASSUME NEW s, NEW a, NEW v, SQLSetStmtAttr(s, a, v) PROVE FailsNow => Harmless
  BY <1>1, <1>2, <1>5, Zenon DEF SQLSetStmtAttr, SetAttribute, Fault
<1>6. ASSUME NEW s, NEW b, SQLGetTypeInfo(s, b) PROVE FailsNow => Harmless
  <2>1. CASE UNCHANGED stmt
    BY <1>1, <1>6, <2>1 DEF SQLGetTypeInfo, objects
  <2> QED
    BY <1>2, <1>6, <2>1, Zenon DEF SQLGetTypeInfo
<1>7. ASSUME NEW h, NEW st, AppendRecord(h, st) PROVE FailsNow => Harmless
  BY <1>1, <1>7, Zenon DEF AppendRecord
<1>8. ASSUME NEW e, NEW a, SQLGetEnvAttr(e, a) PROVE FailsNow => Harmless
  BY <1>1, <1>8, Zenon DEF SQLGetEnvAttr
<1>9. ASSUME NEW s, NEW a, NEW b, SQLGetStmtAttr(s, a, b) PROVE FailsNow => Harmless
  BY <1>1, <1>9, Zenon DEF SQLGetStmtAttr
<1>10. ASSUME NEW s, SQLAskQuery(s) \/ SQLColumnsUnnamed(s) PROVE FailsNow => Harmless
  BY <1>1, <1>7, <1>10, Zenon DEF SQLAskQuery, SQLColumnsUnnamed
<1>11. ASSUME NEW s, NEW n, NEW fits, SQLDescribeCol(s, n, fits) PROVE FailsNow => Harmless
  BY <1>1, <1>11, Zenon DEF SQLDescribeCol
<1>12. ASSUME NEW s, NEW n, NEW a, NEW fits, NEW odbc2, SQLColAttribute(s, n, a, fits, odbc2)
       PROVE  FailsNow => Harmless
  BY <1>1, <1>12, Zenon DEF SQLColAttribute
<1>13. ASSUME NEW h, NotImplemented(h) \/ SQLError(h) PROVE FailsNow => Harmless
  BY <1>1, <1>7, <1>13, Zenon DEF NotImplemented, SQLError
<1> QED
  BY <1>3, <1>4, <1>5, <1>6, <1>8, <1>9, <1>10, <1>11, <1>12, <1>13, Zenon DEF
       ApiCallsNext

\* Every step that is a failure changes no object.
LEMMA StepFailures == ASSUME Good, DiagOK, [Next]_vars PROVE [FailsNow => Harmless]_vars
  BY HandleFailures, ApiFailures, Zenon DEF Next, Faulted

-----------------------------------------------------------------------------
(* The row descriptor mirrors the statement.                               *)

Mirrored(t, e, p) ==
  /\ e.head.arraySize = t.rowArraySize /\ e.head.bindOffsetPtr = t.columnBindOffset
  /\ \A n \in Columns : t.bindings[n] # NULL =>
       /\ n \in DOMAIN e.records /\ n <= e.head.count
       /\ ~p => e.records[n].dataPtr = t.bindings[n]

\* The part of ArdMirrorsStatement and OwnArdInv that is about one statement
MirrorOf(s, d) ==
  s \in live /\ s \notin switched =>
    /\ stmt[s].ard = d
    /\ d \notin copied => Mirrored(stmt[s], desc[d], d \in pointed)

MirrorInv == \A s \in Stmts : MirrorOf(s, <<s, "ARD">>)

\* The mirror of every statement is what the property on descriptors asks for.
LEMMA MirrorIsProperty == ASSUME Good, MirrorInv PROVE DescriptorsTrue
<1>1. RecordTypesAgree
  <2> SUFFICES ASSUME NEW d \in DescIds, NEW n \in DOMAIN desc[d].records
               PROVE  LET r == desc[d].records[n]
                      IN /\ r.type \notin Verbose => r.conciseType = r.type
                         /\ r.conciseType \in DOMAIN Codes => r.type \in Verbose
    BY DEF RecordTypesAgree
  <2>1. IsRecord(desc[d].records[n])
    BY DEF Good, Typed, DescOK, IsDescriptor
  <2> QED
    BY <2>1 DEF IsRecord
<1>2. ArdMirrorsStatement
  <2> SUFFICES ASSUME NEW s \in Stmts, s \in live, s \notin switched,
                      <<s, "ARD">> \notin copied
               PROVE  Mirrored(stmt[s], desc[<<s, "ARD">>], <<s, "ARD">> \in pointed)
    BY Zenon DEF ArdMirrorsStatement, Mirrored, Implicit
  <2> QED
    BY Zenon DEF MirrorInv, MirrorOf
<1> QED
  BY <1>1, <1>2 DEF DescriptorsTrue

\* Fewer columns are bound, and nothing else changes.
FewerBound(t, u) ==
  /\ u.rowArraySize = t.rowArraySize /\ u.columnBindOffset = t.columnBindOffset
  /\ \A n \in Columns : u.bindings[n] = t.bindings[n] \/ u.bindings[n] = NULL

\* A descriptor with no bound record above its count still has none when it is
\* cut.
LEMMA FewerMirrored ==
  ASSUME NEW t, NEW u, NEW e, NEW p, NEW q, Mirrored(t, e, p), FewerBound(t, u), p => q
  PROVE  Mirrored(u, e, q)
  BY DEF Mirrored, FewerBound

\* What a step that keeps the mirror of s does.
KeepsMirror(s, d) ==
  /\ s \in live' => s \in live
  /\ s \in switched => s \in switched'
  /\ s \notin switched' /\ stmt[s].ard = d => stmt'[s].ard = d
  /\ FewerBound(stmt[s], stmt'[s])
  /\ d \in copied => d \in copied'
  /\ d \in pointed => d \in pointed'
  /\ s \in live' => d \in copied' \/ desc'[d] = desc[d]

\* A step that leaves a statement and its row descriptor alone keeps its
\* mirror.
LEMMA MirrorKept ==
  ASSUME NEW s, NEW d, MirrorOf(s, d), KeepsMirror(s, d)
  PROVE  MirrorOf(s, d)'
<1> SUFFICES ASSUME s \in live', s \notin switched'
             PROVE  /\ stmt'[s].ard = d
                    /\ d \notin copied' => Mirrored(stmt'[s], desc'[d], d \in pointed')
  BY DEF MirrorOf
<1>1. stmt[s].ard = d /\ (d \notin copied => Mirrored(stmt[s], desc[d], d \in pointed))
  BY DEF MirrorOf, KeepsMirror
<1>2. stmt'[s].ard = d
  BY <1>1 DEF KeepsMirror
<1>3. ASSUME d \notin copied' PROVE Mirrored(stmt'[s], desc'[d], d \in pointed')
  <2>1. /\ desc'[d] = desc[d] /\ d \notin copied /\ FewerBound(stmt[s], stmt'[s])
        /\ d \in pointed => d \in pointed'
    BY <1>3 DEF KeepsMirror
  <2> QED
    BY <1>1, <2>1, FewerMirrored, Zenon
<1> QED
  BY <1>2, <1>3

\* A step that does not touch statements or descriptors
LEMMA MirrorIdle ==
  ASSUME MirrorInv, UNCHANGED <<stmt, desc, copied, switched, pointed>>,
         \A s \in Stmts : s \in live' => s \in live
  PROVE  MirrorInv'
<1>1. ASSUME NEW s \in Stmts PROVE KeepsMirror(s, <<s, "ARD">>)
  BY DEF KeepsMirror, FewerBound
<1> QED
  BY <1>1, MirrorKept DEF MirrorInv

\* The row descriptor a statement uses is nobody else's own, unless copied.
LEMMA OthersUntouched ==
  ASSUME Good, NEW s \in Stmts \cap live, NEW t \in Stmts \cap live, s # t
  PROVE  stmt[s].ard = <<t, "ARD">> => <<t, "ARD">> \in copied
<1> DEFINE d == <<t, "ARD">>
<1>1. "ARD" \in Kinds
  BY HandlesAssumption
<1>2. d \in copied \/ desc[d].stmt = t
  BY <1>1 DEF Good, ImplicitInv, Implicit
<1>3. stmt[s].ard \in copied \/ desc[stmt[s].ard].stmt = s
  BY DEF Good, ActiveDescriptorIsOwn
<1> HIDE DEF d
<1>4. stmt[s].ard = d => d \in copied
  BY <1>2, <1>3
<1> QED
  BY <1>4 DEF d

\* The row descriptor a statement uses is its own or an explicit one.
LEMMA OwnArd ==
  ASSUME NEW s \in Stmts
  PROVE  /\ <<s, "ARD">> \in DescIds /\ <<s, "ARD">> \notin Descs
         /\ \A t \in Stmts : <<s, "ARD">> \in ImplicitOf(t) <=> t = s
         /\ \A t \in Stmts : <<s, "ARD">> = <<t, "ARD">> <=> t = s
<1>1. "ARD" \in Kinds
  BY HandlesAssumption
<1> QED
  BY <1>1, AddressesAssumption DEF DescIds, ImplicitOf, Implicit

\* A new statement is mirrored by its new row descriptor.
LEMMA AllocStmtMirror ==
  ASSUME Good, MirrorInv, NEW c \in Conns, NEW s \in Stmts, SQLAllocStmt(c, s)
  PROVE  MirrorInv'
<1>1. /\ copied' = copied /\ live' = live \cup {s} \cup ImplicitOf(s)
      /\ stmt' = [stmt EXCEPT ![s] = NewStatement(c, s)]
      /\ pointed' = pointed \ ImplicitOf(s) /\ switched' = switched \ {s}
      /\ desc' = [d \in DescIds |-> IF d \in ImplicitOf(s) THEN NewImplicit(s, d[2])
                                                           ELSE desc[d]]
  BY DEF SQLAllocStmt
<1>2. ASSUME NEW t \in Stmts, t # s PROVE KeepsMirror(t, <<t, "ARD">>)
  <2> DEFINE d == <<t, "ARD">>
  <2>1. d \in DescIds /\ d \notin ImplicitOf(s) /\ t \notin ImplicitOf(s)
    BY <1>2, OwnArd, OwnDescriptors
  <2> HIDE DEF d
  <2>2. stmt'[t] = stmt[t] /\ desc'[d] = desc[d]
    BY <1>1, <1>2, <2>1 DEF Good, Typed, StmtOK
  <2>3. KeepsMirror(t, d)
    BY <1>1, <1>2, <2>1, <2>2 DEF KeepsMirror, FewerBound
  <2> QED
    BY <2>3 DEF d
<1>3. MirrorOf(s, <<s, "ARD">>)'
  <2> DEFINE d == <<s, "ARD">>
  <2>1. d \in DescIds /\ d \in ImplicitOf(s) /\ d[2] = "ARD"
    BY OwnArd
  <2>2. desc'[d] = NewImplicit(s, "ARD")
    BY <1>1, <2>1
  <2>3. /\ NewImplicit(s, "ARD").head.arraySize = 1
        /\ NewImplicit(s, "ARD").head.bindOffsetPtr = NULL
    BY DEF NewImplicit, NewDescriptor, InitAppHead
  <2>4. stmt'[s] = NewStatement(c, s)
    BY <1>1 DEF Good, Typed, StmtOK
  <2>5. LET t == NewStatement(c, s)
        IN /\ t.ard = d /\ t.rowArraySize = 1 /\ t.columnBindOffset = NULL
           /\ \A n \in Columns : t.bindings[n] = NULL
    BY DEF NewStatement, Implicit
  <2> HIDE DEF d
  <2>6. Mirrored(stmt'[s], desc'[d], d \in pointed') /\ stmt'[s].ard = d
    BY <2>2, <2>3, <2>4, <2>5 DEF Mirrored
  <2>7. MirrorOf(s, d)'
    BY <2>6 DEF MirrorOf
  <2> QED
    BY <2>7 DEF d
<1> QED
  BY <1>2, <1>3, MirrorKept DEF MirrorInv

\* A new explicit descriptor is used by no statement.
LEMMA AllocDescMirror ==
  ASSUME Good, MirrorInv, NEW c \in Conns, NEW d \in Descs, SQLAllocDesc(c, d)
  PROVE  MirrorInv'
<1> DEFINE new == NewDescriptor("UNKNOWN", c, NULL, InitAppHead(FALSE))
<1>1. /\ UNCHANGED <<stmt, copied, switched, pointed>>
      /\ live' = live \cup {d} /\ desc' = [desc EXCEPT ![d] = new]
  BY DEF SQLAllocDesc, history
<1> HIDE DEF new
<1>2. ASSUME NEW t \in Stmts PROVE KeepsMirror(t, <<t, "ARD">>)
  <2> DEFINE e == <<t, "ARD">>
  <2>1. e \in DescIds /\ e # d /\ t # d
    BY OwnArd, AddressesAssumption DEF DescIds
  <2> HIDE DEF e
  <2>2. KeepsMirror(t, e)
    BY <1>1, <2>1 DEF KeepsMirror, FewerBound, Good, Typed, DescOK
  <2> QED
    BY <2>2 DEF e
<1> QED
  BY <1>2, MirrorKept DEF MirrorInv

\* The statements a freed descriptor gives back are mirrored by their own.
LEMMA FreeDescriptorMirror ==
  ASSUME Good, MirrorInv, NEW d \in Descs, SQLFreeDescriptor(d)
  PROVE  MirrorInv'
<1> DEFINE s == desc[d].stmt
<1>1. CASE Fault("SQLFreeDescriptor", d)
  BY <1>1, MirrorIdle DEF Fault, objects, history
<1>2. CASE /\ stmt' = [stmt EXCEPT ![s] = RestoreDescriptor(s, desc[d].type)]
           /\ desc' = [desc EXCEPT ![d] = NoDescriptor] /\ live' = live \ {d}
           /\ UNCHANGED history
  <2> HIDE DEF s
  <2>1. ASSUME NEW t \in Stmts
        PROVE  FewerBound(stmt[t], stmt'[t])
               /\ (stmt[t].ard = <<t, "ARD">> => stmt'[t].ard = <<t, "ARD">>)
    <3>1. CASE t = s
      <4>1. stmt'[t] = stmt[t] \/ stmt'[t] = [stmt[t] EXCEPT !.ard = <<t, "ARD">>]
        BY <1>2, <3>1 DEF RestoreDescriptor, Implicit, Good, Typed, StmtOK
      <4> QED
        BY <4>1 DEF Good, Typed, StmtOK, StmtType, FewerBound
    <3>2. CASE t # s
      <4>1. stmt'[t] = stmt[t]
        BY <1>2, <3>2 DEF Good, Typed, StmtOK
      <4> QED
        BY <4>1 DEF FewerBound
    <3> QED
      BY <3>1, <3>2
  <2>2. ASSUME NEW t \in Stmts PROVE KeepsMirror(t, <<t, "ARD">>)
    <3>1. <<t, "ARD">> \in DescIds /\ <<t, "ARD">> # d
      BY OwnArd
    <3> DEFINE e == <<t, "ARD">>
    <3>2. FewerBound(stmt[t], stmt'[t]) /\ (stmt[t].ard = e => stmt'[t].ard = e)
      BY <2>1
    <3> HIDE DEF e
    <3>3. desc'[e] = desc[e]
      BY <1>2, <3>1 DEF e, Good, Typed, DescOK
    <3>4. KeepsMirror(t, e)
      BY <1>2, <3>2, <3>3 DEF KeepsMirror, history
    <3> QED
      BY <3>4 DEF e
  <2> QED
    BY <2>2, MirrorKept DEF MirrorInv
<1> QED
  BY <1>1, <1>2, Zenon DEF SQLFreeDescriptor

\* Freeing a statement touches the mirror of no other.
LEMMA DropStmtMirror ==
  ASSUME Good, MirrorInv, NEW s \in Stmts, SQLDropStmt(s)
  PROVE  MirrorInv'
<1>1. /\ UNCHANGED <<copied, switched, pointed>> /\ live' = live \ ({s} \cup ImplicitOf(s))
      /\ stmt' = [stmt EXCEPT ![s] = NewStatement(NULL, s)]
      /\ desc' = [d \in DescIds |-> IF d \in ImplicitOf(s) THEN NoDescriptor ELSE desc[d]]
  BY DEF SQLDropStmt, history
<1>2. ASSUME NEW t \in Stmts, t # s PROVE KeepsMirror(t, <<t, "ARD">>)
  <2> DEFINE d == <<t, "ARD">>
  <2>1. d \in DescIds /\ d \notin ImplicitOf(s)
    BY <1>2, OwnArd
  <2> HIDE DEF d
  <2>2. stmt'[t] = stmt[t] /\ desc'[d] = desc[d]
    BY <1>1, <1>2, <2>1 DEF Good, Typed, StmtOK
  <2>3. KeepsMirror(t, d)
    BY <1>1, <2>2 DEF KeepsMirror, FewerBound
  <2> QED
    BY <2>3 DEF d
<1>3. MirrorOf(s, <<s, "ARD">>)'
  BY <1>1 DEF MirrorOf
<1> QED
  BY <1>2, <1>3, MirrorKept DEF MirrorInv

\* Going back to the implicit descriptor restores the mirror.
LEMMA ResetMirror ==
  ASSUME Good, MirrorInv, NEW s \in Stmts, SQLResetAppRowDesc(s) \/ SQLUnbind(s)
  PROVE  MirrorInv'
<1>1. /\ UNCHANGED <<live, desc, copied, switched, pointed>>
      /\ \/ stmt' = [stmt EXCEPT ![s].ard = <<s, "ARD">>]
         \/ stmt' = [stmt EXCEPT ![s].bindings = [n \in Columns |-> NULL]]
  BY Zenon DEF SQLResetAppRowDesc, SQLUnbind, history, Implicit
<1>2. ASSUME NEW t \in Stmts
      PROVE  FewerBound(stmt[t], stmt'[t])
             /\ (stmt[t].ard = <<t, "ARD">> => stmt'[t].ard = <<t, "ARD">>)
  <2>1. CASE t = s
    BY <1>1, <2>1 DEF Good, Typed, StmtOK, StmtType, FewerBound
  <2>2. CASE t # s
    <3>1. stmt'[t] = stmt[t]
      BY <1>1, <2>2 DEF Good, Typed, StmtOK
    <3> QED
      BY <3>1 DEF FewerBound
  <2> QED
    BY <2>1, <2>2
<1>3. ASSUME NEW t \in Stmts PROVE KeepsMirror(t, <<t, "ARD">>)
  BY <1>1, <1>2 DEF KeepsMirror
<1> QED
  BY <1>3, MirrorKept DEF MirrorInv

\* A statement takes over the bindings of the descriptor it is given.
LEMMA SetAppRowDescMirror ==
  ASSUME Good, MirrorInv, NEW s \in Stmts, NEW d \in Descs \cup {Implicit(s, "ARD")},
         SQLSetAppRowDesc(s, d)
  PROVE  MirrorInv'
<1>1. CASE UNCHANGED <<objects, history>>
  BY <1>1, MirrorIdle DEF objects, history
<1>2. CASE /\ SetARDDesc(s, d) /\ switched' = switched \cup {s}
           /\ UNCHANGED <<live, env, conn, owner, copied, pointed>>
  <2>1. /\ stmt' = [stmt EXCEPT ![s].ard = d]
        /\ desc' = [desc EXCEPT ![d].type = "ARD", ![d].stmt = s]
    BY <1>2 DEF SetARDDesc
  <2>2. ASSUME NEW t \in Stmts, t # s PROVE KeepsMirror(t, <<t, "ARD">>)
    <3> DEFINE e == <<t, "ARD">>
    <3>1. e \in DescIds /\ e # d
      BY <2>2, OwnArd DEF Implicit
    <3> HIDE DEF e
    <3>2. stmt'[t] = stmt[t] /\ desc'[e] = desc[e]
      BY <2>1, <2>2, <3>1 DEF Good, Typed, StmtOK, DescOK
    <3>3. KeepsMirror(t, e)
      BY <1>2, <3>2 DEF KeepsMirror, FewerBound
    <3> QED
      BY <3>3 DEF e
  <2>3. MirrorOf(s, <<s, "ARD">>)'
    BY <1>2 DEF MirrorOf
  <2> QED
    BY <2>2, <2>3, MirrorKept DEF MirrorInv
<1> QED
  BY <1>1, <1>2, Zenon DEF SQLSetAppRowDesc

\* Copying into a row descriptor keeps what the module claims of it.
LEMMA CopyDescMirror ==
  ASSUME Good, MirrorInv, NEW src \in DescIds, NEW dst \in DescIds, SQLCopyDesc(src, dst)
  PROVE  MirrorInv'
<1>1. CASE UNCHANGED <<objects, history>>
  BY <1>1, MirrorIdle DEF objects, history
<1>2. CASE /\ desc' = [desc EXCEPT ![dst] = CopyOf(desc[src], src = dst)]
           /\ copied' = copied \cup {dst}
           /\ UNCHANGED <<live, env, conn, stmt, owner, switched, pointed>>
  <2>1. ASSUME NEW t \in Stmts PROVE KeepsMirror(t, <<t, "ARD">>)
    <3>1. <<t, "ARD">> \in DescIds
      BY OwnArd
    <3> DEFINE e == <<t, "ARD">>
    <3> HIDE DEF e
    <3>2. e = dst \/ desc'[e] = desc[e]
      BY <1>2, <3>1 DEF e, Good, Typed, DescOK
    <3>3. KeepsMirror(t, e)
      BY <1>2, <3>2 DEF KeepsMirror, FewerBound
    <3> QED
      BY <3>3 DEF e
  <2> QED
    BY <2>1, MirrorKept DEF MirrorInv
<1> QED
  BY <1>1, <1>2, Zenon DEF SQLCopyDesc

\* A write to the descriptor d that a statement s uses, for every other
\* statement.
LEMMA MirrorOfOthers ==
  ASSUME Good, MirrorInv, NEW s \in Stmts, s \in live, NEW u, NEW w,
         stmt' = [stmt EXCEPT ![s] = u],
         desc' = desc \/ desc' = [desc EXCEPT ![stmt[s].ard] = w],
         UNCHANGED <<live, copied, switched, pointed>>, NEW t \in Stmts, t # s
  PROVE  MirrorOf(t, <<t, "ARD">>)'
<1> DEFINE e == <<t, "ARD">>
<1>1. e \in DescIds
  BY OwnArd
<1>2. t \in live => (stmt[s].ard = e => e \in copied)
  BY OthersUntouched
<1>3. MirrorOf(t, e)
  BY DEF MirrorInv
<1> HIDE DEF e
<1>4. stmt'[t] = stmt[t]
  BY DEF Good, Typed, StmtOK
<1>5. t \in live => e \in copied \/ desc'[e] = desc[e]
  BY <1>1, <1>2 DEF Good, Typed, DescOK
<1>6. KeepsMirror(t, e)
  BY <1>4, <1>5 DEF KeepsMirror, FewerBound
<1> QED
  BY <1>3, <1>6, MirrorKept DEF e

\* SQLBindCol writes the binding on both sides.
LEMMA BindColMirror ==
  ASSUME Good, MirrorInv, NEW s \in Stmts, NEW n \in Columns, NEW t,
         NEW b \in Buffers \cup {NULL}, NEW lenOk, SQLBindCol(s, n, t, b, lenOk)
  PROVE  MirrorInv'
<1> DEFINE d == stmt[s].ard
<1>1. CASE UNCHANGED <<objects, history>>
  BY <1>1, MirrorIdle DEF objects, history
<1>2. s \in live /\ d \in DescIds
  BY DEF SQLBindCol, Good, Typed, StmtOK, StmtType
<1>3. CASE /\ stmt' = [stmt EXCEPT ![s].bindings[n] = NULL]
           /\ UNCHANGED <<live, env, conn, desc, owner, history>>
  <2>1. ASSUME NEW x \in Stmts
        PROVE  FewerBound(stmt[x], stmt'[x]) /\ stmt'[x].ard = stmt[x].ard
    BY <1>3 DEF Good, Typed, StmtOK, StmtType, FewerBound
  <2>2. ASSUME NEW x \in Stmts PROVE KeepsMirror(x, <<x, "ARD">>)
    BY <1>3, <2>1 DEF KeepsMirror, history
  <2> QED
    BY <2>2, MirrorKept DEF MirrorInv
<1>4. CASE /\ stmt' = [stmt EXCEPT ![s].bindings[n] = b]
           /\ desc' = [desc EXCEPT ![d] = Described(@, n, t, b)]
           /\ UNCHANGED <<live, env, conn, owner, history>>
  <2> DEFINE u == [stmt[s] EXCEPT !.bindings[n] = b]
             w == Described(desc[d], n, t, b)
  <2>1. stmt' = [stmt EXCEPT ![s] = u] /\ desc' = [desc EXCEPT ![stmt[s].ard] = w]
        /\ UNCHANGED <<live, copied, switched, pointed>>
    BY <1>4 DEF history
  <2>2. /\ u.ard = d /\ u.rowArraySize = stmt[s].rowArraySize
        /\ u.columnBindOffset = stmt[s].columnBindOffset /\ u.bindings[n] = b
        /\ \A m \in Columns \ {n} : u.bindings[m] = stmt[s].bindings[m]
    BY DEF Good, Typed, StmtOK, StmtType
  <2>3. IsDescriptor(desc[d])
    BY <1>2 DEF Good, Typed, DescOK
  <2> HIDE DEF d
  <2>4. /\ w.head.arraySize = desc[d].head.arraySize
        /\ w.head.bindOffsetPtr = desc[d].head.bindOffsetPtr
        /\ w.head.count >= desc[d].head.count /\ w.head.count >= n
        /\ DOMAIN w.records = DOMAIN desc[d].records \cup {n}
        /\ w.records[n].dataPtr = b /\ w.head.count \in Nat
        /\ \A m \in DOMAIN desc[d].records \ {n} : w.records[m] = desc[d].records[m]
    BY <2>3, DescribedKeepsOwner DEF SameOwner, IsDescriptor
  <2> HIDE DEF u, w
  <2>5. stmt'[s] = u /\ desc'[d] = w
    BY <1>2, <2>1 DEF d, Good, Typed, StmtOK, DescOK
  <2>6. ASSUME NEW p, Mirrored(stmt[s], desc[d], p) PROVE Mirrored(u, w, p)
    <3>1. ASSUME NEW m \in Columns, u.bindings[m] # NULL
          PROVE  /\ m \in DOMAIN w.records /\ m <= w.head.count
                 /\ ~p => w.records[m].dataPtr = u.bindings[m]
      <4>1. CASE m = n
        BY <2>2, <2>4, <4>1, HandlesAssumption
      <4>2. CASE m # n
        <5>1. u.bindings[m] = stmt[s].bindings[m]
          BY <2>2, <4>2
        <5>2. /\ m \in DOMAIN desc[d].records /\ m <= desc[d].head.count
              /\ ~p => desc[d].records[m].dataPtr = stmt[s].bindings[m]
          BY <2>6, <3>1, <5>1 DEF Mirrored
        <5>3. m \in Nat /\ desc[d].head.count \in Nat
          BY <2>3, HandlesAssumption DEF IsDescriptor
        <5>4. m \in DOMAIN w.records /\ w.records[m] = desc[d].records[m]
          BY <2>4, <4>2, <5>2
        <5>5. m <= w.head.count
          BY <2>4, <5>2, <5>3
        <5> QED
          BY <5>1, <5>2, <5>4, <5>5
      <4> QED
        BY <4>1, <4>2
    <3> QED
      BY <2>2, <2>4, <2>6, <3>1 DEF Mirrored
  <2>7. MirrorOf(s, <<s, "ARD">>)'
    <3> DEFINE e == <<s, "ARD">>
    <3>1. MirrorOf(s, e)
      BY DEF MirrorInv
    <3> HIDE DEF e
    <3>2. MirrorOf(s, e)'
      BY <1>2, <2>1, <2>2, <2>5, <2>6, <3>1 DEF MirrorOf, d
    <3> QED
      BY <3>2 DEF e
  <2>8. ASSUME NEW x \in Stmts, x # s PROVE MirrorOf(x, <<x, "ARD">>)'
    BY <1>2, <2>1, <2>8, MirrorOfOthers
  <2> QED
    BY <2>7, <2>8 DEF MirrorInv
<1> QED
  BY <1>1, <1>3, <1>4, Zenon DEF SQLBindCol, Fault

\* An attribute kept on both sides is written on both.
LEMMA SetStmtAttrMirror ==
  ASSUME Good, MirrorInv, NEW s \in Stmts, NEW a, NEW v, SQLSetStmtAttr(s, a, v)
  PROVE  MirrorInv'
<1> DEFINE d == stmt[s].ard
<1>1. CASE UNCHANGED <<objects, history>>
  BY <1>1, MirrorIdle DEF objects, history
<1>2. s \in live /\ d \in DescIds
  BY DEF SQLSetStmtAttr, Good, Typed, StmtOK, StmtType
<1>3. CASE /\ stmt' = [stmt EXCEPT ![s] = StatementWith(@, a, v)]
           /\ desc' = IF a \in ArdAttrs THEN [desc EXCEPT ![d] = ArdWith(@, a, v)] ELSE desc
           /\ UNCHANGED <<live, env, conn, owner, history>>
  <2> DEFINE u == StatementWith(stmt[s], a, v)
             w == ArdWith(desc[d], a, v)
  <2>1. stmt' = [stmt EXCEPT ![s] = u] /\ UNCHANGED <<live, copied, switched, pointed>>
    BY <1>3 DEF history
  <2>2. \/ desc' = [desc EXCEPT ![d] = w]
        \/ desc' = desc /\ u = stmt[s]
    <3>1. CASE a \in ArdAttrs
      BY <1>3, <3>1
    <3>2. CASE a \notin ArdAttrs
      <4>1. a # "ROW_ARRAY_SIZE" /\ a # "ROW_BIND_OFFSET_PTR"
        BY <3>2 DEF ArdAttrs
      <4>2. u = stmt[s]
        BY <4>1, Zenon DEF StatementWith
      <4> QED
        BY <1>3, <3>2, <4>2
    <3> QED
      BY <3>1, <3>2
  <2>3. stmt[s] \in StmtType /\ IsDescriptor(desc[d])
    BY <1>2 DEF Good, Typed, StmtOK, DescOK
  <2>4. u.ard = stmt[s].ard /\ (Mirrored(stmt[s], desc[d], d \in pointed)
                                 => Mirrored(u, w, d \in pointed))
    <3>1. CASE a = "ROW_ARRAY_SIZE"
      <4>1. u = [stmt[s] EXCEPT !.rowArraySize = v] /\ w = [desc[d] EXCEPT !.head.arraySize = v]
        BY <3>1 DEF StatementWith, ArdWith
      <4> HIDE DEF u, w, d
      <4> QED
        BY <2>3, <4>1 DEF Mirrored, StmtType, IsDescriptor, DescFields,
             HeadFields
    <3>2. CASE a = "ROW_BIND_OFFSET_PTR"
      <4>1. /\ u = [stmt[s] EXCEPT !.columnBindOffset = v]
            /\ w = [desc[d] EXCEPT !.head.bindOffsetPtr = v]
        BY <3>2 DEF StatementWith, ArdWith
      <4> HIDE DEF u, w, d
      <4> QED
        BY <2>3, <4>1 DEF Mirrored, StmtType, IsDescriptor, DescFields,
             HeadFields
    <3>3. CASE a \notin {"ROW_ARRAY_SIZE", "ROW_BIND_OFFSET_PTR"}
      <4>1. u = stmt[s] /\ w = desc[d]
        BY <3>3, Zenon DEF StatementWith, ArdWith
      <4> QED
        BY <4>1, Zenon
    <3> QED
      BY <3>1, <3>2, <3>3
  <2> HIDE DEF u, w
  <2>5. MirrorOf(s, <<s, "ARD">>)'
    <3> DEFINE e == <<s, "ARD">>
    <3>1. MirrorOf(s, e)
      BY DEF MirrorInv
    <3> HIDE DEF e
    <3>2. stmt'[s] = u /\ (desc'[d] = w \/ (desc'[d] = desc[d] /\ u = stmt[s]))
      BY <1>2, <2>1, <2>2 DEF Good, Typed, StmtOK, DescOK
    <3>3. MirrorOf(s, e)'
      BY <1>2, <2>1, <2>4, <3>1, <3>2 DEF MirrorOf
    <3> QED
      BY <3>3 DEF e
  <2>6. ASSUME NEW x \in Stmts, x # s PROVE MirrorOf(x, <<x, "ARD">>)'
    BY <1>2, <2>1, <2>2, <2>6, MirrorOfOthers
  <2> QED
    BY <2>5, <2>6 DEF MirrorInv
<1> QED
  BY <1>1, <1>3, Zenon DEF SQLSetStmtAttr, SetAttribute, Fault

\* A record of d is written, whose data pointer stays or is history.
LEMMA RecordMirror ==
  ASSUME Good, MirrorInv, NEW d \in DescIds, NEW n \in Columns, NEW r, IsRecord(r),
         desc' = [desc EXCEPT ![d] = WithRecord(desc[d], n, r)],
         d \in pointed' \/ r.dataPtr = RecordAt(desc[d], n).dataPtr,
         \A s \in Stmts : FewerBound(stmt[s], stmt'[s]) /\ stmt'[s].ard = stmt[s].ard,
         UNCHANGED <<live, copied, switched>>, pointed \subseteq pointed'
  PROVE  MirrorInv'
<1> DEFINE w == WithRecord(desc[d], n, r)
<1>1. IsDescriptor(desc[d])
  BY DEF Good, Typed, DescOK
<1>2. /\ w.head = desc[d].head /\ DOMAIN w.records = DOMAIN desc[d].records \cup {n}
      /\ w.records[n] = r
      /\ \A m \in DOMAIN desc[d].records \ {n} : w.records[m] = desc[d].records[m]
  BY <1>1, WritesKeepOwner
<1> HIDE DEF w
<1>3. desc'[d] = w /\ \A e \in DescIds \ {d} : desc'[e] = desc[e]
  BY DEF w, Good, Typed, DescOK
<1>4. ASSUME NEW t, Mirrored(t, desc[d], d \in pointed) PROVE Mirrored(t, w, d \in pointed')
  <2> SUFFICES ASSUME NEW m \in Columns, t.bindings[m] # NULL
               PROVE  /\ m \in DOMAIN w.records /\ m <= w.head.count
                      /\ d \notin pointed' => w.records[m].dataPtr = t.bindings[m]
    BY <1>2, <1>4 DEF Mirrored
  <2>1. /\ m \in DOMAIN desc[d].records /\ m <= desc[d].head.count
        /\ d \notin pointed => desc[d].records[m].dataPtr = t.bindings[m]
    BY <1>4 DEF Mirrored
  <2>2. m \in DOMAIN w.records /\ m <= w.head.count
    BY <1>2, <2>1
  <2>3. d \notin pointed' => w.records[m].dataPtr = desc[d].records[m].dataPtr
    <3>1. CASE m = n
      BY <1>2, <2>1, <3>1 DEF RecordAt
    <3>2. CASE m # n
      BY <1>2, <2>1, <3>2
    <3> QED
      BY <3>1, <3>2
  <2> QED
    BY <2>1, <2>2, <2>3
<1>5. ASSUME NEW s \in Stmts PROVE MirrorOf(s, <<s, "ARD">>)'
  <2> DEFINE e == <<s, "ARD">>
  <2>1. e \in DescIds /\ MirrorOf(s, e)
    BY OwnArd DEF MirrorInv
  <2> HIDE DEF e
  <2>2. CASE e = d
    <3> SUFFICES ASSUME s \in live, s \notin switched
                 PROVE  /\ stmt'[s].ard = e
                        /\ e \notin copied => Mirrored(stmt'[s], desc'[e], e \in pointed')
      BY DEF MirrorOf, e
    <3>1. stmt[s].ard = e /\ (e \notin copied => Mirrored(stmt[s], desc[e], e \in pointed))
      BY <2>1 DEF MirrorOf
    <3>2. e \notin copied => Mirrored(stmt[s], w, e \in pointed')
      BY <1>4, <2>2, <3>1
    <3>3. e \notin copied => Mirrored(stmt'[s], w, e \in pointed')
      BY <3>2, FewerMirrored
    <3> QED
      BY <1>3, <2>2, <3>1, <3>3
  <2>3. CASE e # d
    <3>1. desc'[e] = desc[e]
      BY <1>3, <2>1, <2>3
    <3>2. KeepsMirror(s, e)
      BY <3>1 DEF KeepsMirror
    <3> QED
      BY <2>1, <3>2, MirrorKept DEF e
  <2> QED
    BY <2>2, <2>3
<1> QED
  BY <1>5 DEF MirrorInv

\* A field written to a row descriptor reaches the statement.
LEMMA SetDescFieldMirror ==
  ASSUME Good, MirrorInv, NEW d \in DescIds, NEW n \in Columns, NEW f, NEW v, NEW lenOk,
         SQLSetDescField(d, n, f, v, lenOk)
  PROVE  MirrorInv'
<1> DEFINE r == RecordAt(desc[d], n)
           out == FieldOutcome(r, f, v)
           s == desc[d].stmt
           unbinds == f = "DATA_PTR" /\ v = NULL
<1>1. CASE UNCHANGED <<objects, history>>
  BY <1>1, MirrorIdle DEF objects, history
<1>2. CASE /\ desc' = [desc EXCEPT ![d] = WithRecord(@, n, out.record)]
           /\ stmt' = IF unbinds THEN [stmt EXCEPT ![s].bindings[n] = NULL] ELSE stmt
           /\ pointed' = IF f = "DATA_PTR" /\ v # NULL THEN pointed \cup {d} ELSE pointed
           /\ UNCHANGED <<live, env, conn, owner, copied, switched>>
  <2>1. IsRecord(r)
    BY ReadIsRecord DEF Good, Typed, DescOK
  <2>2. IsRecord(out.record) /\ (f # "DATA_PTR" \/ v = NULL => out.record.dataPtr = r.dataPtr)
    BY <2>1, OutcomeIsRecord
  <2> HIDE DEF out, r
  <2>3. d \in pointed' \/ out.record.dataPtr = r.dataPtr
    BY <1>2, <2>2
  <2>4. pointed \subseteq pointed'
    BY <1>2
  <2>5. \A x \in Stmts : FewerBound(stmt[x], stmt'[x]) /\ stmt'[x].ard = stmt[x].ard
    <3> TAKE x \in Stmts
    <3>1. CASE unbinds /\ x = s
      <4>1. stmt'[x] = [stmt[x] EXCEPT !.bindings[n] = NULL] /\ stmt[x] \in StmtType
        BY <1>2, <3>1 DEF Good, Typed, StmtOK
      <4> QED
        BY <4>1 DEF StmtType, FewerBound
    <3>2. CASE ~(unbinds /\ x = s)
      <4>1. stmt'[x] = stmt[x]
        BY <1>2, <3>2 DEF Good, Typed, StmtOK
      <4> QED
        BY <4>1 DEF FewerBound
    <3> QED
      BY <3>1, <3>2
  <2>6. desc' = [desc EXCEPT ![d] = WithRecord(desc[d], n, out.record)]
    BY <1>2
  <2>7. UNCHANGED <<live, copied, switched>>
    BY <1>2
  <2> QED
    BY <2>2, <2>3, <2>4, <2>5, <2>6, <2>7, RecordMirror DEF r
<1> QED
  BY <1>1, <1>2, Zenon DEF SQLSetDescField, Fault

\* Reading a field changes neither side.
LEMMA GetDescFieldMirror ==
  ASSUME Good, MirrorInv, NEW d \in DescIds, NEW n \in Columns, NEW f, SQLGetDescField(d, n, f)
  PROVE  MirrorInv'
<1> DEFINE r == RecordAt(desc[d], n)
<1>1. /\ desc' = [desc EXCEPT ![d] = WithRecord(desc[d], n, r)]
      /\ UNCHANGED <<live, stmt, copied, switched, pointed>>
  BY DEF SQLGetDescField, history
<1>2. IsRecord(r)
  BY ReadIsRecord DEF Good, Typed, DescOK
<1>3. \A x \in Stmts : FewerBound(stmt[x], stmt'[x]) /\ stmt'[x].ard = stmt[x].ard
  BY <1>1 DEF FewerBound
<1> QED
  BY <1>1, <1>2, <1>3, RecordMirror

\* A query changes neither side.
LEMMA GetTypeInfoMirror ==
  ASSUME Good, MirrorInv, NEW s \in Stmts, NEW b, SQLGetTypeInfo(s, b)
  PROVE  MirrorInv'
<1>1. /\ UNCHANGED <<live, desc, copied, switched, pointed>>
      /\ UNCHANGED stmt \/ stmt' = [stmt EXCEPT ![s].query = TRUE]
  BY Zenon DEF SQLGetTypeInfo, history
<1>2. \A x \in Stmts : FewerBound(stmt[x], stmt'[x]) /\ stmt'[x].ard = stmt[x].ard
  <2>1. ASSUME NEW q \in BOOLEAN, stmt' = [stmt EXCEPT ![s].query = q], NEW x \in Stmts
        PROVE  FewerBound(stmt[x], stmt'[x]) /\ stmt'[x].ard = stmt[x].ard
    BY <2>1 DEF Good, Typed, StmtOK, StmtType, FewerBound
  <2>2. CASE UNCHANGED stmt
    BY <2>2 DEF FewerBound
  <2>3. TRUE \in BOOLEAN
    OBVIOUS
  <2> QED
    BY <1>1, <2>1, <2>2, <2>3, Zenon
<1>3. ASSUME NEW t \in Stmts PROVE KeepsMirror(t, <<t, "ARD">>)
  BY <1>1, <1>2 DEF KeepsMirror
<1> QED
  BY <1>3, MirrorKept DEF MirrorInv

\* The calls of Handles keep the mirror.
LEMMA HandleMirror == ASSUME Good, MirrorInv, HandleCalls PROVE MirrorInv'
<1>1. ASSUME UNCHANGED <<stmt, desc, history>>, \A s \in Stmts : s \in live' => s \in live
      PROVE  MirrorInv'
  BY <1>1, MirrorIdle DEF history
<1>2. ASSUME NEW e \in Envs, SQLAllocEnv(e) \/ SQLFreeEnv(e) PROVE MirrorInv'
  <2>1. e \notin Stmts
    BY AddressesAssumption
  <2> QED
    BY <1>1, <1>2, <2>1 DEF SQLAllocEnv, SQLFreeEnv
<1>3. ASSUME NEW e \in Envs, NEW c \in Conns, SQLAllocConnect(e, c) PROVE MirrorInv'
  <2>1. c \notin Stmts
    BY AddressesAssumption
  <2> QED
    BY <1>1, <1>3, <2>1 DEF SQLAllocConnect
<1>4. ASSUME NEW c \in Conns, SQLFreeConnect(c) PROVE MirrorInv'
  BY <1>1, <1>4 DEF SQLFreeConnect
<1>5. ASSUME NEW c \in Conns, NEW s \in Stmts, SQLAllocStmt(c, s) PROVE MirrorInv'
  BY <1>5, AllocStmtMirror
<1>6. ASSUME NEW c \in Conns, NEW d \in Descs, SQLAllocDesc(c, d) PROVE MirrorInv'
  BY <1>6, AllocDescMirror
<1>7. ASSUME NEW d \in Descs, SQLFreeDescriptor(d) PROVE MirrorInv'
  BY <1>7, FreeDescriptorMirror
<1>8. ASSUME NEW s \in Stmts, SQLDropStmt(s) \/ SQLResetAppRowDesc(s) \/ SQLUnbind(s)
      PROVE  MirrorInv'
  BY <1>8, DropStmtMirror, ResetMirror
<1>9. ASSUME NEW s \in Stmts, NEW d \in Descs \cup {Implicit(s, "ARD")},
             SQLSetAppRowDesc(s, d)
      PROVE  MirrorInv'
  BY <1>9, SetAppRowDescMirror
<1>10. ASSUME NEW p \in Copies, SQLCopyDesc(p[1], p[2]) PROVE MirrorInv'
  <2>1. p[1] \in DescIds /\ p[2] \in DescIds
    BY AddressesAssumption
  <2> QED
    BY <1>10, <2>1, CopyDescMirror
<1>11. ASSUME NEW s \in Stmts, NEW n \in Columns, NEW t, NEW b \in Buffers \cup {NULL},
              NEW lenOk, SQLBindCol(s, n, t, b, lenOk)
       PROVE  MirrorInv'
  BY <1>11, BindColMirror
<1>12. ASSUME NEW d \in DescIds, NEW n \in Columns, NEW f, NEW v, NEW lenOk,
              SQLSetDescField(d, n, f, v, lenOk)
       PROVE  MirrorInv'
  BY <1>12, SetDescFieldMirror
<1>13. ASSUME NEW d \in DescIds, NEW n \in Columns, NEW f, SQLGetDescField(d, n, f)
       PROVE  MirrorInv'
  BY <1>13, GetDescFieldMirror
<1> QED
  BY <1>2, <1>3, <1>4, <1>5, <1>6, <1>7, <1>8, <1>9, <1>10, <1>11, <1>12, <1>13,
       Zenon DEF HandleCalls

\* The calls of ApiCalls keep the mirror.
LEMMA ApiMirror == ASSUME Good, MirrorInv, ApiCallsNext PROVE MirrorInv'
<1>1. ASSUME UNCHANGED <<live, stmt, desc, history>> PROVE MirrorInv'
  BY <1>1, MirrorIdle DEF history
<1>2. ASSUME UNCHANGED <<objects, history>> PROVE MirrorInv'
  BY <1>1, <1>2 DEF objects
<1>3. ASSUME NEW e, NEW a, NEW v, SQLSetEnvAttr(e, a, v) \/ SQLGetEnvAttr(e, a)
      PROVE  MirrorInv'
  <2>1. CASE SQLSetEnvAttr(e, a, v)
    BY <1>1, <2>1 DEF SQLSetEnvAttr
  <2>2. CASE SQLGetEnvAttr(e, a)
    BY <1>2, <2>2 DEF SQLGetEnvAttr
  <2> QED
    BY <1>3, <2>1, <2>2
<1>4. ASSUME NEW s, NEW v, SQLSetMetadataID(s, v) PROVE MirrorInv'
  BY <1>1, <1>4 DEF SQLSetMetadataID
<1>5. ASSUME NEW s \in Stmts, NEW a, NEW v, SQLSetStmtAttr(s, a, v) PROVE MirrorInv'
  BY <1>5, SetStmtAttrMirror
<1>6. ASSUME NEW s, NEW a, NEW b, SQLGetStmtAttr(s, a, b) PROVE MirrorInv'
  BY <1>2, <1>6, Zenon DEF SQLGetStmtAttr
<1>7. ASSUME NEW s \in Stmts, NEW b, SQLGetTypeInfo(s, b) PROVE MirrorInv'
  BY <1>7, GetTypeInfoMirror
<1>8. ASSUME NEW h, NEW st, AppendRecord(h, st) PROVE MirrorInv'
  BY <1>2, <1>8, Zenon DEF AppendRecord
<1>9. ASSUME NEW s, SQLAskQuery(s) \/ SQLColumnsUnnamed(s) PROVE MirrorInv'
  BY <1>2, <1>8, <1>9, Zenon DEF SQLAskQuery, SQLColumnsUnnamed
<1>10. ASSUME NEW s, NEW n, NEW fits, SQLDescribeCol(s, n, fits) PROVE MirrorInv'
  BY <1>2, <1>10, Zenon DEF SQLDescribeCol
<1>11. ASSUME NEW s, NEW n, NEW a, NEW fits, NEW odbc2, SQLColAttribute(s, n, a, fits, odbc2)
       PROVE  MirrorInv'
  BY <1>2, <1>11, Zenon DEF SQLColAttribute
<1>12. ASSUME NEW h, NotImplemented(h) \/ SQLError(h) PROVE MirrorInv'
  BY <1>2, <1>8, <1>12, Zenon DEF NotImplemented, SQLError
<1> QED
  BY <1>3, <1>4, <1>5, <1>6, <1>7, <1>9, <1>10, <1>11, <1>12, Zenon DEF
       ApiCallsNext

\* Every step keeps the mirror.
LEMMA StepMirror == ASSUME Good, MirrorInv, [Next]_vars PROVE MirrorInv'
<1>1. CASE UNCHANGED vars
  BY <1>1, MirrorIdle DEF vars, objects, history
<1> QED
  BY <1>1, HandleMirror, ApiMirror DEF Next, Faulted

-----------------------------------------------------------------------------
(* The theorems *)

\* The inductive invariant holds in every reachable state.
LEMMA HandlesInvariant == Spec => [](Good /\ DiagOK /\ MirrorInv)
<1>1. Init => Good /\ DiagOK /\ MirrorInv
  <2>1. Init => MirrorInv
    BY DEF Init, MirrorInv, MirrorOf
  <2> QED
    BY <2>1, InitPointers
<1>2. Good /\ DiagOK /\ MirrorInv /\ [Next]_vars => (Good /\ DiagOK /\ MirrorInv)'
  BY StepPointers, StepMirror
<1> QED
  BY <1>1, <1>2, PTL DEF Spec

\* Whatever handles are allocated, freed, copied and pointed at each other, in
\* any order and number, a dead pointer is followed only where a copy or an
\* orphan descriptor excuses it, and a statement's row descriptor is its own
\* (Descriptor::Deregister, Statement::SetARDDesc, RestoreDescriptor,
\* Connection::Deregister).
THEOREM PointersStaySound == Spec => []PointersSound
<1>1. Good /\ DiagOK /\ MirrorInv => PointersSound
  BY TypedIsTypeOK DEF Good, PointersSound
<1> QED
  BY <1>1, HandlesInvariant, PTL

\* Whatever the order of SQLBindCol, SQLSetStmtAttr, SQLSetDescField and
\* SQLCopyDesc, a row descriptor that is still the statement's own says what
\* SQLFetch will do, and the types of every record agree
\* (Statement::SetDescriptorFields, InternalSetAttribute,
\* Descriptor::SetConciseType, SetDescType).
THEOREM DescriptorsStayTrue == Spec => []DescriptorsTrue
<1>1. Good /\ DiagOK /\ MirrorInv => DescriptorsTrue
  BY MirrorIsProperty
<1> QED
  BY <1>1, HandlesInvariant, PTL

\* After any sequence of calls, an error has a record that explains it, a
\* success has none but the tolerated ones, both ways of counting the records
\* agree, and SQLError hands them out in order (IGNITE_ODBC_API_CALL,
\* DiagnosticRecordStorage::GetField, GetLastNonRetrieved, SQLDescribeCol).
THEOREM RecordsExplainResults == Spec => []RecordsTellCalls
<1>1. Good /\ DiagOK /\ MirrorInv => RecordsTellCalls
  BY StoragesTellCalls DEF Good
<1> QED
  BY <1>1, HandlesInvariant, PTL

\* No call that reports an error has changed an object, but for an empty
\* record of a descriptor (the API's handlers return before they assign).
THEOREM FailuresAreHarmless == Spec => FailureChangesNothing
<1>1. Good /\ DiagOK /\ [Next]_vars => [FailsNow => Harmless]_vars
  BY StepFailures
<1>2. ASSUME [][FailsNow => Harmless]_vars PROVE FailureChangesNothing
  BY <1>2 DEF FailureChangesNothing, FailsNow, Harmless
<1> QED
  BY <1>1, <1>2, HandlesInvariant, PTL DEF Spec
=============================================================================
