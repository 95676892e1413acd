---------------------------- MODULE RecordsProofs ---------------------------
(***************************************************************************)
(* Proofs about Records, for every table, every set of requests and calls, *)
(* every set of columns and every bound.                                   *)
(***************************************************************************)
EXTENDS Records, FiniteSetTheorems, TLAPS

----------------------------------------------------------------------------
(* Types *)

LEMMA CallType ==
  ASSUME NEW c \in Call
  PROVE  /\ c.op \in {"create", "update", "delete", "get", "list", "stats"}
         /\ c.role \in Role
         /\ c.op \in Targeted => c.target \in RecordId
         /\ c.op = "create" => c.data \in Data
         /\ c.op = "update" => c.data \in Patch
         /\ c.op = "list" => c.page \in Nat \ {0} /\ c.limit \in 1..100
  BY DEF Call, Targeted

LEMMA PatchType ==
  ASSUME NEW p \in Patch
  PROVE  /\ DOMAIN p \subseteq Field
         /\ \A f \in DOMAIN p : p[f] \in Value
         /\ "type" \in DOMAIN p => p["type"] \in RecordType
  BY DEF Patch

\* What a client provides is a patch in the sense of the audit log.
LEMMA DataIsPatch == Data \subseteq Patch
<1> SUFFICES ASSUME NEW d \in Data PROVE d \in Patch
  OBVIOUS
<1>1. d \in [Field -> Value] /\ d["type"] \in RecordType
  BY DEF Data
<1>2. d \in UNION {[S -> Value] : S \in SUBSET Field}
  BY <1>1
<1> QED
  BY <1>1, <1>2 DEF Patch

LEMMA OverlayType ==
  ASSUME NEW d \in Data, NEW p \in Patch
  PROVE  Overlay(d, p) \in Data
  BY PatchType, FieldAssumption DEF Overlay, Data

LEMMA UpdatedType ==
  ASSUME NEW r \in Request, NEW row \in Row,
         call[r] \in Call, call[r].op \in {"update", "delete"}
  PROVE  Updated(r, row) \in Row
<1>1. CASE call[r].op = "delete"
  BY <1>1 DEF Updated, Row
<1>2. CASE call[r].op = "update"
  <2>1. Overlay(row.data, call[r].data) \in Data
    BY <1>2, CallType, OverlayType DEF Row
  <2> QED
    BY <1>2, <2>1 DEF Updated, Row
<1> QED
  BY <1>1, <1>2

\* A mutation appended to the history is one more effect.
LEMMA AppendHistory ==
  ASSUME history \in Seq(Request), NEW r \in Request, history' = Append(history, r)
  PROVE  /\ history' \in Seq(Request)
         /\ Len(history') = Len(history) + 1
         /\ DOMAIN history' = DOMAIN history \cup {Len(history) + 1}
         /\ \A i \in DOMAIN history : history'[i] = history[i]
         /\ history'[Len(history) + 1] = r
         /\ Committed' = Committed \cup {r}
<1>1. /\ history' \in Seq(Request)
      /\ Len(history') = Len(history) + 1
      /\ DOMAIN history = 1..Len(history) /\ DOMAIN history' = 1..Len(history')
      /\ Len(history) \in Nat
      /\ \A i \in 1..Len(history) : history'[i] = history[i]
      /\ history'[Len(history) + 1] = r
  OBVIOUS
<1>2. DOMAIN history' = DOMAIN history \cup {Len(history) + 1}
  BY <1>1
<1>3. Committed' = Committed \cup {r}
  BY <1>1, <1>2 DEF Committed
<1> QED
  BY <1>1, <1>2, <1>3

LEMMA MatchingFinite ==
  ASSUME IsFiniteSet(DOMAIN records), NEW S \in SUBSET DOMAIN records
  PROVE  IsFiniteSet(S) /\ Cardinality(S) \in Nat
  BY FS_Subset, FS_CardinalityType

LEMMA PageSizeType ==
  ASSUME NEW c \in Call, c.op = "list", NEW n \in Nat
  PROVE  PageSize(c, n) \in Nat
<1> DEFINE skip == (c.page - 1) * c.limit
<1>1. c.page \in Nat \ {0} /\ c.limit \in 1..100
  BY CallType
<1>2. c.page - 1 \in Nat /\ c.limit \in Nat
  BY <1>1
<1>3. skip \in Nat
  BY <1>2
<1>. HIDE DEF skip
<1>4. (IF n <= skip THEN 0 ELSE IF n - skip < c.limit THEN n - skip ELSE c.limit) \in Nat
  BY <1>2, <1>3
<1> QED
  BY <1>4 DEF PageSize, skip

LEMMA ResultType ==
  ASSUME IsFiniteSet(DOMAIN records), NEW c \in Call, NEW q \in Statements(c.op)
  PROVE  /\ q \in Statement
         /\ Result(c, q) \in IF q = "breakdown" THEN [RecordType -> Nat] ELSE Nat
<1>1. \A S \in SUBSET DOMAIN records : Cardinality(S) \in Nat
  BY MatchingFinite
<1>2. Matching(c) \in SUBSET DOMAIN records
  BY DEF Matching
<1>3. CASE q = "page"
  <2>1. c.op = "list"
    BY <1>3 DEF Statements
  <2> QED
    BY <1>1, <1>2, <1>3, <2>1, PageSizeType DEF Result, Statement
<1>4. CASE q = "total"
  BY <1>1, <1>2, <1>4 DEF Result, Statement
<1>5. CASE q = "breakdown"
  <2>1. \A t \in RecordType :
          Cardinality({id \in Matching(c) : records[id].data["type"] = t}) \in Nat
    BY <1>1, <1>2
  <2> QED
    BY <1>5, <2>1 DEF Result, Statement
<1>6. CASE q = "recent"
  BY <1>1, <1>2, <1>6 DEF Result, Statement
<1> QED
  BY <1>3, <1>4, <1>5, <1>6 DEF Statements

LEMMA InitType == Init => TypeOK
<1> SUFFICES ASSUME Init PROVE TypeOK
  OBVIOUS
<1>1. records \in [DOMAIN records -> Row] /\ DOMAIN records \subseteq RecordId
  BY RowsAssumption DEF Init, RecordId
<1>2. call \in [Request -> Call]
  BY BoundsAssumption DEF Init
<1>3. auditLog \in Seq(AuditRow) /\ history \in Seq(Request)
  BY DEF Init
<1> QED
  BY <1>1, <1>2, <1>3 DEF Init, TypeOK

\* What a request needs to write its audit row is there when it does.
LEMMA AuditEntryType ==
  ASSUME TypeOK, NEW r \in Request, Placed(r), pc[r] = "audit"
  PROVE  AuditEntry(r) \in AuditRow
<1>1. call[r] \in Call /\ call[r].op \in Mutation
  BY DEF TypeOK, Placed
<1>2. call[r].op # "create" => call[r].target \in RecordId
  BY <1>1, CallType DEF Mutation, Targeted
<1>3. call[r].op # "delete" => call[r].data \in Patch
  BY <1>1, CallType, DataIsPatch DEF Mutation
<1>4. call[r].op = "update" => found[r] \in Row
  BY DEF Placed
<1>5. r \in RecordId
  BY DEF RecordId
<1> QED
  BY <1>1, <1>2, <1>3, <1>4, <1>5 DEF AuditEntry, AuditRow

LEMMA StepType ==
  ASSUME TypeOK, IsFiniteSet(DOMAIN records), \A q \in Request : Placed(q),
         NEW r \in Request, Arrive(r) \/ Step(r) \/ DbError(r)
  PROVE  TypeOK'
<1> DEFINE Moved == /\ pc' \in [Request -> {"idle", "done"} \cup Waiting]
                    /\ response' \in [Request -> Nat]
<1>1. \A where \in {"idle", "done"} \cup Waiting : Goto(r, where) => Moved
  BY DEF Goto, TypeOK
<1>2. \A code \in Nat : Answer(r, code) => Moved
  BY DEF Answer, TypeOK
<1>3. Applied(r, "audit") => Moved
  <2>1. Answer(r, 500) => Moved
    BY <1>2
  <2>2. Goto(r, "audit") => Moved
    BY <1>1 DEF Waiting
  <2> QED
    BY <2>1, <2>2 DEF Applied
<1>4. call[r] \in Call
  BY DEF TypeOK
<1>. HIDE DEF Moved
<1>5. CASE Arrive(r)
  <2>1. call[r].op \in {"create", "update", "delete", "get", "list", "stats"}
    BY <1>4, CallType
  <2>2. FirstStep(call[r].op) \in Waiting
    BY <2>1 DEF FirstStep, Waiting, Targeted
  <2>3. Statements(call[r].op) \subseteq Statement
    BY DEF Statements, Statement
  <2>4. Moved
    <3>1. Goto(r, FirstStep(call[r].op)) \/ Answer(r, 403)
      BY <1>5 DEF Arrive
    <3>2. Answer(r, 403) => Moved
      BY <1>2
    <3>3. Goto(r, FirstStep(call[r].op)) => Moved
      BY <1>1, <2>2
    <3> QED
      BY <3>1, <3>2, <3>3
  <2>5. pending' \in [Request -> SUBSET Statement]
    BY <1>5, <2>3 DEF Arrive, TypeOK
  <2>6. started' \in [Request -> Nat]
    BY <1>5 DEF Arrive, TypeOK
  <2> QED
    BY <1>5, <2>4, <2>5, <2>6 DEF Arrive, TypeOK, Moved
<1>6. CASE Create(r)
  <2>1. Moved
    BY <1>3, <1>6 DEF Create
  <2>2. call[r].data \in Data
    BY <1>4, <1>6, CallType DEF Create, Placed
  <2>3. records' \in [DOMAIN records' -> Row] /\ DOMAIN records' \subseteq RecordId
    BY <1>6, <2>2 DEF Create, Row, RecordId, TypeOK
  <2>4. history' \in Seq(Request)
    BY <1>6 DEF Create, TypeOK
  <2> QED
    BY <1>6, <2>1, <2>3, <2>4 DEF Create, reading, TypeOK, Moved
<1>7. CASE Find(r)
  <2>1. Moved
    <3>1. Answer(r, 200) \/ Answer(r, 404) \/ Goto(r, "update")
      BY <1>7 DEF Find
    <3>2. Goto(r, "update") => Moved
      BY <1>1 DEF Waiting
    <3>3. (Answer(r, 200) => Moved) /\ (Answer(r, 404) => Moved)
      BY <1>2
    <3> QED
      BY <3>1, <3>2, <3>3
  <2>2. found' \in [Request -> Row \cup {NoRow}]
    BY <1>7 DEF Find, TypeOK
  <2> QED
    BY <1>7, <2>1, <2>2 DEF Find, reading, TypeOK, Moved
<1>8. CASE Update(r)
  <2>1. Moved
    BY <1>3, <1>8 DEF Update
  <2>2. call[r].op \in {"update", "delete"} /\ call[r].target \in DOMAIN records
    BY <1>8 DEF Update, Placed
  <2>3. Updated(r, records[call[r].target]) \in Row
    BY <1>4, <2>2, UpdatedType DEF TypeOK
  <2>4. records' \in [DOMAIN records' -> Row] /\ DOMAIN records' = DOMAIN records
    BY <1>8, <2>2, <2>3 DEF Update, TypeOK
  <2>5. history' \in Seq(Request)
    BY <1>8 DEF Update, TypeOK
  <2> QED
    BY <1>8, <2>1, <2>4, <2>5 DEF Update, reading, TypeOK, Moved
<1>9. CASE Audit(r)
  <2>1. Moved
    <3>1. SuccessCode(call[r].op) \in Nat
      BY DEF SuccessCode
    <3>2. Answer(r, SuccessCode(call[r].op)) \/ Answer(r, 500)
      BY <1>9 DEF Audit
    <3>3. Answer(r, 500) => Moved
      BY <1>2
    <3>4. Answer(r, SuccessCode(call[r].op)) => Moved
      BY <1>2, <3>1
    <3> QED
      BY <3>2, <3>3, <3>4
  <2>2. auditLog' \in Seq(AuditRow)
    BY <1>9, AuditEntryType DEF Audit, TypeOK
  <2> QED
    BY <1>9, <2>1, <2>2 DEF Audit, reading, TypeOK, Moved
<1>10. ASSUME NEW q \in Statement, Read(r, q)
       PROVE  TypeOK'
  <2>1. Moved
    <3>1. Answer(r, 200) => Moved
      BY <1>2
    <3>2. UNCHANGED <<pc, response>> => Moved
      BY DEF Moved, TypeOK
    <3> QED
      BY <1>10, <3>1, <3>2 DEF Read
  <2>2. Result(call[r], q) \in IF q = "breakdown" THEN [RecordType -> Nat] ELSE Nat
    BY <1>4, <1>10, ResultType DEF Read, Placed
  <2>3. pending' \in [Request -> SUBSET Statement]
    BY <1>10 DEF Read, TypeOK
  <2>4. /\ figures' = [p \in Request |-> figures'[p]]
        /\ \A p \in Request \ {r} : figures'[p] = figures[p]
        /\ figures'[r] = [s \in DOMAIN figures[r] \cup {q} |->
                            IF s = q THEN Result(call[r], q) ELSE figures[r][s]]
    BY <1>10 DEF Read, TypeOK
  <2>5. ASSUME NEW p \in Request, NEW s \in DOMAIN figures'[p]
        PROVE  /\ s \in Statement
               /\ figures'[p][s] \in IF s = "breakdown" THEN [RecordType -> Nat] ELSE Nat
    <3>1. CASE p # r
      BY <2>4, <2>5, <3>1 DEF TypeOK
    <3>2. CASE p = r /\ s = q
      BY <2>2, <2>4, <2>5, <3>2
    <3>3. CASE p = r /\ s # q
      BY <2>4, <2>5, <3>3 DEF TypeOK
    <3> QED
      BY <3>1, <3>2, <3>3
  <2> QED
    BY <1>10, <2>1, <2>3, <2>4, <2>5 DEF Read, TypeOK, Moved
<1>11. CASE DbError(r)
  <2>1. Moved
    BY <1>2, <1>11 DEF DbError
  <2>2. pending' \in [Request -> SUBSET Statement]
    BY <1>11 DEF DbError, TypeOK
  <2> QED
    BY <1>11, <2>1, <2>2 DEF DbError, TypeOK, Moved
<1> QED
  BY <1>5, <1>6, <1>7, <1>8, <1>9, <1>10, <1>11 DEF Step

----------------------------------------------------------------------------
(* What a step leaves alone *)

\* A step of one request leaves what the others ask and where they are; rows and
\* effects are for good, and only that request adds one.
Frame(r) ==
  /\ call' = call
  /\ DOMAIN records \subseteq DOMAIN records'
  /\ DOMAIN records' \subseteq DOMAIN records \cup {r}
  /\ Committed \subseteq Committed'
  /\ Committed' \subseteq Committed \cup {r}
  /\ \A q \in Request \ {r} :
       /\ pc'[q] = pc[q] /\ response'[q] = response[q] /\ found'[q] = found[q]
       /\ pending'[q] = pending[q] /\ figures'[q] = figures[q]

LEMMA StepFrame ==
  ASSUME TypeOK, NEW r \in Request, Arrive(r) \/ Step(r) \/ DbError(r)
  PROVE  Frame(r)
<1>1. call' = call
  BY DEF Arrive, Step, Create, Find, Update, Audit, Read, DbError
<1>2. DOMAIN records \subseteq DOMAIN records' /\ DOMAIN records' \subseteq DOMAIN records \cup {r}
  BY DEF Arrive, Step, Create, Find, Update, Audit, Read, DbError
<1>3. Committed \subseteq Committed' /\ Committed' \subseteq Committed \cup {r}
  <2>1. history' = history \/ history' = Append(history, r)
    BY DEF Arrive, Step, Create, Find, Update, Audit, Read, DbError
  <2>2. CASE history' = history
    BY <2>2 DEF Committed
  <2>3. CASE history' = Append(history, r)
    BY <2>3, AppendHistory DEF TypeOK
  <2> QED
    BY <2>1, <2>2, <2>3
<1>4. ASSUME NEW q \in Request \ {r}
      PROVE  pc'[q] = pc[q] /\ response'[q] = response[q]
  <2>1. ASSUME NEW where, Goto(r, where) PROVE pc'[q] = pc[q] /\ response'[q] = response[q]
    BY <2>1 DEF Goto, TypeOK
  <2>2. ASSUME NEW code, Answer(r, code) PROVE pc'[q] = pc[q] /\ response'[q] = response[q]
    BY <2>2 DEF Answer, TypeOK
  <2>3. ASSUME NEW where, Applied(r, where) PROVE pc'[q] = pc[q] /\ response'[q] = response[q]
    BY <2>1, <2>2, <2>3 DEF Applied
  <2>4. CASE Arrive(r)
    BY <2>1, <2>2, <2>4 DEF Arrive
  <2>5. CASE Create(r)
    BY <2>3, <2>5 DEF Create
  <2>6. CASE Find(r)
    BY <2>1, <2>2, <2>6 DEF Find
  <2>7. CASE Update(r)
    BY <2>3, <2>7 DEF Update
  <2>8. CASE Audit(r)
    BY <2>2, <2>8 DEF Audit
  <2>9. ASSUME NEW s \in Statement, Read(r, s)
        PROVE  pc'[q] = pc[q] /\ response'[q] = response[q]
    BY <2>2, <2>9 DEF Read
  <2>10. CASE DbError(r)
    BY <2>2, <2>10 DEF DbError
  <2> QED
    BY <2>4, <2>5, <2>6, <2>7, <2>8, <2>9, <2>10 DEF Step
<1>5. ASSUME NEW q \in Request \ {r}
      PROVE  found'[q] = found[q] /\ pending'[q] = pending[q] /\ figures'[q] = figures[q]
  BY DEF Arrive, Step, Create, Find, Update, Audit, Read, DbError, reading, TypeOK
<1> QED
  BY <1>1, <1>2, <1>3, <1>4, <1>5 DEF Frame

LEMMA PlacedOther ==
  ASSUME NEW r \in Request, Frame(r), NEW q \in Request \ {r}, Placed(q)
  PROVE  Placed(q)'
  BY DEF Frame, Placed

LEMMA InitPlaced == Init => \A r \in Request : Placed(r)
<1> SUFFICES ASSUME Init, NEW r \in Request PROVE Placed(r)
  OBVIOUS
<1>1. Committed = {}
  BY DEF Init, Committed
<1>2. r \notin DOMAIN records
  BY RowsAssumption DEF Init
<1> QED
  BY <1>1, <1>2 DEF Init, Placed, Waiting

LEMMA PlacedSelf ==
  ASSUME IInv, NEW r \in Request, Arrive(r) \/ Step(r) \/ DbError(r)
  PROVE  Placed(r)'
<1>. TypeOK /\ Placed(r) /\ call[r] \in Call
  BY DEF IInv, TypeOK
<1>0. Frame(r)
  BY StepFrame
<1>1. \A where : Goto(r, where) => pc'[r] = where /\ response'[r] = response[r]
  BY DEF Goto, TypeOK
<1>2. \A code : Answer(r, code) => pc'[r] = "done" /\ response'[r] = code
  BY DEF Answer, TypeOK
<1>3. Applied(r, "audit") => \/ pc'[r] = "audit" /\ response'[r] = response[r]
                             \/ pc'[r] = "done" /\ response'[r] = 500
  BY <1>1, <1>2 DEF Applied
<1>4. CASE Arrive(r)
  <2>1. pc[r] = "idle" /\ r \notin Committed /\ Committed' = Committed /\ records' = records
        /\ figures' = figures
    BY <1>4 DEF Arrive, Placed, Committed
  <2>2. CASE Answer(r, 403) /\ UNCHANGED pending
    BY <1>0, <1>2, <2>1, <2>2 DEF Placed, Frame, Waiting
  <2>3. CASE /\ call[r].role \in AllowedRoles(call[r].op)
             /\ pending' = [pending EXCEPT ![r] = Statements(call[r].op)]
             /\ Goto(r, FirstStep(call[r].op))
    <3>1. call[r].op \in {"create", "update", "delete", "get", "list", "stats"}
      BY CallType
    <3>2. pending'[r] = Statements(call[r].op)
      BY <2>3 DEF TypeOK
    <3>3. pc'[r] = FirstStep(call[r].op) /\ response'[r] = response[r]
      BY <1>1, <2>3
    <3> QED
      BY <1>0, <2>1, <2>3, <3>1, <3>2, <3>3
         DEF Placed, Frame, Waiting, FirstStep, Targeted
  <2> QED
    BY <1>4, <2>2, <2>3 DEF Arrive
<1>5. CASE Create(r)
  <2>1. Committed' = Committed \cup {r} /\ UNCHANGED <<pending, figures>>
    BY <1>5, AppendHistory DEF Create, TypeOK, reading
  <2>2. call[r].op = "create" /\ call[r].role \in AllowedRoles("create") /\ response[r] = 0
    BY <1>5 DEF Create, Placed, Waiting
  <2>3. \/ pc'[r] = "audit" /\ response'[r] = response[r]
        \/ pc'[r] = "done" /\ response'[r] = 500
    BY <1>3, <1>5 DEF Create
  <2> QED
    BY <1>0, <2>1, <2>2, <2>3 DEF Placed, Frame, Mutation
<1>6. CASE Find(r)
  <2>1. /\ pc[r] = "find" /\ r \notin Committed /\ call[r].op \in Targeted
        /\ Committed' = Committed /\ records' = records /\ UNCHANGED <<pending, figures>>
        /\ call[r].role \in AllowedRoles(call[r].op)
    BY <1>6 DEF Find, Placed, Committed, reading, Waiting
  <2>2. CASE pc'[r] = "done" /\ response'[r] \in {200, 404}
    BY <1>0, <2>1, <2>2 DEF Placed, Frame, Waiting
  <2>3. CASE /\ call[r].target \in DOMAIN records /\ found'[r] = records[call[r].target]
             /\ call[r].op # "get"
             /\ pc'[r] = "update" /\ response'[r] = response[r]
    <3>1. found'[r] \in Row
      BY <2>3 DEF TypeOK
    <3> QED
      BY <1>0, <2>1, <2>3, <3>1 DEF Placed, Frame, Waiting, Targeted
  <2>4. \/ pc'[r] = "done" /\ response'[r] \in {200, 404}
        \/ /\ call[r].target \in DOMAIN records /\ found'[r] = records[call[r].target]
           /\ call[r].op # "get"
           /\ pc'[r] = "update" /\ response'[r] = response[r]
    BY <1>1, <1>2, <1>6 DEF Find, TypeOK
  <2> QED
    BY <2>2, <2>3, <2>4
<1>7. CASE Update(r)
  <2>1. Committed' = Committed \cup {r} /\ UNCHANGED <<found, pending, figures>>
    BY <1>7, AppendHistory DEF Update, TypeOK, reading
  <2>2. /\ call[r].op \in {"update", "delete"} /\ call[r].target \in DOMAIN records
        /\ found[r] \in Row /\ call[r].role \in AllowedRoles(call[r].op) /\ response[r] = 0
    BY <1>7 DEF Update, Placed, Waiting
  <2>3. DOMAIN records' = DOMAIN records
    BY <1>7 DEF Update
  <2>4. \/ pc'[r] = "audit" /\ response'[r] = response[r]
        \/ pc'[r] = "done" /\ response'[r] = 500
    BY <1>3, <1>7 DEF Update
  <2> QED
    BY <1>0, <2>1, <2>2, <2>3, <2>4 DEF Placed, Frame, Mutation
<1>8. CASE Audit(r)
  <2>1. /\ pc[r] = "audit" /\ Committed' = Committed /\ records' = records
        /\ UNCHANGED <<found, pending, figures>>
    BY <1>8 DEF Audit, Committed, reading
  <2>2. pc'[r] = "done" /\ response'[r] # 0
    BY <1>2, <1>8 DEF Audit, SuccessCode
  <2> QED
    BY <1>0, <2>1, <2>2 DEF Placed, Frame, Waiting
<1>9. ASSUME NEW s \in Statement, Read(r, s)
      PROVE  Placed(r)'
  <2>1. /\ pc[r] = "reading" /\ Committed' = Committed /\ records' = records
        /\ found' = found /\ s \in pending[r]
    BY <1>9 DEF Read, Committed
  <2>2. /\ pending'[r] \subseteq pending[r]
        /\ DOMAIN figures'[r] = DOMAIN figures[r] \cup {s}
    BY <1>9 DEF Read, TypeOK
  <2>3. \/ pc'[r] = "done" /\ response'[r] = 200
        \/ pc'[r] = pc[r] /\ response'[r] = response[r]
    BY <1>2, <1>9 DEF Read
  <2> QED
    BY <1>0, <2>1, <2>2, <2>3 DEF Placed, Frame, Waiting
<1>10. CASE DbError(r)
  <2>1. /\ pc[r] \in Waiting /\ Committed' = Committed /\ records' = records
        /\ found' = found /\ pending'[r] = {} /\ figures' = figures
    BY <1>10 DEF DbError, Committed, TypeOK
  <2>2. pc'[r] = "done" /\ response'[r] = 500
    BY <1>2, <1>10 DEF DbError
  <2> QED
    BY <1>0, <2>1, <2>2 DEF Placed, Frame, Waiting
<1> QED
  BY <1>4, <1>5, <1>6, <1>7, <1>8, <1>9, <1>10 DEF Step

----------------------------------------------------------------------------
(* The inductive invariant *)

LEMMA InitInv == Init => IInv
<1> SUFFICES ASSUME Init PROVE IInv
  OBVIOUS
<1>1. TypeOK /\ \A r \in Request : Placed(r)
  BY InitType, InitPlaced
<1>2. IsFiniteSet(DOMAIN records) /\ DOMAIN InitialRecords \subseteq DOMAIN records
  BY RowsAssumption DEF Init
<1>3. Recorded = {}
  BY DEF Init, Recorded
<1> QED
  BY <1>1, <1>2, <1>3 DEF IInv

\* No request that is done takes another step.
LEMMA StepNotDone ==
  ASSUME NEW r \in Request, Arrive(r) \/ Step(r) \/ DbError(r)
  PROVE  pc[r] # "done"
  BY DEF Arrive, Step, Create, Find, Update, Audit, Read, DbError, Waiting

LEMMA RecordedType ==
  ASSUME TypeOK
  PROVE  Recorded \subseteq Request
<1>1. \A i \in DOMAIN auditLog : auditLog[i] \in AuditRow
  BY DEF TypeOK
<1> QED
  BY <1>1 DEF Recorded, AuditRow

\* Only Audit adds to the audit log, and it names its request.
LEMMA AuditRecords ==
  ASSUME TypeOK, NEW r \in Request, Audit(r)
  PROVE  Recorded' = Recorded \cup {r}
<1>1. auditLog' = Append(auditLog, AuditEntry(r)) /\ AuditEntry(r).id = r
  BY DEF Audit, AuditEntry
<1>2. auditLog \in Seq(AuditRow)
  BY DEF TypeOK
<1>3. /\ DOMAIN auditLog' = DOMAIN auditLog \cup {Len(auditLog) + 1}
      /\ Len(auditLog) + 1 \notin DOMAIN auditLog
      /\ \A i \in DOMAIN auditLog : auditLog'[i] = auditLog[i]
      /\ auditLog'[Len(auditLog) + 1] = AuditEntry(r)
  BY <1>1, <1>2
<1> QED
  BY <1>1, <1>3 DEF Recorded

LEMMA StepRecorded ==
  ASSUME TypeOK, NEW r \in Request, Arrive(r) \/ Step(r) \/ DbError(r)
  PROVE  Recorded' = Recorded \/ (Audit(r) /\ Recorded' = Recorded \cup {r})
<1>1. auditLog' = auditLog \/ Audit(r)
  BY DEF Arrive, Step, Create, Find, Update, Read, DbError
<1> QED
  BY <1>1, AuditRecords DEF Recorded

LEMMA StepInv ==
  ASSUME IInv, NEW r \in Request, Arrive(r) \/ Step(r) \/ DbError(r)
  PROVE  IInv'
<1>. TypeOK /\ IsFiniteSet(DOMAIN records) /\ \A q \in Request : Placed(q)
  BY DEF IInv
<1>1. TypeOK'
  BY StepType
<1>2. Frame(r)
  BY StepFrame
<1>3. IsFiniteSet(DOMAIN records')
  <2>1. IsFiniteSet(DOMAIN records \cup {r})
    BY FS_AddElement
  <2> QED
    BY <1>2, <2>1, FS_Subset DEF Frame
<1>4. DOMAIN InitialRecords \subseteq DOMAIN records'
  BY <1>2 DEF Frame, IInv
<1>5. \A q \in Request : Placed(q)'
  BY <1>2, PlacedOther, PlacedSelf
<1>6. ASSUME NEW q \in Recorded'
      PROVE  q \in Committed' /\ pc'[q] = "done"
  <2>1. CASE q \in Recorded
    <3>1. q \in Committed /\ pc[q] = "done" /\ q \in Request
      BY <2>1, RecordedType DEF IInv
    <3> QED
      BY <1>2, <3>1, StepNotDone DEF Frame
  <2>2. CASE Audit(r) /\ q = r
    <3>1. pc'[r] = "done"
      BY <2>2 DEF Audit, Answer, TypeOK
    <3>2. r \in Committed'
      BY <1>2, <2>2 DEF Audit, Placed, Frame
    <3> QED
      BY <2>2, <3>1, <3>2
  <2> QED
    BY <1>6, <2>1, <2>2, StepRecorded
<1> QED
  BY <1>1, <1>3, <1>4, <1>5, <1>6 DEF IInv

LEMMA StutterInv == IInv /\ UNCHANGED vars => IInv'
  BY DEF IInv, TypeOK, Placed, Committed, Recorded, vars

LEMMA NextInv == IInv /\ [Next]_vars => IInv'
  BY StepInv, StutterInv DEF Next, Finished

(***************************************************************************)
(* Whatever requests overlap and whatever statements fail: a request is    *)
(* only where its operation takes it, updates find their row, and each     *)
(* entry of the audit log belongs to a mutation that took effect and whose *)
(* request is over.                                                        *)
(***************************************************************************)
THEOREM InvariantHolds == Spec => []IInv
<1>1. Init => IInv
  BY InitInv
<1>2. IInv /\ [Next]_vars => IInv'
  BY NextInv
<1> QED
  BY <1>1, <1>2, PTL DEF Spec


----------------------------------------------------------------------------
(* Records implements Ledger *)

\* Both modules extend RecordTypes; the provers see its definitions twice.
LEMMA SameTypes ==
  /\ L!Call = Call /\ L!Mutation = Mutation /\ L!Targeted = Targeted
  /\ \A op : L!AllowedRoles(op) = AllowedRoles(op)
  /\ \A op : L!SuccessCode(op) = SuccessCode(op)
<1>1. /\ L!Role = Role /\ L!adminOnly = adminOnly /\ L!analystOrAdmin = analystOrAdmin
      /\ L!Mutation = Mutation /\ L!Targeted = Targeted /\ L!RecordType = RecordType
      /\ L!RecordId = RecordId
  BY DEF Role, L!Role, adminOnly, L!adminOnly, analystOrAdmin, L!analystOrAdmin,
         Mutation, L!Mutation, Targeted, L!Targeted, RecordType, L!RecordType,
         RecordId, L!RecordId
<1>2. L!Data = Data /\ L!Patch = Patch
  BY <1>1 DEF Data, L!Data, Patch, L!Patch
<1>3. L!Call = Call
  BY <1>1, <1>2 DEF Call, L!Call
<1> QED
  BY <1>1, <1>3 DEF AllowedRoles, L!AllowedRoles, SuccessCode, L!SuccessCode

LEMMA InitLedger == Init => L!Init
<1> SUFFICES ASSUME Init PROVE L!Init
  OBVIOUS
<1>1. Committed = {} /\ Recorded = {}
  BY DEF Init, Committed, Recorded
<1>2. call \in [Request -> Call]
  BY BoundsAssumption DEF Init
<1> QED
  BY <1>1, <1>2, SameTypes DEF Init, L!Init

LEMMA MutationStep ==
  ASSUME IInv, NEW r \in Request, Create(r) \/ Update(r)
  PROVE  L!TakeEffect(r)
<1>. TypeOK /\ Placed(r) /\ call[r] \in Call
  BY DEF IInv, TypeOK
<1>1. pc[r] \in Waiting /\ pc[r] \notin {"audit", "done"} /\ Recorded' = Recorded
  BY DEF Create, Update, Waiting, Recorded
<1>2. response[r] = 0 /\ r \notin Committed /\ call[r].role \in AllowedRoles(call[r].op)
  BY <1>1 DEF Placed, Waiting
<1>3. Committed' = Committed \cup {r}
  BY AppendHistory DEF Create, Update, TypeOK
<1>4. UNCHANGED response \/ L!Answer(r, 500)
  BY DEF Create, Update, Applied, Goto, Answer, L!Answer
<1>5. CASE Create(r)
  <2>1. call[r].op = "create"
    BY <1>5 DEF Create, Placed
  <2>2. L!Insert(r)
    BY <1>5 DEF Create, L!Insert
  <2> QED
    BY <1>1, <1>2, <1>3, <1>4, <1>5, <2>1, <2>2, SameTypes DEF Create, reading, L!TakeEffect
<1>6. CASE Update(r)
  <2>1. call[r].op \in {"update", "delete"} /\ call[r].target \in DOMAIN records
    BY <1>6 DEF Update, Placed
  <2>2. CASE call[r].op = "update"
    <3>1. L!Amend(r)
      BY <1>6, <2>1, <2>2 DEF Update, Updated, Overlay, L!Amend
    <3> QED
      BY <1>1, <1>2, <1>3, <1>4, <1>6, <2>2, <3>1, SameTypes DEF Update, reading, L!TakeEffect
  <2>3. CASE call[r].op = "delete"
    <3>1. L!Remove(r)
      BY <1>6, <2>1, <2>3 DEF Update, Updated, L!Remove
    <3> QED
      BY <1>1, <1>2, <1>3, <1>4, <1>6, <2>3, <3>1, SameTypes DEF Update, reading, L!TakeEffect
  <2> QED
    BY <2>1, <2>2, <2>3
<1> QED
  BY <1>5, <1>6

LEMMA AuditStep ==
  ASSUME IInv, NEW r \in Request, Audit(r)
  PROVE  L!Record(r)
<1>. TypeOK /\ Placed(r)
  BY DEF IInv
<1>1. response[r] = 0 /\ r \in Committed
  BY DEF Audit, Placed
<1>2. r \notin Recorded
  BY DEF Audit, IInv
<1>3. Recorded' = Recorded \cup {r} /\ Committed' = Committed
  BY AuditRecords DEF Audit, Committed, reading
<1> QED
  BY <1>1, <1>2, <1>3, SameTypes DEF Audit, Answer, L!Record, L!Answer

\* The steps that leave the tables alone.
LEMMA QueryStep ==
  ASSUME IInv, NEW r \in Request,
         \/ Arrive(r) \/ Find(r) \/ DbError(r)
         \/ \E s \in Statement : Read(r, s)
  PROVE  [L!Next]_L!vars
<1>. TypeOK /\ Placed(r) /\ call[r] \in Call
  BY DEF IInv, TypeOK
<1>1. UNCHANGED <<records, call>> /\ Committed' = Committed /\ Recorded' = Recorded
  <2>1. UNCHANGED <<records, call, history, auditLog>>
    BY DEF Arrive, Find, DbError, Read
  <2> QED
    BY <2>1 DEF Committed, Recorded
<1>2. pc[r] # "done" /\ response[r] = 0
  BY StepNotDone DEF Step, Placed
<1>3. UNCHANGED response => UNCHANGED L!vars
  BY <1>1 DEF L!vars
<1>4. \A code : Answer(r, code) => L!Answer(r, code)
  BY DEF Answer, L!Answer
<1>5. CASE Arrive(r)
  <2>1. CASE call[r].role \notin AllowedRoles(call[r].op) /\ Answer(r, 403)
    <3>1. r \notin Committed
      BY <1>5 DEF Arrive, Placed
    <3>2. L!Refuse(r)
      BY <1>1, <1>2, <1>4, <2>1, <3>1, SameTypes DEF L!Refuse
    <3> QED
      BY <3>2 DEF L!Next
  <2> QED
    BY <1>3, <1>5, <2>1 DEF Arrive, Goto
<1>6. CASE Find(r)
  <2>1. /\ r \notin Committed /\ call[r].op \in Targeted
        /\ call[r].role \in AllowedRoles(call[r].op)
    BY <1>6 DEF Find, Placed, Waiting
  <2>2. CASE L!Live(call[r].target) /\ call[r].op = "get" /\ Answer(r, 200)
    <3>1. L!Report(r)
      BY <1>1, <1>2, <1>4, <2>1, <2>2, SameTypes DEF L!Report, Mutation
    <3> QED
      BY <3>1 DEF L!Next
  <2>3. CASE ~L!Live(call[r].target) /\ Answer(r, 404)
    <3>1. L!Refuse(r)
      BY <1>1, <1>2, <1>4, <2>1, <2>3, SameTypes DEF L!Refuse
    <3> QED
      BY <3>1 DEF L!Next
  <2>4. CASE Goto(r, "update")
    BY <1>3, <2>4 DEF Goto
  <2> QED
    BY <1>6, <2>2, <2>3, <2>4 DEF Find, L!Live
<1>7. CASE DbError(r)
  <2>1. L!Fail(r)
    BY <1>1, <1>2, <1>4, <1>7 DEF DbError, L!Fail
  <2> QED
    BY <2>1 DEF L!Next
<1>8. ASSUME NEW s \in Statement, Read(r, s)
      PROVE  [L!Next]_L!vars
  <2>1. CASE Answer(r, 200)
    <3>1. call[r].op \in {"list", "stats"} /\ call[r].role \in AllowedRoles(call[r].op)
      BY <1>8 DEF Read, Placed, Waiting
    <3>2. L!Report(r)
      BY <1>1, <1>2, <1>4, <2>1, <3>1, SameTypes DEF L!Report, Mutation
    <3> QED
      BY <3>2 DEF L!Next
  <2>2. CASE UNCHANGED <<pc, response>>
    BY <1>3, <2>2
  <2> QED
    BY <1>8, <2>1, <2>2 DEF Read
<1> QED
  BY <1>5, <1>6, <1>7, <1>8

LEMMA NextLedger == IInv /\ [Next]_vars => [L!Next]_L!vars
<1> SUFFICES ASSUME IInv, [Next]_vars PROVE [L!Next]_L!vars
  OBVIOUS
<1>1. CASE UNCHANGED vars
  BY <1>1 DEF vars, L!vars, Committed, Recorded
<1>2. ASSUME NEW r \in Request, Arrive(r) \/ Step(r) \/ DbError(r)
      PROVE  [L!Next]_L!vars
  <2>1. CASE Create(r) \/ Update(r)
    BY <2>1, MutationStep DEF L!Next
  <2>2. CASE Audit(r)
    BY <2>2, AuditStep DEF L!Next
  <2> QED
    BY <1>2, <2>1, <2>2, QueryStep DEF Step
<1> QED
  BY <1>1, <1>2 DEF Next, Finished

(***************************************************************************)
(* With statements interleaved and failing in any way, the service is      *)
(* still the ledger of the abstract specification: each mutation takes     *)
(* effect at most once, at one instant between call and answer, on the     *)
(* columns it names, a reported success is on record, and a refusal was    *)
(* justified when given and changed nothing.                               *)
(***************************************************************************)
THEOREM RecordsImplementLedger == Spec => ImplementsLedger
<1>1. Init => L!Init
  BY InitLedger
<1>2. IInv /\ [Next]_vars => [L!Next]_L!vars
  BY NextLedger
<1> QED
  BY <1>1, <1>2, InvariantHolds, PTL DEF Spec, ImplementsLedger, L!Spec


----------------------------------------------------------------------------
(* No update is lost *)

\* Whether request r names column f of row id.
Writes(r, id, f) ==
  \/ call[r].op = "create" /\ r = id
  \/ call[r].op = "update" /\ call[r].target = id /\ f \in DOMAIN call[r].data

\* When a request takes effect, it is the last writer of the columns it names, and
\* the other columns keep theirs.
LEMMA LastWriter ==
  ASSUME TypeOK, NEW r \in Request, history' = Append(history, r), call' = call,
         NEW id, NEW f
  PROVE  /\ /\ Writes(r, id, f)
            /\ records'[id].data[f] = call[r].data[f]
            => HoldsLastWritten(id, f)'
         /\ /\ ~Writes(r, id, f)
            /\ HoldsLastWritten(id, f)
            /\ records'[id].data[f] = records[id].data[f]
            => HoldsLastWritten(id, f)'
<1> DEFINE n == Len(history) + 1
<1>1. /\ DOMAIN history = 1..Len(history) /\ Len(history) \in Nat
      /\ DOMAIN history' = DOMAIN history \cup {n}
      /\ \A i \in DOMAIN history : history'[i] = history[i]
      /\ history'[n] = r
  BY AppendHistory DEF TypeOK
<1>2. Writers(id, f) = {i \in DOMAIN history : Writes(history[i], id, f)}
  BY DEF Writers, Writes
<1>3. Writers(id, f)' = {i \in DOMAIN history' : Writes(history'[i], id, f)}
  BY DEF Writers, Writes
<1>4. ASSUME Writes(r, id, f), records'[id].data[f] = call[r].data[f]
      PROVE  HoldsLastWritten(id, f)'
  <2>1. n \in Writers(id, f)' /\ \A j \in Writers(id, f)' : j <= n
    BY <1>1, <1>3, <1>4
  <2>2. records'[id].data[f] = call'[history'[n]].data[f]
    BY <1>1, <1>4
  <2> QED
    BY <2>1, <2>2 DEF HoldsLastWritten
<1>5. ASSUME ~Writes(r, id, f), HoldsLastWritten(id, f),
             records'[id].data[f] = records[id].data[f]
      PROVE  HoldsLastWritten(id, f)'
  <2>1. Writers(id, f)' = Writers(id, f)
    BY <1>1, <1>2, <1>3, <1>5
  <2>2. \A i \in Writers(id, f) : history'[i] = history[i]
    BY <1>1, <1>2
  <2> QED
    BY <1>5, <2>1, <2>2 DEF HoldsLastWritten
<1> QED
  BY <1>4, <1>5

LEMMA CreateKeeps ==
  ASSUME IInv, NoLostUpdate, NEW r \in Request, Create(r)
  PROVE  NoLostUpdate'
<1>. TypeOK /\ \A q \in Request : Placed(q)
  BY DEF IInv
<1>1. /\ call[r].op = "create" /\ r \notin Committed
      /\ r \notin DOMAIN records /\ r \notin DOMAIN InitialRecords
  BY RowsAssumption DEF Create, Placed
<1>2. call' = call /\ history' = Append(history, r) /\ Committed' = Committed \cup {r}
  BY AppendHistory DEF Create, TypeOK
<1>3. /\ DOMAIN records' = DOMAIN records \cup {r}
      /\ records'[r].data = call[r].data /\ ~records'[r].isDeleted
      /\ \A id \in DOMAIN records : records'[id] = records[id]
  BY <1>1 DEF Create
<1>4. ASSUME NEW id \in DOMAIN records', NEW f \in Field
      PROVE  HoldsLastWritten(id, f)'
  <2>1. CASE id = r
    <3>1. Writes(r, id, f) /\ records'[id].data[f] = call[r].data[f]
      BY <1>1, <1>3, <2>1 DEF Writes
    <3> QED
      BY <1>2, <3>1, LastWriter
  <2>2. CASE id # r
    <3>1. id \in DOMAIN records /\ ~Writes(r, id, f)
      BY <1>1, <1>3, <2>2 DEF Writes
    <3>2. HoldsLastWritten(id, f) /\ records'[id].data[f] = records[id].data[f]
      BY <1>3, <3>1 DEF NoLostUpdate
    <3> QED
      BY <1>2, <3>1, <3>2, LastWriter
  <2> QED
    BY <2>1, <2>2
<1>5. ASSUME NEW id \in DOMAIN records'
      PROVE  records'[id].isDeleted <=> DeletionTookEffect(id)'
  <2>1. DeletionTookEffect(id)' <=> DeletionTookEffect(id)
    BY <1>1, <1>2 DEF DeletionTookEffect
  <2>2. CASE id = r
    <3>1. \A q \in Committed : q \in Request
      BY DEF Committed, TypeOK
    <3>2. ~DeletionTookEffect(r)
      BY <1>1, <3>1 DEF DeletionTookEffect, Placed
    <3> QED
      BY <1>3, <2>1, <2>2, <3>2
  <2>3. CASE id # r
    BY <1>3, <2>1, <2>3 DEF NoLostUpdate
  <2> QED
    BY <2>2, <2>3
<1> QED
  BY <1>4, <1>5 DEF NoLostUpdate

LEMMA UpdateKeeps ==
  ASSUME IInv, NoLostUpdate, NEW r \in Request, Update(r)
  PROVE  NoLostUpdate'
<1> DEFINE target == call[r].target
<1>. TypeOK /\ Placed(r) /\ call[r] \in Call
  BY DEF IInv, TypeOK
<1>1. call[r].op \in {"update", "delete"} /\ target \in DOMAIN records
  BY DEF Update, Placed
<1>2. call' = call /\ history' = Append(history, r) /\ Committed' = Committed \cup {r}
  BY AppendHistory DEF Update, TypeOK
<1>3. /\ DOMAIN records' = DOMAIN records
      /\ \A id \in DOMAIN records \ {target} : records'[id] = records[id]
      /\ records'[target] = Updated(r, records[target])
  BY <1>1 DEF Update, TypeOK
<1>4. records[target] \in Row
  BY <1>1 DEF TypeOK
<1>5. ASSUME NEW f \in Field
      PROVE  Updated(r, records[target]).data[f] =
               IF Writes(r, target, f) THEN call[r].data[f] ELSE records[target].data[f]
  BY <1>1, <1>4 DEF Updated, Overlay, Writes, Row
<1>6. Updated(r, records[target]).isDeleted <=>
        records[target].isDeleted \/ call[r].op = "delete"
  BY <1>1, <1>4 DEF Updated, Row
<1>7. ASSUME NEW id \in DOMAIN records', NEW f \in Field
      PROVE  HoldsLastWritten(id, f)'
  <2>1. HoldsLastWritten(id, f)
    BY <1>3 DEF NoLostUpdate
  <2>2. CASE id = target
    BY <1>2, <1>3, <1>5, <2>1, <2>2, LastWriter
  <2>3. CASE id # target
    <3>1. ~Writes(r, id, f) /\ records'[id] = records[id]
      BY <1>1, <1>3, <2>3 DEF Writes
    <3> QED
      BY <1>2, <2>1, <3>1, LastWriter
  <2> QED
    BY <2>2, <2>3
<1>8. ASSUME NEW id \in DOMAIN records'
      PROVE  records'[id].isDeleted <=> DeletionTookEffect(id)'
  <2>1. records[id].isDeleted <=> DeletionTookEffect(id)
    BY <1>3 DEF NoLostUpdate
  <2>2. DeletionTookEffect(id)' <=>
          DeletionTookEffect(id) \/ (call[r].op = "delete" /\ target = id)
    BY <1>2 DEF DeletionTookEffect
  <2> QED
    BY <1>3, <1>6, <2>1, <2>2
<1> QED
  BY <1>7, <1>8 DEF NoLostUpdate

LEMMA InitKeeps == Init => NoLostUpdate
<1> SUFFICES ASSUME Init PROVE NoLostUpdate
  OBVIOUS
<1>1. DOMAIN history = {} /\ Committed = {} /\ records = InitialRecords
  BY DEF Init, Committed
<1> QED
  BY <1>1 DEF NoLostUpdate, HoldsLastWritten, Writers, DeletionTookEffect

LEMMA NextKeeps == IInv /\ NoLostUpdate /\ [Next]_vars => NoLostUpdate'
<1> SUFFICES ASSUME IInv, NoLostUpdate, [Next]_vars PROVE NoLostUpdate'
  OBVIOUS
<1>1. CASE UNCHANGED <<records, call, history>>
  BY <1>1 DEF NoLostUpdate, HoldsLastWritten, Writers, DeletionTookEffect, Committed
<1>2. ASSUME NEW r \in Request, Arrive(r) \/ Step(r) \/ DbError(r)
      PROVE  NoLostUpdate'
  <2>1. CASE Create(r)
    BY <2>1, CreateKeeps
  <2>2. CASE Update(r)
    BY <2>2, UpdateKeeps
  <2>3. Create(r) \/ Update(r) \/ UNCHANGED <<records, call, history>>
    BY <1>2 DEF Arrive, Step, Find, Audit, Read, DbError
  <2> QED
    BY <1>1, <2>1, <2>2, <2>3
<1> QED
  BY <1>1, <1>2 DEF Next, Finished, vars

(***************************************************************************)
(* However many requests overlap, each column of each row holds what the   *)
(* last effective request that named the column wrote, and a row is        *)
(* deleted exactly when a deletion of it took effect, or it was at first.  *)
(***************************************************************************)
THEOREM NoUpdateIsLost == Spec => []NoLostUpdate
<1>1. Init => NoLostUpdate
  BY InitKeeps
<1>2. IInv /\ NoLostUpdate /\ [Next]_vars => NoLostUpdate'
  BY NextKeeps
<1> QED
  BY <1>1, <1>2, InvariantHolds, PTL DEF Spec
----------------------------------------------------------------------------
(* The figures of one answer *)

\* What count has returned, or would return now, when n rows match.
Total(fig, n) == IF "total" \in DOMAIN fig THEN fig["total"] ELSE n

\* The figures read so far, against the rows that match now.
Within(fig, c, n, d) ==
  /\ Distance(Total(fig, n), n) <= d
  /\ "page" \in DOMAIN fig /\ fig["page"] > 0 =>
       (c.page - 1) * c.limit + fig["page"] <= Total(fig, n) + d
  /\ "breakdown" \in DOMAIN fig => Distance(Sum(fig["breakdown"]), Total(fig, n)) <= d
  /\ "recent" \in DOMAIN fig => fig["recent"] <= Total(fig, n) + d

Drift(r) == Len(history) - started[r]

DriftInv ==
  \A r \in Request :
    /\ started[r] <= Len(history)
    /\ pc[r] = "idle" => DOMAIN figures[r] = {}
    /\ pending[r] \cap DOMAIN figures[r] = {}
    /\ Within(figures[r], call[r], Cardinality(Matching(call[r])), Drift(r))

Figures(fig, c) ==
  \A q \in DOMAIN fig :
    q \in Statements(c.op) /\ fig[q] \in IF q = "breakdown" THEN [RecordType -> Nat] ELSE Nat

LEMMA SkipType ==
  ASSUME NEW c \in Call, "page" \in Statements(c.op)
  PROVE  (c.page - 1) * c.limit \in Nat /\ c.limit \in Nat
<1>1. c.op = "list"
  BY DEF Statements
<1>2. c.page - 1 \in Nat /\ c.limit \in Nat
  BY <1>1, CallType
<1> QED
  BY <1>2

\* Mutations move the number of matching rows by one each.
LEMMA WithinLater ==
  ASSUME NEW c \in Call, NEW fig, Figures(fig, c), NEW n \in Nat, NEW m \in Nat,
         NEW d \in Nat, NEW e \in Nat, Within(fig, c, n, d), Distance(n, m) <= e - d
  PROVE  Within(fig, c, m, e)
<1>1. Total(fig, n) \in Nat /\ Total(fig, m) \in Nat
  BY DEF Total, Figures
<1>2. Total(fig, m) = Total(fig, n) \/ (Total(fig, m) = m /\ Total(fig, n) = n)
  BY DEF Total
<1>3. Distance(Total(fig, m), m) <= e
  BY <1>1, <1>2 DEF Within, Distance, Total
<1>4. Total(fig, n) + d <= Total(fig, m) + e
  BY <1>1, <1>2 DEF Distance
<1>5. ASSUME "page" \in DOMAIN fig, fig["page"] > 0
      PROVE  (c.page - 1) * c.limit + fig["page"] <= Total(fig, m) + e
  <2>1. (c.page - 1) * c.limit \in Nat /\ fig["page"] \in Nat
    BY <1>5, SkipType DEF Figures
  <2>2. (c.page - 1) * c.limit + fig["page"] <= Total(fig, n) + d
    BY <1>5 DEF Within
  <2> DEFINE skip == (c.page - 1) * c.limit
  <2> HIDE DEF skip
  <2>3. skip + fig["page"] <= Total(fig, m) + e
    BY <1>1, <1>4, <2>1, <2>2 DEF skip
  <2> QED
    BY <2>3 DEF skip
<1>6. ASSUME "breakdown" \in DOMAIN fig
      PROVE  Distance(Sum(fig["breakdown"]), Total(fig, m)) <= e
  <2>1. Sum(fig["breakdown"]) \in Nat
    BY <1>6 DEF Figures, Sum, RecordType
  <2>2. Distance(Sum(fig["breakdown"]), Total(fig, n)) <= d
    BY <1>6 DEF Within
  <2> QED
    BY <1>1, <1>2, <2>1, <2>2 DEF Distance
<1>7. ASSUME "recent" \in DOMAIN fig
      PROVE  fig["recent"] <= Total(fig, m) + e
  <2>1. fig["recent"] \in Nat /\ fig["recent"] <= Total(fig, n) + d
    BY <1>7 DEF Figures, Within
  <2> QED
    BY <1>1, <1>4, <2>1
<1> QED
  BY <1>3, <1>5, <1>6, <1>7 DEF Within

\* The rows of both types are all the rows.
LEMMA BreakdownAddsUp ==
  ASSUME IsFiniteSet(DOMAIN records), records \in [DOMAIN records -> Row], NEW c
  PROVE  LET Of(t) == {id \in Matching(c) : records[id].data["type"] = t} IN
         Cardinality(Matching(c)) = Cardinality(Of("INCOME")) + Cardinality(Of("EXPENSE"))
<1> DEFINE Of(t) == {id \in Matching(c) : records[id].data["type"] = t}
<1>1. Of("INCOME") \in SUBSET DOMAIN records /\ Of("EXPENSE") \in SUBSET DOMAIN records
  BY DEF Matching
<1>2. Matching(c) = Of("INCOME") \cup Of("EXPENSE")
  <2>1. \A id \in DOMAIN records : records[id].data["type"] \in RecordType
    BY DEF Row, Data
  <2> QED
    BY <2>1 DEF Matching, RecordType
<1>3. Of("INCOME") \cap Of("EXPENSE") = {}
  OBVIOUS
<1> HIDE DEF Of
<1>4. /\ IsFiniteSet(Of("INCOME")) /\ Cardinality(Of("INCOME")) \in Nat
      /\ IsFiniteSet(Of("EXPENSE")) /\ Cardinality(Of("EXPENSE")) \in Nat
  BY <1>1, MatchingFinite
<1>5. Cardinality(Of("INCOME") \cup Of("EXPENSE")) =
        Cardinality(Of("INCOME")) + Cardinality(Of("EXPENSE")) - 0
  BY <1>3, <1>4, FS_Union, FS_EmptySet
<1>6. Cardinality(Matching(c)) = Cardinality(Of("INCOME")) + Cardinality(Of("EXPENSE"))
  BY <1>2, <1>4, <1>5
<1> QED
  BY <1>6 DEF Of

\* A statement returns what holds now.
LEMMA WithinRead ==
  ASSUME NEW c \in Call, NEW fig, Figures(fig, c), NEW d \in Nat,
         NEW q \in Statements(c.op) \ DOMAIN fig, IsFiniteSet(DOMAIN records), records \in [DOMAIN records -> Row],
         Within(fig, c, Cardinality(Matching(c)), d)
  PROVE  Within([p \in DOMAIN fig \cup {q} |-> IF p = q THEN Result(c, q) ELSE fig[p]],
                c, Cardinality(Matching(c)), d)
<1> DEFINE n == Cardinality(Matching(c))
           new == [p \in DOMAIN fig \cup {q} |-> IF p = q THEN Result(c, q) ELSE fig[p]]
<1>1. n \in Nat
  BY MatchingFinite DEF Matching
<1>2. Within(fig, c, n, d)
  OBVIOUS
<1>3. DOMAIN new = DOMAIN fig \cup {q} /\ new[q] = Result(c, q)
      /\ \A p \in DOMAIN fig \ {q} : new[p] = fig[p]
  OBVIOUS
<1>4. q \in Statement
  BY ResultType
<1>5. Result(c, "total") = n
  BY DEF Result
<1>6. Result(c, "page") = PageSize(c, n)
  BY DEF Result
<1>7. q = "breakdown" => Sum(Result(c, q)) = n
  <2>1. CASE q = "breakdown"
    <3>1. Sum(Result(c, q)) =
            Cardinality({id \in Matching(c) : records[id].data["type"] = "INCOME"})
              + Cardinality({id \in Matching(c) : records[id].data["type"] = "EXPENSE"})
      BY <2>1 DEF Result, Sum, RecordType
    <3> QED
      BY <3>1, BreakdownAddsUp
  <2> QED
    BY <2>1
<1>8. q = "recent" => Result(c, q) \in Nat /\ Result(c, q) <= n
  <2>1. CASE q = "recent"
    <3>1. Result(c, q) = Cardinality({id \in Matching(c) : records[id].recent})
      BY <2>1 DEF Result
    <3>2. IsFiniteSet(Matching(c))
      BY MatchingFinite DEF Matching
    <3>3. Cardinality({id \in Matching(c) : records[id].recent}) <= n
      BY <3>2, FS_Subset
    <3> QED
      BY <2>1, <3>1, <3>3, ResultType
  <2> QED
    BY <2>1
<1>9. q = "page" => PageSize(c, n) \in Nat /\ (PageSize(c, n) > 0 =>
                      (c.page - 1) * c.limit + PageSize(c, n) <= n)
  <2>1. CASE q = "page"
    <3> DEFINE skip == (c.page - 1) * c.limit
    <3>1. skip \in Nat /\ c.limit \in Nat
      BY <2>1, SkipType
    <3>2. PageSize(c, n) =
            IF n <= skip THEN 0 ELSE IF n - skip < c.limit THEN n - skip ELSE c.limit
      BY DEF PageSize
    <3> HIDE DEF skip
    <3>3. PageSize(c, n) \in Nat /\ (PageSize(c, n) > 0 => skip + PageSize(c, n) <= n)
      BY <1>1, <3>1, <3>2
    <3> QED
      BY <3>3 DEF skip
  <2> QED
    BY <2>1
<1>10. Total(fig, n) \in Nat
  BY <1>1 DEF Total, Figures
<1>11. Distance(Total(fig, n), n) <= d
  BY <1>2 DEF Within
<1> HIDE DEF n, new
<1>12. Total(new, n) = Total(fig, n)
  BY <1>3, <1>5 DEF Total
<1>13. "page" \in DOMAIN new /\ new["page"] > 0 =>
         (c.page - 1) * c.limit + new["page"] <= Total(new, n) + d
  <2>1. CASE q = "page"
    <3> DEFINE skip == (c.page - 1) * c.limit
    <3>1. skip \in Nat
      BY <2>1, SkipType
    <3>2. new["page"] = PageSize(c, n) /\ PageSize(c, n) \in Nat
          /\ (PageSize(c, n) > 0 => skip + PageSize(c, n) <= n)
      BY <1>3, <1>6, <1>9, <2>1
    <3> HIDE DEF skip
    <3>3. new["page"] > 0 => skip + new["page"] <= Total(new, n) + d
      BY <1>1, <1>10, <1>11, <1>12, <3>1, <3>2 DEF Distance
    <3> QED
      BY <3>3 DEF skip
  <2>2. CASE q # "page"
    BY <1>2, <1>3, <1>12, <2>2 DEF Within
  <2> QED
    BY <2>1, <2>2
<1>14. "breakdown" \in DOMAIN new => Distance(Sum(new["breakdown"]), Total(new, n)) <= d
  <2>1. CASE q = "breakdown"
    BY <1>1, <1>3, <1>7, <1>10, <1>11, <1>12, <2>1 DEF Distance
  <2>2. CASE q # "breakdown"
    BY <1>2, <1>3, <1>12, <2>2 DEF Within
  <2> QED
    BY <2>1, <2>2
<1>15. "recent" \in DOMAIN new => new["recent"] <= Total(new, n) + d
  <2>1. CASE q = "recent"
    BY <1>1, <1>3, <1>8, <1>10, <1>11, <1>12, <2>1 DEF Distance
  <2>2. CASE q # "recent"
    BY <1>2, <1>3, <1>12, <2>2 DEF Within
  <2> QED
    BY <2>1, <2>2
<1>16. Within(new, c, n, d)
  BY <1>11, <1>12, <1>13, <1>14, <1>15 DEF Within
<1> QED
  BY <1>16 DEF n, new

\* One element more or less, and the number of elements moves by one at most.
LEMMA OneElement ==
  ASSUME NEW S, NEW T, NEW x, IsFiniteSet(S), IsFiniteSet(T), S \ {x} = T \ {x}
  PROVE  Distance(Cardinality(S), Cardinality(T)) <= 1
<1>1. /\ Cardinality(S) \in Nat /\ Cardinality(T) \in Nat
      /\ Cardinality(S \ {x}) = IF x \in S THEN Cardinality(S) - 1 ELSE Cardinality(S)
      /\ Cardinality(T \ {x}) = IF x \in T THEN Cardinality(T) - 1 ELSE Cardinality(T)
  BY FS_CardinalityType, FS_RemoveElement
<1> QED
  BY <1>1 DEF Distance

\* A mutation touches one row.
LEMMA OneRow ==
  ASSUME TypeOK, TypeOK', IsFiniteSet(DOMAIN records), IsFiniteSet(DOMAIN records'),
         NEW r \in Request, Create(r) \/ Update(r), NEW q \in Request
  PROVE  Distance(Cardinality(Matching(call[q])), Cardinality(Matching(call[q])')) <= 1
<1>1. PICK x : /\ DOMAIN records \ {x} = DOMAIN records' \ {x}
               /\ \A id \in DOMAIN records \ {x} : records'[id] = records[id]
  <2>1. CASE Create(r)
    <3>1. /\ DOMAIN records' = DOMAIN records \cup {r}
          /\ \A id \in DOMAIN records \ {r} : records'[id] = records[id]
      BY <2>1 DEF Create
    <3> QED
      BY <3>1
  <2>2. CASE Update(r)
    <3>1. /\ DOMAIN records' = DOMAIN records
          /\ \A id \in DOMAIN records \ {call[r].target} : records'[id] = records[id]
      BY <2>2 DEF Update, TypeOK
    <3> QED
      BY <3>1
  <2> QED
    BY <2>1, <2>2
<1>2. Matching(call[q]) \ {x} = Matching(call[q])' \ {x}
  <2>1. call' = call
    BY DEF Create, Update
  <2> QED
    BY <1>1, <2>1 DEF Matching
<1>3. IsFiniteSet(Matching(call[q])) /\ IsFiniteSet(Matching(call[q])')
  BY FS_Subset DEF Matching
<1> QED
  BY <1>2, <1>3, OneElement

LEMMA FiguresType ==
  ASSUME IInv, NEW r \in Request
  PROVE  call[r] \in Call /\ Figures(figures[r], call[r])
BY DEF IInv, TypeOK, Placed, Figures

LEMMA CountType ==
  ASSUME IInv, NEW c
  PROVE  Cardinality(Matching(c)) \in Nat
BY MatchingFinite DEF IInv, Matching

LEMMA DriftType ==
  ASSUME IInv, DriftInv, NEW r \in Request
  PROVE  Drift(r) \in Nat /\ Len(history) \in Nat /\ started[r] \in Nat
BY DEF IInv, TypeOK, DriftInv, Drift

LEMMA InitDrift == Init => DriftInv
<1> SUFFICES ASSUME Init, NEW r \in Request
             PROVE  /\ started[r] <= Len(history)
                    /\ pc[r] = "idle" => DOMAIN figures[r] = {}
                    /\ pending[r] \cap DOMAIN figures[r] = {}
                    /\ Within(figures[r], call[r], Cardinality(Matching(call[r])), Drift(r))
  BY DEF DriftInv
<1>1. started[r] = 0 /\ Len(history) = 0 /\ DOMAIN figures[r] = {} /\ pending[r] = {}
  BY DEF Init
<1>2. Cardinality(Matching(call[r])) \in Nat
  BY InitInv, CountType
<1> QED
  BY <1>1, <1>2 DEF Within, Total, Distance, Drift

\* What a step leaves of the figures of a request that it does not touch.
LEMMA DriftKeeps ==
  ASSUME IInv, IInv', DriftInv, NEW q \in Request,
         figures'[q] = figures[q], started'[q] = started[q], call' = call,
         pending'[q] \subseteq pending[q], pc'[q] = "idle" => pc[q] = "idle",
         Len(history') \in Nat,
         Distance(Cardinality(Matching(call[q])), Cardinality(Matching(call[q])'))
           <= Len(history') - Len(history)
  PROVE  /\ started'[q] <= Len(history')
         /\ pc'[q] = "idle" => DOMAIN figures'[q] = {}
         /\ pending'[q] \cap DOMAIN figures'[q] = {}
         /\ Within(figures'[q], call'[q], Cardinality(Matching(call[q])'), Drift(q)')
<1> DEFINE n == Cardinality(Matching(call[q]))
           m == Cardinality(Matching(call[q])')
<1>1. n \in Nat /\ m \in Nat
  <2>1. n \in Nat
    BY CountType
  <2>2. IsFiniteSet(DOMAIN records') /\ Matching(call[q])' \subseteq DOMAIN records'
    BY DEF IInv, Matching
  <2> QED
    BY <2>1, <2>2, FS_Subset, FS_CardinalityType
<1>2. Drift(q) \in Nat /\ Len(history) \in Nat /\ started[q] \in Nat
  BY DriftType
<1>3. Within(figures[q], call[q], n, Drift(q)) /\ started[q] <= Len(history)
  BY DEF DriftInv
<1>4. Distance(n, m) <= Len(history') - Len(history)
  OBVIOUS
<1> HIDE DEF n, m
<1>5. Distance(n, m) \in Nat
  BY <1>1 DEF Distance
<1>6. Drift(q)' = Drift(q) + (Len(history') - Len(history)) /\ Drift(q)' \in Nat
  BY <1>2, <1>3, <1>4, <1>5 DEF Drift
<1>7. Distance(n, m) <= Drift(q)' - Drift(q)
  BY <1>2, <1>4, <1>5, <1>6
<1>8. Within(figures[q], call[q], m, Drift(q)')
  BY <1>1, <1>2, <1>3, <1>6, <1>7, FiguresType, WithinLater
<1>9. started'[q] <= Len(history')
  BY <1>2, <1>3, <1>4, <1>5
<1> QED
  BY <1>8, <1>9 DEF DriftInv, m

LEMMA StepDrift ==
  ASSUME IInv, IInv', DriftInv, NEW r \in Request, Arrive(r) \/ Step(r) \/ DbError(r)
  PROVE  DriftInv'
<1> DEFINE Kept(q) ==
             /\ started'[q] <= Len(history')
             /\ pc'[q] = "idle" => DOMAIN figures'[q] = {}
             /\ pending'[q] \cap DOMAIN figures'[q] = {}
             /\ Within(figures'[q], call'[q], Cardinality(Matching(call[q])'), Drift(q)')
<1>1. Frame(r) /\ TypeOK /\ TypeOK'
  BY StepFrame DEF IInv
<1>2. Len(history) \in Nat /\ Len(history') \in Nat
  BY <1>1 DEF TypeOK
<1>3. pc[r] # "idle" => pc'[r] # "idle"
  BY <1>1 DEF Step, Create, Find, Update, Audit, Read, DbError, Arrive, Applied, Goto, Answer,
              TypeOK
<1>4. \A q \in Request \ {r} : started'[q] = started[q]
  BY <1>1 DEF Arrive, Step, Create, Find, Update, Audit, Read, DbError, reading, TypeOK
<1>5. ASSUME NEW q \in Request, UNCHANGED <<records, history>>
      PROVE  Distance(Cardinality(Matching(call[q])), Cardinality(Matching(call[q])'))
               <= Len(history') - Len(history)
  <2>1. Matching(call[q])' = Matching(call[q])
    BY <1>1, <1>5 DEF Matching, Frame
  <2>2. Cardinality(Matching(call[q])) \in Nat
    BY CountType
  <2> QED
    BY <1>2, <1>5, <2>1, <2>2 DEF Distance
<1>6. CASE Create(r) \/ Update(r)
  <2>1. Len(history') = Len(history) + 1
    BY <1>1, <1>6, AppendHistory DEF Create, Update, TypeOK
  <2>2. ASSUME NEW q \in Request
        PROVE  Distance(Cardinality(Matching(call[q])), Cardinality(Matching(call[q])'))
                 <= Len(history') - Len(history)
    <3>1. Distance(Cardinality(Matching(call[q])), Cardinality(Matching(call[q])')) <= 1
      BY <1>1, <1>6, OneRow DEF IInv
    <3> QED
      BY <1>2, <2>1, <3>1
  <2>3. UNCHANGED reading /\ call' = call
    BY <1>6 DEF Create, Update
  <2>4. \A q \in Request : pc'[q] = "idle" => pc[q] = "idle"
    BY <1>1, <1>3 DEF Frame
  <2>5. ASSUME NEW q \in Request PROVE Kept(q)
    BY <1>2, <2>2, <2>3, <2>4, DriftKeeps DEF reading
  <2> QED
    BY <2>5 DEF DriftInv
<1>7. CASE Find(r) \/ Audit(r) \/ DbError(r)
  <2>1. UNCHANGED <<records, history, figures, started, call>>
    BY <1>7 DEF Find, Audit, DbError, reading
  <2>2. \A q \in Request : pending'[q] \subseteq pending[q]
    BY <1>1, <1>7 DEF Find, Audit, DbError, reading, TypeOK
  <2>3. \A q \in Request : pc'[q] = "idle" => pc[q] = "idle"
    BY <1>1, <1>3 DEF Frame
  <2>4. ASSUME NEW q \in Request PROVE Kept(q)
    BY <1>2, <1>5, <2>1, <2>2, <2>3, DriftKeeps
  <2> QED
    BY <2>4 DEF DriftInv
<1>8. ASSUME NEW q \in Request \ {r}, Arrive(r) \/ \E s \in Statement : Read(r, s)
      PROVE  Kept(q)
  <2>1. UNCHANGED <<records, history>>
    BY <1>8 DEF Arrive, Read
  <2> QED
    BY <1>1, <1>2, <1>4, <1>5, <2>1, DriftKeeps DEF Frame
<1>9. ASSUME Arrive(r) PROVE Kept(r)
  <2>1. /\ UNCHANGED <<records, history, figures, call>>
        /\ started'[r] = Len(history) /\ DOMAIN figures[r] = {}
    BY <1>1, <1>9 DEF Arrive, DriftInv, TypeOK
  <2>2. pc'[r] # "idle"
    BY <1>1, <1>9, CallType DEF Arrive, Goto, Answer, FirstStep, Targeted, TypeOK
  <2>3. Matching(call[r])' = Matching(call[r]) /\ Cardinality(Matching(call[r])) \in Nat
    BY <2>1, CountType DEF Matching
  <2> QED
    BY <1>2, <2>1, <2>2, <2>3 DEF Within, Total, Distance, Drift
<1>10. ASSUME NEW s \in Statement, Read(r, s) PROVE Kept(r)
  <2> DEFINE fig == figures[r]
             new == [p \in DOMAIN fig \cup {s} |-> IF p = s THEN Result(call[r], s) ELSE fig[p]]
  <2>1. UNCHANGED <<records, history, started, call>>
    BY <1>10 DEF Read
  <2>2. figures'[r] = new /\ pending'[r] = pending[r] \ {s} /\ s \in pending[r]
    BY <1>1, <1>10 DEF Read, TypeOK
  <2>3. pc'[r] # "idle"
    BY <1>3, <1>10 DEF Read
  <2>4. s \in Statements(call[r].op) \ DOMAIN fig
    BY <2>2 DEF IInv, Placed, DriftInv
  <2>5. /\ call[r] \in Call /\ Figures(fig, call[r]) /\ Drift(r) \in Nat
        /\ IsFiniteSet(DOMAIN records) /\ records \in [DOMAIN records -> Row]
    BY FiguresType, DriftType DEF IInv, TypeOK
  <2>6. Within(fig, call[r], Cardinality(Matching(call[r])), Drift(r))
    BY DEF DriftInv
  <2> HIDE DEF fig
  <2>7. Within(new, call[r], Cardinality(Matching(call[r])), Drift(r))
    BY <2>4, <2>5, <2>6, WithinRead
  <2>8. Matching(call[r])' = Matching(call[r]) /\ Drift(r)' = Drift(r)
    BY <2>1 DEF Matching, Drift
  <2>9. pending'[r] \cap DOMAIN new = {}
    BY <2>2 DEF DriftInv, fig
  <2> HIDE DEF new
  <2> QED
    BY <2>1, <2>2, <2>3, <2>7, <2>8, <2>9 DEF DriftInv
<1>11. CASE Arrive(r) \/ \E s \in Statement : Read(r, s)
  <2>1. ASSUME NEW q \in Request PROVE Kept(q)
    BY <1>8, <1>9, <1>10, <1>11
  <2> QED
    BY <2>1 DEF DriftInv
<1> QED
  BY <1>6, <1>7, <1>11 DEF Step

LEMMA NextDrift == IInv /\ IInv' /\ DriftInv /\ [Next]_vars => DriftInv'
<1> SUFFICES ASSUME IInv, IInv', DriftInv, [Next]_vars PROVE DriftInv'
  OBVIOUS
<1>1. CASE UNCHANGED vars
  BY <1>1 DEF vars, DriftInv, Within, Total, Matching, Drift
<1> QED
  BY <1>1, StepDrift DEF Next, Finished

\* The two figures of a pair that have been read are bounded by one another.
LEMMA DriftSuffices == IInv /\ DriftInv => FiguresAgree
<1> SUFFICES ASSUME IInv, DriftInv, NEW r \in Request
             PROVE  LET drift == Len(history) - started[r]
                        fig   == figures[r]
                    IN /\ {"page", "total"} \subseteq DOMAIN fig /\ fig["page"] > 0 =>
                            (call[r].page - 1) * call[r].limit + fig["page"] <= fig["total"] + drift
                       /\ {"breakdown", "total"} \subseteq DOMAIN fig =>
                            Distance(Sum(fig["breakdown"]), fig["total"]) <= drift
                       /\ {"recent", "total"} \subseteq DOMAIN fig =>
                            fig["recent"] <= fig["total"] + drift
  BY DEF FiguresAgree
<1>1. Within(figures[r], call[r], Cardinality(Matching(call[r])), Drift(r))
  BY DEF DriftInv
<1> QED
  BY <1>1 DEF Within, Total, Drift

(***************************************************************************)
(* For any table, requests and page sizes: the figures that the statements *)
(* of one list or one getStats return differ by no more than the number of *)
(* mutations that took effect while the request was in progress.           *)
(***************************************************************************)
THEOREM FiguresDriftApart == Spec => []FiguresAgree
<1>1. Init => DriftInv
  BY InitDrift
<1>2. IInv /\ IInv' /\ DriftInv /\ [Next]_vars => DriftInv'
  BY NextDrift
<1>3. IInv /\ DriftInv => FiguresAgree
  BY DriftSuffices
<1> QED
  BY <1>1, <1>2, <1>3, InvariantHolds, PTL DEF Spec
=============================================================================
