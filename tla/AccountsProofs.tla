--------------------------- MODULE AccountsProofs ---------------------------
(***************************************************************************)
(* Proofs about Accounts, for every table of users, every set of tokens,   *)
(* requests and calls, and every bound.                                    *)
(***************************************************************************)
EXTENDS Accounts, FiniteSetTheorems, TLAPS

----------------------------------------------------------------------------
(* Roles *)

LEMMA Levels ==
  IndexOf("VIEWER") = 0 /\ IndexOf("ANALYST") = 1 /\ IndexOf("ADMIN") = 2
<1>1. /\ ROLE_HIERARCHY[1] = "VIEWER"
      /\ ROLE_HIERARCHY[2] = "ANALYST"
      /\ ROLE_HIERARCHY[3] = "ADMIN"
  BY DEF ROLE_HIERARCHY
<1>2. 1..3 = {1, 2, 3}
  OBVIOUS
<1> QED
  BY <1>1, <1>2 DEF IndexOf

(***************************************************************************)
(* The guards that list roles, which the routers use, and the guards that  *)
(* compare positions in ROLE_HIERARCHY admit the same roles.               *)
(***************************************************************************)
THEOREM GuardsCoincide == GuardsAgree
  BY Levels
     DEF GuardsAgree, requireMinRole, hasMinRole, adminOnly, analystOrAdmin, anyRole, Role

----------------------------------------------------------------------------
(* Types *)

LEMMA SnapshotType ==
  ASSUME TypeOK, NEW u \in DOMAIN users
  PROVE  SnapshotOf(u) \in Snapshot
  BY DEF TypeOK, SnapshotOf, Snapshot, Row

LEMMA NewRowType ==
  ASSUME NEW c \in Call, c.op \in Creation
  PROVE  NewRow(c) \in Row
  BY DEF NewRow, Row, Call, Creation, Role, Status

LEMMA UpdatedType ==
  ASSUME NEW c \in Call, c.op \in Change, NEW row \in Row
  PROVE  Updated(c, row) \in Row
<1>1. CASE c.op = "updateRole"
  BY <1>1 DEF Updated, Row, Call
<1>2. CASE c.op = "updateStatus"
  BY <1>2 DEF Updated, Row, Call
<1>3. CASE c.op = "deleteUser"
  BY <1>3 DEF Updated, Row, Call, Status
<1> QED
  BY <1>1, <1>2, <1>3 DEF Change

\* What a request needs to write its audit row is there when it does.
LEMMA AuditEntryType ==
  ASSUME TypeOK, NEW r \in Request, Placed(r), pc[r] = "audit"
  PROVE  AuditEntry(r) \in AuditRow
<1> DEFINE c == call[r]
<1> USE DEF TypeOK, Placed
<1>1. c \in Call /\ c.op \in Audited
  OBVIOUS
<1>2. c.op \notin Public => Actor(r) \in UserId
  BY DEF Waiting, Actor, Claims
<1>3. c.op = "login" => found[r].id \in UserId
  BY DEF Snapshot
<1>4. r \in UserId
  BY DEF UserId
<1>5. c.op \in Change => c.target \in UserId
  BY <1>1 DEF Call, Change
<1>6. AuditUser(r) \in UserId
  BY <1>1, <1>2, <1>3, <1>4 DEF AuditUser, Public
<1>7. EntityId(r) \in UserId
  BY <1>1, <1>2, <1>3, <1>4, <1>5
     DEF EntityId, Public, Audited, Mutation, Creation
<1>8. Before(r) \in AuditValue
  BY <1>1 DEF Before, AuditValue, Snapshot, Change
<1>9. After(r) \in AuditValue
  <2>1. c.op \in Creation => NewRow(c).role \in Role
    BY <1>1, NewRowType DEF Row
  <2> QED
    BY <1>1, <2>1 DEF After, AuditValue, Call
<1> QED
  BY <1>1, <1>6, <1>7, <1>8, <1>9 DEF AuditEntry, AuditRow

\* An update is refused, or replaces one row by its updated form, whose address
\* no other row has.
LEMMA UpdateEffect ==
  ASSUME TypeOK, NEW r \in Request, Placed(r), Update(r)
  PROVE  LET id == call[r].target IN
         /\ pc[r] = "update" /\ call[r].op \in Change /\ id \in DOMAIN users
         /\ UNCHANGED <<auditLog, tokens, revoked, call, found, crashes>>
         /\ \/ Answer(r, 409) /\ UNCHANGED <<users, committed>>
            \/ /\ Applied(r, "audit")
               /\ committed' = committed \cup {r}
               /\ users' \in [DOMAIN users -> Row] /\ DOMAIN users' = DOMAIN users
               /\ users'[id] = Updated(call[r], users[id])
               /\ \A u \in DOMAIN users \ {id} :
                    users'[u] = users[u] /\ users[u].email # users'[id].email
<1> DEFINE id  == call[r].target
           row == Updated(call[r], users[id])
<1>1. call[r] \in Call /\ call[r].op \in Change /\ id \in DOMAIN users
  BY DEF Update, Placed, TypeOK
<1>2. row \in Row
  BY <1>1, UpdatedType DEF TypeOK
<1>3. \/ Answer(r, 409) /\ UNCHANGED <<users, committed>>
      \/ /\ ~\E u \in DOMAIN users \ {id} : users[u].email = row.email
         /\ users' = [users EXCEPT ![id] = row]
         /\ committed' = committed \cup {r}
         /\ Applied(r, "audit")
  BY DEF Update
<1>4. /\ pc[r] = "update"
      /\ UNCHANGED <<auditLog, tokens, revoked, call, found, crashes>>
  BY DEF Update
<1> HIDE DEF row
<1>5. ASSUME users' = [users EXCEPT ![id] = row]
      PROVE  /\ users' \in [DOMAIN users -> Row] /\ DOMAIN users' = DOMAIN users
             /\ users'[id] = row
             /\ \A u \in DOMAIN users \ {id} : users'[u] = users[u]
  BY <1>1, <1>2, <1>5 DEF TypeOK
<1> QED
  BY <1>1, <1>3, <1>4, <1>5 DEF row

LEMMA InitType == Init => TypeOK
<1> SUFFICES ASSUME Init PROVE TypeOK
  OBVIOUS
<1>1. users \in [DOMAIN users -> Row] /\ DOMAIN users \subseteq UserId
  BY InitialAssumption DEF Init, UserId
<1>2. tokens \in [DOMAIN tokens -> Claims] /\ DOMAIN tokens \subseteq Token
  BY InitialAssumption DEF Init, Claims, Token, UserId
<1>3. call \in [Request -> Call]
  BY WorkloadsAssumption DEF Init
<1>4. auditLog \in Seq(AuditRow)
  BY DEF Init
<1> QED
  BY <1>1, <1>2, <1>3, <1>4 DEF Init, TypeOK

LEMMA StepType ==
  ASSUME TypeOK, \A q \in Request : Placed(q),
         NEW r \in Request, Arrive(r) \/ Step(r) \/ DbError(r)
  PROVE  TypeOK'
<1> USE DEF TypeOK
<1> DEFINE Moved == /\ pc' \in [Request -> {"idle", "done", "lost"} \cup Waiting]
                    /\ response' \in [Request -> Nat]
<1>1. ASSUME NEW where \in {"idle", "done", "lost"} \cup Waiting, Goto(r, where)
      PROVE  Moved
  BY <1>1 DEF Goto
<1>2. ASSUME NEW code \in Nat, Answer(r, code)
      PROVE  Moved
  BY <1>2 DEF Answer
<1>3. ASSUME Applied(r, "audit")
      PROVE  Moved
  BY <1>1, <1>2, <1>3 DEF Applied, Waiting
<1>4. call[r] \in Call
  OBVIOUS
<1>5. Goto(r, "audit") => Moved
  BY <1>1 DEF Waiting
<1>6. CASE Arrive(r)
  <2>1. Moved
    BY <1>1, <1>2, <1>6 DEF Arrive, Waiting
  <2> QED
    BY <1>6, <2>1 DEF Arrive, db
<1>7. CASE Authenticate(r)
  <2>1. Moved
    <3>1. CASE Refuse(r)
      BY <1>2, <3>1 DEF Refuse
    <3>2. CASE Admit(r)
      <4>1. \/ \E code \in {200, 400} : Answer(r, code)
            \/ \E where \in {"audit", "create", "find"} : Goto(r, where)
        BY <3>2 DEF Admit, Dispatch
      <4>2. ASSUME NEW code \in {200, 400}, Answer(r, code) PROVE Moved
        BY <1>2, <4>2
      <4>3. ASSUME NEW where \in {"audit", "create", "find"}, Goto(r, where) PROVE Moved
        BY <1>1, <4>3 DEF Waiting
      <4> QED
        BY <4>1, <4>2, <4>3
    <3> QED
      BY <1>7, <3>1, <3>2 DEF Authenticate
  <2>2. revoked' \subseteq DOMAIN tokens
    <3>1. call[r].op = "logout" => call[r].token \in DOMAIN tokens
      BY <1>7 DEF Authenticate, Placed, Waiting, Public
    <3> QED
      BY <1>7, <3>1 DEF Authenticate, Refuse, Admit, Dispatch
  <2> QED
    BY <1>7, <2>1, <2>2 DEF Authenticate
<1>8. CASE Lookup(r)
  <2>1. Moved
    BY <1>1, <1>2, <1>8 DEF Lookup, Waiting
  <2>2. found' \in [Request -> Snapshot \cup {NoUser}]
    BY <1>8, SnapshotType DEF Lookup, Read
  <2> QED
    BY <1>8, <2>1, <2>2 DEF Lookup, db
<1>9. CASE Compare(r)
  <2>1. Moved
    <3>1. Answer(r, 401) \/ Answer(r, 403) \/ Goto(r, "audit")
      BY <1>9, Zenon DEF Compare
    <3> QED
      BY <1>2, <1>5, <3>1
  <2> QED
    BY <1>9, <2>1 DEF Compare, db
<1>10. CASE Create(r)
  <2>1. Moved
    BY <1>2, <1>3, <1>10 DEF Create
  <2>2. NewRow(call[r]) \in Row
    BY <1>4, <1>10, NewRowType DEF Create, Placed
  <2>3. users' \in [DOMAIN users' -> Row] /\ DOMAIN users' \subseteq UserId
    BY <1>10, <2>2 DEF Create, UserId
  <2>4. committed' \subseteq Request
    BY <1>10 DEF Create
  <2> QED
    BY <1>10, <2>1, <2>3, <2>4 DEF Create
<1>11. CASE Find(r)
  <2>1. Moved
    <3>1. Answer(r, 200) \/ Answer(r, 404) \/ Goto(r, "update")
      BY <1>11 DEF Find
    <3>2. Goto(r, "update") => Moved
      BY <1>1 DEF Waiting
    <3> QED
      BY <1>2, <3>1, <3>2
  <2>2. found' \in [Request -> Snapshot \cup {NoUser}]
    BY <1>11, SnapshotType DEF Find, Read
  <2> QED
    BY <1>11, <2>1, <2>2 DEF Find, db
<1>12. CASE Update(r)
  <2>1. Moved
    BY <1>2, <1>3, <1>12, UpdateEffect
  <2>2. /\ users' \in [DOMAIN users' -> Row] /\ DOMAIN users' = DOMAIN users
        /\ committed' \subseteq Request
    BY <1>12, UpdateEffect
  <2> QED
    BY <1>12, <2>1, <2>2, UpdateEffect
<1>13. CASE Audit(r)
  <2>1. Moved
    <3>1. SuccessCode(call[r].op) \in Nat
      BY DEF SuccessCode
    <3> QED
      BY <1>2, <1>13, <3>1 DEF Audit
  <2>2. auditLog' \in Seq(AuditRow)
    BY <1>13, AuditEntryType DEF Audit
  <2>3. /\ tokens' \in [DOMAIN tokens' -> Claims] /\ DOMAIN tokens' \subseteq Token
        /\ revoked \subseteq DOMAIN tokens'
    <3>1. CASE call[r].op = "login" /\ HandOut(r)
      <4>1. found[r] \in Snapshot
        BY <1>13, <3>1 DEF Audit, Placed
      <4> QED
        BY <3>1, <4>1 DEF HandOut, Claims, Snapshot, Token
    <3>2. CASE UNCHANGED tokens
      BY <3>2
    <3> QED
      BY <1>13, <3>1, <3>2 DEF Audit
  <2> QED
    BY <1>13, <2>1, <2>2, <2>3 DEF Audit
<1>14. CASE DbError(r)
  <2>1. Moved
    BY <1>2, <1>14 DEF DbError
  <2> QED
    BY <1>14, <2>1 DEF DbError, db
<1> QED
  BY <1>6, <1>7, <1>8, <1>9, <1>10, <1>11, <1>12, <1>13, <1>14 DEF Step

----------------------------------------------------------------------------
(* What a step leaves alone *)

\* Requests do not change what they ask; effects, accounts, deletions, tokens
\* and audit rows are for good.
Frame ==
  /\ call' = call
  /\ committed \subseteq committed'
  /\ DOMAIN users \subseteq DOMAIN users'
  /\ \A u \in DOMAIN users : users[u].isDeleted => users'[u].isDeleted
  /\ DOMAIN tokens \subseteq DOMAIN tokens'
  /\ \A t \in DOMAIN tokens : tokens'[t] = tokens[t]
  /\ DOMAIN auditLog \subseteq DOMAIN auditLog'
  /\ \A i \in DOMAIN auditLog : auditLog'[i] = auditLog[i]

\* A step of one request leaves the others where they are.
OnlyMoves(r) ==
  /\ \A q \in Request \ {r} :
       pc'[q] = pc[q] /\ response'[q] = response[q] /\ found'[q] = found[q]
  /\ committed' \subseteq committed \cup {r}
  /\ DOMAIN users' \subseteq DOMAIN users \cup {r}
  /\ DOMAIN tokens' \subseteq DOMAIN tokens \cup {r}

\* A step of a request that has one: it was not done before.
LEMMA StepNotDone ==
  ASSUME NEW r \in Request, Arrive(r) \/ Step(r) \/ DbError(r)
  PROVE  pc[r] \in {"idle"} \cup Waiting
  BY DEF Arrive, Step, Authenticate, Lookup, Compare, Create, Find, Update, Audit, DbError, Waiting

LEMMA StepCall ==
  ASSUME NEW r \in Request, Arrive(r) \/ Step(r) \/ DbError(r)
  PROVE  call' = call
  BY DEF Arrive, Step, Authenticate, Lookup, Compare, Create, Find, Update, Audit, DbError

\* The steps that write no table.
Reads(r) ==
  Arrive(r) \/ Authenticate(r) \/ Lookup(r) \/ Compare(r) \/ Find(r) \/ DbError(r)

LEMMA ReadsNothingWritten ==
  ASSUME NEW r \in Request, Reads(r)
  PROVE  UNCHANGED <<users, auditLog, tokens, committed>>
  BY DEF Reads, Arrive, Authenticate, Lookup, Compare, Find, DbError, db

LEMMA StepOthers ==
  ASSUME TypeOK, NEW r \in Request, Arrive(r) \/ Step(r) \/ DbError(r)
  PROVE  \A q \in Request \ {r} :
           pc'[q] = pc[q] /\ response'[q] = response[q] /\ found'[q] = found[q]
<1> USE DEF TypeOK
<1> DEFINE Same == \A q \in Request \ {r} : pc'[q] = pc[q] /\ response'[q] = response[q]
           SameFound == \A q \in Request \ {r} : found'[q] = found[q]
<1>1. ASSUME NEW where, Goto(r, where) PROVE Same
  BY <1>1 DEF Goto
<1>2. ASSUME NEW code, Answer(r, code) PROVE Same
  BY <1>2 DEF Answer
<1>3. Applied(r, "audit") => Same
  BY <1>1, <1>2 DEF Applied
<1>4. CASE Arrive(r)
  BY <1>1, <1>2, <1>4 DEF Arrive
<1>5. CASE Authenticate(r)
  BY <1>1, <1>2, <1>5 DEF Authenticate, Refuse, Admit, Dispatch
<1>6. CASE Lookup(r)
  <2>1. Same
    BY <1>1, <1>2, <1>6 DEF Lookup
  <2>2. SameFound
    BY <1>6 DEF Lookup, Read
  <2> QED
    BY <2>1, <2>2
<1>7. CASE Compare(r)
  BY <1>1, <1>2, <1>7, Zenon DEF Compare
<1>8. CASE Create(r)
  BY <1>2, <1>3, <1>8 DEF Create
<1>9. CASE Find(r)
  <2>1. Same
    BY <1>1, <1>2, <1>9 DEF Find
  <2>2. SameFound
    BY <1>9 DEF Find, Read
  <2> QED
    BY <2>1, <2>2
<1>10. CASE Update(r)
  BY <1>2, <1>3, <1>10 DEF Update
<1>11. CASE Audit(r)
  BY <1>2, <1>11 DEF Audit
<1>12. CASE DbError(r)
  BY <1>2, <1>12 DEF DbError
<1> QED
  BY <1>4, <1>5, <1>6, <1>7, <1>8, <1>9, <1>10, <1>11, <1>12 DEF Step

LEMMA UpdatedKeepsDeleted ==
  ASSUME NEW c, c.op \in Change, NEW row \in Row, row.isDeleted
  PROVE  Updated(c, row).isDeleted
<1>1. CASE c.op = "updateRole"
  BY <1>1 DEF Updated, Row
<1>2. CASE c.op = "updateStatus"
  BY <1>2 DEF Updated, Row
<1>3. CASE c.op = "deleteUser"
  BY <1>3 DEF Updated, Row
<1> QED
  BY <1>1, <1>2, <1>3 DEF Change

LEMMA StepFrame ==
  ASSUME TypeOK, NEW r \in Request, Placed(r), Arrive(r) \/ Step(r) \/ DbError(r)
  PROVE  Frame /\ OnlyMoves(r)
<1> USE DEF TypeOK
<1>1. call' = call
  BY StepCall
<1>2. \A q \in Request \ {r} :
        pc'[q] = pc[q] /\ response'[q] = response[q] /\ found'[q] = found[q]
  BY StepOthers
<1>3. CASE Reads(r)
  BY <1>1, <1>2, <1>3, ReadsNothingWritten DEF Frame, OnlyMoves
<1>4. CASE Create(r)
  <2>1. r \notin DOMAIN users
    BY <1>4 DEF Create, Placed
  <2>2. /\ DOMAIN users \subseteq DOMAIN users'
        /\ DOMAIN users' \subseteq DOMAIN users \cup {r}
        /\ \A u \in DOMAIN users : users'[u] = users[u]
    BY <1>4, <2>1 DEF Create
  <2>3. /\ committed \subseteq committed' /\ committed' \subseteq committed \cup {r}
        /\ UNCHANGED <<auditLog, tokens>>
    BY <1>4 DEF Create
  <2> QED
    BY <1>1, <1>2, <2>2, <2>3 DEF Frame, OnlyMoves
<1>5. CASE Update(r)
  <2>1. /\ UNCHANGED <<auditLog, tokens>> /\ DOMAIN users' = DOMAIN users
        /\ committed \subseteq committed' /\ committed' \subseteq committed \cup {r}
    BY <1>5, UpdateEffect
  <2>2. ASSUME NEW u \in DOMAIN users, users[u].isDeleted PROVE users'[u].isDeleted
    <3>1. CASE u = call[r].target
      <4>1. Updated(call[r], users[u]).isDeleted
        BY <1>5, <2>2, <3>1, UpdateEffect, UpdatedKeepsDeleted
      <4> QED
        BY <1>5, <2>2, <3>1, <4>1, UpdateEffect
    <3>2. CASE u # call[r].target
      BY <1>5, <2>2, <3>2, UpdateEffect
    <3> QED
      BY <3>1, <3>2
  <2> QED
    BY <1>1, <1>2, <2>1, <2>2 DEF Frame, OnlyMoves
<1>6. CASE Audit(r)
  <2>1. UNCHANGED <<users, committed>>
    BY <1>6 DEF Audit
  <2>2. /\ DOMAIN auditLog \subseteq DOMAIN auditLog'
        /\ \A i \in DOMAIN auditLog : auditLog'[i] = auditLog[i]
    BY <1>6, AuditEntryType DEF Audit
  <2>3. /\ DOMAIN tokens \subseteq DOMAIN tokens'
        /\ DOMAIN tokens' \subseteq DOMAIN tokens \cup {r}
        /\ \A t \in DOMAIN tokens : tokens'[t] = tokens[t]
    <3>1. r \notin DOMAIN tokens
      BY <1>6 DEF Audit, Placed
    <3> QED
      BY <1>6, <3>1 DEF Audit, HandOut
  <2> QED
    BY <1>1, <1>2, <2>1, <2>2, <2>3 DEF Frame, OnlyMoves
<1> QED
  BY <1>3, <1>4, <1>5, <1>6 DEF Step, Reads

----------------------------------------------------------------------------
(* Where requests are *)

LEMMA PlacedOther ==
  ASSUME NEW r \in Request, Frame, OnlyMoves(r), NEW q \in Request \ {r}, Placed(q)
  PROVE  Placed(q)'
  BY DEF Frame, OnlyMoves, Placed

LEMMA InitPlaced == Init => \A r \in Request : Placed(r)
  BY FreshAssumption DEF Init, Placed, Waiting

\* The moves of a request itself; what each one brings along is in the case.
LEMMA PlacedSelf ==
  ASSUME TypeOK, \A t \in DOMAIN tokens : tokens[t].userId \in DOMAIN users,
         NEW r \in Request, Placed(r), Arrive(r) \/ Step(r) \/ DbError(r)
  PROVE  Placed(r)'
<1> USE DEF TypeOK
<1>1. call'[r] = call[r] /\ call[r] \in Call /\ Frame
  BY StepFrame DEF Frame
<1>2. pc[r] \in {"idle"} \cup Waiting /\ response[r] = 0
  BY StepNotDone DEF Placed, Waiting
<1>3. ASSUME NEW where, Goto(r, where) PROVE pc'[r] = where /\ response'[r] = 0
  BY <1>2, <1>3 DEF Goto
<1>4. ASSUME NEW code, Answer(r, code) PROVE pc'[r] = "done"
  BY <1>4 DEF Answer
<1>5. Applied(r, "audit") => pc'[r] = "done" \/ (pc'[r] = "audit" /\ response'[r] = 0)
  BY <1>3, <1>4 DEF Applied
\* An answer ends the request; only its effects have to be accounted for.
<1>6. ASSUME pc'[r] = "done",
             r \in committed' => call[r].op \in Public \/ call[r].token \in DOMAIN tokens
      PROVE  Placed(r)'
  BY <1>1, <1>6 DEF Placed, Waiting, Frame
<1>7. CASE Arrive(r)
  <2>1. r \notin committed' \cup DOMAIN users' \cup DOMAIN tokens'
    BY <1>7, ReadsNothingWritten DEF Arrive, Placed, Reads, db
  <2>2. \/ pc'[r] = "done"
        \/ /\ response'[r] = 0
           /\ \/ call[r].op = "register" /\ pc'[r] = "create"
              \/ call[r].op = "login" /\ pc'[r] = "lookup"
              \/ /\ call[r].op \notin Public /\ call[r].token \in DOMAIN tokens
                 /\ pc'[r] = "authenticate"
    BY <1>3, <1>4, <1>7 DEF Arrive
  <2> QED
    BY <1>1, <1>6, <2>1, <2>2 DEF Placed, Waiting, Public, Creation, Frame
<1>8. CASE Authenticate(r)
  <2>1. r \notin committed' \cup DOMAIN users' \cup DOMAIN tokens'
    BY <1>8, ReadsNothingWritten DEF Authenticate, Placed, Reads
  <2>2. call[r].op \notin Public /\ call[r].token \in DOMAIN tokens
    BY <1>8 DEF Authenticate, Placed, Waiting
  <2>3. \/ pc'[r] = "done"
        \/ /\ response'[r] = 0
           /\ \/ call[r].op = "logout" /\ pc'[r] = "audit"
              \/ call[r].op = "createUser" /\ pc'[r] = "create"
              \/ call[r].op \in {"getUser"} \cup Change /\ pc'[r] = "find"
    BY <1>3, <1>4, <1>8 DEF Authenticate, Refuse, Admit, Dispatch
  <2> QED
    BY <1>1, <1>6, <2>1, <2>2, <2>3
       DEF Placed, Waiting, Public, Creation, Change, Audited, Mutation, Frame
<1>9. CASE Lookup(r)
  <2>1. r \notin committed' \cup DOMAIN users' \cup DOMAIN tokens' /\ UNCHANGED users
    BY <1>9, ReadsNothingWritten DEF Lookup, Placed, Reads
  <2>2. \/ pc'[r] = "done"
        \/ /\ response'[r] = 0 /\ pc'[r] = "compare"
           /\ found'[r] \in Snapshot /\ found'[r].id \in DOMAIN users
    <3>1. ASSUME NEW u \in DOMAIN users, Read(r, u)
          PROVE  found'[r] \in Snapshot /\ found'[r].id \in DOMAIN users
      BY <3>1, SnapshotType DEF Read, SnapshotOf
    <3> QED
      BY <1>3, <1>4, <1>9, <3>1 DEF Lookup
  <2>3. call[r].op = "login"
    BY <1>9 DEF Lookup, Placed
  <2> QED
    BY <1>1, <1>6, <2>1, <2>2, <2>3 DEF Placed, Waiting, Public, Frame
<1>10. CASE Compare(r)
  <2>1. r \notin committed' \cup DOMAIN users' \cup DOMAIN tokens' /\ UNCHANGED users
    BY <1>10, ReadsNothingWritten DEF Compare, Placed, Reads
  <2>2. pc'[r] = "done" \/ (response'[r] = 0 /\ pc'[r] = "audit")
    <3>1. Answer(r, 401) \/ Answer(r, 403) \/ Goto(r, "audit")
      BY <1>10, Zenon DEF Compare
    <3> QED
      BY <1>3, <1>4, <3>1
  <2>3. /\ call[r].op = "login" /\ found'[r] = found[r]
        /\ found[r] \in Snapshot /\ found[r].id \in DOMAIN users
    BY <1>10 DEF Compare, Placed
  <2> QED
    BY <1>1, <1>6, <2>1, <2>2, <2>3
       DEF Placed, Waiting, Public, Audited, Mutation, Creation, Change, Frame
<1>11. CASE Create(r)
  <2>1. /\ call[r].op \in Creation
        /\ call[r].op \in Public \/ call[r].token \in DOMAIN tokens
        /\ r \notin DOMAIN tokens /\ r \notin committed /\ tokens' = tokens
    BY <1>11 DEF Create, Placed, Waiting
  <2>2. \/ pc'[r] = "done"
        \/ pc'[r] = "audit" /\ response'[r] = 0 /\ r \in committed'
    BY <1>4, <1>5, <1>11 DEF Create
  <2> QED
    BY <1>1, <1>6, <2>1, <2>2
       DEF Placed, Waiting, Audited, Mutation, Creation, Change, Frame
<1>12. CASE Find(r)
  <2>1. r \notin committed' \cup DOMAIN users' \cup DOMAIN tokens' /\ UNCHANGED users
    BY <1>12, ReadsNothingWritten DEF Find, Placed, Reads
  <2>2. \/ pc'[r] = "done"
        \/ /\ response'[r] = 0 /\ pc'[r] = "update" /\ call[r].op # "getUser"
           /\ found'[r] \in Snapshot /\ call[r].target \in DOMAIN users
    <3>1. ASSUME NEW u \in DOMAIN users, Read(r, u) PROVE found'[r] \in Snapshot
      BY <3>1, SnapshotType DEF Read
    <3> QED
      BY <1>3, <1>4, <1>12, <3>1 DEF Find
  <2>3. /\ call[r].op \in {"getUser"} \cup Change
        /\ call[r].op \in Public \/ call[r].token \in DOMAIN tokens
    BY <1>12 DEF Find, Placed, Waiting
  <2> QED
    BY <1>1, <1>6, <2>1, <2>2, <2>3 DEF Placed, Waiting, Public, Change, Frame
<1>13. CASE Update(r)
  <2>1. /\ call[r].op \in Change /\ found'[r] = found[r] /\ found[r] \in Snapshot
        /\ call[r].op \in Public \/ call[r].token \in DOMAIN tokens
        /\ r \notin DOMAIN tokens /\ tokens' = tokens
    BY <1>13 DEF Update, Placed, Waiting
  <2>2. \/ pc'[r] = "done"
        \/ pc'[r] = "audit" /\ response'[r] = 0 /\ r \in committed'
    BY <1>4, <1>5, <1>13, UpdateEffect
  <2> QED
    BY <1>1, <1>6, <2>1, <2>2
       DEF Placed, Waiting, Public, Audited, Mutation, Change, Frame
<1>14. CASE Audit(r)
  BY <1>4, <1>6, <1>14 DEF Audit, Placed
<1>15. CASE DbError(r)
  BY <1>4, <1>6, <1>15, ReadsNothingWritten DEF DbError, Placed, Reads
<1> QED
  BY <1>7, <1>8, <1>9, <1>10, <1>11, <1>12, <1>13, <1>14, <1>15 DEF Step

----------------------------------------------------------------------------
(* Answers, effects and the audit trail *)

\* How the answer of a request may change in a step that writes no audit row.
Outcome(r) ==
  \/ response'[r] = response[r]
  \/ response'[r] \in 400..499 /\ r \notin committed'
  \/ response'[r] = 500
  \/ /\ response'[r] = 200 /\ call[r].op \in {"me", "getUser"}
     /\ call[r].token \in DOMAIN tokens

LEMMA StepOutcome ==
  ASSUME TypeOK, NEW r \in Request, Placed(r),
         Arrive(r) \/ Step(r) \/ DbError(r), ~Audit(r)
  PROVE  Outcome(r) /\ UNCHANGED <<auditLog, tokens>>
<1> USE DEF TypeOK
<1>1. pc[r] \in {"idle"} \cup Waiting
  BY StepNotDone
<1>2. ASSUME NEW where, Goto(r, where) PROVE response'[r] = response[r]
  BY <1>2 DEF Goto
<1>3. ASSUME NEW code, Answer(r, code) PROVE response'[r] = code
  BY <1>3 DEF Answer
<1>4. Applied(r, "audit") => response'[r] \in {response[r], 500}
  BY <1>2, <1>3 DEF Applied
<1>5. pc[r] # "audit" => r \notin committed
  BY <1>1 DEF Placed, Waiting
<1>6. Reads(r) => UNCHANGED <<auditLog, tokens, committed>>
  BY ReadsNothingWritten
<1>7. CASE Arrive(r)
  <2>1. UNCHANGED <<auditLog, tokens, committed>>
    BY <1>6, <1>7 DEF Reads
  <2>2. response'[r] \in {response[r], 401} /\ r \notin committed
    BY <1>2, <1>3, <1>5, <1>7 DEF Arrive
  <2> QED
    BY <2>1, <2>2 DEF Outcome
<1>8. CASE Authenticate(r)
  <2>1. UNCHANGED <<auditLog, tokens, committed>>
    BY <1>6, <1>8 DEF Reads
  <2>2. r \notin committed'
    BY <1>5, <1>8, <2>1 DEF Authenticate
  <2>3. call[r].token \in DOMAIN tokens
    BY <1>8 DEF Authenticate, Placed, Waiting
  <2>4. \/ response'[r] = response[r]
        \/ response'[r] \in {400, 401, 403}
        \/ response'[r] = 200 /\ call[r].op = "me"
    BY <1>2, <1>3, <1>8 DEF Authenticate, Refuse, Admit, Dispatch
  <2> QED
    <3>1. response'[r] \in {400, 401, 403} => response'[r] \in 400..499
      OBVIOUS
    <3>2. Outcome(r)
      BY <2>2, <2>3, <2>4, <3>1 DEF Outcome
    <3> QED
      BY <2>1, <3>2
<1>9. CASE Lookup(r)
  <2>1. UNCHANGED <<auditLog, tokens, committed>>
    BY <1>6, <1>9 DEF Reads
  <2>2. response'[r] \in {response[r], 401} /\ r \notin committed
    BY <1>2, <1>3, <1>5, <1>9 DEF Lookup
  <2> QED
    BY <2>1, <2>2 DEF Outcome
<1>10. CASE Compare(r)
  <2>1. Answer(r, 401) \/ Answer(r, 403) \/ Goto(r, "audit")
    BY <1>10, Zenon DEF Compare
  <2>2. UNCHANGED <<auditLog, tokens, committed>> /\ r \notin committed
    BY <1>5, <1>6, <1>10 DEF Compare, Reads
  <2>3. response'[r] \in {response[r], 401, 403}
    BY <1>2, <1>3, <2>1
  <2> QED
    BY <2>2, <2>3 DEF Outcome
<1>11. CASE Create(r)
  <2>1. r \notin committed
    BY <1>5, <1>11 DEF Create
  <2> QED
    BY <1>3, <1>4, <1>11, <2>1 DEF Create, Outcome
<1>12. CASE Find(r)
  <2>1. r \notin committed' /\ (call[r].op = "getUser" => call[r].token \in DOMAIN tokens)
    BY <1>5, <1>6, <1>12 DEF Find, Reads, Placed, Waiting, Public
  <2>2. \/ response'[r] \in {response[r], 404}
        \/ response'[r] = 200 /\ call[r].op = "getUser"
    BY <1>2, <1>3, <1>12 DEF Find
  <2> QED
    BY <1>6, <1>12, <2>1, <2>2 DEF Outcome, Reads
<1>13. CASE Update(r)
  <2>1. UNCHANGED <<auditLog, tokens>> /\ r \notin committed
    BY <1>5, <1>13 DEF Update
  <2>2. \/ response'[r] = 409 /\ r \notin committed'
        \/ response'[r] \in {response[r], 500}
    BY <1>3, <1>4, <1>13, <2>1, UpdateEffect
  <2> QED
    BY <2>1, <2>2 DEF Outcome
<1>14. CASE DbError(r)
  <2>1. response'[r] \in {401, 500} /\ (response'[r] = 401 => pc[r] = "authenticate")
    BY <1>3, <1>14 DEF DbError
  <2> QED
    BY <1>5, <1>6, <1>14, <2>1 DEF Outcome, Reads
<1> QED
  BY <1>7, <1>8, <1>9, <1>10, <1>11, <1>12, <1>13, <1>14 DEF Step

\* The audit row of a request that was answered does not change any more.
LEMMA EntryStable ==
  ASSUME Frame, NEW q \in Request, found'[q] = found[q],
         call[q].op \in Public \/ call[q].token \in DOMAIN tokens
  PROVE  AuditEntry(q)' = AuditEntry(q)
<1>1. call' = call
  BY DEF Frame
<1>2. call[q].op \notin Public => Actor(q)' = Actor(q)
  BY <1>1 DEF Frame, Actor
<1>3. AuditUser(q)' = AuditUser(q) /\ EntityId(q)' = EntityId(q)
  BY <1>1, <1>2 DEF AuditUser, EntityId, Public, Creation
<1>4. Before(q)' = Before(q) /\ After(q)' = After(q)
  BY <1>1 DEF Before, After
<1> QED
  BY <1>1, <1>3, <1>4, Zenon DEF AuditEntry

\* Codes of different classes.
LEMMA CodeClasses ==
  /\ \A code \in 400..499 : code \notin {0, 200, 201, 500}
  /\ 0 \notin {200, 201}
  OBVIOUS

\* An audit row is about a request that has been answered.
LEMMA RowsAreDone ==
  ASSUME TypeOK, Recorded, NEW r \in Request, pc[r] # "done"
  PROVE  \A i \in DOMAIN auditLog : auditLog[i].id \in Request \ {r}
<1> TAKE i \in DOMAIN auditLog
<1>1. auditLog[i] \in AuditRow
  BY DEF TypeOK
<1>2. auditLog[i].id \in Request
  BY <1>1 DEF AuditRow
<1> QED
  BY <1>2 DEF Recorded

LEMMA InitRecorded == Init => Recorded
  BY FreshAssumption DEF Init, Recorded, SuccessMeansAudited, RefusedChangedNothing,
     AuditedIsCommitted

LEMMA RecordedKept ==
  ASSUME IInv, NEW r \in Request, Arrive(r) \/ Step(r) \/ DbError(r), ~Audit(r)
  PROVE  Recorded'
<1>. TypeOK /\ Recorded /\ \A q \in Request : Placed(q)
  BY DEF IInv
<1>1. Frame /\ OnlyMoves(r)
  BY StepFrame
<1>2. Outcome(r) /\ UNCHANGED <<auditLog, tokens>>
  BY StepOutcome
<1>3. pc[r] # "done" /\ response[r] = 0
  BY StepNotDone DEF Waiting, Placed
<1>4. \A i \in DOMAIN auditLog : auditLog[i].id \in Request \ {r}
  BY <1>3, RowsAreDone
<1>5. \A i \in DOMAIN auditLog' : pc'[auditLog'[i].id] = "done"
  BY <1>1, <1>2, <1>4 DEF OnlyMoves, Recorded
<1>6. ASSUME NEW q \in Request, response'[q] \in {200, 201}, call'[q].op \notin Public
      PROVE  call'[q].token \in DOMAIN tokens'
  <2>1. CASE q = r
    <3>1. response'[r] = 200 /\ call[r].token \in DOMAIN tokens
      BY <1>2, <1>3, <1>6, <2>1, CodeClasses DEF Outcome
    <3> QED
      BY <1>1, <2>1, <3>1 DEF Frame
  <2>2. CASE q # r
    BY <1>1, <1>6, <2>2 DEF Frame, OnlyMoves, Recorded
  <2> QED
    BY <2>1, <2>2
<1>7. ASSUME NEW q \in Request, response'[q] \in {200, 201}, call'[q].op \in Audited
      PROVE  /\ \E i \in DOMAIN auditLog' : auditLog'[i] = AuditEntry(q)'
             /\ call'[q].op \in Mutation => q \in committed'
  <2>1. q # r
    <3>1. call[r].op \in {"me", "getUser"} => call[r].op \notin Audited
      BY DEF Audited, Mutation, Creation, Change
    <3> QED
      BY <1>1, <1>2, <1>3, <1>7, <3>1, CodeClasses DEF Outcome, Frame
  <2>2. response[q] \in {200, 201} /\ call[q].op \in Audited /\ found'[q] = found[q]
    BY <1>1, <1>7, <2>1 DEF Frame, OnlyMoves
  <2>3. AuditEntry(q)' = AuditEntry(q)
    BY <1>1, <2>2, EntryStable DEF Recorded
  <2> QED
    BY <1>1, <1>2, <2>2, <2>3 DEF SuccessMeansAudited, Recorded, Frame
<1>8. SuccessMeansAudited'
  BY <1>2, <1>7 DEF SuccessMeansAudited, Recorded
<1>9. RefusedChangedNothing'
  <2>1. ASSUME NEW q \in Request, response'[q] \in 400..499
        PROVE  q \notin committed' /\ \A i \in DOMAIN auditLog : auditLog[i].id # q
    <3>1. CASE q = r
      <4>1. r \notin committed'
        BY <1>2, <1>3, <2>1, <3>1, CodeClasses DEF Outcome
      <4> QED
        BY <1>4, <3>1, <4>1
    <3>2. CASE q # r
      BY <1>1, <2>1, <3>2 DEF OnlyMoves, RefusedChangedNothing, Recorded
    <3> QED
      BY <3>1, <3>2
  <2> QED
    BY <1>2, <2>1 DEF RefusedChangedNothing
<1>10. AuditedIsCommitted'
  BY <1>1, <1>2 DEF AuditedIsCommitted, Frame, Recorded
<1> QED
  BY <1>5, <1>6, <1>8, <1>9, <1>10 DEF Recorded

LEMMA RecordedByAudit ==
  ASSUME IInv, NEW r \in Request, Audit(r)
  PROVE  Recorded'
<1>. TypeOK /\ Recorded /\ \A q \in Request : Placed(q)
  BY DEF IInv
<1> DEFINE n == Len(auditLog) + 1
<1>1. Frame /\ OnlyMoves(r)
  BY StepFrame DEF Step
<1>2. pc[r] = "audit" /\ call[r].op \in Audited
  BY DEF Audit, Placed
<1>3. AuditEntry(r) \in AuditRow
  BY <1>2, AuditEntryType
<1>4. /\ DOMAIN auditLog' = DOMAIN auditLog \cup {n} /\ n \notin DOMAIN auditLog
      /\ auditLog'[n] = AuditEntry(r)
      /\ \A i \in DOMAIN auditLog : auditLog'[i] = auditLog[i]
  BY <1>3 DEF Audit, TypeOK
<1>5. AuditEntry(r).id = r /\ AuditEntry(r).action = call[r].op
      /\ AuditEntry(r).userId = AuditUser(r)
  BY DEF AuditEntry
<1>6. \A i \in DOMAIN auditLog : auditLog[i].id \in Request \ {r}
  BY <1>2, RowsAreDone
<1>7. pc'[r] = "done" /\ response'[r] \in {200, 201, 500}
  BY DEF Audit, Answer, SuccessCode, TypeOK
<1>8. call[r].op \in Public \/ call[r].token \in DOMAIN tokens
  BY <1>2 DEF Placed, Waiting
<1>9. call[r].op \in Mutation => r \in committed'
  BY <1>1, <1>2 DEF Placed, Frame
<1>10. \A i \in DOMAIN auditLog' : pc'[auditLog'[i].id] = "done"
  BY <1>1, <1>4, <1>5, <1>6, <1>7 DEF OnlyMoves, Recorded
<1>11. ASSUME NEW q \in Request, response'[q] \in {200, 201}, call'[q].op \notin Public
       PROVE  call'[q].token \in DOMAIN tokens'
  BY <1>1, <1>8, <1>11 DEF Frame, OnlyMoves, Recorded
<1>12. ASSUME NEW q \in Request, response'[q] \in {200, 201}, call'[q].op \in Audited
       PROVE  /\ \E i \in DOMAIN auditLog' : auditLog'[i] = AuditEntry(q)'
              /\ call'[q].op \in Mutation => q \in committed'
  <2>1. CASE q = r
    <3>1. AuditEntry(r)' = AuditEntry(r)
      BY <1>1, <1>8, EntryStable DEF Audit
    <3> QED
      BY <1>1, <1>4, <1>9, <2>1, <3>1 DEF Frame
  <2>2. CASE q # r
    <3>1. response[q] \in {200, 201} /\ call[q].op \in Audited /\ found'[q] = found[q]
      BY <1>1, <1>12, <2>2 DEF Frame, OnlyMoves
    <3>2. AuditEntry(q)' = AuditEntry(q)
      BY <1>1, <3>1, EntryStable DEF Recorded
    <3>3. PICK i \in DOMAIN auditLog : auditLog[i] = AuditEntry(q)
      BY <3>1 DEF SuccessMeansAudited, Recorded
    <3> QED
      BY <1>1, <1>4, <3>1, <3>2, <3>3 DEF SuccessMeansAudited, Recorded, Frame
  <2> QED
    BY <2>1, <2>2
\* The token of a login goes to the account its audit row names.
<1>13. ASSUME NEW t \in DOMAIN tokens' \cap Request
       PROVE  \E i \in DOMAIN auditLog' :
                auditLog'[i].id = t /\ auditLog'[i].userId = tokens'[t].userId
  <2>1. CASE t \in DOMAIN tokens
    <3>1. PICK i \in DOMAIN auditLog :
            auditLog[i].id = t /\ auditLog[i].userId = tokens[t].userId
      BY <2>1 DEF SuccessMeansAudited, Recorded
    <3> QED
      BY <1>1, <1>4, <2>1, <3>1 DEF Frame
  <2>2. CASE t \notin DOMAIN tokens
    <3>1. t = r /\ call[r].op = "login" /\ HandOut(r)
      BY <1>1, <2>2 DEF OnlyMoves, Audit
    <3>2. tokens'[r].userId = found[r].id
      BY <3>1 DEF HandOut
    <3>3. AuditUser(r) = found[r].id
      BY <3>1 DEF AuditUser
    <3> QED
      BY <1>4, <1>5, <3>1, <3>2, <3>3
  <2> QED
    BY <2>1, <2>2
<1>14. SuccessMeansAudited'
  BY <1>12, <1>13 DEF SuccessMeansAudited, Recorded
<1>15. RefusedChangedNothing'
  <2>1. ASSUME NEW q \in Request, response'[q] \in 400..499
        PROVE  q \notin committed' /\ \A i \in DOMAIN auditLog' : auditLog'[i].id # q
    <3>1. q # r
      BY <1>7, <2>1, CodeClasses
    <3>2. q \notin committed /\ \A i \in DOMAIN auditLog : auditLog[i].id # q
      BY <1>1, <2>1, <3>1 DEF OnlyMoves, RefusedChangedNothing, Recorded
    <3> QED
      BY <1>1, <1>4, <1>5, <3>1, <3>2 DEF OnlyMoves
  <2> QED
    BY <2>1 DEF RefusedChangedNothing
<1>16. AuditedIsCommitted'
  BY <1>1, <1>4, <1>5, <1>6, <1>9 DEF AuditedIsCommitted, Frame, Recorded
<1> QED
  BY <1>10, <1>11, <1>14, <1>15, <1>16 DEF Recorded

----------------------------------------------------------------------------
(* Addresses *)

\* What each kind of update does to the two columns that have to agree.
LEMMA UpdatedEmail ==
  ASSUME NEW c, c.op \in Change, NEW row \in Row
  PROVE  \/ /\ Updated(c, row).email = row.email
            /\ Updated(c, row).isDeleted = row.isDeleted
         \/ /\ Updated(c, row).email = Anonymised(c.target)
            /\ Updated(c, row).isDeleted
<1>1. CASE c.op = "updateRole"
  BY <1>1 DEF Updated, Row
<1>2. CASE c.op = "updateStatus"
  BY <1>2 DEF Updated, Row
<1>3. CASE c.op = "deleteUser"
  BY <1>3 DEF Updated, Row
<1> QED
  BY <1>1, <1>2, <1>3 DEF Change

LEMMA CreateEmails ==
  ASSUME TypeOK, EmailsAgree, NEW r \in Request, Placed(r), Create(r)
  PROVE  EmailsAgree'
<1>1. CASE UNCHANGED users
  BY <1>1 DEF EmailsAgree, Consistent, Original, Create
<1>2. CASE ~UNCHANGED users
  <2>1. /\ \A u \in DOMAIN users : users[u].email # call[r].email
        /\ users' = [u \in DOMAIN users \cup {r} |->
                       IF u = r THEN NewRow(call[r]) ELSE users[u]]
        /\ call' = call
    BY <1>2 DEF Create
  <2>2. r \notin DOMAIN users
    BY DEF Create, Placed
  <2>3. NewRow(call[r]).email = call[r].email /\ ~NewRow(call[r]).isDeleted
    BY DEF NewRow
  <2>4. ASSUME NEW u \in DOMAIN users', NEW v \in DOMAIN users',
               users'[u].email = users'[v].email
        PROVE  u = v
    BY <2>1, <2>3, <2>4 DEF EmailsAgree, Consistent
  <2>5. \A u : Original(u)' = Original(u)
    BY <2>1 DEF Original
  <2>6. ASSUME NEW u \in DOMAIN users'
        PROVE  users'[u].email =
                 IF users'[u].isDeleted THEN Anonymised(u) ELSE Original(u).email
    <3>1. CASE u = r
      BY <2>1, <2>3, <3>1 DEF Original
    <3>2. CASE u # r
      BY <2>1, <3>2 DEF EmailsAgree
    <3> QED
      BY <3>1, <3>2
  <2> QED
    BY <2>4, <2>5, <2>6 DEF EmailsAgree, Consistent
<1> QED
  BY <1>1, <1>2

LEMMA UpdateEmails ==
  ASSUME TypeOK, EmailsAgree, NEW r \in Request, Placed(r), Update(r)
  PROVE  EmailsAgree'
<1> DEFINE id == call[r].target
<1>1. CASE UNCHANGED users
  BY <1>1 DEF EmailsAgree, Consistent, Original, Update
<1>2. CASE ~UNCHANGED users
  <2>1. /\ call[r].op \in Change /\ id \in DOMAIN users /\ call' = call
        /\ DOMAIN users' = DOMAIN users
        /\ users'[id] = Updated(call[r], users[id])
        /\ \A u \in DOMAIN users \ {id} :
             users'[u] = users[u] /\ users[u].email # users'[id].email
    BY <1>2, UpdateEffect
  <2>2. users[id] \in Row
    BY <2>1 DEF TypeOK
  <2>3. \/ users'[id].email = users[id].email /\ users'[id].isDeleted = users[id].isDeleted
        \/ users'[id].email = Anonymised(id) /\ users'[id].isDeleted
    BY <2>1, <2>2, UpdatedEmail
  <2>4. ASSUME NEW u \in DOMAIN users, NEW v \in DOMAIN users,
               users'[u].email = users'[v].email
        PROVE  u = v
    BY <2>1, <2>4 DEF EmailsAgree, Consistent
  <2>5. \A u : Original(u)' = Original(u)
    BY <2>1 DEF Original
  <2>6. ASSUME NEW u \in DOMAIN users
        PROVE  users'[u].email =
                 IF users'[u].isDeleted THEN Anonymised(u) ELSE Original(u).email
    BY <2>1, <2>3 DEF EmailsAgree
  <2> QED
    BY <2>1, <2>4, <2>5, <2>6 DEF EmailsAgree, Consistent
<1> QED
  BY <1>1, <1>2

LEMMA StepEmails ==
  ASSUME TypeOK, EmailsAgree, NEW r \in Request, Placed(r),
         Arrive(r) \/ Step(r) \/ DbError(r)
  PROVE  EmailsAgree'
<1>1. CASE Reads(r)
  BY <1>1, ReadsNothingWritten, StepCall DEF EmailsAgree, Consistent, Original
<1>2. CASE Audit(r)
  BY <1>2 DEF Audit, EmailsAgree, Consistent, Original
<1> QED
  BY <1>1, <1>2, CreateEmails, UpdateEmails DEF Step, Reads

----------------------------------------------------------------------------
(* Privilege *)

\* Who has been an administrator is never forgotten.
LEMMA EverAdminMonotone ==
  ASSUME Frame, NEW u, EverAdmin(u)
  PROVE  EverAdmin(u)'
  BY DEF Frame, EverAdmin, GrantsAdmin

LEMMA ActorStable ==
  ASSUME Frame, NEW q \in Request, call[q].token \in DOMAIN tokens
  PROVE  Actor(q)' = Actor(q)
  BY DEF Frame, Actor

\* authenticate lets only administrators through to the handlers that change
\* or read accounts.
LEMMA AdmitGranted ==
  ASSUME IInv, NEW r \in Request, Authenticate(r), pc'[r] \in {"create", "find", "update"}
  PROVE  EverAdmin(Actor(r))
<1>. TypeOK
  BY DEF IInv
<1>1. call[r].op \notin Public /\ call[r].token \in DOMAIN tokens
  BY DEF IInv, Authenticate, Placed, Waiting
<1>2. Actor(r) \in DOMAIN users
  BY <1>1 DEF IInv, Actor
<1>3. ASSUME NEW code, Answer(r, code) PROVE FALSE
  BY <1>3 DEF Answer, TypeOK
<1>4. Admit(r)
  BY <1>3 DEF Authenticate, Refuse
<1>5. call[r].op \notin {"logout", "me"}
  BY <1>3, <1>4 DEF Admit, Dispatch, Goto, TypeOK, Change
<1>6. users[Actor(r)].role = "ADMIN"
  BY <1>4, <1>5 DEF Admit, AllowedRoles, adminOnly
<1> QED
  BY <1>2, <1>6 DEF IInv, Granted

\* A handler past authenticate acts for someone who has been an administrator.
LEMMA HandlerGranted ==
  ASSUME IInv, NEW r \in Request, Arrive(r) \/ Step(r) \/ DbError(r),
         NEW q \in Request, pc'[q] \in {"create", "find", "update"},
         call[q].op \notin Public
  PROVE  EverAdmin(Actor(q)) /\ call[q].token \in DOMAIN tokens
<1>. TypeOK /\ Granted /\ \A p \in Request : Placed(p)
  BY DEF IInv
<1>1. Frame /\ OnlyMoves(r)
  BY StepFrame
<1>2. CASE pc[q] \in {"create", "find", "update"}
  BY <1>2 DEF Granted, Placed, Waiting
<1>3. CASE pc[q] \notin {"create", "find", "update"}
  <2>1. q = r
    BY <1>1, <1>3 DEF OnlyMoves
  <2>2. Authenticate(r)
    <3>1. ASSUME NEW code, Answer(r, code) PROVE FALSE
      BY <2>1, <3>1 DEF Answer, TypeOK
    <3>2. ~Arrive(r)
      BY <2>1, <3>1 DEF Arrive, Goto, TypeOK, Public
    <3>3. ~Lookup(r)
      BY <2>1, <3>1 DEF Lookup, Goto, TypeOK
    <3>4. ~Compare(r)
      <4>1. Compare(r) => Answer(r, 401) \/ Answer(r, 403) \/ Goto(r, "audit")
        BY Zenon DEF Compare
      <4> QED
        BY <2>1, <3>1, <4>1 DEF Goto, TypeOK
    <3>5. ~DbError(r) /\ ~Audit(r)
      BY <2>1, <3>1 DEF DbError, Audit
    <3> QED
      BY <1>3, <2>1, <3>2, <3>3, <3>4, <3>5 DEF Step, Create, Find, Update
  <2> QED
    BY <2>1, <2>2, AdmitGranted DEF Authenticate, Placed, Waiting
<1> QED
  BY <1>2, <1>3

LEMMA UpdatedRole ==
  ASSUME NEW c, c.op \in Change, NEW row \in Row, Updated(c, row).role = "ADMIN"
  PROVE  row.role = "ADMIN" \/ (c.op = "updateRole" /\ c.role = "ADMIN")
<1>1. CASE c.op = "updateRole"
  BY <1>1 DEF Updated, Row
<1>2. CASE c.op = "updateStatus"
  BY <1>2 DEF Updated, Row
<1>3. CASE c.op = "deleteUser"
  BY <1>3 DEF Updated, Row
<1> QED
  BY <1>1, <1>2, <1>3 DEF Change

\* Whoever is an administrator after a step was one before, or the step granted it.
LEMMA AdminsGranted ==
  ASSUME IInv, NEW r \in Request, Arrive(r) \/ Step(r) \/ DbError(r),
         NEW u \in DOMAIN users', users'[u].role = "ADMIN"
  PROVE  EverAdmin(u)'
<1>. TypeOK /\ Granted /\ \A p \in Request : Placed(p)
  BY DEF IInv
<1>1. Frame
  BY StepFrame
<1>2. CASE u \in DOMAIN users /\ users[u].role = "ADMIN"
  BY <1>1, <1>2, EverAdminMonotone DEF Granted
<1>3. CASE ~(u \in DOMAIN users /\ users[u].role = "ADMIN")
  <2>1. ~Reads(r) /\ ~Audit(r)
    BY <1>3, ReadsNothingWritten DEF Audit
  <2>2. CASE Create(r)
    <3>1. u = r /\ users'[r] = NewRow(call[r]) /\ r \in committed'
      BY <1>3, <2>2 DEF Create
    <3>2. call[r].op \in Creation
      BY <2>2 DEF Create, Placed
    <3>3. call[r].op = "createUser" /\ call[r].role = "ADMIN"
      BY <3>1, <3>2 DEF NewRow, Creation
    <3>4. GrantsAdmin(r, u)'
      BY <1>1, <3>1, <3>3 DEF GrantsAdmin, Frame
    <3> QED
      BY <3>4 DEF EverAdmin
  <2>3. CASE Update(r)
    <3>1. call[r].op \in Change /\ call[r].target \in DOMAIN users
      BY <2>3 DEF Update, Placed
    <3>2. /\ u = call[r].target /\ r \in committed'
          /\ Updated(call[r], users[u]).role = "ADMIN"
      BY <1>3, <2>3, UpdateEffect
    <3>3. call[r].op = "updateRole" /\ call[r].role = "ADMIN"
      BY <1>3, <3>1, <3>2, UpdatedRole DEF TypeOK
    <3>4. GrantsAdmin(r, u)'
      BY <1>1, <3>2, <3>3 DEF GrantsAdmin, Frame
    <3> QED
      BY <3>4 DEF EverAdmin
  <2> QED
    BY <2>1, <2>2, <2>3 DEF Step, Reads
<1> QED
  BY <1>2, <1>3

LEMMA StepGranted ==
  ASSUME IInv, NEW r \in Request, Arrive(r) \/ Step(r) \/ DbError(r)
  PROVE  Granted'
<1>1. Frame
  BY StepFrame DEF IInv
<1>2. ASSUME NEW q \in Request, pc'[q] \in {"create", "find", "update"},
             call'[q].op \notin Public
      PROVE  EverAdmin(Actor(q))'
  <2>1. EverAdmin(Actor(q)) /\ call[q].token \in DOMAIN tokens
    BY <1>1, <1>2, HandlerGranted DEF Frame
  <2>2. Actor(q)' = Actor(q)
    BY <1>1, <2>1, ActorStable
  <2>3. EverAdmin(Actor(q))' <=> \/ Actor(q)' \in DOMAIN InitialUsers
                                    /\ InitialUsers[Actor(q)'].role = "ADMIN"
                                 \/ \E g \in Request : GrantsAdmin(g, Actor(q))'
    BY DEF EverAdmin
  <2> QED
    BY <1>1, <2>1, <2>2, <2>3 DEF EverAdmin, GrantsAdmin, Frame
<1> QED
  BY <1>2, AdminsGranted DEF Granted

----------------------------------------------------------------------------
(* The inductive invariant *)

LEMMA InitInv == Init => IInv
<1> SUFFICES ASSUME Init PROVE IInv
  OBVIOUS
<1>1. EmailsAgree
  <2>1. \A u \in DOMAIN users : Original(u) = users[u]
    BY FreshAssumption DEF Init, Original
  <2> QED
    BY <2>1, InitialAssumption DEF Init, EmailsAgree
<1>2. \A t \in DOMAIN tokens : tokens[t].userId \in DOMAIN users
  BY InitialAssumption DEF Init
<1>3. Granted
  BY DEF Init, Granted, EverAdmin
<1> QED
  BY <1>1, <1>2, <1>3, InitType, InitPlaced, InitRecorded DEF IInv

LEMMA StepInv ==
  ASSUME IInv, NEW r \in Request, Arrive(r) \/ Step(r) \/ DbError(r)
  PROVE  IInv'
<1>. TypeOK /\ EmailsAgree /\ \A q \in Request : Placed(q)
  BY DEF IInv
<1>1. Frame /\ OnlyMoves(r)
  BY StepFrame
<1>2. TypeOK'
  BY StepType
<1>3. ASSUME NEW t \in DOMAIN tokens' PROVE tokens'[t].userId \in DOMAIN users'
  <2>1. CASE t \in DOMAIN tokens
    BY <1>1, <2>1 DEF IInv, Frame
  <2>2. CASE t \notin DOMAIN tokens
    <3>1. Audit(r)
      BY <2>2, StepOutcome
    <3>2. t = r /\ call[r].op = "login" /\ tokens'[t].userId = found[r].id
      BY <2>2, <3>1 DEF Audit, HandOut
    <3>3. found[r].id \in DOMAIN users
      BY <3>1, <3>2 DEF Audit, Placed
    <3> QED
      BY <1>1, <3>2, <3>3 DEF Frame
  <2> QED
    BY <2>1, <2>2
<1>4. \A q \in Request : Placed(q)'
  BY <1>1, PlacedOther, PlacedSelf DEF IInv
<1>5. Recorded'
  BY RecordedKept, RecordedByAudit
<1>6. EmailsAgree'
  BY StepEmails
<1>7. Granted'
  BY StepGranted
<1> QED
  BY <1>2, <1>3, <1>4, <1>5, <1>6, <1>7 DEF IInv

\* A crash answers nobody and changes no table.
LEMMA CrashInv ==
  ASSUME IInv, Crash
  PROVE  IInv'
<1>1. TypeOK'
  BY DEF IInv, TypeOK, Crash
<1>2. /\ UNCHANGED <<users, auditLog, tokens, call, found, response, committed>>
      /\ \A q \in Request : pc'[q] = IF pc[q] \in Waiting THEN "lost" ELSE pc[q]
  BY DEF Crash, InFlight
<1>3. ASSUME NEW q \in Request PROVE Placed(q)'
  BY <1>2 DEF IInv, Placed, Waiting
<1>4. Recorded'
  <2>1. \A i \in DOMAIN auditLog : pc[auditLog[i].id] = "done" /\ auditLog[i].id \in Request
    <3>1. \A i \in DOMAIN auditLog : auditLog[i] \in AuditRow
      BY DEF IInv, TypeOK
    <3> QED
      BY <3>1 DEF IInv, Recorded, AuditRow
  <2>2. \A i \in DOMAIN auditLog' : pc'[auditLog'[i].id] = "done"
    BY <1>2, <2>1 DEF Waiting
  <2>3. \A q \in Request : AuditEntry(q)' = AuditEntry(q)
    BY <1>2 DEF AuditEntry, AuditUser, EntityId, Before, After, Actor
  <2>4. SuccessMeansAudited'
    BY <1>2, <2>3 DEF IInv, Recorded, SuccessMeansAudited
  <2>5. RefusedChangedNothing' /\ AuditedIsCommitted'
    BY <1>2 DEF IInv, Recorded, RefusedChangedNothing, AuditedIsCommitted
  <2> QED
    BY <1>2, <2>2, <2>4, <2>5 DEF IInv, Recorded
<1>5. EmailsAgree'
  BY <1>2 DEF IInv, EmailsAgree, Consistent, Original
<1>6. Granted'
  BY <1>2 DEF IInv, Granted, EverAdmin, GrantsAdmin, Actor, Waiting
<1> QED
  BY <1>1, <1>2, <1>3, <1>4, <1>5, <1>6 DEF IInv

LEMMA StutterInv ==
  ASSUME IInv, UNCHANGED vars
  PROVE  IInv'
<1>1. TypeOK'
  BY DEF IInv, TypeOK, vars
<1>2. ASSUME NEW q \in Request PROVE Placed(q)'
  BY DEF IInv, Placed, vars
<1>3. Recorded'
  <2>1. \A q \in Request : AuditEntry(q)' = AuditEntry(q)
    BY DEF vars, AuditEntry, AuditUser, EntityId, Before, After, Actor
  <2> QED
    BY <2>1 DEF IInv, Recorded, SuccessMeansAudited, RefusedChangedNothing,
       AuditedIsCommitted, vars
<1>4. EmailsAgree'
  BY DEF IInv, EmailsAgree, Consistent, Original, vars
<1>5. Granted'
  BY DEF IInv, Granted, EverAdmin, GrantsAdmin, Actor, vars
<1>6. (\A t \in DOMAIN tokens : tokens[t].userId \in DOMAIN users)'
  BY DEF IInv, vars
<1> QED
  BY <1>1, <1>2, <1>3, <1>4, <1>5, <1>6 DEF IInv

LEMMA NextInv == IInv /\ [Next]_vars => IInv'
  BY StepInv, CrashInv, StutterInv DEF Next, Finished

----------------------------------------------------------------------------
(* Theorems *)

(***************************************************************************)
(* Every reachable state satisfies the inductive invariant.                *)
(***************************************************************************)
THEOREM InvariantHolds == Spec => []IInv
  BY InitInv, NextInv, PTL DEF Spec

(***************************************************************************)
(* Types.                                                                  *)
(***************************************************************************)
THEOREM TypeCorrect == Spec => []TypeOK
<1>1. IInv => TypeOK
  BY DEF IInv
<1> QED
  BY <1>1, InvariantHolds, PTL

(***************************************************************************)
(* An address names one account, and a deleted account never gets its      *)
(* address back, whatever updates race with the deletion and whoever has   *)
(* registered under an address of the anonymised form.                     *)
(***************************************************************************)
THEOREM AddressesAgree == Spec => []EmailsAgree
<1>1. IInv => EmailsAgree
  BY DEF IInv
<1> QED
  BY <1>1, InvariantHolds, PTL

(***************************************************************************)
(* A success that a client sees is in the tables and in the audit trail.   *)
(***************************************************************************)
THEOREM SuccessIsAudited == Spec => []SuccessMeansAudited
<1>1. IInv => SuccessMeansAudited
  BY DEF IInv, Recorded
<1> QED
  BY <1>1, InvariantHolds, PTL

(***************************************************************************)
(* A refusal that a client sees has changed nothing.                       *)
(***************************************************************************)
THEOREM RefusalChangesNothing == Spec => []RefusedChangedNothing
<1>1. IInv => RefusedChangedNothing
  BY DEF IInv, Recorded
<1> QED
  BY <1>1, InvariantHolds, PTL

(***************************************************************************)
(* The audit trail holds nothing that did not happen, and nothing twice.   *)
(***************************************************************************)
THEOREM AuditIsGenuine == Spec => []AuditedIsCommitted
<1>1. IInv => AuditedIsCommitted
  BY DEF IInv, Recorded
<1> QED
  BY <1>1, InvariantHolds, PTL

\* A mutation takes effect only in the two steps that write the users table.
LEMMA CommitGranted ==
  ASSUME IInv, NEW r \in Request, Arrive(r) \/ Step(r) \/ DbError(r),
         NEW q \in committed' \ committed, call[q].op # "register"
  PROVE  EverAdmin(Actor(q))
<1>. TypeOK /\ Granted /\ \A p \in Request : Placed(p)
  BY DEF IInv
<1>1. q = r
  BY StepFrame DEF OnlyMoves
<1>2. Create(r) \/ Update(r)
  BY ReadsNothingWritten DEF Step, Reads, Audit
<1>3. pc[r] \in {"create", "update"} /\ call[r].op \notin Public
  BY <1>1, <1>2 DEF Create, Update, Placed, Creation, Change, Public
<1> QED
  BY <1>1, <1>3 DEF Granted

(***************************************************************************)
(* Privilege comes only from privilege, whatever the tokens claim.         *)
(***************************************************************************)
THEOREM PrivilegeFromPrivilege == Spec => NoEscalation
<1> DEFINE Step_ ==
      /\ \A r \in committed' \ committed : call[r].op # "register" => EverAdmin(Actor(r))
      /\ \A u \in DOMAIN users' : users'[u].role = "ADMIN" => EverAdmin(u)'
<1>1. ASSUME IInv, [Next]_vars PROVE Step_
  <2>1. \A u \in DOMAIN users' : users'[u].role = "ADMIN" => EverAdmin(u)'
    BY <1>1, NextInv DEF IInv, Granted
  <2>2. \A r \in committed' \ committed : call[r].op # "register" => EverAdmin(Actor(r))
    <3>1. Crash \/ UNCHANGED vars => committed' = committed
      BY DEF Crash, vars
    <3> QED
      BY <1>1, <3>1, CommitGranted DEF Next, Finished
  <2> QED
    BY <2>1, <2>2
<1>2. IInv /\ [Next]_vars => Step_
  BY <1>1
<1> QED
  BY <1>2, InvariantHolds, PTL DEF Spec, NoEscalation

\* What remains true of a request that was made for a deleted account: it waits
\* to be refused, or it is over without an effect.
ShutOut(r) ==
  \/ FromDeleted(r)
  \/ pc[r] \in {"done", "lost"} /\ r \notin committed

LEMMA ShutOutStep ==
  ASSUME IInv, NEW q \in Request, ShutOut(q), NEW r \in Request,
         Arrive(r) \/ Step(r) \/ DbError(r)
  PROVE  ShutOut(q)'
<1>. TypeOK /\ \A p \in Request : Placed(p)
  BY DEF IInv
<1>1. Frame /\ OnlyMoves(r)
  BY StepFrame
<1>2. CASE pc[q] \in {"done", "lost"} /\ q \notin committed
  <2>1. q # r
    BY <1>2, StepNotDone DEF Waiting
  <2> QED
    BY <1>1, <1>2, <2>1 DEF OnlyMoves, ShutOut
<1>3. CASE FromDeleted(q)
  <2>1. /\ pc[q] \in {"idle", "authenticate"} /\ call[q].op \notin Public
        /\ call[q].token \in DOMAIN tokens /\ users[Actor(q)].isDeleted
        /\ Actor(q) \in DOMAIN users /\ q \notin committed
    BY <1>3 DEF FromDeleted, IInv, Placed, Actor
  <2>2. /\ call'[q].op \notin Public /\ call'[q].token \in DOMAIN tokens'
        /\ Actor(q)' = Actor(q) /\ users'[Actor(q)].isDeleted
    BY <1>1, <2>1, ActorStable DEF Frame
  <2>3. CASE q # r
    BY <1>1, <2>1, <2>2, <2>3 DEF OnlyMoves, ShutOut, FromDeleted
  <2>4. CASE q = r
    <3>1. Arrive(r) \/ Authenticate(r) \/ DbError(r)
      BY <2>1, <2>4 DEF Step, Lookup, Compare, Create, Find, Update, Audit
    <3>2. r \notin committed'
      BY <2>1, <2>4, <3>1, ReadsNothingWritten DEF Reads
    <3>3. pc'[r] \in {"done", "authenticate"}
      BY <2>1, <2>4, <3>1
         DEF Arrive, Authenticate, Refuse, Admit, DbError, Answer, Goto, TypeOK, Public
    <3> QED
      BY <2>2, <2>4, <3>2, <3>3 DEF ShutOut, FromDeleted
  <2> QED
    BY <2>3, <2>4
<1> QED
  BY <1>2, <1>3 DEF ShutOut

(***************************************************************************)
(* Deletion is final: no request that is made with a token of a deleted    *)
(* account, or that authenticate has not let through yet when the account  *)
(* is deleted, ever takes effect.                                          *)
(***************************************************************************)
THEOREM DeletionIsFinal == Spec => DeletedStaysOut
<1> SUFFICES ASSUME NEW r \in Request
             PROVE  Spec => [](FromDeleted(r) => [](r \notin committed))
  BY DEF DeletedStaysOut
<1>1. FromDeleted(r) => ShutOut(r)
  BY DEF ShutOut
<1>2. IInv /\ ShutOut(r) => r \notin committed
  BY DEF ShutOut, FromDeleted, IInv, Placed
<1>3. IInv /\ ShutOut(r) /\ [Next]_vars => ShutOut(r)'
  <2> SUFFICES ASSUME IInv, ShutOut(r), [Next]_vars PROVE ShutOut(r)'
    OBVIOUS
  <2>1. CASE Crash
    BY <2>1 DEF Crash, InFlight, ShutOut, FromDeleted, Actor, Waiting, IInv, Placed
  <2>2. CASE UNCHANGED vars
    BY <2>2 DEF vars, ShutOut, FromDeleted, Actor
  <2> QED
    BY <2>1, <2>2, ShutOutStep DEF Next, Finished
<1> QED
  BY <1>1, <1>2, <1>3, InvariantHolds, PTL DEF Spec
----------------------------------------------------------------------------
(* The history of a row *)

\* A change that took effect has a row to show it.
Targets == \A q \in committed : call[q].op \in Change => call[q].target \in DOMAIN users

\* What a change has read of its target was there, and not through that change.
ReadWasThere(r) ==
  pc[r] \in {"update", "audit"} =>
    /\ call[r].op = "updateRole" => found[r].role \in HadWithout(r, call[r].target, "role")
    /\ call[r].op = "updateStatus" => found[r].status \in HadWithout(r, call[r].target, "status")

\* NoChangeLost and BeforeWasThere, with what makes them inductive.
History ==
  /\ Targets
  /\ NoChangeLost
  /\ \A r \in Request : ReadWasThere(r)
  /\ BeforeWasThere

LEMMA InitHistory == Init => History
<1> SUFFICES ASSUME Init PROVE History
  OBVIOUS
<1>1. \A u \in DOMAIN users, column \in Column :
        Changes(u, column) = {} /\ users[u][column] = Original(u)[column]
  BY FreshAssumption DEF Init, Changes, Original
<1>2. NoChangeLost
  BY <1>1 DEF NoChangeLost
<1> QED
  BY <1>2 DEF Init, History, Targets, ReadWasThere, BeforeWasThere

\* The three columns of an updated row.
LEMMA UpdatedColumns ==
  ASSUME NEW c, c.op \in Change, NEW row \in Row, NEW column \in Column
  PROVE  Updated(c, row)[column] =
           IF SetsColumn(c, column) THEN ValueSet(c, column) ELSE row[column]
<1>1. CASE c.op = "updateRole"
  <2>1. Updated(c, row) = [row EXCEPT !.role = c.role]
    BY <1>1 DEF Updated
  <2>2. /\ Updated(c, row)["role"] = c.role
        /\ Updated(c, row)["status"] = row["status"]
        /\ Updated(c, row)["isDeleted"] = row["isDeleted"]
    BY <2>1 DEF Row
  <2> QED
    BY <1>1, <2>2 DEF SetsColumn, ValueSet, Column
<1>2. CASE c.op = "updateStatus"
  <2>1. Updated(c, row) = [row EXCEPT !.status = c.status]
    BY <1>2 DEF Updated
  <2>2. /\ Updated(c, row)["role"] = row["role"]
        /\ Updated(c, row)["status"] = c.status
        /\ Updated(c, row)["isDeleted"] = row["isDeleted"]
    BY <2>1 DEF Row
  <2>3. ValueSet(c, column) = c.status
    BY <1>2 DEF ValueSet
  <2> QED
    BY <1>2, <2>2, <2>3 DEF SetsColumn, Column
<1>3. CASE c.op = "deleteUser"
  <2>1. Updated(c, row) =
          [row EXCEPT !.isDeleted = TRUE, !.status = "INACTIVE", !.email = Anonymised(c.target)]
    BY <1>3 DEF Updated
  <2>2. /\ Updated(c, row)["role"] = row["role"]
        /\ Updated(c, row)["status"] = "INACTIVE"
        /\ Updated(c, row)["isDeleted"] = TRUE
    BY <2>1 DEF Row
  <2>3. ValueSet(c, "status") = "INACTIVE" /\ ValueSet(c, "isDeleted") = TRUE
    BY <1>3 DEF ValueSet
  <2> QED
    BY <1>3, <2>2, <2>3 DEF SetsColumn, Column
<1> QED
  BY <1>1, <1>2, <1>3 DEF Change

LEMMA OriginalStable ==
  ASSUME call' = call, NEW u
  PROVE  Original(u)' = Original(u)
  BY DEF Original

LEMMA CreateKeepsChanges ==
  ASSUME IInv, Targets, NoChangeLost, NEW r \in Request, Create(r)
  PROVE  Targets' /\ NoChangeLost'
<1>. TypeOK /\ Placed(r)
  BY DEF IInv
<1>1. call' = call /\ call[r].op \in Creation
  BY DEF Create, Placed
<1>2. CASE UNCHANGED <<users, committed>>
  BY <1>1, <1>2 DEF Targets, NoChangeLost, Changes, Original
<1>3. CASE ~UNCHANGED <<users, committed>>
  <2>1. /\ users' = [u \in DOMAIN users \cup {r} |->
                       IF u = r THEN NewRow(call[r]) ELSE users[u]]
        /\ committed' = committed \cup {r}
    BY <1>3 DEF Create
  <2>2. r \notin DOMAIN users /\ call[r].op \notin Change
    BY <1>1 DEF Create, Placed, Creation, Change
  <2>3. \A u, column : Changes(u, column)' = Changes(u, column)
    BY <1>1, <2>1, <2>2 DEF Changes
  <2>4. \A column : Changes(r, column) = {}
    BY <2>2 DEF Changes, Targets
  <2>5. Targets'
    BY <1>1, <2>1, <2>2 DEF Targets
  <2>6. ASSUME NEW u \in DOMAIN users', NEW column \in Column
        PROVE  IF Changes(u, column) = {}
               THEN users'[u][column] = Original(u)[column]
               ELSE \E q \in Changes(u, column) :
                      users'[u][column] = ValueSet(call[q], column)
    <3>1. CASE u = r
      BY <2>1, <2>4, <3>1 DEF Original
    <3>2. CASE u # r
      BY <2>1, <3>2 DEF NoChangeLost
    <3> QED
      BY <3>1, <3>2
  <2> QED
    BY <1>1, <2>3, <2>5, <2>6, OriginalStable DEF NoChangeLost
<1> QED
  BY <1>2, <1>3

LEMMA UpdateKeepsChanges ==
  ASSUME IInv, Targets, NoChangeLost, NEW r \in Request, Update(r)
  PROVE  Targets' /\ NoChangeLost'
<1>. TypeOK /\ Placed(r)
  BY DEF IInv
<1> DEFINE id == call[r].target
<1>1. call' = call /\ call[r].op \in Change /\ id \in DOMAIN users
  BY UpdateEffect
<1>2. CASE UNCHANGED <<users, committed>>
  BY <1>1, <1>2 DEF Targets, NoChangeLost, Changes, Original
<1>3. CASE ~UNCHANGED <<users, committed>>
  <2>1. /\ committed' = committed \cup {r}
        /\ DOMAIN users' = DOMAIN users
        /\ users'[id] = Updated(call[r], users[id])
        /\ \A u \in DOMAIN users \ {id} : users'[u] = users[u]
    BY <1>3, UpdateEffect
  <2>2. Targets'
    BY <1>1, <2>1 DEF Targets
  <2>3. ASSUME NEW u \in DOMAIN users, NEW column \in Column
        PROVE  IF Changes(u, column)' = {}
               THEN users'[u][column] = Original(u)[column]
               ELSE \E q \in Changes(u, column)' :
                      users'[u][column] = ValueSet(call[q], column)
    <3>1. CASE u = id /\ SetsColumn(call[r], column)
      <4>1. users'[u][column] = ValueSet(call[r], column)
        BY <1>1, <2>1, <3>1, UpdatedColumns DEF TypeOK
      <4>2. r \in Changes(u, column)'
        BY <1>1, <2>1, <3>1 DEF Changes
      <4> QED
        BY <4>1, <4>2
    <3>2. CASE ~(u = id /\ SetsColumn(call[r], column))
      <4>1. users'[u][column] = users[u][column]
        BY <1>1, <2>1, <3>2, UpdatedColumns DEF TypeOK
      <4>2. Changes(u, column)' = Changes(u, column)
        BY <1>1, <2>1, <3>2 DEF Changes
      <4> QED
        BY <4>1, <4>2 DEF NoChangeLost
    <3> QED
      BY <3>1, <3>2
  <2> QED
    BY <1>1, <2>1, <2>2, <2>3, OriginalStable DEF NoChangeLost
<1> QED
  BY <1>2, <1>3

LEMMA StepKeepsChanges ==
  ASSUME IInv, Targets, NoChangeLost, NEW r \in Request, Arrive(r) \/ Step(r) \/ DbError(r)
  PROVE  Targets' /\ NoChangeLost'
<1>1. CASE Reads(r) \/ Audit(r)
  <2>1. UNCHANGED <<users, committed, call>>
    BY <1>1, ReadsNothingWritten, StepCall DEF Audit
  <2> QED
    BY <2>1 DEF Targets, NoChangeLost, Changes, Original
<1> QED
  BY <1>1, CreateKeepsChanges, UpdateKeepsChanges DEF Step, Reads

\* What an account has had, it has had.
LEMMA HadGrows ==
  ASSUME call' = call, committed \subseteq committed', NEW r, NEW u, NEW column
  PROVE  HadWithout(r, u, column) \subseteq HadWithout(r, u, column)'
<1>1. Original(u)' = Original(u)
  BY OriginalStable
<1>2. Changes(u, column) \subseteq Changes(u, column)'
  BY DEF Changes
<1> QED
  BY <1>1, <1>2 DEF HadWithout

\* A value that a request reads before it has changed anything is one of them.
LEMMA HadNow ==
  ASSUME NoChangeLost, NEW r, r \notin committed, NEW u \in DOMAIN users, NEW column \in Column
  PROVE  users[u][column] \in HadWithout(r, u, column)
<1>1. Changes(u, column) \ {r} = Changes(u, column)
  BY DEF Changes
<1> QED
  BY <1>1 DEF NoChangeLost, HadWithout

LEMMA StepReadWasThere ==
  ASSUME IInv, NoChangeLost, NEW q \in Request, ReadWasThere(q),
         NEW r \in Request, Arrive(r) \/ Step(r) \/ DbError(r)
  PROVE  ReadWasThere(q)'
<1>. TypeOK /\ \A p \in Request : Placed(p)
  BY DEF IInv
<1>1. Frame /\ OnlyMoves(r)
  BY StepFrame
<1>2. \A u, column : HadWithout(q, u, column) \subseteq HadWithout(q, u, column)'
  BY <1>1, HadGrows DEF Frame
<1>3. CASE pc[q] \in {"update", "audit"} /\ found'[q] = found[q]
  BY <1>1, <1>2, <1>3 DEF ReadWasThere, Frame
<1>4. CASE ~(pc[q] \in {"update", "audit"} /\ found'[q] = found[q])
  <2>1. CASE q # r
    BY <1>1, <1>4, <2>1 DEF OnlyMoves, ReadWasThere
  <2>2. CASE Find(r) /\ q = r
    <3>1. r \notin committed /\ call' = call
      BY <2>2 DEF Find, Placed
    <3>2. CASE Answer(r, 404) \/ Answer(r, 200)
      BY <2>2, <3>2 DEF Answer, ReadWasThere, TypeOK
    <3>3. CASE ~(Answer(r, 404) \/ Answer(r, 200))
      <4>1. call[r].target \in DOMAIN users /\ Read(r, call[r].target)
        BY <2>2, <3>3 DEF Find
      <4>2. /\ found'[r].role = users[call[r].target]["role"]
            /\ found'[r].status = users[call[r].target]["status"]
        BY <4>1 DEF Read, SnapshotOf, TypeOK
      <4>3. /\ found'[r].role \in HadWithout(r, call[r].target, "role")
            /\ found'[r].status \in HadWithout(r, call[r].target, "status")
        BY <3>1, <4>1, <4>2, HadNow DEF Column
      <4> QED
        BY <1>2, <2>2, <3>1, <4>3 DEF ReadWasThere
    <3> QED
      BY <3>2, <3>3
  <2>3. CASE ~Find(r) /\ q = r
    <3>1. call[r].op \in {"updateRole", "updateStatus"} =>
            pc'[r] \notin {"update", "audit"} \/ Update(r) \/ Audit(r)
      <4>1. Compare(r) => call[r].op = "login"
        BY DEF Compare, Placed
      <4>2. Create(r) => call[r].op \in Creation
        BY DEF Create, Placed
      <4>3. Arrive(r) \/ Authenticate(r) \/ Lookup(r) \/ DbError(r) =>
              pc'[r] \notin {"update", "audit"} \/ call[r].op = "logout"
        BY DEF Arrive, Authenticate, Refuse, Admit, Dispatch, Lookup, DbError, Goto, Answer,
               TypeOK
      <4> QED
        BY <2>3, <4>1, <4>2, <4>3 DEF Step, Creation
    <3>2. Update(r) \/ Audit(r) => pc[r] \in {"update", "audit"} /\ found'[r] = found[r]
      BY DEF Update, Audit
    <3> QED
      BY <1>1, <1>4, <2>3, <3>1, <3>2 DEF ReadWasThere, Frame
  <2> QED
    BY <2>1, <2>2, <2>3
<1> QED
  BY <1>3, <1>4

LEMMA StepBeforeWasThere ==
  ASSUME IInv, History, NEW r \in Request, Arrive(r) \/ Step(r) \/ DbError(r)
  PROVE  BeforeWasThere'
<1>. TypeOK /\ \A p \in Request : Placed(p)
  BY DEF IInv
<1>1. Frame
  BY StepFrame
<1>2. \A id, u, column : HadWithout(id, u, column) \subseteq HadWithout(id, u, column)'
  BY <1>1, HadGrows DEF Frame
<1>3. ASSUME NEW entry,
             entry.action = "updateRole" =>
               entry.before \in HadWithout(entry.id, entry.entityId, "role"),
             entry.action = "updateStatus" =>
               entry.before \in HadWithout(entry.id, entry.entityId, "status")
      PROVE  /\ entry.action = "updateRole" =>
                  entry.before \in HadWithout(entry.id, entry.entityId, "role")'
             /\ entry.action = "updateStatus" =>
                  entry.before \in HadWithout(entry.id, entry.entityId, "status")'
  BY <1>2, <1>3
<1>4. CASE ~Audit(r)
  <2>1. auditLog' = auditLog
    BY <1>4, StepOutcome
  <2> QED
    BY <1>3, <2>1 DEF History, BeforeWasThere
<1>5. CASE Audit(r)
  <2> DEFINE n == Len(auditLog) + 1
             row == AuditEntry(r)
  <2>1. row \in AuditRow /\ auditLog' = Append(auditLog, row) /\ pc[r] = "audit"
    BY <1>5, AuditEntryType DEF Audit
  <2>2. /\ DOMAIN auditLog' = DOMAIN auditLog \cup {n}
        /\ auditLog'[n] = row
        /\ \A i \in DOMAIN auditLog : auditLog'[i] = auditLog[i]
    BY <2>1 DEF TypeOK
  <2>3. row.action \in {"updateRole", "updateStatus"} =>
          /\ call[r].op = row.action /\ row.id = r /\ row.entityId = call[r].target
          /\ row.before = IF row.action = "updateRole" THEN found[r].role
                                                       ELSE found[r].status
    BY DEF AuditEntry, EntityId, Before, Creation
  <2> HIDE DEF row, n
  <2>4. /\ row.action = "updateRole" =>
             row.before \in HadWithout(row.id, row.entityId, "role")
        /\ row.action = "updateStatus" =>
             row.before \in HadWithout(row.id, row.entityId, "status")
    BY <2>1, <2>3 DEF History, ReadWasThere
  <2>5. \A i \in DOMAIN auditLog' :
          LET entry == auditLog'[i] IN
          /\ entry.action = "updateRole" =>
               entry.before \in HadWithout(entry.id, entry.entityId, "role")
          /\ entry.action = "updateStatus" =>
               entry.before \in HadWithout(entry.id, entry.entityId, "status")
    BY <2>2, <2>4 DEF History, BeforeWasThere
  <2> QED
    BY <1>3, <2>5 DEF BeforeWasThere
<1> QED
  BY <1>4, <1>5

LEMMA NextHistory == IInv /\ History /\ [Next]_vars => History'
<1> SUFFICES ASSUME IInv, History, [Next]_vars PROVE History'
  OBVIOUS
<1>1. CASE Crash \/ UNCHANGED vars
  <2>1. UNCHANGED <<users, auditLog, call, found, committed>>
    BY <1>1 DEF Crash, vars
  <2>2. \A r \in Request : pc'[r] \in {"update", "audit"} => pc'[r] = pc[r]
    BY <1>1 DEF Crash, vars, IInv, TypeOK
  <2> QED
    BY <2>1, <2>2 DEF History, Targets, NoChangeLost, ReadWasThere, BeforeWasThere,
                      Changes, HadWithout, Original
<1>2. ASSUME NEW r \in Request, Arrive(r) \/ Step(r) \/ DbError(r)
      PROVE  History'
  <2>1. Targets' /\ NoChangeLost'
    BY <1>2, StepKeepsChanges DEF History
  <2>2. \A q \in Request : ReadWasThere(q)'
    BY <1>2, StepReadWasThere DEF History
  <2>3. BeforeWasThere'
    BY <1>2, StepBeforeWasThere
  <2> QED
    BY <2>1, <2>2, <2>3 DEF History
<1> QED
  BY <1>1, <1>2 DEF Next, Finished

LEMMA HistoryHolds == Spec => []History
  BY InitHistory, NextHistory, InvariantHolds, PTL DEF Spec

(***************************************************************************)
(* No change that took effect is lost to another one that overlaps with    *)
(* it, unless both set the same column.                                    *)
(***************************************************************************)
THEOREM ChangesKept == Spec => []NoChangeLost
<1>1. History => NoChangeLost
  BY DEF History
<1> QED
  BY <1>1, HistoryHolds, PTL

(***************************************************************************)
(* The value before a change, as the audit trail has it, is one that the   *)
(* account has had without that change.                                    *)
(***************************************************************************)
THEOREM AuditedBeforeWasThere == Spec => []BeforeWasThere
<1>1. History => BeforeWasThere
  BY DEF History
<1> QED
  BY <1>1, HistoryHolds, PTL

----------------------------------------------------------------------------
(* Who can lock everybody out *)

TakenOut(u) ==
  \E q \in committed : call[q].op \in Change /\ call[q].target = u /\ TakesOut(call[q])

\* Whoever asked for a change that is under way is an active administrator, or
\* was one until another change made something else of them.
Backed(r) ==
  pc[r] \in {"find", "update"} /\ call[r].op \in Change =>
    ~OwnAccount(r) /\ (ActiveAdmin(Actor(r)) \/ TakenOut(Actor(r)))

LEMMA UpdatedTakesOut ==
  ASSUME NEW c, c.op \in Change, NEW row \in Row, ~TakesOut(c),
         row.role = "ADMIN", row.status = "ACTIVE", ~row.isDeleted
  PROVE  LET new == Updated(c, row) IN
         new.role = "ADMIN" /\ new.status = "ACTIVE" /\ ~new.isDeleted
<1>1. CASE c.op = "updateRole"
  BY <1>1 DEF Updated, Row, TakesOut
<1>2. CASE c.op = "updateStatus"
  BY <1>2 DEF Updated, Row, TakesOut
<1> QED
  BY <1>1, <1>2 DEF Change, TakesOut

\* An active administrator stays one, or is taken out by a change.
LEMMA AdminStays ==
  ASSUME IInv, NEW r \in Request, Arrive(r) \/ Step(r) \/ DbError(r),
         NEW u \in DOMAIN users, ActiveAdmin(u)
  PROVE  ActiveAdmin(u)' \/ TakenOut(u)'
<1>. TypeOK /\ Placed(r)
  BY DEF IInv
<1>1. CASE users'[u] = users[u]
  BY <1>1 DEF ActiveAdmin
<1>2. CASE users'[u] # users[u]
  <2>1. Update(r)
    <3>1. ~Create(r)
      BY <1>2 DEF Create, Placed
    <3> QED
      BY <1>2, <3>1, ReadsNothingWritten DEF Step, Reads, Audit
  <2>2. /\ u = call[r].target /\ call[r].op \in Change /\ r \in committed' /\ call' = call
        /\ users'[u] = Updated(call[r], users[u])
    BY <1>2, <2>1, UpdateEffect
  <2>3. CASE TakesOut(call[r])
    BY <2>2, <2>3 DEF TakenOut
  <2>4. CASE ~TakesOut(call[r])
    BY <2>2, <2>4, UpdatedTakesOut DEF ActiveAdmin, TypeOK
  <2> QED
    BY <2>3, <2>4
<1> QED
  BY <1>1, <1>2

LEMMA AdmitBacked ==
  ASSUME IInv, NEW r \in Request, Authenticate(r), pc'[r] = "find", call[r].op \in Change
  PROVE  ~OwnAccount(r) /\ ActiveAdmin(Actor(r))
<1>. TypeOK
  BY DEF IInv
<1>1. Admit(r)
  BY DEF Authenticate, Refuse, Answer, TypeOK
<1>2. ~OwnAccount(r)
  BY <1>1 DEF Admit, Dispatch, Goto, Answer, TypeOK
<1>3. ActiveAdmin(Actor(r))
  BY <1>1 DEF Admit, AllowedRoles, adminOnly, ActiveAdmin, Change
<1> QED
  BY <1>2, <1>3

LEMMA StepBacked ==
  ASSUME IInv, NEW q \in Request, Backed(q), NEW r \in Request, Arrive(r) \/ Step(r) \/ DbError(r)
  PROVE  Backed(q)'
<1>. TypeOK /\ \A p \in Request : Placed(p)
  BY DEF IInv
<1>1. Frame /\ OnlyMoves(r)
  BY StepFrame
<1> SUFFICES ASSUME pc'[q] \in {"find", "update"}, call[q].op \in Change
             PROVE  ~OwnAccount(q)' /\ (ActiveAdmin(Actor(q))' \/ TakenOut(Actor(q))')
  BY <1>1 DEF Backed, Frame
<1>2. pc[q] \in {"authenticate", "find", "update"}
  <2>1. CASE q # r
    BY <1>1, <2>1 DEF OnlyMoves
  <2>2. CASE q = r
    <3>1. call[r].op \notin Public
      BY <2>2 DEF Change, Public
    <3>2. ~(Arrive(r) \/ Lookup(r) \/ Create(r) \/ Audit(r) \/ DbError(r))
      BY <2>2, <3>1 DEF Arrive, Lookup, Create, Placed, Creation, Change, Audit, DbError, Goto,
                        Answer, TypeOK
    <3>3. ~Compare(r)
      BY <2>2, <3>1 DEF Compare, Placed, Public
    <3> QED
      BY <2>2, <3>2, <3>3 DEF Step, Authenticate, Find, Update
  <2> QED
    BY <2>1, <2>2
<1>3. call[q].token \in DOMAIN tokens /\ Actor(q) \in DOMAIN users
  BY <1>2 DEF Placed, Waiting, Change, Public, IInv, Actor
<1>4. Actor(q)' = Actor(q) /\ OwnAccount(q)' = OwnAccount(q)
  BY <1>1, <1>3, ActorStable DEF OwnAccount, Frame
<1>5. ~OwnAccount(q) /\ (ActiveAdmin(Actor(q)) \/ TakenOut(Actor(q)))
  <2>1. CASE pc[q] \in {"find", "update"}
    BY <2>1 DEF Backed
  <2>2. CASE pc[q] = "authenticate"
    <3>1. q = r /\ ~Arrive(r) /\ ~DbError(r)
      BY <1>1, <2>2 DEF OnlyMoves, Arrive, DbError, Answer, TypeOK
    <3>2. Authenticate(r)
      BY <2>2, <3>1 DEF Step, Lookup, Compare, Create, Find, Update, Audit
    <3>3. pc'[q] = "find"
      BY <3>1, <3>2 DEF Authenticate, Refuse, Admit, Dispatch, Goto, Answer, TypeOK
    <3> QED
      BY <3>1, <3>2, <3>3, AdmitBacked
  <2> QED
    BY <1>2, <2>1, <2>2
<1>6. TakenOut(Actor(q)) => TakenOut(Actor(q))'
  BY <1>1, <1>4 DEF TakenOut, Frame
<1>7. ActiveAdmin(Actor(q)) => ActiveAdmin(Actor(q))' \/ TakenOut(Actor(q))'
  <2> DEFINE a == Actor(q)
  <2>1. ActiveAdmin(a) => (users'[a].role = "ADMIN" /\ users'[a].status = "ACTIVE"
                           /\ ~users'[a].isDeleted)
                          \/ \E p \in committed' : call'[p].op \in Change
                                   /\ call'[p].target = a /\ TakesOut(call'[p])
    BY <1>3, AdminStays DEF ActiveAdmin, TakenOut
  <2> QED
    BY <1>4, <2>1 DEF ActiveAdmin, TakenOut
<1> QED
  BY <1>4, <1>5, <1>6, <1>7

LEMMA BackedHolds == Spec => [](\A r \in Request : Backed(r))
<1> DEFINE All == \A r \in Request : Backed(r)
<1>1. Init => All
  BY DEF Init, Backed
<1>2. IInv /\ All /\ [Next]_vars => All'
  <2> SUFFICES ASSUME IInv, All, [Next]_vars PROVE All'
    OBVIOUS
  <2>1. CASE Crash \/ UNCHANGED vars
    <3>1. UNCHANGED <<users, tokens, call, committed>>
      BY <2>1 DEF Crash, vars
    <3>2. \A r \in Request : pc'[r] \in {"find", "update"} => pc'[r] = pc[r]
      BY <2>1 DEF Crash, vars, IInv, TypeOK
    <3> QED
      BY <3>1, <3>2 DEF Backed, OwnAccount, ActiveAdmin, TakenOut, Actor
  <2>2. ASSUME NEW r \in Request, Arrive(r) \/ Step(r) \/ DbError(r)
        PROVE  All'
    BY <2>2, StepBacked
  <2> QED
    BY <2>1, <2>2 DEF Next, Finished
<1> QED
  BY <1>1, <1>2, InvariantHolds, PTL DEF Spec

\* A mutation takes effect in the create or the update of its own request.
LEMMA WhoCommits ==
  ASSUME IInv, [Next]_vars, NEW r \in committed' \ committed
  PROVE  r \in Request /\ (Create(r) \/ Update(r))
<1> SUFFICES ASSUME Next PROVE r \in Request /\ (Create(r) \/ Update(r))
  BY DEF vars
<1>1. PICK q \in Request : Arrive(q) \/ Step(q) \/ DbError(q)
  BY DEF Next, Crash, Finished, vars
<1>2. q = r
  BY <1>1, StepFrame DEF OnlyMoves, IInv
<1> QED
  BY <1>1, <1>2 DEF Step, Arrive, Authenticate, Lookup, Compare, Find, Audit, DbError, db

(***************************************************************************)
(* It takes two to lock everybody out, whatever overlaps, fails or is      *)
(* started again: one who deletes the last active administrator has been   *)
(* taken out by another request while that deletion was under way.         *)
(***************************************************************************)
THEOREM LockoutNeedsTwo == Spec => LockoutTakesTwo
<1> DEFINE All == \A r \in Request : Backed(r)
           P == \A r \in committed' \ committed :
                  /\ call[r].op = "deleteUser"
                  /\ \E u \in DOMAIN users : ActiveAdmin(u)
                  /\ \A u \in DOMAIN users' : ~ActiveAdmin(u)'
                  => /\ ~ActiveAdmin(Actor(r))
                     /\ \E q \in committed : call[q].op \in Change /\ call[q].target = Actor(r)
                                             /\ TakesOut(call[q])
<1>1. IInv /\ All /\ [Next]_vars => P
  <2> SUFFICES ASSUME IInv, All, [Next]_vars, NEW r \in committed' \ committed,
                      call[r].op = "deleteUser",
                      \A u \in DOMAIN users' : ~ActiveAdmin(u)'
               PROVE  /\ ~ActiveAdmin(Actor(r))
                      /\ \E q \in committed : call[q].op \in Change
                                              /\ call[q].target = Actor(r) /\ TakesOut(call[q])
    OBVIOUS
  <2>1. r \in Request /\ Update(r) /\ Placed(r) /\ TypeOK
    BY WhoCommits DEF Create, IInv, Placed, Creation
  <2>2. Actor(r) # call[r].target /\ (ActiveAdmin(Actor(r)) \/ TakenOut(Actor(r)))
    BY <2>1 DEF Update, Backed, OwnAccount, Change
  <2>3. Actor(r) \in DOMAIN users
    BY <2>1 DEF Update, IInv, Placed, Waiting, Public, Change, Actor
  <2>4. users'[Actor(r)] = users[Actor(r)] /\ DOMAIN users' = DOMAIN users
    BY <2>1, <2>2, <2>3, UpdateEffect
  <2>5. ~ActiveAdmin(Actor(r))
    BY <2>3, <2>4 DEF ActiveAdmin
  <2> QED
    BY <2>2, <2>5 DEF TakenOut
<1> QED
  BY <1>1, InvariantHolds, BackedHolds, PTL DEF Spec, LockoutTakesTwo
=============================================================================
