------------------------------- MODULE Records ------------------------------
(***************************************************************************)
(* Financial records: records.service.ts behind the role guards of its     *)
(* router, and the one query of dashboard.service.ts, getStats, that reads *)
(* the table more than once.                                               *)
(*                                                                         *)
(* As in Accounts, a request is the code between two awaits at a time and  *)
(* every statement is atomic.  list and getStats send their statements     *)
(* together (Promise.all): the database runs them in any order, with other *)
(* statements in between, and the first that rejects rejects the request.  *)
(***************************************************************************)
EXTENDS RecordTypes

CONSTANTS Calls,        \* what a request may ask, a subset of Call
          MaxInFlight,  \* bound on the requests in progress at once
          DbMayFail,    \* whether a database statement may fail
          NoRow         \* "no row read yet"

ASSUME BoundsAssumption ==
  Calls \subseteq Call /\ MaxInFlight \in Nat /\ DbMayFail \in BOOLEAN

VARIABLES records,   \* the financial_records table
          auditLog,  \* the audit_logs table, in the order of insertion
          call,      \* what each request asks
          pc,        \* where each request is
          found,     \* the row each request has read
          pending,   \* the statements of list and getStats still to be answered
          figures,   \* what the statements answered so far have returned
          response,  \* the status code of each answer, 0 until there is one
          history,   \* history: the mutations in the order they took effect
          started    \* history: how many had taken effect when each request came

vars == <<records, auditLog, call, pc, found, pending, figures, response, history, started>>
reading == <<pending, figures, started>>

Waiting == {"create", "find", "update", "audit", "reading"}

Statement == {"page", "total", "breakdown", "recent"}

Statements(op) ==
  CASE op = "list"  -> {"page", "total"}
    [] op = "stats" -> {"total", "breakdown", "recent"}
    [] OTHER        -> {}

AuditRow == [id: Request, action: Mutation, entityId: RecordId,
             before: Row \cup {NoRow}, after: Patch \cup {NoRow}]

\* The requests that took effect, and those the audit log names.
Committed == {history[i] : i \in DOMAIN history}
Recorded  == {auditLog[i].id : i \in DOMAIN auditLog}

TypeOK ==
  /\ DOMAIN records \subseteq RecordId
  /\ records \in [DOMAIN records -> Row]
  /\ auditLog \in Seq(AuditRow)
  /\ call \in [Request -> Call]
  /\ pc \in [Request -> {"idle", "done"} \cup Waiting]
  /\ found \in [Request -> Row \cup {NoRow}]
  /\ pending \in [Request -> SUBSET Statement]
  /\ figures = [r \in Request |-> figures[r]]
  /\ \A r \in Request : \A q \in DOMAIN figures[r] :
       q \in Statement /\ figures[r][q] \in IF q = "breakdown" THEN [RecordType -> Nat] ELSE Nat
  /\ response \in [Request -> Nat]
  /\ history \in Seq(Request)
  /\ started \in [Request -> Nat]

Init ==
  /\ records = InitialRecords
  /\ auditLog = <<>>
  /\ call \in [Request -> Calls]
  /\ pc = [r \in Request |-> "idle"]
  /\ found = [r \in Request |-> NoRow]
  /\ pending = [r \in Request |-> {}]
  /\ figures = [r \in Request |-> [q \in {} |-> 0]]
  /\ response = [r \in Request |-> 0]
  /\ history = <<>>
  /\ started = [r \in Request |-> 0]

----------------------------------------------------------------------------

InFlight == {r \in Request : pc[r] \in Waiting}

Goto(r, where) ==
  /\ pc' = [pc EXCEPT ![r] = where]
  /\ UNCHANGED response

Answer(r, code) ==
  /\ pc' = [pc EXCEPT ![r] = "done"]
  /\ response' = [response EXCEPT ![r] = code]

\* A statement was applied; its result reaches the server, or the connection
\* breaks first and the statement rejects.
Applied(r, where) ==
  \/ Goto(r, where)
  \/ DbMayFail /\ Answer(r, 500)

FirstStep(op) ==
  CASE op = "create"              -> "create"
    [] op \in Targeted            -> "find"
    [] op \in {"list", "stats"}   -> "reading"

\* A request past authenticate: the role guard, and the handler up to its first
\* await.
Arrive(r) ==
  /\ pc[r] = "idle"
  /\ Cardinality(InFlight) < MaxInFlight
  /\ \/ /\ call[r].role \in AllowedRoles(call[r].op)
        /\ pending' = [pending EXCEPT ![r] = Statements(call[r].op)]
        /\ Goto(r, FirstStep(call[r].op))
     \/ /\ call[r].role \notin AllowedRoles(call[r].op)
        /\ Answer(r, 403)
        /\ UNCHANGED pending
  /\ started' = [started EXCEPT ![r] = Len(history)]
  /\ UNCHANGED <<records, auditLog, call, found, figures, history>>

----------------------------------------------------------------------------
(* create, update and delete *)

Create(r) ==
  /\ pc[r] = "create"
  /\ records' = [id \in DOMAIN records \cup {r} |->
                   IF id = r
                   THEN [data |-> call[r].data, recent |-> TRUE, isDeleted |-> FALSE]
                   ELSE records[id]]
  /\ history' = Append(history, r)
  /\ Applied(r, "audit")
  /\ UNCHANGED <<auditLog, call, found, reading>>

\* Mutant of Find: soft deletion is forgotten.
FindDeletedToo(r) ==
  LET id == call[r].target IN
  /\ pc[r] = "find"
  /\ \/ /\ id \in DOMAIN records
        /\ found' = [found EXCEPT ![r] = records[id]]
        /\ IF call[r].op = "get" THEN Answer(r, 200) ELSE Goto(r, "update")
     \/ /\ id \notin DOMAIN records
        /\ Answer(r, 404)
        /\ UNCHANGED found
  /\ UNCHANGED <<records, auditLog, call, reading, history>>

\* findUniqueOrThrow on id and isDeleted: false (P2025).
Find(r) ==
  LET id == call[r].target IN
  /\ pc[r] = "find"
  /\ \/ /\ id \in DOMAIN records /\ ~records[id].isDeleted
        /\ found' = [found EXCEPT ![r] = records[id]]
        /\ IF call[r].op = "get" THEN Answer(r, 200) ELSE Goto(r, "update")
     \/ /\ ~(id \in DOMAIN records /\ ~records[id].isDeleted)
        /\ Answer(r, 404)
        /\ UNCHANGED found
  /\ UNCHANGED <<records, auditLog, call, reading, history>>

\* Mutant of Overlay: the columns that are not provided are lost.
OverlayShrinks(data, patch) == [f \in DOMAIN patch |-> patch[f]]

Overlay(data, patch) == [f \in Field |-> IF f \in DOMAIN patch THEN patch[f] ELSE data[f]]

\* Mutant of Updated: the whole row that was read is written back.
UpdatedFromRead(r, row) ==
  IF call[r].op = "delete"
  THEN [row EXCEPT !.isDeleted = TRUE]
  ELSE [found[r] EXCEPT !.data = Overlay(@, call[r].data)]

\* The data of the two update statements: only the columns in the request, or
\* only the deletion mark.
Updated(r, row) ==
  IF call[r].op = "delete"
  THEN [row EXCEPT !.isDeleted = TRUE]
  ELSE [row EXCEPT !.data = Overlay(@, call[r].data)]

\* financialRecord.update on the id alone: whether the row is deleted is not
\* asked again.
Update(r) ==
  /\ pc[r] = "update"
  /\ records' = [records EXCEPT ![call[r].target] = Updated(r, @)]
  /\ history' = Append(history, r)
  /\ Applied(r, "audit")
  /\ UNCHANGED <<auditLog, call, found, reading>>

AuditEntry(r) ==
  LET op == call[r].op IN
  [id       |-> r,
   action   |-> op,
   entityId |-> IF op = "create" THEN r ELSE call[r].target,
   before   |-> IF op = "update" THEN found[r] ELSE NoRow,
   after    |-> IF op = "delete" THEN NoRow ELSE call[r].data]

Audit(r) ==
  /\ pc[r] = "audit"
  /\ auditLog' = Append(auditLog, AuditEntry(r))
  /\ Answer(r, SuccessCode(call[r].op)) \/ (DbMayFail /\ Answer(r, 500))
  /\ UNCHANGED <<records, call, found, reading, history>>

----------------------------------------------------------------------------
(* list and getStats *)

\* The rows that satisfy the where clause.
Matching(c) ==
  {id \in DOMAIN records :
     /\ ~records[id].isDeleted
     /\ c.op = "list" /\ c.type # "any" => records[id].data["type"] = c.type}

\* Rows on page c.page when n match: skip and take.
PageSize(c, n) ==
  LET skip == (c.page - 1) * c.limit IN
  IF n <= skip THEN 0 ELSE IF n - skip < c.limit THEN n - skip ELSE c.limit

\* Mutant of Result: count is given no where clause.
ResultCountsAll(c, statement) ==
  LET n(S) == Cardinality(S) IN
  CASE statement = "page"      -> PageSize(c, n(Matching(c)))
    [] statement = "total"     -> n(DOMAIN records)
    [] statement = "breakdown" ->
         [t \in RecordType |-> n({id \in Matching(c) : records[id].data["type"] = t})]
    [] statement = "recent"    -> n({id \in Matching(c) : records[id].recent})

Result(c, statement) ==
  LET n(S) == Cardinality(S) IN
  CASE statement = "page"      -> PageSize(c, n(Matching(c)))
    [] statement = "total"     -> n(Matching(c))
    [] statement = "breakdown" ->
         [t \in RecordType |-> n({id \in Matching(c) : records[id].data["type"] = t})]
    [] statement = "recent"    -> n({id \in Matching(c) : records[id].recent})

Read(r, statement) ==
  /\ pc[r] = "reading" /\ statement \in pending[r]
  /\ figures' = [figures EXCEPT ![r] =
                   [q \in DOMAIN @ \cup {statement} |->
                      IF q = statement THEN Result(call[r], statement) ELSE @[q]]]
  /\ pending' = [pending EXCEPT ![r] = @ \ {statement}]
  /\ IF pending[r] = {statement} THEN Answer(r, 200) ELSE UNCHANGED <<pc, response>>
  /\ UNCHANGED <<records, auditLog, call, found, history, started>>

----------------------------------------------------------------------------

\* A statement rejects without effect; the error reaches errorHandler.
DbError(r) ==
  /\ DbMayFail
  /\ pc[r] \in Waiting
  /\ Answer(r, 500)
  /\ pending' = [pending EXCEPT ![r] = {}]
  /\ UNCHANGED <<records, auditLog, call, found, figures, history, started>>

Finished == (\A r \in Request : pc[r] = "done") /\ UNCHANGED vars

Step(r) ==
  \/ Create(r)
  \/ Find(r)
  \/ Update(r)
  \/ Audit(r)
  \/ \E statement \in Statement : Read(r, statement)

Next ==
  \/ \E r \in Request : Arrive(r) \/ Step(r) \/ DbError(r)
  \/ Finished

Spec == Init /\ [][Next]_vars

----------------------------------------------------------------------------

L == INSTANCE Ledger WITH
       rows     <- records,
       taken    <- Committed,
       recorded <- Recorded,
       answer   <- response

(***************************************************************************)
(* Statement by statement, with overlaps and failures, the service still   *)
(* gives each client an atomic ledger: a mutation takes effect at most     *)
(* once and between call and answer, a reported success is on record, and  *)
(* a refusal was true when given and changed nothing.                      *)
(***************************************************************************)
ImplementsLedger == L!Spec

\* The requests that took effect and wrote column f of row id, by position.
Writers(id, f) ==
  {i \in DOMAIN history :
     LET c == call[history[i]] IN
     \/ c.op = "create" /\ history[i] = id
     \/ c.op = "update" /\ c.target = id /\ f \in DOMAIN c.data}

HoldsLastWritten(id, f) ==
  LET W == Writers(id, f) IN
  \/ W = {} /\ records[id].data[f] = InitialRecords[id].data[f]
  \/ \E i \in W : /\ \A j \in W : j <= i
                  /\ records[id].data[f] = call[history[i]].data[f]

DeletionTookEffect(id) ==
  \/ id \in DOMAIN InitialRecords /\ InitialRecords[id].isDeleted
  \/ \E r \in Committed : call[r].op = "delete" /\ call[r].target = id

(***************************************************************************)
(* docs/records.md:97: "Only provided fields will be modified."  No update *)
(* is lost however requests overlap: each column holds what the last       *)
(* effective request that named it wrote, and a row is deleted as soon as  *)
(* one effective deletion named it, whatever updates land on it later.     *)
(***************************************************************************)
NoLostUpdate ==
  \A id \in DOMAIN records :
    /\ \A f \in Field : HoldsLastWritten(id, f)
    /\ records[id].isDeleted <=> DeletionTookEffect(id)

\* Where a request can be, given what it asks, and what it holds there.
Placed(r) ==
  LET op == call[r].op IN
  /\ pc[r] = "create" => op = "create"
  /\ pc[r] = "find" => op \in Targeted
  /\ pc[r] = "update" =>
       op \in {"update", "delete"} /\ call[r].target \in DOMAIN records /\ found[r] \in Row
  /\ pc[r] = "audit" => r \in Committed /\ (op = "update" => found[r] \in Row)
  /\ pc[r] = "reading" => op \in {"list", "stats"}
  /\ pc[r] \in Waiting => call[r].role \in AllowedRoles(op)
  /\ r \in Committed => op \in Mutation /\ pc[r] \in {"audit", "done"}
  /\ r \in Committed /\ op # "create" => call[r].target \in DOMAIN records
  /\ r \in DOMAIN records => r \in Committed /\ op = "create"
  /\ response[r] = 0 <=> pc[r] # "done"
  /\ pending[r] \cup DOMAIN figures[r] \subseteq Statements(op)

(***************************************************************************)
(* The inductive invariant: types, where each request can be, that rows    *)
(* come from effective creations and stay, and that entries of the audit   *)
(* log belong to effective mutations that are over.                        *)
(***************************************************************************)
IInv ==
  /\ TypeOK
  /\ IsFiniteSet(DOMAIN records)
  /\ DOMAIN InitialRecords \subseteq DOMAIN records
  /\ \A r \in Request : Placed(r)
  /\ \A r \in Recorded : r \in Committed /\ pc[r] = "done"

Distance(m, n) == IF m <= n THEN n - m ELSE m - n

Sum(breakdown) == breakdown["INCOME"] + breakdown["EXPENSE"]

(***************************************************************************)
(* The figures of one answer may come from different states of the table,  *)
(* but they drift apart no further than the mutations that took effect     *)
(* while the request was in progress: a page shows no more rows than the   *)
(* total admits, the breakdown adds up to the total and the recent records *)
(* are part of it, each up to that number.                                 *)
(***************************************************************************)
FiguresAgree ==
  \A r \in Request :
    LET drift == Len(history) - started[r]
        fig   == figures[r]
    IN /\ {"page", "total"} \subseteq DOMAIN fig /\ fig["page"] > 0 =>
            (call[r].page - 1) * call[r].limit + fig["page"] <= fig["total"] + drift
       /\ {"breakdown", "total"} \subseteq DOMAIN fig =>
            Distance(Sum(fig["breakdown"]), fig["total"]) <= drift
       /\ {"recent", "total"} \subseteq DOMAIN fig =>
            fig["recent"] <= fig["total"] + drift
=============================================================================
