----------------------------- MODULE RecordTypes ----------------------------
(***************************************************************************)
(* What the records service and the abstract ledger it implements have in  *)
(* common: rows of financial_records, and what a client may ask about      *)
(* them.  The module has no state.                                         *)
(*                                                                         *)
(* A call carries the role that authenticate has found for its actor;      *)
(* Accounts models how.  The columns of a record that a client writes are  *)
(* a function on Field; one of them, the type, is used by queries.         *)
(***************************************************************************)
EXTENDS Roles, FiniteSets

CONSTANTS Field,           \* the columns a client writes
          Value,           \* what it writes into them
          InitialRecords,  \* the table at the start: id -> Row
          Request          \* the requests made

RecordType == {"INCOME", "EXPENSE"}

\* The cuid of a row is named by the request that inserts it.
RecordId == DOMAIN InitialRecords \cup Request

Data == {d \in [Field -> Value] : d["type"] \in RecordType}

\* updateRecordSchema: any of the columns, possibly none.
Patch == {p \in UNION {[S -> Value] : S \in SUBSET Field} :
            "type" \in DOMAIN p => p["type"] \in RecordType}

\* recent: created less than 30 days ago.
Row == [data: Data, recent: BOOLEAN, isDeleted: BOOLEAN]

Call ==
  [op: {"create"}, role: Role, data: Data]
    \cup [op: {"update"}, role: Role, target: RecordId, data: Patch]
    \cup [op: {"delete", "get"}, role: Role, target: RecordId]
    \cup [op: {"list"}, role: Role, type: RecordType \cup {"any"},
          page: Nat \ {0}, limit: 1..100]
    \cup [op: {"stats"}, role: Role]

Mutation == {"create", "update", "delete"}
Targeted == {"update", "delete", "get"}

\* The guards of records.router.ts and of /dashboard/stats.
AllowedRoles(op) == IF op \in Mutation THEN adminOnly ELSE analystOrAdmin

SuccessCode(op) == IF op = "create" THEN 201 ELSE 200

ASSUME FieldAssumption == "type" \in Field

ASSUME RowsAssumption ==
  /\ InitialRecords \in [DOMAIN InitialRecords -> Row]
  /\ IsFiniteSet(DOMAIN InitialRecords)
  /\ Request \cap DOMAIN InitialRecords = {}
=============================================================================
