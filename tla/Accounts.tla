------------------------------ MODULE Accounts ------------------------------
(***************************************************************************)
(* Accounts, sessions and their audit trail: auth.service.ts and           *)
(* users.service.ts behind the authenticate and adminOnly middleware, as   *)
(* one server that interleaves requests at every await.                    *)
(*                                                                         *)
(* A request is a piece of code between two awaits at a time: pc says      *)
(* which statement it waits for.  Each database statement is atomic (the   *)
(* code opens no transaction), and between two statements of one request   *)
(* any statement of another may run.  A request is made once; a client     *)
(* that retries makes another one.                                         *)
(*                                                                         *)
(* Left out: names, passwords (a login call says whether its password is   *)
(* the right one), time (TokenBlacklist models the life of a token), and   *)
(* bodies that the Zod schemas refuse, which change nothing.               *)
(***************************************************************************)
EXTENDS Roles, FiniteSets

CONSTANTS InitialUsers,   \* the users table at the start: id -> Row
          InitialTokens,  \* tokens already handed out: token -> Claims
          Email,          \* the e-mail addresses people register with, which may
                          \* be of the form that anonymising produces
          Request,        \* the requests made
          Workloads,      \* what they may ask: each a call for every request
          MaxInFlight,    \* bound on the requests in progress at once
          MayFail,        \* the requests whose database statements may fail
          MaxCrashes,     \* bound on the crashes of the process
          NoUser          \* "no row read yet"

\* A row that a request inserts gets a fresh cuid, and a login's token a fresh
\* jti: both are named by the request, which inserts or signs only one.
UserId == DOMAIN InitialUsers \cup Request
Token  == DOMAIN InitialTokens \cup Request

\* deleted_<id>@deleted.invalid
Anonymised(id) == <<"deleted", id>>

\* The columns of model User that the code reads to decide something.
Row == [email: Email \cup {Anonymised(id) : id \in UserId},
        role: Role, status: Status, isDeleted: BOOLEAN]

\* The payload of the JWT that login signs.
Claims == [userId: UserId, role: Role]

\* The row of a user as a request has read it.
Snapshot == [id: UserId, role: Role, status: Status]

Call ==
  [op: {"register"}, email: Email]
    \cup [op: {"login"}, email: Email, passwordOk: BOOLEAN]
    \cup [op: {"logout", "me"}, token: Token]
    \cup [op: {"getUser", "deleteUser"}, token: Token, target: UserId]
    \cup [op: {"createUser"}, token: Token, email: Email, role: Role]
    \cup [op: {"updateRole"}, token: Token, target: UserId, role: Role]
    \cup [op: {"updateStatus"}, token: Token, target: UserId, status: Status]

Public   == {"register", "login"}
Creation == {"register", "createUser"}
Change   == {"updateRole", "updateStatus", "deleteUser"}
Mutation == Creation \cup Change
Audited  == Mutation \cup {"login", "logout"}
Op       == Audited \cup {"me", "getUser"}

\* The guard each protected route puts after authenticate: auth.router.ts has
\* none, users.router.ts is adminOnly throughout.
AllowedRoles(op) == IF op \in {"logout", "me"} THEN anyRole ELSE adminOnly

\* The value a change replaces, or sets, as the audit log records it.
AuditValue == Role \cup Status \cup {"none"}

AuditRow == [id: Request, userId: UserId, action: Audited, entityId: UserId,
             before: AuditValue, after: AuditValue]

\* The unique index on the e-mail.
Consistent(rows) == \A u, v \in DOMAIN rows : rows[u].email = rows[v].email => u = v

ASSUME InitialAssumption ==
  /\ InitialUsers \in [DOMAIN InitialUsers -> Row]
  /\ Consistent(InitialUsers)
  /\ \A u \in DOMAIN InitialUsers :
       InitialUsers[u].isDeleted => InitialUsers[u].email = Anonymised(u)
  /\ InitialTokens \in [DOMAIN InitialTokens -> [userId: DOMAIN InitialUsers, role: Role]]

\* cuids and jtis are fresh.
ASSUME FreshAssumption ==
  Request \cap (DOMAIN InitialUsers \cup DOMAIN InitialTokens) = {}

ASSUME WorkloadsAssumption == Workloads \subseteq [Request -> Call]

ASSUME BoundsAssumption ==
  MaxInFlight \in Nat /\ MayFail \subseteq Request /\ MaxCrashes \in Nat

VARIABLES users,      \* the users table
          auditLog,   \* the audit_logs table, in the order of insertion
          tokens,     \* the tokens handed out: token -> Claims
          revoked,    \* the tokens in the blacklist
          call,       \* what each request asks
          pc,         \* where each request is
          found,      \* the row each request has read
          response,   \* the status code of each answer, 0 until there is one
          committed,  \* history: the requests whose mutation took effect
          crashes     \* number of crashes so far

vars == <<users, auditLog, tokens, revoked, call, pc, found, response, committed, crashes>>
db   == <<users, auditLog, tokens, revoked, committed>>

Waiting == {"authenticate", "lookup", "compare", "create", "find", "update", "audit"}

TypeOK ==
  /\ DOMAIN users \subseteq UserId
  /\ users \in [DOMAIN users -> Row]
  /\ auditLog \in Seq(AuditRow)
  /\ DOMAIN tokens \subseteq Token
  /\ tokens \in [DOMAIN tokens -> Claims]
  /\ revoked \subseteq DOMAIN tokens
  /\ call \in [Request -> Call]
  /\ pc \in [Request -> {"idle", "done", "lost"} \cup Waiting]
  /\ found \in [Request -> Snapshot \cup {NoUser}]
  /\ response \in [Request -> Nat]
  /\ committed \subseteq Request
  /\ crashes \in Nat

Init ==
  /\ users = InitialUsers
  /\ auditLog = <<>>
  /\ tokens = InitialTokens
  /\ revoked = {}
  /\ call \in Workloads
  /\ pc = [r \in Request |-> "idle"]
  /\ found = [r \in Request |-> NoUser]
  /\ response = [r \in Request |-> 0]
  /\ committed = {}
  /\ crashes = 0

----------------------------------------------------------------------------

InFlight == {r \in Request : pc[r] \in Waiting}

\* The user id in the token that the request carries (req.user.id).
Actor(r) == tokens[call[r].token].userId

Goto(r, where) ==
  /\ pc' = [pc EXCEPT ![r] = where]
  /\ UNCHANGED response

Answer(r, code) ==
  /\ pc' = [pc EXCEPT ![r] = "done"]
  /\ response' = [response EXCEPT ![r] = code]

\* Mutant of Applied: an error of the driver is taken for a unique violation.
AppliedConflict(r, where) ==
  \/ Goto(r, where)
  \/ r \in MayFail /\ Answer(r, 409)

\* A statement was applied; its result reaches the server, or the connection
\* breaks first and the statement rejects.
Applied(r, where) ==
  \/ Goto(r, where)
  \/ r \in MayFail /\ Answer(r, 500)

SnapshotOf(u) == [id |-> u, role |-> users[u].role, status |-> users[u].status]

Read(r, u) == found' = [found EXCEPT ![r] = SnapshotOf(u)]

----------------------------------------------------------------------------
(* Arrival, and the part of authenticate that runs before its await. *)

Arrive(r) ==
  /\ pc[r] = "idle"
  /\ Cardinality(InFlight) < MaxInFlight
  /\ \/ /\ call[r].op = "register"
        /\ Goto(r, "create")
     \/ /\ call[r].op = "login"
        /\ Goto(r, "lookup")
     \/ /\ call[r].op \notin Public
        /\ call[r].token \in DOMAIN tokens \ revoked
        /\ Goto(r, "authenticate")
     \/ /\ call[r].op \notin Public
        /\ call[r].token \notin DOMAIN tokens \ revoked
        /\ Answer(r, 401)
  /\ UNCHANGED <<db, call, found, crashes>>

(* authenticate, from the answer of its findUnique on. *)

Refuse(r) ==
  LET u == users[Actor(r)] IN
  /\ \/ u.isDeleted /\ Answer(r, 401)
     \/ ~u.isDeleted /\ u.status # "ACTIVE" /\ Answer(r, 403)
     \/ /\ ~u.isDeleted /\ u.status = "ACTIVE"
        /\ u.role \notin AllowedRoles(call[r].op)
        /\ Answer(r, 403)
  /\ UNCHANGED revoked

\* Mutant of OwnAccount: delete does not compare the actor with the target.
NeverOwnAccount(r) == FALSE

\* delete of one's own account, refused before anything is read.
OwnAccount(r) == call[r].op = "deleteUser" /\ call[r].target = Actor(r)

\* The handler, up to its first await; that of logout blacklists the token.
Dispatch(r) ==
  \/ /\ call[r].op = "logout"
     /\ revoked' = revoked \cup {call[r].token}
     /\ Goto(r, "audit")
  \/ /\ call[r].op = "me"
     /\ Answer(r, 200)
     /\ UNCHANGED revoked
  \/ /\ call[r].op = "createUser"
     /\ Goto(r, "create")
     /\ UNCHANGED revoked
  \/ /\ OwnAccount(r)
     /\ Answer(r, 400)
     /\ UNCHANGED revoked
  \/ /\ call[r].op \in {"getUser"} \cup Change /\ ~OwnAccount(r)
     /\ Goto(r, "find")
     /\ UNCHANGED revoked

\* Mutant of Admit: the role is the one in the token, not the one in the database.
AdmitByClaim(r) ==
  LET u == users[Actor(r)] IN
  /\ ~u.isDeleted /\ u.status = "ACTIVE"
  /\ tokens[call[r].token].role \in AllowedRoles(call[r].op)
  /\ Dispatch(r)

\* Mutant of Admit: a deleted account is taken to be INACTIVE, as delete leaves it.
AdmitByStatus(r) ==
  LET u == users[Actor(r)] IN
  /\ u.status = "ACTIVE" /\ u.role \in AllowedRoles(call[r].op)
  /\ Dispatch(r)

Admit(r) ==
  LET u == users[Actor(r)] IN
  /\ ~u.isDeleted /\ u.status = "ACTIVE" /\ u.role \in AllowedRoles(call[r].op)
  /\ Dispatch(r)

Authenticate(r) ==
  /\ pc[r] = "authenticate"
  /\ Refuse(r) \/ Admit(r)
  /\ UNCHANGED <<users, auditLog, tokens, call, found, committed, crashes>>

----------------------------------------------------------------------------
(* login *)

Lookup(r) ==
  LET matches == {u \in DOMAIN users : users[u].email = call[r].email /\ ~users[u].isDeleted} IN
  /\ pc[r] = "lookup"
  /\ \/ \E u \in matches : Read(r, u) /\ Goto(r, "compare")
     \/ matches = {} /\ Answer(r, 401) /\ UNCHANGED found
  /\ UNCHANGED <<db, call, crashes>>

\* The end of bcrypt.compare: the status that counts is the one Lookup read.
Compare(r) ==
  /\ pc[r] = "compare"
  /\ \/ ~call[r].passwordOk /\ Answer(r, 401)
     \/ call[r].passwordOk /\ found[r].status # "ACTIVE" /\ Answer(r, 403)
     \/ call[r].passwordOk /\ found[r].status = "ACTIVE" /\ Goto(r, "audit")
  /\ UNCHANGED <<db, call, found, crashes>>

----------------------------------------------------------------------------
(* register and the services of users.service.ts *)

NewRow(c) == [email     |-> c.email,
              role      |-> IF c.op = "register" THEN "VIEWER" ELSE c.role,
              status    |-> "ACTIVE",
              isDeleted |-> FALSE]

\* Mutant of Create: the unique violation is caught and creation goes on.
CreateOrIgnore(r) ==
  LET taken == \E u \in DOMAIN users : users[u].email = call[r].email IN
  /\ pc[r] = "create"
  /\ \/ taken /\ Goto(r, "audit") /\ UNCHANGED <<users, committed>>
     \/ /\ ~taken
        /\ users' = [u \in DOMAIN users \cup {r} |->
                       IF u = r THEN NewRow(call[r]) ELSE users[u]]
        /\ committed' = committed \cup {r}
        /\ Applied(r, "audit")
  /\ UNCHANGED <<auditLog, tokens, revoked, call, found, crashes>>

\* user.create, with the unique index on the e-mail (P2002).
Create(r) ==
  LET taken == \E u \in DOMAIN users : users[u].email = call[r].email IN
  /\ pc[r] = "create"
  /\ \/ taken /\ Answer(r, 409) /\ UNCHANGED <<users, committed>>
     \/ /\ ~taken
        /\ users' = [u \in DOMAIN users \cup {r} |->
                       IF u = r THEN NewRow(call[r]) ELSE users[u]]
        /\ committed' = committed \cup {r}
        /\ Applied(r, "audit")
  /\ UNCHANGED <<auditLog, tokens, revoked, call, found, crashes>>

\* Mutant of Find: the rejection reaches no error handler, the request hangs.
FindUnanswered(r) ==
  LET id == call[r].target IN
  /\ pc[r] = "find"
  /\ \/ /\ id \in DOMAIN users /\ ~users[id].isDeleted
        /\ Read(r, id)
        /\ IF call[r].op = "getUser" THEN Answer(r, 200) ELSE Goto(r, "update")
     \/ /\ ~(id \in DOMAIN users /\ ~users[id].isDeleted)
        /\ Goto(r, "unhandled")
        /\ UNCHANGED found
  /\ UNCHANGED <<db, call, crashes>>

\* findUniqueOrThrow on id and isDeleted: false (P2025).
Find(r) ==
  LET id == call[r].target IN
  /\ pc[r] = "find"
  /\ \/ /\ id \in DOMAIN users /\ ~users[id].isDeleted
        /\ Read(r, id)
        /\ IF call[r].op = "getUser" THEN Answer(r, 200) ELSE Goto(r, "update")
     \/ /\ ~(id \in DOMAIN users /\ ~users[id].isDeleted)
        /\ Answer(r, 404)
        /\ UNCHANGED found
  /\ UNCHANGED <<db, call, crashes>>

\* Mutant of Updated: delete keeps the e-mail.
UpdatedKeepsEmail(c, row) ==
  CASE c.op = "updateRole"   -> [row EXCEPT !.role = c.role]
    [] c.op = "updateStatus" -> [row EXCEPT !.status = c.status]
    [] c.op = "deleteUser"   -> [row EXCEPT !.isDeleted = TRUE, !.status = "INACTIVE"]

\* The data of the three user.update statements.
Updated(c, row) ==
  CASE c.op = "updateRole"   -> [row EXCEPT !.role = c.role]
    [] c.op = "updateStatus" -> [row EXCEPT !.status = c.status]
    [] c.op = "deleteUser"   -> [row EXCEPT !.isDeleted = TRUE,
                                            !.status = "INACTIVE",
                                            !.email = Anonymised(c.target)]

\* Mutant of Update: the row is written as it was read, but for the change.
UpdateWholeRow(r) ==
  LET id  == call[r].target
      row == Updated(call[r], [users[id] EXCEPT !.role = found[r].role,
                                                !.status = found[r].status])
      taken == \E u \in DOMAIN users \ {id} : users[u].email = row.email
  IN
  /\ pc[r] = "update"
  /\ \/ taken /\ Answer(r, 409) /\ UNCHANGED <<users, committed>>
     \/ /\ ~taken
        /\ users' = [users EXCEPT ![id] = row]
        /\ committed' = committed \cup {r}
        /\ Applied(r, "audit")
  /\ UNCHANGED <<auditLog, tokens, revoked, call, found, crashes>>

\* Mutant of Update: a unique violation is taken for an account already anonymised.
UpdateOrIgnore(r) ==
  LET id    == call[r].target
      row   == Updated(call[r], users[id])
      taken == \E u \in DOMAIN users \ {id} : users[u].email = row.email
  IN
  /\ pc[r] = "update"
  /\ \/ taken /\ Goto(r, "audit") /\ UNCHANGED <<users, committed>>
     \/ /\ ~taken
        /\ users' = [users EXCEPT ![id] = row]
        /\ committed' = committed \cup {r}
        /\ Applied(r, "audit")
  /\ UNCHANGED <<auditLog, tokens, revoked, call, found, crashes>>

\* user.update on the id alone: whether the row is deleted is not asked again.
\* The anonymised address may be another row's, somebody registered under it:
\* then the unique index refuses the deletion (P2002).
Update(r) ==
  LET id    == call[r].target
      row   == Updated(call[r], users[id])
      taken == \E u \in DOMAIN users \ {id} : users[u].email = row.email
  IN
  /\ pc[r] = "update"
  /\ \/ taken /\ Answer(r, 409) /\ UNCHANGED <<users, committed>>
     \/ /\ ~taken
        /\ users' = [users EXCEPT ![id] = row]
        /\ committed' = committed \cup {r}
        /\ Applied(r, "audit")
  /\ UNCHANGED <<auditLog, tokens, revoked, call, found, crashes>>

\* Mutant of Before: the value is read back after the update.
BeforeReadBack(r) ==
  CASE call[r].op = "updateRole"   -> call[r].role
    [] call[r].op = "updateStatus" -> call[r].status
    [] OTHER                       -> "none"

Before(r) ==
  CASE call[r].op = "updateRole"   -> found[r].role
    [] call[r].op = "updateStatus" -> found[r].status
    [] OTHER                       -> "none"

After(r) ==
  CASE call[r].op \in Creation      -> NewRow(call[r]).role
    [] call[r].op = "updateRole"    -> call[r].role
    [] call[r].op = "updateStatus"  -> call[r].status
    [] OTHER                        -> "none"

AuditUser(r) ==
  CASE call[r].op = "register" -> r
    [] call[r].op = "login"    -> found[r].id
    [] OTHER                   -> Actor(r)

EntityId(r) ==
  CASE call[r].op \in Creation -> r
    [] call[r].op = "login"    -> found[r].id
    [] call[r].op = "logout"   -> Actor(r)
    [] OTHER                   -> call[r].target

AuditEntry(r) ==
  [id |-> r, userId |-> AuditUser(r), action |-> call[r].op, entityId |-> EntityId(r),
   before |-> Before(r), after |-> After(r)]

SuccessCode(op) == IF op \in Creation THEN 201 ELSE 200

HandOut(r) ==
  tokens' = [t \in DOMAIN tokens \cup {r} |->
               IF t = r THEN [userId |-> found[r].id, role |-> found[r].role] ELSE tokens[t]]

\* auditLog.create, the last statement of every mutation, and the answer; the
\* answer of login carries the token.
Audit(r) ==
  /\ pc[r] = "audit"
  /\ auditLog' = Append(auditLog, AuditEntry(r))
  /\ \/ /\ Answer(r, SuccessCode(call[r].op))
        /\ IF call[r].op = "login" THEN HandOut(r) ELSE UNCHANGED tokens
     \/ /\ r \in MayFail
        /\ Answer(r, 500)
        /\ UNCHANGED tokens
  /\ UNCHANGED <<users, revoked, call, found, committed, crashes>>

----------------------------------------------------------------------------
(* Failures *)

\* Mutant of DbError: a failing audit is swallowed.
DbErrorAuditOptional(r) ==
  /\ r \in MayFail
  /\ pc[r] \in Waiting \ {"compare"}
  /\ Answer(r, CASE pc[r] = "authenticate" -> 401
                 [] pc[r] = "audit" -> SuccessCode(call[r].op)
                 [] OTHER -> 500)
  /\ UNCHANGED <<db, call, found, crashes>>

\* A statement rejects without effect.  The catch of authenticate answers 401
\* to anything thrown in it; the errors of a handler reach errorHandler.
DbError(r) ==
  /\ r \in MayFail
  /\ pc[r] \in Waiting \ {"compare"}
  /\ Answer(r, IF pc[r] = "authenticate" THEN 401 ELSE 500)
  /\ UNCHANGED <<db, call, found, crashes>>

\* The process dies and is started again: requests in progress are never
\* answered, and the blacklist is empty.
Crash ==
  /\ crashes < MaxCrashes
  /\ crashes' = crashes + 1
  /\ pc' = [r \in Request |-> IF r \in InFlight THEN "lost" ELSE pc[r]]
  /\ revoked' = {}
  /\ UNCHANGED <<users, auditLog, tokens, call, found, response, committed>>

\* Everything asked has been answered or lost.
Quiet == \A r \in Request : pc[r] \in {"done", "lost"}

Finished == Quiet /\ UNCHANGED vars

Step(r) ==
  \/ Authenticate(r)
  \/ Lookup(r)
  \/ Compare(r)
  \/ Create(r)
  \/ Find(r)
  \/ Update(r)
  \/ Audit(r)

Next ==
  \/ \E r \in Request : Arrive(r) \/ Step(r) \/ DbError(r)
  \/ Crash
  \/ Finished

Spec == Init /\ [][Next]_vars

\* The event loop runs every callback that is ready, and every statement sent
\* to the database is answered in the end, if only by an error.
FairSpec == Spec /\ \A r \in Request : WF_vars(Step(r) \/ DbError(r))

----------------------------------------------------------------------------
(* Safety *)

\* The row of an account as it was at the start, or as it was created.
Original(u) == IF u \in Request THEN NewRow(call[u]) ELSE InitialUsers[u]

(***************************************************************************)
(* An e-mail address names at most one account.  An account has the one it *)
(* was created under until it is deleted, and from then on its anonymised  *)
(* one: no update gives the old one back, not even one that read the row   *)
(* before the deletion and writes after it.                                *)
(***************************************************************************)
EmailsAgree ==
  /\ Consistent(users)
  /\ \A u \in DOMAIN users :
       users[u].email = IF users[u].isDeleted THEN Anonymised(u) ELSE Original(u).email

(***************************************************************************)
(* A client that is told its mutation succeeded can rely on the mutation   *)
(* and on its audit row, whatever the database did meanwhile, and a token  *)
(* is handed out only with the login on record.                            *)
(***************************************************************************)
SuccessMeansAudited ==
  /\ \A r \in Request : response[r] \in {200, 201} /\ call[r].op \in Audited =>
       /\ \E i \in DOMAIN auditLog : auditLog[i] = AuditEntry(r)
       /\ call[r].op \in Mutation => r \in committed
  /\ \A t \in DOMAIN tokens \cap Request :
       \E i \in DOMAIN auditLog : auditLog[i].id = t /\ auditLog[i].userId = tokens[t].userId

(***************************************************************************)
(* A client that is refused (4xx) has changed nothing: none of its         *)
(* statements took effect, so it may ask again.                            *)
(***************************************************************************)
RefusedChangedNothing ==
  \A r \in Request : response[r] \in 400..499 =>
    /\ r \notin committed
    /\ \A i \in DOMAIN auditLog : auditLog[i].id # r

(***************************************************************************)
(* The audit trail invents nothing and repeats nothing: a row about a      *)
(* mutation is about one that took effect, and no request has two rows.    *)
(***************************************************************************)
AuditedIsCommitted ==
  /\ \A i \in DOMAIN auditLog :
       auditLog[i].action \in Mutation => auditLog[i].id \in committed
  /\ \A i, j \in DOMAIN auditLog : auditLog[i].id = auditLog[j].id => i = j

Column == {"role", "status", "isDeleted"}

\* Whether a change sets a column of its target, and to what.
SetsColumn(c, column) ==
  \/ c.op = "updateRole" /\ column = "role"
  \/ c.op = "updateStatus" /\ column = "status"
  \/ c.op = "deleteUser" /\ column \in {"status", "isDeleted"}

ValueSet(c, column) ==
  CASE c.op = "updateRole"   -> c.role
    [] c.op = "updateStatus" -> c.status
    [] OTHER                 -> IF column = "status" THEN "INACTIVE" ELSE TRUE

\* The changes that took effect on a column of an account.
Changes(u, column) ==
  {q \in committed : /\ call[q].op \in Change /\ call[q].target = u
                     /\ SetsColumn(call[q], column)}

(***************************************************************************)
(* No change is lost, however changes of one account overlap and whatever  *)
(* fails: a role, a status or a deletion is the original one as long as no *)
(* change of it took effect, and else the value that one of those set.     *)
(***************************************************************************)
NoChangeLost ==
  \A u \in DOMAIN users, column \in Column :
    IF Changes(u, column) = {}
    THEN users[u][column] = Original(u)[column]
    ELSE \E q \in Changes(u, column) : users[u][column] = ValueSet(call[q], column)

\* The values of a column that an account has had apart from what r made it.
HadWithout(r, u, column) ==
  {Original(u)[column]} \cup {ValueSet(call[q], column) : q \in Changes(u, column) \ {r}}

(***************************************************************************)
(* The value that an audit row gives as the one before a change may be out *)
(* of date, but the account has had it, and not through that change.       *)
(***************************************************************************)
BeforeWasThere ==
  \A i \in DOMAIN auditLog :
    LET entry == auditLog[i] IN
    /\ entry.action = "updateRole" =>
         entry.before \in HadWithout(entry.id, entry.entityId, "role")
    /\ entry.action = "updateStatus" =>
         entry.before \in HadWithout(entry.id, entry.entityId, "status")

----------------------------------------------------------------------------
(* What a step may do *)

GrantsAdmin(r, u) ==
  /\ r \in committed
  /\ \/ call[r].op = "createUser" /\ u = r
     \/ call[r].op = "updateRole" /\ u = call[r].target
  /\ call[r].role = "ADMIN"

EverAdmin(u) ==
  \/ u \in DOMAIN InitialUsers /\ InitialUsers[u].role = "ADMIN"
  \/ \E r \in Request : GrantsAdmin(r, u)

(***************************************************************************)
(* Privilege comes only from privilege: whoever is an administrator was    *)
(* one from the start or was made one by a request that took effect, and a *)
(* request other than a registration takes effect only for an actor who    *)
(* had been an administrator before it.  The claims in the token, which    *)
(* may be older than a demotion, do not count.                             *)
(***************************************************************************)
NoEscalation ==
  [][/\ \A r \in committed' \ committed : call[r].op # "register" => EverAdmin(Actor(r))
     /\ \A u \in DOMAIN users' : users'[u].role = "ADMIN" => EverAdmin(u)']_vars

ActiveAdmin(u) == users[u].role = "ADMIN" /\ users[u].status = "ACTIVE" /\ ~users[u].isDeleted

(***************************************************************************)
(* docs/users.md:132: "Administrators cannot delete their own account      *)
(* using this endpoint. This prevents accidental lockouts."  A deletion    *)
(* does not remove the last administrator who can still log in.            *)
(***************************************************************************)
DeleteKeepsAnAdmin ==
  [][(\E r \in committed' \ committed : call[r].op = "deleteUser")
       /\ (\E u \in DOMAIN users : ActiveAdmin(u))
     => (\E u \in DOMAIN users : ActiveAdmin(u))']_vars

\* A change that makes its target something else than an active administrator.
TakesOut(c) ==
  \/ c.op = "updateRole" /\ c.role # "ADMIN"
  \/ c.op = "updateStatus" /\ c.status # "ACTIVE"
  \/ c.op = "deleteUser"

(***************************************************************************)
(* It takes two to lock everybody out: a deletion leaves no administrator  *)
(* who can log in only if the one who asked for it, and was one when       *)
(* authenticate let the request pass, has meanwhile been demoted,          *)
(* suspended or deleted by another request.                                *)
(***************************************************************************)
LockoutTakesTwo ==
  [][\A r \in committed' \ committed :
       /\ call[r].op = "deleteUser"
       /\ \E u \in DOMAIN users : ActiveAdmin(u)
       /\ \A u \in DOMAIN users' : ~ActiveAdmin(u)'
       => /\ ~ActiveAdmin(Actor(r))
          /\ \E q \in committed : call[q].op \in Change /\ call[q].target = Actor(r)
                                  /\ TakesOut(call[q])]_vars

(***************************************************************************)
(* README.md:15: "Every mutation logged to AuditLog with before/after      *)
(* state".  The value that a change will record as the one before it is    *)
(* the value it replaces.                                                  *)
(***************************************************************************)
BeforeIsReplaced ==
  [][\A r \in committed' \ committed :
       LET row == users[call[r].target] IN
       /\ call[r].op = "updateRole" => Before(r) = row.role
       /\ call[r].op = "updateStatus" => Before(r) = row.status]_vars

(***************************************************************************)
(* docs/README.md:27: "Every mutation and login is tracked in the system   *)
(* audit logs".  Once nothing is in progress, every mutation that took     *)
(* effect has its row.                                                     *)
(***************************************************************************)
EveryMutationAudited ==
  Quiet => \A r \in committed : \E i \in DOMAIN auditLog : auditLog[i].id = r

(***************************************************************************)
(* docs/users.md:114: "Setting a user to SUSPENDED or INACTIVE immediately *)
(* blocks their ability to log in".  A token is handed out only to an      *)
(* account that is active at that moment.                                  *)
(***************************************************************************)
TokensGoToActive ==
  [][\A t \in DOMAIN tokens' \ DOMAIN tokens :
       users[tokens'[t].userId].status = "ACTIVE"]_vars

----------------------------------------------------------------------------
(* The inductive invariant *)

\* Where a request can be, given what it asks, and what it holds there.
Placed(r) ==
  LET op == call[r].op IN
  /\ pc[r] \in {"lookup", "compare"} => op = "login"
  /\ pc[r] = "authenticate" => op \notin Public
  /\ pc[r] = "create" => op \in Creation
  /\ pc[r] = "find" => op \in {"getUser"} \cup Change
  /\ pc[r] = "update" => op \in Change /\ call[r].target \in DOMAIN users
  /\ pc[r] = "audit" => op \in Audited /\ (op \in Mutation => r \in committed)
  /\ pc[r] \in {"compare", "audit"} /\ op = "login" =>
       found[r] \in Snapshot /\ found[r].id \in DOMAIN users
  /\ pc[r] \in {"update", "audit"} /\ op \in Change => found[r] \in Snapshot
  /\ pc[r] \in Waiting \/ r \in committed => op \in Public \/ call[r].token \in DOMAIN tokens
  /\ r \in committed \cup DOMAIN users => pc[r] \in {"audit", "done", "lost"}
  /\ r \in DOMAIN tokens => pc[r] = "done"
  /\ response[r] # 0 => pc[r] = "done"

Recorded ==
  /\ \A i \in DOMAIN auditLog : pc[auditLog[i].id] = "done"
  /\ \A r \in Request :
       response[r] \in {200, 201} /\ call[r].op \notin Public => call[r].token \in DOMAIN tokens
  /\ SuccessMeansAudited
  /\ RefusedChangedNothing
  /\ AuditedIsCommitted

Granted ==
  /\ \A u \in DOMAIN users : users[u].role = "ADMIN" => EverAdmin(u)
  /\ \A r \in Request :
       pc[r] \in {"create", "find", "update"} /\ call[r].op \notin Public => EverAdmin(Actor(r))

(***************************************************************************)
(* What every reachable state satisfies and every step preserves: types,   *)
(* where each request can be and what it holds there, and the safety       *)
(* properties above with what makes them inductive.                        *)
(***************************************************************************)
IInv ==
  /\ TypeOK
  /\ \A t \in DOMAIN tokens : tokens[t].userId \in DOMAIN users
  /\ \A r \in Request : Placed(r)
  /\ Recorded
  /\ EmailsAgree
  /\ Granted

----------------------------------------------------------------------------
(* Liveness and the long run *)

\* A request that carries a token of a deleted account and has not yet been
\* through authenticate.
FromDeleted(r) ==
  /\ pc[r] \in {"idle", "authenticate"}
  /\ call[r].op \notin Public
  /\ call[r].token \in DOMAIN tokens
  /\ users[Actor(r)].isDeleted

(***************************************************************************)
(* Deletion is final: a request of a deleted account that has not passed   *)
(* authenticate never changes anything, although a concurrent updateStatus *)
(* may set the status of the deleted row back to ACTIVE.                   *)
(***************************************************************************)
DeletedStaysOut ==
  \A r \in Request : [](FromDeleted(r) => [](r \notin committed))

(***************************************************************************)
(* Every request that reached the server is answered in the end, with an   *)
(* error if a statement fails, unless the process dies first.              *)
(***************************************************************************)
EveryRequestAnswered ==
  \A r \in Request : pc[r] \in Waiting ~> pc[r] \in {"done", "lost"}
=============================================================================
