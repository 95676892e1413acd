# Zorvyn Finance backend: specification, model checking and proofs

This directory holds TLA+ modules that model the Zorvyn Finance backend (Express,
TypeScript, Prisma over PostgreSQL), TLC configurations that check them on small
instances, and TLAPS proofs of the properties that matter most, for every
instance. Paths below are relative to the root of the repository; the TypeScript
sources are in `src/`.

## 1. Inventory

| Component | Source | State it keeps | Operations |
|---|---|---|---|
| Roles and guards | `src/constants/index.ts`, `src/middleware/rbac.middleware.ts` | none | `requireRole`, `requireMinRole`, `hasMinRole` |
| Token blacklist | `src/middleware/auth.middleware.ts` | a `Map` from jti to expiry, in the process | `blacklistToken`, `isTokenBlacklisted` |
| Session check | `src/middleware/auth.middleware.ts` | `req.user` | `authenticate` |
| Auth service | `src/modules/auth/` | rows of `users` and `audit_logs`, signed tokens | register, login, logout, me |
| Users service | `src/modules/users/` | rows of `users` and `audit_logs` | list, getById, create, updateRole, updateStatus, delete |
| Records service | `src/modules/records/` | rows of `financial_records` and `audit_logs` | list, getById, create, update, delete |
| Dashboard service | `src/modules/dashboard/` | none, reads records | summary, byCategory, trends, recent, stats |
| Pagination | `src/utils/pagination.ts` | none | `getPagination`, `buildPaginationMeta` |
| Error handler | `src/middleware/error.middleware.ts`, `src/utils/response.ts` | none | error to status code |
| Rate limiters | `src/middleware/rateLimiter.middleware.ts` | counters inside express-rate-limit | count, refuse, take back |
| Server and lifecycle | `src/app.ts` | open connections, the exit timers | the middleware chain, listen, shutdown, forced exit |
| Request id, 404, configuration, logger, Prisma client, seed, tests | the remaining files | nothing of interest | - |

How they interact. A request passes CORS, the body parser and the global limiter,
on login and register (and on no other route) the auth limiter, on protected routes
`authenticate` and, except on `/auth`, a role guard, then a controller that parses the
body with Zod and calls a service; the service talks to the database one statement at a time
and ends with an insertion into `audit_logs`. Errors travel through `next(error)`
to the error handler. All requests share the database tables and the blacklist.
`logout` is the only service that calls into the middleware (`blacklistToken`).

What is hard about it. Node runs one callback at a time, but a request yields at
every `await`: between any two database statements of one request, statements of
others run, and no transaction ties them together. What was read (the status that
decides a login, the row that passed "not deleted", the `before` value for the
audit log, the blacklist) may be stale when it is used. A statement may fail
before or after it took effect; the process may die between two statements and
with it the blacklist. Two clocks meet in the blacklist: seconds in the token,
milliseconds in the map. Clients too act in several steps: the pages of a list and
the figures of the dashboard are requests of their own, and the table changes in
between. The limiters count a request when it comes and forget it when its answer
has gone out, in whatever window that is. A shutdown meets requests in flight.
`PROJECT.json` lists each of these hazards at its line, with the properties that watch it.

What makes each component correct:

- blacklist: a logged-out token is refused for as long as it would otherwise be
  accepted, no other token is refused, entries go away once they are useless;
- accounts: an address names at most one account; privilege comes from privilege
  in the database, never from the claims of a token; a deleted account stays out;
  what an answer says about the mutation is true; no change is lost to another; the
  audit trail invents nothing; everybody is answered;
- records: like accounts, for `financial_records`; a list and its total agree;
- dashboard: figures of one answer belong together, and those of its three
  aggregates agree; the trend window is N months; a month is one entry;
- pagination: the pages are a partition of the rows; the limit is within 1..100; a
  client that reads all pages sees all rows;
- rate limiters: never more than the limit of failed attempts in a window, and
  nobody is refused for what others do;
- lifecycle: requests in flight are answered unless the timer fires, and the
  process ends.

## 2. The modules

| Module | Models | Proofs |
|---|---|---|
| `Roles` | roles, hierarchy, guards, as sets of roles | in `AccountsProofs` |
| `Revocation` | abstract: what revoking a token promises, without clock or map | |
| `TokenBlacklist` | the blacklist and the code that touches it without yielding | `TokenBlacklistProofs` |
| `MCTokenBlacklist` | the instants of the TLC instance | |
| `Accounts` (extends `Roles`) | auth and users services behind `authenticate` and the guards, statement by statement | `AccountsProofs` |
| `MCAccounts` | tables, tokens and sets of calls of the TLC instances | |
| `RecordTypes` (extends `Roles`) | rows of `financial_records`, patches and calls; no state | |
| `Ledger` (extends `RecordTypes`) | abstract: what the records service promises, without statements or awaits | |
| `Records` (extends `RecordTypes`) | records service behind its guards, and `getStats` of the dashboard, statement by statement | `RecordsProofs` |
| `MCRecords` | table and sets of calls of the TLC instances | |
| `Calendar` | the `Date` methods that `getTrends` uses; no state | in `ReportsProofs` |
| `Pagination` | `getPagination`, `buildPaginationMeta`, skip and take; no state | in `ReportsProofs` |
| `Dashboard` (extends `Calendar`, `Pagination`, `Roles`) | `getSummary`, `getByCategory`, `getTrends` as operators on a table | `FoldProofs` (sums and loops), `DashboardProofs` |
| `Reports` (extends `Dashboard`) | a client that reads the dashboard or walks through the pages of the list while the table changes | `ReportsProofs`; `WalkProofs`, walks while the table changes; `DashboardProofs`, the dashboard |
| `MCReports` | tables, filters and instants of the TLC instances | |
| `Server` | the middleware chain, the limiters, the connections and the life of the process | `ServerProofs` |
| `MCServer` | requests and limits of the TLC instance | |

`Accounts` uses the blacklist at the level `TokenBlacklist` justifies: a set
`revoked` of tokens, tested before the await of `authenticate`. Token lifetimes
live in `TokenBlacklist` only. `Server` is around them: its `Handle` is any handler,
that is a request of `Accounts` or `Records` from `Arrive` to its answer, and its
`Kill` is the `Crash` of `Accounts` and the `Restart` of `TokenBlacklist`. `Reports`
takes the mutations of `Records` as single steps: `Ledger`, which `Records` implements,
is what allows it.

### TokenBlacklist

`now` is `Date.now()`, `exp` the claim of each token in seconds, `tokenBlacklist`
the map. `Issue` is `jwt.sign` in login, `Logout` the synchronous part of
`AuthService.logout` including the purge loop of `blacklistToken`, `Authenticate`
the synchronous part of `authenticate`: `jwt.verify` reads the clock, then
`isTokenBlacklisted` reads it again at `later >= now` and drops an expired entry.
`Restart` empties the map. Under the mapping
`live <- {verifiable tokens}`, `revoked <- {live tokens in the map}` the module
implements `Revocation`. That specification forgets revocations only in a step that
forgets them all (`Forget`), and leaves one answer open: of a token that expires while
it is being presented. The code does use this freedom. `NoResurrection`: nothing but a
restart makes a refused token acceptable again.

### Accounts

A request is a process with a program counter `pc`; its value names the await
where the request is suspended, and each action is the code from one await to the
next with everything it changes.

| Action | Code |
|---|---|
| `Arrive` | up to the first await: `jwt.verify`, the blacklist, or straight into register/login |
| `Authenticate` (`Refuse`, `Admit`, `Dispatch`) | the rest of `authenticate`, the role guard, the controller and the service up to its first await; for logout that includes `blacklistToken`, for delete the own-account test |
| `Lookup`, `Compare` | `user.findUnique` of login; the decisions after `bcrypt.compare` and `jwt.sign` |
| `Create` | `user.create` of register and create, with the unique index (409) |
| `Find`, `Update` | `findUniqueOrThrow` (404) and `user.update` of the users service, the latter under the unique index too |
| `Audit` | `auditLog.create` and the answer; login hands out its token here |
| `DbError` | a statement of a request in `MayFail` rejects without effect: 401 in `authenticate`, 500 elsewhere |
| `Create`, `Update`, `Audit` of a request in `MayFail` | a statement takes effect and then rejects |
| `Crash` | the process dies and restarts: requests in flight lost, blacklist empty |

The hash that `register` and `create` compute before their insertion reads
nothing shared, so that await is folded into the one of the insertion. `found` is
the row a request has read, which is how staleness enters. `committed` is a
history variable: the requests whose mutation took effect. Abstracted away: names, passwords
(a login call says whether its password is right), timestamps, IP and user agent,
message texts, and bodies that Zod refuses (they change nothing). New ids (cuid)
and jtis are assumed fresh.

`register` and `create` check only that an address is a valid one
(`src/modules/auth/auth.schema.ts:20`), so somebody may register under
`deleted_<id>@deleted.invalid`, the address that deleting account `<id>` would give it.
The deletion then violates the unique index and answers 409, and the account cannot
be deleted as long as that registration stands: the disjunct `taken` of `Update`.

`Workloads` says what is asked: each element gives every request its call. What the
requests did is read off `committed` and `call`: `Changes` are the changes of a
column of an account that took effect, in whatever order. `NoChangeLost` and
`BeforeWasThere` compare the table and the audit log with them.

### Records

Like `Accounts`, with `pc` naming the await; a call carries the role that
`authenticate` found, since what happens before the guard is `Accounts`' matter.

| Action | Code |
|---|---|
| `Arrive` | the role guard, the controller and the service up to its first await |
| `Create` | `financialRecord.create` |
| `Find` | `findUniqueOrThrow` with `isDeleted: false`, the answer of getById included |
| `Update` | `financialRecord.update` of update (the columns provided) and of delete (the mark), by id alone |
| `Audit` | `auditLog.create` and the answer |
| `Read` | one of the statements that `Promise.all` sends together: page and count of list; count, groupBy and recent count of getStats |
| `DbError` | a statement rejects without effect; the others of its `Promise.all` change nothing |
| `Create`, `Update`, `Audit` with `DbMayFail` | a statement takes effect and then rejects |

Columns are a function on `Field`; only the type has a meaning. Of the filters of
list the one on the type is kept, of a page its size, of `createdAt` whether it lies
within 30 days (rows do not age during a run). Bodies and queries that Zod refuses
change nothing and are left out. `history` and `started` are history variables: the
mutations in the order they took effect, and how many there were when a request
arrived.

`Ledger` is what a client may rely on. A mutation takes effect at one instant
between call and answer, at most once, on the columns it names; it is on record
before its success is reported; a refusal is justified when given and excludes an
effect. It leaves open what the code leaves open: a mutation answered 500 may have
taken effect, and an update or deletion may hit a row deleted since the call.
`Records` implements it under `rows <- records`, `taken <- Committed`,
`recorded <- Recorded`, `answer <- response`.

### Reports

`Calendar`, `Pagination` and `Dashboard` are the pure part: `SetMonth` is `setMonth` with
its overflow, `MonthKey` the key of a month, `TotalPages` the rounded-up quotient,
`getTrends` the loop over the ordered rows that fills a `Map` in order of insertion.
`Reports` is a client in front of them, because what a page or a figure is worth shows
only next to the other ones, which come from other states of the table.

| Action | Code |
|---|---|
| `OpenDashboard` | the guards of `/summary`, `/by-category`, `/trends` and the controller of the last: `months` clamped, `new Date()`, `setMonth` |
| `ReadDashboard` | one of the three statements, with what the service makes of its rows; those of one date come in any order |
| `StartWalk` | `getPagination` for page 1 of a list with some filter and limit |
| `ReadPage`, `ReadTotal` | `findMany` and `count` of `RecordsService.list`, in any order; rows of one date come in any order, each time anew |
| `Turn` | the answer with `buildPaginationMeta`; the client goes on as long as `totalPages` says so |
| `Insert`, `Update`, `Delete` | a mutation of `RecordsService` as it takes effect |

`changes` and `twins` are history variables: the mutations since the client began, and
whether two records have had one date. `Limits` and `Months` are query parameters as
`parseInt` reads them. (`recordQuerySchema` checks the same parameters with `Number`, so
that `limit=250e-1` is checked as 25 and read as 250; the list of users checks nothing.
Either way it is the clamp that decides.)
The clock of the server is assumed to run on UTC: `getMonth` and `setMonth` are local,
and west of UTC a record of the first of a month counts in the month before.

### Server

`stage` says where a request is, `status` what answer is on its way, `gone` that its
client has closed the connection. A request that is answered and keeps its
connection is `idle`. `store` is the memory store of express-rate-limit: for each
limiter and client the current window and its hits. Requests are numbered by arrival.

| Action | Code |
|---|---|
| `Arrive` | a new connection while the server listens, or an idle one; `cors`, which refuses an origin by an error (500) and answers a preflight itself |
| `Parse` | `express.json` (400, 413), then the global limiter |
| `Route` | the auth limiter before login and register ("auth"), nothing before the other routes ("api"); `/ready`, the 404 handler |
| `Handle` | a handler answers: a success, or an error through `errorHandler` |
| `Finish` | the response is out; `skipSuccessfulRequests` takes the hit back |
| `Leave` | the client closes the connection; the handler goes on |
| `Signal` (`Shutdown`) | `server.close` and a new forced-exit timer |
| `CloseCallback`, `Disconnected` | the callback of `server.close`; `$disconnect` and `process.exit(0)` |
| `ForcedExit`, `Uncaught` | `process.exit(1)` |

`/health`, which waits for the database, counts among the routes without a limiter of
their own ("api"). Observations the model rests on: `finish` is not emitted for a
client that has left, so the success of such a request is not taken back; a refused
attempt stays counted; exit code 0 waits for connections and not for handlers, so a
handler whose client has left may be cut between its mutation and its audit row
(`CleanExit` allows that).

The documents promise ten attempts per window. The limiter counts failures only, by
`skipSuccessfulRequests`, and not even of those exactly ten: a success that was counted in
one window and is answered in the next is taken back from the count of the next
(`Late`), where an eleventh failure then passes. `AttemptsCapped` states the promise for
failed attempts and is violated; `CapsHold` is what the code does keep, with one
more attempt per late success.

## 3. The runs

| Run | Checks | Result |
|---|---|---|
| `blacklist` | `Inv`, `ImplementsRevocation`, `NoResurrection`, `LogoutCleansUp` | holds |
| `accounts` | `IInv`, `EmailsAgree`, `AuditedIsCommitted`, `SuccessMeansAudited`, `RefusedChangedNothing`, `NoChangeLost`, `BeforeWasThere`, `NoEscalation`, `LockoutTakesTwo`, `DeletedStaysOut`, `EveryRequestAnswered` | holds |
| `lockout` | `DeleteKeepsAnAdmin`, two deletions | violated |
| `audit_lost` | `EveryMutationAudited`, one change and a crash | violated |
| `stale_before` | `BeforeIsReplaced`, two changes | violated |
| `stale_login` | `TokensGoToActive` | violated |
| `records` | `IInv`, `NoLostUpdate`, `FiguresAgree`, `ImplementsLedger` | holds |
| `reports` | `IInv`, `TrendsWindow`, `EndpointsAgree`, `TrendsByMonth`, `WalkComplete`, `WalkDrift` | holds |
| `trends` | `TrendsCoverMonths` | violated |
| `pages` | `WalkShowsAll` | violated |
| `server` | `IInv`, `CapsHold`, `CleanExit`, `RefusedOnlyWhenFull`, `StopsAfterSignal` | holds |
| `attempts` | `AttemptsCapped` | violated |

The violated ones state what the documents say and the code does not do; each is
a finding in `PROJECT.json` with the sentence quoted:

- `lockout`: two administrators delete each other. `LockoutTakesTwo`, which holds, says
  that a deletion locks everybody out in no other way: the one who asked for it must
  have lost role, status or account to another request meanwhile. Besides, nothing stops the last
  administrator from demoting or suspending itself, but no document says otherwise;
- `audit_lost`: the process dies between the change of a role and the insertion of its
  audit row; the change stays and nothing ever inserts the row. A failing insertion has
  the same effect, but then the client is told (500);
- `stale_before`: two changes of one account's role have both read it; the second replaces
  what the first has written and records the value from before both. `BeforeWasThere`
  is what holds: the account has had that value, and not through that change;
- `stale_login`: a suspension during `bcrypt.compare` does not stop the token
  (which `authenticate` then refuses: the suspended user gets a token, not access);
- `trends`: on 30 March the window of one month begins on 2 March, since 30 February
  runs over, and a record of 1 March is missing. `TrendsWindow` says that no more than
  three days at a month's end and beginning are ever lost, and only late in a month;
- `pages`: a list is ordered by date alone and each page is a query of its own, so
  that records of one date may be shown twice or never. `WalkComplete` holds when
  dates differ; `WalkDrift` bounds what mutations do to a walk;
- `attempts`: a late success makes room for one failed attempt above the limit (see
  Server).

More things the models show and no run is spent on:

- a restart forgets all revocations (`Restart`); `README.md:207` says so,
  `docs/README.md:13` does not;
- who registers under the anonymised form of an account's address keeps that account
  from being deleted (`Update` answers 409);
- a request that has passed the blacklist goes on although its token is revoked while
  it waits for the user row;
- the figures of getStats come from three statements and need not describe one state;
  `FiguresAgree` says by how much they can differ;
- a revoked token presented in its last millisecond can be accepted once (`Revocation`
  leaves that answer open, because two clock readings disagree);
- an unreachable database looks like an invalid token (`DbError` answers 401 inside
  `authenticate`);
- two overlapping deletions of a record both succeed and are both audited, which
  loses no data;
- the trends have no upper bound, so records dated in the future add months to them;
  and a window of N months touches N+1 calendar months;
- a refusal by CORS comes before `requestId`, so it is the one error without a trace
  id (`src/middleware/error.middleware.ts:11` says that all errors have one).

Bounds, and why they are enough. `blacklist`: two tokens of lifetime 1 s (one to be
revoked, one to be left alone), instants at the edges of each second and of each
millisecond where an entry expires; the code treats tokens independently apart
from the purge, which two tokens exercise. The second of two
overlapping logouts of one token purges too, but `LogoutCleansUp` speaks only of logouts
that add a key. `accounts`: any three of
eleven calls in which one request can affect another, all in flight at once, because
the races of the code are between a reader-writer pair and
a third request that uses the outcome (a promoted account acts, a freed address is
taken, an address that a deletion needs is taken first, a created account is used
through its own request as target); and any other two of 25 calls, over every operation
and every way it ends. In all of them the process may crash once and the
statements of one request, any of them in turn, may fail. The runs
`lockout`, `audit_lost`, `stale_before` and `stale_login` need one or two requests and name them.
`records`: three overlapping requests, any statement failing, on one record and on one
that another request creates, with two columns, so that writers of the same column, of
different ones and of none meet a deletion; lists with page size 1, so that page and
total can part, and statistics over the rows they move. Two of the requests are
interchangeable (`SYMMETRY`); the third is named by the calls. Rows and columns interact
only through one record or one count, so more of them add no new interaction.
`reports`: four tables (with the turn of a year, with the days around the end of
February, with two records of one date, empty), up to two mutations, limits 0 (that is
the default), 1, 2 and 250, instants on the last days of months before shorter ones, in
common and leap years. Two mutations are the least with which two errors of a
walk could add up; `WalkDrift` was also checked once on five ids with three. Walks begin at page 1 and
go on page by page; a client that asks for some page out of order is not exercised,
only the arithmetic of any page is (`PagesPartition`).
`server`: three requests of two clients, limits 2 and 1, two windows, two signals. It
takes two requests to meet the auth limit while one is in flight, three to meet the
global one, two windows for an answer that comes late, and two signals for two timers.
`attempts`: three requests of one of these clients, two windows and no signal.
The theorems below have none of these bounds.

Fairness. `FairSpec` has weak fairness for each admitted request: its
next step or its error happens in the end. The event loop runs each ready
callback, and Prisma settles each statement, by an error if the connection is
lost. No fairness is assumed for the arrival of requests, nor for crashes.
`EveryRequestAnswered` is the liveness property of the account services.
`Records` has no fairness: its handlers have the same shape and are not checked
for liveness again. `Reports` has none: a client may stop at any page. `Server` has weak
fairness for `ForcedExit` only, a timer that is sure to fire: handlers may hang and
clients may keep their connections for ever, and `StopsAfterSignal` holds nonetheless.

`Finished` lets a run of `Accounts`, `Records` or `Reports` end when all requests are
answered or lost, so deadlock checking stays on there: a request that gets stuck is a
deadlock. It is off in `server`, where the process really ends.

Each property of a passing run has a mutant: a definition with a plausible bug,
kept beside the original (its comment starts with "Mutant of"), under which TLC
finds the property violated.

## 4. The proofs

`TokenBlacklistProofs`, for any set of tokens, any instants and any lifetime:

- `InvariantHolds`: `Spec => []Inv`. `Inv` is inductive as it stands: each map entry
  is 1000 times the `exp` claim of a signed token.
- `BlacklistImplementsRevocation`: `Spec => ImplementsRevocation`. The heart is that
  a verifiable token (`now \div 1000 < exp`) cannot have an entry below `now`
  (`exp * 1000 < now`), so neither purging nor lazy deletion ever touches a live
  revoked token.
- `RevokedStaysRevoked`, `LogoutLeavesNoExpiredEntry`: the two action properties.

`AccountsProofs`, for any tables, tokens, calls, number of requests, with failures
and crashes, from the named assumptions of `Accounts`: `InitialAssumption` (initial
rows and tokens well typed, addresses unique, deleted rows anonymised), `FreshAssumption`
(new ids and jtis are new), `WorkloadsAssumption` and `BoundsAssumption` (well typed).
Nothing is assumed of the addresses that people register with:

- `InvariantHolds`: `Spec => []IInv`, where `IInv` joins the types, `Placed` (where a
  request can be given what it asks, what it has read there, that a committed
  request is past its update), `Recorded` (the audit properties, and that only
  finished requests have rows), the consistency of the table and `Granted` (who is,
  or is about to act as, an administrator was made one). The safety properties are
  not inductive alone: that a success is audited needs to know that a request at its
  audit statement has committed, and that nobody has two rows needs that rows belong
  to finished requests.
- `TypeCorrect`, `AddressesAgree`, `SuccessIsAudited`, `RefusalChangesNothing`,
  `AuditIsGenuine`: its consequences.
- `PrivilegeFromPrivilege` (`NoEscalation`) and `DeletionIsFinal`
  (`DeletedStaysOut`): the action and the two-state temporal property.
- `ChangesKept`, `AuditedBeforeWasThere`: `Spec => []NoChangeLost` and
  `Spec => []BeforeWasThere`, from the invariant `History`: it adds that the targets of
  effective changes exist and that what a request has read of its target was there
  and not through itself (`ReadWasThere`). The heart is that each `user.update` writes
  exactly its own columns (`UpdatedColumns`, `UpdateKeepsChanges`).
- `LockoutNeedsTwo`: `Spec => LockoutTakesTwo`. The strengthening is `Backed`: a request that
  `authenticate` has let through to a change is not about its own account, and its actor
  is still an active administrator or has been the target of a change that takes that
  away. What is left is `AdminStays`: nothing else makes an active administrator
  something else.
- `GuardsCoincide`: the list guards equal the hierarchy guards.

`RecordsProofs`, for any finite table, any columns and values, any requests and
calls, with failures, from `FieldAssumption`, `RowsAssumption` (initial rows well
typed and finitely many, ids fresh) and `BoundsAssumption`:

- `InvariantHolds`: `Spec => []IInv`. `IInv` joins the types, that the table is finite
  and only grows, `Placed` (where a request can be and what it holds there) and that
  the audit log names only effective mutations that are over. Each step is that of
  one request, so `StepFrame` states once what it leaves to the others.
- `RecordsImplementLedger`: `Spec => ImplementsLedger`. `Create` and `Update` map to
  `TakeEffect`, `Audit` to `Record`, the other steps to `Report`, `Refuse`, `Fail` or a
  stutter. The invariant is needed to know that a request at its update has not taken
  effect and that one at its audit statement has, and is not yet on record.
- `NoUpdateIsLost`: `Spec => []NoLostUpdate`, inductive together with `IInv`; the heart
  is `LastWriter`, that a request which takes effect is the last writer of exactly
  the columns it names.
- `FiguresDriftApart`: `Spec => []FiguresAgree`. `DriftInv` compares each figure read with
  the total, or with the rows that match now as long as the total has not been
  read. A mutation touches one row and so moves a count by at most one, as it does
  the drift (`WithinLater`); a statement returns what holds now (`WithinRead`).

`ReportsProofs`, for any finite set of ids, any tables, filters, instants and query
parameters, any number of mutations, from `ParametersAssumption` (they are well typed):

- `PagesPartition`: each position of a list of any length is on exactly one of the pages
  1..totalPages. A fact of the quotient, on which the walk rests.
- `InvariantHolds`: `Spec => []IInv`: among others, that limit and months are within
  bounds and that the window begins on a date that exists, whatever `setMonth` does.
- `WindowHolds`: `Spec => []TrendsWindow`. The heart is `WindowOf`: a day is at most three
  past the end of its month, since a month has 28 to 31 days.
- `WalksAreComplete`: `Spec => []WalkComplete`. The strengthening is `WInv`: as long as
  nobody changes the table, what has been shown is as long as the pages so far, and
  each row stands where it may. "Where it may" (`Placed`) is a bound by ranks: as many
  rows before it as are strictly newer, as many as are not older. That way tied rows,
  which each query may order anew, need no common order between pages; without ties
  the bounds meet and the position is determined.

`WalkProofs`, from the same assumption:

- `DriftIsBounded`: `Spec => []WalkDrift`. The strengthening `DriftInv` does not follow the
  rows, it counts those on the wrong side of the cut. `Rank` is the place of a row in
  the list as it is now, `Cut` the rank up to which the client has asked. `Slipped` are
  untouched rows below the cut that were not shown, `Excess` is by how much the list has
  outgrown the total the client goes by, so that it may stop too early: together they
  are no more than the mutations. `Returning` are rows from the cut on that were
  shown and may be shown again: with those shown twice already they are no more than
  the creations and updates. The heart is `RankMoves`: a mutation moves the ranks of the
  other rows by at most one, all in one direction, so that at most one of them crosses
  the cut (`BelowMoves`, `FromMoves`), and a deletion takes none to the far side.

`DashboardProofs`, from the same assumption, on the lemmas about sums of `FoldProofs`:

- `TrendsAreByMonth`: `Spec => []TrendsByMonth`: every month with a record in the window is
  shown, and no other. The loop of `getTrends` keeps `Monthly`: the
  entries are the months of the rows read so far, each once and in order, with the sums
  of their rows (`TurnKeepsMonthly`). The order of the entries rests on that of the rows: a
  row that is read later is in the last month or in a later one. How the database orders
  records of one date makes no difference.
- `AggregatesAgree`: `Spec => []EndpointsAgree`. The groups of `groupBy` and the months of the loop
  are partitions of the same rows, and a sum of the sums of the parts is the sum of the
  whole (`SumOfGroupsIsSum`). `BoardInv` carries the three answers to the moment they are
  put side by side.

`ServerProofs`, for any number of requests, clients, windows and signals, any limits,
from `ServerAssumption`:

- `InvariantHolds`: `Spec => []IInv`. The cap is not inductive: it needs that the hits
  of the current window are what is owed in it, less what came back late
  (`HitsAreOwed`), and that needs `CountedInOrder` and `WindowsInOrder`: a request is counted once, never
  after the client's current window, and comes back at most once.
- `CapsAlwaysHold`, `ExitIsClean`: its consequences.
- `RefusalMeansFull` (`RefusedOnlyWhenFull`): the action property.

Only model-checked:

- liveness (`EveryRequestAnswered`, `StopsAfterSignal`), which the prover does not handle.
  All other properties of the passing runs are theorems.

Induction over data. The library's induction rules take the property as an operator,
which the provers cannot instantiate. `FoldProofs` derives rules in which the property
is a set of cases (`SubsetInduction`, `SetInduction`, `UpTo`) from a fact that takes
none, that proper inclusion is well-founded on finite sets. With them it shows
that the recursive definitions behind `SumFunctionOnSet` and `FoldLeft` define
something (`FoldExists`), which is where each fact about a sum or a loop begins.

The inductive invariants named `IInv` and `Inv` are properties of the runs. `History` is made
of two properties of `accounts` and of what supports them. `DriftInv`, `Monthly` and `BoardInv`
need definitions of the proof modules; each was checked once with TLC on the instance of
its run before it was proved.

## 5. Plan

1. done: `Roles`, `Revocation`, `TokenBlacklist`, `Accounts` with runs and proofs.
2. done: `RecordTypes`, `Ledger`, `Records` with runs and proofs.
3. done: `Calendar`, `Pagination`, `Dashboard`, `Reports` with runs and proofs. The
   calendar is compared with a reference (`MonthsBack`) inside `TrendsWindow`.
4. done: `Server`, the limiters and the lifecycle in one module, because they share the
   requests and their connections, with its run and proofs.
5. done, theorems: `FiguresAgree`.
6. done, theorems: `WalkDrift`, `EndpointsAgree`, `TrendsByMonth`; the properties of
   overlapping changes of accounts (`NoChangeLost`, `BeforeWasThere`, `LockoutTakesTwo`).
7. left, model: `getRecentActivity`.

## 6. Not modelled

`getRecentActivity` is one statement whose rows are passed on as they are; it needs
the order of `createdAt`, which nothing else that is modelled depends on. Amounts
are whole numbers: the rounding of `Float` sums is left out. Time zones and summer
time are left out (see Reports). Trace ids, logging, configuration, Swagger, Helmet and
compression keep no state that a property could be about. The seed script and
the tests are not part of the running program. `src/lib/prisma.ts` holds a client
object and helpers nobody calls. `GET /users` reads only and comes with pagination;
what a walk through its pages is worth is what `Reports` says of the records.
