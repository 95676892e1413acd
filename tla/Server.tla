------------------------------- MODULE Server -------------------------------
(***************************************************************************)
(* The HTTP server of app.ts around the handlers: the middleware that a    *)
(* request passes in order (CORS, body parser, the global limiter, the     *)
(* routers and their auth limiter, the 404 handler, the error handler),    *)
(* and the life of the process, from listen through the signals and        *)
(* server.close to the exit.                                               *)
(*                                                                         *)
(* What a handler does is the matter of Accounts and Records: here it      *)
(* answers with some status, sooner, later or never.                       *)
(*                                                                         *)
(* The counting is done by express-rate-limit: per client, in windows that *)
(* begin with the client's first request after the last one ended.         *)
(***************************************************************************)
EXTENDS Integers, FiniteSets

CONSTANTS MaxRequests, \* bound: the requests that arrive
          Client,      \* the keys of the limiters (req.ip)
          Calls,       \* what may be requested
          Successes,   \* the statuses of a handler's success
          Errors,      \* what a handler may throw
          Max,         \* the max of each limiter
          MaxWindows,  \* bound: the windows a client lives to see
          MaxSignals   \* bound: the signals the process receives

Limiter == {"global", "auth"}

Call == [client : Client,
         origin : BOOLEAN,                       \* allowed by cors
         body   : {"ok", "malformed", "large"},
         route  : {"auth", "api", "ready", "none", "preflight"}]

\* What reaches errorHandler: its kind, and the status of an error with one.
Error == [kind : {"zod", "P2002", "P2025", "status", "other"}, status : Nat]

ASSUME ServerAssumption ==
  /\ Calls \subseteq Call
  /\ Successes \subseteq 200..399
  /\ Errors \subseteq Error
  /\ Max \in [Limiter -> Nat]
  /\ MaxRequests \in Nat /\ MaxWindows \in Nat /\ MaxSignals \in Nat

\* Requests are numbered as they arrive.
Req == 1..MaxRequests

VARIABLES
  phase,    \* of the process
  timers,   \* forced-exit timers that are running
  stage,    \* where each request is
  call,     \* what it asks for
  status,   \* of the response on its way to the client; 0 when there is none
  gone,     \* the client has closed the connection and the request goes on
  store,    \* of each limiter: the window each client is in, and its hits there
  counted,  \* history: the window in which a limiter counted a request, or 0
  passed,   \* history: the requests that a limiter let through
  succeeded \* history: the window of the auth limiter in which the answer went
            \* out of a request that it counted and that succeeded, or 0

process == <<phase, timers>>
request == <<stage, call, status, gone>>
limits  == <<store, counted, passed, succeeded>>
vars    == <<process, request, limits>>

NoCall == [client |-> "none"]

Phase == {"serving", "closing", "disconnecting", "stopped", "killed"}
Stage == {"new", "parsing", "routing", "handling", "answered", "idle", "closed"}

Exited == phase \in {"stopped", "killed"}

\* Requests on an open connection: those whose answer the client waits for, and
\* the last one of a connection that is kept alive.
Connected == {r \in Req : stage[r] \notin {"new", "closed"} /\ ~gone[r]}
Waiting   == {r \in Connected : stage[r] # "idle"}

Init ==
  /\ phase = "serving" /\ timers = 0
  /\ stage = [r \in Req |-> "new"]
  /\ call = [r \in Req |-> NoCall]
  /\ status = [r \in Req |-> 0]
  /\ gone = [r \in Req |-> FALSE]
  /\ store = [l \in Limiter |-> [k \in Client |-> [window |-> 0, hits |-> 0]]]
  /\ counted = [l \in Limiter |-> [r \in Req |-> 0]]
  /\ passed = [l \in Limiter |-> {}]
  /\ succeeded = [r \in Req |-> 0]

----------------------------------------------------------------------------
(* Answers *)

\* errorHandler
ErrorStatus(e) ==
  CASE e.kind = "zod"    -> 422
    [] e.kind = "P2002"  -> 409
    [] e.kind = "P2025"  -> 404
    [] e.kind = "status" -> e.status
    [] OTHER             -> 500

Goto(r, s) ==
  /\ stage' = [stage EXCEPT ![r] = s]
  /\ UNCHANGED <<call, status, gone>>

\* Nothing is left of a request but its counts.
End(r, s) ==
  /\ stage' = [stage EXCEPT ![r] = s]
  /\ status' = [status EXCEPT ![r] = 0]
  /\ gone' = [gone EXCEPT ![r] = FALSE]
  /\ UNCHANGED call

\* res.end: the answer is on its way, if the client is still there.
Answer(r, s) ==
  \/ /\ gone[r]
     /\ End(r, "closed")
  \/ /\ ~gone[r]
     /\ stage' = [stage EXCEPT ![r] = "answered"]
     /\ status' = [status EXCEPT ![r] = s]
     /\ UNCHANGED <<call, gone>>

----------------------------------------------------------------------------
(* The limiters *)

\* MemoryStore.increment: in the client's window, or in a new one when the time
\* of the old one is over.
Increment(entry) ==
  {[entry EXCEPT !.hits = entry.hits + 1] : w \in {entry.window} \ {0}}
    \cup {[window |-> w, hits |-> 1] : w \in {entry.window + 1} \cap 1..MaxWindows}

\* rateLimit: the request is counted, and goes on or is refused.  A refused one
\* stays counted.
Limit(l, r, next) ==
  LET k == call[r].client IN
  \E entry \in Increment(store[l][k]) :
    /\ store' = [store EXCEPT ![l][k] = entry]
    /\ counted' = [counted EXCEPT ![l][r] = entry.window]
    /\ UNCHANGED succeeded
    /\ IF entry.hits <= Max[l]
       THEN passed' = [passed EXCEPT ![l] = @ \cup {r}] /\ Goto(r, next)
       ELSE UNCHANGED passed /\ Answer(r, 429)

\* Mutant of Lowered: the count of a window may fall below zero.
LoweredFreely(entry) == [entry EXCEPT !.hits = entry.hits - 1]

\* MemoryStore.decrement
Lowered(entry) == IF entry.hits > 0 THEN [entry EXCEPT !.hits = entry.hits - 1] ELSE entry

\* Mutant of TakesBack: skipFailedRequests in the place of skipSuccessfulRequests.
TakesBackFailed(l, r) == l = "auth" /\ counted[l][r] # 0 /\ status[r] >= 400

\* Mutant of TakesBack: only 200 is a success; register answers 201.
TakesBackOk(l, r) == l = "auth" /\ counted[l][r] # 0 /\ status[r] = 200

\* skipSuccessfulRequests, in the 'finish' listener of the response.
TakesBack(l, r) == l = "auth" /\ counted[l][r] # 0 /\ status[r] < 400

----------------------------------------------------------------------------
(* The way of a request *)

\* The connection on which a request comes: a new one, which only a listening
\* server accepts, or one that an earlier request of the client has kept open.
Accepted(r, c, q) ==
  \/ q = r /\ phase = "serving"
  \/ stage[q] = "idle" /\ call[q].client = c.client

\* helmet, cors, requestId, pinoHttp: all but cors let every request pass.
Arrive(r, c, q) ==
  /\ ~Exited /\ stage[r] = "new"
  /\ \A earlier \in 1..r - 1 : stage[earlier] # "new"
  /\ Accepted(r, c, q)
  /\ call' = [call EXCEPT ![r] = c]
  /\ LET refused == ~c.origin
         done    == refused \/ c.route = "preflight"
     IN  /\ stage' = [stage EXCEPT ![q] = "closed",
                                   ![r] = IF done THEN "answered" ELSE "parsing"]
         /\ status' = [status EXCEPT ![r] =
              IF refused THEN ErrorStatus([kind |-> "other", status |-> 0])
              ELSE IF done THEN 204 ELSE 0]
  /\ UNCHANGED <<process, gone, limits>>

\* express.json refuses a body; that its client has left it notices only while
\* it waits for the body.
BodyStatus(r) ==
  {s \in {400, 413} :
     \/ s = 400 /\ (gone[r] \/ call[r].body = "malformed")
     \/ s = 413 /\ call[r].body = "large"}

Parse(r) ==
  /\ ~Exited /\ stage[r] = "parsing"
  /\ \/ /\ \E s \in BodyStatus(r) :
             Answer(r, ErrorStatus([kind |-> "status", status |-> s]))
        /\ UNCHANGED limits
     \/ /\ call[r].body = "ok"
        /\ Limit("global", r, "routing")
  /\ UNCHANGED process

Route(r) ==
  /\ ~Exited /\ stage[r] = "routing"
  /\ \/ /\ call[r].route = "auth"
        /\ Limit("auth", r, "handling")
     \/ /\ call[r].route = "api"
        /\ Goto(r, "handling")
        /\ UNCHANGED limits
     \/ /\ call[r].route \in {"ready", "none"}
        /\ Answer(r, IF call[r].route = "ready" THEN 200 ELSE 404)
        /\ UNCHANGED limits
  /\ UNCHANGED process

\* A handler answers, also one whose client has left.
Handle(r) ==
  /\ ~Exited /\ stage[r] = "handling"
  /\ \E s \in Successes \cup {ErrorStatus(e) : e \in Errors} : Answer(r, s)
  /\ UNCHANGED <<process, limits>>

\* The response emits 'finish'; the connection is kept alive or not.
Finish(r) ==
  /\ ~Exited /\ stage[r] = "answered"
  /\ \E s \in {"idle", "closed"} : End(r, s)
  /\ LET k == call[r].client IN
     /\ store' = [l \in Limiter |-> IF TakesBack(l, r)
          THEN [store[l] EXCEPT ![k] = Lowered(store[l][k])] ELSE store[l]]
     /\ succeeded' = [succeeded EXCEPT ![r] =
          IF counted["auth"][r] # 0 /\ status[r] < 400
          THEN store["auth"][k].window ELSE 0]
  /\ UNCHANGED <<process, counted, passed>>

\* The client closes the connection, or the keep-alive time of an idle one is over.
Leave(r) ==
  /\ ~Exited /\ r \in Connected
  /\ \/ /\ stage[r] \in {"answered", "idle"}
        /\ End(r, "closed")
     \/ /\ stage[r] \in {"parsing", "routing", "handling"}
        /\ gone' = [gone EXCEPT ![r] = TRUE]
        /\ UNCHANGED <<stage, call, status>>
  /\ UNCHANGED <<process, limits>>

----------------------------------------------------------------------------
(* The life of the process *)

\* Mutant of Shutdown: no forced exit.
ShutdownNoTimer ==
  /\ phase' = IF phase = "serving" THEN "closing" ELSE phase
  /\ stage' = [r \in Req |-> IF stage[r] = "idle" THEN "closed" ELSE stage[r]]
  /\ UNCHANGED timers

\* shutdown: server.close stops listening and closes the idle connections, and
\* a timer is started, with every signal another one.
Shutdown ==
  /\ phase' = IF phase = "serving" THEN "closing" ELSE phase
  /\ stage' = [r \in Req |-> IF stage[r] = "idle" THEN "closed" ELSE stage[r]]
  /\ timers' = timers + 1

Signal ==
  /\ ~Exited /\ timers < MaxSignals
  /\ Shutdown
  /\ UNCHANGED <<call, status, gone, limits>>

\* Mutant of Drained: the database is left once no handler runs.
DrainedHandlers == \A r \in Req : stage[r] # "handling"

\* When server.close calls back.
Drained == Connected = {}

CloseCallback ==
  /\ phase = "closing" /\ Drained
  /\ phase' = "disconnecting"
  /\ UNCHANGED <<timers, request, limits>>

\* prisma.$disconnect has succeeded or failed.
Disconnected ==
  /\ phase = "disconnecting"
  /\ phase' = "stopped"
  /\ UNCHANGED <<timers, request, limits>>

\* process.exit(1): whatever was under way ends where it is.
Kill ==
  /\ phase' = "killed"
  /\ stage' = [r \in Req |-> IF stage[r] = "new" THEN "new" ELSE "closed"]
  /\ status' = [r \in Req |-> 0]
  /\ gone' = [r \in Req |-> FALSE]
  /\ UNCHANGED <<timers, call, limits>>

ForcedExit == ~Exited /\ timers > 0 /\ Kill

Uncaught == ~Exited /\ Kill

Next ==
  \/ \E r \in Req :
       \/ \E c \in Calls, q \in Req : Arrive(r, c, q)
       \/ Parse(r) \/ Route(r) \/ Handle(r) \/ Finish(r) \/ Leave(r)
  \/ Signal \/ CloseCallback \/ Disconnected \/ ForcedExit \/ Uncaught

\* Handlers and clients may take for ever: only the timer is sure to fire.
Spec == Init /\ [][Next]_vars /\ WF_vars(ForcedExit)

----------------------------------------------------------------------------
(* Properties *)

TypeOK ==
  /\ phase \in Phase /\ timers \in 0..MaxSignals
  /\ stage \in [Req -> Stage]
  /\ call \in [Req -> Calls \cup {NoCall}]
  /\ status \in [Req -> Nat]
  /\ gone \in [Req -> BOOLEAN]
  /\ store \in [Limiter -> [Client -> [window : 0..MaxWindows, hits : Nat]]]
  /\ counted \in [Limiter -> [Req -> 0..MaxWindows]]
  /\ passed \in [Limiter -> SUBSET Req]
  /\ succeeded \in [Req -> 0..MaxWindows]

\* The auth limiter takes the successful requests back, the global one none.
Back(l, r) == IF l = "auth" THEN succeeded[r] ELSE 0

\* Requests of client k counted in window w and not taken back, ...
Owing(l, k, w) ==
  {r \in Req : call[r].client = k /\ counted[l][r] = w /\ Back(l, r) = 0}

\* ... and requests of an earlier window that were taken back in w.
Late(l, k, w) ==
  {r \in Req : call[r].client = k /\ counted[l][r] # w /\ Back(l, r) = w}

(***************************************************************************)
(* What a limiter's store says of a client's current window is what is     *)
(* owed in it, less at most the requests of an earlier window whose answer *)
(* came after that window was over.                                        *)
(***************************************************************************)
HitsAreOwed ==
  \A l \in Limiter, k \in Client, w \in 1..MaxWindows :
    store[l][k].window = w =>
      /\ store[l][k].hits <= Cardinality(Owing(l, k, w))
      /\ Cardinality(Owing(l, k, w)) <= store[l][k].hits + Cardinality(Late(l, k, w))

(***************************************************************************)
(* However its requests overlap, no client gets more than max requests     *)
(* that are not taken back through a limiter in one window: for the auth   *)
(* limiter, that is the failed attempts.  The exception: each success of   *)
(* an earlier window that is taken back late makes room for one more       *)
(* (AttemptsCapped).  The global limiter takes nothing back, so its max is *)
(* strict.                                                                 *)
(***************************************************************************)
CapsHold ==
  \A l \in Limiter, k \in Client, w \in 1..MaxWindows :
    Cardinality(Owing(l, k, w) \cap passed[l]) <=
      Max[l] + Cardinality(Late(l, k, w))

\* Attempts that the auth limiter let through in a window and whose refusal by the
\* handler is on its way.
Failing(k, w) ==
  {r \in passed["auth"] : call[r].client = k /\ counted["auth"][r] = w /\ status[r] >= 400}

(***************************************************************************)
(* rateLimiter.middleware.ts:27: "10 attempts per IP per window".  No      *)
(* client fails more often than that in one window, the successful         *)
(* attempts not counted at all.                                            *)
(***************************************************************************)
AttemptsCapped ==
  \A k \in Client, w \in 1..MaxWindows : Cardinality(Failing(k, w)) <= Max["auth"]

(***************************************************************************)
(* A limiter refuses a request only when max others of the same client     *)
(* count in the window: failed ones, refused ones, and those that are not  *)
(* answered yet, whatever they will be answered.                           *)
(***************************************************************************)
RefusedOnlyWhenFull ==
  [][\A l \in Limiter, r \in Req :
       counted[l][r] = 0 /\ counted'[l][r] # 0 /\ r \notin passed'[l]
         => Cardinality(Owing(l, call[r].client, counted'[l][r])) >= Max[l]]_vars

(***************************************************************************)
(* The process leaves the database, and exits with code 0, only after the  *)
(* answer of every request is out or its client has left.                  *)
(***************************************************************************)
CleanExit == phase \in {"disconnecting", "stopped"} => Waiting = {}

(***************************************************************************)
(* After a signal the process exits, even if handlers hang or clients keep *)
(* their connections.                                                      *)
(***************************************************************************)
StopsAfterSignal == phase = "closing" ~> Exited

----------------------------------------------------------------------------

\* What a request has passed says what has been counted.
CountedInOrder ==
  \A r \in Req :
    /\ stage[r] \in {"new", "parsing"} => counted["global"][r] = 0
    /\ stage[r] \in {"new", "parsing", "routing"} => counted["auth"][r] = 0
    /\ stage[r] \notin {"idle", "closed"} => succeeded[r] = 0
    /\ gone[r] => stage[r] \in {"parsing", "routing", "handling"}
    /\ stage[r] # "new" => call[r] \in Calls

\* A request is counted no later than its client's current window, let through
\* only when counted, and succeeds after that.
WindowsInOrder ==
  \A r \in Req :
    /\ \A l \in Limiter :
         /\ counted[l][r] # 0 => counted[l][r] <= store[l][call[r].client].window
         /\ r \in passed[l] => counted[l][r] # 0
    /\ succeeded[r] # 0 =>
         /\ counted["auth"][r] \in 1..succeeded[r]
         /\ succeeded[r] <= store["auth"][call[r].client].window

\* From the close callback on nobody is connected.
NobodyConnected == phase \in {"disconnecting", "stopped"} => Connected = {}

IInv ==
  /\ TypeOK
  /\ CountedInOrder
  /\ WindowsInOrder
  /\ NobodyConnected
  /\ HitsAreOwed
  /\ CapsHold
=============================================================================
