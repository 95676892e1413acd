---------------------------- MODULE ServerProofs ----------------------------
(***************************************************************************)
(* Proofs about Server, for any number of requests, clients, windows and   *)
(* signals, any limits, and whatever handlers answer.                      *)
(***************************************************************************)
EXTENDS Server, FiniteSetTheorems, TLAPS

USE ServerAssumption

(* The part of the invariant that needs no counting. *)
Shape == TypeOK /\ CountedInOrder /\ WindowsInOrder /\ NobodyConnected

----------------------------------------------------------------------------
(* Finite sets of requests *)

LEMMA ReqFinite == IsFiniteSet(Req)
  BY FS_Interval DEF Req

LEMMA Count ==
  ASSUME NEW S \in SUBSET Req
  PROVE  IsFiniteSet(S) /\ Cardinality(S) \in Nat
  BY ReqFinite, FS_Subset, FS_CardinalityType

LEMMA CountSubset ==
  ASSUME NEW T \in SUBSET Req, NEW S \in SUBSET T
  PROVE  Cardinality(S) <= Cardinality(T)
  BY Count, FS_Subset

LEMMA CountAdd ==
  ASSUME NEW S \in SUBSET Req, NEW r \in Req \ S
  PROVE  Cardinality(S \cup {r}) = Cardinality(S) + 1
  BY Count, FS_AddElement

LEMMA CountRemove ==
  ASSUME NEW S \in SUBSET Req, NEW r \in S
  PROVE  Cardinality(S \ {r}) = Cardinality(S) - 1
  BY Count, FS_RemoveElement

----------------------------------------------------------------------------
(* The steps a request's record may take *)

LEMMA GotoType ==
  ASSUME TypeOK, NEW r \in Req, NEW s \in Stage, Goto(r, s)
  PROVE  /\ stage' = [stage EXCEPT ![r] = s]
         /\ stage' \in [Req -> Stage]
         /\ UNCHANGED <<call, status, gone>>
  BY DEF Goto, TypeOK

LEMMA EndType ==
  ASSUME TypeOK, NEW r \in Req, NEW s \in Stage, End(r, s)
  PROVE  /\ stage' = [stage EXCEPT ![r] = s]
         /\ status' = [status EXCEPT ![r] = 0]
         /\ gone' = [gone EXCEPT ![r] = FALSE]
         /\ stage' \in [Req -> Stage]
         /\ status' \in [Req -> Nat]
         /\ gone' \in [Req -> BOOLEAN]
         /\ UNCHANGED call
  BY DEF End, TypeOK

\* Answering a request that is under way keeps the parts of Shape that speak of
\* its record.
LEMMA AnswerType ==
  ASSUME TypeOK, NEW r \in Req, NEW n \in Nat, Answer(r, n)
  PROVE  /\ stage' \in [Req -> Stage]
         /\ status' \in [Req -> Nat]
         /\ gone' \in [Req -> BOOLEAN]
         /\ UNCHANGED call
         /\ \A q \in Req \ {r} : stage'[q] = stage[q] /\ gone'[q] = gone[q]
         /\ stage'[r] \in {"answered", "closed"}
         /\ ~gone'[r]
         /\ stage'[r] = "answered" => ~gone[r]
<1>1. CASE gone[r] /\ End(r, "closed")
  BY <1>1, EndType DEF TypeOK, Stage
<1>2. CASE ~gone[r] /\ ~(gone[r] /\ End(r, "closed"))
  BY <1>2 DEF Answer, TypeOK, Stage
<1> QED
  BY <1>1, <1>2 DEF Answer

LEMMA ErrorStatusType ==
  ASSUME NEW e \in Error
  PROVE  ErrorStatus(e) \in Nat
  BY DEF ErrorStatus, Error

----------------------------------------------------------------------------
(* A limiter's step *)

\* Limiter l counts request r of client k as hit h of window w.
Counts(l, r, next, k, w, h) ==
  /\ store' = [store EXCEPT ![l][k] = [window |-> w, hits |-> h]]
  /\ counted' = [counted EXCEPT ![l][r] = w]
  /\ UNCHANGED succeeded
  /\ \/ /\ h <= Max[l]
        /\ passed' = [passed EXCEPT ![l] = @ \cup {r}]
        /\ Goto(r, next)
     \/ /\ h > Max[l]
        /\ UNCHANGED passed
        /\ Answer(r, 429)
  /\ \/ w = store[l][k].window /\ h = store[l][k].hits + 1
     \/ w = store[l][k].window + 1 /\ h = 1

LEMMA LimitFacts ==
  ASSUME TypeOK, NEW l \in Limiter, NEW r \in Req, NEW next, Limit(l, r, next),
         NEW k \in Client, k = call[r].client
  PROVE  \E w \in 1..MaxWindows, h \in Nat \ {0} : Counts(l, r, next, k, w, h)
<1> DEFINE old == store[l][k]
<1>1. old \in [window : 0..MaxWindows, hits : Nat]
  BY DEF TypeOK
<1>2. PICK entry \in Increment(old) :
        /\ store' = [store EXCEPT ![l][k] = entry]
        /\ counted' = [counted EXCEPT ![l][r] = entry.window]
        /\ UNCHANGED succeeded
        /\ IF entry.hits <= Max[l]
           THEN passed' = [passed EXCEPT ![l] = @ \cup {r}] /\ Goto(r, next)
           ELSE UNCHANGED passed /\ Answer(r, 429)
  BY DEF Limit
<1>3. /\ entry.window \in 1..MaxWindows
      /\ entry.hits \in Nat \ {0}
      /\ entry = [window |-> entry.window, hits |-> entry.hits]
      /\ \/ entry.window = old.window /\ entry.hits = old.hits + 1
         \/ entry.window = old.window + 1 /\ entry.hits = 1
  <2>1. CASE /\ old.window # 0
             /\ entry = [old EXCEPT !.hits = old.hits + 1]
    BY <1>1, <2>1
  <2>2. CASE /\ old.window + 1 \in 1..MaxWindows
             /\ entry = [window |-> old.window + 1, hits |-> 1]
    BY <1>1, <2>2
  <2> QED
    BY <1>2, <2>1, <2>2 DEF Increment
<1>4. Max[l] \in Nat
  OBVIOUS
<1>5. Counts(l, r, next, k, entry.window, entry.hits)
  <2>1. store' = [store EXCEPT ![l][k] = [window |-> entry.window, hits |-> entry.hits]]
    BY <1>2, <1>3, Zenon
  <2>2. entry.hits <= Max[l] \/ entry.hits > Max[l]
    BY <1>3, <1>4
  <2>3. entry.hits > Max[l] => ~(entry.hits <= Max[l])
    BY <1>3, <1>4
  <2> QED
    BY <1>2, <1>3, <2>1, <2>2, <2>3, Zenon DEF Counts
<1> QED
  BY <1>3, <1>5

\* The limiter counts a request that it has not seen, and that is not answered.
LEMMA LimitShape ==
  ASSUME Shape, NEW l \in Limiter, NEW r \in Req, NEW next \in {"routing", "handling"},
         Limit(l, r, next), phase' = phase,
         \/ l = "global" /\ stage[r] = "parsing" /\ next = "routing"
         \/ l = "auth" /\ stage[r] = "routing" /\ next = "handling",
         UNCHANGED process, ~Exited
  PROVE  Shape'
<1> DEFINE k == call[r].client
<1>1. call[r] \in Calls /\ k \in Client /\ counted[l][r] = 0 /\ succeeded[r] = 0
  BY DEF Shape, CountedInOrder, Call, Limiter
<1>2. PICK w \in 1..MaxWindows, h \in Nat \ {0} : Counts(l, r, next, k, w, h)
  BY <1>1, LimitFacts DEF Shape
<1> USE DEF Counts
<1>3. /\ stage' \in [Req -> Stage] /\ status' \in [Req -> Nat]
      /\ gone' \in [Req -> BOOLEAN] /\ UNCHANGED call
      /\ \A q \in Req \ {r} : stage'[q] = stage[q] /\ gone'[q] = gone[q]
      /\ stage'[r] \in {next, "answered", "closed"}
      /\ gone'[r] => stage'[r] = next
      /\ stage'[r] = next => gone'[r] = gone[r]
      /\ stage'[r] = "answered" => ~gone[r]
  <2>1. CASE Goto(r, next)
    BY <2>1, GotoType DEF Stage, Shape, TypeOK
  <2>2. CASE Answer(r, 429)
    BY <2>2, AnswerType DEF Shape
  <2> QED
    BY <1>2, <2>1, <2>2
<1>4. TypeOK'
  <2>1. store' \in [Limiter -> [Client -> [window : 0..MaxWindows, hits : Nat]]]
    BY <1>1, <1>2 DEF Shape, TypeOK
  <2>2. counted' \in [Limiter -> [Req -> 0..MaxWindows]]
    BY <1>2 DEF Shape, TypeOK
  <2>3. passed' \in [Limiter -> SUBSET Req]
    <3>1. passed \in [Limiter -> SUBSET Req] /\ passed[l] \cup {r} \in SUBSET Req
      BY DEF Shape, TypeOK
    <3>2. passed' = passed \/ passed' = [passed EXCEPT ![l] = passed[l] \cup {r}]
      BY <1>2
    <3> QED
      BY <3>1, <3>2
  <2> QED
    BY <1>2, <1>3, <2>1, <2>2, <2>3 DEF Shape, TypeOK, process
<1>5. CountedInOrder'
  BY <1>1, <1>2, <1>3 DEF Shape, CountedInOrder, TypeOK, Limiter, Stage
<1>6. WindowsInOrder'
  BY <1>1, <1>2, <1>3 DEF Shape, WindowsInOrder, TypeOK, Limiter
<1>7. NobodyConnected'
  BY <1>3 DEF Shape, NobodyConnected, Connected, TypeOK, process
<1> QED
  BY <1>4, <1>5, <1>6, <1>7 DEF Shape

----------------------------------------------------------------------------
(* The other steps keep Shape *)

LEMMA InitShape == Init => Shape
  BY DEF Init, Shape, TypeOK, CountedInOrder, WindowsInOrder, NobodyConnected,
         Phase, Stage, NoCall, Limiter

\* An answer that no limiter gives.
LEMMA AnswerShape ==
  ASSUME Shape, NEW r \in Req, NEW n \in Nat, Answer(r, n),
         stage[r] \in {"parsing", "routing", "handling"},
         UNCHANGED <<process, limits>>
  PROVE  Shape'
<1>1. /\ stage' \in [Req -> Stage]
      /\ status' \in [Req -> Nat]
      /\ gone' \in [Req -> BOOLEAN]
      /\ UNCHANGED call
      /\ \A q \in Req \ {r} : stage'[q] = stage[q] /\ gone'[q] = gone[q]
      /\ stage'[r] \in {"answered", "closed"}
      /\ ~gone'[r]
      /\ stage'[r] = "answered" => ~gone[r]
  BY AnswerType DEF Shape
<1>2. TypeOK'
  BY <1>1 DEF Shape, TypeOK, process, limits
<1>3. CountedInOrder' /\ WindowsInOrder'
  BY <1>1 DEF Shape, CountedInOrder, WindowsInOrder, TypeOK, limits, Limiter
<1>4. NobodyConnected'
  BY <1>1 DEF Shape, NobodyConnected, Connected, TypeOK, process
<1> QED
  BY <1>2, <1>3, <1>4 DEF Shape

LEMMA ArriveShape ==
  ASSUME Shape, NEW r \in Req, NEW c \in Calls, NEW q \in Req, Arrive(r, c, q)
  PROVE  Shape'
<1> USE DEF Shape
<1>1. /\ stage[r] = "new" /\ ~gone[r]
      /\ \A l \in Limiter : counted[l][r] = 0 /\ r \notin passed[l]
      /\ succeeded[r] = 0
  BY DEF Arrive, CountedInOrder, WindowsInOrder, TypeOK, Limiter
<1>2. q # r => stage[q] = "idle" /\ phase \notin {"disconnecting", "stopped"}
  BY DEF Arrive, Accepted, NobodyConnected, Connected, CountedInOrder
<1>3. q = r => phase \notin {"disconnecting", "stopped"}
  BY <1>1 DEF Arrive, Accepted
<1>4. \E s \in {"answered", "parsing"} :
        stage' = [stage EXCEPT ![q] = "closed", ![r] = s]
  BY DEF Arrive
<1>5. \E n \in Nat : status' = [status EXCEPT ![r] = n]
  <2>1. ErrorStatus([kind |-> "other", status |-> 0]) \in Nat
    BY ErrorStatusType DEF Error
  <2> QED
    BY <2>1 DEF Arrive
<1>6. TypeOK'
  <2>1. stage' \in [Req -> Stage]
    BY <1>4 DEF TypeOK, Stage
  <2>2. status' \in [Req -> Nat]
    BY <1>5 DEF TypeOK
  <2> QED
    BY <2>1, <2>2 DEF Arrive, TypeOK, process, limits
<1>7. CountedInOrder'
  BY <1>1, <1>2, <1>4 DEF Arrive, CountedInOrder, TypeOK, limits, Limiter
<1>8. WindowsInOrder'
  BY <1>1 DEF Arrive, WindowsInOrder, TypeOK, limits, Limiter
<1>9. NobodyConnected'
  BY <1>2, <1>3 DEF Arrive, NobodyConnected, process
<1> QED
  BY <1>6, <1>7, <1>8, <1>9

LEMMA ParseShape ==
  ASSUME Shape, NEW r \in Req, Parse(r)
  PROVE  Shape'
<1>1. CASE /\ call[r].body = "ok" /\ Limit("global", r, "routing")
           /\ UNCHANGED process
  BY <1>1, LimitShape DEF Parse, Limiter, process
<1>2. CASE /\ \E s \in BodyStatus(r) :
                  Answer(r, ErrorStatus([kind |-> "status", status |-> s]))
           /\ UNCHANGED <<process, limits>>
  <2>1. PICK s \in BodyStatus(r) :
          Answer(r, ErrorStatus([kind |-> "status", status |-> s]))
    BY <1>2
  <2>2. ErrorStatus([kind |-> "status", status |-> s]) \in Nat
    BY ErrorStatusType DEF BodyStatus, Error
  <2> QED
    BY <1>2, <2>1, <2>2, AnswerShape DEF Parse
<1> QED
  BY <1>1, <1>2 DEF Parse

LEMMA RouteShape ==
  ASSUME Shape, NEW r \in Req, Route(r)
  PROVE  Shape'
<1>1. CASE Limit("auth", r, "handling") /\ UNCHANGED process
  BY <1>1, LimitShape DEF Route, Limiter, process
<1>2. CASE Goto(r, "handling") /\ UNCHANGED <<process, limits>>
  <2>1. "handling" \in Stage
    BY DEF Stage
  <2>2. /\ stage' = [stage EXCEPT ![r] = "handling"]
        /\ stage' \in [Req -> Stage]
        /\ UNCHANGED <<call, status, gone>>
    BY <1>2, <2>1, GotoType DEF Shape
  <2>3. TypeOK'
    BY <1>2, <2>2 DEF Shape, TypeOK, process, limits
  <2>4. CountedInOrder' /\ WindowsInOrder' /\ NobodyConnected'
    BY <1>2, <2>2 DEF Shape, CountedInOrder, WindowsInOrder, NobodyConnected,
                      Connected, TypeOK, process, limits, Route
  <2> QED
    BY <2>3, <2>4 DEF Shape
<1>3. CASE \E n \in {200, 404} : Answer(r, n) /\ UNCHANGED <<process, limits>>
  BY <1>3, AnswerShape DEF Route
<1> QED
  BY <1>1, <1>2, <1>3 DEF Route

LEMMA HandleShape ==
  ASSUME Shape, NEW r \in Req, Handle(r)
  PROVE  Shape'
<1>1. \A s \in Successes \cup {ErrorStatus(e) : e \in Errors} : s \in Nat
  BY ErrorStatusType
<1> QED
  BY <1>1, AnswerShape DEF Handle

\* 'finish' lowers the count of the auth limiter's window at most.
Takes(r) == counted["auth"][r] # 0 /\ status[r] < 400

LEMMA FinishFacts ==
  ASSUME Shape, NEW r \in Req, Finish(r),
         NEW k, k = call[r].client, NEW a, a = store["auth"][k]
  PROVE  /\ k \in Client
         /\ a \in [window : 0..MaxWindows, hits : Nat]
         /\ store'["global"] = store["global"]
         /\ store'["auth"] = IF Takes(r) THEN [store["auth"] EXCEPT ![k] = Lowered(a)]
                             ELSE store["auth"]
         /\ store' \in [Limiter -> [Client -> [window : 0..MaxWindows, hits : Nat]]]
         /\ \A l \in Limiter, j \in Client :
              store'[l][j].window = store[l][j].window
         /\ succeeded[r] = 0
         /\ succeeded'[r] = IF Takes(r) THEN a.window ELSE 0
         /\ \A q \in Req \ {r} : succeeded'[q] = succeeded[q]
         /\ succeeded' \in [Req -> 0..MaxWindows]
         /\ Takes(r) => a.window \in 1..MaxWindows /\ counted["auth"][r] \in 1..a.window
         /\ UNCHANGED <<counted, passed, call>>
         /\ \E s \in {"idle", "closed"} : End(r, s)
<1> USE DEF Shape
<1>1. call[r] \in Calls /\ k \in Client /\ succeeded[r] = 0
  BY DEF Finish, CountedInOrder, Call
<1>2. a \in [window : 0..MaxWindows, hits : Nat]
  BY <1>1 DEF TypeOK, Limiter
<1>3. Lowered(a) \in [window : 0..MaxWindows, hits : Nat] /\ Lowered(a).window = a.window
  BY <1>2 DEF Lowered
<1>4. store'["global"] = store["global"]
  BY DEF Finish, TakesBack, Takes, Limiter
<1>5. store'["auth"] = IF Takes(r) THEN [store["auth"] EXCEPT ![k] = Lowered(a)]
                       ELSE store["auth"]
  BY DEF Finish, TakesBack, Takes, Limiter
<1>6. store' = [l \in Limiter |-> store'[l]]
  BY DEF Finish
<1>7. store["auth"] \in [Client -> [window : 0..MaxWindows, hits : Nat]]
      /\ store["global"] \in [Client -> [window : 0..MaxWindows, hits : Nat]]
  BY DEF TypeOK, Limiter
<1>8. store' \in [Limiter -> [Client -> [window : 0..MaxWindows, hits : Nat]]]
  <2>1. store'["auth"] \in [Client -> [window : 0..MaxWindows, hits : Nat]]
    BY <1>1, <1>3, <1>5, <1>7
  <2> QED
    BY <1>4, <1>6, <1>7, <2>1 DEF Limiter
<1>9. \A l \in Limiter, j \in Client : store'[l][j].window = store[l][j].window
  BY <1>1, <1>3, <1>4, <1>5, <1>7 DEF Limiter
<1>10. Takes(r) => a.window \in 1..MaxWindows /\ counted["auth"][r] \in 1..a.window
  BY <1>2 DEF WindowsInOrder, TypeOK, Limiter, Takes
<1>11. succeeded' = [succeeded EXCEPT ![r] = IF Takes(r) THEN a.window ELSE 0]
  BY DEF Finish, Takes
<1>12. /\ succeeded'[r] = IF Takes(r) THEN a.window ELSE 0
       /\ \A q \in Req \ {r} : succeeded'[q] = succeeded[q]
       /\ succeeded' \in [Req -> 0..MaxWindows]
  BY <1>2, <1>11 DEF TypeOK
<1> QED
  BY <1>1, <1>2, <1>4, <1>5, <1>8, <1>9, <1>10, <1>12 DEF Finish, End

LEMMA FinishShape ==
  ASSUME Shape, NEW r \in Req, Finish(r)
  PROVE  Shape'
<1> USE DEF Shape
<1>1. PICK s \in {"idle", "closed"} : End(r, s)
  BY FinishFacts
<1>2. stage[r] = "answered" /\ ~gone[r] /\ UNCHANGED process
  BY DEF Finish, CountedInOrder
<1>3. /\ stage' = [stage EXCEPT ![r] = s]
      /\ gone' = [gone EXCEPT ![r] = FALSE]
      /\ stage' \in [Req -> Stage]
      /\ status' \in [Req -> Nat]
      /\ gone' \in [Req -> BOOLEAN]
      /\ UNCHANGED call
  BY <1>1, EndType DEF Stage
<1>4. succeeded' \in [Req -> 0..MaxWindows]
  BY FinishFacts DEF TypeOK
<1>5. TypeOK'
  BY <1>2, <1>3, <1>4, FinishFacts DEF TypeOK, process
<1>6. CountedInOrder'
  <2>1. counted' = counted /\ \A q \in Req \ {r} : succeeded'[q] = succeeded[q]
    BY FinishFacts
  <2> QED
    BY <1>2, <1>3, <2>1 DEF CountedInOrder, TypeOK
<1>7. WindowsInOrder'
  <2> SUFFICES ASSUME NEW q \in Req
               PROVE  /\ \A l \in Limiter :
                           /\ counted'[l][q] # 0
                                => counted'[l][q] <= store'[l][call'[q].client].window
                           /\ q \in passed'[l] => counted'[l][q] # 0
                      /\ succeeded'[q] # 0 =>
                           /\ counted'["auth"][q] \in 1..succeeded'[q]
                           /\ succeeded'[q] <= store'["auth"][call'[q].client].window
    BY DEF WindowsInOrder
  <2>1. stage[q] # "new" => call[q].client \in Client
    BY DEF CountedInOrder, Call
  <2>2. stage[q] = "new" => /\ \A l \in Limiter : counted[l][q] = 0
                            /\ succeeded[q] = 0 /\ q # r
    BY <1>2 DEF CountedInOrder, Limiter
  <2>3. q # r => succeeded'[q] = succeeded[q]
    BY FinishFacts DEF TypeOK
  <2>4. succeeded'[r] # 0 => /\ succeeded'[r] = store["auth"][call[r].client].window
                             /\ counted["auth"][r] \in 1..succeeded'[r]
    BY FinishFacts DEF TypeOK
  <2>5. "auth" \in Limiter
    BY DEF Limiter
  <2>6. \A l \in Limiter, j \in Client : store'[l][j].window = store[l][j].window
    BY FinishFacts
  <2>7. UNCHANGED <<counted, passed, call>>
    BY FinishFacts
  <2>8. store["auth"][call[r].client].window \in Nat
    <3>1. store["auth"][call[r].client] \in [window : 0..MaxWindows, hits : Nat]
      BY FinishFacts
    <3> QED
      BY <3>1
  <2> QED
    BY <2>1, <2>2, <2>3, <2>4, <2>5, <2>6, <2>7, <2>8 DEF WindowsInOrder
<1>8. NobodyConnected'
  BY <1>2, <1>3 DEF NobodyConnected, Connected, TypeOK, process
<1> QED
  BY <1>5, <1>6, <1>7, <1>8

LEMMA LeaveShape ==
  ASSUME Shape, NEW r \in Req, Leave(r)
  PROVE  Shape'
<1> USE DEF Shape
<1>1. CASE stage[r] \in {"answered", "idle"} /\ End(r, "closed")
  <2>1. /\ stage' = [stage EXCEPT ![r] = "closed"]
        /\ gone' = [gone EXCEPT ![r] = FALSE]
        /\ stage' \in [Req -> Stage]
        /\ status' \in [Req -> Nat]
        /\ gone' \in [Req -> BOOLEAN]
        /\ UNCHANGED call
    BY <1>1, EndType DEF Stage
  <2>2. TypeOK'
    BY <2>1 DEF Leave, TypeOK, process, limits
  <2>3. CountedInOrder' /\ WindowsInOrder' /\ NobodyConnected'
    BY <1>1, <2>1 DEF Leave, TypeOK, CountedInOrder, WindowsInOrder, NobodyConnected,
                     Connected, process, limits
  <2> QED
    BY <2>2, <2>3
<1>2. CASE /\ stage[r] \in {"parsing", "routing", "handling"}
           /\ gone' = [gone EXCEPT ![r] = TRUE]
           /\ UNCHANGED <<stage, call, status>>
  <2>1. TypeOK'
    BY <1>2 DEF Leave, TypeOK, process, limits
  <2>2. CountedInOrder' /\ WindowsInOrder' /\ NobodyConnected'
    BY <1>2 DEF Leave, TypeOK, CountedInOrder, WindowsInOrder, NobodyConnected,
                     Connected, process, limits
  <2> QED
    BY <2>1, <2>2
<1> QED
  BY <1>1, <1>2 DEF Leave

LEMMA SignalShape ==
  ASSUME Shape, Signal
  PROVE  Shape'
<1> USE DEF Shape
<1>1. /\ stage' = [r \in Req |-> IF stage[r] = "idle" THEN "closed" ELSE stage[r]]
      /\ timers' = timers + 1 /\ timers < MaxSignals
      /\ phase' = IF phase = "serving" THEN "closing" ELSE phase
      /\ UNCHANGED <<call, status, gone, limits>>
  BY DEF Signal, Shutdown
<1>2. TypeOK'
  <2>1. stage' \in [Req -> Stage]
    BY <1>1 DEF TypeOK, Stage
  <2>2. phase' \in Phase /\ timers' \in 0..MaxSignals
    BY <1>1 DEF TypeOK, Phase
  <2> QED
    BY <1>1, <2>1, <2>2 DEF TypeOK, limits
<1>3. CountedInOrder' /\ WindowsInOrder' /\ NobodyConnected'
  BY <1>1 DEF TypeOK, CountedInOrder, WindowsInOrder, NobodyConnected, Connected, limits
<1> QED
  BY <1>2, <1>3

LEMMA KillShape ==
  ASSUME Shape, Kill
  PROVE  Shape'
<1> USE DEF Shape
<1>1. TypeOK'
  <2>1. stage' \in [Req -> Stage] /\ status' \in [Req -> Nat] /\ gone' \in [Req -> BOOLEAN]
    BY DEF Kill, TypeOK, Stage
  <2>2. phase' \in Phase
    BY DEF Kill, Phase
  <2> QED
    BY <2>1, <2>2 DEF Kill, TypeOK, limits
<1>2. CountedInOrder' /\ WindowsInOrder' /\ NobodyConnected'
  BY DEF Kill, TypeOK, CountedInOrder, WindowsInOrder, NobodyConnected, limits
<1> QED
  BY <1>1, <1>2

\* The phases that end an orderly shutdown.
LEMMA EndPhasesShape ==
  ASSUME Shape, CloseCallback \/ Disconnected
  PROVE  Shape'
<1> USE DEF Shape
<1>1. TypeOK'
  BY DEF CloseCallback, Disconnected, TypeOK, Phase, request, limits
<1>2. CountedInOrder' /\ WindowsInOrder'
  BY DEF CloseCallback, Disconnected, CountedInOrder, WindowsInOrder, request, limits
<1>3. NobodyConnected'
  BY DEF CloseCallback, Disconnected, Drained, NobodyConnected, Connected, request
<1> QED
  BY <1>1, <1>2, <1>3

LEMMA NextShape ==
  ASSUME Shape, [Next]_vars
  PROVE  Shape'
<1>1. ASSUME NEW r \in Req, NEW c \in Calls, NEW q \in Req, Arrive(r, c, q)
      PROVE  Shape'
  BY <1>1, ArriveShape
<1>2. ASSUME NEW r \in Req, Parse(r) \/ Route(r) \/ Handle(r) \/ Finish(r) \/ Leave(r)
      PROVE  Shape'
  BY <1>2, ParseShape, RouteShape, HandleShape, FinishShape, LeaveShape
<1>3. CASE Signal
  BY <1>3, SignalShape
<1>4. CASE CloseCallback \/ Disconnected
  BY <1>4, EndPhasesShape
<1>5. CASE ForcedExit \/ Uncaught
  BY <1>5, KillShape DEF ForcedExit, Uncaught
<1>6. CASE UNCHANGED vars
  BY <1>6 DEF vars, process, request, limits, Shape, TypeOK, CountedInOrder,
              WindowsInOrder, NobodyConnected, Connected
<1> QED
  BY <1>1, <1>2, <1>3, <1>4, <1>5, <1>6 DEF Next

----------------------------------------------------------------------------
(* Counting *)

Counting == HitsAreOwed /\ CapsHold

LEMMA InitCounting == Init => Counting
<1> SUFFICES ASSUME Init PROVE Counting
  OBVIOUS
<1>1. HitsAreOwed
  BY DEF Init, HitsAreOwed, Limiter
<1>2. CapsHold
  <2> SUFFICES ASSUME NEW l \in Limiter, NEW k \in Client, NEW w \in 1..MaxWindows
               PROVE  Cardinality(Owing(l, k, w) \cap passed[l])
                        <= Max[l] + Cardinality(Late(l, k, w))
    BY DEF CapsHold
  <2>1. Owing(l, k, w) \cap passed[l] = {}
    BY DEF Init
  <2>2. Cardinality(Late(l, k, w)) \in Nat
    BY Count DEF Late
  <2> QED
    BY <2>1, <2>2, FS_EmptySet
<1> QED
  BY <1>1, <1>2 DEF Counting

\* A step that leaves the limiters alone leaves the sets of requests alone in
\* every window that has begun.
LEMMA SameCounting ==
  ASSUME Counting, Shape, UNCHANGED limits,
         \A r \in Req : stage[r] # "new" => call'[r] = call[r]
  PROVE  Counting'
<1>1. ASSUME NEW l \in Limiter, NEW k \in Client, NEW w \in 1..MaxWindows
      PROVE  Owing(l, k, w)' = Owing(l, k, w) /\ Late(l, k, w)' = Late(l, k, w)
  <2>1. \A r \in Req : stage[r] = "new" => counted[l][r] = 0 /\ Back(l, r) = 0
    BY DEF Shape, CountedInOrder, Limiter, Back
  <2>2. \A r \in Req : Back(l, r)' = Back(l, r)
    BY DEF limits, Back
  <2> QED
    BY <2>1, <2>2 DEF Owing, Late, limits
<1>2. HitsAreOwed'
  BY <1>1 DEF Counting, HitsAreOwed, limits
<1>3. CapsHold'
  BY <1>1 DEF Counting, CapsHold, limits
<1> QED
  BY <1>2, <1>3 DEF Counting

\* A request that a limiter counts becomes one more that is owed.
LEMMA LimitCounting ==
  ASSUME Counting, Shape, NEW l \in Limiter, NEW r \in Req, NEW next,
         NEW k \in Client, NEW w \in 1..MaxWindows, NEW h \in Nat \ {0},
         k = call[r].client, counted[l][r] = 0, succeeded[r] = 0,
         Counts(l, r, next, k, w, h), UNCHANGED call
  PROVE  Counting'
<1> USE DEF Shape
<1>0. /\ store' = [store EXCEPT ![l][k] = [window |-> w, hits |-> h]]
      /\ counted' = [counted EXCEPT ![l][r] = w]
      /\ succeeded' = succeeded
      /\ \/ h <= Max[l] /\ passed' = [passed EXCEPT ![l] = @ \cup {r}]
         \/ passed' = passed
      /\ \/ w = store[l][k].window /\ h = store[l][k].hits + 1
         \/ w = store[l][k].window + 1 /\ h = 1
  BY DEF Counts
<1>1. r \notin passed[l] /\ Back(l, r) = 0
  BY DEF WindowsInOrder, Back
<1>2. ASSUME NEW m \in Limiter, NEW j \in Client, NEW v \in 1..MaxWindows,
             ~(m = l /\ j = k /\ v = w)
      PROVE  /\ Owing(m, j, v)' = Owing(m, j, v)
             /\ Late(m, j, v)' = Late(m, j, v)
             /\ Owing(m, j, v) \cap passed'[m] = Owing(m, j, v) \cap passed[m]
  <2>1. \A q \in Req : Back(m, q)' = Back(m, q)
    BY <1>0 DEF Back
  <2>2. \A q \in Req : q # r \/ m # l => counted'[m][q] = counted[m][q]
    BY <1>0 DEF TypeOK
  <2>3. counted'[l][r] = w
    BY <1>0 DEF TypeOK
  <2>4. r \notin Owing(l, j, v)
    BY DEF Owing
  <2>5. passed'[m] = passed[m] \/ (m = l /\ passed'[m] = passed[m] \cup {r})
    <3>1. CASE passed' = [passed EXCEPT ![l] = @ \cup {r}]
      <4>1. DOMAIN passed = Limiter
        BY DEF TypeOK
      <4>2. passed'[l] = passed[l] \cup {r}
        BY <3>1, <4>1, Zenon
      <4>3. m # l => passed'[m] = passed[m]
        BY <3>1, <4>1, Zenon
      <4> QED
        BY <4>2, <4>3
    <3>2. CASE passed' = passed
      BY <3>2
    <3> QED
      BY <1>0, <3>1, <3>2, Zenon
  <2> QED
    BY <1>1, <1>2, <2>1, <2>2, <2>3, <2>4, <2>5 DEF Owing, Late
<1>3. /\ Owing(l, k, w)' = Owing(l, k, w) \cup {r}
      /\ r \notin Owing(l, k, w)
      /\ Late(l, k, w)' = Late(l, k, w)
  <2>1. \A q \in Req : Back(l, q)' = Back(l, q)
    BY <1>0 DEF Back
  <2>2. \A q \in Req \ {r} : counted'[l][q] = counted[l][q]
    BY <1>0 DEF TypeOK
  <2>3. counted'[l][r] = w
    BY <1>0 DEF TypeOK
  <2> QED
    BY <1>1, <2>1, <2>2, <2>3 DEF Owing, Late
<1>4. store[l][k].window < w => Owing(l, k, w) = {} /\ Late(l, k, w) = {}
  <2>0. store[l][k].window \in Nat
    <3>1. store[l][k] \in [window : 0..MaxWindows, hits : Nat]
      BY DEF TypeOK
    <3> QED
      BY <3>1
  <2>1. \A q \in Req : call[q].client = k => counted[l][q] <= store[l][k].window
    <3>1. \A q \in Req : counted[l][q] = 0 \/ counted[l][q] <= store[l][call[q].client].window
      BY DEF WindowsInOrder
    <3> QED
      BY <2>0, <3>1
  <2>2. \A q \in Req : call[q].client = k => Back(l, q) <= store[l][k].window
    BY <2>0 DEF WindowsInOrder, TypeOK, Back
  <2>3. \A q \in Req : counted[l][q] \in Nat /\ Back(l, q) \in Nat
    BY DEF TypeOK, Back
  <2> QED
    BY <2>0, <2>1, <2>2, <2>3 DEF Owing, Late
<1>5. /\ Cardinality(Owing(l, k, w)') = Cardinality(Owing(l, k, w)) + 1
      /\ Cardinality(Owing(l, k, w)) \in Nat
      /\ Cardinality(Late(l, k, w)) \in Nat
  BY <1>3, CountAdd, Count DEF Owing, Late
<1>6. h <= Cardinality(Owing(l, k, w)') /\ Cardinality(Owing(l, k, w)') <= h + Cardinality(Late(l, k, w)')
  <2>0. store[l][k] \in [window : 0..MaxWindows, hits : Nat]
    BY DEF TypeOK
  <2>1. CASE w = store[l][k].window /\ h = store[l][k].hits + 1
    BY <1>3, <1>5, <2>0, <2>1 DEF Counting, HitsAreOwed
  <2>2. CASE w = store[l][k].window + 1 /\ h = 1
    BY <1>3, <1>4, <1>5, <2>0, <2>2, FS_EmptySet
  <2> QED
    BY <1>0, <2>1, <2>2
<1>7. HitsAreOwed'
  <2> SUFFICES ASSUME NEW m \in Limiter, NEW j \in Client, NEW v \in 1..MaxWindows,
                      store'[m][j].window = v
               PROVE  /\ store'[m][j].hits <= Cardinality(Owing(m, j, v)')
                      /\ Cardinality(Owing(m, j, v)')
                           <= store'[m][j].hits + Cardinality(Late(m, j, v)')
    BY DEF HitsAreOwed
  <2>1. CASE m = l /\ j = k
    <3>1. store'[m][j] = [window |-> w, hits |-> h]
      BY <1>0, <2>1 DEF TypeOK
    <3> QED
      BY <1>6, <2>1, <3>1
  <2>2. CASE ~(m = l /\ j = k)
    <3>1. store'[m][j] = store[m][j]
      BY <1>0, <2>2 DEF TypeOK
    <3> QED
      BY <1>2, <2>2, <3>1 DEF Counting, HitsAreOwed
  <2> QED
    BY <2>1, <2>2
<1>8. CapsHold'
  <2> SUFFICES ASSUME NEW m \in Limiter, NEW j \in Client, NEW v \in 1..MaxWindows
               PROVE  Cardinality(Owing(m, j, v)' \cap passed'[m])
                        <= Max[m] + Cardinality(Late(m, j, v)')
    BY DEF CapsHold
  <2>1. CASE ~(m = l /\ j = k /\ v = w)
    <3>1. /\ Owing(m, j, v)' \cap passed'[m] = Owing(m, j, v) \cap passed[m]
          /\ Late(m, j, v)' = Late(m, j, v)
      BY <1>2, <2>1
    <3> QED
      BY <3>1 DEF Counting, CapsHold
  <2>2. CASE m = l /\ j = k /\ v = w /\ passed' = passed
    <3>1. Owing(m, j, v)' \cap passed'[m] = Owing(m, j, v) \cap passed[m]
      BY <1>1, <1>3, <2>2
    <3> QED
      BY <1>3, <2>2, <3>1 DEF Counting, CapsHold
  <2>3. CASE m = l /\ j = k /\ v = w /\ h <= Max[l]
    <3>1. Owing(l, k, w)' \in SUBSET Req
      BY DEF Owing
    <3>2. Cardinality(Owing(l, k, w)' \cap passed'[l]) <= Cardinality(Owing(l, k, w)')
      BY <3>1, CountSubset
    <3>3. /\ Cardinality(Owing(l, k, w)' \cap passed'[l]) \in Nat
          /\ Cardinality(Owing(l, k, w)') \in Nat
          /\ Max[l] \in Nat
      BY <3>1, Count
    <3>4. Cardinality(Late(l, k, w)') \in Nat
      BY <1>3, <1>5
    <3>5. Cardinality(Owing(l, k, w)' \cap passed'[l]) <= Max[l] + Cardinality(Late(l, k, w)')
      BY <1>6, <2>3, <3>2, <3>3, <3>4
    <3> QED
      BY <2>3, <3>5
  <2> QED
    BY <1>0, <2>1, <2>2, <2>3
<1> QED
  BY <1>7, <1>8 DEF Counting

\* A request that is taken back is owed no more where it was counted; if that
\* window is over it is a late one in the current window.
LEMMA FinishCounting ==
  ASSUME Counting, Shape, NEW r \in Req, Finish(r), NEW k \in Client, k = call[r].client
  PROVE  Counting'
<1> USE DEF Shape
<1> DEFINE a == store["auth"][k]
           c == counted["auth"][r]
           W == a.window
<1>1. /\ a \in [window : 0..MaxWindows, hits : Nat]
      /\ store'["global"] = store["global"]
      /\ store'["auth"] = IF Takes(r) THEN [store["auth"] EXCEPT ![k] = Lowered(a)]
                          ELSE store["auth"]
      /\ store' \in [Limiter -> [Client -> [window : 0..MaxWindows, hits : Nat]]]
      /\ succeeded[r] = 0
      /\ succeeded'[r] = IF Takes(r) THEN W ELSE 0
      /\ \A q \in Req \ {r} : succeeded'[q] = succeeded[q]
      /\ succeeded' \in [Req -> 0..MaxWindows]
      /\ Takes(r) => W \in 1..MaxWindows /\ c \in 1..W
      /\ UNCHANGED <<counted, passed, call>>
  BY FinishFacts
<1>2. CASE ~Takes(r)
  <2>1. store' = store
    BY <1>1, <1>2 DEF TypeOK, Limiter
  <2>2. succeeded' = succeeded
    BY <1>1, <1>2 DEF TypeOK
  <2> QED
    BY <1>1, <2>1, <2>2, SameCounting DEF limits
<1>3. CASE Takes(r)
  <2>1. /\ Back("auth", r) = 0 /\ Back("auth", r)' = W
        /\ \A q \in Req \ {r} : Back("auth", q)' = Back("auth", q)
        /\ \A q \in Req : Back("global", q) = 0 /\ Back("global", q)' = 0
    BY <1>1, <1>3 DEF Back
  <2>2. ASSUME NEW m \in Limiter, NEW j \in Client, NEW v \in 1..MaxWindows,
               ~(m = "auth" /\ j = k)
        PROVE  /\ Owing(m, j, v)' = Owing(m, j, v)
               /\ Late(m, j, v)' = Late(m, j, v)
               /\ store'[m][j] = store[m][j]
    <3>1. CASE m = "global"
      BY <1>1, <2>1, <3>1 DEF Owing, Late
    <3>2. CASE m = "auth" /\ j # k
      <4>1. store'[m][j] = store[m][j]
        BY <1>1, <1>3, <3>2 DEF TypeOK
      <4> QED
        BY <1>1, <2>1, <3>2, <4>1 DEF Owing, Late
    <3> QED
      BY <2>2, <3>1, <3>2 DEF Limiter
  <2>3. ASSUME NEW v \in 1..MaxWindows
        PROVE  /\ v = c => /\ r \in Owing("auth", k, v)
                           /\ Owing("auth", k, v)' = Owing("auth", k, v) \ {r}
               /\ v # c => Owing("auth", k, v)' = Owing("auth", k, v)
               /\ v = W /\ v # c => /\ r \notin Late("auth", k, v)
                                    /\ Late("auth", k, v)' = Late("auth", k, v) \cup {r}
               /\ v # W \/ v = c => Late("auth", k, v)' = Late("auth", k, v)
    <3>1. W # 0
      BY <1>1, <1>3
    <3> HIDE DEF W, c
    <3> QED
      BY <1>1, <2>1, <3>1 DEF Owing, Late, c
  <2>4. ASSUME NEW v \in 1..MaxWindows
        PROVE  /\ Cardinality(Owing("auth", k, v)) \in Nat
               /\ Cardinality(Late("auth", k, v)) \in Nat
               /\ v = c => Cardinality(Owing("auth", k, v)') = Cardinality(Owing("auth", k, v)) - 1
               /\ v = W /\ v # c =>
                    Cardinality(Late("auth", k, v)') = Cardinality(Late("auth", k, v)) + 1
    <3>1. Owing("auth", k, v) \in SUBSET Req /\ Late("auth", k, v) \in SUBSET Req
      BY DEF Owing, Late
    <3> QED
      BY <2>3, <3>1, Count, CountRemove, CountAdd
  <2>5. HitsAreOwed'
    <3> SUFFICES ASSUME NEW m \in Limiter, NEW j \in Client, NEW v \in 1..MaxWindows,
                        store'[m][j].window = v
                 PROVE  /\ store'[m][j].hits <= Cardinality(Owing(m, j, v)')
                        /\ Cardinality(Owing(m, j, v)')
                             <= store'[m][j].hits + Cardinality(Late(m, j, v)')
      BY DEF HitsAreOwed
    <3>1. CASE ~(m = "auth" /\ j = k)
      BY <2>2, <3>1 DEF Counting, HitsAreOwed
    <3>2. CASE m = "auth" /\ j = k
      <4>1. store'["auth"][k] = Lowered(a)
        BY <1>1, <1>3 DEF TypeOK, Limiter
      <4>2. /\ a.hits \in Nat
            /\ Lowered(a).window = W
            /\ a.hits > 0 => Lowered(a).hits = a.hits - 1
            /\ a.hits = 0 => Lowered(a).hits = 0
        BY <1>1 DEF Lowered
      <4>3. v = W
        BY <3>2, <4>1, <4>2
      <4>4. /\ a.hits <= Cardinality(Owing("auth", k, v))
            /\ Cardinality(Owing("auth", k, v)) <= a.hits + Cardinality(Late("auth", k, v))
        BY <1>1, <4>3 DEF Counting, HitsAreOwed, Limiter
      <4>5. /\ Lowered(a).hits <= Cardinality(Owing("auth", k, v)')
            /\ Cardinality(Owing("auth", k, v)')
                 <= Lowered(a).hits + Cardinality(Late("auth", k, v)')
        <5>1. CASE v = c
          <6>1. Late("auth", k, v)' = Late("auth", k, v)
            BY <2>3, <5>1
          <6>2. Cardinality(Owing("auth", k, v)) # 0
            BY <2>3, <5>1, Count, FS_EmptySet DEF Owing
          <6> QED
            BY <2>4, <4>2, <4>4, <5>1, <6>1, <6>2
        <5>2. CASE v # c
          <6>1. Owing("auth", k, v)' = Owing("auth", k, v)
            BY <2>3, <5>2
          <6> QED
            BY <2>4, <4>2, <4>3, <4>4, <5>2, <6>1
        <5> QED
          BY <5>1, <5>2
      <4> QED
        BY <3>2, <4>1, <4>5
    <3> QED
      BY <3>1, <3>2
  <2>6. CapsHold'
    <3> SUFFICES ASSUME NEW m \in Limiter, NEW j \in Client, NEW v \in 1..MaxWindows
                 PROVE  Cardinality(Owing(m, j, v)' \cap passed'[m])
                          <= Max[m] + Cardinality(Late(m, j, v)')
      BY DEF CapsHold
    <3>1. passed' = passed
      BY <1>1
    <3>2. CASE ~(m = "auth" /\ j = k)
      BY <2>2, <3>1, <3>2 DEF Counting, CapsHold
    <3>3. CASE m = "auth" /\ j = k
      <4>1. Owing(m, j, v)' \subseteq Owing(m, j, v) /\ Owing(m, j, v) \in SUBSET Req
        BY <2>3, <3>3 DEF Owing
      <4>2. /\ Cardinality(Owing(m, j, v)' \cap passed'[m])
                 <= Cardinality(Owing(m, j, v) \cap passed[m])
            /\ Cardinality(Owing(m, j, v)' \cap passed'[m]) \in Nat
            /\ Cardinality(Owing(m, j, v) \cap passed[m]) \in Nat
        BY <3>1, <4>1, Count, CountSubset
      <4>3. /\ Cardinality(Late(m, j, v)) <= Cardinality(Late(m, j, v)')
            /\ Cardinality(Late(m, j, v)) \in Nat
            /\ Cardinality(Late(m, j, v)') \in Nat
        BY <2>3, <2>4, <3>3
      <4>4. Cardinality(Owing(m, j, v) \cap passed[m]) <= Max[m] + Cardinality(Late(m, j, v))
        BY DEF Counting, CapsHold
      <4>5. Max[m] \in Nat
        OBVIOUS
      <4> QED
        BY <4>2, <4>3, <4>4, <4>5
    <3> QED
      BY <3>2, <3>3
  <2> QED
    BY <2>5, <2>6 DEF Counting
<1> QED
  BY <1>2, <1>3

\* A limiter's step, from the two places where there is one.
LEMMA LimitStep ==
  ASSUME Shape, NEW r \in Req, NEW l \in Limiter, NEW next,
         \/ l = "global" /\ stage[r] = "parsing"
         \/ l = "auth" /\ stage[r] = "routing",
         Limit(l, r, next)
  PROVE  /\ counted[l][r] = 0 /\ succeeded[r] = 0
         /\ UNCHANGED call
         /\ \E k \in Client, w \in 1..MaxWindows, h \in Nat \ {0} :
              k = call[r].client /\ Counts(l, r, next, k, w, h)
<1>1. call[r] \in Calls /\ call[r].client \in Client /\ counted[l][r] = 0 /\ succeeded[r] = 0
  BY DEF Shape, CountedInOrder, Call, Limiter
<1>2. PICK k \in Client : k = call[r].client
  BY <1>1
<1>3. \E w \in 1..MaxWindows, h \in Nat \ {0} : Counts(l, r, next, k, w, h)
  BY <1>2, LimitFacts DEF Shape
<1>4. UNCHANGED call
  BY DEF Limit, Goto, Answer, End
<1> QED
  BY <1>1, <1>2, <1>3, <1>4

LEMMA NextCounting ==
  ASSUME Counting, Shape, [Next]_vars
  PROVE  Counting'
<1>1. ASSUME NEW r \in Req, NEW l \in Limiter, NEW next, Limit(l, r, next),
             \/ l = "global" /\ stage[r] = "parsing"
             \/ l = "auth" /\ stage[r] = "routing"
      PROVE  Counting'
  <2>1. PICK k \in Client, w \in 1..MaxWindows, h \in Nat \ {0} :
          k = call[r].client /\ Counts(l, r, next, k, w, h)
    BY <1>1, LimitStep
  <2> QED
    BY <1>1, <2>1, LimitStep, LimitCounting
<1>2. CASE UNCHANGED limits /\ \A r \in Req : stage[r] # "new" => call'[r] = call[r]
  BY <1>2, SameCounting
<1>3. ASSUME NEW r \in Req, NEW c \in Calls, NEW q \in Req, Arrive(r, c, q)
      PROVE  Counting'
  <2>1. UNCHANGED limits /\ \A p \in Req : stage[p] # "new" => call'[p] = call[p]
    BY <1>3 DEF Arrive, Shape, TypeOK
  <2> QED
    BY <1>2, <2>1
<1>4. ASSUME NEW r \in Req, Parse(r)
      PROVE  Counting'
  BY <1>1, <1>2, <1>4 DEF Parse, Answer, End, Limiter
<1>5. ASSUME NEW r \in Req, Route(r)
      PROVE  Counting'
  BY <1>1, <1>2, <1>5 DEF Route, Answer, End, Goto, Limiter
<1>6. ASSUME NEW r \in Req, Handle(r) \/ Leave(r)
      PROVE  Counting'
  BY <1>2, <1>6 DEF Handle, Leave, Answer, End
<1>7. ASSUME NEW r \in Req, Finish(r)
      PROVE  Counting'
  <2>1. PICK k \in Client : k = call[r].client
    BY <1>7, FinishFacts
  <2> QED
    BY <1>7, <2>1, FinishCounting
<1>8. CASE Signal \/ CloseCallback \/ Disconnected \/ ForcedExit \/ Uncaught \/ UNCHANGED vars
  BY <1>2, <1>8 DEF Signal, CloseCallback, Disconnected, ForcedExit, Uncaught, Kill,
                    vars, request
<1> QED
  BY <1>3, <1>4, <1>5, <1>6, <1>7, <1>8 DEF Next

LEMMA InvInduction ==
  /\ Init => IInv
  /\ IInv /\ [Next]_vars => IInv'
<1>1. IInv <=> Shape /\ Counting
  BY DEF IInv, Shape, Counting
<1>2. IInv' <=> Shape' /\ Counting'
  BY DEF IInv, Shape, Counting
<1> QED
  BY <1>1, <1>2, InitShape, InitCounting, NextShape, NextCounting

----------------------------------------------------------------------------
(* The theorems *)

(***************************************************************************)
(* The inductive invariant of the server: above all, that a limiter's hits *)
(* are the requests owed in the current window, but for the late ones.     *)
(***************************************************************************)
THEOREM InvariantHolds == Spec => []IInv
  BY InvInduction, PTL DEF Spec

(***************************************************************************)
(* No client gets more than max requests through a limiter in one window,  *)
(* but for one more per success that is taken back late.                   *)
(***************************************************************************)
THEOREM CapsAlwaysHold == Spec => []CapsHold
<1>1. IInv => CapsHold
  BY DEF IInv
<1> QED
  BY <1>1, InvariantHolds, PTL

(***************************************************************************)
(* The process leaves the database, and exits with code 0, only when no    *)
(* client waits for an answer.                                             *)
(***************************************************************************)
THEOREM ExitIsClean == Spec => []CleanExit
<1>1. IInv => CleanExit
  BY DEF IInv, NobodyConnected, CleanExit, Waiting
<1> QED
  BY <1>1, InvariantHolds, PTL

----------------------------------------------------------------------------
(* Refusals *)

\* The hits of a window are those of the requests owed in it, and the next one.
LEMMA HitOwing ==
  ASSUME IInv, NEW l \in Limiter, NEW r \in Req, NEW next,
         NEW k \in Client, NEW w \in 1..MaxWindows, NEW h \in Nat \ {0},
         Counts(l, r, next, k, w, h)
  PROVE  h <= Cardinality(Owing(l, k, w)) + 1
<1>1. Cardinality(Owing(l, k, w)) \in Nat
  BY Count DEF Owing
<1>2. CASE w = store[l][k].window /\ h = store[l][k].hits + 1
  <2>1. store[l][k] \in [window : 0..MaxWindows, hits : Nat]
    BY DEF IInv, TypeOK
  <2>2. store[l][k].hits <= Cardinality(Owing(l, k, w))
    BY <1>2 DEF IInv, HitsAreOwed
  <2> QED
    BY <1>1, <1>2, <2>1, <2>2
<1>3. CASE h = 1
  BY <1>1, <1>3
<1> QED
  BY <1>2, <1>3 DEF Counts

LEMMA LimitRefuses ==
  ASSUME IInv, NEW r \in Req, NEW l \in Limiter, NEW next, Limit(l, r, next),
         \/ l = "global" /\ stage[r] = "parsing"
         \/ l = "auth" /\ stage[r] = "routing",
         NEW m \in Limiter, NEW q \in Req,
         counted[m][q] = 0, counted'[m][q] # 0, q \notin passed'[m]
  PROVE  Cardinality(Owing(m, call[q].client, counted'[m][q])) >= Max[m]
<1>0. Shape
  BY DEF IInv, Shape
<1>1. PICK k \in Client, w \in 1..MaxWindows, h \in Nat \ {0} :
        k = call[r].client /\ Counts(l, r, next, k, w, h)
  BY <1>0, LimitStep
<1>2. counted' = [counted EXCEPT ![l][r] = w]
  BY <1>1 DEF Counts
<1>3. m = l /\ q = r /\ counted'[m][q] = w
  BY <1>2 DEF IInv, TypeOK
<1>4. h > Max[l]
  <2>1. CASE passed' = [passed EXCEPT ![l] = @ \cup {r}]
    BY <1>3, <2>1 DEF IInv, TypeOK
  <2> QED
    BY <1>1, <2>1 DEF Counts
<1>5. h <= Cardinality(Owing(l, k, w)) + 1
  BY <1>1, HitOwing
<1>6. Cardinality(Owing(l, k, w)) \in Nat /\ Max[l] \in Nat
  BY Count DEF Owing
<1> QED
  BY <1>1, <1>3, <1>4, <1>5, <1>6

(***************************************************************************)
(* A limiter refuses a request only when max others of its client count in *)
(* the window.                                                             *)
(***************************************************************************)
THEOREM RefusalMeansFull == Spec => RefusedOnlyWhenFull
<1> DEFINE P == \A l \in Limiter, r \in Req :
                  counted[l][r] = 0 /\ counted'[l][r] # 0 /\ r \notin passed'[l]
                    => Cardinality(Owing(l, call[r].client, counted'[l][r])) >= Max[l]
<1>1. ASSUME IInv, [Next]_vars PROVE P
  <2> SUFFICES ASSUME NEW m \in Limiter, NEW q \in Req,
                      counted[m][q] = 0, counted'[m][q] # 0, q \notin passed'[m]
               PROVE  Cardinality(Owing(m, call[q].client, counted'[m][q])) >= Max[m]
    OBVIOUS
  <2>1. counted' # counted
    OBVIOUS
  <2>2. CASE \E r \in Req : Parse(r)
    BY <1>1, <2>1, <2>2, LimitRefuses DEF Parse, limits, Limiter
  <2>3. CASE \E r \in Req : Route(r)
    BY <1>1, <2>1, <2>3, LimitRefuses DEF Route, limits, Limiter
  <2> QED
    BY <1>1, <2>1, <2>2, <2>3
       DEF Next, Arrive, Handle, Finish, Leave, Signal, CloseCallback, Disconnected,
           ForcedExit, Uncaught, Kill, limits, vars
<1>2. IInv /\ [Next]_vars => P
  BY <1>1
<1> QED
  BY <1>2, InvariantHolds, PTL DEF Spec, RefusedOnlyWhenFull
=============================================================================
