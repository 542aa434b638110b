----------------------------- MODULE GeminiAppProofs -----------------------------
(* Theorems about GeminiApp for every set of clients, requests and tasks, every   *)
(* limit and window, and all faults.                                              *)
EXTENDS GeminiApp, FiniteSetTheorems, TLAPS

\* The limiter of GeminiApp, with what is proved of it.
LP == INSTANCE RateLimiterProofs WITH pc <- stage, Faults <- Faults \ {"db"}

LEMMA LimiterAssumptions ==
  /\ LP!IsFiniteSet(Requests)
  /\ Faults \ {"db"} \subseteq LP!FaultKinds
<1>1. LP!IsFiniteSet(Requests)
  BY RequestsAssumption DEF IsFiniteSet, LP!IsFiniteSet
<1>2. Faults \ {"db"} \subseteq LP!FaultKinds
  BY FaultsAssumption DEF FaultKinds, LP!FaultKinds
<1> QED BY <1>1, <1>2

-----------------------------------------------------------------------------------
(* The limiter takes no other steps than RateLimiter allows, in the same context  *)
(* as its handlers and inside the middleware of the metrics.                      *)

\* What a handler does to its own request, and to no other.
LEMMA HandlerEffect ==
  ASSUME TypeOK, NEW r \in Requests, Handler(r)
  PROVE  /\ stage[r] \in L!Served /\ ~old[r] /\ at[r] \in Unanswered
         /\ at'[r] \in {"body", "list", "update", "answered"}
         /\ at'[r] = "answered" => status'[r] \in Codes \ {429}
         /\ status'[r] = status[r] \/ at'[r] = "answered"
         /\ \A q \in Requests \ {r} : at'[q] = at[q] /\ status'[q] = status[q]
         /\ at' \in [Requests -> Places]
         /\ status' \in [Requests -> Codes]
         /\ UNCHANGED <<limiter, gone, reqs, old, excused>>
<1> USE DEF Handler, AwaitBody, Read, GetTasks, Listed, CreateTask, UpdateReads, Update,
            DeleteTask, Fails, WithoutStatement
<1>1. /\ stage[r] \in L!Served /\ ~old[r] /\ at[r] \in Unanswered
      /\ UNCHANGED <<limiter, gone, reqs, old, excused>>
  BY DEF Statement, Unanswered
<1>2. \/ Write(r, 200) \/ Write(r, 201) \/ Write(r, 204)
      \/ Write(r, 400) \/ Write(r, 404) \/ Write(r, 405) \/ Write(r, 500)
      \/ \E p \in {"body", "list", "update"} : at' = [at EXCEPT ![r] = p] /\ UNCHANGED status
  OBVIOUS
<1>3. ASSUME NEW k \in Codes \ {429}, Write(r, k)
      PROVE  /\ at'[r] = "answered" /\ status'[r] = k
             /\ \A q \in Requests \ {r} : at'[q] = at[q] /\ status'[q] = status[q]
  BY ONLY <1>3, TypeOK, r \in Requests DEF Write, TypeOK
<1>4. \/ \E k \in Codes \ {429} : Write(r, k)
      \/ \E p \in {"body", "list", "update"} : at' = [at EXCEPT ![r] = p] /\ UNCHANGED status
  BY ONLY <1>2 DEF Codes
<1>5. /\ at'[r] \in {"body", "list", "update", "answered"}
      /\ status'[r] = status[r] \/ (at'[r] = "answered" /\ status'[r] \in Codes \ {429})
      /\ \A q \in Requests \ {r} : at'[q] = at[q] /\ status'[q] = status[q]
  BY ONLY <1>3, <1>4, TypeOK, r \in Requests DEF TypeOK
<1>6. at'[r] = "answered" => status'[r] \in Codes \ {429}
  BY ONLY <1>3, <1>4, TypeOK, r \in Requests DEF TypeOK
<1>7. /\ at' \in [Requests -> Places]
      /\ status' \in [Requests -> Codes]
  BY ONLY <1>4, TypeOK, r \in Requests DEF TypeOK, Write, Places, Unanswered
<1> QED BY ONLY <1>1, <1>5, <1>6, <1>7

\* Who changes a row has been handed on by the limiter, and its caller is there.
LEMMA HandlerWrites ==
  ASSUME TypeOK, NEW r \in Requests, Handler(r)
  PROVE  \/ UNCHANGED db
         \/ /\ ~gone[r] /\ stage[r] \in L!Served
            /\ \E i \in Ids, alive \in BOOLEAN : Change(r, i, alive)
<1>1. CASE \/ AwaitBody(r) \/ Read(r) \/ GetTasks(r) \/ Listed(r) \/ WithoutStatement(r)
           \/ \E i \in Ids : UpdateReads(r, i)
  BY <1>1 DEF AwaitBody, Read, GetTasks, Listed, WithoutStatement, UpdateReads
<1>2. CASE \E i \in Ids : CreateTask(r, i) \/ DeleteTask(r, i)
  BY <1>2 DEF CreateTask, DeleteTask, Statement
<1>3. CASE Update(r)
  BY <1>3 DEF TypeOK, Update, Statement
<1>4. CASE Fails(r)
  BY <1>4 DEF TypeOK, Fails, Statement
<1> QED BY <1>1, <1>2, <1>3, <1>4 DEF Handler

LEMMA LimiterStep ==
  ASSUME TypeOK, [Next]_vars
  PROVE  L!Next \/ UNCHANGED L!vars
<1>1. UNCHANGED limiter => UNCHANGED L!vars
  BY DEF limiter, L!vars, L!redis, L!metrics, L!history
<1>2. ASSUME NEW r \in Requests, Enter(r) PROVE L!Next
  BY <1>2 DEF Enter, L!Next
<1>3. ASSUME NEW r \in Requests, Limiting(r) PROVE L!Next
  BY <1>3 DEF Limiting, Command, L!Next, L!Handle
<1>4. ASSUME NEW r \in Requests, Handler(r) \/ Disconnect(r) \/ Record(r)
      PROVE  UNCHANGED L!vars
  BY <1>1, <1>4, HandlerEffect DEF Disconnect, Record
<1>5. ASSUME Crash \/ Tick PROVE L!Next
  BY <1>5 DEF Crash, Tick, L!Next
<1>6. CASE UNCHANGED vars
  BY <1>1, <1>6 DEF vars
<1> QED BY <1>2, <1>3, <1>4, <1>5, <1>6 DEF Next, Serve

\* L and LP are the same limiter.
LEMMA SameStep == L!Next => LP!Next
<1> USE DEF L!Next, LP!Next, L!redis, LP!redis, L!metrics, LP!metrics, L!history, LP!history
<1> USE DEF L!Handle, LP!Handle, L!Goto, LP!Goto, L!Decide, LP!Decide, L!Counted, LP!Counted
<1>1. ASSUME NEW r \in Requests, L!Arrive(r) PROVE LP!Arrive(r)
  BY <1>1 DEF L!Arrive, LP!Arrive
<1>2. ASSUME NEW r \in Requests, L!Handle(r) PROVE LP!Handle(r)
  BY <1>2 DEF L!OpenWindow, LP!OpenWindow, L!Continue, LP!Continue, L!Expire, LP!Expire,
              L!IncrRepeated, LP!IncrRepeated, L!IncrFails, LP!IncrFails, L!ExpireFails,
              LP!ExpireFails, L!ExpireRepeated, LP!ExpireRepeated, L!RedisIncr, LP!RedisIncr, L!RedisExpire, LP!RedisExpire
<1>3. ASSUME L!Crash PROVE LP!Crash
  BY <1>3 DEF L!Crash, LP!Crash, L!Working, LP!Working
<1>4. ASSUME L!Tick PROVE LP!Tick
  BY <1>4 DEF L!Tick, LP!Tick, L!Expiring, LP!Expiring, L!Elapse, LP!Elapse
<1> QED BY <1>1, <1>2, <1>3, <1>4

LEMMA LimiterFollows ==
  ASSUME TypeOK, [Next]_vars
  PROVE  [LP!Next]_(LP!vars)
<1>1. UNCHANGED L!vars => UNCHANGED LP!vars
  BY DEF L!vars, LP!vars, L!redis, LP!redis, L!metrics, LP!metrics, L!history, LP!history
<1> QED BY <1>1, LimiterStep, SameStep

LEMMA InitLimiter == Init => LP!Init
BY DEF Init, L!Init, LP!Init

-----------------------------------------------------------------------------------
(* Type correctness.                                                              *)

LEMMA LimiterType == ASSUME TypeOK, [Next]_vars PROVE L!TypeOK'
<1> USE DEF L!States, LP!States, L!Working, LP!Working, L!Served, LP!Served
<1>1. LP!TypeOK
  BY DEF TypeOK, L!TypeOK, LP!TypeOK
<1>2. LP!TypeOK'
  BY <1>1, LimiterFollows, LP!NextType, LimiterAssumptions, LimitAssumption,
     WindowAssumption, RetryAssumption
<1> QED BY <1>2 DEF L!TypeOK, LP!TypeOK

\* Commands to Redis move one request on; what that does to the others and to the
\* counters of the limiter.
LEMMA LimitingEffect ==
  ASSUME TypeOK, NEW r \in Requests, Limiting(r)
  PROVE  /\ stage[r] \in L!Working
         /\ stage'[r] \in {"incr", "expire", "blocked"} \union L!Served
         /\ stage'[r] = "open" => gone[r] \/ excused'[r]
         /\ \A q \in Requests \ {r} : /\ stage'[q] = stage[q]
                                      /\ excused'[q] = excused[q]
         /\ IF stage'[r] = "blocked"
            THEN /\ blockedTotal' = [blockedTotal EXCEPT ![ip[r]] = @ + 1]
                 /\ Write(r, 429)
            ELSE UNCHANGED <<blockedTotal, at, status>>
         /\ UNCHANGED <<ip, requestsTotal, gone, task, reqs, old, db>>
<1> USE DEF L!Working, L!Served, L!Goto, L!Decide, L!TypeOK, TypeOK
<1>1. /\ stage[r] \in L!Working
      /\ stage'[r] \in {"incr", "expire", "blocked"} \union L!Served
      /\ \A q \in Requests \ {r} : stage'[q] = stage[q]
      /\ IF stage'[r] = "blocked"
         THEN blockedTotal' = [blockedTotal EXCEPT ![ip[r]] = @ + 1]
         ELSE UNCHANGED blockedTotal
      /\ UNCHANGED <<ip, requestsTotal>>
  <2>1. CASE L!OpenWindow(r) \/ L!IncrRepeated(r) \/ L!IncrFails(r)
    BY <2>1 DEF L!OpenWindow, L!Counted, L!IncrRepeated, L!IncrFails, L!metrics
  <2>2. CASE L!Continue(r)
    BY <2>2 DEF L!Continue, L!Counted
  <2>3. CASE L!Expire(r) \/ L!ExpireRepeated(r) \/ L!ExpireFails(r)
    BY <2>3 DEF L!Expire, L!ExpireRepeated, L!ExpireFails, L!metrics
  <2> QED BY <2>1, <2>2, <2>3 DEF Limiting, Command
<1>2. /\ stage'[r] = "open" => gone[r] \/ excused'[r]
      /\ \A q \in Requests \ {r} : excused'[q] = excused[q]
      /\ UNCHANGED <<gone, task, reqs, old, db>>
  BY DEF Limiting
<1>3. IF stage'[r] = "blocked" THEN Write(r, 429) ELSE UNCHANGED <<at, status>>
  BY DEF Limiting
<1> QED BY ONLY <1>1, <1>2, <1>3

LEMMA WritesType ==
  ASSUME TypeOK, NEW r \in Requests, NEW i \in Ids, NEW alive \in BOOLEAN, Change(r, i, alive)
  PROVE  /\ live' \in [Ids -> BOOLEAN]
         /\ used' \in [Ids -> BOOLEAN]
         /\ wrote' \in [Requests -> BOOLEAN]
BY DEF TypeOK, Change

LEMMA HandlerType ==
  ASSUME TypeOK, NEW r \in Requests, Handler(r)
  PROVE  /\ at' \in [Requests -> Places]
         /\ task' \in [Requests -> SUBSET Ids]
         /\ status' \in [Requests -> Codes]
         /\ live' \in [Ids -> BOOLEAN]
         /\ used' \in [Ids -> BOOLEAN]
         /\ wrote' \in [Requests -> BOOLEAN]
<1>1. /\ at' \in [Requests -> Places]
      /\ status' \in [Requests -> Codes]
  BY HandlerEffect
<1>2. task' \in [Requests -> SUBSET Ids]
  <2>1. UNCHANGED task \/ \E i \in Ids : task' = [task EXCEPT ![r] = {i}]
    BY DEF Handler, AwaitBody, Read, GetTasks, Listed, CreateTask, UpdateReads, Update,
           DeleteTask, Fails, WithoutStatement
  <2> QED BY <2>1 DEF TypeOK
<1>3. /\ live' \in [Ids -> BOOLEAN]
      /\ used' \in [Ids -> BOOLEAN]
      /\ wrote' \in [Requests -> BOOLEAN]
  BY HandlerWrites, WritesType DEF TypeOK, db
<1> QED BY ONLY <1>1, <1>2, <1>3

LEMMA TypeStep == ASSUME TypeOK, [Next]_vars PROVE TypeOK'
<1>1. L!TypeOK'
  BY LimiterType
<1>2. ASSUME NEW r \in Requests, Handler(r) PROVE TypeOK'
  BY <1>1, <1>2, HandlerType, HandlerEffect DEF TypeOK
<1>3. ASSUME NEW r \in Requests, Limiting(r) PROVE TypeOK'
  <2>1. at' \in [Requests -> Places]
    BY <1>3, LimitingEffect DEF TypeOK, Write, Places
  <2>2. status' \in [Requests -> Codes]
    BY <1>3, LimitingEffect DEF TypeOK, Write, Codes
  <2>3. excused' \in [Requests -> BOOLEAN]
    BY <1>3 DEF TypeOK, Limiting
  <2> QED BY <1>1, <1>3, <2>1, <2>2, <2>3, LimitingEffect DEF TypeOK, db
<1>4. ASSUME NEW r \in Requests, Enter(r) \/ Disconnect(r) \/ Record(r) PROVE TypeOK'
  <2>1. CASE Enter(r)
    BY <1>1, <2>1 DEF TypeOK, Enter, answer, db
  <2>2. CASE Disconnect(r)
    BY <1>1, <2>2 DEF TypeOK, Disconnect, answer, db
  <2>3. CASE Record(r)
    BY <1>1, <2>3 DEF TypeOK, Record, db, Places
  <2> QED BY <1>4, <2>1, <2>2, <2>3
<1>5. ASSUME Crash \/ Tick PROVE TypeOK'
  <2>1. old' \in [Requests -> BOOLEAN]
    <3>1. CASE Crash
      BY <3>1, Zenon DEF Crash
    <3>2. CASE Tick
      BY <3>2 DEF TypeOK, Tick
    <3> QED BY <1>5, <3>1, <3>2
  <2>2. reqs' \in [Codes -> Nat]
    BY <1>5 DEF TypeOK, Crash, Tick
  <2>3. /\ at' \in [Requests -> Places]
        /\ gone' \in [Requests -> BOOLEAN]
        /\ task' \in [Requests -> SUBSET Ids]
    BY <1>5 DEF TypeOK, Crash, Tick, answer, Places
  <2>4. UNCHANGED <<status, db, excused>>
    BY <1>5 DEF Crash, Tick, answer
  <2> QED BY <1>1, <2>1, <2>2, <2>3, <2>4 DEF TypeOK, db
<1>6. CASE UNCHANGED vars
  BY <1>1, <1>6 DEF TypeOK, vars, answer, db
<1> QED BY <1>2, <1>3, <1>4, <1>5, <1>6 DEF Next, Serve

\* Every variable keeps its type.
THEOREM TypeCorrect == Spec => []TypeOK
<1>1. Init => TypeOK
  <2>1. LP!Init => LP!TypeOK
    BY LP!InitType, LimiterAssumptions, LimitAssumption, WindowAssumption, RetryAssumption
  <2>2. LP!TypeOK => L!TypeOK
    BY DEF L!TypeOK, LP!TypeOK, L!States, LP!States, L!Working, LP!Working, L!Served, LP!Served
  <2> QED
    BY <2>1, <2>2, InitLimiter DEF Init, TypeOK, Codes, ImplicitStatus, Places, Unanswered
<1> QED BY <1>1, TypeStep, PTL DEF Spec

-----------------------------------------------------------------------------------
(* Where a request stands.                                                        *)

\* The refused are those whose answer is 429; nobody leaves the limiter otherwise but
\* to be served; who gets past it uncounted has gone, or Redis has failed; and only
\* the others change rows.
Standing ==
  \A r \in Requests :
    /\ old[r] => stage[r] \notin {"new"} \union L!Working
    /\ stage[r] = "blocked" <=> at[r] \in {"answered", "recorded"} /\ status[r] = 429
    /\ at[r] = "lost" => old[r]
    /\ at[r] \notin {"limiter", "lost"} => stage[r] \in {"blocked"} \union L!Served
    /\ stage[r] = "open" => gone[r] \/ excused[r] \/ old[r]
    /\ wrote[r] => stage[r] = "admitted" \/ (stage[r] = "open" /\ excused[r])

LEMMA NextStanding == ASSUME TypeOK, Standing, [Next]_vars PROVE Standing'
<1> USE DEF Standing, L!Working, L!Served
<1>1. ASSUME NEW r \in Requests, Enter(r) PROVE Standing'
  BY <1>1 DEF TypeOK, Enter, L!TypeOK, L!Arrive, L!Goto, answer, db
<1>2. ASSUME NEW r \in Requests, Limiting(r) PROVE Standing'
  <2>1. at[r] = "limiter"
    BY <1>2, LimitingEffect
  <2>2. /\ \A q \in Requests \ {r} : at'[q] = at[q] /\ status'[q] = status[q]
        /\ IF stage'[r] = "blocked" THEN at'[r] = "answered" /\ status'[r] = 429
           ELSE at'[r] = "limiter"
    BY <1>2, <2>1, LimitingEffect DEF TypeOK, Write
  <2> QED BY <1>2, <2>1, <2>2, LimitingEffect DEF db
<1>3. ASSUME NEW r \in Requests, Handler(r) PROVE Standing'
  <2>1. /\ UNCHANGED <<stage, gone, old, excused>>
        /\ stage[r] \in L!Served /\ ~old[r] /\ at[r] \in Unanswered
        /\ at'[r] \in {"body", "list", "update", "answered"} /\ (at'[r] = "answered" => status'[r] # 429)
        /\ \A q \in Requests \ {r} : at'[q] = at[q] /\ status'[q] = status[q]
    BY <1>3, HandlerEffect DEF limiter, Codes
  <2>2. /\ \A q \in Requests \ {r} : wrote'[q] = wrote[q]
        /\ wrote'[r] => wrote[r] \/ ~gone[r]
    BY <1>3, HandlerWrites DEF TypeOK, Change, db
  <2> QED BY ONLY <2>1, <2>2, Standing DEF Standing, L!Working, L!Served, Unanswered
<1>4. ASSUME NEW r \in Requests, Disconnect(r) PROVE Standing'
  BY <1>4 DEF TypeOK, Disconnect, limiter, answer, db
<1>5. ASSUME NEW r \in Requests, Record(r) PROVE Standing'
  BY <1>5 DEF TypeOK, Record, limiter, db
<1>6. ASSUME Crash PROVE Standing'
  <2> SUFFICES ASSUME NEW r \in Requests PROVE Standing!(r)'
    BY DEF Standing
  <2>1. /\ stage'[r] = IF stage[r] \in {"incr", "expire"} THEN "lost" ELSE stage[r]
        /\ old'[r] <=> stage[r] # "new"
        /\ at'[r] = IF stage[r] # "new" /\ at[r] \in Unanswered THEN "lost" ELSE at[r]
        /\ status'[r] = status[r] /\ wrote'[r] = wrote[r] /\ excused'[r] = excused[r]
    BY <1>6 DEF Crash, L!Crash, db
  <2>2. stage[r] \in {"new", "incr", "expire", "blocked", "lost", "admitted", "open"}
        /\ at[r] \in Places
    BY DEF TypeOK, L!TypeOK, L!States
  <2> QED BY ONLY <2>1, <2>2, Standing DEF Standing, L!Working, L!Served, Places, Unanswered
<1>7. ASSUME Tick PROVE Standing'
  BY <1>7 DEF Tick, L!Tick, answer, db
<1>8. CASE UNCHANGED vars
  BY <1>8 DEF vars, limiter, answer, db
<1> QED BY <1>1, <1>2, <1>3, <1>4, <1>5, <1>6, <1>7, <1>8 DEF Next, Serve

LEMMA StandingInvariant == Spec => []Standing
<1>1. Init => Standing
  BY DEF Init, Standing, L!Init, L!Working, L!Served, ImplicitStatus
<1> QED BY <1>1, NextStanding, TypeCorrect, PTL DEF Spec

-----------------------------------------------------------------------------------
(* The limiter protects the table.                                                *)

\* Who gets past the limiter by going away changes no row, and of the requests that
\* one window has counted at most Limit do.
THEOREM BypassHarmless == Spec => []BypassWritesNothing
<1>1. ASSUME LP!TypeOK, LP!Tickets, LP!Decided, NEW c, NEW e
      PROVE  Cardinality({r \in L!AdmittedIn(c, e) : wrote[r]}) <= Limit
  <2>1. IsFiniteSet(LP!AdmittedIn(c, e)) /\ Cardinality(LP!AdmittedIn(c, e)) <= Limit
    BY <1>1, LP!DistinctTickets, LimiterAssumptions, LimitAssumption, WindowAssumption,
       RetryAssumption DEF LP!IsFiniteSet, IsFiniteSet, LP!Cardinality, Cardinality
  <2>2. {r \in L!AdmittedIn(c, e) : wrote[r]} \subseteq LP!AdmittedIn(c, e)
    BY DEF L!AdmittedIn, LP!AdmittedIn, L!Admitted, LP!Admitted
  <2>3. /\ IsFiniteSet({r \in L!AdmittedIn(c, e) : wrote[r]})
        /\ Cardinality({r \in L!AdmittedIn(c, e) : wrote[r]})
             <= Cardinality(LP!AdmittedIn(c, e))
    BY <2>1, <2>2, FS_Subset
  <2> QED BY <2>1, <2>3, LimitAssumption, FS_CardinalityType
<1>2. Standing /\ LP!TypeOK /\ LP!Tickets /\ LP!Decided => BypassWritesNothing
  BY <1>1 DEF Standing, BypassWritesNothing
<1>3. Spec => [](LP!TypeOK /\ LP!Tickets /\ LP!Decided)
  <2>1. Spec => LP!Spec
    <3>1. TypeOK /\ [Next]_vars => [LP!Next]_(LP!vars)
      BY LimiterFollows
    <3> QED BY <3>1, InitLimiter, TypeCorrect, PTL DEF Spec, LP!Spec
  <2>2. LP!Spec => [](LP!TypeOK /\ LP!Tickets /\ LP!Decided)
    BY LP!TypeCorrect, LP!TicketsInvariant, LP!DecidedInvariant, LimiterAssumptions,
       LimitAssumption, WindowAssumption, RetryAssumption, PTL
  <2> QED BY <2>1, <2>2
<1> QED BY <1>2, <1>3, StandingInvariant, PTL

-----------------------------------------------------------------------------------
(* The application implements the quota.                                          *)

\* What the callers see is what the limiter has ruled.
Seen == quotaSeen = LP!quotaVerdict

LEMMA QuotaIsSeen == Standing /\ LP!TypeOK /\ LP!Decided /\ LP!Openers => Seen
<1> SUFFICES ASSUME Standing, LP!TypeOK, LP!Decided, LP!Openers
             PROVE  quotaSeen = LP!quotaVerdict
  BY DEF Seen
<1>1. ASSUME NEW r \in Requests PROVE quotaSeen[r] = LP!quotaVerdict[r]
  <2>1. /\ stage[r] = "blocked" <=> at[r] \in {"answered", "recorded"} /\ status[r] = 429
        /\ stage[r] \in LP!States /\ ticket[r] \in Nat
        /\ stage[r] \in {"new", "incr"} => ticket[r] = 0
        /\ stage[r] = "admitted" => LP!Entitled(r)
        /\ stage[r] = "blocked" => ticket[r] # 0
        /\ stage[r] \in {"expire", "lost"} /\ ticket[r] # 0 => ticket[r] = 1
    BY <1>1 DEF Standing, LP!TypeOK, LP!Decided, LP!Openers
  <2>2. LP!Entitled(r) <=> ticket[r] \in 1..Limit
    BY DEF LP!Entitled
  <2> QED
    BY ONLY <1>1, <2>1, <2>2, LimitAssumption
       DEF quotaSeen, LP!quotaVerdict, LP!Admitted, LP!States, LP!Working, LP!Served
<1> QED BY <1>1 DEF quotaSeen, LP!quotaVerdict

\* Q and LP!Q are the same quota.
LEMMA SameQuota ==
  Seen /\ Seen' => ([LP!Q!QNext]_(LP!Q!qvars) => [Q!QNext]_(Q!qvars))
<1> SUFFICES ASSUME quotaSeen = LP!quotaVerdict, quotaSeen' = LP!quotaVerdict'
             PROVE  [LP!Q!QNext]_(LP!Q!qvars) => [Q!QNext]_(Q!qvars)
  BY DEF Seen
<1>1. L!quotaLeft = LP!quotaLeft /\ L!quotaLeft' = LP!quotaLeft'
  BY DEF L!quotaLeft, LP!quotaLeft
<1> USE DEF Q!Use, LP!Q!Use, Q!Rule, LP!Q!Rule
<1>2. ASSUME NEW r \in Requests, LP!Q!Admit(r) PROVE Q!Admit(r)
  BY <1>1, <1>2 DEF Q!Admit, LP!Q!Admit
<1>3. ASSUME NEW r \in Requests, LP!Q!Refuse(r) PROVE Q!Refuse(r)
  BY <1>1, <1>3 DEF Q!Refuse, LP!Q!Refuse
<1>4. ASSUME NEW r \in Requests, LP!Q!Bypass(r) PROVE Q!Bypass(r)
  BY <1>1, <1>4 DEF Q!Bypass, LP!Q!Bypass
<1>5. ASSUME NEW c \in Clients, LP!Q!Waste(c) PROVE Q!Waste(c)
  BY <1>1, <1>5 DEF Q!Waste, LP!Q!Waste
<1>6. ASSUME LP!Q!QTick PROVE Q!QTick
  BY <1>1, <1>6 DEF Q!QTick, LP!Q!QTick, Q!Renewable, LP!Q!Renewable, Q!Used, LP!Q!Used
<1>7. CASE UNCHANGED LP!Q!qvars
  BY <1>1, <1>7 DEF LP!Q!qvars, Q!qvars
<1> QED BY <1>2, <1>3, <1>4, <1>5, <1>6, <1>7 DEF LP!Q!QNext, Q!QNext

\* Whatever callers do and whatever fails, 429 is the answer where the quota refuses.
THEOREM QuotaImplemented == Spec => ImplementsQuota
<1>1. Spec => LP!Spec
  BY InitLimiter, LimiterFollows, TypeCorrect, PTL DEF Spec, LP!Spec
<1>2. LP!Spec => /\ [](LP!TypeOK /\ LP!Decided /\ LP!Openers)
                 /\ LP!ImplementsQuota
  BY LP!TypeCorrect, LP!DecidedInvariant, LP!OpenersInvariant, LP!Implementation,
     LimiterAssumptions, LimitAssumption, WindowAssumption, RetryAssumption, PTL
<1>3. Init => Q!QInit
  BY LimitAssumption
     DEF Init, L!Init, Q!QInit, L!quotaLeft, quotaSeen
<1> QED
  BY <1>1, <1>2, <1>3, QuotaIsSeen, SameQuota, StandingInvariant, PTL
     DEF Spec, ImplementsQuota, Q!QSpec, LP!ImplementsQuota, LP!Q!QSpec

-----------------------------------------------------------------------------------
(* The counters.                                                                  *)

Of(c) == {r \in Received : ip[r] = c}

Refused(c) == {r \in Answered(429) : ip[r] = c}

\* CountersAgree, in terms of these sets.
Tallied ==
  /\ \A c \in Clients : /\ requestsTotal[c] = Cardinality(Of(c))
                        /\ blockedTotal[c] = Cardinality(Refused(c))
  /\ \A k \in Codes : reqs[k] = Cardinality(Recorded(k))

\* A set of requests that grows by a member counts one more.
LEMMA OneMore ==
  ASSUME NEW S \in SUBSET Requests, NEW r \in Requests, r \notin S
  PROVE  Cardinality(S \union {r}) = Cardinality(S) + 1
<1>1. IsFiniteSet(S)
  BY RequestsAssumption, FS_Subset
<1> QED BY <1>1, FS_AddElement

LEMMA CountsKept ==
  ASSUME Tallied, UNCHANGED <<requestsTotal, blockedTotal, reqs>>,
         \A c \in Clients : Of(c)' = Of(c) /\ Refused(c)' = Refused(c),
         \A k \in Codes : Recorded(k)' = Recorded(k)
  PROVE  Tallied'
BY DEF Tallied

LEMMA EnterCounts ==
  ASSUME TypeOK, Standing, Tallied, NEW r \in Requests, Enter(r)
  PROVE  Tallied'
<1>1. /\ stage[r] = "new" /\ stage'[r] = "incr"
      /\ \A q \in Requests \ {r} : stage'[q] = stage[q]
      /\ requestsTotal' = [requestsTotal EXCEPT ![ip[r]] = @ + 1]
      /\ UNCHANGED <<ip, blockedTotal, at, status, reqs, old>>
  BY DEF Enter, L!Arrive, L!Goto, answer, TypeOK, L!TypeOK
<1>2. at[r] = "limiter" /\ ~old[r]
  BY <1>1 DEF Standing, L!Served
<1>3. Received' = Received \union {r} /\ r \notin Received
  BY <1>1, <1>2 DEF Received
<1>4. /\ \A k \in Codes : Recorded(k)' = Recorded(k)
      /\ \A c \in Clients : Refused(c)' = Refused(c)
  BY <1>1, <1>2, <1>3 DEF Recorded, Refused, Answered
<1>5. ASSUME NEW c \in Clients PROVE requestsTotal'[c] = Cardinality(Of(c)')
  <2>1. CASE c = ip[r]
    <3>1. Of(c)' = Of(c) \union {r} /\ r \notin Of(c) /\ Of(c) \subseteq Requests
      BY <1>1, <1>3, <2>1 DEF Of, Received
    <3>2. Cardinality(Of(c)') = Cardinality(Of(c)) + 1
      BY <3>1, OneMore
    <3> QED BY <1>1, <2>1, <3>2 DEF Tallied, TypeOK, L!TypeOK
  <2>2. CASE c # ip[r]
    <3>1. Of(c)' = Of(c)
      BY <1>1, <1>3, <2>2 DEF Of
    <3> QED BY <1>1, <2>2, <3>1 DEF Tallied, TypeOK, L!TypeOK
  <2> QED BY <2>1, <2>2
<1> QED BY <1>1, <1>4, <1>5 DEF Tallied

LEMMA LimitingCounts ==
  ASSUME TypeOK, Standing, Tallied, NEW r \in Requests, Limiting(r)
  PROVE  Tallied'
<1>1. /\ stage[r] \in L!Working /\ stage'[r] # "new"
      /\ \A q \in Requests \ {r} : stage'[q] = stage[q]
      /\ UNCHANGED <<ip, requestsTotal, reqs, old>>
  BY LimitingEffect DEF L!Served
<1>2. at[r] = "limiter" /\ ~old[r]
  BY <1>1 DEF Standing, L!Working, L!Served
<1>3. Received' = Received /\ r \in Received
  BY <1>1, <1>2 DEF Received, L!Working
<1>4. \A c \in Clients : Of(c)' = Of(c)
  BY <1>1, <1>3 DEF Of
<1>5. CASE stage'[r] # "blocked"
  <2>1. UNCHANGED <<blockedTotal, at, status>>
    BY <1>5, LimitingEffect
  <2>2. /\ \A k \in Codes : Recorded(k)' = Recorded(k)
        /\ \A c \in Clients : Refused(c)' = Refused(c)
    BY <1>1, <1>3, <2>1 DEF Recorded, Refused, Answered
  <2> QED BY <1>1, <1>4, <2>1, <2>2, CountsKept
<1>6. CASE stage'[r] = "blocked"
  <2>1. /\ blockedTotal' = [blockedTotal EXCEPT ![ip[r]] = @ + 1]
        /\ at'[r] = "answered" /\ status'[r] = 429
        /\ \A q \in Requests \ {r} : at'[q] = at[q] /\ status'[q] = status[q]
    BY <1>6, LimitingEffect DEF TypeOK, Write
  <2>2. Answered(429)' = Answered(429) \union {r} /\ r \notin Answered(429)
    BY <1>2, <1>3, <2>1 DEF Answered, Received
  <2>3. \A k \in Codes : Recorded(k)' = Recorded(k)
    BY <1>2, <1>3, <2>1 DEF Recorded, Received
  <2>4. ASSUME NEW c \in Clients PROVE blockedTotal'[c] = Cardinality(Refused(c)')
    <3>1. CASE c = ip[r]
      <4>1. /\ Refused(c)' = Refused(c) \union {r}
            /\ r \notin Refused(c) /\ Refused(c) \subseteq Requests
        BY <1>1, <2>2, <3>1 DEF Refused, Answered, Received
      <4>2. Cardinality(Refused(c)') = Cardinality(Refused(c)) + 1
        BY <4>1, OneMore
      <4> QED BY <2>1, <3>1, <4>2 DEF Tallied, TypeOK, L!TypeOK
    <3>2. CASE c # ip[r]
      <4>1. Refused(c)' = Refused(c)
        BY <1>1, <2>2, <3>2 DEF Refused
      <4> QED BY <2>1, <3>2, <4>1 DEF Tallied, TypeOK, L!TypeOK
    <3> QED BY <3>1, <3>2
  <2> QED BY <1>1, <1>4, <2>3, <2>4 DEF Tallied
<1> QED BY <1>5, <1>6

LEMMA HandlerCounts ==
  ASSUME TypeOK, Standing, Tallied, NEW r \in Requests, Handler(r)
  PROVE  Tallied'
<1>1. /\ UNCHANGED <<stage, ip, requestsTotal, blockedTotal, reqs, old>>
      /\ at[r] \in Unanswered /\ at'[r] \in {"body", "list", "update", "answered"}
      /\ at'[r] = "answered" => status'[r] # 429
      /\ \A q \in Requests \ {r} : at'[q] = at[q] /\ status'[q] = status[q]
  BY HandlerEffect DEF limiter
<1>2. Received' = Received
  BY <1>1 DEF Received
<1>3. /\ \A c \in Clients : Of(c)' = Of(c) /\ Refused(c)' = Refused(c)
      /\ \A k \in Codes : Recorded(k)' = Recorded(k)
  BY <1>1, <1>2 DEF Of, Refused, Answered, Recorded, Received, Unanswered
<1> QED BY <1>1, <1>3, CountsKept

LEMMA RecordCounts ==
  ASSUME TypeOK, Standing, Tallied, NEW r \in Requests, Record(r)
  PROVE  Tallied'
<1>1. /\ UNCHANGED <<stage, ip, requestsTotal, blockedTotal, status, old>>
      /\ at[r] = "answered" /\ at'[r] = "recorded" /\ ~old[r]
      /\ \A q \in Requests \ {r} : at'[q] = at[q]
      /\ reqs' = [reqs EXCEPT ![status[r]] = @ + 1]
  BY DEF TypeOK, Record, limiter
<1>2. Received' = Received /\ r \in Received
  BY <1>1 DEF Received, Standing, L!Served
<1>3. \A c \in Clients : Of(c)' = Of(c) /\ Refused(c)' = Refused(c)
  BY <1>1, <1>2 DEF Of, Refused, Answered, Received
<1>4. ASSUME NEW k \in Codes PROVE reqs'[k] = Cardinality(Recorded(k)')
  <2>1. CASE k = status[r]
    <3>1. /\ Recorded(k)' = Recorded(k) \union {r}
          /\ r \notin Recorded(k) /\ Recorded(k) \subseteq Requests
      BY <1>1, <1>2, <2>1 DEF Recorded, Received
    <3>2. Cardinality(Recorded(k)') = Cardinality(Recorded(k)) + 1
      BY <3>1, OneMore
    <3> QED BY <1>1, <2>1, <3>2 DEF Tallied, TypeOK
  <2>2. CASE k # status[r]
    <3>1. Recorded(k)' = Recorded(k)
      BY <1>1, <1>2, <2>2 DEF Recorded, Received
    <3> QED BY <1>1, <2>2, <3>1 DEF Tallied, TypeOK
  <2> QED BY <2>1, <2>2
<1> QED BY <1>1, <1>3, <1>4 DEF Tallied

\* The counters of the limiter and of the middleware around it agree with what has
\* been received, refused and answered.
THEOREM CountersCorrect == Spec => []CountersAgree
<1>1. Init => Tallied
  <2> SUFFICES ASSUME Init PROVE Tallied
    OBVIOUS
  <2>1. Received = {}
    BY DEF Init, L!Init, Received
  <2> QED BY <2>1, FS_EmptySet DEF Init, L!Init, Tallied, Of, Refused, Answered, Recorded
<1>2. TypeOK /\ Standing /\ Tallied /\ [Next]_vars => Tallied'
  <2> SUFFICES ASSUME TypeOK, Standing, Tallied, [Next]_vars PROVE Tallied'
    OBVIOUS
  <2>1. ASSUME Crash PROVE Tallied'
    <3>1. /\ \A r \in Requests : (stage'[r] # "new") <=> (stage[r] # "new")
          /\ \A r \in Requests : old'[r] <=> stage[r] # "new"
          /\ \A c \in Clients : requestsTotal'[c] = 0 /\ blockedTotal'[c] = 0
          /\ \A k \in Codes : reqs'[k] = 0
      BY <2>1 DEF Crash, L!Crash, L!Working
    <3>2. Received' = {}
      BY <3>1 DEF Received
    <3>3. /\ \A k \in Codes : Recorded(k)' = {}
          /\ \A c \in Clients : Of(c)' = {} /\ Refused(c)' = {}
      BY <3>2 DEF Answered, Recorded, Of, Refused
    <3>4. /\ \A k \in Codes : Cardinality(Recorded(k)') = 0
          /\ \A c \in Clients : Cardinality(Of(c)') = 0 /\ Cardinality(Refused(c)') = 0
      BY ONLY <3>3, FS_EmptySet
    <3> QED BY ONLY <3>1, <3>4 DEF Tallied
  <2>2. ASSUME UNCHANGED <<stage, ip, requestsTotal, blockedTotal, at, status, reqs, old>>
        PROVE  Tallied'
    BY <2>2, CountsKept DEF Of, Refused, Answered, Recorded, Received
  <2>3. ASSUME NEW r \in Requests, Disconnect(r) PROVE Tallied'
    BY <2>2, <2>3 DEF Disconnect, limiter, answer
  <2>4. ASSUME Tick PROVE Tallied'
    BY <2>2, <2>4 DEF Tick, L!Tick, answer, L!metrics
  <2>5. CASE UNCHANGED vars
    BY <2>2, <2>5 DEF vars, limiter, answer
  <2> QED
    BY <2>1, <2>3, <2>4, <2>5, EnterCounts, LimitingCounts, HandlerCounts, RecordCounts
       DEF Next, Serve
<1>3. Tallied => CountersAgree
  BY DEF Tallied, CountersAgree, Of, Refused
<1> QED BY <1>1, <1>2, <1>3, TypeCorrect, StandingInvariant, PTL DEF Spec
==================================================================================
