--------------------------- MODULE ChatgptTasksProofs ----------------------------
(* Theorems about ChatgptTasks for every set of clients, requests and tasks, and  *)
(* every limit and window.  What RateLimiterProofs has proved of the limiter is   *)
(* carried over to the limiter behind which the handlers stand.                   *)
EXTENDS ChatgptTasks, FiniteSetTheorems, TLAPS

\* The limiter of ChatgptTasks, with what is proved of it.
LP == INSTANCE RateLimiterProofs WITH pc <- stage, Faults <- Faults \ {"db"}

LEMMA LimiterAssumptions ==
  /\ LP!IsFiniteSet(Requests)
  /\ Faults \ {"db"} \subseteq LP!FaultKinds
<1>1. LP!IsFiniteSet(Requests)
  BY RequestsAssumption DEF IsFiniteSet, LP!IsFiniteSet
<1>2. Faults \ {"db"} \subseteq LP!FaultKinds
  BY FaultsAssumption DEF FaultKinds, LP!FaultKinds
<1> QED BY <1>1, <1>2

-----------------------------------------------------------------------------------
(* The limiter takes no other steps than RateLimiter allows.                      *)

LEMMA HandlerKeepsLimiter ==
  ASSUME NEW r \in Requests, Handle(r)
  PROVE  UNCHANGED limiter
BY DEF Handle, List, GetTask, CreateTask, Write, ListTorn, ScanFails, Fails, Malformed,
       Elsewhere, Answer, AnswerUnseen

LEMMA LimiterStep == [Next]_vars => [L!Next]_(L!vars)
<1> SUFFICES ASSUME [Next]_vars PROVE L!Next \/ UNCHANGED L!vars
  OBVIOUS
<1>1. UNCHANGED limiter => UNCHANGED L!vars
  BY DEF limiter, L!vars, L!redis, L!metrics, L!history
<1>2. ASSUME NEW r \in Requests, Enter(r) \/ Limiting(r) PROVE L!Next
  BY <1>2 DEF Enter, Limiting, L!Next
<1>3. ASSUME NEW r \in Requests, Handle(r) PROVE UNCHANGED L!vars
  BY <1>1, <1>3, HandlerKeepsLimiter
<1>4. ASSUME Crash \/ Tick PROVE L!Next
  BY <1>4 DEF Crash, Tick, L!Next
<1>5. CASE UNCHANGED vars
  BY <1>1, <1>5 DEF vars
<1> QED BY <1>2, <1>3, <1>4, <1>5 DEF Next

\* Behind its handlers the limiter is the one of RateLimiter.
THEOREM LimiterIsUndisturbed == Spec => LimiterUndisturbed
<1>1. Init => L!Init
  BY DEF Init
<1> QED BY <1>1, LimiterStep, PTL DEF Spec, LimiterUndisturbed, L!Spec

\* L and LP are the same limiter.
LEMMA SameType == L!TypeOK <=> LP!TypeOK
BY DEF L!TypeOK, LP!TypeOK, L!States, LP!States, L!Working, LP!Working, L!Served, LP!Served

LEMMA SameInit == L!Init <=> LP!Init
BY DEF L!Init, LP!Init

LEMMA SameStep == [L!Next]_(L!vars) => [LP!Next]_(LP!vars)
<1> USE DEF L!Next, LP!Next, L!vars, LP!vars, L!redis, LP!redis, L!metrics, LP!metrics,
            L!history, LP!history
<1> USE DEF L!Handle, LP!Handle, L!Goto, LP!Goto, L!Decide, LP!Decide, L!Counted, LP!Counted
<1>1. ASSUME NEW r \in Requests, L!Arrive(r) PROVE LP!Arrive(r)
  BY <1>1 DEF L!Arrive, LP!Arrive
<1>2. ASSUME NEW r \in Requests, L!Handle(r) PROVE LP!Handle(r)
  BY <1>2 DEF L!OpenWindow, LP!OpenWindow, L!Continue, LP!Continue, L!Expire, LP!Expire,
              L!IncrRepeated, LP!IncrRepeated, L!IncrFails, LP!IncrFails, L!ExpireFails,
              LP!ExpireFails, L!ExpireRepeated, LP!ExpireRepeated, L!RedisIncr, LP!RedisIncr, L!RedisExpire, LP!RedisExpire
<1>3. ASSUME L!Crash PROVE LP!Crash
  BY <1>3 DEF L!Crash, LP!Crash, L!Working, LP!Working
<1>4. ASSUME L!Tick PROVE LP!Tick
  BY <1>4 DEF L!Tick, LP!Tick, L!Expiring, LP!Expiring, L!Elapse, LP!Elapse
<1> QED BY <1>1, <1>2, <1>3, <1>4

LEMMA LimiterSpec == Spec => LP!Spec
<1>1. [Next]_vars => [LP!Next]_(LP!vars)
  BY LimiterStep, SameStep
<1>2. Init => LP!Init
  BY SameInit DEF Init
<1> QED BY <1>1, <1>2, PTL DEF Spec, LP!Spec

-----------------------------------------------------------------------------------
(* Type correctness.                                                              *)

LEMMA LimiterType == L!TypeOK /\ [Next]_vars => L!TypeOK'
<1>1. LP!TypeOK /\ [LP!Next]_(LP!vars) => LP!TypeOK'
  BY LP!NextType, LimiterAssumptions, LimitAssumption, WindowAssumption, RetryAssumption
<1>2. L!TypeOK' <=> LP!TypeOK'
  BY DEF L!TypeOK, LP!TypeOK, L!States, LP!States, L!Working, LP!Working, L!Served, LP!Served
<1> QED BY <1>1, <1>2, LimiterStep, SameStep, SameType

\* A handler changes one row or none.
LEMMA HandlerWrites ==
  ASSUME NEW r \in Requests, Handle(r)
  PROVE  \/ UNCHANGED <<db, wrote>>
         \/ \E i \in Ids, alive \in BOOLEAN : Commit(r, i, alive)
BY DEF Handle, List, ListTorn, ScanFails, GetTask, Write, CreateTask, Fails, Malformed,
       Elsewhere, Reads, history

\* A handler answers once, counted or not.
LEMMA HandlerShape ==
  ASSUME TypeOK, NEW r \in Requests, Handle(r)
  PROVE  /\ stage[r] \in L!Served /\ ~old[r] /\ code[r] = 0
         /\ UNCHANGED old
         /\ \E k \in Codes : /\ code' = [code EXCEPT ![r] = k]
                             /\ \/ reqs' = [reqs EXCEPT ![k] = @ + 1]
                                \/ UNCHANGED reqs /\ k \notin {201, 400}
         /\ UNCHANGED got \/ \E v \in Nat \union {Unknown} : got' = [got EXCEPT ![r] = v]
         /\ UNCHANGED torn \/ torn' = [torn EXCEPT ![r] = TRUE]
<1>1. PICK k \in Codes : Answer(r, k) \/ (AnswerUnseen(r, k) /\ k \notin {201, 400})
  <2>1. \/ Answer(r, 200) \/ Answer(r, 201) \/ Answer(r, 400) \/ Answer(r, 404)
        \/ Answer(r, 500)
        \/ AnswerUnseen(r, 200) \/ AnswerUnseen(r, 404) \/ AnswerUnseen(r, 500)
    <3>1. CASE \E i \in Ids : GetTask(r, i)
      BY <3>1 DEF GetTask
    <3>2. CASE \E i \in Ids, alive \in BOOLEAN : Write(r, i, alive)
      BY <3>2 DEF Write
    <3>3. CASE \E i \in Ids : List(r, i) \/ CreateTask(r, i)
      BY <3>3 DEF List, CreateTask
    <3>4. CASE ListTorn(r) \/ ScanFails(r) \/ Fails(r) \/ Malformed(r) \/ Elsewhere(r)
      BY <3>4 DEF ListTorn, ScanFails, Fails, Malformed, Elsewhere
    <3> QED BY <3>1, <3>2, <3>3, <3>4 DEF Handle
  <2> QED BY <2>1 DEF Codes
<1>2. /\ stage[r] \in L!Served /\ ~old[r] /\ code[r] = 0
      /\ UNCHANGED old
      /\ code' = [code EXCEPT ![r] = k]
      /\ \/ reqs' = [reqs EXCEPT ![k] = @ + 1]
         \/ UNCHANGED reqs /\ k \notin {201, 400}
  BY <1>1 DEF Answer, AnswerUnseen, HandedOn
<1>3. UNCHANGED got \/ \E v \in Nat \union {Unknown} : got' = [got EXCEPT ![r] = v]
  <2>1. ASSUME NEW i \in Ids, List(r, i) \/ GetTask(r, i)
        PROVE  \E v \in Nat : got' = [got EXCEPT ![r] = v]
    BY <2>1 DEF TypeOK, List, GetTask, Reads, Row
  <2>2. ASSUME NEW i \in Ids, NEW alive \in BOOLEAN, Write(r, i, alive)
        PROVE  \E v \in Nat : got' = [got EXCEPT ![r] = v]
    <3>1. got' = [got EXCEPT ![r] = ver[i] + 1] \/ got' = [got EXCEPT ![r] = 0]
      BY <2>2 DEF Write, Reads
    <3> QED BY <3>1 DEF TypeOK
  <2>3. ASSUME ListTorn(r) \/ \E i \in Ids : CreateTask(r, i)
        PROVE  \E v \in Nat : got' = [got EXCEPT ![r] = v]
    BY <2>3 DEF ListTorn, CreateTask, Reads
  <2>4. ASSUME ScanFails(r) \/ Fails(r) \/ Malformed(r) \/ Elsewhere(r)
        PROVE  UNCHANGED got
    BY <2>4 DEF ScanFails, Fails, Malformed, Elsewhere
  <2> QED BY <2>1, <2>2, <2>3, <2>4 DEF Handle
<1>4. UNCHANGED torn \/ torn' = [torn EXCEPT ![r] = TRUE]
  BY DEF Handle, List, ListTorn, ScanFails, GetTask, Write, CreateTask, Fails, Malformed,
         Elsewhere, history
<1>5. \E l \in Codes : /\ code' = [code EXCEPT ![r] = l]
                       /\ \/ reqs' = [reqs EXCEPT ![l] = @ + 1]
                          \/ UNCHANGED reqs /\ l \notin {201, 400}
  BY <1>2
<1> QED BY ONLY <1>2, <1>3, <1>4, <1>5

LEMMA HandlerType ==
  ASSUME TypeOK, NEW r \in Requests, Handle(r)
  PROVE  /\ got' \in [Requests -> Nat \union {Unknown}]
         /\ code' \in [Requests -> Codes \union {0, 429}]
         /\ reqs' \in [Codes -> Nat]
         /\ old' = old
         /\ ver' \in [Ids -> Nat]
         /\ live' \in [Ids -> BOOLEAN]
         /\ torn' \in [Requests -> BOOLEAN]
         /\ wrote' \in [Requests -> BOOLEAN]
<1>1. got' \in [Requests -> Nat \union {Unknown}]
  BY HandlerShape DEF TypeOK
<1>2. /\ code' \in [Requests -> Codes \union {0, 429}]
      /\ reqs' \in [Codes -> Nat]
  BY HandlerShape DEF TypeOK
<1>3. old' = old /\ torn' \in [Requests -> BOOLEAN]
  <2>1. old' = old /\ (UNCHANGED torn \/ torn' = [torn EXCEPT ![r] = TRUE])
    BY HandlerShape
  <2> QED BY ONLY <2>1, TypeOK DEF TypeOK
<1>4. /\ ver' \in [Ids -> Nat]
      /\ live' \in [Ids -> BOOLEAN]
      /\ wrote' \in [Requests -> BOOLEAN]
  <2>1. CASE UNCHANGED <<db, wrote>>
    BY ONLY <2>1, TypeOK DEF TypeOK, db
  <2>2. ASSUME NEW i \in Ids, NEW alive \in BOOLEAN, Commit(r, i, alive)
        PROVE  /\ ver' \in [Ids -> Nat]
               /\ live' \in [Ids -> BOOLEAN]
               /\ wrote' \in [Requests -> BOOLEAN]
    BY ONLY <2>2, TypeOK DEF TypeOK, Commit
  <2> QED BY ONLY <2>1, <2>2, HandlerWrites, r \in Requests, Handle(r)
<1> QED BY ONLY <1>1, <1>2, <1>3, <1>4

LEMMA TypeStep == ASSUME TypeOK, [Next]_vars PROVE TypeOK'
<1>1. L!TypeOK'
  BY LimiterType DEF TypeOK
<1>2. ASSUME NEW r \in Requests, Handle(r) PROVE TypeOK'
  BY <1>1, <1>2, HandlerType DEF TypeOK
<1>3. ASSUME NEW r \in Requests, Enter(r) \/ Limiting(r) PROVE TypeOK'
  BY <1>1, <1>3 DEF TypeOK, Enter, Limiting, handlers, db, history
<1>4. ASSUME Crash \/ Tick PROVE TypeOK'
  <2>1. old' \in [Requests -> BOOLEAN]
    <3>1. CASE Crash
      BY <3>1, Zenon DEF Crash
    <3>2. CASE Tick
      BY <3>2 DEF TypeOK, Tick, handlers
    <3> QED BY <1>4, <3>1, <3>2
  <2>2. reqs' \in [Codes -> Nat]
    BY <1>4 DEF TypeOK, Crash, Tick, handlers
  <2>3. UNCHANGED <<got, code, db, history>>
    BY <1>4 DEF Crash, Tick, handlers
  <2> QED BY <1>1, <2>1, <2>2, <2>3 DEF TypeOK, db, history
<1>5. CASE UNCHANGED vars
  BY <1>1, <1>5 DEF TypeOK, vars, handlers, db, history
<1> QED BY <1>2, <1>3, <1>4, <1>5 DEF Next

\* Every variable keeps its type.
THEOREM TypeCorrect == Spec => []TypeOK
<1>1. Init => TypeOK
  <2>1. L!Init => L!TypeOK
    BY LP!InitType, LimiterAssumptions, LimitAssumption, WindowAssumption, RetryAssumption,
       SameInit, SameType
  <2> QED BY <2>1 DEF Init, TypeOK
<1> QED BY <1>1, TypeStep, PTL DEF Spec

-----------------------------------------------------------------------------------
(* Where a request stands.                                                        *)

\* A request is answered once: by the limiter with 429, or by its handler, after the
\* limiter has handed it on; and nothing is read or written but with that answer.
Standing ==
  \A r \in Requests :
    /\ old[r] => stage[r] \notin {"new"} \union L!Working
    /\ code[r] = 429 <=> stage[r] = "blocked"
    /\ code[r] # 0 => stage[r] \in {"blocked"} \union L!Served
    /\ code[r] = 0 => got[r] = Unknown /\ ~torn[r]
    /\ wrote[r] => code[r] \notin {0, 429}

\* What a step of the limiter for one request does to the others, and to the counters.
LEMMA LimitingEffect ==
  ASSUME TypeOK, NEW r \in Requests, Limiting(r)
  PROVE  /\ stage[r] \in L!Working
         /\ stage'[r] \in {"incr", "expire", "blocked"} \union L!Served
         /\ \A q \in Requests \ {r} : stage'[q] = stage[q]
         /\ IF stage'[r] = "blocked"
            THEN blockedTotal' = [blockedTotal EXCEPT ![ip[r]] = @ + 1]
            ELSE UNCHANGED blockedTotal
         /\ UNCHANGED <<ip, requestsTotal>>
<1> USE DEF L!Working, L!Served, L!Goto, L!Decide, L!TypeOK
<1>1. L!TypeOK /\ L!Handle(r)
  BY DEF TypeOK, Limiting
<1>2. CASE L!OpenWindow(r) \/ L!IncrRepeated(r) \/ L!IncrFails(r)
  BY <1>1, <1>2 DEF L!OpenWindow, L!Counted, L!IncrRepeated, L!IncrFails, L!metrics
<1>3. CASE L!Continue(r)
  BY <1>1, <1>3 DEF L!Continue, L!Counted
<1>4. CASE L!Expire(r) \/ L!ExpireRepeated(r) \/ L!ExpireFails(r)
  BY <1>1, <1>4 DEF L!Expire, L!ExpireRepeated, L!ExpireFails, L!metrics
<1> QED BY <1>1, <1>2, <1>3, <1>4 DEF L!Handle

\* A handler is about its own request only.
LEMMA HandlerAnswers ==
  ASSUME TypeOK, NEW r \in Requests, Handle(r)
  PROVE  /\ stage[r] \in L!Served /\ ~old[r] /\ code[r] = 0
         /\ UNCHANGED old
         /\ \E k \in Codes : /\ code' = [code EXCEPT ![r] = k]
                             /\ \/ reqs' = [reqs EXCEPT ![k] = @ + 1]
                                \/ UNCHANGED reqs /\ k \notin {201, 400}
         /\ \A q \in Requests \ {r} : /\ got'[q] = got[q]
                                      /\ torn'[q] = torn[q]
                                      /\ wrote'[q] = wrote[q]
<1>1. \A q \in Requests \ {r} : got'[q] = got[q] /\ torn'[q] = torn[q]
  BY HandlerShape DEF TypeOK
<1>2. \A q \in Requests \ {r} : wrote'[q] = wrote[q]
  BY HandlerWrites DEF TypeOK, Commit
<1> QED BY <1>1, <1>2, HandlerShape

LEMMA NextStanding == ASSUME TypeOK, Standing, [Next]_vars PROVE Standing'
<1>1. ASSUME NEW r \in Requests, Enter(r) PROVE Standing'
  BY <1>1 DEF Standing, TypeOK, Enter, L!TypeOK, L!Arrive, L!Goto, L!Working, L!Served,
              handlers, history
<1>2. ASSUME NEW r \in Requests, Limiting(r) PROVE Standing'
  <2>1. /\ \A q \in Requests \ {r} : code'[q] = code[q]
        /\ code'[r] = IF stage'[r] = "blocked" THEN 429 ELSE code[r]
        /\ UNCHANGED <<got, old, torn, wrote>>
    BY <1>2 DEF TypeOK, Limiting, history
  <2>2. code[r] = 0
    BY <1>2, LimitingEffect DEF Standing, L!Working, L!Served
  <2> QED BY <1>2, <2>1, <2>2, LimitingEffect DEF Standing, L!Working, L!Served
<1>3. ASSUME NEW r \in Requests, Handle(r) PROVE Standing'
  <2>1. UNCHANGED stage
    BY <1>3, HandlerKeepsLimiter DEF limiter
  <2>2. \A q \in Requests \ {r} : code'[q] = code[q]
    BY <1>3, HandlerAnswers DEF TypeOK
  <2>3. code'[r] \notin {0, 429} /\ stage[r] \in L!Served
    BY <1>3, HandlerAnswers DEF TypeOK, Codes
  <2> QED BY <1>3, <2>1, <2>2, <2>3, HandlerAnswers DEF Standing, L!Working, L!Served
<1>4. ASSUME Crash PROVE Standing'
  BY <1>4 DEF Standing, TypeOK, Crash, L!Crash, L!Working, L!Served, history
<1>5. ASSUME Tick PROVE Standing'
  BY <1>5 DEF Standing, Tick, L!Tick, handlers, history
<1>6. CASE UNCHANGED vars
  BY <1>6 DEF Standing, vars, limiter, handlers, history
<1> QED BY <1>1, <1>2, <1>3, <1>4, <1>5, <1>6 DEF Next

LEMMA StandingInvariant == Spec => []Standing
<1>1. Init => Standing
  BY DEF Init, Standing, L!Init, L!Working, L!Served
<1> QED BY <1>1, NextStanding, TypeCorrect, PTL DEF Spec

-----------------------------------------------------------------------------------
(* The limiter protects the table.                                                *)

\* At most Limit of the requests that one window has counted change a row.
THEOREM WritesBounded == Spec => []WritesWithinQuota
<1>1. ASSUME LP!TypeOK, LP!Tickets, LP!Decided, NEW c, NEW e
      PROVE  Cardinality({r \in L!AdmittedIn(c, e) : wrote[r]}) <= Limit
  <2>1. IsFiniteSet(LP!AdmittedIn(c, e)) /\ Cardinality(LP!AdmittedIn(c, e)) <= Limit
    BY <1>1, LP!DistinctTickets, LimiterAssumptions, LimitAssumption, WindowAssumption,
       RetryAssumption DEF LP!IsFiniteSet, IsFiniteSet, LP!Cardinality, Cardinality
  <2>2. {r \in L!AdmittedIn(c, e) : wrote[r]} \subseteq LP!AdmittedIn(c, e)
    BY DEF L!AdmittedIn, LP!AdmittedIn, L!Admitted, LP!Admitted
  <2>3. /\ IsFiniteSet({r \in L!AdmittedIn(c, e) : wrote[r]})
        /\ Cardinality({r \in L!AdmittedIn(c, e) : wrote[r]})
             <= Cardinality(LP!AdmittedIn(c, e))
    BY <2>1, <2>2, FS_Subset
  <2> QED BY <2>1, <2>3, LimitAssumption, FS_CardinalityType
<1>2. Standing => \A r \in Requests : wrote[r] => stage[r] \in L!Served /\ code[r] # 429
  BY DEF Standing, L!Served
<1>3. Standing /\ LP!TypeOK /\ LP!Tickets /\ LP!Decided => WritesWithinQuota
  BY <1>1, <1>2 DEF WritesWithinQuota
<1>4. LP!Spec => [](LP!TypeOK /\ LP!Tickets /\ LP!Decided)
  BY LP!TypeCorrect, LP!TicketsInvariant, LP!DecidedInvariant, LimiterAssumptions,
     LimitAssumption, WindowAssumption, RetryAssumption, PTL
<1> QED BY <1>3, <1>4, LimiterSpec, StandingInvariant, PTL

\* What the limiter promises it promises in front of handlers, too: it implements the
\* quota, bursts at the boundary of two windows stay below twice the limit, and a
\* window that has its end is prolonged only by an EXPIRE that the Redis client repeats.
THEOREM LimiterCarriesOver ==
  Spec => LP!ImplementsQuota /\ []LP!BurstBound /\ LP!ProlongedOnlyByRepetition
<1>1. LP!Spec => LP!ImplementsQuota
  BY LP!Implementation, LimiterAssumptions, LimitAssumption, WindowAssumption, RetryAssumption
<1>2. LP!Spec => []LP!BurstBound
  BY LP!BurstsBounded, LimiterAssumptions, LimitAssumption, WindowAssumption, RetryAssumption
<1>3. LP!Spec => LP!ProlongedOnlyByRepetition
  BY LP!WindowsKeepTheirEnd, LimiterAssumptions, LimitAssumption, WindowAssumption,
     RetryAssumption
<1> QED BY <1>1, <1>2, <1>3, LimiterSpec

\* Requests of a client that were admitted during the last Window ticks and have
\* changed a row.
RecentWriters(c) == {r \in Requests : /\ ip[r] = c /\ stage[r] = "admitted" /\ age[r] < Window
                                      /\ wrote[r]}

WritesPerWindow == \A c \in Clients : Cardinality(RecentWriters(c)) <= 2 * Limit

\* However a client times its requests across windows, those that the limiter has
\* counted during the last Window ticks change at most twice the limit of rows.
THEOREM BurstsOfWritesBounded == Spec => []WritesPerWindow
<1>1. ASSUME LP!BurstBound, NEW c \in Clients
      PROVE  Cardinality(RecentWriters(c)) <= 2 * Limit
  <2> DEFINE Burst == {r \in Requests : ip[r] = c /\ LP!Admitted(r) /\ age[r] < Window}
             Wrote == RecentWriters(c)
  <2>1. Cardinality(Burst) <= 2 * Limit
    BY <1>1 DEF LP!BurstBound, LP!Cardinality, Cardinality
  <2>2. Wrote \subseteq Burst /\ Burst \subseteq Requests
    BY DEF RecentWriters, LP!Admitted
  <2>3. IsFiniteSet(Burst) /\ Cardinality(Wrote) <= Cardinality(Burst) /\ IsFiniteSet(Wrote)
    BY <2>2, RequestsAssumption, FS_Subset
  <2>4. Cardinality(Burst) \in Nat /\ Cardinality(Wrote) \in Nat
    BY <2>3, FS_CardinalityType
  <2> HIDE DEF Burst, Wrote
  <2>5. Cardinality(Wrote) <= 2 * Limit
    BY <2>1, <2>3, <2>4, LimitAssumption
  <2> QED BY <2>5 DEF Wrote
<1>2. LP!BurstBound => WritesPerWindow
  BY <1>1 DEF WritesPerWindow
<1> QED BY <1>2, LimiterCarriesOver, PTL

-----------------------------------------------------------------------------------
(* Only a crash strands a key.                                                    *)

\* For one client, without the hypothesis about the faults.
Forgiven(c) ==
  count[c] > 0 /\ ttl[c] = 0 =>
    \E r \in Requests : /\ ip[r] = c /\ epoch[r] = life[c] /\ ticket[r] = 1
                        /\ stage[r] \in {"expire", "lost"}

LEMMA NextForgiven ==
  ASSUME TypeOK, Faults \intersect {"redis", "retry"} = {},
         \A c \in Clients : Forgiven(c), [Next]_vars
  PROVE  \A c \in Clients : Forgiven(c)'
<1> USE DEF Forgiven
<1>1. ASSUME UNCHANGED <<count, ttl, ip, epoch, life, ticket>>,
             \A r \in Requests : stage[r] \in {"expire", "lost"}
                                   => stage'[r] \in {"expire", "lost"}
      PROVE  \A c \in Clients : Forgiven(c)'
  BY <1>1
<1>2. ASSUME NEW r \in Requests, Enter(r) PROVE \A c \in Clients : Forgiven(c)'
  <2>1. /\ UNCHANGED <<count, ttl, ip, epoch, life, ticket>>
        /\ stage[r] = "new" /\ \A q \in Requests \ {r} : stage'[q] = stage[q]
    BY <1>2 DEF TypeOK, L!TypeOK, Enter, L!Arrive, L!Goto, L!redis, L!history
  <2> QED BY <1>1, <2>1
<1>3. ASSUME NEW r \in Requests, Limiting(r) PROVE \A c \in Clients : Forgiven(c)'
  <2>1. L!OpenWindow(r) \/ L!Continue(r) \/ L!Expire(r)
    BY <1>3, FaultsAssumption DEF FaultKinds, Limiting, L!Handle, L!IncrRepeated, L!IncrFails,
                                  L!ExpireRepeated, L!ExpireFails
  <2>2. CASE L!OpenWindow(r) \/ L!Continue(r)
    <3>1. /\ count' = [count EXCEPT ![ip[r]] = @ + 1]
          /\ ticket' = [ticket EXCEPT ![r] = count[ip[r]] + 1]
          /\ epoch' = [epoch EXCEPT ![r] = life[ip[r]]]
          /\ stage[r] = "incr" /\ \A q \in Requests \ {r} : stage'[q] = stage[q]
          /\ count[ip[r]] + 1 = 1 => stage'[r] = "expire"
          /\ UNCHANGED <<ttl, ip, life>>
      BY <2>2 DEF TypeOK, L!TypeOK, L!OpenWindow, L!Continue, L!Counted, L!RedisIncr, L!Goto,
                  L!Decide
    <3>2. \A q \in Requests \ {r} : ticket'[q] = ticket[q] /\ epoch'[q] = epoch[q]
      BY <3>1 DEF TypeOK, L!TypeOK
    <3>3. ASSUME NEW c \in Clients, c # ip[r] PROVE Forgiven(c)'
      BY <3>1, <3>2, <3>3 DEF TypeOK, L!TypeOK
    <3>4. Forgiven(ip[r])'
      <4>1. CASE count[ip[r]] > 0
        BY <3>1, <3>2, <4>1 DEF TypeOK, L!TypeOK
      <4>2. CASE count[ip[r]] = 0
        BY <3>1, <4>2 DEF TypeOK, L!TypeOK
      <4> QED BY <4>1, <4>2 DEF TypeOK, L!TypeOK
    <3> QED BY <3>1, <3>3, <3>4
  <2>3. CASE L!Expire(r)
    <3>1. /\ ttl' = IF count[ip[r]] = 0 THEN ttl ELSE [ttl EXCEPT ![ip[r]] = Window]
          /\ \A q \in Requests \ {r} : stage'[q] = stage[q]
          /\ UNCHANGED <<count, ip, epoch, life, ticket>>
      BY <2>3 DEF TypeOK, L!TypeOK, L!Expire, L!RedisExpire, L!Decide, L!Goto, L!history
    <3>2. ASSUME NEW c \in Clients, c # ip[r] PROVE Forgiven(c)'
      BY <3>1, <3>2 DEF TypeOK, L!TypeOK
    <3>3. Forgiven(ip[r])'
      BY <3>1, WindowAssumption DEF TypeOK, L!TypeOK
    <3> QED BY <3>1, <3>2, <3>3
  <2> QED BY <2>1, <2>2, <2>3
<1>4. ASSUME NEW r \in Requests, Handle(r) PROVE \A c \in Clients : Forgiven(c)'
  BY <1>1, <1>4, HandlerKeepsLimiter DEF limiter
<1>5. ASSUME Crash PROVE \A c \in Clients : Forgiven(c)'
  <2>1. /\ UNCHANGED <<count, ttl, ip, epoch, life, ticket>>
        /\ \A r \in Requests : stage'[r] = IF stage[r] \in L!Working THEN "lost" ELSE stage[r]
    BY <1>5 DEF Crash, L!Crash, L!redis, L!history
  <2> QED BY <1>1, <2>1
<1>6. ASSUME Tick PROVE \A c \in Clients : Forgiven(c)'
  <2>1. \A c \in Clients : count'[c] > 0 /\ ttl'[c] = 0 =>
          count[c] > 0 /\ ttl[c] = 0 /\ life'[c] = life[c]
    BY <1>6 DEF TypeOK, L!TypeOK, Tick, L!Tick, L!Expiring
  <2>2. UNCHANGED <<ip, epoch, ticket, stage>>
    BY <1>6 DEF Tick, L!Tick
  <2> QED BY <2>1, <2>2
<1>7. CASE UNCHANGED vars
  BY <1>1, <1>7 DEF vars, limiter
<1> QED BY <1>2, <1>3, <1>4, <1>5, <1>6, <1>7 DEF Next

\* As long as Redis answers, a key without a TTL is that of a request on its way to
\* EXPIRE, or of one that died there with the process.
THEOREM StrandedByCrash == Spec => []StrandedOnlyByCrash
<1>1. CASE Faults \intersect {"redis", "retry"} = {}
  <2>1. Init => \A c \in Clients : Forgiven(c)
    BY DEF Init, L!Init, Forgiven
  <2>2. TypeOK /\ (\A c \in Clients : Forgiven(c)) /\ [Next]_vars
          => (\A c \in Clients : Forgiven(c))'
    BY <1>1, NextForgiven
  <2>3. (\A c \in Clients : Forgiven(c)) => StrandedOnlyByCrash
    BY DEF Forgiven, StrandedOnlyByCrash
  <2> QED BY <2>1, <2>2, <2>3, TypeCorrect, PTL DEF Spec
<1>2. CASE Faults \intersect {"redis", "retry"} # {}
  <2>1. StrandedOnlyByCrash
    BY <1>2 DEF StrandedOnlyByCrash
  <2> QED BY <2>1, PTL
<1> QED BY <1>1, <1>2

-----------------------------------------------------------------------------------
(* The handlers implement the table.                                              *)

LEMMA HandlerImplements ==
  ASSUME TypeOK, Standing, NEW r \in Requests, Handle(r)
  PROVE  Store!SNext \/ UNCHANGED Store!svars
<1>1. got[r] = Unknown /\ ~torn[r]
  BY HandlerAnswers DEF Standing
<1>2. ASSUME NEW i \in Ids, List(r, i) \/ GetTask(r, i) PROVE Store!SNext
  <2>1. /\ got' = [got EXCEPT ![r] = Row(i)]
        /\ UNCHANGED <<torn, ver, live>>
    BY <1>2 DEF List, GetTask, Reads, db
  <2>2. Store!Answer(r, Row(i))
    BY <1>1, <2>1 DEF TypeOK, Store!Answer, Store!Unknown, Unknown
  <2> QED BY <2>1, <2>2 DEF Store!SNext, Store!Read, Store!Row, Row
<1>3. ASSUME NEW i \in Ids, CreateTask(r, i) PROVE Store!SNext
  <2>1. /\ ver[i] = 0 /\ ver[i] + 1 = 1
        /\ Store!Change(i, TRUE)
    BY <1>3 DEF CreateTask, Commit, Store!Change
  <2>2. got' = [got EXCEPT ![r] = 1] /\ UNCHANGED torn
    BY <1>3 DEF CreateTask
  <2>3. Store!Answer(r, 1)
    BY <1>1, <2>2 DEF TypeOK, Store!Answer, Store!Unknown, Unknown
  <2>4. Store!Written(r, i)
    BY <2>1, <2>3 DEF Store!Written, Store!Write, Store!Create, Store!Answer
  <2> QED BY <2>4 DEF Store!SNext
<1>4. ASSUME NEW i \in Ids, NEW alive \in BOOLEAN, Write(r, i, alive) PROVE Store!SNext
  <2>1. CASE live[i]
    <3>1. /\ Store!Change(i, alive)
          /\ got' = [got EXCEPT ![r] = ver[i] + 1]
          /\ UNCHANGED torn
      BY <1>4, <2>1 DEF Write, Commit, Store!Change
    <3>2. Store!Answer(r, ver[i] + 1)
      BY <1>1, <3>1 DEF TypeOK, Store!Answer, Store!Unknown, Unknown
    <3>3. Store!Write(i)
      BY <2>1, <3>1 DEF Store!Write, Store!Update, Store!Delete
    <3> QED BY <3>2, <3>3 DEF Store!SNext, Store!Written
  <2>2. CASE ~live[i]
    <3>1. /\ got' = [got EXCEPT ![r] = 0]
          /\ UNCHANGED <<torn, ver, live>>
      BY <1>4, <2>2 DEF Write, Reads, db
    <3>2. Store!Answer(r, 0)
      BY <1>1, <3>1 DEF TypeOK, Store!Answer, Store!Unknown, Unknown
    <3> QED BY <2>2, <3>1, <3>2 DEF Store!SNext, Store!NoSuchTask
  <2> QED BY <2>1, <2>2
<1>5. ASSUME ListTorn(r) PROVE UNCHANGED Store!svars
  <2>1. /\ got' = [got EXCEPT ![r] = 0]
        /\ torn' = [torn EXCEPT ![r] = TRUE]
        /\ UNCHANGED <<ver, live>>
    BY <1>5 DEF ListTorn, Reads, db
  <2> QED BY <1>1, <2>1 DEF TypeOK, Store!svars, Unknown
<1>6. ASSUME ScanFails(r) \/ Malformed(r) \/ Elsewhere(r) PROVE UNCHANGED Store!svars
  BY <1>6 DEF ScanFails, Malformed, Elsewhere, history, db, Store!svars
<1>7. ASSUME Fails(r) PROVE Store!SNext \/ UNCHANGED Store!svars
  <2>1. UNCHANGED <<got, torn>>
    BY <1>7 DEF Fails
  <2>2. CASE UNCHANGED db
    BY <2>1, <2>2 DEF db, Store!svars
  <2>3. ASSUME NEW i \in Ids, NEW alive \in BOOLEAN, Commit(r, i, alive),
               live[i] \/ (ver[i] = 0 /\ alive)
        PROVE  Store!SNext
    <3>1. Store!Change(i, alive)
      BY <2>3 DEF Commit, Store!Change
    <3>2. Store!Write(i)
      BY <2>3, <3>1 DEF Store!Write, Store!Create, Store!Update, Store!Delete
    <3> QED BY <2>1, <3>2 DEF Store!SNext, Store!Unanswered
  <2> QED BY <1>7, <2>2, <2>3 DEF Fails
<1> QED BY <1>2, <1>3, <1>4, <1>5, <1>6, <1>7 DEF Handle

\* Every answer, but that of a list whose rows stopped coming, is that of a table on
\* which requests take effect at one moment.
THEOREM Implementation == Spec => ImplementsStore
<1>1. Init => Store!SInit
  BY DEF Init, Store!SInit, Store!Unknown, Unknown
<1>2. TypeOK /\ Standing /\ [Next]_vars => [Store!SNext]_(Store!svars)
  <2> SUFFICES ASSUME TypeOK, Standing, [Next]_vars
               PROVE  Store!SNext \/ UNCHANGED Store!svars
    OBVIOUS
  <2>1. UNCHANGED <<got, torn, db>> => UNCHANGED Store!svars
    BY DEF db, Store!svars
  <2>2. ASSUME NEW r \in Requests, Enter(r) \/ Limiting(r) PROVE UNCHANGED Store!svars
    BY <2>1, <2>2 DEF Enter, Limiting, handlers, history
  <2>3. ASSUME Crash \/ Tick PROVE UNCHANGED Store!svars
    BY <2>1, <2>3 DEF Crash, Tick, handlers, history
  <2>4. CASE UNCHANGED vars
    BY <2>1, <2>4 DEF vars, handlers, history
  <2> QED BY <2>2, <2>3, <2>4, HandlerImplements DEF Next
<1> QED BY <1>1, <1>2, TypeCorrect, StandingInvariant, PTL
        DEF Spec, ImplementsStore, Store!SSpec

\* Neither the limiter nor lists that break off, failing statements or crashes bring a
\* deleted task back, or have a handler tell of a version that did not exist.
THEOREM DeletedForGood == Spec => []Store!Truthful /\ Store!Lasting
BY Implementation, Store!Promised, PTL DEF ImplementsStore

-----------------------------------------------------------------------------------
(* The counters.                                                                  *)

Of(c) == {r \in Received : ip[r] = c}

Refused(c) == {r \in Answered(429) : ip[r] = c}

\* Accounted, in terms of these sets.
Tallied ==
  /\ \A c \in Clients : /\ requestsTotal[c] = Cardinality(Of(c))
                        /\ blockedTotal[c] = Cardinality(Refused(c))
  /\ \A k \in Codes : /\ reqs[k] <= Cardinality(Answered(k))
                      /\ k \in {201, 400} => reqs[k] = Cardinality(Answered(k))

\* Sets of requests are finite; one that grows by a member counts one more.
LEMMA FiniteSubset ==
  ASSUME NEW S \in SUBSET Requests
  PROVE  IsFiniteSet(S) /\ Cardinality(S) \in Nat
BY RequestsAssumption, FS_Subset, FS_CardinalityType

LEMMA OneMore ==
  ASSUME NEW S \in SUBSET Requests, NEW r \in Requests, r \notin S
  PROVE  Cardinality(S \union {r}) = Cardinality(S) + 1
BY FiniteSubset, FS_AddElement

LEMMA CountsKept ==
  ASSUME Tallied, UNCHANGED <<requestsTotal, blockedTotal, reqs>>,
         \A c \in Clients : Of(c)' = Of(c) /\ Refused(c)' = Refused(c),
         \A k \in Codes : Answered(k)' = Answered(k)
  PROVE  Tallied'
BY DEF Tallied

LEMMA EnterCounts ==
  ASSUME TypeOK, Standing, Tallied, NEW r \in Requests, Enter(r)
  PROVE  Tallied'
<1>1. /\ stage[r] = "new" /\ stage'[r] = "incr"
      /\ \A q \in Requests \ {r} : stage'[q] = stage[q]
      /\ requestsTotal' = [requestsTotal EXCEPT ![ip[r]] = @ + 1]
      /\ UNCHANGED <<ip, blockedTotal, code, reqs, old>>
  BY DEF Enter, L!Arrive, L!Goto, handlers, TypeOK, L!TypeOK
<1>2. code[r] = 0 /\ ~old[r]
  BY <1>1 DEF Standing, L!Served
<1>3. Received' = Received \union {r} /\ r \notin Received
  BY <1>1, <1>2 DEF Received
<1>4. \A k \in Codes \union {429} : Answered(k)' = Answered(k)
  BY <1>1, <1>2, <1>3 DEF Answered, Codes
<1>5. \A c \in Clients : Refused(c)' = Refused(c)
  BY <1>1, <1>4 DEF Refused
<1>6. ASSUME NEW c \in Clients PROVE requestsTotal'[c] = Cardinality(Of(c)')
  <2>1. CASE c = ip[r]
    <3>1. Of(c)' = Of(c) \union {r} /\ r \notin Of(c) /\ Of(c) \subseteq Requests
      BY <1>1, <1>3, <2>1 DEF Of, Received
    <3>2. Cardinality(Of(c)') = Cardinality(Of(c)) + 1
      BY <3>1, OneMore
    <3> QED BY <1>1, <2>1, <3>2 DEF Tallied, TypeOK, L!TypeOK
  <2>2. CASE c # ip[r]
    <3>1. Of(c)' = Of(c)
      BY <1>1, <1>3, <2>2 DEF Of
    <3> QED BY <1>1, <2>2, <3>1 DEF Tallied, TypeOK, L!TypeOK
  <2> QED BY <2>1, <2>2
<1> QED BY <1>1, <1>4, <1>5, <1>6 DEF Tallied

LEMMA LimitingCounts ==
  ASSUME TypeOK, Standing, Tallied, NEW r \in Requests, Limiting(r)
  PROVE  Tallied'
<1>1. /\ stage[r] \in L!Working /\ stage'[r] # "new"
      /\ \A q \in Requests \ {r} : stage'[q] = stage[q]
      /\ IF stage'[r] = "blocked"
         THEN blockedTotal' = [blockedTotal EXCEPT ![ip[r]] = @ + 1]
         ELSE UNCHANGED blockedTotal
      /\ UNCHANGED <<ip, requestsTotal>>
  BY LimitingEffect DEF L!Served
<1>2. /\ code' = IF stage'[r] = "blocked" THEN [code EXCEPT ![r] = 429] ELSE code
      /\ UNCHANGED <<reqs, old>>
  BY DEF Limiting
<1>3. code[r] = 0 /\ ~old[r]
  BY <1>1 DEF Standing, L!Working, L!Served
<1>4. Received' = Received /\ r \in Received
  BY <1>1, <1>2, <1>3 DEF Received, L!Working
<1>5. \A c \in Clients : Of(c)' = Of(c)
  BY <1>1, <1>4 DEF Of
<1>6. \A k \in Codes : Answered(k)' = Answered(k)
  BY <1>2, <1>3, <1>4 DEF Answered, Codes, Received, TypeOK
<1>7. CASE stage'[r] # "blocked"
  <2>1. \A c \in Clients : Refused(c)' = Refused(c)
    BY <1>1, <1>2, <1>4, <1>7 DEF Refused, Answered
  <2> QED BY <1>1, <1>2, <1>5, <1>6, <1>7, <2>1, CountsKept
<1>8. CASE stage'[r] = "blocked"
  <2>1. Answered(429)' = Answered(429) \union {r} /\ r \notin Answered(429)
    BY <1>2, <1>3, <1>4, <1>8 DEF Answered, Received, TypeOK
  <2>2. ASSUME NEW c \in Clients PROVE blockedTotal'[c] = Cardinality(Refused(c)')
    <3>1. CASE c = ip[r]
      <4>1. /\ Refused(c)' = Refused(c) \union {r}
            /\ r \notin Refused(c) /\ Refused(c) \subseteq Requests
        BY <1>1, <2>1, <3>1 DEF Refused, Answered, Received
      <4>2. Cardinality(Refused(c)') = Cardinality(Refused(c)) + 1
        BY <4>1, OneMore
      <4> QED BY <1>1, <1>8, <3>1, <4>2 DEF Tallied, TypeOK, L!TypeOK
    <3>2. CASE c # ip[r]
      <4>1. Refused(c)' = Refused(c)
        BY <1>1, <2>1, <3>2 DEF Refused
      <4> QED BY <1>1, <1>8, <3>2, <4>1 DEF Tallied, TypeOK, L!TypeOK
    <3> QED BY <3>1, <3>2
  <2> QED BY <1>1, <1>2, <1>5, <1>6, <2>2 DEF Tallied
<1> QED BY <1>7, <1>8

LEMMA HandlerCounts ==
  ASSUME TypeOK, Standing, Tallied, NEW r \in Requests, Handle(r)
  PROVE  Tallied'
<1>1. UNCHANGED limiter /\ stage[r] \in L!Served /\ ~old[r] /\ code[r] = 0 /\ UNCHANGED old
  BY HandlerAnswers, HandlerKeepsLimiter
<1>2. PICK k \in Codes : /\ code' = [code EXCEPT ![r] = k]
                         /\ \/ reqs' = [reqs EXCEPT ![k] = @ + 1]
                            \/ UNCHANGED reqs /\ k \notin {201, 400}
  BY HandlerAnswers
<1>3. Received' = Received /\ r \in Received
  BY <1>1 DEF Received, limiter, L!Served
<1>4. /\ \A c \in Clients : Of(c)' = Of(c) /\ Refused(c)' = Refused(c)
      /\ UNCHANGED <<requestsTotal, blockedTotal>>
  BY <1>1, <1>2, <1>3 DEF Of, Refused, Answered, limiter, TypeOK, Codes, Received
<1>5. \A l \in Codes \ {k} : Answered(l)' = Answered(l)
  BY <1>1, <1>2, <1>3 DEF Answered, TypeOK, Codes, Received
<1>6. /\ Answered(k)' = Answered(k) \union {r} /\ r \notin Answered(k)
      /\ Answered(k) \subseteq Requests
  BY <1>1, <1>2, <1>3 DEF Answered, TypeOK, Codes, Received
<1>7. /\ Cardinality(Answered(k)') = Cardinality(Answered(k)) + 1
      /\ Cardinality(Answered(k)) \in Nat
  BY <1>6, OneMore, FiniteSubset
<1>8. ASSUME NEW l \in Codes
      PROVE  /\ reqs'[l] <= Cardinality(Answered(l)')
             /\ l \in {201, 400} => reqs'[l] = Cardinality(Answered(l)')
  BY <1>2, <1>5, <1>7 DEF Tallied, TypeOK
<1> QED BY <1>4, <1>8 DEF Tallied

\* What the counters say is what has been received and answered.
THEOREM CountersCorrect == Spec => []Accounted
<1>1. Init => Tallied
  <2> SUFFICES ASSUME Init PROVE Tallied
    OBVIOUS
  <2>1. Received = {}
    BY DEF Init, L!Init, Received
  <2> QED BY <2>1, FS_EmptySet DEF Init, L!Init, Tallied, Of, Refused, Answered
<1>2. TypeOK /\ Standing /\ Tallied /\ [Next]_vars => Tallied'
  <2> SUFFICES ASSUME TypeOK, Standing, Tallied, [Next]_vars PROVE Tallied'
    OBVIOUS
  <2>1. ASSUME Crash PROVE Tallied'
    <3>1. /\ \A r \in Requests : (stage'[r] # "new") <=> (stage[r] # "new")
          /\ \A r \in Requests : old'[r] <=> stage[r] # "new"
          /\ \A c \in Clients : requestsTotal'[c] = 0 /\ blockedTotal'[c] = 0
          /\ \A k \in Codes : reqs'[k] = 0
      BY <2>1 DEF Crash, L!Crash, L!Working
    <3>2. Received' = {}
      BY <3>1 DEF Received
    <3>3. /\ \A k \in Codes : Answered(k)' = {}
          /\ \A c \in Clients : Of(c)' = {} /\ Refused(c)' = {}
      BY <3>2 DEF Answered, Of, Refused
    <3>4. /\ \A k \in Codes : Cardinality(Answered(k)') = 0
          /\ \A c \in Clients : Cardinality(Of(c)') = 0 /\ Cardinality(Refused(c)') = 0
      BY ONLY <3>3, FS_EmptySet
    <3> QED BY ONLY <3>1, <3>4 DEF Tallied
  <2>2. ASSUME UNCHANGED <<stage, ip, requestsTotal, blockedTotal, code, reqs, old>>
        PROVE  Tallied'
    BY <2>2, CountsKept DEF Of, Refused, Answered, Received
  <2>3. ASSUME Tick PROVE Tallied'
    BY <2>2, <2>3 DEF Tick, L!Tick, handlers, L!metrics
  <2>4. CASE UNCHANGED vars
    BY <2>2, <2>4 DEF vars, limiter, handlers
  <2> QED BY <2>1, <2>3, <2>4, EnterCounts, LimitingCounts, HandlerCounts DEF Next
<1>3. Tallied => Accounted
  BY DEF Tallied, Accounted, Of, Refused
<1> QED BY <1>1, <1>2, <1>3, TypeCorrect, StandingInvariant, PTL DEF Spec
==================================================================================
