-------------------------------- MODULE GeminiApp --------------------------------
(* The application server of gemini as a whole: MetricsMiddleware around the      *)
(* limiter of RateLimiter around the handlers, all in the context of a caller who *)
(* may go away.  Handlers are reduced to their statements (GeminiTasks has the    *)
(* contents of the rows).                                                         *)
EXTENDS Integers, FiniteSets

CONSTANTS Clients,     \* addresses
          Requests,    \* requests the server may receive
          Limit,       \* rateLimitRequests
          Window,      \* rateLimitWindow, in ticks
          MaxRetries,  \* how often the Redis client repeats a command
          Ids,         \* ids the SERIAL column may give
          Faults       \* what may go wrong: a subset of FaultKinds

FaultKinds == {"disconnect",  \* the caller goes away, its context is cancelled
               "db",          \* a statement fails
               "redis",       \* a Redis command fails
               "retry",       \* a reply of Redis is lost and the client repeats the command
               "crash"}       \* the server process dies and is started again

ASSUME LimitAssumption == Limit \in Nat \ {0}
ASSUME WindowAssumption == Window \in Nat \ {0}
ASSUME RetryAssumption == MaxRetries \in Nat
ASSUME RequestsAssumption == IsFiniteSet(Requests)
ASSUME ClientsAssumption == IsFiniteSet(Clients)
ASSUME FaultsAssumption == Faults \subseteq FaultKinds

VARIABLES
  stage, ip, ticket, retries, count, ttl,  \* the limiter, and its key in Redis
  requestsTotal, blockedTotal,             \* its counters
  life, epoch, age, keyAge,                \* its history
  gone,    \* gone[r]: the server has noticed that the caller of r has gone
  at,      \* at[r]: where r stands once the limiter has decided
  task,    \* task[r]: the rows that the UPDATE of r is about, at most one
  status,  \* status[r]: the status the interceptor holds, 200 until one is written
  reqs,    \* HTTPRequestCounter, by status; its path is "unknown" for every request
  old,     \* old[r]: the process that received r is dead
  live,    \* PostgreSQL: row i exists
  \* History, read by no action of the system:
  used,    \* used[i]: id i has been given
  wrote,   \* wrote[r]: r has changed a row
  excused  \* excused[r]: Redis failed r while the caller was there

limiter == <<stage, ip, ticket, retries, count, ttl, requestsTotal, blockedTotal,
             life, epoch, age, keyAge>>
answer  == <<at, task, status>>
db      == <<live, used, wrote>>
vars    == <<limiter, gone, answer, reqs, old, db, excused>>

L == INSTANCE RateLimiter WITH pc <- stage, Faults <- Faults \ {"db"}

Codes == {200, 201, 204, 400, 404, 405, 429, 500}

\* In the handler, or on the way to it: "body" is where the body of the request is
\* decoded, "update" between the two statements of UpdateTask, "list" where the list
\* is written to the caller.
Unanswered == {"limiter", "body", "update", "list"}
Places     == Unanswered \union {"answered", "recorded", "lost"}

TypeOK == /\ L!TypeOK
          /\ gone \in [Requests -> BOOLEAN]
          /\ at \in [Requests -> Places]
          /\ task \in [Requests -> SUBSET Ids]
          /\ status \in [Requests -> Codes]
          /\ reqs \in [Codes -> Nat]
          /\ old \in [Requests -> BOOLEAN]
          /\ live \in [Ids -> BOOLEAN]
          /\ used \in [Ids -> BOOLEAN]
          /\ wrote \in [Requests -> BOOLEAN]
          /\ excused \in [Requests -> BOOLEAN]

\* The status that net/http answers with when a handler writes none.
ImplicitStatus == 200

\* The table may hold tasks of earlier processes.
Init == /\ L!Init
        /\ gone = [r \in Requests |-> FALSE]
        /\ at = [r \in Requests |-> "limiter"]
        /\ task = [r \in Requests |-> {}]
        /\ status = [r \in Requests |-> ImplicitStatus]
        /\ reqs = [k \in Codes |-> 0]
        /\ old = [r \in Requests |-> FALSE]
        /\ live \in [Ids -> BOOLEAN]
        /\ used = live
        /\ wrote = [r \in Requests |-> FALSE]
        /\ excused = [r \in Requests |-> FALSE]

-----------------------------------------------------------------------------------
(* Middleware.                                                                    *)

Enter(r) == /\ L!Arrive(r)
            /\ UNCHANGED <<gone, answer, reqs, old, db, excused>>

\* The caller goes away, which matters until its request has been answered.
Disconnect(r) == /\ "disconnect" \in Faults
                 /\ stage[r] # "new" /\ ~old[r] /\ ~gone[r]
                 /\ at[r] \in Unanswered
                 /\ gone' = [gone EXCEPT ![r] = TRUE]
                 /\ UNCHANGED <<limiter, answer, reqs, old, db, excused>>

Write(r, c) == /\ status' = [status EXCEPT ![r] = c]
               /\ at' = [at EXCEPT ![r] = "answered"]

\* Mutant: a command waits for Redis although the caller has gone.
PatientCommand(r) ==
  \/ ~gone[r] /\ (L!OpenWindow(r) \/ L!Continue(r) \/ L!Expire(r)
                \/ L!IncrRepeated(r) \/ L!ExpireRepeated(r))
  \/ ~gone[r] /\ "redis" \in Faults /\ (L!IncrFails(r) \/ L!ExpireFails(r))

\* A command to Redis fails when the caller has gone, or Redis has.
Command(r) ==
  \/ ~gone[r] /\ (L!OpenWindow(r) \/ L!Continue(r) \/ L!Expire(r)
                \/ L!IncrRepeated(r) \/ L!ExpireRepeated(r))
  \/ (gone[r] \/ "redis" \in Faults) /\ (L!IncrFails(r) \/ L!ExpireFails(r))

\* Mutant: a request whose command to Redis failed is refused.
LimitingClosed(r) ==
  /\ Command(r)
  /\ IF stage'[r] \in {"blocked", "open"} THEN Write(r, 429) ELSE UNCHANGED <<at, status>>
  /\ excused' = [excused EXCEPT ![r] = stage'[r] = "open" /\ ~gone[r]]
  /\ UNCHANGED <<gone, task, reqs, old, db>>

\* The limiter refuses with 429 or hands the request on.
Limiting(r) == /\ Command(r)
               /\ IF stage'[r] = "blocked" THEN Write(r, 429) ELSE UNCHANGED <<at, status>>
               /\ excused' = [excused EXCEPT ![r] = stage'[r] = "open" /\ ~gone[r]]
               /\ UNCHANGED <<gone, task, reqs, old, db>>

\* Mutant: requests that were answered 429 are left out.
RecordServed(r) ==
  /\ at[r] = "answered" /\ ~old[r]
  /\ at' = [at EXCEPT ![r] = "recorded"]
  /\ reqs' = [reqs EXCEPT ![status[r]] = IF stage[r] = "blocked" THEN @ ELSE @ + 1]
  /\ UNCHANGED <<limiter, gone, task, status, old, db, excused>>

\* What MetricsMiddleware has deferred: the last status that was written is counted.
Record(r) == /\ at[r] = "answered" /\ ~old[r]
             /\ at' = [at EXCEPT ![r] = "recorded"]
             /\ reqs' = [reqs EXCEPT ![status[r]] = @ + 1]
             /\ UNCHANGED <<limiter, gone, task, status, old, db, excused>>

-----------------------------------------------------------------------------------
(* Handlers.                                                                      *)

\* Mutant: a statement is sent in a context of its own.
AnyCaller(r, from) == /\ stage[r] \in L!Served
                      /\ ~old[r]
                      /\ at[r] = from
                      /\ UNCHANGED <<limiter, gone, reqs, old, excused>>

\* Request r stands at from and sends a statement, which a context that has been
\* cancelled does not let through.
Statement(r, from) == /\ stage[r] \in L!Served
                      /\ ~old[r] /\ ~gone[r]
                      /\ at[r] = from
                      /\ UNCHANGED <<limiter, gone, reqs, old, excused>>

Change(r, i, alive) == /\ live' = [live EXCEPT ![i] = alive]
                       /\ used' = [used EXCEPT ![i] = TRUE]
                       /\ wrote' = [wrote EXCEPT ![r] = TRUE]

\* CreateTask and UpdateTask begin to decode the body, which the caller may still have
\* to send.
AwaitBody(r) == /\ stage[r] \in L!Served
                /\ ~old[r]
                /\ at[r] = "limiter"
                /\ at' = [at EXCEPT ![r] = "body"]
                /\ UNCHANGED <<limiter, gone, task, status, reqs, old, db, excused>>

\* GetTask, or an UpdateTask that finds no row.
Read(r) == /\ \/ Statement(r, "limiter") /\ (Write(r, 200) \/ Write(r, 404))
              \/ Statement(r, "body") /\ Write(r, 404)
           /\ UNCHANGED <<task, db>>

\* GetTasks has its rows.
GetTasks(r) == /\ Statement(r, "limiter")
               /\ at' = [at EXCEPT ![r] = "list"]
               /\ UNCHANGED <<task, status, db>>

\* The list, which has any length, has been written to the caller, as far as it could
\* be: 500 when it could not be written to its end.
Listed(r) == /\ stage[r] \in L!Served
             /\ ~old[r]
             /\ at[r] = "list"
             /\ Write(r, 200) \/ (gone[r] /\ Write(r, 500))
             /\ UNCHANGED <<limiter, gone, task, reqs, old, db, excused>>

CreateTask(r, i) == /\ Statement(r, "body")
                    /\ ~used[i]
                    /\ Change(r, i, TRUE)
                    /\ Write(r, 201)
                    /\ UNCHANGED task

\* UpdateTask reads the row first.
UpdateReads(r, i) == /\ Statement(r, "body")
                     /\ live[i]
                     /\ task' = [task EXCEPT ![r] = {i}]
                     /\ at' = [at EXCEPT ![r] = "update"]
                     /\ UNCHANGED <<status, db>>

Update(r) == /\ Statement(r, "update")
             /\ \E i \in task[r] : IF live[i] THEN Change(r, i, TRUE) /\ Write(r, 200)
                                   ELSE UNCHANGED db /\ Write(r, 404)
             /\ UNCHANGED task

DeleteTask(r, i) == /\ Statement(r, "limiter")
                    /\ IF live[i] THEN Change(r, i, FALSE) /\ Write(r, 204)
                       ELSE UNCHANGED db /\ Write(r, 404)
                    /\ UNCHANGED task

\* The statement fails, or the caller goes away while it is executed: executed or
\* not, the answer is 500.
Fails(r) ==
  /\ Faults \intersect {"db", "disconnect"} # {}
  /\ \/ /\ Statement(r, "limiter")
        /\ UNCHANGED db \/ \E i \in Ids : live[i] /\ Change(r, i, FALSE)
     \/ /\ Statement(r, "body")
        /\ UNCHANGED db \/ \E i \in Ids : ~used[i] /\ Change(r, i, TRUE)
     \/ /\ Statement(r, "update")
        /\ UNCHANGED db \/ \E i \in task[r] : live[i] /\ Change(r, i, TRUE)
  /\ Write(r, 500)
  /\ UNCHANGED task

\* What is answered without a statement: 400 for an id or a body that is refused or
\* cannot be read, 404 and 405 for a path or a method without a route, 500 when the
\* context has been cancelled.
WithoutStatement(r) ==
  /\ stage[r] \in L!Served
  /\ ~old[r]
  /\ \/ at[r] = "limiter" /\ (Write(r, 400) \/ Write(r, 404) \/ Write(r, 405))
     \/ at[r] = "body" /\ Write(r, 400)
     \/ at[r] \in {"limiter", "body", "update"} /\ gone[r] /\ Write(r, 500)
  /\ UNCHANGED <<limiter, gone, task, reqs, old, db, excused>>

Handler(r) == \/ AwaitBody(r) \/ Read(r) \/ GetTasks(r) \/ Listed(r)
              \/ Update(r) \/ Fails(r) \/ WithoutStatement(r)
              \/ \E i \in Ids : CreateTask(r, i) \/ UpdateReads(r, i) \/ DeleteTask(r, i)

-----------------------------------------------------------------------------------
(* The process dies with its requests and its counters, and is started again.     *)
Crash == /\ L!Crash
         /\ old' = [r \in Requests |-> stage[r] # "new"]
         /\ at' = [r \in Requests |-> IF stage[r] # "new" /\ at[r] \in Unanswered
                                      THEN "lost" ELSE at[r]]
         /\ gone' = [r \in Requests |-> FALSE]
         /\ task' = [r \in Requests |-> {}]
         /\ reqs' = [k \in Codes |-> 0]
         /\ UNCHANGED <<status, db, excused>>

Tick == L!Tick /\ UNCHANGED <<gone, answer, reqs, old, db, excused>>

Serve(r) == Limiting(r) \/ Handler(r) \/ Record(r)

Next == \/ \E r \in Requests : Enter(r) \/ Disconnect(r) \/ Serve(r)
        \/ Crash
        \/ Tick

Spec == Init /\ [][Next]_vars

\* The handler waits for its caller: no timeout ends the reading of a body, nor the
\* writing of a list.
AwaitsCaller(r) == at[r] \in {"body", "list"} /\ ~gone[r]

\* The goroutine of a request keeps running.  Of the callers nothing is assumed: they
\* need neither send what they have announced nor read what they are sent.
FairSpec == Spec /\ \A r \in Requests : WF_vars(~AwaitsCaller(r) /\ Serve(r))

-----------------------------------------------------------------------------------
(* Properties.                                                                    *)

Received == {r \in Requests : stage[r] # "new" /\ ~old[r]}

\* The requests that were answered k, and those of them the middleware has counted.
Answered(k) == {r \in Received : at[r] \in {"answered", "recorded"} /\ status[r] = k}
Recorded(k) == {r \in Received : at[r] = "recorded" /\ status[r] = k}

\* Since the process was started the limiter has counted every request received, and
\* as refused those that were answered 429; and the middleware around it has counted
\* every request that has ended, a refused one like any other, under the status it
\* was answered with.
CountersAgree ==
  /\ \A c \in Clients :
       /\ requestsTotal[c] = Cardinality({r \in Received : ip[r] = c})
       /\ blockedTotal[c] = Cardinality({r \in Answered(429) : ip[r] = c})
  /\ \A k \in Codes : reqs[k] = Cardinality(Recorded(k))

\* The limiter fails open, and a caller can make it fail by going away; but what it
\* gets past the limiter that way changes no row.  Of the requests of one address
\* that a window has counted at most Limit change one, and a request that was not
\* counted changes one only when Redis has failed.
BypassWritesNothing ==
  /\ \A r \in Requests : wrote[r] => stage[r] = "admitted" \/ excused[r]
  /\ \A c \in Clients, e \in {epoch[r] : r \in Requests} :
       Cardinality({r \in L!AdmittedIn(c, e) : wrote[r]}) <= Limit

\* What the callers see of the quota: 429, or that they were let in.
quotaSeen == [r \in Requests |->
                IF at[r] \in {"answered", "recorded"} /\ status[r] = 429 THEN "refused"
                ELSE IF stage[r] = "open" THEN "bypassed"
                ELSE IF ticket[r] # 0 THEN "admitted" ELSE "none"]

Q == INSTANCE Quota WITH left <- L!quotaLeft, since <- keyAge, verdict <- quotaSeen

\* Whoever goes away and whatever fails, the application answers 429 where a quota of
\* Limit admissions per Window ticks would refuse, and nowhere else; a request that its
\* context makes fail in the limiter is passed on, and takes no more of the quota
\* than one that is counted.
ImplementsQuota == Q!QSpec

\* Every request that the server has accepted ends, and is recorded, unless the process
\* dies or its own caller, still connected, keeps the handler waiting for ever (main.go
\* sets no timeouts): nothing waits for another request, nor for a caller who has gone.
EveryRequestEnds ==
  \A r \in Requests :
    stage[r] # "new" ~> \/ at[r] = "recorded"
                        \/ old[r]
                        \/ []AwaitsCaller(r)
==================================================================================
