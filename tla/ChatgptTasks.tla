------------------------------- MODULE ChatgptTasks ------------------------------
(* The tasks API of chatgpt: the limiter of RateLimiter, whose commands do not    *)
(* depend on the caller, in front of handlers that send one statement each and    *)
(* count their own answers.  Limiter and handlers share the requests and the      *)
(* process, with which both their counters die.                                   *)
EXTENDS Integers, FiniteSets

CONSTANTS Clients,     \* addresses, as realIP finds them
          Requests,    \* requests the server may receive
          Limit,       \* requests per window
          Window,      \* length of a window in ticks
          MaxRetries,  \* how often the Redis client repeats a command
          Ids,         \* ids the SERIAL column gives after those of the seed
          Faults       \* what may go wrong: a subset of FaultKinds

FaultKinds == {"db",     \* a statement fails, or its caller goes away
               "redis",  \* a Redis command fails
               "retry",  \* a reply of Redis is lost and the client repeats the command
               "crash"}  \* the server process dies and is started again

ASSUME LimitAssumption == Limit \in Nat \ {0}
ASSUME WindowAssumption == Window \in Nat \ {0}
ASSUME RetryAssumption == MaxRetries \in Nat
ASSUME RequestsAssumption == IsFiniteSet(Requests)
ASSUME FaultsAssumption == Faults \subseteq FaultKinds

VARIABLES
  stage, ip, ticket, retries, count, ttl,           \* the limiter, and its key in Redis
  requestsTotal, blockedTotal,                      \* its counters
  life, epoch, age, keyAge,                         \* its history
  got,    \* got[r]: the version r has read or written, 0 when there was no row
  code,   \* code[r]: the HTTP status r was answered with, 0 while there is none
  reqs,   \* http_requests_total, by status
  old,    \* old[r]: the process that received r is dead
  ver,    \* PostgreSQL: how often row i was changed; the content of a row is its version
  live,   \* PostgreSQL: row i exists
  \* History, read by no action of the system:
  torn,   \* torn[r]: the rows stopped coming before r had read them all
  wrote   \* wrote[r]: r has changed a row

limiter  == <<stage, ip, ticket, retries, count, ttl, requestsTotal, blockedTotal,
              life, epoch, age, keyAge>>
handlers == <<got, code, reqs, old>>
db       == <<ver, live>>
history  == <<torn, wrote>>
vars     == <<limiter, handlers, db, history>>

L == INSTANCE RateLimiter WITH pc <- stage, Faults <- Faults \ {"db"}

Unknown == -1

Codes == {200, 201, 400, 404, 500}

TypeOK == /\ L!TypeOK
          /\ got \in [Requests -> Nat \union {Unknown}]
          /\ code \in [Requests -> Codes \union {0, 429}]
          /\ reqs \in [Codes -> Nat]
          /\ old \in [Requests -> BOOLEAN]
          /\ ver \in [Ids -> Nat]
          /\ live \in [Ids -> BOOLEAN]
          /\ torn \in [Requests -> BOOLEAN]
          /\ wrote \in [Requests -> BOOLEAN]

Init == /\ L!Init
        /\ got = [r \in Requests |-> Unknown]
        /\ code = [r \in Requests |-> 0]
        /\ reqs = [k \in Codes |-> 0]
        /\ old = [r \in Requests |-> FALSE]
        /\ ver = [i \in Ids |-> 0]
        /\ live = [i \in Ids |-> FALSE]
        /\ torn = [r \in Requests |-> FALSE]
        /\ wrote = [r \in Requests |-> FALSE]

-----------------------------------------------------------------------------------
(* The limiter.                                                                   *)

\* Every route is behind the limiter, the one of the metrics, too.
Enter(r) == /\ L!Arrive(r)
            /\ UNCHANGED <<handlers, db, history>>

\* Mutant: EXPIRE is sent in the context of the caller, who has gone.
LimitingForCaller(r) ==
  \/ /\ L!Handle(r)
     /\ code' = IF stage'[r] = "blocked" THEN [code EXCEPT ![r] = 429] ELSE code
     /\ UNCHANGED <<got, reqs, old, db, history>>
  \/ /\ stage[r] = "expire"
     /\ L!Goto(r, "admitted")
     /\ UNCHANGED <<ip, ticket, retries, count, ttl, requestsTotal, blockedTotal,
                    life, epoch, age, keyAge, handlers, db, history>>

\* What the limiter refuses it answers itself.
Limiting(r) == /\ L!Handle(r)
               /\ code' = IF stage'[r] = "blocked" THEN [code EXCEPT ![r] = 429] ELSE code
               /\ UNCHANGED <<got, reqs, old, db, history>>

\* Where a request is handed on to its handler.
HandedOn == L!Served

-----------------------------------------------------------------------------------
(* Handlers.  A handler sends one statement, counts its answer and gives it.      *)

Row(i) == IF live[i] THEN ver[i] ELSE 0

\* Mutant: the limiter does not return when it has refused a request.
AnswerRefused(r, c) == /\ stage[r] \in HandedOn \union {"blocked"}
                       /\ ~old[r]
                       /\ code[r] \in {0, 429}
                       /\ code' = [code EXCEPT ![r] = c]
                       /\ reqs' = [reqs EXCEPT ![c] = @ + 1]
                       /\ UNCHANGED <<limiter, old>>

\* An answer that no counter sees.
AnswerUnseen(r, c) == /\ stage[r] \in HandedOn
                      /\ ~old[r]
                      /\ code[r] = 0
                      /\ code' = [code EXCEPT ![r] = c]
                      /\ UNCHANGED <<limiter, reqs, old>>

Answer(r, c) == /\ stage[r] \in HandedOn
                /\ ~old[r]
                /\ code[r] = 0
                /\ code' = [code EXCEPT ![r] = c]
                /\ reqs' = [reqs EXCEPT ![c] = @ + 1]
                /\ UNCHANGED <<limiter, old>>

Reads(r, v) == /\ got' = [got EXCEPT ![r] = v]
               /\ UNCHANGED <<db, wrote>>

Commit(r, i, alive) == /\ ver' = [ver EXCEPT ![i] = @ + 1]
                       /\ live' = [live EXCEPT ![i] = alive]
                       /\ wrote' = [wrote EXCEPT ![r] = TRUE]

\* ListTasks, with regard to one of the tasks.
List(r, i) == /\ Reads(r, Row(i))
              /\ Answer(r, 200)
              /\ UNCHANGED torn

\* The rows stop coming before the one of the task: nobody asks rows.Err().
ListTorn(r) == /\ "db" \in Faults
               /\ Reads(r, 0)
               /\ torn' = [torn EXCEPT ![r] = TRUE]
               /\ Answer(r, 200)

\* The caller goes away between Next and Scan: an error that is not counted.
ScanFails(r) == /\ "db" \in Faults
                /\ AnswerUnseen(r, 500)
                /\ UNCHANGED <<got, db, history>>

GetTask(r, i) == /\ Reads(r, Row(i))
                 /\ Answer(r, IF live[i] THEN 200 ELSE 404)
                 /\ UNCHANGED torn

\* Mutant: whether a row was affected is not asked.
WriteBlindly(r, i, alive) ==
  /\ IF live[i] THEN Commit(r, i, alive) ELSE UNCHANGED <<db, wrote>>
  /\ got' = [got EXCEPT ![r] = ver[i] + 1]
  /\ Answer(r, 200)
  /\ UNCHANGED torn

\* UpdateTask and DeleteTask: no row affected is 404.
Write(r, i, alive) ==
  /\ IF live[i]
     THEN /\ Commit(r, i, alive)
          /\ got' = [got EXCEPT ![r] = ver[i] + 1]
          /\ Answer(r, 200)
     ELSE /\ Reads(r, 0)
          /\ Answer(r, 404)
  /\ UNCHANGED torn

CreateTask(r, i) == /\ ver[i] = 0
                    /\ Commit(r, i, TRUE)
                    /\ got' = [got EXCEPT ![r] = 1]
                    /\ Answer(r, 201)
                    /\ UNCHANGED torn

\* The statement returns an error, executed or not.
Fails(r) == /\ "db" \in Faults
            /\ \/ UNCHANGED <<db, wrote>>
               \/ \E i \in Ids : \/ ver[i] = 0 /\ Commit(r, i, TRUE)
                                 \/ live[i] /\ \E alive \in BOOLEAN : Commit(r, i, alive)
            /\ Answer(r, 500)
            /\ UNCHANGED <<got, torn>>

\* A body that cannot be decoded is 400.  An id that cannot be parsed is that of no
\* row (the error of ParseInt is ignored), which makes it 404.
Malformed(r) == /\ Answer(r, 400) \/ Answer(r, 404)
                /\ UNCHANGED <<got, db, history>>

\* The metrics, and paths without a route.
Elsewhere(r) == /\ AnswerUnseen(r, 200) \/ AnswerUnseen(r, 404)
                /\ UNCHANGED <<got, db, history>>

Handle(r) == \/ \E i \in Ids : \/ List(r, i) \/ GetTask(r, i) \/ CreateTask(r, i)
                               \/ \E alive \in BOOLEAN : Write(r, i, alive)
             \/ ListTorn(r) \/ ScanFails(r) \/ Fails(r) \/ Malformed(r) \/ Elsewhere(r)

-----------------------------------------------------------------------------------
(* The process.                                                                   *)

\* Mutant: the counters of the handlers outlive the process.
CrashKeepsCounts == /\ L!Crash
                    /\ old' = [r \in Requests |-> stage[r] # "new"]
                    /\ UNCHANGED <<got, code, reqs, db, history>>

\* The process dies with its requests and its counters, and is started again.
Crash == /\ L!Crash
         /\ old' = [r \in Requests |-> stage[r] # "new"]
         /\ reqs' = [k \in Codes |-> 0]
         /\ UNCHANGED <<got, code, db, history>>

Tick == L!Tick /\ UNCHANGED <<handlers, db, history>>

Next == \/ \E r \in Requests : Enter(r) \/ Limiting(r) \/ Handle(r)
        \/ Crash
        \/ Tick

Spec == Init /\ [][Next]_vars

-----------------------------------------------------------------------------------
(* Properties.                                                                    *)

\* The requests of this life of the process.
Received == {r \in Requests : stage[r] # "new" /\ ~old[r]}

Answered(k) == {r \in Received : code[r] = k}

\* What the dashboards and alerts compute with: since the process was started,
\* rate_limiter_requests_total is the number of requests received, handed on or not,
\* rate_limiter_blocked_total the number answered 429, and http_requests_total counts
\* no answer that was not given, none of the refused, and every 201 and 400.
Accounted ==
  /\ \A c \in Clients :
       /\ requestsTotal[c] = Cardinality({r \in Received : ip[r] = c})
       /\ blockedTotal[c] = Cardinality({r \in Answered(429) : ip[r] = c})
  /\ \A k \in Codes :
       /\ reqs[k] <= Cardinality(Answered(k))
       /\ k \in {201, 400} => reqs[k] = Cardinality(Answered(k))

\* The limiter protects the table: of the requests of one address that one window has
\* counted at most Limit change a row, and a request that was refused changes none,
\* even if the process dies on the way.
WritesWithinQuota ==
  /\ \A r \in Requests : wrote[r] => stage[r] \in L!Served /\ code[r] # 429
  /\ \A c \in Clients, e \in {epoch[r] : r \in Requests} :
       Cardinality({r \in L!AdmittedIn(c, e) : wrote[r]}) <= Limit

\* Because the limiter does not use the context of its caller, only the death of the
\* process between INCR and EXPIRE leaves a key that never expires (as long as Redis
\* answers every command at once).
StrandedOnlyByCrash ==
  Faults \intersect {"redis", "retry"} = {} =>
    \A c \in Clients : count[c] > 0 /\ ttl[c] = 0 =>
      \E r \in Requests : /\ ip[r] = c /\ epoch[r] = life[c] /\ ticket[r] = 1
                          /\ stage[r] \in {"expire", "lost"}

\* Behind handlers the limiter is still the one that implements the quota.
LimiterUndisturbed == L!Spec

Store == INSTANCE TaskStore
           WITH result <- [r \in Requests |-> IF torn[r] THEN Unknown ELSE got[r]]

\* Every answer is that of a table on which requests take effect at one moment: 404
\* exactly when there was no such task, whatever else happens to it meanwhile.  The
\* lists whose rows stopped coming are the exception, they miss tasks that exist.
ImplementsStore == Store!SSpec
==================================================================================
