-------------------------------- MODULE TaskCache --------------------------------
(* The tasks API of ai-studio: handlers that run concurrently on a PostgreSQL     *)
(* table and, for single tasks, a Redis cache that is read through and deleted    *)
(* after a write.  Every command to either store is a step of its own.            *)
EXTENDS Integers, FiniteSets

CONSTANTS Ids,         \* ids the SERIAL column may give
          NoTask,      \* the task of a request that has none yet
          Requests,    \* requests the server may receive
          InFlight,    \* bound: how many requests are inside the server at a time
          MaxRetries,  \* how often the Redis client repeats a command
          Faults       \* what may go wrong: a subset of FaultKinds

FaultKinds == {"db",     \* an SQL statement fails, or its answer is lost
               "redis",  \* a Redis command fails, or its caller's context is cancelled
               "retry",  \* a reply of Redis is lost and the client repeats the command
               "crash"}  \* the server process dies and is started again

ASSUME NoTaskAssumption == NoTask \notin Ids
ASSUME InFlightAssumption == InFlight \in Nat \ {0}
ASSUME RetryAssumption == MaxRetries \in Nat
ASSUME RequestsAssumption == IsFiniteSet(Requests)
ASSUME FaultsAssumption == Faults \subseteq FaultKinds

VARIABLES
  pc,       \* pc[r]: the next command of request r
  op,       \* op[r]: which handler serves r
  task,     \* task[r]: the task r is about
  got,      \* got[r]: the version r has read or written, 0 when there was no row
  code,     \* code[r]: the HTTP status r was answered with, 0 while there is none
  retries,  \* retries[r]: how often the SET or DEL of r was sent again
  ver,      \* PostgreSQL: how often row i was changed; the content of a row is its version
  live,     \* PostgreSQL: row i exists
  cache,    \* Redis: the version stored under task:i, 0 when the key is absent
  expires,  \* Redis: task:i has a TTL
  \* History, read by no action of the system:
  acked,    \* acked[i]: the newest version of i whose writer was told of success
  floor,    \* floor[r]: acked of the task when the read r arrived
  taint,    \* taint[i]: the copy in Redis was stored by a read that a write had
            \* overtaken, or has outlived a deletion of the key that was lost
  tainted,  \* tainted[r]: r was answered with such a copy
  excused   \* excused[r]: r was answered with a copy that the writer of a newer
            \* version was about to delete, or with a list whose rows stopped coming

request == <<pc, op, task, got, code, retries>>
db      == <<ver, live>>
redis   == <<cache, expires>>
history == <<acked, floor, taint, tainted, excused>>
vars    == <<request, db, redis, history>>

Unknown == -1

Reads  == {"get", "list"}
Writes == {"put", "delete"}
Ops    == Reads \union Writes \union {"post"}
Active == {"cache", "select", "set", "exec", "del"}

TypeOK == /\ pc \in [Requests -> Active \union {"idle", "done", "lost"}]
          /\ op \in [Requests -> Ops \union {"none"}]
          /\ task \in [Requests -> Ids \union {NoTask}]
          /\ got \in [Requests -> Nat \union {Unknown}]
          /\ code \in [Requests -> {0, 200, 201, 204, 404, 500}]
          /\ retries \in [Requests -> 0..MaxRetries]
          /\ ver \in [Ids -> Nat]
          /\ live \in [Ids -> BOOLEAN]
          /\ cache \in [Ids -> Nat]
          /\ expires \in [Ids -> BOOLEAN]
          /\ acked \in [Ids -> Nat]
          /\ floor \in [Requests -> Nat]
          /\ taint \in [Ids -> BOOLEAN]
          /\ tainted \in [Requests -> BOOLEAN]
          /\ excused \in [Requests -> BOOLEAN]

Init == /\ pc = [r \in Requests |-> "idle"]
        /\ op = [r \in Requests |-> "none"]
        /\ task = [r \in Requests |-> NoTask]
        /\ got = [r \in Requests |-> Unknown]
        /\ code = [r \in Requests |-> 0]
        /\ retries = [r \in Requests |-> 0]
        /\ ver = [i \in Ids |-> 0]
        /\ live = [i \in Ids |-> FALSE]
        /\ cache = [i \in Ids |-> 0]
        /\ expires = [i \in Ids |-> FALSE]
        /\ acked = [i \in Ids |-> 0]
        /\ floor = [r \in Requests |-> 0]
        /\ taint = [i \in Ids |-> FALSE]
        /\ tainted = [r \in Requests |-> FALSE]
        /\ excused = [r \in Requests |-> FALSE]

-----------------------------------------------------------------------------------
(* Commands of the two stores.                                                    *)

\* Mutant: the copy is stored without an expiry.
RedisSetForever(i, v) == /\ cache' = [cache EXCEPT ![i] = v]
                         /\ expires' = [expires EXCEPT ![i] = FALSE]
                         /\ taint' = [taint EXCEPT ![i] = v < ver[i]]

RedisSet(i, v) == /\ cache' = [cache EXCEPT ![i] = v]
                  /\ expires' = [expires EXCEPT ![i] = TRUE]
                  /\ taint' = [taint EXCEPT ![i] = v < ver[i]]

RedisDel(i) == /\ cache' = [cache EXCEPT ![i] = 0]
               /\ expires' = [expires EXCEPT ![i] = FALSE]
               /\ taint' = [taint EXCEPT ![i] = FALSE]

\* The key stays although a write meant to delete it.
DelLost(i) == taint' = [taint EXCEPT ![i] = cache[i] # 0]

Row(i) == IF live[i] THEN ver[i] ELSE 0

Commit(i, alive) == /\ ver' = [ver EXCEPT ![i] = @ + 1]
                    /\ live' = [live EXCEPT ![i] = alive]

\* UPDATE and DELETE do nothing, successfully, when the row does not exist.
SqlWrite(r, i) == IF live[i] THEN Commit(i, op[r] = "put") ELSE UNCHANGED db

-----------------------------------------------------------------------------------
(* Handlers and storage methods.                                                  *)

Goto(r, where) == pc' = [pc EXCEPT ![r] = where]

Answer(r, c) == /\ Goto(r, "done")
                /\ code' = [code EXCEPT ![r] = c]

FirstCommand(o) == CASE o = "get"    -> "cache"
                     [] o = "list"   -> "select"
                     [] o \in Writes \union {"post"} -> "exec"

\* A request arrives.  (A list is followed with regard to one of the tasks.)  Bounds:
\* InFlight, and no more creations than there are ids.
Arrive(r, o, i) ==
  /\ pc[r] = "idle"
  /\ o = "post" => Cardinality({q \in Requests : op[q] = "post"}) < Cardinality(Ids)
  /\ Cardinality({q \in Requests : pc[q] \in Active}) < InFlight
  /\ Goto(r, FirstCommand(o))
  /\ op' = [op EXCEPT ![r] = o]
  /\ IF o = "post"
     THEN UNCHANGED <<task, floor>>
     ELSE /\ task' = [task EXCEPT ![r] = i]
          /\ floor' = [floor EXCEPT ![r] = acked[i]]
  /\ UNCHANGED <<got, code, retries, db, redis, acked, taint, tainted, excused>>

\* The writers that are about to delete the copy of a task.
Pending(i) == {r \in Requests : pc[r] = "del" /\ task[r] = i}

\* GetTask, step 1: a copy in Redis is the answer.
CacheHit(r) == /\ pc[r] = "cache"
               /\ cache[task[r]] # 0
               /\ got' = [got EXCEPT ![r] = cache[task[r]]]
               /\ tainted' = [tainted EXCEPT ![r] = taint[task[r]]]
               /\ excused' = [excused EXCEPT ![r] =
                                \E w \in Pending(task[r]) : got[w] > cache[task[r]]]
               /\ Answer(r, 200)
               /\ UNCHANGED <<op, task, retries, db, redis, acked, floor, taint>>

\* No copy, or GET failed: both are a miss.
CacheMiss(r) == /\ pc[r] = "cache"
                /\ cache[task[r]] = 0 \/ "redis" \in Faults
                /\ Goto(r, "select")
                /\ UNCHANGED <<op, task, retries, got, code, db, redis, history>>

\* Mutant: that there is no such task is cached, too.
SelectNegative(r) ==
  /\ pc[r] = "select"
  /\ got' = [got EXCEPT ![r] = Row(task[r])]
  /\ IF op[r] = "get" THEN Goto(r, "set") /\ UNCHANGED code ELSE Answer(r, 200)
  /\ UNCHANGED <<op, task, retries, db, redis, history>>

\* GetTask, step 2, and ListTasks: read the table.
Select(r) == /\ pc[r] = "select"
             /\ got' = [got EXCEPT ![r] = Row(task[r])]
             /\ IF op[r] = "get" /\ live[task[r]]
                THEN Goto(r, "set") /\ UNCHANGED code
                ELSE Answer(r, IF op[r] = "list" THEN 200 ELSE 404)
             /\ UNCHANGED <<op, task, retries, db, redis, history>>

\* Mutant: the error is overlooked, and what was not read is stored.
SelectFailsOn(r) == /\ "db" \in Faults
                    /\ pc[r] = "select"
                    /\ Goto(r, "set")
                    /\ UNCHANGED <<op, task, retries, got, code, db, redis, history>>

\* The statement fails, or its rows stop coming: ListTasks does not ask rows.Err()
\* and answers with the tasks that came, without this one.
SelectFails(r) == /\ "db" \in Faults
                  /\ pc[r] = "select"
                  /\ \/ Answer(r, 500) /\ UNCHANGED <<got, excused>>
                     \/ /\ op[r] = "list"
                        /\ got' = [got EXCEPT ![r] = 0]
                        /\ excused' = [excused EXCEPT ![r] = TRUE]
                        /\ Answer(r, 200)
                  /\ UNCHANGED <<op, task, retries, db, redis, acked, floor, taint, tainted>>

\* GetTask, step 3: store what was read for a minute, and answer with it.
CacheSet(r) == /\ pc[r] = "set"
               /\ RedisSet(task[r], got[r])
               /\ Answer(r, 200)
               /\ UNCHANGED <<op, task, retries, got, db, acked, floor, tainted, excused>>

\* A command was applied, its reply was lost, and the Redis client sends it again.
Repeat(r) == /\ "retry" \in Faults
             /\ retries[r] < MaxRetries
             /\ retries' = [retries EXCEPT ![r] = @ + 1]
             /\ UNCHANGED <<pc, op, task, got, code, db, acked, floor, tainted, excused>>

CacheSetRepeated(r) == /\ pc[r] = "set"
                       /\ RedisSet(task[r], got[r])
                       /\ Repeat(r)

\* SET was not executed, and its error is ignored.  (To fail after it was executed is
\* the same as CacheSet, and so with DEL.)
CacheSetFails(r) == /\ "redis" \in Faults
                    /\ pc[r] = "set"
                    /\ Answer(r, 200)
                    /\ UNCHANGED <<op, task, retries, got, db, redis, history>>

\* Mutant: the writer is told of success before the key is deleted.
ExecAcknowledges(r) ==
  /\ pc[r] = "exec"
  /\ op[r] \in Writes
  /\ got' = [got EXCEPT ![r] = IF live[task[r]] THEN ver[task[r]] + 1 ELSE 0]
  /\ SqlWrite(r, task[r])
  /\ acked' = [acked EXCEPT ![task[r]] = IF live[task[r]] THEN ver[task[r]] + 1 ELSE @]
  /\ Goto(r, "del")
  /\ UNCHANGED <<op, task, retries, code, redis, floor, taint, tainted, excused>>

\* UpdateTask and DeleteTask: the statement is executed, on a row or on none.
Exec(r) == /\ pc[r] = "exec"
           /\ op[r] \in Writes
           /\ got' = [got EXCEPT ![r] = IF live[task[r]] THEN ver[task[r]] + 1 ELSE 0]
           /\ SqlWrite(r, task[r])
           /\ Goto(r, "del")
           /\ UNCHANGED <<op, task, retries, code, redis, history>>

\* The statement returns an error, executed or not: 500, and the cache is left alone.
ExecFails(r) == /\ "db" \in Faults
                /\ pc[r] = "exec"
                /\ op[r] \in Writes
                /\ \/ SqlWrite(r, task[r]) /\ DelLost(task[r])
                   \/ UNCHANGED <<db, taint>>
                /\ Answer(r, 500)
                /\ UNCHANGED <<op, task, retries, got, redis, acked, floor, tainted, excused>>

\* Success is acknowledged, whether or not there was a row.
Acknowledge(r) ==
  /\ Answer(r, IF op[r] = "put" THEN 200 ELSE 204)
  /\ acked' = [acked EXCEPT ![task[r]] = IF got[r] > @ THEN got[r] ELSE @]
  /\ UNCHANGED <<op, task, retries, got, db, floor, tainted, excused>>

\* Mutant: only tasks:all is deleted.
CacheDelAll(r) == /\ pc[r] = "del"
                  /\ Acknowledge(r)
                  /\ UNCHANGED <<redis, taint>>

\* The copy in Redis is deleted (so is tasks:all, a key that is never set).
CacheDel(r) == /\ pc[r] = "del"
               /\ RedisDel(task[r])
               /\ Acknowledge(r)

CacheDelRepeated(r) == /\ pc[r] = "del"
                       /\ RedisDel(task[r])
                       /\ Repeat(r)

\* The error of DEL is ignored.
CacheDelFails(r) == /\ "redis" \in Faults
                    /\ pc[r] = "del"
                    /\ DelLost(task[r])
                    /\ Acknowledge(r)
                    /\ UNCHANGED redis

\* CreateTask: the row gets an id that was never given before.
Insert(r) == /\ pc[r] = "exec"
             /\ op[r] = "post"
             /\ \E i \in Ids :
                  /\ ver[i] = 0
                  /\ Commit(i, TRUE)
                  /\ task' = [task EXCEPT ![r] = i]
                  /\ acked' = [acked EXCEPT ![i] = 1]
             /\ got' = [got EXCEPT ![r] = 1]
             /\ Answer(r, 201)
             /\ UNCHANGED <<op, retries, redis, floor, taint, tainted, excused>>

InsertFails(r) == /\ "db" \in Faults
                  /\ pc[r] = "exec"
                  /\ op[r] = "post"
                  /\ \/ \E i \in Ids : ver[i] = 0 /\ Commit(i, TRUE)
                     \/ UNCHANGED db
                  /\ Answer(r, 500)
                  /\ UNCHANGED <<op, task, retries, got, redis, history>>

\* The minute is over: Redis drops the key.
Evict(i) == /\ cache[i] # 0
            /\ expires[i]
            /\ RedisDel(i)
            /\ UNCHANGED <<request, db, acked, floor, tainted, excused>>

\* The server dies with the requests inside it; writes that had not reached DEL
\* never will.
Crash == /\ "crash" \in Faults
         /\ \E r \in Requests : pc[r] \in Active
         /\ pc' = [r \in Requests |-> IF pc[r] \in Active THEN "lost" ELSE pc[r]]
         /\ taint' = [i \in Ids |->
                        \/ taint[i]
                        \/ /\ cache[i] # 0
                           /\ \E r \in Requests : pc[r] = "del" /\ task[r] = i]
         /\ UNCHANGED <<op, task, retries, got, code, db, redis, acked, floor, tainted, excused>>

\* All requests are answered: the server waits.
Idle == /\ \A r \in Requests : pc[r] \in {"done", "lost"}
        /\ UNCHANGED vars

Handle(r) == \/ CacheHit(r) \/ CacheMiss(r) \/ Select(r) \/ SelectFails(r)
             \/ CacheSet(r) \/ CacheSetRepeated(r) \/ CacheSetFails(r)
             \/ Exec(r) \/ ExecFails(r)
             \/ CacheDel(r) \/ CacheDelRepeated(r) \/ CacheDelFails(r)
             \/ Insert(r) \/ InsertFails(r)

Next == \/ \E r \in Requests, o \in Ops, i \in Ids : Arrive(r, o, i)
        \/ \E r \in Requests : Handle(r)
        \/ \E i \in Ids : Evict(i)
        \/ Crash
        \/ Idle

Spec == Init /\ [][Next]_vars

\* A request inside the server keeps running, and a TTL runs out.
Fairness == /\ \A r \in Requests : WF_vars(Handle(r))
            /\ \A i \in Ids : WF_vars(Evict(i))

FairSpec == Spec /\ Fairness

-----------------------------------------------------------------------------------
(* Properties.                                                                    *)

\* A copy in Redis that is older than the row is one that a writer is about to
\* delete, or one whose deletion was lost, or one stored by a read that a write
\* overtook (UpdateTask and DeleteTask write first and delete the key afterwards).
StaleHasCause ==
  \A i \in Ids : cache[i] # 0 /\ cache[i] < ver[i] =>
    \/ taint[i]
    \/ \A v \in cache[i] + 1 .. ver[i] : \E r \in Pending(i) : got[r] = v

\* A read that returns less than a write acknowledged before it arrived was
\* answered with a copy of which one of the two mishaps above is the cause: the
\* invalidation protocol itself, uninterrupted, hides no acknowledged write.
FreshUnlessTainted ==
  \A r \in Requests :
    op[r] \in Reads /\ got[r] > 0 /\ got[r] < floor[r] => tainted[r]

\* Whatever fails, a copy older than the row does not stay: the minute for which
\* GetTask stores it is over some time.
StaleEntriesDie ==
  \A i \in Ids : cache[i] # 0 /\ cache[i] < ver[i] ~> cache[i] = 0 \/ cache[i] = ver[i]

\* Whatever fails, a deleted task is some day forgotten for good: a late read may
\* bring it back into the cache, but no read can keep it there.
DeletedIsForgotten == \A i \in Ids : ver[i] > 0 /\ ~live[i] ~> [](cache[i] = 0)

Store == INSTANCE TaskStore WITH result <- got

\* The cache is transparent: requests behave as on the table alone, each taking
\* effect at one moment.
ImplementsStore == Store!SSpec

Table == INSTANCE TaskStore
           WITH result <- [r \in Requests |->
                             IF tainted[r] \/ excused[r] THEN Unknown ELSE got[r]]

\* However many requests run at once and whatever fails, the API with its cache
\* answers like the table alone, except from a copy that is tainted, or that
\* the writer of a newer version is about to delete, and except lists whose rows stopped
\* coming: no hit is wrong for another reason (GetTask stores only what it has read).
TransparentUnlessStale == Table!SSpec

Reviving(i) == {r \in Requests : pc[r] = "set" /\ task[r] = i}

\* The times that SET may still be sent for a task: a read sends it once, and once more
\* for every repetition.
LateSets(i) == {s \in Reviving(i) \X (0..MaxRetries) : s[2] >= retries[s[1]]}

\* A deleted task comes back into the cache only by reads that had selected it before.
\* They bring it back as often as the Redis client sends their SET, at most, which gets
\* less with every time; no new ones join them, and the row stays deleted.
RevivedOnlyByLateReads ==
  [][\A i \in Ids : ver[i] > 0 /\ ~live[i] =>
       /\ ~live'[i]
       /\ LateSets(i)' \subseteq LateSets(i)
       /\ cache'[i] \notin {0, cache[i]} => LateSets(i)' # LateSets(i)]_vars
==================================================================================
