----------------------------- MODULE TaskCacheProofs -----------------------------
(* Theorems about TaskCache for every set of ids and requests.                    *)
EXTENDS TaskCache, FiniteSetTheorems, TLAPS

-----------------------------------------------------------------------------------
(* Type correctness.                                                              *)

LEMMA SqlType ==
  ASSUME TypeOK, NEW i \in Ids, NEW alive \in BOOLEAN, Commit(i, alive)
  PROVE  ver' \in [Ids -> Nat] /\ live' \in [Ids -> BOOLEAN]
  BY DEF TypeOK, Commit

LEMMA SqlWriteType ==
  ASSUME TypeOK, NEW r \in Requests, NEW i \in Ids, SqlWrite(r, i)
  PROVE  ver' \in [Ids -> Nat] /\ live' \in [Ids -> BOOLEAN]
<1>1. (op[r] = "put") \in BOOLEAN
  OBVIOUS
<1>2. CASE live[i]
  BY <1>1, <1>2, SqlType DEF SqlWrite
<1>3. CASE ~live[i]
  BY <1>3 DEF TypeOK, SqlWrite, db
<1> QED BY <1>2, <1>3

\* A request inside a handler other than a creation has a task and a handler; one
\* that has not arrived has nothing.
Assigned ==
  \A r \in Requests :
    /\ pc[r] = "idle" => op[r] = "none" /\ got[r] = Unknown /\ task[r] = NoTask
    /\ pc[r] \in {"cache", "select", "set"} => op[r] \in Reads
    /\ pc[r] = "cache" => op[r] = "get"
    /\ pc[r] = "del" => op[r] \in Writes
    /\ op[r] \in Reads \union Writes => task[r] \in Ids
    /\ pc[r] \in {"set", "del"} => got[r] \in Nat

LEMMA NextType == TypeOK /\ Assigned /\ [Next]_vars => TypeOK'
<1> SUFFICES ASSUME TypeOK, Assigned, [Next]_vars PROVE TypeOK'
  OBVIOUS
<1> USE DEF Goto, Answer, Active
<1>1. ASSUME NEW r \in Requests, NEW o \in Ops, NEW i \in Ids, Arrive(r, o, i)
      PROVE  TypeOK'
  <2>1. FirstCommand(o) \in Active
    BY DEF Ops, Reads, Writes, FirstCommand
  <2>2. task' \in [Requests -> Ids \union {NoTask}] /\ floor' \in [Requests -> Nat]
    BY <1>1 DEF TypeOK, Arrive
  <2>3. pc' \in [Requests -> Active \union {"idle", "done", "lost"}]
    BY <1>1, <2>1 DEF TypeOK, Arrive
  <2> HIDE DEF Goto, Answer
  <2> QED BY <1>1, <2>2, <2>3 DEF TypeOK, Arrive, db, redis
<1>2. ASSUME NEW r \in Requests, CacheHit(r) PROVE TypeOK'
  BY <1>2 DEF TypeOK, Assigned, Reads, CacheHit, db, redis
<1>3. ASSUME NEW r \in Requests, CacheMiss(r) PROVE TypeOK'
  BY <1>3 DEF TypeOK, CacheMiss, db, redis, history
<1>4. ASSUME NEW r \in Requests, Select(r) PROVE TypeOK'
  BY <1>4 DEF TypeOK, Assigned, Reads, Select, Row, db, redis, history
<1>5. ASSUME NEW r \in Requests, SelectFails(r) PROVE TypeOK'
  <2>1. got' \in [Requests -> Nat \union {Unknown}] /\ excused' \in [Requests -> BOOLEAN]
    <3>1. CASE UNCHANGED <<got, excused>>
      BY <3>1 DEF TypeOK
    <3>2. CASE /\ got' = [got EXCEPT ![r] = 0]
               /\ excused' = [excused EXCEPT ![r] = TRUE]
      BY <3>2 DEF TypeOK
    <3> QED BY <1>5, <3>1, <3>2 DEF SelectFails
  <2>2. /\ pc' = [pc EXCEPT ![r] = "done"]
        /\ code' \in [Requests -> {0, 200, 201, 204, 404, 500}]
        /\ UNCHANGED <<op, task, retries, db, redis, acked, floor, taint, tainted>>
    BY <1>5 DEF TypeOK, SelectFails
  <2> QED BY <2>1, <2>2 DEF TypeOK, db, redis
<1>6. ASSUME NEW r \in Requests, CacheSet(r) PROVE TypeOK'
  BY <1>6 DEF TypeOK, Assigned, Reads, CacheSet, RedisSet, db
<1>7. ASSUME NEW r \in Requests, CacheSetFails(r) PROVE TypeOK'
  BY <1>7 DEF TypeOK, CacheSetFails, db, redis, history
<1>18. ASSUME NEW r \in Requests, CacheSetRepeated(r) \/ CacheDelRepeated(r) PROVE TypeOK'
  <2>1. task[r] \in Ids /\ (pc[r] = "set" => got[r] \in Nat)
    BY <1>18 DEF CacheSetRepeated, CacheDelRepeated, Assigned, Reads
  <2>2. retries' \in [Requests -> 0..MaxRetries]
    BY <1>18, RetryAssumption DEF TypeOK, CacheSetRepeated, CacheDelRepeated, Repeat
  <2>3. /\ cache' \in [Ids -> Nat]
        /\ expires' \in [Ids -> BOOLEAN]
        /\ taint' \in [Ids -> BOOLEAN]
    <3>1. CASE CacheSetRepeated(r)
      BY <2>1, <3>1 DEF TypeOK, CacheSetRepeated, RedisSet
    <3>2. CASE CacheDelRepeated(r)
      BY <2>1, <3>2 DEF TypeOK, CacheDelRepeated, RedisDel
    <3> QED BY <1>18, <3>1, <3>2
  <2> QED
    BY <1>18, <2>2, <2>3 DEF TypeOK, CacheSetRepeated, CacheDelRepeated, Repeat, db
<1>8. ASSUME NEW r \in Requests, Exec(r) PROVE TypeOK'
  <2>1. task[r] \in Ids
    BY <1>8 DEF Exec, Assigned, Writes
  <2> QED BY <1>8, <2>1, SqlWriteType DEF TypeOK, Exec, redis, history
<1>9. ASSUME NEW r \in Requests, ExecFails(r) PROVE TypeOK'
  <2>1. task[r] \in Ids
    BY <1>9 DEF ExecFails, Assigned, Writes
  <2>2. ver' \in [Ids -> Nat] /\ live' \in [Ids -> BOOLEAN] /\ taint' \in [Ids -> BOOLEAN]
    <3>1. CASE SqlWrite(r, task[r]) /\ DelLost(task[r])
      BY <2>1, <3>1, SqlWriteType DEF TypeOK, DelLost
    <3>2. CASE UNCHANGED <<db, taint>>
      BY <3>2 DEF TypeOK, db
    <3> QED BY <1>9, <3>1, <3>2 DEF ExecFails
  <2> QED BY <1>9, <2>2 DEF TypeOK, ExecFails, redis
<1>10. ASSUME NEW r \in Requests, Acknowledge(r), pc[r] = "del"
       PROVE  /\ pc' \in [Requests -> Active \union {"idle", "done", "lost"}]
              /\ code' \in [Requests -> {0, 200, 201, 204, 404, 500}]
              /\ acked' \in [Ids -> Nat]
              /\ UNCHANGED <<op, task, retries, got, db, floor, tainted, excused>>
  <2>1. task[r] \in Ids /\ got[r] \in Nat
    BY <1>10 DEF Assigned
  <2> QED BY <1>10, <2>1 DEF TypeOK, Acknowledge
<1>11. ASSUME NEW r \in Requests, CacheDel(r) PROVE TypeOK'
  <2>1. task[r] \in Ids
    BY <1>11 DEF CacheDel, Assigned
  <2> QED BY <1>10, <1>11, <2>1 DEF TypeOK, CacheDel, RedisDel, db
<1>12. ASSUME NEW r \in Requests, CacheDelFails(r) PROVE TypeOK'
  <2>1. taint' \in [Ids -> BOOLEAN]
    BY <1>12 DEF TypeOK, CacheDelFails, DelLost
  <2>2. pc[r] = "del" /\ Acknowledge(r) /\ UNCHANGED redis
    BY <1>12 DEF CacheDelFails
  <2> HIDE DEF Goto, Answer
  <2> QED BY <1>10, <2>1, <2>2 DEF TypeOK, db, redis
<1>13. ASSUME NEW r \in Requests, Insert(r) PROVE TypeOK'
  <2>1. PICK i \in Ids : /\ Commit(i, TRUE)
                         /\ task' = [task EXCEPT ![r] = i]
                         /\ acked' = [acked EXCEPT ![i] = 1]
    BY <1>13 DEF Insert
  <2>2. ver' \in [Ids -> Nat] /\ live' \in [Ids -> BOOLEAN]
    BY <2>1, SqlType
  <2> QED BY <1>13, <2>1, <2>2 DEF TypeOK, Insert, redis
<1>14. ASSUME NEW r \in Requests, InsertFails(r) PROVE TypeOK'
  <2>1. ver' \in [Ids -> Nat] /\ live' \in [Ids -> BOOLEAN]
    <3>1. CASE \E i \in Ids : Commit(i, TRUE)
      BY <3>1, SqlType
    <3>2. CASE UNCHANGED db
      BY <3>2 DEF TypeOK, db
    <3> QED BY <1>14, <3>1, <3>2 DEF InsertFails
  <2> QED BY <1>14, <2>1 DEF TypeOK, InsertFails, redis, history
<1>15. ASSUME NEW i \in Ids, Evict(i) PROVE TypeOK'
  BY <1>15 DEF TypeOK, Evict, RedisDel, request, db
<1>16. ASSUME Crash PROVE TypeOK'
  BY <1>16 DEF TypeOK, Crash, db, redis
<1>17. CASE UNCHANGED vars
  BY <1>17 DEF TypeOK, vars, request, db, redis, history
<1> QED
  BY <1>1, <1>2, <1>3, <1>4, <1>5, <1>6, <1>7, <1>8, <1>9, <1>11, <1>12, <1>13,
     <1>14, <1>15, <1>16, <1>17, <1>18 DEF Next, Handle, Idle

LEMMA NextAssigned == TypeOK /\ Assigned /\ [Next]_vars => Assigned'
<1> SUFFICES ASSUME TypeOK, Assigned, [Next]_vars PROVE Assigned'
  OBVIOUS
<1> USE DEF Goto, Answer, Reads, Writes
<1>1. ASSUME NEW r \in Requests, NEW o \in Ops, NEW i \in Ids, Arrive(r, o, i)
      PROVE  Assigned'
  BY <1>1 DEF TypeOK, Assigned, Arrive, Ops, FirstCommand
<1>2. ASSUME NEW r \in Requests, CacheHit(r) \/ CacheMiss(r) PROVE Assigned'
  BY <1>2 DEF TypeOK, Assigned, CacheHit, CacheMiss
<1>3. ASSUME NEW r \in Requests, Select(r) PROVE Assigned'
  BY <1>3 DEF TypeOK, Assigned, Select, Row
<1>4. ASSUME NEW r \in Requests, \/ SelectFails(r) \/ CacheSet(r) \/ CacheSetFails(r)
                                 \/ ExecFails(r) \/ InsertFails(r)
      PROVE  Assigned'
  <2>1. /\ pc[r] # "idle" /\ pc' = [pc EXCEPT ![r] = "done"] /\ UNCHANGED <<op, task>>
    BY <1>4 DEF SelectFails, CacheSet, CacheSetFails, ExecFails, InsertFails
  <2>2. CASE SelectFails(r)
    <3>1. \A q \in Requests : q # r => got'[q] = got[q]
      <4>1. UNCHANGED got \/ got' = [got EXCEPT ![r] = 0]
        BY <2>2 DEF SelectFails
      <4> QED BY <4>1 DEF TypeOK
    <3> QED BY <2>1, <3>1 DEF TypeOK, Assigned
  <2>3. CASE CacheSet(r) \/ CacheSetFails(r) \/ ExecFails(r) \/ InsertFails(r)
    <3>1. UNCHANGED got
      BY <2>3 DEF CacheSet, CacheSetFails, ExecFails, InsertFails
    <3> QED BY <2>1, <3>1 DEF TypeOK, Assigned
  <2> QED BY <1>4, <2>2, <2>3
<1>5. ASSUME NEW r \in Requests, Exec(r) PROVE Assigned'
  BY <1>5 DEF TypeOK, Assigned, Exec
<1>6. ASSUME NEW r \in Requests, CacheDel(r) \/ CacheDelFails(r) PROVE Assigned'
  BY <1>6 DEF TypeOK, Assigned, CacheDel, CacheDelFails, Acknowledge
<1>7. ASSUME NEW r \in Requests, Insert(r) PROVE Assigned'
  BY <1>7 DEF TypeOK, Assigned, Insert
<1>8. ASSUME NEW i \in Ids, Evict(i) PROVE Assigned'
  BY <1>8 DEF Assigned, Evict, request
<1>9. ASSUME Crash PROVE Assigned'
  BY <1>9 DEF TypeOK, Assigned, Crash, Active
<1>10. CASE UNCHANGED vars
  BY <1>10 DEF Assigned, vars, request
<1>11. ASSUME NEW r \in Requests, CacheSetRepeated(r) \/ CacheDelRepeated(r) PROVE Assigned'
  BY <1>11 DEF Assigned, CacheSetRepeated, CacheDelRepeated, Repeat
<1> QED
  BY <1>1, <1>2, <1>3, <1>4, <1>5, <1>6, <1>7, <1>8, <1>9, <1>10, <1>11
     DEF Next, Handle, Idle

\* What a repetition does: a SET stores what its read has, a DEL leaves no copy, and
\* nothing else changes.
LEMMA RepetitionEffect ==
  ASSUME TypeOK, Assigned, NEW r \in Requests, CacheSetRepeated(r) \/ CacheDelRepeated(r)
  PROVE  /\ UNCHANGED <<pc, op, task, got, code, db, acked, floor, tainted, excused>>
         /\ \A i \in Ids :
              \/ cache'[i] = cache[i] /\ taint'[i] = taint[i]
              \/ cache'[i] = 0 /\ taint'[i] = FALSE
              \/ /\ i = task[r] /\ pc[r] = "set" /\ op[r] \in Reads /\ got[r] \in Nat
                 /\ cache'[i] = got[r] /\ taint'[i] = (got[r] < ver[i])
<1>1. UNCHANGED <<pc, op, task, got, code, db, acked, floor, tainted, excused>>
  BY DEF CacheSetRepeated, CacheDelRepeated, Repeat
<1>2. CASE CacheSetRepeated(r)
  <2>1. pc[r] = "set" /\ op[r] \in Reads /\ got[r] \in Nat /\ RedisSet(task[r], got[r])
    BY <1>2 DEF CacheSetRepeated, Assigned
  <2> QED BY <1>1, <2>1 DEF TypeOK, RedisSet
<1>3. CASE CacheDelRepeated(r)
  BY <1>1, <1>3 DEF TypeOK, CacheDelRepeated, RedisDel
<1> QED BY <1>1, <1>2, <1>3

\* Every variable keeps its type.
THEOREM TypeCorrect == Spec => [](TypeOK /\ Assigned)
<1>1. Init => TypeOK /\ Assigned
  BY RetryAssumption DEF Init, TypeOK, Assigned, Unknown, Reads, Writes
<1> QED BY <1>1, NextType, NextAssigned, PTL DEF Spec
-----------------------------------------------------------------------------------
(* The invalidation protocol.                                                     *)

\* Nothing is newer than the row it was read from or written to.
Bounded ==
  /\ \A i \in Ids : cache[i] <= ver[i] /\ acked[i] <= ver[i]
  /\ \A i \in Ids : live[i] => ver[i] > 0
  /\ \A r \in Requests : pc[r] \in {"set", "del"} => got[r] <= ver[task[r]]
  /\ \A r \in Requests : op[r] \in Reads => floor[r] <= acked[task[r]]

\* What is known of the copy in Redis: no acknowledged write is missing from it,
\* unless a mishap explains it.
Covered == \A i \in Ids : cache[i] # 0 /\ ~taint[i] => acked[i] <= cache[i]

LEMMA SqlWriteEffect ==
  ASSUME TypeOK, NEW r \in Requests, NEW i \in Ids, SqlWrite(r, i)
  PROVE  /\ \/ live[i] /\ ver'[i] = ver[i] + 1
            \/ ~live[i] /\ ver'[i] = ver[i] /\ live'[i] = live[i]
         /\ \A j \in Ids \ {i} : ver'[j] = ver[j] /\ live'[j] = live[j]
  BY DEF TypeOK, SqlWrite, Commit, db

LEMMA NextBounded == TypeOK /\ Assigned /\ Bounded /\ [Next]_vars => Bounded'
<1> SUFFICES ASSUME TypeOK, Assigned, Bounded, [Next]_vars PROVE Bounded'
  OBVIOUS
<1> USE DEF Goto, Answer
<1>0. \A r \in Requests : op[r] \in Reads => task[r] \in Ids
  BY DEF Assigned
<1>1. ASSUME NEW r \in Requests, NEW o \in Ops, NEW i \in Ids, Arrive(r, o, i)
      PROVE  Bounded'
  <2>1. FirstCommand(o) \notin {"set", "del"}
    BY DEF Ops, Reads, Writes, FirstCommand
  <2>2. UNCHANGED <<got, db, redis, acked>> /\ pc' = [pc EXCEPT ![r] = FirstCommand(o)]
    BY <1>1 DEF Arrive
  <2>3. \A q \in Requests : q # r => task'[q] = task[q] /\ floor'[q] = floor[q] /\ op'[q] = op[q]
    BY <1>1 DEF TypeOK, Arrive
  <2>4. op'[r] \in Reads => floor'[r] = acked[i] /\ task'[r] = i
    BY <1>1 DEF TypeOK, Arrive, Reads
  <2> QED BY <2>1, <2>2, <2>3, <2>4 DEF TypeOK, Bounded, db, redis
<1>2. ASSUME NEW r \in Requests,
             UNCHANGED <<op, task, db, redis, acked, floor>>,
             \A q \in Requests : q # r => got'[q] = got[q],
             pc' = [pc EXCEPT ![r] = pc'[r]], pc'[r] \notin {"set", "del"}
      PROVE  Bounded'
  BY <1>2 DEF TypeOK, Bounded, db, redis
<1>3. ASSUME NEW r \in Requests, CacheMiss(r) \/ SelectFails(r) \/ CacheSetFails(r)
      PROVE  Bounded'
  <2>1. /\ UNCHANGED <<op, task, db, redis, acked, floor>>
        /\ \A q \in Requests : q # r => got'[q] = got[q]
        /\ pc' = [pc EXCEPT ![r] = pc'[r]] /\ pc'[r] \notin {"set", "del"}
    BY <1>3 DEF TypeOK, CacheMiss, SelectFails, CacheSetFails, history
  <2> QED BY <1>2, <2>1
<1>4. ASSUME NEW r \in Requests, CacheHit(r) PROVE Bounded'
  BY <1>4 DEF TypeOK, Bounded, CacheHit, db, redis
<1>5. ASSUME NEW r \in Requests, Select(r) PROVE Bounded'
  <2>1. task[r] \in Ids
    BY <1>5 DEF Select, Assigned
  <2> QED BY <1>5, <2>1 DEF TypeOK, Bounded, Select, Row, db, redis, history
<1>6. ASSUME NEW r \in Requests, CacheSet(r) PROVE Bounded'
  <2>1. task[r] \in Ids
    BY <1>6 DEF CacheSet, Assigned
  <2> QED BY <1>6, <2>1 DEF TypeOK, Bounded, CacheSet, RedisSet, db
<1>7. ASSUME NEW r \in Requests, NEW i \in Ids, SqlWrite(r, i)
      PROVE  \A j \in Ids : ver'[j] >= ver[j] /\ ver'[j] \in Nat /\ (live'[j] => ver'[j] > 0)
  BY <1>7, SqlWriteEffect, SqlWriteType DEF TypeOK, Bounded
<1>8. ASSUME NEW r \in Requests, Exec(r) PROVE Bounded'
  <2>1. task[r] \in Ids /\ SqlWrite(r, task[r])
    BY <1>8 DEF Exec, Assigned
  <2>2. got'[r] <= ver'[task[r]]
    BY <1>8, <2>1, SqlWriteEffect DEF TypeOK, Exec
  <2>3. \A j \in Ids : ver'[j] >= ver[j] /\ ver'[j] \in Nat /\ (live'[j] => ver'[j] > 0)
    BY <1>7, <2>1
  <2>4. \A q \in Requests : pc[q] \in {"set", "del"} => got[q] \in Nat /\ task[q] \in Ids
    BY DEF Assigned
  <2> QED BY <1>8, <2>2, <2>3, <2>4 DEF TypeOK, Bounded, Exec, redis, history
<1>9. ASSUME NEW r \in Requests, ExecFails(r) PROVE Bounded'
  <2>1. \A j \in Ids : ver'[j] >= ver[j] /\ ver'[j] \in Nat /\ (live'[j] => ver'[j] > 0)
    <3>1. task[r] \in Ids
      BY <1>9 DEF ExecFails, Assigned
    <3>2. CASE SqlWrite(r, task[r])
      BY <1>7, <3>1, <3>2
    <3>3. CASE UNCHANGED db
      BY <3>3 DEF TypeOK, Bounded, db
    <3> QED BY <1>9, <3>2, <3>3 DEF ExecFails
  <2>2. \A q \in Requests : pc[q] \in {"set", "del"} => got[q] \in Nat /\ task[q] \in Ids
    BY DEF Assigned
  <2> QED BY <1>9, <2>1, <2>2 DEF TypeOK, Bounded, ExecFails, redis
<1>10. ASSUME NEW r \in Requests, CacheDel(r) \/ CacheDelFails(r) PROVE Bounded'
  <2>1. task[r] \in Ids /\ got[r] \in Nat /\ pc[r] = "del"
    BY <1>10 DEF CacheDel, CacheDelFails, Assigned
  <2>2. \A i \in Ids : acked'[i] \in Nat /\ acked'[i] >= acked[i] /\ acked'[i] <= ver[i]
    BY <1>10, <2>1 DEF TypeOK, Bounded, CacheDel, CacheDelFails, Acknowledge
  <2>3. \A i \in Ids : cache'[i] \in {0, cache[i]}
    BY <1>10, <2>1 DEF TypeOK, CacheDel, CacheDelFails, RedisDel, redis
  <2>4. /\ UNCHANGED <<op, task, got, db, floor>>
        /\ pc' = [pc EXCEPT ![r] = "done"]
    BY <1>10 DEF CacheDel, CacheDelFails, Acknowledge
  <2> QED BY <1>0, <2>2, <2>3, <2>4 DEF TypeOK, Bounded, db
<1>11. ASSUME NEW r \in Requests, Insert(r) PROVE Bounded'
  <2>1. PICK i \in Ids : /\ ver[i] = 0 /\ Commit(i, TRUE)
                         /\ task' = [task EXCEPT ![r] = i]
                         /\ acked' = [acked EXCEPT ![i] = 1]
    BY <1>11 DEF Insert
  <2>2. \A q \in Requests : pc[q] \in {"set", "del"} => got[q] \in Nat /\ task[q] \in Ids
    BY DEF Assigned
  <2>3. acked[i] = 0 /\ op[r] \notin Reads
    BY <1>11, <2>1 DEF TypeOK, Bounded, Insert, Reads
  <2>4. \A j \in Ids : /\ ver'[j] = IF j = i THEN 1 ELSE ver[j]
                       /\ acked'[j] = IF j = i THEN 1 ELSE acked[j]
    BY <2>1 DEF TypeOK, Commit
  <2>5. /\ UNCHANGED <<op, redis, floor>>
        /\ pc' = [pc EXCEPT ![r] = "done"]
        /\ \A q \in Requests : q # r => task'[q] = task[q] /\ got'[q] = got[q]
    BY <1>11, <2>1 DEF TypeOK, Insert
  <2>6. \A j \in Ids : /\ cache[j] \in Nat /\ acked[j] \in Nat /\ ver[j] \in Nat
                       /\ cache[j] <= ver[j] /\ acked[j] <= ver[j]
    BY DEF TypeOK, Bounded
  <2>7. \A j \in Ids : /\ cache'[j] <= ver'[j] /\ acked'[j] <= ver'[j]
                       /\ ver'[j] >= ver[j] /\ acked'[j] >= acked[j]
    BY <2>1, <2>3, <2>4, <2>5, <2>6 DEF redis
  <2>8. \A j \in Ids : live'[j] => ver'[j] > 0
    BY <2>1 DEF TypeOK, Bounded, Commit
  <2>9. \A q \in Requests : pc'[q] \in {"set", "del"} => got'[q] <= ver'[task'[q]]
    <3> SUFFICES ASSUME NEW q \in Requests, pc'[q] \in {"set", "del"}
                 PROVE  got'[q] <= ver'[task'[q]]
      OBVIOUS
    <3>1. q # r /\ pc[q] \in {"set", "del"}
      BY <2>5 DEF TypeOK
    <3>2. got[q] <= ver[task[q]] /\ got[q] \in Nat /\ task[q] \in Ids
      BY <2>2, <3>1 DEF Bounded
    <3>3. got'[q] = got[q] /\ task'[q] = task[q]
      BY <2>5, <3>1
    <3>4. ver[task[q]] \in Nat /\ ver'[task[q]] \in Nat /\ ver'[task[q]] >= ver[task[q]]
      BY <2>4, <2>6, <2>7, <3>2
    <3> QED BY <3>2, <3>3, <3>4
  <2>10. \A q \in Requests : op'[q] \in Reads => floor'[q] <= acked'[task'[q]]
    <3> SUFFICES ASSUME NEW q \in Requests, op[q] \in Reads
                 PROVE  floor[q] <= acked'[task'[q]]
      BY <2>5
    <3>1. floor[q] <= acked[task[q]] /\ floor[q] \in Nat /\ task[q] \in Ids
      BY <1>0 DEF TypeOK, Bounded
    <3>2. task'[q] = task[q]
      BY <2>3, <2>5
    <3>3. acked[task[q]] \in Nat /\ acked'[task[q]] \in Nat /\ acked'[task[q]] >= acked[task[q]]
      BY <2>4, <2>6, <2>7, <3>1
    <3> QED BY <3>1, <3>2, <3>3
  <2> QED BY <2>7, <2>8, <2>9, <2>10 DEF Bounded
<1>12. ASSUME NEW r \in Requests, InsertFails(r) PROVE Bounded'
  <2>1. \A j \in Ids : ver'[j] >= ver[j] /\ ver'[j] \in Nat /\ (live'[j] => ver'[j] > 0)
    BY <1>12 DEF TypeOK, Bounded, InsertFails, Commit, db
  <2>2. \A q \in Requests : pc[q] \in {"set", "del"} => got[q] \in Nat /\ task[q] \in Ids
    BY DEF Assigned
  <2> QED BY <1>12, <2>1, <2>2 DEF TypeOK, Bounded, InsertFails, redis, history
<1>13. ASSUME NEW i \in Ids, Evict(i) PROVE Bounded'
  BY <1>13 DEF TypeOK, Bounded, Evict, RedisDel, request, db
<1>14. ASSUME Crash PROVE Bounded'
  BY <1>14 DEF TypeOK, Bounded, Crash, db, redis
<1>15. CASE UNCHANGED vars
  BY <1>15 DEF Bounded, vars, request, db, redis, history
<1>16. ASSUME NEW r \in Requests, CacheSetRepeated(r) \/ CacheDelRepeated(r) PROVE Bounded'
  <2>1. \A i \in Ids : cache'[i] <= ver[i]
    <3> SUFFICES ASSUME NEW i \in Ids PROVE cache'[i] <= ver[i]
      OBVIOUS
    <3>1. /\ cache[i] \in Nat /\ ver[i] \in Nat /\ cache[i] <= ver[i]
          /\ pc[r] = "set" => got[r] <= ver[task[r]]
      BY DEF TypeOK, Bounded
    <3>2. \/ cache'[i] = cache[i] \/ cache'[i] = 0
          \/ i = task[r] /\ pc[r] = "set" /\ cache'[i] = got[r]
      BY <1>16, RepetitionEffect
    <3> QED BY <3>1, <3>2
  <2> QED BY <1>16, <2>1, RepetitionEffect DEF Bounded, db
<1> QED
  BY <1>1, <1>3, <1>4, <1>5, <1>6, <1>8, <1>9, <1>10, <1>11, <1>12, <1>13, <1>14, <1>15,
     <1>16
     DEF Next, Handle, Idle
LEMMA NextCovered == TypeOK /\ Assigned /\ Bounded /\ Covered /\ [Next]_vars => Covered'
<1> SUFFICES ASSUME TypeOK, Assigned, Bounded, Covered, [Next]_vars,
                    NEW i \in Ids, cache'[i] # 0, ~taint'[i]
             PROVE  acked'[i] <= cache'[i]
  BY DEF Covered
<1>1. cache[i] \in Nat /\ ver[i] \in Nat /\ acked[i] \in Nat /\ acked[i] <= ver[i]
      /\ cache[i] <= ver[i]
  BY DEF TypeOK, Bounded
<1>2. CASE UNCHANGED <<acked, cache, taint>>
  BY <1>2 DEF Covered
<1>3. ASSUME NEW r \in Requests, NEW o \in Ops, NEW j \in Ids, Arrive(r, o, j)
      PROVE  acked'[i] <= cache'[i]
  BY <1>2, <1>3 DEF Arrive, redis
<1>4. ASSUME NEW r \in Requests,
             \/ CacheHit(r) \/ CacheMiss(r) \/ Select(r) \/ SelectFails(r)
             \/ CacheSetFails(r) \/ Exec(r) \/ InsertFails(r)
      PROVE  acked'[i] <= cache'[i]
  BY <1>2, <1>4 DEF CacheHit, CacheMiss, Select, SelectFails, CacheSetFails, Exec,
                    InsertFails, redis, history
<1>5. ASSUME NEW r \in Requests, CacheSet(r) PROVE acked'[i] <= cache'[i]
  <2>1. task[r] \in Ids /\ got[r] \in Nat /\ got[r] <= ver[task[r]] /\ acked' = acked
    BY <1>5 DEF CacheSet, Assigned, Bounded
  <2>2. CASE task[r] = i
    <3>1. cache'[i] = got[r]
      BY <1>5, <2>1, <2>2 DEF TypeOK, CacheSet, RedisSet
    <3>2. ASSUME got[r] < ver[i] PROVE FALSE
      <4>1. taint'[i] = (got[r] < ver[i])
        BY <1>5, <2>1, <2>2 DEF TypeOK, CacheSet, RedisSet
      <4> QED BY <3>2, <4>1
    <3> QED BY <1>1, <2>1, <2>2, <3>1, <3>2
  <2>3. CASE task[r] # i
    BY <1>5, <2>1, <2>3 DEF TypeOK, Covered, CacheSet, RedisSet
  <2> QED BY <2>2, <2>3
<1>6. ASSUME NEW r \in Requests, ExecFails(r) PROVE acked'[i] <= cache'[i]
  <2>1. UNCHANGED <<acked, cache>>
    BY <1>6 DEF ExecFails, redis
  <2>2. ~taint[i] \/ cache[i] = 0
    BY <1>6 DEF TypeOK, ExecFails, DelLost
  <2> QED BY <2>1, <2>2 DEF Covered
<1>7. ASSUME NEW r \in Requests, CacheDel(r) \/ CacheDelFails(r) PROVE acked'[i] <= cache'[i]
  <2>1. task[r] \in Ids /\ i # task[r]
    <3>1. task[r] \in Ids
      BY <1>7 DEF CacheDel, CacheDelFails, Assigned
    <3>2. ASSUME CacheDel(r) PROVE i # task[r]
      BY <3>1, <3>2 DEF TypeOK, CacheDel, RedisDel
    <3>3. ASSUME CacheDelFails(r), i = task[r] PROVE FALSE
      <4>1. cache' = cache /\ taint'[i] = (cache[i] # 0)
        BY <3>1, <3>3 DEF TypeOK, CacheDelFails, DelLost, redis
      <4> QED BY <4>1
    <3> QED BY <1>7, <3>1, <3>2, <3>3
  <2>2. acked'[i] = acked[i] /\ cache'[i] = cache[i] /\ taint'[i] = taint[i]
    BY <1>7, <2>1 DEF TypeOK, CacheDel, CacheDelFails, RedisDel, DelLost, Acknowledge, redis
  <2> QED BY <2>2 DEF Covered
<1>8. ASSUME NEW r \in Requests, Insert(r) PROVE acked'[i] <= cache'[i]
  <2>1. PICK j \in Ids : ver[j] = 0 /\ acked' = [acked EXCEPT ![j] = 1]
    BY <1>8 DEF Insert
  <2>2. UNCHANGED <<cache, taint>>
    BY <1>8 DEF Insert, redis
  <2>3. i # j
    BY <1>1, <2>1, <2>2
  <2> QED BY <2>1, <2>2, <2>3 DEF TypeOK, Covered
<1>9. ASSUME NEW j \in Ids, Evict(j) PROVE acked'[i] <= cache'[i]
  BY <1>9 DEF TypeOK, Covered, Evict, RedisDel
<1>10. ASSUME Crash PROVE acked'[i] <= cache'[i]
  BY <1>10 DEF Covered, Crash, redis
<1>11. CASE UNCHANGED vars
  BY <1>2, <1>11 DEF vars, redis, history
<1>12. ASSUME NEW r \in Requests, CacheSetRepeated(r) \/ CacheDelRepeated(r)
       PROVE  acked'[i] <= cache'[i]
  <2>1. acked' = acked
    BY <1>12, RepetitionEffect
  <2>2. \/ cache'[i] = cache[i] /\ ~taint[i]
        \/ got[r] \in Nat /\ cache'[i] = got[r] /\ ~(got[r] < ver[i])
    BY <1>12, RepetitionEffect
  <2> QED BY <1>1, <2>1, <2>2 DEF Covered
<1> QED
  BY <1>3, <1>4, <1>5, <1>6, <1>7, <1>8, <1>9, <1>10, <1>11, <1>12 DEF Next, Handle, Idle

LEMMA NextStaleHasCause ==
  TypeOK /\ Assigned /\ Bounded /\ StaleHasCause /\ [Next]_vars => StaleHasCause'
<1> SUFFICES ASSUME TypeOK, Assigned, Bounded, StaleHasCause, [Next]_vars,
                    NEW i \in Ids, cache'[i] # 0, cache'[i] < ver'[i], ~taint'[i],
                    NEW v \in cache'[i] + 1 .. ver'[i]
             PROVE  \E q \in Requests : pc'[q] = "del" /\ task'[q] = i /\ got'[q] = v
  BY DEF StaleHasCause, Pending
<1> USE DEF Goto, Answer
<1>1. cache[i] \in Nat /\ ver[i] \in Nat
  BY DEF TypeOK
<1>2. ASSUME cache[i] = cache'[i], ~taint[i], v \in 1 .. ver[i]
      PROVE  \E q \in Requests : pc[q] = "del" /\ task[q] = i /\ got[q] = v
  BY <1>1, <1>2 DEF StaleHasCause, Pending
<1>3. ASSUME ver'[i] = ver[i], cache'[i] = cache[i], ~taint[i],
             \A q \in Requests : pc[q] = "del" /\ task[q] = i
                => pc'[q] = "del" /\ task'[q] = i /\ got'[q] = got[q]
      PROVE  \E q \in Requests : pc'[q] = "del" /\ task'[q] = i /\ got'[q] = v
  <2>1. v \in 1 .. ver[i]
    BY <1>1, <1>3
  <2>2. PICK q \in Requests : pc[q] = "del" /\ task[q] = i /\ got[q] = v
    BY <1>2, <1>3, <2>1
  <2> QED BY <1>3, <2>2
<1>4. ASSUME NEW r \in Requests, NEW o \in Ops, NEW j \in Ids, Arrive(r, o, j)
      PROVE  \E q \in Requests : pc'[q] = "del" /\ task'[q] = i /\ got'[q] = v
  <2>1. /\ ver'[i] = ver[i] /\ cache'[i] = cache[i] /\ ~taint[i] /\ got' = got
        /\ pc[r] = "idle" /\ \A q \in Requests : q # r => pc'[q] = pc[q] /\ task'[q] = task[q]
    BY <1>4 DEF TypeOK, Arrive, db, redis
  <2> QED BY <1>3, <2>1
<1>5. ASSUME NEW r \in Requests,
             \/ CacheHit(r) \/ CacheMiss(r) \/ Select(r) \/ SelectFails(r) \/ CacheSetFails(r)
      PROVE  \E q \in Requests : pc'[q] = "del" /\ task'[q] = i /\ got'[q] = v
  <2>1. /\ ver'[i] = ver[i] /\ cache'[i] = cache[i] /\ ~taint[i] /\ task' = task
    BY <1>5 DEF CacheHit, CacheMiss, Select, SelectFails, CacheSetFails, db, redis, history
  <2>2. /\ pc[r] # "del"
        /\ \A q \in Requests : q # r => pc'[q] = pc[q] /\ got'[q] = got[q]
    BY <1>5 DEF TypeOK, CacheHit, CacheMiss, Select, SelectFails, CacheSetFails
  <2> QED BY <1>3, <2>1, <2>2
<1>6. ASSUME NEW r \in Requests, CacheSet(r)
      PROVE  \E q \in Requests : pc'[q] = "del" /\ task'[q] = i /\ got'[q] = v
  <2>1. task[r] \in Ids /\ got[r] \in Nat /\ ver' = ver
    BY <1>6 DEF CacheSet, Assigned, db
  <2>2. i # task[r]
    BY <1>1, <1>6, <2>1 DEF TypeOK, CacheSet, RedisSet
  <2>3. cache'[i] = cache[i] /\ ~taint[i]
    BY <1>6, <2>2 DEF TypeOK, CacheSet, RedisSet
  <2>4. /\ pc[r] # "del" /\ task' = task /\ got' = got
        /\ \A q \in Requests : q # r => pc'[q] = pc[q]
    BY <1>6 DEF TypeOK, CacheSet
  <2> QED BY <1>3, <2>1, <2>3, <2>4
<1>7. ASSUME NEW r \in Requests, Exec(r)
      PROVE  \E q \in Requests : pc'[q] = "del" /\ task'[q] = i /\ got'[q] = v
  <2>1. /\ task[r] \in Ids /\ SqlWrite(r, task[r]) /\ pc'[r] = "del"
        /\ cache'[i] = cache[i] /\ ~taint[i] /\ task' = task
        /\ \A q \in Requests : q # r => pc'[q] = pc[q] /\ got'[q] = got[q]
    BY <1>7 DEF TypeOK, Exec, Assigned, redis, history
  <2>2. pc[r] # "del" /\ got'[r] = IF live[task[r]] THEN ver[task[r]] + 1 ELSE 0
    BY <1>7 DEF TypeOK, Exec
  <2>3. CASE v <= ver[i]
    <3>1. PICK q \in Requests : pc[q] = "del" /\ task[q] = i /\ got[q] = v
      BY <1>1, <1>2, <2>1, <2>3
    <3> QED BY <2>1, <2>2, <3>1
  <2>4. CASE v > ver[i]
    <3>1. live[task[r]] /\ task[r] = i /\ v = ver[i] + 1
      BY <1>1, <2>1, <2>4, SqlWriteEffect
    <3> QED BY <2>1, <2>2, <3>1
  <2> QED BY <1>1, <2>3, <2>4
<1>8. ASSUME NEW r \in Requests, ExecFails(r)
      PROVE  \E q \in Requests : pc'[q] = "del" /\ task'[q] = i /\ got'[q] = v
  <2>1. task[r] \in Ids /\ cache'[i] = cache[i] /\ task' = task /\ got' = got
    BY <1>8 DEF ExecFails, Assigned, redis
  <2>2. pc[r] # "del" /\ \A q \in Requests : q # r => pc'[q] = pc[q]
    BY <1>8 DEF TypeOK, ExecFails
  <2>3. ver'[i] = ver[i] /\ ~taint[i]
    <3>1. CASE SqlWrite(r, task[r]) /\ DelLost(task[r])
      <4>1. i # task[r]
        BY <2>1, <3>1 DEF TypeOK, DelLost
      <4> QED BY <2>1, <3>1, <4>1, SqlWriteEffect DEF TypeOK, DelLost
    <3>2. CASE UNCHANGED <<db, taint>>
      BY <3>2 DEF db
    <3> QED BY <1>8, <3>1, <3>2 DEF ExecFails
  <2> QED BY <1>3, <2>1, <2>2, <2>3
<1>9. ASSUME NEW r \in Requests, CacheDel(r) \/ CacheDelFails(r)
      PROVE  \E q \in Requests : pc'[q] = "del" /\ task'[q] = i /\ got'[q] = v
  <2>1. task[r] \in Ids
    BY <1>9 DEF CacheDel, CacheDelFails, Assigned
  <2>2. i # task[r]
    <3>1. ASSUME CacheDel(r) PROVE i # task[r]
      BY <2>1, <3>1 DEF TypeOK, CacheDel, RedisDel
    <3>2. ASSUME CacheDelFails(r), i = task[r] PROVE FALSE
      <4>1. cache' = cache /\ taint'[i] = (cache[i] # 0)
        BY <2>1, <3>2 DEF TypeOK, CacheDelFails, DelLost, redis
      <4> QED BY <4>1
    <3> QED BY <1>9, <3>1, <3>2
  <2>3. cache'[i] = cache[i] /\ ~taint[i]
    BY <1>9, <2>1, <2>2 DEF TypeOK, CacheDel, CacheDelFails, RedisDel, DelLost, redis
  <2>4. /\ ver'[i] = ver[i] /\ task' = task /\ got' = got
        /\ \A q \in Requests : q # r => pc'[q] = pc[q]
    BY <1>9 DEF TypeOK, CacheDel, CacheDelFails, Acknowledge, db
  <2> QED BY <1>3, <2>2, <2>3, <2>4
<1>10. ASSUME NEW r \in Requests, Insert(r)
       PROVE  \E q \in Requests : pc'[q] = "del" /\ task'[q] = i /\ got'[q] = v
  <2>1. PICK j \in Ids : /\ ver[j] = 0 /\ Commit(j, TRUE)
                         /\ task' = [task EXCEPT ![r] = j]
    BY <1>10 DEF Insert
  <2>2. cache'[i] = cache[i] /\ ~taint[i]
    BY <1>10 DEF Insert, redis
  <2>3. i # j
    BY <1>1, <2>1, <2>2 DEF Bounded
  <2>4. ver'[i] = ver[i]
    BY <2>1, <2>3 DEF TypeOK, Commit
  <2>5. /\ pc[r] # "del"
        /\ \A q \in Requests : q # r => pc'[q] = pc[q] /\ got'[q] = got[q] /\ task'[q] = task[q]
    BY <1>10, <2>1 DEF TypeOK, Insert
  <2> QED BY <1>3, <2>2, <2>4, <2>5
<1>11. ASSUME NEW r \in Requests, InsertFails(r)
       PROVE  \E q \in Requests : pc'[q] = "del" /\ task'[q] = i /\ got'[q] = v
  <2>1. cache'[i] = cache[i] /\ ~taint[i] /\ task' = task /\ got' = got
    BY <1>11 DEF InsertFails, redis, history
  <2>2. cache[i] <= ver[i]
    BY DEF Bounded
  <2>3. ver'[i] = ver[i]
    BY <1>1, <1>11, <2>1, <2>2 DEF TypeOK, InsertFails, Commit, db
  <2>4. pc[r] # "del" /\ \A q \in Requests : q # r => pc'[q] = pc[q]
    BY <1>11 DEF TypeOK, InsertFails
  <2> QED BY <1>3, <2>1, <2>3, <2>4
<1>12. ASSUME NEW j \in Ids, Evict(j)
       PROVE  \E q \in Requests : pc'[q] = "del" /\ task'[q] = i /\ got'[q] = v
  <2>1. i # j /\ cache'[i] = cache[i] /\ ~taint[i]
    BY <1>12 DEF TypeOK, Evict, RedisDel
  <2>2. UNCHANGED <<pc, task, got, ver>>
    BY <1>12 DEF Evict, request, db
  <2> QED BY <1>3, <2>1, <2>2
<1>13. ASSUME Crash PROVE FALSE
  <2>1. UNCHANGED <<cache, ver>> /\ ~taint[i]
    BY <1>13 DEF Crash, db, redis
  <2>2. \A q \in Requests : ~(pc[q] = "del" /\ task[q] = i)
    BY <1>13, <2>1 DEF Crash
  <2> QED BY <1>1, <1>2, <2>1, <2>2
<1>14. CASE UNCHANGED vars
  <2>1. UNCHANGED <<pc, task, got, ver, cache, taint>>
    BY <1>14 DEF vars, request, db, redis, history
  <2> QED BY <1>3, <2>1
<1>15. ASSUME NEW r \in Requests, CacheSetRepeated(r) \/ CacheDelRepeated(r)
       PROVE  \E q \in Requests : pc'[q] = "del" /\ task'[q] = i /\ got'[q] = v
  <2>1. UNCHANGED <<pc, task, got, ver>>
    BY <1>15, RepetitionEffect DEF db
  <2>2. cache'[i] = cache[i] /\ taint'[i] = taint[i]
    BY <1>15, <2>1, RepetitionEffect
  <2> QED BY <1>3, <2>1, <2>2
<1> QED
  BY <1>4, <1>5, <1>6, <1>7, <1>8, <1>9, <1>10, <1>11, <1>12, <1>13, <1>14, <1>15
     DEF Next, Handle, Idle
LEMMA NextFresh ==
  TypeOK /\ Assigned /\ Bounded /\ Covered /\ FreshUnlessTainted /\ [Next]_vars
    => FreshUnlessTainted'
<1> SUFFICES ASSUME TypeOK, Assigned, Bounded, Covered, FreshUnlessTainted, [Next]_vars,
                    NEW q \in Requests, op'[q] \in Reads, got'[q] > 0, got'[q] < floor'[q]
             PROVE  tainted'[q]
  BY DEF FreshUnlessTainted
<1>1. CASE UNCHANGED <<op[q], got[q], floor[q], tainted[q]>>
  BY <1>1 DEF FreshUnlessTainted
<1>2. ASSUME NEW r \in Requests, q # r, Handle(r) PROVE tainted'[q]
  <2>1. UNCHANGED <<op[q], got[q], floor[q], tainted[q]>>
    <3>1. CASE CacheHit(r)
      BY <1>2, <3>1 DEF TypeOK, CacheHit
    <3>2. CASE Select(r) \/ Exec(r) \/ Insert(r)
      <4>1. UNCHANGED <<op, floor, tainted>>
        BY <3>2 DEF Select, Exec, Insert, history
      <4>2. got' = [got EXCEPT ![r] = got'[r]]
        BY <3>2 DEF TypeOK, Select, Exec, Insert
      <4> QED BY <1>2, <4>1, <4>2 DEF TypeOK
    <3>3. CASE SelectFails(r)
      BY <1>2, <3>3 DEF TypeOK, SelectFails
    <3>5. CASE CacheSetRepeated(r) \/ CacheDelRepeated(r)
      BY <3>5, RepetitionEffect
    <3>4. CASE \/ CacheMiss(r) \/ CacheSet(r) \/ CacheSetFails(r)
               \/ ExecFails(r) \/ CacheDel(r) \/ CacheDelFails(r) \/ InsertFails(r)
      <4>1. UNCHANGED <<op, got, floor, tainted>>
        BY <3>4 DEF CacheMiss, CacheSet, CacheSetFails, ExecFails, CacheDel,
                    CacheDelFails, Acknowledge, InsertFails, history
      <4> QED BY <4>1
    <3> QED BY <1>2, <3>1, <3>2, <3>3, <3>4, <3>5 DEF Handle
  <2> QED BY <1>1, <2>1
<1>3. ASSUME NEW r \in Requests, NEW o \in Ops, NEW j \in Ids, Arrive(r, o, j)
      PROVE  tainted'[q]
  <2>1. CASE q = r
    <3>1. got'[q] = -1
      BY <1>3, <2>1 DEF Arrive, Assigned, Unknown
    <3> QED BY <3>1
  <2>2. CASE q # r
    BY <1>1, <1>3, <2>2 DEF TypeOK, Arrive
  <2> QED BY <2>1, <2>2
<1>4. ASSUME CacheHit(q) PROVE tainted'[q]
  <2>1. /\ task[q] \in Ids /\ cache[task[q]] # 0 /\ floor'[q] = floor[q] /\ op[q] \in Reads
        /\ got'[q] = cache[task[q]]
    BY <1>4 DEF TypeOK, CacheHit, Assigned
  <2>2. floor[q] <= acked[task[q]]
    BY <2>1 DEF Bounded
  <2>3. /\ floor[q] \in Nat /\ acked[task[q]] \in Nat /\ cache[task[q]] \in Nat
    BY <2>1 DEF TypeOK
  <2>4. taint[task[q]]
    BY <2>1, <2>2, <2>3 DEF Covered
  <2> QED BY <1>4, <2>4 DEF TypeOK, CacheHit
<1>5. ASSUME Select(q) PROVE FALSE
  <2>1. /\ task[q] \in Ids /\ floor'[q] = floor[q] /\ op[q] \in Reads
        /\ got'[q] = Row(task[q])
    BY <1>5 DEF TypeOK, Select, Assigned, history
  <2>2. floor[q] <= acked[task[q]] /\ acked[task[q]] <= ver[task[q]]
    BY <2>1 DEF Bounded
  <2>3. /\ floor[q] \in Nat /\ acked[task[q]] \in Nat /\ ver[task[q]] \in Nat
    BY <2>1 DEF TypeOK
  <2> QED BY <2>1, <2>2, <2>3 DEF Row
<1>6. ASSUME Exec(q) \/ Insert(q) PROVE FALSE
  BY <1>6 DEF Exec, Insert, Reads, Writes
<1>7. CASE \/ CacheMiss(q) \/ CacheSet(q) \/ CacheSetFails(q)
           \/ ExecFails(q) \/ CacheDel(q) \/ CacheDelFails(q) \/ InsertFails(q)
  <2>1. UNCHANGED <<op, got, floor, tainted>>
    BY <1>7 DEF CacheMiss, CacheSet, CacheSetFails, ExecFails, CacheDel,
                CacheDelFails, Acknowledge, InsertFails, history
  <2> QED BY <1>1, <2>1
<1>11. CASE CacheSetRepeated(q) \/ CacheDelRepeated(q)
  BY <1>1, <1>11, RepetitionEffect
<1>8. CASE (\E j \in Ids : Evict(j)) \/ Crash \/ UNCHANGED vars
  <2>1. UNCHANGED <<op, got, floor, tainted>>
    BY <1>8 DEF Evict, Crash, vars, request, history
  <2> QED BY <1>1, <2>1
<1>9. ASSUME SelectFails(q) PROVE tainted'[q]
  <2>1. got'[q] = got[q] \/ got'[q] = 0
    BY <1>9 DEF TypeOK, SelectFails
  <2>2. UNCHANGED <<op, floor, tainted>>
    BY <1>9 DEF SelectFails
  <2> QED BY <1>1, <2>1, <2>2
<1>10. ASSUME Handle(q) PROVE tainted'[q]
  BY <1>4, <1>5, <1>6, <1>7, <1>9, <1>10, <1>11 DEF Handle
<1> QED
  BY <1>2, <1>3, <1>8, <1>10 DEF Next, Idle

\* An out-of-date copy in Redis is always one about to be deleted, or one left by
\* one of the two mishaps.
THEOREM StaleExplained == Spec => []StaleHasCause
<1>1. Init => Bounded /\ StaleHasCause
  BY DEF Init, Bounded, StaleHasCause, Reads
<1> QED BY <1>1, NextBounded, NextStaleHasCause, TypeCorrect, PTL DEF Spec

\* Only such a copy can hide an acknowledged write from a later read.
THEOREM FreshOrTainted == Spec => []FreshUnlessTainted
<1>1. Init => Bounded /\ Covered /\ FreshUnlessTainted
  BY DEF Init, Bounded, Covered, FreshUnlessTainted, Reads
<1> QED BY <1>1, NextBounded, NextCovered, NextFresh, TypeCorrect, PTL DEF Spec
-----------------------------------------------------------------------------------
(* What is answered without an excuse is the row.                                 *)

\* A version that is stored, or about to be, is that of a row, not of its deletion; and
\* who has not reached the table has no answer, nor an excuse.
Copies ==
  /\ \A i \in Ids : cache[i] # 0 /\ cache[i] = ver[i] => live[i]
  /\ \A r \in Requests : pc[r] = "set" /\ got[r] = ver[task[r]] => live[task[r]]
  /\ \A r \in Requests : pc[r] \in {"idle", "cache", "select", "exec"} =>
       got[r] = Unknown /\ ~tainted[r] /\ ~excused[r]

LEMMA NextCopies ==
  TypeOK /\ Assigned /\ Bounded /\ Copies /\ [Next]_vars => Copies'
<1> SUFFICES ASSUME TypeOK, Assigned, Bounded, Copies, [Next]_vars PROVE Copies'
  OBVIOUS
<1> USE DEF Goto, Answer
\* A changed row has a version that nobody has seen.
<1>1. ASSUME NEW r \in Requests, NEW i \in Ids,
             \/ ver'[i] = ver[i] /\ live'[i] = live[i]
             \/ ver'[i] = ver[i] + 1,
             \A j \in Ids \ {i} : ver'[j] = ver[j] /\ live'[j] = live[j],
             cache' = cache, pc' = [pc EXCEPT ![r] = pc'[r]],
             pc'[r] \in {"del", "done"}, UNCHANGED <<tainted, excused>>,
             \A q \in Requests : q # r => got'[q] = got[q] /\ task'[q] = task[q]
      PROVE  Copies'
  <2>1. \A j \in Ids : cache[j] \in Nat /\ ver[j] \in Nat /\ cache[j] <= ver[j]
    BY DEF TypeOK, Bounded
  <2>2. \A q \in Requests : pc[q] = "set" =>
          task[q] \in Ids /\ got[q] \in Nat /\ got[q] <= ver[task[q]]
    BY DEF Assigned, Bounded
  <2>3. \A j \in Ids : cache'[j] # 0 /\ cache'[j] = ver'[j] => live'[j]
    BY <1>1, <2>1 DEF Copies
  <2>4. \A q \in Requests : pc'[q] = "set" /\ got'[q] = ver'[task'[q]] => live'[task'[q]]
    BY <1>1, <2>1, <2>2 DEF TypeOK, Copies
  <2>5. \A q \in Requests : pc'[q] \in {"idle", "cache", "select", "exec"} =>
          got'[q] = Unknown /\ ~tainted'[q] /\ ~excused'[q]
    BY <1>1 DEF TypeOK, Copies
  <2> QED BY <2>3, <2>4, <2>5 DEF Copies
<1>2. ASSUME NEW r \in Requests, NEW o \in Ops, NEW i \in Ids, Arrive(r, o, i)
      PROVE  Copies'
  <2>1. /\ UNCHANGED <<got, ver, live, cache, tainted, excused>> /\ pc[r] = "idle"
        /\ pc' = [pc EXCEPT ![r] = FirstCommand(o)]
        /\ \A q \in Requests : q # r => task'[q] = task[q]
    BY <1>2 DEF TypeOK, Arrive, db, redis
  <2>2. FirstCommand(o) \in {"cache", "select", "exec"}
    BY DEF Ops, Reads, Writes, FirstCommand
  <2> QED BY <2>1, <2>2 DEF TypeOK, Copies
<1>3. ASSUME NEW r \in Requests, CacheHit(r) \/ SelectFails(r) PROVE Copies'
  <2>1. /\ UNCHANGED <<task, db, redis>> /\ pc' = [pc EXCEPT ![r] = "done"]
        /\ \A q \in Requests : q # r =>
             got'[q] = got[q] /\ tainted'[q] = tainted[q] /\ excused'[q] = excused[q]
    BY <1>3 DEF TypeOK, CacheHit, SelectFails
  <2> QED BY <2>1 DEF TypeOK, Copies, db, redis
<1>4. ASSUME NEW r \in Requests, CacheMiss(r) \/ CacheSetFails(r) PROVE Copies'
  <2>1. /\ UNCHANGED <<task, got, db, redis, tainted, excused>>
        /\ \/ pc[r] = "cache" /\ pc' = [pc EXCEPT ![r] = "select"]
           \/ pc' = [pc EXCEPT ![r] = "done"]
    BY <1>4 DEF CacheMiss, CacheSetFails, history
  <2> QED BY <2>1 DEF TypeOK, Copies, db, redis
<1>5. ASSUME NEW r \in Requests, Select(r) PROVE Copies'
  <2>1. task[r] \in Ids /\ UNCHANGED <<task, db, redis, tainted, excused>>
    BY <1>5 DEF Select, Assigned, history
  <2>2. /\ pc' = [pc EXCEPT ![r] = pc'[r]]
        /\ pc'[r] = "done" \/ (pc'[r] = "set" /\ live[task[r]])
        /\ \A q \in Requests : q # r => got'[q] = got[q]
    BY <1>5 DEF TypeOK, Select
  <2> QED BY <2>1, <2>2 DEF TypeOK, Copies, db, redis
<1>6. ASSUME NEW r \in Requests, CacheSet(r) PROVE Copies'
  <2>1. /\ task[r] \in Ids /\ UNCHANGED <<task, got, ver, live, tainted, excused>>
        /\ pc[r] = "set" /\ pc' = [pc EXCEPT ![r] = "done"]
        /\ cache' = [cache EXCEPT ![task[r]] = got[r]]
    BY <1>6 DEF CacheSet, RedisSet, Assigned, db
  <2> QED BY <2>1 DEF TypeOK, Copies
<1>7. ASSUME NEW r \in Requests, Exec(r) PROVE Copies'
  <2>1. /\ task[r] \in Ids /\ SqlWrite(r, task[r]) /\ pc' = [pc EXCEPT ![r] = "del"]
        /\ UNCHANGED <<task, cache, tainted, excused>>
        /\ \A q \in Requests : q # r => got'[q] = got[q]
    BY <1>7 DEF TypeOK, Exec, Assigned, redis, history
  <2>2. pc'[r] = "del" /\ pc' = [pc EXCEPT ![r] = pc'[r]]
    BY <2>1 DEF TypeOK
  <2>3. /\ \/ ver'[task[r]] = ver[task[r]] /\ live'[task[r]] = live[task[r]]
           \/ ver'[task[r]] = ver[task[r]] + 1
        /\ \A j \in Ids \ {task[r]} : ver'[j] = ver[j] /\ live'[j] = live[j]
    BY <2>1, SqlWriteEffect
  <2> QED BY <1>1, <2>1, <2>2, <2>3
<1>8. ASSUME NEW r \in Requests, ExecFails(r) PROVE Copies'
  <2>1. /\ task[r] \in Ids /\ pc' = [pc EXCEPT ![r] = "done"]
        /\ UNCHANGED <<task, got, cache, tainted, excused>>
    BY <1>8 DEF ExecFails, Assigned, redis
  <2>2. /\ \/ ver'[task[r]] = ver[task[r]] /\ live'[task[r]] = live[task[r]]
           \/ ver'[task[r]] = ver[task[r]] + 1
        /\ \A j \in Ids \ {task[r]} : ver'[j] = ver[j] /\ live'[j] = live[j]
    BY <1>8, <2>1, SqlWriteEffect DEF ExecFails, db
  <2>3. pc'[r] = "done" /\ pc' = [pc EXCEPT ![r] = pc'[r]]
    BY <2>1 DEF TypeOK
  <2> QED BY <1>1, <2>1, <2>2, <2>3
<1>9. ASSUME NEW r \in Requests, Insert(r) \/ InsertFails(r) PROVE Copies'
  <2>1. /\ pc' = [pc EXCEPT ![r] = "done"] /\ UNCHANGED <<cache, tainted, excused>>
        /\ \A q \in Requests : q # r => got'[q] = got[q] /\ task'[q] = task[q]
    <3>1. CASE Insert(r)
      <4>1. PICK i \in Ids : task' = [task EXCEPT ![r] = i]
        BY <3>1 DEF Insert
      <4> QED BY <3>1, <4>1 DEF TypeOK, Insert, redis
    <3>2. CASE InsertFails(r)
      BY <3>2 DEF InsertFails, redis, history
    <3> QED BY <1>9, <3>1, <3>2
  <2>2. pc'[r] = "done" /\ pc' = [pc EXCEPT ![r] = pc'[r]]
    BY <2>1 DEF TypeOK
  <2>3. CASE \E i \in Ids : ver[i] = 0 /\ Commit(i, TRUE)
    <3>1. PICK i \in Ids : Commit(i, TRUE)
      BY <2>3
    <3>2. /\ ver'[i] = ver[i] + 1
          /\ \A j \in Ids \ {i} : ver'[j] = ver[j] /\ live'[j] = live[j]
      BY <3>1 DEF TypeOK, Commit
    <3> QED BY <1>1, <2>1, <2>2, <3>2
  <2>4. CASE UNCHANGED db /\ UNCHANGED task /\ UNCHANGED got
    BY <2>1, <2>4 DEF TypeOK, Copies, db
  <2> QED BY <1>9, <2>3, <2>4 DEF Insert, InsertFails
<1>10. ASSUME NEW r \in Requests, CacheDel(r) \/ CacheDelFails(r) PROVE Copies'
  <2>1. /\ pc' = [pc EXCEPT ![r] = "done"]
        /\ UNCHANGED <<task, got, ver, live, tainted, excused>>
    BY <1>10 DEF CacheDel, CacheDelFails, Acknowledge, db
  <2>2. \A i \in Ids : cache'[i] \in {0, cache[i]}
    BY <1>10 DEF TypeOK, CacheDel, CacheDelFails, RedisDel, redis
  <2> QED BY <2>1, <2>2 DEF TypeOK, Copies
<1>11. ASSUME NEW i \in Ids, Evict(i) PROVE Copies'
  BY <1>11 DEF TypeOK, Copies, Evict, RedisDel, request, db
<1>12. ASSUME Crash PROVE Copies'
  BY <1>12 DEF TypeOK, Copies, Crash, db, redis
<1>13. CASE UNCHANGED vars
  BY <1>13 DEF Copies, vars, request, db, redis, history
<1>14. ASSUME NEW r \in Requests, CacheSetRepeated(r) \/ CacheDelRepeated(r) PROVE Copies'
  <2>1. UNCHANGED <<pc, task, got, ver, live, tainted, excused>>
    BY <1>14, RepetitionEffect DEF db
  <2>2. ASSUME NEW i \in Ids, cache'[i] # 0, cache'[i] = ver[i] PROVE live[i]
    <3>1. \/ cache'[i] = cache[i]
          \/ i = task[r] /\ pc[r] = "set" /\ cache'[i] = got[r]
      BY <1>14, <2>2, RepetitionEffect
    <3> QED BY <2>2, <3>1 DEF Copies
  <2> QED BY <2>1, <2>2 DEF Copies
<1> QED
  BY <1>2, <1>3, <1>4, <1>5, <1>6, <1>7, <1>8, <1>9, <1>10, <1>11, <1>12, <1>13, <1>14
     DEF Next, Handle, Idle

\* What the store of the abstract specification sees of the answers.
Plain == [r \in Requests |-> IF tainted[r] \/ excused[r] THEN Unknown ELSE got[r]]

LEMMA StepTable ==
  ASSUME TypeOK, Assigned, Bounded, StaleHasCause, Copies, [Next]_vars
  PROVE  [Table!SNext]_(Table!svars)
<1> USE DEF Goto, Answer
<1>1. \A i \in Ids : Table!Row(i) = Row(i)
  BY DEF Table!Row, Row
<1>2. \A r \in Requests : pc[r] \in {"cache", "select", "exec"} => Plain[r] = Unknown
  BY DEF Copies, Plain
<1>3. ASSUME NEW r \in Requests, got' = [got EXCEPT ![r] = got'[r]],
             UNCHANGED <<tainted, excused>>, pc[r] \in {"cache", "select", "exec"}
      PROVE  Plain[r] = Table!Unknown /\ Plain' = [Plain EXCEPT ![r] = got'[r]]
  <2>1. ~tainted[r] /\ ~excused[r]
    BY <1>3 DEF Copies
  <2>2. ASSUME NEW q \in Requests
        PROVE  Plain'[q] = IF q = r THEN got'[r] ELSE Plain[q]
    BY <1>3, <2>1 DEF TypeOK, Plain
  <2>3. Plain' = [Plain EXCEPT ![r] = got'[r]]
    BY <2>2 DEF Plain
  <2>4. Plain[r] = Table!Unknown
    BY <1>2, <1>3 DEF Table!Unknown, Unknown
  <2> QED BY <2>3, <2>4
<1>4. ASSUME NEW r \in Requests, CacheHit(r)
      PROVE  Table!Read(r, task[r]) \/ UNCHANGED Table!svars
  <2>1. /\ task[r] \in Ids /\ cache[task[r]] # 0 /\ pc[r] = "cache" /\ UNCHANGED <<ver, live>>
        /\ got' = [got EXCEPT ![r] = cache[task[r]]]
        /\ \A q \in Requests : q # r => tainted'[q] = tainted[q] /\ excused'[q] = excused[q]
        /\ tainted'[r] = taint[task[r]]
        /\ excused'[r] = \E w \in Pending(task[r]) : got[w] > cache[task[r]]
    BY <1>4 DEF TypeOK, CacheHit, Assigned, db
  <2>2. CASE tainted'[r] \/ excused'[r]
    <3>1. Plain' = Plain
      <4>1. ASSUME NEW q \in Requests PROVE Plain'[q] = Plain[q]
        BY <1>2, <2>1, <2>2 DEF TypeOK, Plain
      <4> QED BY <4>1 DEF Plain
    <3> QED BY <2>1, <3>1 DEF Plain, Table!svars
  <2>3. CASE ~tainted'[r] /\ ~excused'[r]
    <3>1. cache[task[r]] \in Nat /\ ver[task[r]] \in Nat /\ cache[task[r]] <= ver[task[r]]
      BY <2>1 DEF TypeOK, Bounded
    <3>2. ASSUME cache[task[r]] < ver[task[r]] PROVE FALSE
      <4>1. ver[task[r]] \in cache[task[r]] + 1 .. ver[task[r]]
        BY <3>1, <3>2
      <4>2. PICK w \in Pending(task[r]) : got[w] = ver[task[r]]
        BY <2>1, <2>3, <3>2, <4>1 DEF StaleHasCause
      <4> QED BY <2>1, <2>3, <3>1, <3>2, <4>2
    <3>3. cache[task[r]] = Row(task[r])
      BY <2>1, <3>1, <3>2 DEF Copies, Row
    <3>4. Plain' = [Plain EXCEPT ![r] = Row(task[r])]
      BY <2>1, <2>3, <3>3 DEF TypeOK, Plain
    <3>5. Plain[r] = Table!Unknown
      BY <1>2, <2>1 DEF Table!Unknown, Unknown
    <3> QED BY <1>1, <2>1, <3>4, <3>5 DEF Plain, Table!Read, Table!Answer
  <2> QED BY <2>2, <2>3
<1>5. ASSUME NEW r \in Requests, Select(r) PROVE Table!Read(r, task[r])
  <2>1. /\ task[r] \in Ids /\ pc[r] = "select" /\ UNCHANGED <<ver, live, tainted, excused>>
        /\ got' = [got EXCEPT ![r] = Row(task[r])]
    BY <1>5 DEF Select, Assigned, db, history
  <2>2. got' = [got EXCEPT ![r] = got'[r]] /\ got'[r] = Row(task[r])
    BY <2>1 DEF TypeOK
  <2>3. Plain[r] = Table!Unknown /\ Plain' = [Plain EXCEPT ![r] = Row(task[r])]
    BY <1>3, <2>1, <2>2
  <2> QED BY <1>1, <2>1, <2>3 DEF Plain, Table!Answer, Table!Read
<1>6. ASSUME NEW r \in Requests, live[task[r]], op[r] \in Writes, SqlWrite(r, task[r])
      PROVE  Table!Write(task[r])
  <2>1. CASE op[r] = "put"
    BY <1>6, <2>1 DEF SqlWrite, Commit, Table!Write, Table!Update, Table!Change
  <2>2. CASE op[r] = "delete"
    BY <1>6, <2>2 DEF SqlWrite, Commit, Table!Write, Table!Delete, Table!Change
  <2> QED BY <1>6, <2>1, <2>2 DEF Writes
<1>7. ASSUME NEW r \in Requests, Exec(r)
      PROVE  Table!Written(r, task[r]) \/ Table!NoSuchTask(r, task[r])
  <2>1. /\ task[r] \in Ids /\ pc[r] = "exec" /\ op[r] \in Writes /\ SqlWrite(r, task[r])
        /\ got' = [got EXCEPT ![r] = IF live[task[r]] THEN ver[task[r]] + 1 ELSE 0]
        /\ UNCHANGED <<tainted, excused>>
    BY <1>7 DEF Exec, Assigned, history
  <2>2. got' = [got EXCEPT ![r] = got'[r]]
        /\ got'[r] = IF live[task[r]] THEN ver[task[r]] + 1 ELSE 0
    BY <2>1 DEF TypeOK
  <2>3. Plain[r] = Table!Unknown /\ Plain' = [Plain EXCEPT ![r] = got'[r]]
    BY <1>3, <2>1, <2>2
  <2>4. CASE ~live[task[r]]
    <3>1. got'[r] = 0 /\ UNCHANGED <<ver, live>>
      BY <2>1, <2>2, <2>4 DEF SqlWrite, db
    <3>2. Plain' = [Plain EXCEPT ![r] = 0]
      BY <2>3, <3>1
    <3> QED BY <2>3, <2>4, <3>1, <3>2 DEF Plain, Table!Answer, Table!NoSuchTask
  <2>5. CASE live[task[r]]
    <3>1. got'[r] = ver[task[r]] + 1
      BY <2>2, <2>5
    <3>2. Plain' = [Plain EXCEPT ![r] = ver[task[r]] + 1]
      BY <2>3, <3>1
    <3>3. Table!Write(task[r])
      BY <1>6, <2>1, <2>5
    <3> QED BY <2>3, <3>2, <3>3 DEF Plain, Table!Answer, Table!Written
  <2> QED BY <2>4, <2>5
<1>8. ASSUME NEW i \in Ids, ver[i] = 0, Commit(i, TRUE) PROVE Table!Write(i)
  BY <1>8 DEF Commit, Table!Write, Table!Create, Table!Change
<1>9. ASSUME NEW r \in Requests, Insert(r) PROVE \E i \in Ids : Table!Written(r, i)
  <2>1. PICK i \in Ids : ver[i] = 0 /\ Commit(i, TRUE)
    BY <1>9 DEF Insert
  <2>2. /\ pc[r] = "exec" /\ UNCHANGED <<tainted, excused>>
        /\ got' = [got EXCEPT ![r] = got'[r]] /\ got'[r] = ver[i] + 1
    BY <1>9, <2>1 DEF TypeOK, Insert
  <2>3. Plain[r] = Table!Unknown /\ Plain' = [Plain EXCEPT ![r] = ver[i] + 1]
    BY <1>3, <2>2
  <2>4. Table!Write(i)
    BY <1>8, <2>1
  <2> QED BY <2>3, <2>4 DEF Plain, Table!Answer, Table!Written
<1>10. ASSUME NEW r \in Requests, ExecFails(r) \/ InsertFails(r)
       PROVE  (\E i \in Ids : Table!Unanswered(i)) \/ UNCHANGED Table!svars
  <2>1. Plain' = Plain
    BY <1>10 DEF ExecFails, InsertFails, history, Plain
  <2>2. CASE UNCHANGED db
    BY <2>1, <2>2 DEF db, Plain, Table!svars
  <2>3. CASE \E i \in Ids : ver[i] = 0 /\ Commit(i, TRUE)
    BY <1>8, <2>1, <2>3 DEF Plain, Table!Unanswered
  <2>4. CASE ExecFails(r) /\ SqlWrite(r, task[r])
    <3>1. task[r] \in Ids /\ op[r] \in Writes
      BY <2>4 DEF ExecFails, Assigned
    <3>2. CASE live[task[r]]
      BY <1>6, <2>1, <2>4, <3>1, <3>2 DEF Plain, Table!Unanswered
    <3>3. CASE ~live[task[r]]
      BY <2>2, <2>4, <3>3 DEF SqlWrite
    <3> QED BY <3>2, <3>3
  <2> QED BY <1>10, <2>2, <2>3, <2>4 DEF ExecFails, InsertFails
<1>11. ASSUME NEW r \in Requests, SelectFails(r) PROVE UNCHANGED Table!svars
  <2>1. pc[r] = "select" /\ UNCHANGED <<ver, live, tainted>>
    BY <1>11 DEF SelectFails, db
  <2>2. \/ UNCHANGED <<got, excused>>
        \/ got' = [got EXCEPT ![r] = 0] /\ excused' = [excused EXCEPT ![r] = TRUE]
    BY <1>11 DEF SelectFails
  <2>3. Plain' = Plain
    BY <1>2, <2>1, <2>2 DEF TypeOK, Plain
  <2> QED BY <2>1, <2>3 DEF Plain, Table!svars
<1>12. ASSUME NEW r \in Requests,
              \/ CacheMiss(r) \/ CacheSet(r) \/ CacheSetFails(r)
              \/ CacheDel(r) \/ CacheDelFails(r)
       PROVE  UNCHANGED Table!svars
  BY <1>12 DEF CacheMiss, CacheSet, CacheSetFails, CacheDel, CacheDelFails, Acknowledge,
               db, history, Table!svars
<1>13. ASSUME NEW r \in Requests, NEW o \in Ops, NEW i \in Ids, Arrive(r, o, i)
       PROVE  UNCHANGED Table!svars
  BY <1>13 DEF Arrive, db, Table!svars
<1>14. CASE (\E i \in Ids : Evict(i)) \/ Crash \/ UNCHANGED vars
  BY <1>14 DEF Evict, Crash, vars, request, db, history, Table!svars
<1>16. ASSUME NEW r \in Requests, CacheSetRepeated(r) \/ CacheDelRepeated(r)
       PROVE  UNCHANGED Table!svars
  BY <1>16, RepetitionEffect DEF db, Table!svars
<1>15. ASSUME NEW r \in Requests, CacheHit(r) \/ Select(r) \/ Exec(r)
       PROVE  task[r] \in Ids
  BY <1>15 DEF CacheHit, Select, Exec, Assigned
<1> QED
  BY <1>4, <1>5, <1>7, <1>9, <1>10, <1>11, <1>12, <1>13, <1>14, <1>15, <1>16
     DEF Next, Handle, Idle, Table!SNext

LEMMA CopiesInvariant == Spec => [](Bounded /\ StaleHasCause /\ Copies)
<1>1. Init => Bounded /\ StaleHasCause /\ Copies
  BY DEF Init, Bounded, StaleHasCause, Copies, Reads
<1> QED
  BY <1>1, NextBounded, NextStaleHasCause, NextCopies, TypeCorrect, PTL DEF Spec

\* Under any concurrency and all faults the API with its cache is the table, but for
\* the answers that have an excuse.
THEOREM Implementation == Spec => TransparentUnlessStale
<1>1. Init => Table!SInit
  BY DEF Init, Table!SInit, Table!Unknown, Unknown
<1>2. TypeOK /\ Assigned /\ Bounded /\ StaleHasCause /\ Copies /\ [Next]_vars
        => [Table!SNext]_(Table!svars)
  BY StepTable
<1> QED
  BY <1>1, <1>2, CopiesInvariant, TypeCorrect, PTL
     DEF Spec, TransparentUnlessStale, Table!SSpec

\* Behind its cache, too, a deleted task stays deleted in the table, and no answer
\* without an excuse tells of a version that did not exist.
THEOREM DeletedForGood == Spec => []Table!Truthful /\ Table!Lasting
BY Implementation, Table!Promised, PTL DEF TransparentUnlessStale

\* What a deletion leaves to the cache is used up by the reads that are on their way:
\* every SET of one of them, the first or a repetition, may bring the task back, and
\* none is sent twice.
THEOREM RevivalsRunOut == Spec => RevivedOnlyByLateReads
<1>1. ASSUME TypeOK, Assigned, Bounded, [Next]_vars, UNCHANGED retries,
             NEW i \in Ids, ver[i] > 0, ~live[i]
      PROVE  /\ ~live'[i]
             /\ Reviving(i)' \subseteq Reviving(i)
             /\ cache'[i] \notin {0, cache[i]} => Reviving(i)' # Reviving(i)
  <2> USE <1>1 DEF Goto, Answer, Reviving
  <2>1. \A r \in Requests : SqlWrite(r, i) => ~live'[i]
    BY DEF SqlWrite, db
  <2>2. \A r \in Requests : task[r] \in Ids /\ SqlWrite(r, task[r]) => ~live'[i]
    BY <2>1, SqlWriteEffect
  <2>3. \A j \in Ids : ver[j] = 0 /\ Commit(j, TRUE) => ~live'[i]
    BY DEF TypeOK, Commit
  <2>4. CASE \E r \in Requests, o \in Ops, j \in Ids : Arrive(r, o, j)
    <3>1. PICK r \in Requests, o \in Ops, j \in Ids : Arrive(r, o, j)
      BY <2>4
    <3>2. UNCHANGED <<cache, live>> /\ pc' = [pc EXCEPT ![r] = FirstCommand(o)]
          /\ \A q \in Requests : q # r => task'[q] = task[q]
      BY <3>1 DEF TypeOK, Arrive, db, redis
    <3>3. FirstCommand(o) # "set"
      BY DEF Ops, Reads, Writes, FirstCommand
    <3> QED BY <3>2, <3>3 DEF TypeOK
  <2>5. ASSUME NEW r \in Requests,
               \/ CacheHit(r) \/ CacheMiss(r) \/ SelectFails(r) \/ CacheSetFails(r)
        PROVE  ~live'[i] /\ cache'[i] = cache[i] /\ Reviving(i)' \subseteq Reviving(i)
    BY <2>5 DEF TypeOK, CacheHit, CacheMiss, SelectFails, CacheSetFails, db, redis
  <2>6. ASSUME NEW r \in Requests, Select(r)
        PROVE  ~live'[i] /\ cache'[i] = cache[i] /\ Reviving(i)' \subseteq Reviving(i)
    BY <2>6 DEF TypeOK, Select, db, redis
  <2>7. ASSUME NEW r \in Requests, CacheSet(r)
        PROVE  /\ ~live'[i] /\ Reviving(i)' \subseteq Reviving(i)
               /\ cache'[i] # cache[i] => r \in Reviving(i) /\ r \notin Reviving(i)'
    BY <2>7 DEF TypeOK, CacheSet, RedisSet, db
  <2>8. ASSUME NEW r \in Requests, Exec(r) \/ ExecFails(r)
        PROVE  ~live'[i] /\ cache'[i] = cache[i] /\ Reviving(i)' \subseteq Reviving(i)
    <3>1. task[r] \in Ids /\ UNCHANGED <<task, cache>>
          /\ pc' = [pc EXCEPT ![r] = pc'[r]] /\ pc'[r] \in {"del", "done"}
      BY <2>8 DEF TypeOK, Exec, ExecFails, Assigned, redis
    <3>2. SqlWrite(r, task[r]) \/ UNCHANGED db
      BY <2>8 DEF Exec, ExecFails
    <3>3. ~live'[i]
      BY <2>2, <3>1, <3>2 DEF db
    <3> QED BY <3>1, <3>3 DEF TypeOK
  <2>9. ASSUME NEW r \in Requests, Insert(r) \/ InsertFails(r)
        PROVE  ~live'[i] /\ cache'[i] = cache[i] /\ Reviving(i)' \subseteq Reviving(i)
    <3>1. /\ pc' = [pc EXCEPT ![r] = "done"] /\ UNCHANGED cache
          /\ \A q \in Requests : q # r => task'[q] = task[q]
      <4>1. CASE Insert(r)
        <5>1. PICK j \in Ids : task' = [task EXCEPT ![r] = j]
          BY <4>1 DEF Insert
        <5> QED BY <4>1, <5>1 DEF TypeOK, Insert, redis
      <4>2. CASE InsertFails(r)
        BY <4>2 DEF InsertFails, redis
      <4> QED BY <2>9, <4>1, <4>2
    <3>2. (\E j \in Ids : ver[j] = 0 /\ Commit(j, TRUE)) \/ UNCHANGED db
      BY <2>9 DEF Insert, InsertFails
    <3>3. ~live'[i]
      BY <2>3, <3>2 DEF db
    <3> QED BY <3>1, <3>3 DEF TypeOK
  <2>10. ASSUME NEW r \in Requests, CacheDel(r) \/ CacheDelFails(r)
         PROVE  /\ ~live'[i] /\ cache'[i] \in {0, cache[i]}
                /\ Reviving(i)' \subseteq Reviving(i)
    BY <2>10 DEF TypeOK, CacheDel, CacheDelFails, RedisDel, Acknowledge, db, redis
  <2>15. ASSUME NEW r \in Requests, CacheSetRepeated(r) \/ CacheDelRepeated(r) PROVE FALSE
    BY <2>15 DEF TypeOK, CacheSetRepeated, CacheDelRepeated, Repeat
  <2>11. CASE \E j \in Ids : Evict(j)
    BY <2>11 DEF TypeOK, Evict, RedisDel, request, db
  <2>12. CASE Crash
    BY <2>12 DEF TypeOK, Crash, db, redis
  <2>13. CASE UNCHANGED vars
    BY <2>13 DEF vars, request, db, redis
  <2>14. ASSUME NEW r \in Requests, Handle(r)
         PROVE  /\ ~live'[i]
                /\ Reviving(i)' \subseteq Reviving(i)
                /\ cache'[i] \notin {0, cache[i]} => Reviving(i)' # Reviving(i)
    BY ONLY <2>5, <2>6, <2>7, <2>8, <2>9, <2>10, <2>14, <2>15 DEF Handle
  <2> QED
    BY <2>4, <2>11, <2>12, <2>13, <2>14 DEF Next, Idle
<1>2. ASSUME TypeOK, Assigned, Bounded, [Next]_vars, UNCHANGED retries,
             NEW i \in Ids, ver[i] > 0, ~live[i]
      PROVE  /\ ~live'[i]
             /\ LateSets(i)' \subseteq LateSets(i)
             /\ cache'[i] \notin {0, cache[i]} => LateSets(i)' # LateSets(i)
  <2>1. /\ ~live'[i]
        /\ Reviving(i)' \subseteq Reviving(i)
        /\ cache'[i] \notin {0, cache[i]} => Reviving(i)' # Reviving(i)
    BY <1>1, <1>2
  <2>2. LateSets(i)' \subseteq LateSets(i)
    BY <1>2, <2>1 DEF LateSets
  <2>3. ASSUME NEW r \in Reviving(i), r \notin Reviving(i)'
        PROVE  <<r, retries[r]>> \in LateSets(i) /\ <<r, retries[r]>> \notin LateSets(i)'
    <3>1. r \in Requests /\ retries[r] \in 0..MaxRetries
      BY <1>2, <2>3 DEF TypeOK, Reviving
    <3> QED BY <2>3, <3>1, RetryAssumption DEF LateSets
  <2> QED BY <2>1, <2>2, <2>3
<1>3. ASSUME TypeOK, Assigned, NEW r \in Requests,
             CacheSetRepeated(r) \/ CacheDelRepeated(r),
             NEW i \in Ids, ~live[i]
      PROVE  /\ ~live'[i]
             /\ LateSets(i)' \subseteq LateSets(i)
             /\ cache'[i] \notin {0, cache[i]} => LateSets(i)' # LateSets(i)
  <2>1. UNCHANGED <<pc, task, live>>
    BY <1>3, RepetitionEffect DEF db
  <2>2. Reviving(i)' = Reviving(i)
    BY <2>1 DEF Reviving
  <2>3. /\ retries' = [retries EXCEPT ![r] = @ + 1]
        /\ \A q \in Requests : retries[q] \in 0..MaxRetries
    BY <1>3 DEF TypeOK, CacheSetRepeated, CacheDelRepeated, Repeat
  <2>4. \A q \in Requests : retries'[q] >= retries[q] /\ (q = r => retries'[q] > retries[q])
    BY <1>3, <2>3, RetryAssumption DEF TypeOK
  <2>5. LateSets(i)' \subseteq LateSets(i)
    BY <2>2, <2>3, <2>4, RetryAssumption DEF LateSets, Reviving
  <2>6. ASSUME cache'[i] \notin {0, cache[i]} PROVE LateSets(i)' # LateSets(i)
    <3>1. r \in Reviving(i)
      BY <1>3, <2>6, RepetitionEffect DEF Reviving
    <3>2. <<r, retries[r]>> \in LateSets(i) /\ <<r, retries[r]>> \notin LateSets(i)'
      BY <2>3, <2>4, <3>1, RetryAssumption DEF LateSets
    <3> QED BY <3>2
  <2> QED BY <1>3, <2>1, <2>5, <2>6
<1>4. ASSUME [Next]_vars
      PROVE  \/ UNCHANGED retries
             \/ \E r \in Requests : CacheSetRepeated(r) \/ CacheDelRepeated(r)
  BY <1>4 DEF Next, Handle, Idle, Arrive, CacheHit, CacheMiss, Select, SelectFails, CacheSet,
              CacheSetFails, Exec, ExecFails, CacheDel, CacheDelFails, Acknowledge, Insert,
              InsertFails, Evict, Crash, request, vars
<1>5. TypeOK /\ Assigned /\ Bounded /\ [Next]_vars =>
        [\A i \in Ids : ver[i] > 0 /\ ~live[i] =>
           /\ ~live'[i]
           /\ LateSets(i)' \subseteq LateSets(i)
           /\ cache'[i] \notin {0, cache[i]} => LateSets(i)' # LateSets(i)]_vars
  BY <1>2, <1>3, <1>4
<1> QED
  BY <1>5, CopiesInvariant, TypeCorrect, PTL DEF Spec, RevivedOnlyByLateReads

-----------------------------------------------------------------------------------
(* One request at a time: no answer needs an excuse.                              *)

\* With one request inside the server no read overlaps a write.
Sequential ==
  /\ \A q, r \in Requests : pc[q] \in Active /\ pc[r] \in Active => q = r
  /\ \A r \in Requests : pc[r] = "set" => got[r] = ver[task[r]]
  /\ \A i \in Ids : ~taint[i]
  /\ \A r \in Requests : ~tainted[r] /\ ~excused[r]

LEMMA ArriveAlone ==
  ASSUME InFlight = 1, NEW r \in Requests, NEW o \in Ops, NEW i \in Ids, Arrive(r, o, i)
  PROVE  \A q \in Requests : pc[q] \notin Active
<1> DEFINE S == {q \in Requests : pc[q] \in Active}
<1>1. S \subseteq Requests
  OBVIOUS
<1>2. Cardinality(S) < 1
  BY DEF Arrive
<1> HIDE DEF S
<1>3. IsFiniteSet(S) /\ Cardinality(S) \in Nat
  BY <1>1, RequestsAssumption, FS_Subset, FS_CardinalityType
<1>4. S = {}
  BY <1>2, <1>3, FS_EmptySet
<1> QED BY <1>4 DEF S

LEMMA NextSequential ==
  ASSUME InFlight = 1, Faults = {}, TypeOK, Assigned, Sequential, [Next]_vars
  PROVE  Sequential'
<1> USE DEF Goto, Answer
<1>1. ASSUME NEW r \in Requests, NEW o \in Ops, NEW i \in Ids, Arrive(r, o, i)
      PROVE  Sequential'
  <2>1. \A q \in Requests : pc[q] \notin Active
    BY <1>1, ArriveAlone
  <2>2. /\ UNCHANGED <<got, ver, taint, tainted, excused>>
        /\ pc' = [pc EXCEPT ![r] = FirstCommand(o)]
    BY <1>1 DEF Arrive, db
  <2>3. FirstCommand(o) \in {"cache", "select", "exec"}
    BY DEF Ops, Reads, Writes, FirstCommand
  <2> QED BY <2>1, <2>2, <2>3 DEF TypeOK, Sequential, Active
<1>2. ASSUME NEW r \in Requests, CacheHit(r) PROVE Sequential'
  <2>1. /\ task[r] \in Ids /\ UNCHANGED <<task, ver, taint>> /\ pc[r] = "cache"
        /\ pc' = [pc EXCEPT ![r] = "done"]
        /\ \A q \in Requests : q # r => got'[q] = got[q]
    BY <1>2 DEF TypeOK, CacheHit, Assigned, db
  <2>2. Pending(task[r]) = {}
    BY <2>1 DEF Sequential, Active, Pending
  <2>3. \A q \in Requests : ~tainted'[q] /\ ~excused'[q]
    BY <1>2, <2>1, <2>2 DEF TypeOK, Sequential, CacheHit
  <2> QED BY <2>1, <2>3 DEF TypeOK, Sequential, Active
<1>3. ASSUME NEW r \in Requests, CacheMiss(r) PROVE Sequential'
  BY <1>3 DEF TypeOK, Sequential, CacheMiss, Active, db, history
<1>4. ASSUME NEW r \in Requests, Select(r) PROVE Sequential'
  <2>1. task[r] \in Ids
    BY <1>4 DEF Select, Assigned
  <2> QED BY <1>4, <2>1 DEF TypeOK, Sequential, Select, Row, Active, db, history
<1>5. ASSUME NEW r \in Requests, CacheSet(r) PROVE Sequential'
  <2>1. /\ task[r] \in Ids /\ UNCHANGED <<task, got, ver, tainted, excused>> /\ pc[r] = "set"
        /\ pc' = [pc EXCEPT ![r] = "done"]
        /\ taint' = [taint EXCEPT ![task[r]] = got[r] < ver[task[r]]]
    BY <1>5 DEF CacheSet, RedisSet, Assigned, db
  <2>2. ~(got[r] < ver[task[r]])
    BY <2>1 DEF TypeOK, Sequential
  <2> QED BY <2>1, <2>2 DEF TypeOK, Sequential, Active
<1>6. ASSUME NEW r \in Requests, Exec(r) PROVE Sequential'
  <2>1. pc[r] = "exec" /\ pc' = [pc EXCEPT ![r] = "del"] /\ UNCHANGED <<taint, tainted, excused>>
    BY <1>6 DEF Exec, history
  <2>2. \A q \in Requests : pc'[q] # "set"
    BY <2>1 DEF TypeOK, Sequential, Active
  <2> QED BY <2>1, <2>2 DEF TypeOK, Sequential, Active
<1>7. ASSUME NEW r \in Requests, CacheDel(r) PROVE Sequential'
  BY <1>7 DEF TypeOK, Sequential, CacheDel, RedisDel, Acknowledge, Active, db
<1>8. ASSUME NEW r \in Requests, Insert(r) PROVE Sequential'
  <2>1. pc[r] = "exec" /\ pc' = [pc EXCEPT ![r] = "done"]
        /\ UNCHANGED <<taint, tainted, excused>>
    BY <1>8 DEF Insert
  <2>2. \A q \in Requests : pc'[q] # "set"
    BY <2>1 DEF TypeOK, Sequential, Active
  <2> QED BY <2>1, <2>2 DEF TypeOK, Sequential, Active
<1>9. ASSUME NEW i \in Ids, Evict(i) PROVE Sequential'
  BY <1>9 DEF TypeOK, Sequential, Evict, RedisDel, request, db
<1>10. CASE UNCHANGED vars
  BY <1>10 DEF Sequential, vars, request, db, history
<1> QED
  BY <1>1, <1>2, <1>3, <1>4, <1>5, <1>6, <1>7, <1>8, <1>9, <1>10
     DEF Next, Handle, Idle, SelectFails, CacheSetFails, ExecFails, CacheDelFails,
         InsertFails, CacheSetRepeated, CacheDelRepeated, Repeat, Crash

\* Without excuses the two views of the answers are the same.
LEMMA NoExcuse == ASSUME TypeOK, Sequential PROVE Plain = got
BY DEF TypeOK, Sequential, Plain

\* When requests come one after another and nothing fails, a client cannot tell
\* the API from the table alone: every read returns the row as it is.
THEOREM SequentialTransparent ==
  ASSUME InFlight = 1, Faults = {}
  PROVE  Spec => ImplementsStore
<1>1. Init => Sequential
  BY DEF Init, Sequential, Active
<1>2. TypeOK /\ Assigned /\ Sequential /\ [Next]_vars => Sequential'
  BY NextSequential
<1>3. Init => Store!SInit
  BY DEF Init, Store!SInit, Store!Unknown, Unknown
<1>4. ASSUME TypeOK, TypeOK', Assigned, Bounded, StaleHasCause, Copies,
             Sequential, Sequential', [Next]_vars
      PROVE  [Store!SNext]_(Store!svars)
  <2>1. Plain = got /\ Plain' = got'
    <3>1. Plain = got
      BY <1>4, NoExcuse
    <3>2. Plain' = got'
      BY <1>4 DEF TypeOK, Sequential, Plain
    <3> QED BY <3>1, <3>2
  <2>2. [Table!SNext]_(Table!svars)
    BY <1>4, StepTable
  <2> QED
    BY <2>1, <2>2
       DEF Plain, Table!SNext, Table!svars, Table!Read, Table!Written, Table!NoSuchTask,
           Table!Unanswered, Table!Answer, Table!Row, Table!Write, Table!Create, Table!Update,
           Table!Delete, Table!Change, Table!Unknown,
           Store!SNext, Store!svars, Store!Read, Store!Written, Store!NoSuchTask,
           Store!Unanswered, Store!Answer, Store!Row, Store!Write, Store!Create, Store!Update,
           Store!Delete, Store!Change, Store!Unknown
<1>5. TypeOK /\ TypeOK' /\ Assigned /\ Bounded /\ StaleHasCause /\ Copies
        /\ Sequential /\ Sequential' /\ [Next]_vars => [Store!SNext]_(Store!svars)
  BY <1>4
<1> QED
  BY <1>1, <1>2, <1>3, <1>5, CopiesInvariant, TypeCorrect, PTL
     DEF Spec, ImplementsStore, Store!SSpec
==================================================================================
