-------------------------- MODULE PresignedUploadProofs --------------------------
(* Theorems about PresignedUpload for every set of requests and files.            *)
EXTENDS PresignedUpload, TLAPS

-----------------------------------------------------------------------------------
(* Type correctness.                                                              *)

\* A file is described with its own size.
LEMMA DescribedIs ==
  \A f \in Files : Described[f] \in Descriptions /\ Described[f].size = Size[f] /\ Size[f] \in Nat
BY FilesAssumption DEF Described, Descriptions

\* The values a request works with are there when its next step needs them.
Ready ==
  \A r \in Requests :
    /\ pc[r] = "idle" => op[r] = "none" /\ key[r] = None /\ ~removed[r]
    /\ pc[r] = "init" => op[r] \in {"submit", "init"} /\ key[r] = None
    /\ pc[r] = "init" /\ op[r] = "submit" => file[r] \in Files
    /\ pc[r] \in {"upload", "uploading"} => op[r] \in {"submit", "upload"} /\ file[r] \in Files
    /\ pc[r] \in {"stat", "insert"} => op[r] \in {"submit", "create"}
    /\ pc[r] = "insert" => info[r] \in Descriptions
    /\ pc[r] \in {"lookup", "remove", "drop"} => op[r] = "delete"
    /\ pc[r] = "read" => op[r] = "view" /\ key[r] = None
    /\ op[r] = "view" => pc[r] \in {"read", "done", "lost"}
    /\ op[r] \in {"view", "delete"} => post[r] \in Requests
    /\ pc[r] \in {"upload", "uploading", "stat", "insert", "remove", "drop"}
         => key[r] \in Requests

LEMMA ArriveEffect ==
  ASSUME TypeOK, Ready, NEW r \in Requests, Arrive(r)
  PROVE  TypeOK' /\ Ready'
<1> USE DEF Goto, Set
<1>1. PICK o \in Calls :
        /\ op' = [op EXCEPT ![r] = o]
        /\ \/ o = "submit" /\ \E f \in Files : Submit(r, f)
           \/ o = "init"   /\ Init1(r)
           \/ o = "upload" /\ \E k \in Requests, f \in Files : Upload1(r, k, f)
           \/ o = "create" /\ \E k \in Requests : Create1(r, k)
           \/ o = "delete" /\ \E i \in Requests : Delete1(r, i)
           \/ o = "view"   /\ \E i \in Requests : View1(r, i)
  BY DEF Arrive
<1>2. UNCHANGED <<info, code, minio, db, removed>> /\ pc[r] = "idle"
  BY DEF Arrive
<1>3. key[r] = None /\ ~removed[r]
  BY <1>2 DEF Ready
<1>4. op' \in [Requests -> AllCalls \union {"none"}]
  BY <1>1, CallsAssumption DEF TypeOK
<1>5. CASE o = "submit"
  <2>1. PICK f \in Files : Submit(r, f)
    BY <1>1, <1>5
  <2> QED BY <1>1, <1>2, <1>3, <1>4, <1>5, <2>1
          DEF TypeOK, Ready, Submit, Working, OnServer, minio, db
<1>6. CASE o = "init"
  BY <1>1, <1>2, <1>3, <1>4, <1>6 DEF TypeOK, Ready, Init1, Working, OnServer, minio, db
<1>7. CASE o = "upload"
  <2>1. PICK k \in Requests, f \in Files : Upload1(r, k, f)
    BY <1>1, <1>7
  <2> QED BY <1>1, <1>2, <1>3, <1>4, <1>7, <2>1
          DEF TypeOK, Ready, Upload1, Working, OnServer, minio, db
<1>8. CASE o = "create"
  <2>1. PICK k \in Requests : Create1(r, k)
    BY <1>1, <1>8
  <2> QED BY <1>1, <1>2, <1>3, <1>4, <1>8, <2>1
          DEF TypeOK, Ready, Create1, Working, OnServer, minio, db
<1>9. CASE o = "delete"
  <2>1. PICK i \in Requests : Delete1(r, i)
    BY <1>1, <1>9
  <2> QED BY <1>1, <1>2, <1>3, <1>4, <1>9, <2>1
          DEF TypeOK, Ready, Delete1, Working, OnServer, minio, db
<1>10. CASE o = "view"
  <2>1. PICK i \in Requests : View1(r, i)
    BY <1>1, <1>10
  <2> QED BY <1>1, <1>2, <1>3, <1>4, <1>10, <2>1
          DEF TypeOK, Ready, View1, Working, OnServer, minio, db
<1> QED BY <1>1, <1>5, <1>6, <1>7, <1>8, <1>9, <1>10

LEMMA NextReady == TypeOK /\ Ready /\ [Next]_vars => TypeOK' /\ Ready'
<1> SUFFICES ASSUME TypeOK, Ready, [Next]_vars PROVE TypeOK' /\ Ready'
  OBVIOUS
<1> USE DEF Goto, Set, Answer
<1>1. ASSUME NEW r \in Requests, Unauthorized(r) \/ InitFails(r) \/ StatFails(r)
                                 \/ LookupFails(r) \/ UploadRefused(r) \/ ReadFails(r)
      PROVE  TypeOK' /\ Ready'
  <2>1. PICK c \in {200, 400, 401, 403, 500} : code' = [code EXCEPT ![r] = c]
    BY <1>1 DEF Unauthorized, InitFails, StatFails, LookupFails, UploadRefused, ReadFails
  <2>2. /\ pc' = [pc EXCEPT ![r] = "done"]
        /\ UNCHANGED <<op, key, file, info, post, minio, db, removed>>
    BY <1>1 DEF Unauthorized, InitFails, StatFails, LookupFails, UploadRefused, ReadFails
  <2> QED BY <2>1, <2>2 DEF TypeOK, Ready, minio, db
<1>2. ASSUME NEW r \in Requests, InitUpload(r) PROVE TypeOK' /\ Ready'
  BY <1>2, ExpiryAssumption DEF TypeOK, Ready, InitUpload, Working, OnServer, db
<1>3. ASSUME NEW r \in Requests, Stat(r) PROVE TypeOK' /\ Ready'
  <2>1. object[key[r]] # None => Described[object[key[r]]] \in Descriptions
    BY <1>3, DescribedIs DEF TypeOK, Ready, Stat
  <2> QED BY <1>3, <2>1 DEF TypeOK, Ready, Stat, Working, OnServer, minio, db
<1>4. ASSUME NEW r \in Requests, Insert(r) \/ InsertFails(r) PROVE TypeOK' /\ Ready'
  <2>1. /\ rowKey' \in [Requests -> Requests \union {None}]
        /\ rowInfo' \in [Requests -> Descriptions \union {None}]
    BY <1>4 DEF TypeOK, Ready, Insert, InsertFails, SqlInsert, db
  <2>2. PICK c \in {201, 500} : code' = [code EXCEPT ![r] = c]
    BY <1>4 DEF Insert, InsertFails
  <2>3. /\ pc' = [pc EXCEPT ![r] = "done"]
        /\ UNCHANGED <<op, key, file, info, post, minio, removed>>
    BY <1>4 DEF Insert, InsertFails
  <2> QED BY <2>1, <2>2, <2>3 DEF TypeOK, Ready, minio
<1>5. ASSUME NEW r \in Requests, Lookup(r) PROVE TypeOK' /\ Ready'
  BY <1>5 DEF TypeOK, Ready, Lookup, Working, OnServer, minio, db
<1>6. ASSUME NEW r \in Requests, Remove(r) \/ RemoveFails(r) PROVE TypeOK' /\ Ready'
  <2>1. object' \in [Requests -> Files \union {None}]
    BY <1>6 DEF TypeOK, Remove, RemoveFails
  <2>2. /\ pc[r] = "remove" /\ pc' = [pc EXCEPT ![r] = "drop"]
        /\ removed' = [removed EXCEPT ![r] = TRUE]
        /\ UNCHANGED <<op, key, file, info, post, code, grant, left, db>>
    BY <1>6 DEF Remove, RemoveFails
  <2> QED BY <2>1, <2>2 DEF TypeOK, Ready, Working, OnServer, db
<1>7. ASSUME NEW r \in Requests, Drop(r) \/ DropFails(r) PROVE TypeOK' /\ Ready'
  <2>1. /\ rowKey' \in [Requests -> Requests \union {None}]
        /\ rowInfo' \in [Requests -> Descriptions \union {None}]
    BY <1>7 DEF TypeOK, Drop, DropFails, SqlDelete, db
  <2>2. PICK c \in {204, 500} : code' = [code EXCEPT ![r] = c]
    BY <1>7 DEF Drop, DropFails
  <2>3. /\ pc' = [pc EXCEPT ![r] = "done"]
        /\ UNCHANGED <<op, key, file, info, post, minio, removed>>
    BY <1>7 DEF Drop, DropFails
  <2> QED BY <2>1, <2>2, <2>3 DEF TypeOK, Ready, minio
<1>8. ASSUME NEW r \in Requests, UploadBegins(r) PROVE TypeOK' /\ Ready'
  BY <1>8 DEF TypeOK, Ready, UploadBegins, Working, OnServer, minio, db
<1>9. ASSUME NEW r \in Requests, UploadEnds(r) \/ UploadFails(r) PROVE TypeOK' /\ Ready'
  <2>1. object' \in [Requests -> Files \union {None}]
    BY <1>9 DEF TypeOK, Ready, UploadEnds, UploadFails
  <2>2. PICK c \in {200, 500} : code' = [code EXCEPT ![r] = c]
    BY <1>9 DEF UploadEnds, UploadFails
  <2>3. /\ pc[r] = "uploading"
        /\ \/ pc' = [pc EXCEPT ![r] = "done"]
           \/ op[r] = "submit" /\ pc' = [pc EXCEPT ![r] = "stat"]
        /\ UNCHANGED <<op, key, file, info, post, grant, left, db, removed>>
    BY <1>9 DEF UploadEnds, UploadFails
  <2> QED BY <2>1, <2>2, <2>3 DEF TypeOK, Ready, Working, OnServer, db
<1>10. ASSUME Crash PROVE TypeOK' /\ Ready'
  BY <1>10 DEF TypeOK, Ready, Crash, OnServer, minio, db
<1>11. ASSUME Tick PROVE TypeOK' /\ Ready'
  BY <1>11, ExpiryAssumption DEF TypeOK, Ready, Tick, request, db
<1>12. ASSUME NEW r \in Requests, Read(r) PROVE TypeOK' /\ Ready'
  <2>1. PICK c \in {200, 404} : code' = [code EXCEPT ![r] = c]
    BY <1>12 DEF Read
  <2>2. post[r] \in Requests
    BY <1>12 DEF Read, Ready
  <2>3. /\ key' \in [Requests -> Requests \union {None}]
        /\ info' \in [Requests -> Descriptions \union {None}]
        /\ \A q \in Requests \ {r} : key'[q] = key[q] /\ info'[q] = info[q]
    BY <1>12, <2>2 DEF Read, TypeOK
  <2>4. /\ pc[r] = "read" /\ pc' = [pc EXCEPT ![r] = "done"]
        /\ UNCHANGED <<op, file, post, minio, db, removed>>
    BY <1>12 DEF Read
  <2> QED BY <2>1, <2>3, <2>4 DEF TypeOK, Ready, minio, db
<1>13. CASE UNCHANGED vars
  BY <1>13 DEF TypeOK, Ready, vars, request, minio, db
<1> QED
  BY <1>1, <1>2, <1>3, <1>4, <1>5, <1>6, <1>7, <1>8, <1>9, <1>10, <1>11, <1>12, <1>13,
     ArriveEffect DEF Next, Idle

\* Every variable keeps its type, and no step works with a value it does not have.
THEOREM TypeCorrect == Spec => [](TypeOK /\ Ready)
<1>1. Init => TypeOK /\ Ready
  BY ExpiryAssumption DEF Init, TypeOK, Ready
<1> QED BY <1>1, NextReady, PTL DEF Spec

-----------------------------------------------------------------------------------
(* A missing object has been removed.                                             *)

RemovedKeys == {key[r] : r \in {d \in Requests : op[d] = "delete" /\ removed[d]}}

\* A key whose object is there, or has been removed by a deletion.
Settled == {k \in Requests : object[k] # None} \union RemovedKeys

\* A deletion that still has to find or remove its object has removed nothing.
NotYet == \A r \in Requests : pc[r] \in {"lookup", "remove"} => ~removed[r]

\* What a row refers to, is about to refer to, or was shown to refer to, is there or
\* was removed.
Seen == /\ NotYet
        /\ \A i \in Requests : rowKey[i] # None => rowKey[i] \in Settled
        /\ \A r \in Requests : pc[r] = "insert" => key[r] \in Settled
        /\ \A r \in Viewers : key[r] \in Settled

\* No step forgets a removal: a deletion keeps its key once it has removed it.
LEMMA RemovalStays ==
  ASSUME TypeOK, Ready, NotYet, [Next]_vars, NEW k \in RemovedKeys
  PROVE  k \in RemovedKeys'
<1>1. PICK d \in Requests : op[d] = "delete" /\ key[d] = k /\ removed[d]
  BY DEF RemovedKeys
<1>2. pc[d] \notin {"idle", "init", "lookup", "remove"}
  BY <1>1 DEF Ready, NotYet
<1>3. op'[d] = op[d] /\ key'[d] = key[d] /\ removed'[d]
  <2> USE DEF Set
  <2>1. ASSUME NEW r \in Requests, Arrive(r)
        PROVE  op'[d] = op[d] /\ key'[d] = key[d] /\ removed'[d]
    <3>1. r # d
      BY <1>2, <2>1 DEF Arrive
    <3>2. PICK o \in Calls : op' = [op EXCEPT ![r] = o]
      BY <2>1 DEF Arrive
    <3>3. key' = key \/ \E x \in Requests : key' = [key EXCEPT ![r] = x]
      BY <2>1 DEF Arrive, Submit, Init1, Upload1, Create1, Delete1, View1
    <3>4. removed' = removed
      BY <2>1 DEF Arrive
    <3> QED BY <1>1, <3>1, <3>2, <3>3, <3>4 DEF TypeOK
  <2>2. ASSUME NEW r \in Requests,
               Unauthorized(r) \/ InitFails(r) \/ StatFails(r) \/ LookupFails(r)
                 \/ UploadRefused(r) \/ Stat(r) \/ Insert(r) \/ InsertFails(r)
                 \/ Drop(r) \/ DropFails(r) \/ UploadBegins(r) \/ UploadEnds(r)
                 \/ UploadFails(r) \/ ReadFails(r)
        PROVE  op'[d] = op[d] /\ key'[d] = key[d] /\ removed'[d]
    BY <1>1, <2>2 DEF Unauthorized, InitFails, StatFails, LookupFails, UploadRefused, Stat,
       Insert, InsertFails, Drop, DropFails, UploadBegins, UploadEnds, UploadFails, ReadFails
  <2>3. ASSUME NEW r \in Requests, InitUpload(r)
        PROVE  op'[d] = op[d] /\ key'[d] = key[d] /\ removed'[d]
    BY <1>1, <1>2, <2>3 DEF InitUpload, TypeOK
  <2>4. ASSUME NEW r \in Requests, Lookup(r)
        PROVE  op'[d] = op[d] /\ key'[d] = key[d] /\ removed'[d]
    BY <1>1, <1>2, <2>4 DEF Lookup, TypeOK
  <2>5. ASSUME NEW r \in Requests, Remove(r) \/ RemoveFails(r)
        PROVE  op'[d] = op[d] /\ key'[d] = key[d] /\ removed'[d]
    BY <1>1, <2>5 DEF Remove, RemoveFails, TypeOK
  <2>6. ASSUME Crash \/ Tick \/ UNCHANGED vars
        PROVE  op'[d] = op[d] /\ key'[d] = key[d] /\ removed'[d]
    BY <1>1, <2>6 DEF Crash, Tick, vars, request
  <2>7. ASSUME NEW r \in Requests, Read(r)
        PROVE  op'[d] = op[d] /\ key'[d] = key[d] /\ removed'[d]
    <3>1. d # r
      BY <1>1, <2>7 DEF Read, Ready
    <3> QED BY <1>1, <2>7, <3>1 DEF Read, TypeOK
  <2> QED BY <2>1, <2>2, <2>3, <2>4, <2>5, <2>6, <2>7 DEF Next, Idle
<1> QED BY <1>1, <1>3 DEF RemovedKeys

\* A viewer keeps what it was shown; a new one is shown a row.
LEMMA NewViewer ==
  ASSUME TypeOK, Ready, [Next]_vars, NEW v \in Viewers'
  PROVE  \/ /\ v \in Viewers
            /\ key'[v] = key[v] /\ info'[v] = info[v] /\ post'[v] = post[v]
         \/ /\ post[v] \in Requests /\ rowKey[post[v]] # None
            /\ key'[v] = rowKey[post[v]] /\ info'[v] = rowInfo[post[v]]
            /\ UNCHANGED <<post, object, rowKey>>
            /\ \A q \in Requests : pc[q] # "read" => pc'[q] = pc[q]
<1> DEFINE Kept1 == /\ v \in Viewers
                    /\ key'[v] = key[v] /\ info'[v] = info[v] /\ post'[v] = post[v]
<1> USE DEF Goto, Set, Answer
<1>1. v \in Requests /\ op'[v] = "view" /\ key'[v] # None
  BY DEF Viewers
<1>2. ASSUME NEW r \in Requests, Arrive(r) PROVE Kept1
  <2>1. PICK o \in Calls :
          /\ op' = [op EXCEPT ![r] = o]
          /\ \/ o = "submit" /\ \E f \in Files : Submit(r, f)
             \/ o = "init"   /\ Init1(r)
             \/ o = "upload" /\ \E k \in Requests, f \in Files : Upload1(r, k, f)
             \/ o = "create" /\ \E k \in Requests : Create1(r, k)
             \/ o = "delete" /\ \E i \in Requests : Delete1(r, i)
             \/ o = "view"   /\ \E i \in Requests : View1(r, i)
    BY <1>2 DEF Arrive
  <2>2. \A q \in Requests \ {r} : key'[q] = key[q] /\ info'[q] = info[q] /\ post'[q] = post[q]
    BY <1>2, <2>1 DEF Arrive, Submit, Init1, Upload1, Create1, Delete1, View1, TypeOK
  <2>3. v # r
    <3>1. ASSUME v = r PROVE FALSE
      <4>1. o = "view"
        BY <1>1, <2>1, <3>1 DEF TypeOK
      <4>2. key' = key
        BY <2>1, <4>1 DEF View1
      <4> QED BY <1>1, <1>2, <3>1, <4>2 DEF Arrive, Ready
    <3> QED BY <3>1
  <2> QED BY <1>1, <2>1, <2>2, <2>3 DEF Viewers, TypeOK
<1>3. ASSUME NEW r \in Requests,
             Unauthorized(r) \/ InitFails(r) \/ StatFails(r) \/ LookupFails(r)
               \/ UploadRefused(r) \/ Insert(r) \/ InsertFails(r) \/ Remove(r) \/ RemoveFails(r)
               \/ Drop(r) \/ DropFails(r) \/ UploadBegins(r) \/ UploadEnds(r)
               \/ UploadFails(r) \/ ReadFails(r)
      PROVE  Kept1
  <2>1. UNCHANGED <<op, key, file, info, post>>
    BY <1>3 DEF Unauthorized, InitFails, StatFails, LookupFails, UploadRefused, Insert,
       InsertFails, Remove, RemoveFails, Drop, DropFails, UploadBegins, UploadEnds,
       UploadFails, ReadFails
  <2> QED BY <1>1, <2>1 DEF Viewers
<1>4. ASSUME NEW r \in Requests, InitUpload(r) \/ Stat(r) \/ Lookup(r) PROVE Kept1
  <2>1. /\ pc[r] \in {"init", "stat", "lookup"} /\ UNCHANGED <<op, post>>
        /\ \A q \in Requests \ {r} : key'[q] = key[q] /\ info'[q] = info[q]
    BY <1>4 DEF InitUpload, Stat, Lookup, TypeOK
  <2>2. v # r
    BY <1>1, <2>1 DEF Ready
  <2> QED BY <1>1, <2>1, <2>2 DEF Viewers
<1>5. ASSUME Crash \/ Tick \/ UNCHANGED vars PROVE Kept1
  <2>1. UNCHANGED <<op, key, file, info, post>>
    BY <1>5 DEF Crash, Tick, vars, request
  <2> QED BY <1>1, <2>1 DEF Viewers
<1>6. ASSUME NEW r \in Requests, Read(r), v # r PROVE Kept1
  <2>1. /\ UNCHANGED <<op, post>>
        /\ \A q \in Requests \ {r} : key'[q] = key[q] /\ info'[q] = info[q]
    BY <1>6 DEF Read, TypeOK
  <2> QED BY <1>1, <1>6, <2>1 DEF Viewers
<1>7. ASSUME Read(v)
      PROVE  /\ post[v] \in Requests /\ rowKey[post[v]] # None
             /\ key'[v] = rowKey[post[v]] /\ info'[v] = rowInfo[post[v]]
             /\ UNCHANGED <<post, object, rowKey>>
             /\ \A q \in Requests : pc[q] # "read" => pc'[q] = pc[q]
  <2>1. post[v] \in Requests /\ key[v] = None /\ pc[v] = "read"
    BY <1>1, <1>7 DEF Read, Ready
  <2>2. rowKey[post[v]] # None
    BY <1>1, <1>7, <2>1 DEF Read
  <2> QED BY <1>1, <1>7, <2>1, <2>2 DEF Read, TypeOK, minio, db
<1> HIDE DEF Kept1
<1>8. Kept1 \/ Read(v)
  BY <1>2, <1>3, <1>4, <1>5, <1>6 DEF Next, Idle
<1> QED BY <1>1, <1>7, <1>8 DEF Kept1

\* What holds of a key before the step still holds if the object is untouched.
LEMMA SeenStays ==
  ASSUME TypeOK, Ready, Seen, [Next]_vars, object' = object,
         NEW k \in Settled
  PROVE  k \in Settled'
BY RemovalStays DEF Seen, Settled

\* The key of a row or of a viewer stays settled, so that of a new viewer is.
LEMMA ViewersSettled ==
  ASSUME TypeOK, Ready, Seen, [Next]_vars, Settled \subseteq Settled'
  PROVE  \A v \in Viewers' : key'[v] \in Settled'
BY NewViewer DEF Seen

\* A step that leaves the objects and the rows alone, and sends no insertion or
\* removal on its way without cause, keeps Seen.
LEMMA QuietStep ==
  ASSUME TypeOK, Ready, Seen, [Next]_vars, object' = object, rowKey' = rowKey,
         \A r \in Requests : pc'[r] = "insert" =>
           key'[r] = key[r] /\ key[r] \in Requests /\ (pc[r] = "insert" \/ key[r] \in Settled),
         NotYet'
  PROVE  Seen'
<1>1. \A i \in Requests : rowKey'[i] # None => rowKey'[i] \in Settled'
  BY SeenStays DEF Seen, TypeOK
<1>2. \A r \in Requests : pc'[r] = "insert" => key'[r] \in Settled'
  BY SeenStays DEF Seen
<1>3. \A v \in Viewers' : key'[v] \in Settled'
  BY SeenStays, ViewersSettled
<1> QED BY <1>1, <1>2, <1>3 DEF Seen

LEMMA NextSeen == TypeOK /\ Ready /\ Seen /\ [Next]_vars => Seen'
<1> SUFFICES ASSUME TypeOK, Ready, Seen, [Next]_vars PROVE Seen'
  OBVIOUS
<1> USE DEF Goto, Set, Answer
<1>1. ASSUME NEW r \in Requests, Arrive(r) PROVE Seen'
  <2>1. PICK where \in {"init", "upload", "stat", "lookup", "read"} :
          pc' = [pc EXCEPT ![r] = where]
    BY <1>1 DEF Arrive, Submit, Init1, Upload1, Create1, Delete1, View1
  <2>2. /\ pc[r] = "idle"
        /\ UNCHANGED <<code, minio, db, removed>>
    BY <1>1 DEF Arrive
  <2>3. \A q \in Requests : q # r => key'[q] = key[q]
    BY <1>1 DEF Arrive, Submit, Init1, Upload1, Create1, Delete1, View1, TypeOK
  <2>4. NotYet'
    BY <2>1, <2>2 DEF Seen, NotYet, Ready, TypeOK
  <2> QED BY <2>1, <2>2, <2>3, <2>4, QuietStep DEF Ready, TypeOK, minio, db
<1>2. ASSUME NEW r \in Requests,
             Unauthorized(r) \/ InitFails(r) \/ StatFails(r) \/ LookupFails(r)
               \/ UploadRefused(r) \/ UploadBegins(r) \/ InitUpload(r) \/ Lookup(r)
               \/ Read(r) \/ ReadFails(r)
      PROVE  Seen'
  <2>1. PICK where \in {"done", "upload", "uploading", "remove"} :
          /\ pc' = [pc EXCEPT ![r] = where]
          /\ where = "remove" => pc[r] = "lookup"
    BY <1>2 DEF Unauthorized, InitFails, StatFails, LookupFails, UploadRefused,
       UploadBegins, InitUpload, Lookup, Read, ReadFails
  <2>2. UNCHANGED <<object, db, removed>>
    BY <1>2 DEF Unauthorized, InitFails, StatFails, LookupFails, UploadRefused,
       UploadBegins, InitUpload, Lookup, Read, ReadFails, minio
  <2>3. \A q \in Requests : q # r => key'[q] = key[q]
    BY <1>2 DEF Unauthorized, InitFails, StatFails, LookupFails, UploadRefused,
       UploadBegins, InitUpload, Lookup, Read, ReadFails, TypeOK
  <2>4. NotYet'
    BY <2>1, <2>2 DEF Seen, NotYet, TypeOK
  <2> QED BY <2>1, <2>2, <2>3, <2>4, QuietStep DEF Ready, TypeOK, db
<1>3. ASSUME NEW r \in Requests, Stat(r) PROVE Seen'
  <2>1. NotYet'
    BY <1>3 DEF Stat, Seen, NotYet, TypeOK
  <2>2. pc[r] = "stat" /\ UNCHANGED <<op, key, minio, db>>
    BY <1>3 DEF Stat
  <2>3. \/ pc' = [pc EXCEPT ![r] = "done"]
        \/ object[key[r]] # None /\ pc' = [pc EXCEPT ![r] = "insert"]
    BY <1>3 DEF Stat
  <2>4. object[key[r]] # None => key[r] \in Settled
    BY <2>2 DEF Settled, Ready
  <2> QED BY <2>1, <2>2, <2>3, <2>4, QuietStep DEF Ready, TypeOK, minio, db
<1>4. ASSUME NEW r \in Requests, Insert(r) \/ InsertFails(r) PROVE Seen'
  <2>1. /\ pc[r] = "insert" /\ pc' = [pc EXCEPT ![r] = "done"]
        /\ UNCHANGED <<op, key, file, info, post, minio, removed>>
    BY <1>4 DEF Insert, InsertFails
  <2>2. rowKey' = rowKey \/ rowKey' = [rowKey EXCEPT ![r] = key[r]]
    BY <1>4 DEF Insert, InsertFails, SqlInsert, db
  <2>3. NotYet'
    BY <2>1 DEF Seen, NotYet, TypeOK
  <2>4. \A i \in Requests : rowKey'[i] # None => rowKey'[i] \in Settled'
    <3> TAKE i \in Requests
    <3>1. CASE rowKey'[i] = rowKey[i]
      BY <2>1, <3>1, SeenStays DEF Seen, TypeOK, minio
    <3>2. CASE i = r /\ rowKey'[i] = key[r]
      BY <2>1, <3>2, SeenStays DEF Seen, Ready, minio
    <3> QED BY <2>2, <3>1, <3>2 DEF TypeOK
  <2>5. \A q \in Requests : pc'[q] = "insert" => key'[q] \in Settled'
    BY <2>1, SeenStays DEF Seen, Ready, TypeOK, minio
  <2>6. \A v \in Viewers' : key'[v] \in Settled'
    BY <2>1, SeenStays, ViewersSettled DEF minio
  <2> QED BY <2>3, <2>4, <2>5, <2>6 DEF Seen
<1>5. ASSUME NEW r \in Requests, Remove(r) \/ RemoveFails(r) PROVE Seen'
  <2>1. /\ pc[r] = "remove" /\ pc' = [pc EXCEPT ![r] = "drop"]
        /\ removed' = [removed EXCEPT ![r] = TRUE]
        /\ UNCHANGED <<op, key, file, info, post, code, grant, left, db>>
    BY <1>5 DEF Remove, RemoveFails
  <2>2. object' = object \/ object' = [object EXCEPT ![key[r]] = None]
    BY <1>5 DEF Remove, RemoveFails
  <2>3. op[r] = "delete" /\ key[r] \in Requests
    BY <2>1 DEF Ready
  <2>4. key[r] \in RemovedKeys'
    BY <2>1, <2>3 DEF RemovedKeys, TypeOK
  <2>5. ASSUME NEW k \in Settled
        PROVE  k \in Settled'
    <3>1. CASE k = key[r]
      BY <2>4, <3>1 DEF Settled
    <3>2. CASE k # key[r]
      BY <2>2, <2>3, <2>5, <3>2, RemovalStays DEF TypeOK, Seen, Settled
    <3> QED BY <3>1, <3>2
  <2>6. NotYet'
    BY <2>1 DEF Seen, NotYet, TypeOK
  <2>7. \A i \in Requests : rowKey'[i] # None => rowKey'[i] \in Settled'
    BY <2>1, <2>5 DEF Seen, TypeOK, db
  <2>8. \A q \in Requests : pc'[q] = "insert" => key'[q] \in Settled'
    BY <2>1, <2>5 DEF Seen, Ready, TypeOK
  <2>9. \A v \in Viewers' : key'[v] \in Settled'
    BY <2>5, ViewersSettled
  <2> QED BY <2>6, <2>7, <2>8, <2>9 DEF Seen
<1>6. ASSUME NEW r \in Requests, Drop(r) \/ DropFails(r) PROVE Seen'
  <2>1. /\ pc' = [pc EXCEPT ![r] = "done"]
        /\ UNCHANGED <<op, key, file, info, post, minio, removed>>
    BY <1>6 DEF Drop, DropFails
  <2>2. rowKey' = rowKey \/ rowKey' = [rowKey EXCEPT ![post[r]] = None]
    BY <1>6 DEF Drop, DropFails, SqlDelete, db
  <2>3. NotYet'
    BY <2>1 DEF Seen, NotYet, TypeOK
  <2>4. \A i \in Requests : rowKey'[i] # None => rowKey'[i] \in Settled'
    <3> TAKE i \in Requests
    <3>1. rowKey'[i] = rowKey[i] \/ rowKey'[i] = None
      BY <2>2 DEF TypeOK
    <3> QED BY <2>1, <3>1, SeenStays DEF Seen, TypeOK, minio
  <2>5. \A q \in Requests : pc'[q] = "insert" => key'[q] \in Settled'
    BY <2>1, SeenStays DEF Seen, Ready, TypeOK, minio
  <2>6. \A v \in Viewers' : key'[v] \in Settled'
    BY <2>1, SeenStays, ViewersSettled DEF minio
  <2> QED BY <2>3, <2>4, <2>5, <2>6 DEF Seen
<1>7. ASSUME NEW r \in Requests, UploadEnds(r) \/ UploadFails(r) PROVE Seen'
  <2>1. /\ pc[r] = "uploading"
        /\ \/ pc' = [pc EXCEPT ![r] = "done"]
           \/ pc' = [pc EXCEPT ![r] = "stat"]
        /\ UNCHANGED <<op, key, file, info, post, grant, left, db, removed>>
    BY <1>7 DEF UploadEnds, UploadFails
  <2>2. object' = object \/ object' = [object EXCEPT ![key[r]] = file[r]]
    BY <1>7 DEF UploadEnds, UploadFails
  <2>3. file[r] # None
    BY <2>1, NoneAssumption DEF Ready
  <2>4. ASSUME NEW k \in Settled
        PROVE  k \in Settled'
    BY <2>2, <2>3, <2>4, RemovalStays DEF TypeOK, Seen, Settled
  <2>5. NotYet'
    BY <2>1 DEF Seen, NotYet, TypeOK
  <2>6. \A i \in Requests : rowKey'[i] # None => rowKey'[i] \in Settled'
    BY <2>1, <2>4 DEF Seen, TypeOK, db
  <2>7. \A q \in Requests : pc'[q] = "insert" => key'[q] \in Settled'
    BY <2>1, <2>4 DEF Seen, Ready, TypeOK
  <2>8. \A v \in Viewers' : key'[v] \in Settled'
    BY <2>4, ViewersSettled
  <2> QED BY <2>5, <2>6, <2>7, <2>8 DEF Seen
<1>8. ASSUME Crash \/ Tick \/ UNCHANGED vars PROVE Seen'
  <2>1. \A q \in Requests : pc'[q] = pc[q] \/ pc'[q] = "lost"
    BY <1>8 DEF Crash, Tick, vars, request, TypeOK
  <2>2. UNCHANGED <<op, key, object, db, removed>>
    BY <1>8 DEF Crash, Tick, vars, request, minio
  <2>3. NotYet'
    BY <2>1, <2>2 DEF Seen, NotYet
  <2> QED BY <2>1, <2>2, <2>3, QuietStep DEF Ready, db
<1> QED BY <1>1, <1>2, <1>3, <1>4, <1>5, <1>6, <1>7, <1>8 DEF Next, Idle

\* Whoever calls what in which order and whatever fails, a post lacks its object
\* only after a DeletePost sent the removal of the same key.
THEOREM DanglingExplained == Spec => []DanglingNeedsRemoval
<1>1. Init => TypeOK /\ Ready /\ Seen
  BY ExpiryAssumption, NoneAssumption DEF Init, TypeOK, Ready, Seen, NotYet, Viewers
<1>2. TypeOK /\ Ready /\ Seen => DanglingNeedsRemoval
  BY DEF TypeOK, Seen, DanglingNeedsRemoval, Settled, RemovedKeys, Rows
<1> QED BY <1>1, <1>2, NextReady, NextSeen, PTL DEF Spec

-----------------------------------------------------------------------------------
(* The content length policy.                                                     *)

\* How many bytes may be stored under which key: a key is presigned once, so this only
\* grows.
Allowed == {kb \in Requests \X Nat :
              \/ grant[kb[1]] = "put"
              \/ grant[kb[1]] = "post" /\ (Ranged => kb[2] \in 1..MaxBytes)}

\* A key is presigned by the call it is named after, no content gets further than
\* it is allowed to, and rows record allowed contents.
Policy ==
  /\ \A r \in Requests :
       /\ pc[r] \in {"idle", "init"} => grant[r] = "none"
       /\ pc[r] \in {"upload", "stat"} => grant[key[r]] # "none"
       /\ pc[r] = "uploading" => <<key[r], Size[file[r]]>> \in Allowed
       /\ pc[r] = "insert" => <<key[r], info[r].size>> \in Allowed
  /\ \A k \in Requests : object[k] # None => <<k, Size[object[k]]>> \in Allowed
  /\ \A i \in Requests : rowKey[i] # None => <<rowKey[i], rowInfo[i].size>> \in Allowed

LEMMA AllowedGrows ==
  ASSUME TypeOK, Policy, [Next]_vars
  PROVE  /\ Allowed \subseteq Allowed'
         /\ \A k \in Requests : grant[k] # "none" => grant'[k] # "none"
<1>1. \A k \in Requests : grant[k] # "none" => grant'[k] = grant[k]
  <2>1. ASSUME NEW r \in Requests, InitUpload(r)
        PROVE  \A k \in Requests : grant[k] # "none" => grant'[k] = grant[k]
    BY <2>1 DEF InitUpload, Policy, TypeOK, Set
  <2>2. ASSUME NEW r \in Requests,
               Arrive(r) \/ Unauthorized(r) \/ InitFails(r) \/ StatFails(r) \/ LookupFails(r)
                 \/ UploadRefused(r) \/ Stat(r) \/ Lookup(r) \/ Insert(r) \/ InsertFails(r)
                 \/ Read(r) \/ ReadFails(r)
        PROVE  UNCHANGED grant
    BY <2>2 DEF Arrive, Unauthorized, InitFails, StatFails, LookupFails, UploadRefused,
       Stat, Lookup, Insert, InsertFails, Read, ReadFails, minio
  <2>3. ASSUME NEW r \in Requests,
               Remove(r) \/ RemoveFails(r) \/ Drop(r) \/ DropFails(r) \/ UploadBegins(r)
                 \/ UploadEnds(r) \/ UploadFails(r)
        PROVE  UNCHANGED grant
    BY <2>3 DEF Remove, RemoveFails, Drop, DropFails, UploadBegins, UploadEnds,
       UploadFails, minio
  <2>4. ASSUME Crash \/ Tick \/ UNCHANGED vars PROVE UNCHANGED grant
    BY <2>4 DEF Crash, Tick, vars, minio
  <2> QED BY <2>1, <2>2, <2>3, <2>4 DEF Next, Idle
<1>2. Allowed \subseteq Allowed'
  BY <1>1 DEF Allowed
<1> QED BY <1>1, <1>2

\* A step that stores nothing and inserts nothing keeps Policy when it sends
\* requests only where they may go.
LEMMA HarmlessStep ==
  ASSUME TypeOK, Policy, [Next]_vars, UNCHANGED <<object, rowKey, rowInfo>>,
         \A r \in Requests :
           /\ pc'[r] \in {"idle", "init"} => grant'[r] = "none"
           /\ pc'[r] \in {"upload", "stat"} => grant'[key'[r]] # "none"
           /\ pc'[r] = "uploading" => <<key'[r], Size[file'[r]]>> \in Allowed
           /\ pc'[r] = "insert" => <<key'[r], info'[r].size>> \in Allowed
  PROVE  Policy'
BY AllowedGrows DEF Policy

LEMMA NextPolicy == TypeOK /\ Ready /\ Policy /\ [Next]_vars => Policy'
<1> SUFFICES ASSUME TypeOK, Ready, Policy, [Next]_vars PROVE Policy'
  OBVIOUS
<1> USE DEF Goto, Set, Answer
<1>1. ASSUME NEW r \in Requests, Arrive(r) PROVE Policy'
  <2>1. /\ UNCHANGED <<grant, object, rowKey, rowInfo>>
        /\ pc[r] = "idle"
    BY <1>1 DEF Arrive, minio, db
  <2>2. \/ pc' = [pc EXCEPT ![r] = "init"]
        \/ pc' = [pc EXCEPT ![r] = "lookup"]
        \/ pc' = [pc EXCEPT ![r] = "read"]
        \/ \E k \in Requests : grant[k] # "none" /\ key' = [key EXCEPT ![r] = k]
             /\ (pc' = [pc EXCEPT ![r] = "upload"] \/ pc' = [pc EXCEPT ![r] = "stat"])
    BY <1>1 DEF Arrive, Submit, Init1, Upload1, Create1, Delete1, View1
  <2>3. \A q \in Requests : q # r => key'[q] = key[q] /\ file'[q] = file[q] /\ info'[q] = info[q]
    BY <1>1 DEF Arrive, Submit, Init1, Upload1, Create1, Delete1, View1, TypeOK
  <2>4. /\ pc'[r] \in {"init", "lookup", "read", "upload", "stat"}
        /\ pc'[r] \in {"upload", "stat"} => grant[key'[r]] # "none"
    BY <2>2 DEF TypeOK
  <2>5. \A q \in Requests : q # r => pc'[q] = pc[q]
    BY <2>2 DEF TypeOK
  <2>6. ASSUME NEW q \in Requests
        PROVE  /\ pc'[q] \in {"idle", "init"} => grant'[q] = "none"
               /\ pc'[q] \in {"upload", "stat"} => grant'[key'[q]] # "none"
               /\ pc'[q] = "uploading" => <<key'[q], Size[file'[q]]>> \in Allowed
               /\ pc'[q] = "insert" => <<key'[q], info'[q].size>> \in Allowed
    <3>1. CASE q = r
      BY <2>1, <2>4, <3>1 DEF Policy
    <3>2. CASE q # r
      BY <2>1, <2>3, <2>5, <3>2 DEF Policy
    <3> QED BY <3>1, <3>2
  <2> QED BY <2>1, <2>6, HarmlessStep
<1>2. ASSUME NEW r \in Requests,
             Unauthorized(r) \/ InitFails(r) \/ StatFails(r) \/ LookupFails(r)
               \/ UploadRefused(r) \/ Lookup(r)
      PROVE  Policy'
  <2>1. \/ pc' = [pc EXCEPT ![r] = "done"]
        \/ pc' = [pc EXCEPT ![r] = "remove"]
    BY <1>2 DEF Unauthorized, InitFails, StatFails, LookupFails, UploadRefused, Lookup
  <2>2. UNCHANGED <<file, info, grant, object, rowKey, rowInfo>>
    BY <1>2 DEF Unauthorized, InitFails, StatFails, LookupFails, UploadRefused, Lookup,
       minio, db
  <2>3. \A q \in Requests : q # r => key'[q] = key[q]
    BY <1>2 DEF Unauthorized, InitFails, StatFails, LookupFails, UploadRefused, Lookup, TypeOK
  <2> QED BY <2>1, <2>2, <2>3, HarmlessStep DEF Policy, TypeOK
<1>3. ASSUME NEW r \in Requests, InitUpload(r) PROVE Policy'
  <2>1. PICK m \in {"post", "put"} : grant' = [grant EXCEPT ![r] = m]
    BY <1>3 DEF InitUpload
  <2>2. /\ pc[r] = "init"
        /\ key' = [key EXCEPT ![r] = r]
        /\ pc' = [pc EXCEPT ![r] = "upload"] \/ pc' = [pc EXCEPT ![r] = "done"]
        /\ UNCHANGED <<file, info, object, rowKey, rowInfo>>
    BY <1>3 DEF InitUpload, db
  <2>3. grant'[r] # "none" /\ key'[r] = r /\ pc'[r] \in {"upload", "done"}
    BY <2>1, <2>2 DEF TypeOK
  <2>4. ASSUME NEW q \in Requests, q # r
        PROVE  pc'[q] = pc[q] /\ key'[q] = key[q] /\ grant'[q] = grant[q]
    BY <2>1, <2>2, <2>4 DEF TypeOK
  <2>5. ASSUME NEW q \in Requests
        PROVE  /\ pc'[q] \in {"idle", "init"} => grant'[q] = "none"
               /\ pc'[q] \in {"upload", "stat"} => grant'[key'[q]] # "none"
               /\ pc'[q] = "uploading" => <<key'[q], Size[file'[q]]>> \in Allowed
               /\ pc'[q] = "insert" => <<key'[q], info'[q].size>> \in Allowed
    <3>1. CASE q = r
      BY <2>3, <3>1
    <3>2. CASE q # r
      BY <2>2, <2>4, <3>2, AllowedGrows DEF Policy, Ready
    <3> QED BY <3>1, <3>2
  <2> QED BY <2>2, <2>5, HarmlessStep
<1>4. ASSUME NEW r \in Requests, Stat(r) PROVE Policy'
  <2>1. /\ pc[r] = "stat"
        /\ UNCHANGED <<key, file, grant, object, rowKey, rowInfo>>
    BY <1>4 DEF Stat, minio, db
  <2>2. \/ pc' = [pc EXCEPT ![r] = "done"] /\ info' = info
        \/ /\ object[key[r]] # None
           /\ pc' = [pc EXCEPT ![r] = "insert"]
           /\ info' = [info EXCEPT ![r] = Described[object[key[r]]]]
    BY <1>4 DEF Stat
  <2>3. object[key[r]] # None => <<key[r], Described[object[key[r]]].size>> \in Allowed
    BY <2>1, DescribedIs DEF Policy, Ready, TypeOK
  <2>4. /\ pc'[r] \in {"done", "insert"}
        /\ pc'[r] = "insert" => <<key[r], info'[r].size>> \in Allowed
    BY <2>2, <2>3 DEF TypeOK
  <2>5. \A q \in Requests \ {r} : pc'[q] = pc[q] /\ info'[q] = info[q]
    BY <2>2 DEF TypeOK
  <2> QED BY <2>1, <2>4, <2>5, HarmlessStep DEF Policy
<1>5. ASSUME NEW r \in Requests, Insert(r) \/ InsertFails(r) PROVE Policy'
  <2>1. /\ pc[r] = "insert" /\ pc' = [pc EXCEPT ![r] = "done"]
        /\ UNCHANGED <<key, file, info, grant, object>>
    BY <1>5 DEF Insert, InsertFails, minio
  <2>2. \/ UNCHANGED <<rowKey, rowInfo>>
        \/ /\ rowKey' = [rowKey EXCEPT ![r] = key[r]]
           /\ rowInfo' = [rowInfo EXCEPT ![r] = info[r]]
    BY <1>5 DEF Insert, InsertFails, SqlInsert, db
  <2>3. Allowed' = Allowed
    BY <2>1 DEF Allowed
  <2>4. ASSUME NEW i \in Requests, rowKey'[i] # None
        PROVE  <<rowKey'[i], rowInfo'[i].size>> \in Allowed
    <3>1. CASE rowKey'[i] = rowKey[i] /\ rowInfo'[i] = rowInfo[i]
      BY <2>4, <3>1 DEF Policy
    <3>2. CASE i = r /\ rowKey'[i] = key[r] /\ rowInfo'[i] = info[r]
      BY <2>1, <3>2 DEF Policy
    <3> QED BY <2>2, <3>1, <3>2 DEF TypeOK
  <2>5. \A q \in Requests : pc'[q] \in {pc[q], "done"}
    BY <2>1 DEF TypeOK
  <2> QED BY <2>1, <2>3, <2>4, <2>5 DEF Policy
<1>6. ASSUME NEW r \in Requests, Remove(r) \/ RemoveFails(r) PROVE Policy'
  <2>1. /\ pc' = [pc EXCEPT ![r] = "drop"]
        /\ object' = object \/ object' = [object EXCEPT ![key[r]] = None]
        /\ UNCHANGED <<key, file, info, grant, rowKey, rowInfo>>
    BY <1>6 DEF Remove, RemoveFails, db
  <2>2. Allowed' = Allowed
    BY <2>1 DEF Allowed
  <2> QED BY <2>1, <2>2 DEF Policy, TypeOK
<1>7. ASSUME NEW r \in Requests, Drop(r) \/ DropFails(r) PROVE Policy'
  <2>1. /\ pc' = [pc EXCEPT ![r] = "done"]
        /\ UNCHANGED <<key, file, info, grant, object>>
    BY <1>7 DEF Drop, DropFails, minio
  <2>2. \/ UNCHANGED <<rowKey, rowInfo>>
        \/ /\ rowKey' = [rowKey EXCEPT ![post[r]] = None]
           /\ rowInfo' = [rowInfo EXCEPT ![post[r]] = None]
    BY <1>7 DEF Drop, DropFails, SqlDelete, db
  <2>3. Allowed' = Allowed
    BY <2>1 DEF Allowed
  <2> QED BY <2>1, <2>2, <2>3 DEF Policy, TypeOK
<1>8. ASSUME NEW r \in Requests, UploadBegins(r) PROVE Policy'
  <2>1. /\ pc[r] = "upload" /\ pc' = [pc EXCEPT ![r] = "uploading"]
        /\ UNCHANGED <<key, file, info, grant, object, rowKey, rowInfo>>
    BY <1>8 DEF UploadBegins, minio, db
  <2>2. key[r] \in Requests /\ file[r] \in Files /\ grant[key[r]] \in {"post", "put"}
    <3>1. key[r] \in Requests /\ file[r] \in Files
      BY <2>1 DEF Ready
    <3>2. grant[key[r]] # "none"
      BY <2>1 DEF Policy
    <3> QED BY <3>1, <3>2 DEF TypeOK
  <2>3. <<key[r], Size[file[r]]>> \in Allowed
    BY <1>8, <2>2, DescribedIs DEF UploadBegins, Accepts, Allowed
  <2> QED BY <2>1, <2>3, HarmlessStep DEF Policy, TypeOK
<1>9. ASSUME NEW r \in Requests, UploadEnds(r) \/ UploadFails(r) PROVE Policy'
  <2>1. /\ pc[r] = "uploading"
        /\ pc' = [pc EXCEPT ![r] = "done"] \/ pc' = [pc EXCEPT ![r] = "stat"]
        /\ object' = object \/ object' = [object EXCEPT ![key[r]] = file[r]]
        /\ UNCHANGED <<key, file, info, grant, rowKey, rowInfo>>
    BY <1>9 DEF UploadEnds, UploadFails, db
  <2>2. Allowed' = Allowed
    BY <2>1 DEF Allowed
  <2>3. grant[key[r]] # "none"
    BY <2>1 DEF Policy, Allowed
  <2>4. ASSUME NEW k \in Requests, object'[k] # None
        PROVE  <<k, Size[object'[k]]>> \in Allowed
    <3>1. CASE object'[k] = object[k]
      BY <2>4, <3>1 DEF Policy
    <3>2. CASE k = key[r] /\ object'[k] = file[r]
      BY <2>1, <3>2 DEF Policy
    <3> QED BY <2>1, <3>1, <3>2 DEF TypeOK
  <2>5. \A q \in Requests : pc'[q] = pc[q] \/ (q = r /\ pc'[q] \in {"done", "stat"})
    BY <2>1 DEF TypeOK
  <2> QED BY <2>1, <2>2, <2>3, <2>4, <2>5 DEF Policy
<1>10. ASSUME Crash \/ Tick \/ UNCHANGED vars PROVE Policy'
  <2>1. \A q \in Requests : pc'[q] = pc[q] \/ pc'[q] = "lost"
    BY <1>10 DEF Crash, Tick, vars, request, TypeOK
  <2>2. UNCHANGED <<key, file, info, grant, object, rowKey, rowInfo>>
    BY <1>10 DEF Crash, Tick, vars, request, minio, db
  <2> QED BY <2>1, <2>2, HarmlessStep DEF Policy
<1>11. ASSUME NEW r \in Requests, Read(r) \/ ReadFails(r) PROVE Policy'
  <2>1. /\ pc' = [pc EXCEPT ![r] = "done"]
        /\ UNCHANGED <<file, grant, object, rowKey, rowInfo>>
        /\ \A q \in Requests \ {r} : key'[q] = key[q] /\ info'[q] = info[q]
    BY <1>11 DEF Read, ReadFails, TypeOK, minio, db
  <2> QED BY <2>1, HarmlessStep DEF Policy, TypeOK
<1> QED BY <1>1, <1>2, <1>3, <1>4, <1>5, <1>6, <1>7, <1>8, <1>9, <1>10, <1>11 DEF Next, Idle

\* With a limit of at least one byte the content length range of a presigned POST
\* bounds the size that posts made from its key record, however often and by whomever
\* the key is uploaded.  Without one there is no range, and nothing is claimed.
THEOREM PolicyHolds == Spec => []PolicyEnforced
<1>1. Init => TypeOK /\ Ready /\ Policy
  BY ExpiryAssumption DEF Init, TypeOK, Ready, Policy
<1>2. TypeOK /\ Policy => PolicyEnforced
  BY DEF Policy, Allowed, PolicyEnforced, Rows
<1> QED BY <1>1, <1>2, NextReady, NextPolicy, PTL DEF Spec

-----------------------------------------------------------------------------------
(* When the form of the page is the only source of keys.                          *)

PageOnly == Calls \subseteq {"submit", "delete", "view"}

\* The object of key k is gone, or is one that is described as d.
Matches(k, d) == object[k] = None \/ d = Described[object[k]]

\* A submit works with its own key and a deletion with that of its post; until its
\* row is inserted, what a submit has stored is what it will record.
Own ==
  \A r \in Requests :
    /\ op[r] \in {"none", "submit", "delete", "view"}
    /\ op[r] = "submit" => key[r] \in {None, r}
    /\ op[r] = "delete" => key[r] \in {None, post[r]}
    /\ rowKey[r] \in {None, r}
    /\ pc[r] \in {"idle", "init", "upload", "uploading", "stat", "insert"} => rowKey[r] = None
    /\ pc[r] = "insert" => Matches(r, info[r])
    /\ rowKey[r] # None => Matches(r, rowInfo[r])

LEMMA NextOwn ==
  ASSUME PageOnly
  PROVE  TypeOK /\ Ready /\ Own /\ [Next]_vars => Own'
<1> SUFFICES ASSUME TypeOK, Ready, Own, [Next]_vars PROVE Own'
  OBVIOUS
<1> USE DEF Goto, Set, Answer, Matches
<1>1. ASSUME NEW r \in Requests, Arrive(r) PROVE Own'
  <2>1. PICK o \in {"submit", "delete", "view"} :
          /\ op' = [op EXCEPT ![r] = o]
          /\ \/ o = "submit" /\ \E f \in Files : Submit(r, f)
             \/ o = "delete" /\ \E i \in Requests : Delete1(r, i)
             \/ o = "view" /\ \E i \in Requests : View1(r, i)
    BY <1>1 DEF Arrive, PageOnly
  <2>2. /\ pc[r] = "idle"
        /\ UNCHANGED <<object, rowKey, rowInfo>>
    BY <1>1 DEF Arrive, minio, db
  <2>3. /\ key' = key /\ key[r] = None
        /\ pc'[r] \in {"init", "lookup", "read"}
        /\ \A q \in Requests : q # r =>
             pc'[q] = pc[q] /\ op'[q] = op[q] /\ file'[q] = file[q] /\ info'[q] = info[q] /\ post'[q] = post[q]
    BY <1>1, <2>1, <2>2 DEF Arrive, Submit, Delete1, View1, TypeOK, Ready
  <2>4. op'[r] \in {"submit", "delete", "view"}
    BY <2>1 DEF TypeOK
  <2> QED BY <2>2, <2>3, <2>4 DEF Own
<1>2. ASSUME NEW r \in Requests,
             Unauthorized(r) \/ InitFails(r) \/ StatFails(r) \/ LookupFails(r)
               \/ UploadRefused(r) \/ UploadBegins(r)
      PROVE  Own'
  <2>1. PICK where \in {"done", "uploading"} :
          /\ pc' = [pc EXCEPT ![r] = where]
          /\ where = "uploading" => pc[r] = "upload"
    BY <1>2 DEF Unauthorized, InitFails, StatFails, LookupFails, UploadRefused, UploadBegins
  <2>2. UNCHANGED <<op, key, file, info, post, object, rowKey, rowInfo>>
    BY <1>2 DEF Unauthorized, InitFails, StatFails, LookupFails, UploadRefused,
       UploadBegins, minio, db
  <2> QED BY <2>1, <2>2 DEF Own, TypeOK
<1>3. ASSUME NEW r \in Requests, InitUpload(r) PROVE Own'
  <2>1. /\ pc[r] = "init"
        /\ key' = [key EXCEPT ![r] = r]
        /\ pc' = [pc EXCEPT ![r] = "upload"] \/ pc' = [pc EXCEPT ![r] = "done"]
        /\ UNCHANGED <<op, file, info, post, object, rowKey, rowInfo>>
    BY <1>3 DEF InitUpload, db
  <2>2. op[r] # "delete"
    BY <2>1 DEF Ready
  <2> QED BY <2>1, <2>2 DEF Own, TypeOK
<1>4. ASSUME NEW r \in Requests, Stat(r) PROVE Own'
  <2>1. /\ pc[r] = "stat"
        /\ UNCHANGED <<op, key, post, object, rowKey, rowInfo>>
    BY <1>4 DEF Stat, minio, db
  <2>2. \/ pc' = [pc EXCEPT ![r] = "done"] /\ info' = info
        \/ /\ pc' = [pc EXCEPT ![r] = "insert"]
           /\ info' = [info EXCEPT ![r] = Described[object[key[r]]]]
    BY <1>4 DEF Stat
  <2>3. key[r] = r
    BY <2>1, NoneAssumption DEF Own, Ready
  <2> QED BY <2>1, <2>2, <2>3 DEF Own, TypeOK
<1>5. ASSUME NEW r \in Requests, Insert(r) \/ InsertFails(r) PROVE Own'
  <2>1. /\ pc[r] = "insert" /\ pc' = [pc EXCEPT ![r] = "done"]
        /\ UNCHANGED <<op, key, file, info, post, object>>
    BY <1>5 DEF Insert, InsertFails, minio
  <2>2. \/ UNCHANGED <<rowKey, rowInfo>>
        \/ /\ rowKey' = [rowKey EXCEPT ![r] = key[r]]
           /\ rowInfo' = [rowInfo EXCEPT ![r] = info[r]]
    BY <1>5 DEF Insert, InsertFails, SqlInsert, db
  <2>3. key[r] = r
    BY <2>1, NoneAssumption DEF Own, Ready
  <2> QED BY <2>1, <2>2, <2>3 DEF Own, TypeOK
<1>6. ASSUME NEW r \in Requests, Lookup(r) PROVE Own'
  <2>1. /\ pc[r] = "lookup" /\ op[r] = "delete" /\ post[r] \in Requests
        /\ UNCHANGED <<op, file, info, post, object, rowKey, rowInfo>>
    BY <1>6 DEF Lookup, Ready, minio, db
  <2>2. \/ pc' = [pc EXCEPT ![r] = "done"] /\ key' = key
        \/ /\ pc' = [pc EXCEPT ![r] = "remove"]
           /\ key' = [key EXCEPT ![r] = rowKey[post[r]]]
    BY <1>6 DEF Lookup
  <2> QED BY <2>1, <2>2 DEF Own, TypeOK
<1>7. ASSUME NEW r \in Requests,
             Remove(r) \/ RemoveFails(r) \/ Drop(r) \/ DropFails(r)
      PROVE  Own'
  <2>1. /\ pc' = [pc EXCEPT ![r] = "drop"] \/ pc' = [pc EXCEPT ![r] = "done"]
        /\ UNCHANGED <<op, key, file, info, post>>
    BY <1>7 DEF Remove, RemoveFails, Drop, DropFails
  <2>2. object' = object \/ object' = [object EXCEPT ![key[r]] = None]
    BY <1>7 DEF Remove, RemoveFails, Drop, DropFails, minio
  <2>3. \/ UNCHANGED <<rowKey, rowInfo>>
        \/ /\ rowKey' = [rowKey EXCEPT ![post[r]] = None]
           /\ rowInfo' = [rowInfo EXCEPT ![post[r]] = None]
    BY <1>7 DEF Remove, RemoveFails, Drop, DropFails, SqlDelete, db
  <2>4. \A q \in Requests : object'[q] \in {object[q], None}
    BY <2>2 DEF TypeOK
  <2>5. \A q \in Requests : \/ rowKey'[q] = None
                            \/ rowKey'[q] = rowKey[q] /\ rowInfo'[q] = rowInfo[q]
    BY <2>3 DEF TypeOK
  <2>6. \A q \in Requests : pc'[q] \in {pc[q], "drop", "done"}
    BY <2>1 DEF TypeOK
  <2> QED BY <2>1, <2>4, <2>5, <2>6 DEF Own
<1>8. ASSUME NEW r \in Requests, UploadEnds(r) \/ UploadFails(r) PROVE Own'
  <2>1. /\ pc[r] = "uploading"
        /\ pc' = [pc EXCEPT ![r] = "done"] \/ pc' = [pc EXCEPT ![r] = "stat"]
        /\ object' = object \/ object' = [object EXCEPT ![key[r]] = file[r]]
        /\ UNCHANGED <<op, key, file, info, post, rowKey, rowInfo>>
    BY <1>8 DEF UploadEnds, UploadFails, db
  <2>2. key[r] = r
    BY <2>1, NoneAssumption DEF Own, Ready
  <2> QED BY <2>1, <2>2 DEF Own, TypeOK
<1>9. ASSUME Crash \/ Tick \/ UNCHANGED vars PROVE Own'
  <2>1. \A q \in Requests : pc'[q] = pc[q] \/ pc'[q] = "lost"
    BY <1>9 DEF Crash, Tick, vars, request, TypeOK
  <2>2. UNCHANGED <<op, key, file, info, post, object, rowKey, rowInfo>>
    BY <1>9 DEF Crash, Tick, vars, request, minio, db
  <2> QED BY <2>1, <2>2 DEF Own
<1>10. ASSUME NEW r \in Requests, Read(r) \/ ReadFails(r) PROVE Own'
  <2>1. /\ pc[r] = "read" /\ pc' = [pc EXCEPT ![r] = "done"]
        /\ UNCHANGED <<op, post, object, rowKey, rowInfo>>
        /\ \A q \in Requests \ {r} : key'[q] = key[q] /\ info'[q] = info[q]
    BY <1>10 DEF Read, ReadFails, TypeOK, minio, db
  <2>2. op[r] = "view"
    BY <2>1 DEF Ready
  <2> QED BY <2>1, <2>2 DEF Own, TypeOK
<1> QED BY <1>1, <1>2, <1>3, <1>4, <1>5, <1>6, <1>7, <1>8, <1>9, <1>10 DEF Next, Idle

\* Where a request does not change what is stored under its key any more.
Over == {"read", "lookup", "remove", "drop", "done", "lost"}

\* What is shown is the row that was asked for, made by a form that is over; what a
\* form has stored stays as it is, until it is removed.
Shown ==
  \A v \in Viewers : /\ key[v] = post[v]
                     /\ Matches(key[v], info[v])
                     /\ pc[key[v]] \in Over

\* Who is over stays over, and nobody stores an object under its key.
LEMMA OverStays ==
  ASSUME TypeOK, Ready, Own, [Next]_vars, NEW k \in Requests,
         pc[k] \in Over
  PROVE  /\ pc'[k] \in Over
         /\ object'[k] \in {object[k], None}
<1> USE DEF Goto, Set, Answer
<1>1. ASSUME NEW r \in Requests,
             Arrive(r) \/ Unauthorized(r) \/ InitUpload(r) \/ InitFails(r) \/ Stat(r)
               \/ StatFails(r) \/ Insert(r) \/ InsertFails(r) \/ Read(r) \/ ReadFails(r)
               \/ Lookup(r) \/ LookupFails(r) \/ Drop(r) \/ DropFails(r)
               \/ UploadBegins(r) \/ UploadRefused(r)
      PROVE  object' = object
  BY <1>1 DEF Arrive, Unauthorized, InitUpload, InitFails, Stat, StatFails, Insert,
     InsertFails, Read, ReadFails, Lookup, LookupFails, Drop, DropFails, UploadBegins,
     UploadRefused, minio
<1>2. ASSUME NEW r \in Requests, Remove(r) \/ RemoveFails(r)
      PROVE  object'[k] \in {object[k], None}
  BY <1>2 DEF Remove, RemoveFails, TypeOK
<1>3. ASSUME NEW r \in Requests, UploadEnds(r) \/ UploadFails(r)
      PROVE  object'[k] = object[k]
  <2>1. /\ pc[r] = "uploading"
        /\ object' = object \/ object' = [object EXCEPT ![key[r]] = file[r]]
    BY <1>3 DEF UploadEnds, UploadFails
  <2>2. key[r] = r
    BY <2>1, NoneAssumption DEF Own, Ready
  <2> QED BY <2>1, <2>2 DEF Over, TypeOK
<1>4. ASSUME Crash \/ Tick \/ UNCHANGED vars PROVE object' = object
  BY <1>4 DEF Crash, Tick, vars, minio
<1>5. object'[k] \in {object[k], None}
  BY <1>1, <1>2, <1>3, <1>4 DEF Next, Idle
<1>6. ASSUME NEW r \in Requests,
             Arrive(r) \/ Unauthorized(r) \/ InitUpload(r) \/ InitFails(r) \/ Stat(r)
               \/ StatFails(r) \/ UploadBegins(r) \/ UploadRefused(r) \/ UploadEnds(r)
               \/ UploadFails(r)
      PROVE  pc'[k] \in {pc[k], "done"}
  <2>1. /\ pc[r] \in {"idle", "init", "stat", "upload", "uploading"} \/ pc'[r] = "done"
        /\ \A q \in Requests \ {r} : pc'[q] = pc[q]
    BY <1>6 DEF Arrive, Submit, Init1, Upload1, Create1, Delete1, View1, Unauthorized,
       InitUpload, InitFails, Stat, StatFails, UploadBegins, UploadRefused, UploadEnds,
       UploadFails, TypeOK
  <2> QED BY <2>1 DEF Over
<1>7. ASSUME NEW r \in Requests,
             Insert(r) \/ InsertFails(r) \/ Read(r) \/ ReadFails(r) \/ Lookup(r)
               \/ LookupFails(r) \/ Remove(r) \/ RemoveFails(r) \/ Drop(r) \/ DropFails(r)
      PROVE  pc'[k] \in {pc[k], "done", "remove", "drop"}
  BY <1>7 DEF Insert, InsertFails, Read, ReadFails, Lookup, LookupFails, Remove,
     RemoveFails, Drop, DropFails, TypeOK
<1>8. ASSUME Crash \/ Tick \/ UNCHANGED vars PROVE pc'[k] \in {pc[k], "lost"}
  BY <1>8 DEF Crash, Tick, vars, request, TypeOK
<1>9. pc'[k] \in {pc[k], "remove", "drop", "done", "lost"}
  BY <1>6, <1>7, <1>8 DEF Next, Idle
<1> QED BY <1>5, <1>9 DEF Over

LEMMA NextShown == TypeOK /\ Ready /\ Own /\ Shown /\ [Next]_vars => Shown'
<1> SUFFICES ASSUME TypeOK, Ready, Own, Shown, [Next]_vars, NEW v \in Viewers'
             PROVE  /\ key'[v] = post'[v]
                    /\ Matches(key[v], info[v])'
                    /\ pc'[key'[v]] \in Over
  BY DEF Shown
<1>1. CASE /\ v \in Viewers
           /\ key'[v] = key[v] /\ info'[v] = info[v] /\ post'[v] = post[v]
  <2>1. key[v] \in Requests
    BY <1>1 DEF Viewers, TypeOK
  <2> QED BY <1>1, <2>1, OverStays DEF Shown, Matches
<1>2. CASE /\ post[v] \in Requests /\ rowKey[post[v]] # None
           /\ key'[v] = rowKey[post[v]] /\ info'[v] = rowInfo[post[v]]
           /\ UNCHANGED <<post, object, rowKey>>
           /\ \A q \in Requests : pc[q] # "read" => pc'[q] = pc[q]
  <2>1. rowKey[post[v]] = post[v] /\ Matches(post[v], rowInfo[post[v]])
    BY <1>2 DEF Own
  <2>2. pc[post[v]] \in Over
    BY <1>2 DEF Own, Over, TypeOK, Working, OnServer
  <2> QED BY <1>2, <2>1, <2>2, OverStays DEF Matches
<1> QED BY <1>1, <1>2, NewViewer

\* With the form of the page as the only source of keys, and whatever fails, only
\* the deletion of a post takes its object away, and what a post shows, or has shown
\* to somebody, is the size of the object it refers to, and a video if that is one.
THEOREM PageConsistent ==
  ASSUME PageOnly
  PROVE  Spec => [](DanglingOnlyByDelete /\ MetadataMatches)
<1>1. Init => TypeOK /\ Ready /\ Seen /\ Own /\ Shown
  BY ExpiryAssumption, NoneAssumption
     DEF Init, TypeOK, Ready, Seen, NotYet, Own, Shown, Viewers
<1>2. ASSUME TypeOK, Seen, Own, Shown PROVE DanglingOnlyByDelete
  <2>1. ASSUME NEW i \in Rows, object[rowKey[i]] = None
        PROVE  \E d \in Requests : op[d] = "delete" /\ post[d] = i /\ removed[d]
    BY <1>2, <2>1, NoneAssumption DEF Seen, Own, Settled, RemovedKeys, Rows
  <2>2. ASSUME NEW v \in Viewers, object[key[v]] = None
        PROVE  \E d \in Requests : op[d] = "delete" /\ post[d] = post[v] /\ removed[d]
    BY <1>2, <2>2, NoneAssumption DEF Seen, Own, Shown, Settled, RemovedKeys, Viewers, TypeOK
  <2> QED BY <2>1, <2>2 DEF DanglingOnlyByDelete
<1>3. Own /\ Shown => MetadataMatches
  BY DEF Own, Shown, Matches, MetadataMatches, Rows
<1> QED BY <1>1, <1>2, <1>3, NextReady, NextSeen, NextOwn, NextShown, PTL DEF Spec

\* The same, for the objects alone.
THEOREM DanglingByDelete ==
  ASSUME PageOnly
  PROVE  Spec => []DanglingOnlyByDelete
BY PageConsistent, PTL

-----------------------------------------------------------------------------------
(* What calls leave behind.                                                       *)

\* Request r is the reason why the object of key k may be without a post.
Excuse(r, k) == /\ key[r] = k
                /\ \/ pc[r] \in {"stat", "insert", "lost"}
                   \/ code[r] >= 400
                   \/ removed[r]

\* A call that has failed is over, a row is dropped after its object, and an object
\* has its row or an excuse.
Kept ==
  /\ \A r \in Requests : /\ code[r] >= 400 => pc[r] = "done"
                         /\ pc[r] = "drop" => removed[r]
  /\ \A k \in Requests : object[k] # None =>
       rowKey[k] = k \/ \E r \in Requests : Excuse(r, k)

\* A step that is not about r leaves its excuse as it is; so does one that is, but
\* for the insertion of the row.
LEMMA ExcuseStays ==
  ASSUME TypeOK, Ready, Own, Kept, [Next]_vars,
         NEW r \in Requests, NEW k \in Requests, Excuse(r, k)
  PROVE  Excuse(r, k)' \/ rowKey'[k] = k
<1> USE DEF Excuse, Goto, Set, Answer
<1>1. ASSUME NEW q \in Requests, Arrive(q) PROVE Excuse(r, k)'
  <2>1. /\ pc[q] = "idle" /\ UNCHANGED <<code, removed>>
        /\ \A p \in Requests \ {q} : pc'[p] = pc[p] /\ key'[p] = key[p]
    BY <1>1 DEF Arrive, Submit, Init1, Upload1, Create1, Delete1, View1, TypeOK
  <2>2. q # r
    BY <2>1, NoneAssumption DEF Ready, TypeOK
  <2> QED BY <2>1, <2>2
<1>2. ASSUME NEW q \in Requests,
             Unauthorized(q) \/ InitFails(q) \/ StatFails(q) \/ LookupFails(q)
               \/ UploadRefused(q) \/ UploadFails(q) \/ InsertFails(q) \/ DropFails(q)
      PROVE  Excuse(r, k)'
  <2>1. /\ UNCHANGED <<key, removed>>
        /\ \E c \in {400, 401, 403, 500} : code' = [code EXCEPT ![q] = c]
        /\ \A p \in Requests \ {q} : pc'[p] = pc[p]
    BY <1>2 DEF Unauthorized, InitFails, StatFails, LookupFails, UploadRefused, UploadFails,
                InsertFails, DropFails, TypeOK
  <2> QED BY <2>1 DEF TypeOK
<1>3. ASSUME NEW q \in Requests, UploadBegins(q) \/ InitUpload(q) \/ UploadEnds(q)
      PROVE  Excuse(r, k)'
  <2>1. /\ pc[q] \in {"init", "upload", "uploading"}
        /\ UNCHANGED removed
        /\ \A p \in Requests \ {q} : pc'[p] = pc[p] /\ key'[p] = key[p] /\ code'[p] = code[p]
        /\ key'[q] = key[q] \/ pc[q] = "init"
    BY <1>3 DEF UploadBegins, InitUpload, UploadEnds, TypeOK
  <2>2. CASE q = r
    BY <2>1, <2>2, NoneAssumption DEF Ready, Kept, TypeOK
  <2>3. CASE q # r
    BY <2>1, <2>3
  <2> QED BY <2>2, <2>3
<1>4. ASSUME NEW q \in Requests, Stat(q) PROVE Excuse(r, k)'
  <2>1. /\ UNCHANGED <<key, removed>>
        /\ \A p \in Requests \ {q} : pc'[p] = pc[p] /\ code'[p] = code[p]
        /\ pc'[q] = "insert" \/ code'[q] = 400
    BY <1>4 DEF Stat, TypeOK
  <2> QED BY <2>1
<1>5. ASSUME NEW q \in Requests, Insert(q) PROVE Excuse(r, k)' \/ rowKey'[k] = k
  <2>1. /\ UNCHANGED <<key, removed>> /\ pc[q] = "insert"
        /\ \A p \in Requests \ {q} : pc'[p] = pc[p] /\ code'[p] = code[p]
        /\ rowKey' = [rowKey EXCEPT ![q] = key[q]]
    BY <1>5 DEF Insert, SqlInsert, TypeOK
  <2>2. CASE q = r
    <3>1. key[r] = r
      BY <2>1, <2>2, NoneAssumption DEF Own, Ready
    <3> QED BY <2>1, <2>2, <3>1 DEF TypeOK
  <2>3. CASE q # r
    BY <2>1, <2>3
  <2> QED BY <2>2, <2>3
<1>6. ASSUME NEW q \in Requests, Lookup(q) PROVE Excuse(r, k)'
  <2>1. /\ pc[q] = "lookup" /\ op[q] = "delete" /\ post[q] \in Requests /\ UNCHANGED removed
        /\ \A p \in Requests \ {q} : pc'[p] = pc[p] /\ key'[p] = key[p] /\ code'[p] = code[p]
    BY <1>6 DEF Lookup, Ready, TypeOK
  <2>2. CASE q = r
    <3>1. removed[r] /\ k = post[r]
      BY <2>1, <2>2, NoneAssumption DEF Own, Kept
    <3>2. key'[r] = k
      BY <1>6, <2>1, <2>2, <3>1, NoneAssumption DEF Lookup, Own, TypeOK
    <3> QED BY <2>1, <3>1, <3>2
  <2>3. CASE q # r
    BY <2>1, <2>3
  <2> QED BY <2>2, <2>3
<1>7. ASSUME NEW q \in Requests, Remove(q) \/ RemoveFails(q) PROVE Excuse(r, k)'
  <2>1. /\ UNCHANGED <<key, code>> /\ removed' = [removed EXCEPT ![q] = TRUE]
        /\ pc[q] = "remove"
        /\ \A p \in Requests \ {q} : pc'[p] = pc[p]
    BY <1>7 DEF Remove, RemoveFails, TypeOK
  <2> QED BY <2>1 DEF TypeOK
<1>8. ASSUME NEW q \in Requests, Drop(q) PROVE Excuse(r, k)'
  <2>1. /\ UNCHANGED <<key, removed>> /\ pc[q] = "drop" /\ removed[q]
        /\ \A p \in Requests \ {q} : pc'[p] = pc[p] /\ code'[p] = code[p]
    BY <1>8 DEF Drop, TypeOK, Kept
  <2> QED BY <2>1
<1>9. ASSUME Crash \/ Tick \/ UNCHANGED vars PROVE Excuse(r, k)'
  <2>1. \A q \in Requests : pc'[q] = pc[q] \/ pc'[q] = "lost"
    BY <1>9 DEF Crash, Tick, vars, request, TypeOK
  <2>2. UNCHANGED <<key, code, removed>>
    BY <1>9 DEF Crash, Tick, vars, request
  <2> QED BY <2>1, <2>2
<1>10. ASSUME NEW q \in Requests, Read(q) \/ ReadFails(q) PROVE Excuse(r, k)'
  <2>1. /\ pc[q] = "read" /\ UNCHANGED removed
        /\ \A p \in Requests \ {q} : pc'[p] = pc[p] /\ key'[p] = key[p] /\ code'[p] = code[p]
    BY <1>10 DEF Read, ReadFails, TypeOK
  <2>2. q # r
    BY <2>1, NoneAssumption DEF Ready
  <2> QED BY <2>1, <2>2
<1> QED BY <1>1, <1>2, <1>3, <1>4, <1>5, <1>6, <1>7, <1>8, <1>9, <1>10 DEF Next, Idle

\* An object keeps its row or its excuse while its row is not deleted.
LEMMA KeptStays ==
  ASSUME TypeOK, Ready, Own, Kept, [Next]_vars,
         NEW k \in Requests, object[k] # None, rowKey'[k] \in {rowKey[k], k}
  PROVE  rowKey'[k] = k \/ \E r \in Requests : Excuse(r, k)'
<1>1. CASE rowKey[k] = k
  BY <1>1
<1>2. CASE \E r \in Requests : Excuse(r, k)
  BY <1>2, ExcuseStays
<1> QED BY <1>1, <1>2 DEF Kept

\* Only a call that fails gets a status of 400 or more, and it is over.
LEMMA NextFailed ==
  ASSUME TypeOK, Ready, Kept, [Next]_vars, NEW r \in Requests
  PROVE  /\ code'[r] >= 400 => pc'[r] = "done"
         /\ pc'[r] = "drop" => removed'[r]
<1> USE DEF Goto, Set, Answer
<1>1. ASSUME NEW q \in Requests,
             Unauthorized(q) \/ InitFails(q) \/ StatFails(q) \/ LookupFails(q)
               \/ UploadRefused(q) \/ UploadFails(q) \/ Insert(q) \/ InsertFails(q)
               \/ Drop(q) \/ DropFails(q) \/ Read(q) \/ ReadFails(q)
      PROVE  (code'[r] >= 400 => pc'[r] = "done") /\ (pc'[r] = "drop" => removed'[r])
  <2>1. /\ pc' = [pc EXCEPT ![q] = "done"] /\ UNCHANGED removed
        /\ \A p \in Requests \ {q} : code'[p] = code[p]
    BY <1>1 DEF Unauthorized, InitFails, StatFails, LookupFails, UploadRefused, UploadFails,
                Insert, InsertFails, Drop, DropFails, Read, ReadFails, TypeOK
  <2> QED BY <2>1 DEF TypeOK, Kept
<1>2. ASSUME NEW q \in Requests,
             Arrive(q) \/ UploadBegins(q) \/ InitUpload(q) \/ UploadEnds(q)
               \/ Stat(q) \/ Lookup(q) \/ Remove(q) \/ RemoveFails(q)
      PROVE  (code'[r] >= 400 => pc'[r] = "done") /\ (pc'[r] = "drop" => removed'[r])
  <2>1. /\ pc[q] # "done"
        /\ code'[q] \in {code[q], 200} \/ pc'[q] = "done"
        /\ pc'[q] = "drop" => removed'[q]
        /\ \A p \in Requests \ {q} :
             pc'[p] = pc[p] /\ code'[p] = code[p] /\ removed'[p] = removed[p]
    BY <1>2 DEF Arrive, Submit, Init1, Upload1, Create1, Delete1, View1, UploadBegins, InitUpload,
                UploadEnds, Stat, Lookup, Remove, RemoveFails, TypeOK
  <2> QED BY <2>1 DEF Kept
<1>3. ASSUME Crash \/ Tick \/ UNCHANGED vars
      PROVE  (code'[r] >= 400 => pc'[r] = "done") /\ (pc'[r] = "drop" => removed'[r])
  <2>1. pc'[r] = pc[r] \/ (pc[r] # "done" /\ pc'[r] = "lost")
    BY <1>3 DEF Crash, Tick, OnServer, vars, request, TypeOK
  <2>2. UNCHANGED <<code, removed>>
    BY <1>3 DEF Crash, Tick, vars, request
  <2> QED BY <2>1, <2>2 DEF Kept
<1> QED BY <1>1, <1>2, <1>3 DEF Next, Idle

LEMMA NextKept ==
  ASSUME PageOnly
  PROVE  TypeOK /\ Ready /\ Own /\ Kept /\ [Next]_vars => Kept'
<1> SUFFICES ASSUME TypeOK, Ready, Own, Kept, [Next]_vars PROVE Kept'
  OBVIOUS
<1>1. TypeOK' /\ Ready' /\ Own'
  BY NextReady, NextOwn
<1> SUFFICES ASSUME NEW k \in Requests, object'[k] # None
             PROVE  rowKey'[k] = k \/ \E r \in Requests : Excuse(r, k)'
  BY NextFailed DEF Kept
<1> USE DEF Goto, Set, Answer
<1>2. ASSUME NEW q \in Requests,
             Arrive(q) \/ Unauthorized(q) \/ InitUpload(q) \/ InitFails(q) \/ Stat(q)
               \/ StatFails(q) \/ Lookup(q) \/ LookupFails(q) \/ UploadBegins(q)
               \/ UploadRefused(q) \/ Read(q) \/ ReadFails(q)
      PROVE  UNCHANGED <<object, rowKey>>
  BY <1>2 DEF Arrive, Unauthorized, InitUpload, InitFails, Stat, StatFails, Lookup,
              LookupFails, UploadBegins, UploadRefused, Read, ReadFails, minio, db
<1>3. ASSUME NEW q \in Requests, Insert(q) \/ InsertFails(q)
      PROVE  object' = object /\ rowKey'[k] \in {rowKey[k], k}
  <2>1. /\ pc[q] = "insert" /\ object' = object
        /\ rowKey' = rowKey \/ rowKey' = [rowKey EXCEPT ![q] = key[q]]
    BY <1>3 DEF Insert, InsertFails, SqlInsert, minio, db
  <2>2. key[q] = q
    BY <2>1, NoneAssumption DEF Own, Ready
  <2> QED BY <2>1, <2>2 DEF TypeOK
<1>4. ASSUME NEW q \in Requests, Remove(q) \/ RemoveFails(q)
      PROVE  object[k] # None /\ rowKey' = rowKey
  BY <1>4 DEF Remove, RemoveFails, TypeOK, db
<1>5. ASSUME Crash \/ Tick \/ UNCHANGED vars PROVE UNCHANGED <<object, rowKey>>
  BY <1>5 DEF Crash, Tick, vars, minio, db
<1>6. CASE object[k] # None /\ rowKey'[k] \in {rowKey[k], k}
  BY <1>6, KeptStays
\* A new object: its call goes on to StatObject, or has failed.
<1>7. ASSUME NEW q \in Requests, UploadEnds(q) \/ UploadFails(q)
      PROVE  rowKey'[k] = k \/ \E r \in Requests : Excuse(r, k)'
  <2>1. /\ pc[q] = "uploading" /\ UNCHANGED <<key, rowKey>>
        /\ object' = object \/ object' = [object EXCEPT ![key[q]] = file[q]]
    BY <1>7 DEF UploadEnds, UploadFails, db
  <2>2. CASE k # key[q] \/ object' = object
    BY <2>1, <2>2, <1>6 DEF TypeOK
  <2>3. CASE k = key[q]
    <3>1. op[q] = "submit"
      BY <2>1 DEF Own, Ready
    <3>2. pc'[q] = "stat" \/ code'[q] = 500
      BY <1>7, <3>1 DEF UploadEnds, UploadFails, TypeOK
    <3> QED BY <2>1, <2>3, <3>2 DEF Excuse
  <2> QED BY <2>2, <2>3
\* A row that is gone: its deletion has tried to remove the object.
<1>8. ASSUME NEW q \in Requests, Drop(q) \/ DropFails(q)
      PROVE  rowKey'[k] = k \/ \E r \in Requests : Excuse(r, k)'
  <2>1. /\ pc[q] = "drop" /\ UNCHANGED <<key, object, removed>>
        /\ rowKey' = rowKey \/ rowKey' = [rowKey EXCEPT ![post[q]] = None]
    BY <1>8 DEF Drop, DropFails, SqlDelete, minio, db
  <2>2. removed[q] /\ key[q] = post[q]
    BY <2>1, NoneAssumption DEF Kept, Own, Ready
  <2>3. CASE k = post[q]
    BY <2>1, <2>2, <2>3 DEF Excuse
  <2>4. CASE k # post[q]
    BY <2>1, <2>4, <1>6 DEF TypeOK
  <2> QED BY <2>3, <2>4
<1> QED BY <1>2, <1>3, <1>4, <1>5, <1>6, <1>7, <1>8 DEF Next, Idle

\* With the form of the page as the only source of keys, an object without a post
\* has a form that is about to create it, or a call on its key that failed, died
\* with the server or tried a removal.
THEOREM OrphansExplained ==
  ASSUME PageOnly
  PROVE  Spec => []OrphanNeedsFailure
<1>1. Init => TypeOK /\ Ready /\ Own /\ Kept
  BY ExpiryAssumption, NoneAssumption DEF Init, TypeOK, Ready, Own, Kept
<1>2. TypeOK /\ Kept => OrphanNeedsFailure
  BY NoneAssumption DEF TypeOK, Kept, Excuse, OrphanNeedsFailure, Rows
<1> QED BY <1>1, <1>2, NextReady, NextOwn, NextKept, PTL DEF Spec

-----------------------------------------------------------------------------------
(* The life of a post.                                                            *)

\* An answer that ends a call is its last; a form creates its post for the object it
\* has stored, which is the first under its key; a deletion that knows a key has it
\* from the post of a form that is over.
Lives ==
  /\ \A r \in Requests :
       /\ code[r] \in {201, 204} => pc[r] = "done"
       /\ pc[r] = "insert" => object[r] # None /\ info[r] = Described[object[r]]
       /\ pc[r] \in {"idle", "init", "upload", "uploading"} => object[r] = None
       /\ rowKey[r] = None <=> rowInfo[r] = None
  /\ \A d \in Requests : op[d] = "delete" =>
       /\ removed[d] => key[d] = post[d]
       /\ key[d] # None => pc[key[d]] \in Over

\* No deletion works on the key of a form that is not over.
LEMMA NotLookedUp ==
  ASSUME TypeOK, Ready, Own, Lives, NEW i \in Requests, pc[i] \notin Over
  PROVE  ~LookedUp(i) /\ ~Removing(i)
BY NoneAssumption DEF LookedUp, Removing, Lives, Own, Ready

LEMMA NextLives ==
  ASSUME PageOnly
  PROVE  TypeOK /\ Ready /\ Own /\ Kept /\ Lives /\ [Next]_vars => Lives'
<1> SUFFICES ASSUME TypeOK, Ready, Own, Kept, Lives, [Next]_vars PROVE Lives'
  OBVIOUS
<1> USE DEF Goto, Set, Answer
<1>1. \A k \in Requests : pc[k] \in Over => pc'[k] \in Over
  BY OverStays
<1>2. ASSUME NEW r \in Requests, Arrive(r) PROVE Lives'
  <2>1. /\ pc[r] = "idle" /\ pc'[r] \in {"init", "lookup", "read"}
        /\ key' = key /\ UNCHANGED <<code, object, rowKey, rowInfo, removed>>
        /\ \A q \in Requests \ {r} :
             /\ pc'[q] = pc[q] /\ op'[q] = op[q]
             /\ info'[q] = info[q] /\ post'[q] = post[q]
    <3>1. PICK o \in {"submit", "delete", "view"} :
            /\ op' = [op EXCEPT ![r] = o]
            /\ \/ o = "submit" /\ \E f \in Files : Submit(r, f)
               \/ o = "delete" /\ \E i \in Requests : Delete1(r, i)
               \/ o = "view" /\ \E i \in Requests : View1(r, i)
      BY <1>2 DEF Arrive, PageOnly
    <3> QED BY <1>2, <3>1 DEF Arrive, Submit, Delete1, View1, TypeOK, minio, db
  <2>2. ~removed[r] /\ key[r] = None
    BY <2>1 DEF Ready
  <2> QED BY <1>1, <2>1, <2>2 DEF Lives, TypeOK
<1>3. ASSUME NEW r \in Requests,
             Unauthorized(r) \/ InitFails(r) \/ StatFails(r) \/ LookupFails(r)
               \/ UploadRefused(r) \/ ReadFails(r)
      PROVE  Lives'
  <2>1. /\ UNCHANGED <<op, key, file, info, post, object, rowKey, rowInfo, removed>>
        /\ pc' = [pc EXCEPT ![r] = "done"]
        /\ \E c \in {200, 400, 401, 403, 500} : code' = [code EXCEPT ![r] = c]
    BY <1>3 DEF Unauthorized, InitFails, StatFails, LookupFails, UploadRefused, ReadFails,
                minio, db
  <2> QED BY <1>1, <2>1 DEF Lives, TypeOK
<1>4. ASSUME NEW r \in Requests, InitUpload(r) \/ UploadBegins(r) PROVE Lives'
  <2>1. /\ UNCHANGED <<op, file, info, post, object, rowKey, rowInfo, removed>>
        /\ pc[r] \in {"init", "upload"} /\ pc'[r] \in {"upload", "uploading", "done"}
        /\ code'[r] \in {code[r], 200}
        /\ \A q \in Requests \ {r} : pc'[q] = pc[q] /\ key'[q] = key[q] /\ code'[q] = code[q]
    BY <1>4 DEF InitUpload, UploadBegins, TypeOK, minio, db
  <2>2. op[r] # "delete"
    BY <2>1 DEF Ready
  <2> QED BY <1>1, <2>1, <2>2 DEF Lives, TypeOK
<1>5. ASSUME NEW r \in Requests, Stat(r) PROVE Lives'
  <2>1. /\ UNCHANGED <<op, key, post, object, rowKey, rowInfo, removed>>
        /\ pc[r] = "stat" /\ code'[r] \in {code[r], 400}
        /\ pc'[r] = "done" \/ (pc'[r] = "insert" /\ object[key[r]] # None /\ info'[r] = Described[object[key[r]]])
        /\ \A q \in Requests \ {r} : pc'[q] = pc[q] /\ info'[q] = info[q] /\ code'[q] = code[q]
    BY <1>5 DEF Stat, TypeOK, minio, db
  <2>2. key[r] = r
    BY <2>1, NoneAssumption DEF Own, Ready
  <2> QED BY <1>1, <2>1, <2>2 DEF Lives, TypeOK
<1>6. ASSUME NEW r \in Requests, UploadEnds(r) \/ UploadFails(r) PROVE Lives'
  <2>1. /\ UNCHANGED <<op, key, file, info, post, rowKey, rowInfo, removed>>
        /\ pc[r] = "uploading" /\ pc'[r] \in {"stat", "done"} /\ code'[r] \in {200, 500}
        /\ object' = object \/ object' = [object EXCEPT ![key[r]] = file[r]]
        /\ \A q \in Requests \ {r} : pc'[q] = pc[q] /\ code'[q] = code[q]
    BY <1>6 DEF UploadEnds, UploadFails, TypeOK, db
  <2>2. key[r] = r
    BY <2>1, NoneAssumption DEF Own, Ready
  <2>3. \A q \in Requests \ {r} : object'[q] = object[q]
    BY <2>1, <2>2 DEF TypeOK
  <2> QED BY <1>1, <2>1, <2>3 DEF Lives, TypeOK
<1>7. ASSUME NEW r \in Requests, Insert(r) \/ InsertFails(r) PROVE Lives'
  <2>1. /\ UNCHANGED <<op, key, file, info, post, object, removed>>
        /\ pc[r] = "insert" /\ pc' = [pc EXCEPT ![r] = "done"]
        /\ \A q \in Requests \ {r} : code'[q] = code[q]
        /\ \/ UNCHANGED <<rowKey, rowInfo>>
           \/ /\ rowKey' = [rowKey EXCEPT ![r] = key[r]]
              /\ rowInfo' = [rowInfo EXCEPT ![r] = info[r]]
    BY <1>7 DEF Insert, InsertFails, SqlInsert, TypeOK, minio, db
  <2>2. key[r] = r /\ info[r] \in Descriptions
    BY <2>1, NoneAssumption DEF Own, Ready
  <2>3. \A q \in Requests : rowKey'[q] = None <=> rowInfo'[q] = None
    BY <2>1, <2>2, NoneAssumption DEF Lives, TypeOK
  <2> QED BY <1>1, <2>1, <2>3 DEF Lives, TypeOK
<1>8. ASSUME NEW r \in Requests, Read(r) PROVE Lives'
  <2>1. /\ UNCHANGED <<op, post, object, rowKey, rowInfo, removed>>
        /\ pc[r] = "read" /\ pc' = [pc EXCEPT ![r] = "done"]
        /\ \A q \in Requests \ {r} : key'[q] = key[q] /\ info'[q] = info[q] /\ code'[q] = code[q]
    BY <1>8 DEF Read, TypeOK, minio, db
  <2>2. op[r] = "view"
    BY <2>1 DEF Ready
  <2> QED BY <1>1, <2>1, <2>2 DEF Lives, TypeOK
<1>9. ASSUME NEW r \in Requests, Lookup(r) PROVE Lives'
  <2>1. /\ UNCHANGED <<op, file, info, post, object, rowKey, rowInfo, removed>>
        /\ pc[r] = "lookup" /\ pc'[r] \in {"remove", "done"}
        /\ code'[r] \in {code[r], 404}
        /\ \A q \in Requests \ {r} : pc'[q] = pc[q] /\ key'[q] = key[q] /\ code'[q] = code[q]
        /\ key'[r] = key[r] \/ (rowKey[post[r]] # None /\ key'[r] = rowKey[post[r]])
    BY <1>9 DEF Lookup, TypeOK, minio, db
  <2>2. post[r] \in Requests /\ rowKey[post[r]] \in {None, post[r]}
    BY <2>1 DEF Ready, Own
  <2>3. rowKey[post[r]] # None => pc[post[r]] \in Over
    BY <2>2 DEF Own, Over, TypeOK, Working, OnServer
  <2> QED BY <1>1, <2>1, <2>2, <2>3 DEF Lives, TypeOK
<1>10. ASSUME NEW r \in Requests, Remove(r) \/ RemoveFails(r) PROVE Lives'
  <2>1. /\ UNCHANGED <<op, key, file, info, post, code, rowKey, rowInfo>>
        /\ pc[r] = "remove" /\ pc' = [pc EXCEPT ![r] = "drop"]
        /\ removed' = [removed EXCEPT ![r] = TRUE]
        /\ object' = object \/ object' = [object EXCEPT ![key[r]] = None]
    BY <1>10 DEF Remove, RemoveFails, db
  <2>2. op[r] = "delete" /\ key[r] = post[r] /\ key[r] \in Requests
    BY <2>1, NoneAssumption DEF Own, Ready
  <2>3. pc[key[r]] \in Over
    BY <2>2, NoneAssumption DEF Lives
  <2>4. \A q \in Requests : object'[q] \in {object[q], None} /\ (pc[q] \notin Over => object'[q] = object[q])
    BY <2>1, <2>3 DEF TypeOK
  <2> QED BY <1>1, <2>1, <2>2, <2>4 DEF Lives, TypeOK, Over
<1>11. ASSUME NEW r \in Requests, Drop(r) \/ DropFails(r) PROVE Lives'
  <2>1. /\ UNCHANGED <<op, key, file, info, post, object, removed>>
        /\ pc' = [pc EXCEPT ![r] = "done"]
        /\ \A q \in Requests \ {r} : code'[q] = code[q]
        /\ \/ UNCHANGED <<rowKey, rowInfo>>
           \/ /\ rowKey' = [rowKey EXCEPT ![post[r]] = None]
              /\ rowInfo' = [rowInfo EXCEPT ![post[r]] = None]
    BY <1>11 DEF Drop, DropFails, SqlDelete, TypeOK, minio, db
  <2>2. \A q \in Requests : rowKey'[q] = None <=> rowInfo'[q] = None
    BY <2>1 DEF Lives, TypeOK
  <2> QED BY <1>1, <2>1, <2>2 DEF Lives, TypeOK
<1>12. ASSUME Crash \/ Tick \/ UNCHANGED vars PROVE Lives'
  <2>1. UNCHANGED <<op, key, file, info, post, code, object, rowKey, rowInfo, removed>>
    BY <1>12 DEF Crash, Tick, vars, request, minio, db
  <2>2. \A q \in Requests : pc'[q] = pc[q] \/ (pc'[q] = "lost" /\ pc[q] # "done")
    BY <1>12 DEF Crash, Tick, vars, request, TypeOK, OnServer
  <2> QED BY <1>1, <2>1, <2>2 DEF Lives, TypeOK
<1> QED BY <1>2, <1>3, <1>4, <1>5, <1>6, <1>7, <1>8, <1>9, <1>10, <1>11, <1>12 DEF Next, Idle

\* A request that is at work has been told nothing; if nobody else's answer changes,
\* only it can be told something now.
LEMMA OneIsTold ==
  ASSUME TypeOK, Ready, Kept, Lives, NEW r \in Requests, pc[r] \in Working \union {"idle"},
         \A q \in Requests \ {r} : /\ op'[q] = op[q] /\ key'[q] = key[q]
                                   /\ info'[q] = info[q] /\ code'[q] = code[q]
  PROVE  told[r] = <<>> /\ told' = [told EXCEPT ![r] = told'[r]]
<1>1. code[r] \notin {201, 204, 404}
  BY DEF Kept, Lives, Working, OnServer
<1>2. op[r] = "view" => key[r] = None
  BY DEF Ready, Working, OnServer
<1>3. told[r] = <<>>
  BY <1>1, <1>2 DEF told
<1>4. \A q \in Requests \ {r} : told'[q] = told[q]
  BY DEF told
<1>5. /\ DOMAIN told = Requests /\ told = [q \in DOMAIN told |-> told[q]]
      /\ DOMAIN told' = Requests /\ told' = [q \in DOMAIN told' |-> told'[q]]
  BY DEF told
<1> QED BY <1>3, <1>4, <1>5

\* No post goes on in its life unless its row, its object or a deletion changes.
LEMMA SameStage ==
  ASSUME UNCHANGED <<object, rowKey>>,
         \A d \in Requests : \/ /\ op'[d] = op[d] /\ post'[d] = post[d]
                                /\ key'[d] = key[d] /\ removed'[d] = removed[d]
                             \/ op[d] # "delete" /\ op'[d] # "delete"
                             \/ /\ op[d] # "delete"
                                /\ key'[d] \notin Requests /\ ~removed'[d]
  PROVE  stage' = stage
<1>1. ASSUME NEW i \in Requests
      PROVE  (Removing(i) <=> Removing(i)') /\ (LookedUp(i) <=> LookedUp(i)')
  BY DEF Removing, LookedUp
<1> QED BY <1>1 DEF stage

\* Calls of the page, step by step: those that change neither store and answer neither
\* of a post nor of its absence.
LEMMA QuietForPosts ==
  ASSUME PageOnly, TypeOK, Ready, Own, Kept, Lives, NEW r \in Requests,
         \/ Arrive(r) \/ Unauthorized(r) \/ InitUpload(r) \/ InitFails(r) \/ Stat(r)
         \/ StatFails(r) \/ LookupFails(r) \/ UploadBegins(r) \/ UploadRefused(r)
         \/ ReadFails(r)
  PROVE  UNCHANGED <<stage, object, rowInfo, told>>
<1> USE DEF Goto, Set, Answer
<1>1. UNCHANGED <<object, rowKey, rowInfo>>
  BY DEF Arrive, Unauthorized, InitUpload, InitFails, Stat, StatFails, LookupFails,
         UploadBegins, UploadRefused, ReadFails, minio, db
<1>2. /\ pc[r] \in Working \union {"idle"}
      /\ code'[r] \notin {201, 204, 404}
      /\ op'[r] = "view" => key'[r] = None
      /\ \A q \in Requests \ {r} : /\ op'[q] = op[q] /\ key'[q] = key[q] /\ post'[q] = post[q]
                                   /\ info'[q] = info[q] /\ code'[q] = code[q]
      /\ removed' = removed
      /\ \/ op'[r] = op[r] /\ post'[r] = post[r] /\ key'[r] = key[r]
         \/ op[r] # "delete" /\ op'[r] # "delete"
         \/ op[r] # "delete" /\ key'[r] = None /\ ~removed[r]
  <2>1. CASE Arrive(r)
    <3>1. PICK o \in {"submit", "delete", "view"} :
            /\ op' = [op EXCEPT ![r] = o]
            /\ \/ o = "submit" /\ \E f \in Files : Submit(r, f)
               \/ o = "delete" /\ \E i \in Requests : Delete1(r, i)
               \/ o = "view" /\ \E i \in Requests : View1(r, i)
      BY <2>1 DEF Arrive, PageOnly
    <3>2. pc[r] = "idle" /\ UNCHANGED <<code, removed>> /\ key' = key
      BY <2>1, <3>1 DEF Arrive, Submit, Delete1, View1
    <3>3. op[r] = "none" /\ key[r] = None /\ ~removed[r]
      BY <3>2 DEF Ready
    <3>4. code[r] \notin {201, 204, 404}
      BY <3>2 DEF Kept, Lives
    <3>5. \A q \in Requests \ {r} : post'[q] = post[q] /\ info'[q] = info[q]
      BY <2>1, <3>1 DEF Arrive, Submit, Delete1, View1, TypeOK
    <3> QED BY <3>1, <3>2, <3>3, <3>4, <3>5 DEF TypeOK
  <2>2. CASE InitUpload(r)
    <3>1. op[r] = "submit"
      BY <2>2 DEF InitUpload, Ready, Own
    <3> QED BY <2>2, <3>1 DEF InitUpload, TypeOK, Working, OnServer, db
  <2>3. CASE Stat(r)
    <3>1. pc[r] = "stat" /\ code[r] \notin {201, 204, 404} /\ op[r] = "submit"
      BY <2>3 DEF Stat, Kept, Lives, Ready, Own
    <3> QED BY <2>3, <3>1 DEF Stat, TypeOK, Working, OnServer
  <2>4. CASE UploadBegins(r)
    <3>1. pc[r] = "upload" /\ code[r] \notin {201, 204, 404} /\ op[r] = "submit"
      BY <2>4 DEF UploadBegins, Kept, Lives, Ready, Own
    <3> QED BY <2>4, <3>1 DEF UploadBegins, TypeOK, Working, OnServer
  <2>5. CASE Unauthorized(r) \/ InitFails(r) \/ StatFails(r) \/ LookupFails(r)
               \/ UploadRefused(r) \/ ReadFails(r)
    <3>1. /\ UNCHANGED <<op, key, file, info, post, removed>>
          /\ pc[r] \in {"init", "stat", "lookup", "upload", "read"}
          /\ \E c \in {200, 400, 401, 403, 500} : code' = [code EXCEPT ![r] = c]
      BY <2>5 DEF Unauthorized, InitFails, StatFails, LookupFails, UploadRefused, ReadFails
    <3> QED BY <3>1 DEF TypeOK, Working, OnServer, Ready
  <2> QED BY <2>1, <2>2, <2>3, <2>4, <2>5
<1>3. stage' = stage
  BY <1>1, <1>2, NoneAssumption, SameStage
<1>4. told[r] = <<>> /\ told' = [told EXCEPT ![r] = told'[r]]
  BY <1>2, OneIsTold
<1>5. told'[r] = <<>>
  BY <1>2 DEF told
<1>6. told' = told
  <2>1. told = [q \in DOMAIN told |-> told[q]]
    BY DEF told
  <2> QED BY <1>4, <1>5, <2>1
<1> QED BY <1>1, <1>3, <1>6

\* The object of a form appears once, while the form is before its post.
LEMMA UploadIsStep ==
  ASSUME PageOnly, TypeOK, Ready, Own, Kept, Lives, NEW r \in Requests,
         UploadEnds(r) \/ UploadFails(r)
  PROVE  PS!Upload(r) \/ UNCHANGED <<stage, object, rowInfo, told>>
<1> USE DEF Goto, Set, Answer
<1>1. /\ UNCHANGED <<op, key, file, info, post, rowKey, rowInfo, removed>>
      /\ pc[r] = "uploading" /\ \E c \in {200, 500} : code' = [code EXCEPT ![r] = c]
      /\ object' = object \/ object' = [object EXCEPT ![key[r]] = file[r]]
  BY DEF UploadEnds, UploadFails, db
<1>2. key[r] = r /\ op[r] = "submit" /\ file[r] \in Files /\ object[r] = None /\ rowKey[r] = None
  BY <1>1, NoneAssumption DEF Own, Ready, Lives
<1>3. told[r] = <<>> /\ told' = [told EXCEPT ![r] = told'[r]]
  BY <1>1, OneIsTold DEF TypeOK, Working
<1>4. told'[r] = <<>>
  BY <1>1, <1>2 DEF told, TypeOK
<1>5. told' = told
  <2>1. told = [q \in DOMAIN told |-> told[q]]
    BY DEF told
  <2> QED BY <1>3, <1>4, <2>1
<1>6. CASE object' = object
  BY <1>1, <1>5, <1>6, SameStage
<1>7. CASE object' = [object EXCEPT ![r] = file[r]]
  <2>1. ~LookedUp(r) /\ ~Removing(r)
    BY <1>1, NotLookedUp DEF Over
  <2>2. stage[r] = "new"
    BY <1>2, <2>1 DEF stage
  <2>3. stage' = [stage EXCEPT ![r] = "stored"]
    <3>1. \A i \in Requests : (Removing(i)' <=> Removing(i)) /\ (LookedUp(i)' <=> LookedUp(i))
      BY <1>1 DEF Removing, LookedUp
    <3>2. \A i \in Requests \ {r} : object'[i] = object[i]
      BY <1>7 DEF TypeOK
    <3>3. object'[r] # None
      BY <1>2, <1>7, NoneAssumption DEF TypeOK
    <3>4. stage'[r] = "stored"
      BY <1>1, <1>2, <2>1, <3>1, <3>3 DEF stage
    <3>5. \A i \in Requests \ {r} : stage'[i] = stage[i]
      BY <1>1, <3>1, <3>2 DEF stage
    <3>6. /\ DOMAIN stage = Requests
          /\ DOMAIN stage' = Requests /\ stage' = [i \in DOMAIN stage' |-> stage'[i]]
      BY DEF stage
    <3> QED BY <3>4, <3>5, <3>6
  <2> QED BY <1>1, <1>2, <1>5, <1>7, <2>2, <2>3 DEF PS!Upload, PS!Becomes
<1> QED BY <1>1, <1>2, <1>6, <1>7

\* The row of a form appears once, for the object the form has stored.
LEMMA InsertIsStep ==
  ASSUME PageOnly, TypeOK, Ready, Own, Kept, Lives, NEW r \in Requests,
         Insert(r) \/ InsertFails(r)
  PROVE  PS!Post(r) \/ UNCHANGED <<stage, object, rowInfo, told>>
<1> USE DEF Goto, Set, Answer
<1>1. /\ UNCHANGED <<op, key, file, info, post, object, removed>> /\ pc[r] = "insert"
      /\ \/ /\ rowKey' = [rowKey EXCEPT ![r] = key[r]]
            /\ rowInfo' = [rowInfo EXCEPT ![r] = info[r]]
            /\ \E c \in {201, 500} : code' = [code EXCEPT ![r] = c]
         \/ UNCHANGED <<rowKey, rowInfo>> /\ code' = [code EXCEPT ![r] = 500]
  BY DEF Insert, InsertFails, SqlInsert, minio, db
<1>2. /\ key[r] = r /\ op[r] = "submit" /\ info[r] \in Descriptions
      /\ object[r] # None /\ info[r] = Described[object[r]]
      /\ rowKey[r] = None
  BY <1>1, NoneAssumption DEF Own, Ready, Lives
<1>3. told[r] = <<>> /\ told' = [told EXCEPT ![r] = told'[r]]
  BY <1>1, OneIsTold DEF TypeOK, Working, OnServer
<1>4. told'[r] \in {<<>>, <<"posted">>} /\ (code'[r] = 500 => told'[r] = <<>>)
  BY <1>1, <1>2 DEF told, TypeOK
<1>5. told'[r] = <<>> => told' = told
  <2>1. told = [q \in DOMAIN told |-> told[q]]
    BY DEF told
  <2> QED BY <1>3, <2>1
<1>6. CASE UNCHANGED <<rowKey, rowInfo>> /\ code' = [code EXCEPT ![r] = 500]
  <2>1. stage' = stage
    BY <1>1, <1>6, SameStage
  <2> QED BY <1>1, <1>4, <1>5, <1>6, <2>1 DEF TypeOK
<1>7. CASE /\ rowKey' = [rowKey EXCEPT ![r] = r]
           /\ rowInfo' = [rowInfo EXCEPT ![r] = Described[object[r]]]
  <2>1. ~LookedUp(r) /\ ~Removing(r)
    BY <1>1, NotLookedUp DEF Over
  <2>2. stage[r] = "stored" /\ object[r] # None
    BY <1>2, <2>1, NoneAssumption DEF stage
  <2>3. stage' = [stage EXCEPT ![r] = "posted"]
    <3>1. \A i \in Requests : (Removing(i)' <=> Removing(i)) /\ (LookedUp(i)' <=> LookedUp(i))
      BY <1>1 DEF Removing, LookedUp
    <3>2. \A i \in Requests \ {r} : rowKey'[i] = rowKey[i]
      BY <1>7 DEF TypeOK
    <3>3. rowKey'[r] # None
      BY <1>7, NoneAssumption DEF TypeOK
    <3>4. stage'[r] = "posted"
      BY <1>1, <2>1, <3>1, <3>3 DEF stage
    <3>5. \A i \in Requests \ {r} : stage'[i] = stage[i]
      BY <1>1, <3>1, <3>2 DEF stage
    <3>6. /\ DOMAIN stage = Requests
          /\ DOMAIN stage' = Requests /\ stage' = [i \in DOMAIN stage' |-> stage'[i]]
      BY DEF stage
    <3> QED BY <3>4, <3>5, <3>6
  <2>4. PS!MayTell(<<"posted">>)
    BY <1>3, <1>4, <1>5 DEF PS!MayTell, PS!Tell
  <2> QED BY <1>1, <1>7, <2>2, <2>3, <2>4 DEF PS!Post, PS!Becomes
<1> QED BY <1>1, <1>2, <1>6, <1>7

\* An object is removed for a post that exists or existed.
LEMMA RemoveIsStep ==
  ASSUME PageOnly, TypeOK, Ready, Own, Kept, Lives, NEW r \in Requests,
         Remove(r) \/ RemoveFails(r)
  PROVE  PS!Remove(post[r])
<1> USE DEF Goto, Set
<1> DEFINE i == post[r]
<1>1. /\ UNCHANGED <<op, key, file, info, post, code, rowKey, rowInfo>> /\ pc[r] = "remove"
      /\ object' = object \/ object' = [object EXCEPT ![key[r]] = None]
      /\ removed' = [removed EXCEPT ![r] = TRUE]
  BY DEF Remove, RemoveFails, db
<1>2. key[r] = i /\ i \in Requests /\ op[r] = "delete"
  BY <1>1, NoneAssumption DEF Own, Ready
<1>3. LookedUp(i)
  BY <1>2 DEF LookedUp
<1>4. stage[i] \in {"posted", "removing"}
  BY <1>2, <1>3 DEF stage
<1>5. stage' = [stage EXCEPT ![i] = "removing"]
  <2>1. Removing(i)'
    BY <1>1, <1>2 DEF Removing, TypeOK
  <2>2. \A j \in Requests \ {i} : /\ (Removing(j)' <=> Removing(j)) /\ (LookedUp(j)' <=> LookedUp(j))
                                  /\ object'[j] = object[j]
    BY <1>1, <1>2 DEF Removing, LookedUp, TypeOK
  <2> QED BY <1>1, <1>2, <2>1, <2>2 DEF stage
<1>6. told' = told
  BY <1>1 DEF told
<1> QED BY <1>1, <1>2, <1>4, <1>5, <1>6 DEF PS!Remove, PS!Becomes

\* A row is dropped after its object.
LEMMA DropIsStep ==
  ASSUME PageOnly, TypeOK, Ready, Own, Kept, Lives, NEW r \in Requests,
         Drop(r) \/ DropFails(r)
  PROVE  PS!Drop(post[r]) \/ UNCHANGED <<stage, object, rowInfo, told>>
<1> USE DEF Goto, Set, Answer
<1> DEFINE i == post[r]
<1>1. /\ UNCHANGED <<op, key, file, info, post, object, removed>> /\ pc[r] = "drop"
      /\ \/ /\ rowKey' = [rowKey EXCEPT ![i] = None]
            /\ rowInfo' = [rowInfo EXCEPT ![i] = None]
            /\ \E c \in {204, 500} : code' = [code EXCEPT ![r] = c]
         \/ UNCHANGED <<rowKey, rowInfo>> /\ code' = [code EXCEPT ![r] = 500]
  BY DEF Drop, DropFails, SqlDelete, minio, db
<1>2. key[r] = i /\ i \in Requests /\ op[r] = "delete" /\ removed[r]
  BY <1>1, NoneAssumption DEF Own, Ready, Kept
<1>3. told[r] = <<>> /\ told' = [told EXCEPT ![r] = told'[r]]
  BY <1>1, OneIsTold DEF TypeOK, Working, OnServer
<1>4. told'[r] \in {<<>>, <<"deleted">>} /\ (code'[r] = 500 => told'[r] = <<>>)
  BY <1>1, <1>2 DEF told, TypeOK
<1>5. told'[r] = <<>> => told' = told
  <2>1. told = [q \in DOMAIN told |-> told[q]]
    BY DEF told
  <2> QED BY <1>3, <2>1
<1>6. CASE UNCHANGED <<rowKey, rowInfo>> /\ code' = [code EXCEPT ![r] = 500]
  <2>1. stage' = stage
    BY <1>1, <1>6, SameStage
  <2> QED BY <1>1, <1>4, <1>5, <1>6, <2>1 DEF TypeOK
<1>7. CASE /\ rowKey' = [rowKey EXCEPT ![i] = None]
           /\ rowInfo' = [rowInfo EXCEPT ![i] = None]
  <2>1. Removing(i) /\ stage[i] = "removing"
    BY <1>2 DEF stage, Removing
  <2>2. stage' = stage
    <3>1. \A j \in Requests : (Removing(j)' <=> Removing(j)) /\ (LookedUp(j)' <=> LookedUp(j))
      BY <1>1 DEF Removing, LookedUp
    <3>2. \A j \in Requests \ {i} : rowKey'[j] = rowKey[j]
      BY <1>7 DEF TypeOK
    <3> QED BY <1>1, <2>1, <3>1, <3>2 DEF stage
  <2>3. PS!MayTell(<<"deleted">>)
    BY <1>3, <1>4, <1>5 DEF PS!MayTell, PS!Tell
  <2> QED BY <1>1, <1>7, <2>1, <2>2, <2>3 DEF PS!Drop
<1> QED BY <1>1, <1>6, <1>7

\* Who asks for a post is told of its row, or of its absence.
LEMMA AskIsStep ==
  ASSUME PageOnly, TypeOK, Ready, Own, Kept, Lives, NEW r \in Requests,
         Read(r) \/ Lookup(r)
  PROVE  \/ PS!Show(r, post[r]) \/ PS!Miss(r, post[r])
         \/ UNCHANGED <<stage, object, rowInfo, told>>
<1> USE DEF Goto, Set, Answer
<1> DEFINE i == post[r]
<1>1. /\ UNCHANGED <<op, post, object, rowKey, rowInfo, removed>> /\ pc[r] \in {"read", "lookup"}
      /\ \A q \in Requests \ {r} : key'[q] = key[q] /\ info'[q] = info[q] /\ code'[q] = code[q]
  BY DEF Read, Lookup, minio, db, TypeOK
<1>2. i \in Requests /\ (rowKey[i] = None <=> rowInfo[i] = None) /\ rowKey[i] \in {None, i}
  BY <1>1 DEF Own, Ready, Lives
<1>3. told[r] = <<>> /\ told' = [told EXCEPT ![r] = told'[r]]
  BY <1>1, OneIsTold DEF TypeOK, Working, OnServer
<1>4. told'[r] = <<>> => told' = told
  <2>1. told = [q \in DOMAIN told |-> told[q]]
    BY DEF told
  <2> QED BY <1>3, <2>1
<1>5. CASE Read(r)
  <2>1. op[r] = "view" /\ key[r] = None
    BY <1>5 DEF Read, Ready
  <2>2. stage' = stage
    BY <1>1, <2>1, SameStage
  <2>3. CASE rowKey[i] # None
    <3>1. told'[r] = <<"shown", rowInfo[i]>>
      BY <1>1, <1>2, <1>5, <2>1, <2>3 DEF Read, told, TypeOK
    <3> QED BY <1>1, <1>2, <1>3, <2>2, <2>3, <3>1 DEF PS!Show, PS!Tell
  <2>4. CASE rowKey[i] = None
    <3>1. told'[r] \in {<<>>, <<"missing">>}
      BY <1>5, <2>1, <2>4 DEF Read, told, TypeOK
    <3> QED BY <1>1, <1>2, <1>3, <1>4, <2>2, <2>4, <3>1 DEF PS!Miss, PS!Tell
  <2> QED BY <2>3, <2>4
<1>6. CASE Lookup(r)
  <2>1. op[r] = "delete"
    BY <1>6 DEF Lookup, Ready
  <2>2. CASE rowKey[i] # None
    <3>1. code' = code /\ key' = [key EXCEPT ![r] = i]
      BY <1>2, <1>6, <2>2 DEF Lookup
    <3>2. code[r] \notin {201, 204, 404}
      BY <1>1 DEF Kept, Lives
    <3>3. told'[r] = <<>>
      BY <1>1, <2>1, <3>1, <3>2 DEF told
    <3>4. stage' = stage
      <4>1. \A j \in Requests : Removing(j)' <=> Removing(j)
        BY <1>1, <3>1 DEF Removing
      <4>2. key[r] \in {None, i}
        BY <2>1 DEF Own
      <4>3. \A j \in Requests \ {i} : LookedUp(j)' <=> LookedUp(j)
        BY <1>1, <3>1, <4>2, NoneAssumption DEF LookedUp, TypeOK
      <4> QED BY <1>1, <2>2, <4>1, <4>3 DEF stage
    <3> QED BY <1>1, <1>4, <3>3, <3>4
  <2>3. CASE rowKey[i] = None
    <3>1. code' = [code EXCEPT ![r] = 404] /\ key' = key
      BY <1>6, <2>3 DEF Lookup
    <3>2. told'[r] = <<"missing">>
      BY <1>1, <2>1, <3>1 DEF told, TypeOK
    <3>3. stage' = stage
      BY <1>1, <3>1, SameStage
    <3> QED BY <1>1, <1>2, <1>3, <2>3, <3>2, <3>3 DEF PS!Miss, PS!Tell
  <2> QED BY <2>2, <2>3
<1> QED BY <1>5, <1>6

LEMMA PageStep ==
  ASSUME PageOnly
  PROVE  TypeOK /\ Ready /\ Own /\ Kept /\ Lives /\ [Next]_vars => [PS!PNext]_(PS!pvars)
<1> SUFFICES ASSUME TypeOK, Ready, Own, Kept, Lives, [Next]_vars
             PROVE  PS!PNext \/ UNCHANGED <<stage, object, rowInfo, told>>
  BY DEF PS!pvars
<1>1. ASSUME NEW r \in Requests, UploadEnds(r) \/ UploadFails(r)
      PROVE  PS!PNext \/ UNCHANGED <<stage, object, rowInfo, told>>
  BY <1>1, UploadIsStep DEF PS!PNext
<1>2. ASSUME NEW r \in Requests, Insert(r) \/ InsertFails(r)
      PROVE  PS!PNext \/ UNCHANGED <<stage, object, rowInfo, told>>
  BY <1>2, InsertIsStep DEF PS!PNext
<1>3. ASSUME NEW r \in Requests, Remove(r) \/ RemoveFails(r) \/ Drop(r) \/ DropFails(r)
      PROVE  PS!PNext \/ UNCHANGED <<stage, object, rowInfo, told>>
  <2>1. post[r] \in Requests
    BY <1>3 DEF Remove, RemoveFails, Drop, DropFails, Ready
  <2> QED BY <1>3, <2>1, RemoveIsStep, DropIsStep DEF PS!PNext
<1>4. ASSUME NEW r \in Requests, Read(r) \/ Lookup(r)
      PROVE  PS!PNext \/ UNCHANGED <<stage, object, rowInfo, told>>
  <2>1. post[r] \in Requests
    BY <1>4 DEF Read, Lookup, Ready
  <2> QED BY <1>4, <2>1, AskIsStep DEF PS!PNext
<1>5. ASSUME Crash \/ Tick \/ UNCHANGED vars
      PROVE  UNCHANGED <<stage, object, rowInfo, told>>
  <2>1. UNCHANGED <<op, key, file, info, post, code, object, rowKey, rowInfo, removed>>
    BY <1>5 DEF Crash, Tick, vars, request, minio, db
  <2>2. stage' = stage
    BY <2>1, SameStage
  <2>3. told' = told
    BY <2>1 DEF told
  <2> QED BY <2>1, <2>2, <2>3
<1> QED BY <1>1, <1>2, <1>3, <1>4, <1>5, QuietForPosts DEF Next, Idle

\* With the form of the page as the only source of keys, and whatever fails, posts
\* live as PostStore says: nothing is stored twice, created for something else than
\* what is stored, removed without having existed, or told otherwise than it was.
THEOREM PostsImplemented ==
  ASSUME PageOnly
  PROVE  Spec => ImplementsPostStore
<1>1. Init => TypeOK /\ Ready /\ Own /\ Kept /\ Lives
  BY ExpiryAssumption, NoneAssumption DEF Init, TypeOK, Ready, Own, Kept, Lives
<1>2. Init => PS!PInit
  <2> SUFFICES ASSUME Init PROVE PS!PInit
    OBVIOUS
  <2>1. \A i \in Requests : ~Removing(i) /\ ~LookedUp(i)
    BY DEF Init, Removing, LookedUp
  <2>2. stage = [i \in Requests |-> "new"]
    BY <2>1 DEF Init, stage
  <2>3. told = [r \in Requests |-> <<>>]
    BY DEF Init, told
  <2> QED BY <2>2, <2>3 DEF Init, PS!PInit
<1> QED BY <1>1, <1>2, NextReady, NextOwn, NextKept, NextLives, PageStep, PTL
        DEF Spec, ImplementsPostStore, PS!PSpec
==================================================================================
