---------------------------- MODULE GeminiTasksProofs ----------------------------
(* Theorems about GeminiTasks for every set of requests, tasks and faults.        *)
EXTENDS GeminiTasks, TLAPS

-----------------------------------------------------------------------------------
(* Type correctness.                                                              *)

\* The values a request works with are there when its next statement needs them,
\* and until it is answered it has produced nothing.
Assigned ==
  \A r \in Requests :
    /\ pc[r] \in {"select", "update", "delete"} => task[r] \in Ids
    /\ pc[r] = "update" => op[r] = "put"
    /\ pc[r] = "insert" => want[r] = Fields
    /\ pc[r] \in {"idle"} \union Active => got[r] = Unknown /\ wrote[r] = 0

LEMMA MergeType ==
  ASSUME NEW r \in Requests, NEW old \in Row
  PROVE  Merge(r, old) \in Row
BY DEF Merge, Row

LEMMA NothingType == Nothing \in Row
BY DEF Nothing, Row

\* What a write does to the types, whatever the new contents are.
LEMMA WriteType ==
  ASSUME TypeOK, NEW r \in Requests, NEW i \in Ids, NEW alive \in BOOLEAN, NEW new \in Row,
         Write(r, i, alive, new)
  PROVE  /\ ver' \in [Ids -> Nat] /\ live' \in [Ids -> BOOLEAN]
         /\ row' \in [Ids -> Row] /\ last' \in [Ids -> Row]
         /\ wrote' \in [Requests -> Nat] /\ base' \in [Requests -> Nat]
<1>1. last[i] \in Row
  BY DEF TypeOK
<1>2. Merge(r, last[i]) \in Row
  BY <1>1, MergeType
<1>3. last' = [last EXCEPT ![i] = Merge(r, last[i])]
  BY DEF Write
<1>4. row' \in [Ids -> Row] /\ last' \in [Ids -> Row]
  BY <1>2, <1>3 DEF Write, TypeOK
<1>5. /\ ver' \in [Ids -> Nat] /\ live' \in [Ids -> BOOLEAN]
      /\ wrote' \in [Requests -> Nat] /\ base' \in [Requests -> Nat]
  BY DEF Write, TypeOK
<1> QED BY <1>4, <1>5

\* Each kind of write is a Write of some contents.
LEMMA WriteKinds ==
  ASSUME TypeOK, NEW r \in Requests, NEW i \in Ids,
         SqlInsert(r, i) \/ SqlUpdate(r, i) \/ SqlDelete(r, i)
  PROVE  \E alive \in BOOLEAN, new \in Row : Write(r, i, alive, new)
<1>1. seen[r] \in Row
  BY DEF TypeOK
<1>2. Merge(r, seen[r]) \in Row /\ Merge(r, Nothing) \in Row
  BY <1>1, MergeType, NothingType
<1> QED BY <1>2, NothingType DEF SqlInsert, SqlUpdate, SqlDelete

LEMMA SqlType ==
  ASSUME TypeOK, NEW r \in Requests, NEW i \in Ids,
         SqlInsert(r, i) \/ SqlUpdate(r, i) \/ SqlDelete(r, i)
  PROVE  /\ ver' \in [Ids -> Nat] /\ live' \in [Ids -> BOOLEAN]
         /\ row' \in [Ids -> Row] /\ last' \in [Ids -> Row]
         /\ wrote' \in [Requests -> Nat] /\ base' \in [Requests -> Nat]
         /\ wrote' = [wrote EXCEPT ![r] = ver[i] + 1]
         /\ UNCHANGED base
<1>1. PICK alive \in BOOLEAN, new \in Row : Write(r, i, alive, new)
  BY WriteKinds
<1> QED BY <1>1, WriteType DEF Write

\* Which row a request that writes is about, and how it is answered.
Writing(r, i) == /\ pc[r] \in {"insert", "update", "delete"}
                 /\ pc[r] = "insert" \/ i = task[r]
                 /\ pc[r] = "insert" => SqlInsert(r, i)
                 /\ pc[r] = "update" => SqlUpdate(r, i)
                 /\ pc[r] = "delete" => SqlDelete(r, i)
                 /\ pc' = [pc EXCEPT ![r] = "done"]
                 /\ \A q \in Requests : q # r => task'[q] = task[q] /\ got'[q] = got[q]
                 /\ pc[r] # "insert" => UNCHANGED task
                 /\ UNCHANGED <<op, want, blank, seen>>
                 /\ TypeOK'

LEMMA WritingSteps ==
  ASSUME TypeOK, Assigned, NEW r \in Requests,
         Update(r) \/ Delete(r) \/ Insert(r) \/ (Fails(r) /\ ~UNCHANGED <<db, history>>)
  PROVE  \E i \in Ids : Writing(r, i)
<1> USE DEF Goto, Answer
<1>1. CASE Update(r)
  <2>1. task[r] \in Ids /\ SqlUpdate(r, task[r])
    BY <1>1 DEF Update, Assigned
  <2>2. /\ pc[r] = "update" /\ UNCHANGED <<op, task, want, blank, seen>>
        /\ pc' = [pc EXCEPT ![r] = "done"] /\ code' = [code EXCEPT ![r] = 200]
        /\ got' = [got EXCEPT ![r] = ver[task[r]] + 1]
    BY <1>1 DEF Update, Written
  <2>3. TypeOK'
    BY <2>1, <2>2, SqlType DEF TypeOK
  <2> QED BY <2>1, <2>2, <2>3 DEF Writing, TypeOK
<1>2. CASE Delete(r)
  <2>1. task[r] \in Ids /\ SqlDelete(r, task[r])
    BY <1>2 DEF Delete, Assigned
  <2>2. /\ pc[r] = "delete" /\ UNCHANGED <<op, task, want, blank, seen>>
        /\ pc' = [pc EXCEPT ![r] = "done"] /\ code' = [code EXCEPT ![r] = 204]
        /\ got' = [got EXCEPT ![r] = ver[task[r]] + 1]
    BY <1>2 DEF Delete, Written
  <2>3. TypeOK'
    BY <2>1, <2>2, SqlType DEF TypeOK
  <2> QED BY <2>1, <2>2, <2>3 DEF Writing, TypeOK
<1>3. CASE Insert(r)
  <2>1. PICK i \in Ids : /\ SqlInsert(r, i)
                         /\ task' = [task EXCEPT ![r] = i]
                         /\ Written(r, i, 201)
    BY <1>3 DEF Insert
  <2>2. /\ pc[r] = "insert" /\ UNCHANGED <<op, want, blank, seen>>
        /\ pc' = [pc EXCEPT ![r] = "done"] /\ code' = [code EXCEPT ![r] = 201]
        /\ got' = [got EXCEPT ![r] = ver[i] + 1]
    BY <1>3, <2>1 DEF Insert, Written
  <2>3. TypeOK'
    BY <2>1, <2>2, SqlType DEF TypeOK
  <2> QED BY <2>1, <2>2, <2>3 DEF Writing, TypeOK
<1>4. CASE Fails(r) /\ ~UNCHANGED <<db, history>>
  <2>1. /\ pc' = [pc EXCEPT ![r] = "done"] /\ code' = [code EXCEPT ![r] = 500]
        /\ UNCHANGED <<op, task, want, blank, seen, got>>
    BY <1>4 DEF Fails
  <2>2. PICK i \in Ids :
          \/ pc[r] = "update" /\ i = task[r] /\ SqlUpdate(r, i)
          \/ pc[r] = "delete" /\ i = task[r] /\ SqlDelete(r, i)
          \/ pc[r] = "insert" /\ SqlInsert(r, i)
    BY <1>4 DEF Fails, Assigned
  <2>3. TypeOK'
    BY <2>1, <2>2, SqlType DEF TypeOK
  <2> QED BY <2>1, <2>2, <2>3 DEF Writing
<1> QED BY <1>1, <1>2, <1>3, <1>4

LEMMA NextTyped == TypeOK /\ Assigned /\ [Next]_vars => TypeOK' /\ Assigned'
<1> SUFFICES ASSUME TypeOK, Assigned, [Next]_vars PROVE TypeOK' /\ Assigned'
  OBVIOUS
<1> USE DEF Goto, Answer
<1>1. ASSUME NEW r \in Requests, NEW o \in {"get", "list", "post", "put", "delete"},
             NEW i \in Ids, Arrive(r, o, i)
      PROVE  TypeOK' /\ Assigned'
  <2>1. PICK fields \in Bodies(o), empty \in BOOLEAN :
          /\ want' = [want EXCEPT ![r] = fields]
          /\ blank' = [blank EXCEPT ![r] = empty]
          /\ \/ pc' = [pc EXCEPT ![r] = Statement(o)] /\ UNCHANGED code
             \/ pc' = [pc EXCEPT ![r] = "done"] /\ code' = [code EXCEPT ![r] = 400]
    BY <1>1 DEF Arrive
  <2>2. /\ pc[r] = "idle" /\ UNCHANGED <<seen, got, db, history>>
        /\ op' = [op EXCEPT ![r] = o]
        /\ task' = [task EXCEPT ![r] = IF o = "post" THEN NoTask ELSE i]
    BY <1>1 DEF Arrive
  <2>3. fields \in SUBSET Fields
    BY DEF Bodies
  <2>4. /\ Statement(o) \in {"select", "insert", "delete"}
        /\ Statement(o) # "insert" => o # "post"
        /\ Statement(o) = "insert" => fields = Fields
    BY DEF Statement, Bodies
  <2>5. TypeOK'
    BY <2>1, <2>2, <2>3, <2>4 DEF TypeOK, Active, db, history
  <2>6. /\ pc'[r] \in {"select", "insert", "delete", "done"}
        /\ pc'[r] \in {"select", "delete"} => task'[r] \in Ids
        /\ pc'[r] = "insert" => want'[r] = Fields
    BY <2>1, <2>2, <2>4 DEF TypeOK
  <2>7. \A q \in Requests : q # r =>
          pc'[q] = pc[q] /\ task'[q] = task[q] /\ op'[q] = op[q] /\ want'[q] = want[q]
    BY <2>1, <2>2 DEF TypeOK
  <2> QED BY <2>2, <2>5, <2>6, <2>7 DEF Assigned, Active, history
<1>2. ASSUME NEW r \in Requests, Select(r) PROVE TypeOK' /\ Assigned'
  <2>1. task[r] \in Ids
    BY <1>2 DEF Select, Assigned
  <2> QED BY <1>2, <2>1 DEF TypeOK, Assigned, Select, Active, Unknown, db
<1>3. ASSUME NEW r \in Requests, NotFound(r) PROVE TypeOK' /\ Assigned'
  BY <1>3 DEF TypeOK, Assigned, NotFound, Active, db, history
<1>4. ASSUME NEW r \in Requests,
             Update(r) \/ Delete(r) \/ Insert(r) \/ (Fails(r) /\ ~UNCHANGED <<db, history>>)
      PROVE  TypeOK' /\ Assigned'
  <2>1. PICK i \in Ids : Writing(r, i)
    BY <1>4, WritingSteps
  <2>2. wrote' = [wrote EXCEPT ![r] = ver[i] + 1]
    BY <2>1, SqlType DEF Writing
  <2> QED BY <2>1, <2>2 DEF TypeOK, Assigned, Writing, Active
<1>5. ASSUME NEW r \in Requests, Fails(r), UNCHANGED <<db, history>>
      PROVE  TypeOK' /\ Assigned'
  <2>1. /\ pc' = [pc EXCEPT ![r] = "done"] /\ code' = [code EXCEPT ![r] = 500]
        /\ UNCHANGED <<op, task, want, blank, seen, got>>
    BY <1>5 DEF Fails
  <2> QED BY <1>5, <2>1 DEF TypeOK, Assigned, Active, db, history
<1>6. CASE Crash
  BY <1>6 DEF TypeOK, Assigned, Crash, Active, db, history
<1>7. CASE UNCHANGED vars
  BY <1>7 DEF TypeOK, Assigned, vars, request, db, history
<1> QED BY <1>1, <1>2, <1>3, <1>4, <1>5, <1>6, <1>7 DEF Next, Idle

\* Every variable keeps its type, and no statement works with a value it lacks.
THEOREM TypeCorrect == Spec => [](TypeOK /\ Assigned)
<1>1. Init => TypeOK /\ Assigned
  BY NothingType DEF Init, TypeOK, Assigned, Active
<1> QED BY <1>1, NextTyped, PTL DEF Spec

-----------------------------------------------------------------------------------
(* The row as a whole: the refinement.                                            *)

\* Every write of the table is one of the abstract table.
LEMMA WriteIsWrite ==
  ASSUME NEW r \in Requests, NEW i \in Ids,
         SqlInsert(r, i) \/ SqlUpdate(r, i) \/ SqlDelete(r, i)
  PROVE  Store!Write(i)
BY DEF SqlInsert, SqlUpdate, SqlDelete, Write, Store!Write, Store!Create, Store!Update,
   Store!Delete, Store!Change

LEMMA StepStore ==
  TypeOK /\ Assigned /\ [Next]_vars => [Store!SNext]_(Store!svars)
<1> SUFFICES ASSUME TypeOK, Assigned, [Next]_vars
             PROVE  [Store!SNext]_(Store!svars)
  OBVIOUS
<1> USE DEF Goto, Answer
<1>1. ASSUME NEW r \in Requests, Select(r)
      PROVE  Store!Read(r, task[r]) \/ UNCHANGED Store!svars
  <2>1. task[r] \in Ids /\ got[r] = Unknown /\ UNCHANGED <<ver, live>>
    BY <1>1 DEF Select, Assigned, Active, db
  <2>2. \/ got' = [got EXCEPT ![r] = Store!Row(task[r])]
        \/ UNCHANGED got
    BY <1>1 DEF Select, Store!Row
  <2> QED BY <2>1, <2>2 DEF Store!Read, Store!Answer, Store!Unknown, Unknown, Store!svars
<1>2. ASSUME NEW r \in Requests, NotFound(r) PROVE Store!NoSuchTask(r, task[r])
  BY <1>2 DEF NotFound, Assigned, Active, db, Store!NoSuchTask, Store!Answer,
     Store!Unknown, Unknown
<1>3. ASSUME NEW r \in Requests, Update(r) \/ Delete(r)
      PROVE  Store!Written(r, task[r])
  <2>1. task[r] \in Ids /\ got[r] = Store!Unknown
    BY <1>3 DEF Update, Delete, Assigned, Active, Store!Unknown, Unknown
  <2>2. /\ SqlUpdate(r, task[r]) \/ SqlDelete(r, task[r])
        /\ got' = [got EXCEPT ![r] = ver[task[r]] + 1]
    BY <1>3 DEF Update, Delete, Written
  <2>3. Store!Write(task[r])
    BY <2>1, <2>2, WriteIsWrite
  <2> QED BY <2>1, <2>2, <2>3 DEF Store!Written, Store!Answer
<1>4. ASSUME NEW r \in Requests, Insert(r) PROVE \E i \in Ids : Store!Written(r, i)
  <2>1. PICK i \in Ids : SqlInsert(r, i) /\ got' = [got EXCEPT ![r] = ver[i] + 1]
    BY <1>4 DEF Insert, Written
  <2>2. got[r] = Store!Unknown
    BY <1>4 DEF Insert, Assigned, Active, Store!Unknown, Unknown
  <2>3. Store!Write(i)
    BY <2>1, WriteIsWrite
  <2> QED BY <2>1, <2>2, <2>3 DEF Store!Written, Store!Answer
<1>5. ASSUME NEW r \in Requests, Fails(r)
      PROVE  (\E i \in Ids : Store!Unanswered(i)) \/ UNCHANGED Store!svars
  <2>1. CASE UNCHANGED <<db, history>>
    BY <1>5, <2>1 DEF Fails, db, Store!svars
  <2>2. CASE ~UNCHANGED <<db, history>>
    <3>1. PICK i \in Ids : Writing(r, i)
      BY <1>5, <2>2, WritingSteps
    <3>2. Store!Write(i)
      BY <3>1, WriteIsWrite DEF Writing
    <3> QED BY <1>5, <3>2 DEF Fails, Store!Unanswered
  <2> QED BY <2>1, <2>2
<1>6. ASSUME NEW r \in Requests, NEW o \in {"get", "list", "post", "put", "delete"},
             NEW i \in Ids, Arrive(r, o, i)
      PROVE  UNCHANGED Store!svars
  BY <1>6 DEF Arrive, db, Store!svars
<1>7. CASE Crash \/ UNCHANGED vars
  BY <1>7 DEF Crash, vars, request, db, Store!svars
<1>8. ASSUME NEW r \in Requests, Select(r) \/ NotFound(r) \/ Update(r) \/ Delete(r)
      PROVE  task[r] \in Ids
  BY <1>8 DEF Select, NotFound, Update, Delete, Assigned
<1> QED BY <1>1, <1>2, <1>3, <1>4, <1>5, <1>6, <1>7, <1>8 DEF Next, Idle, Store!SNext

\* However many requests overlap and whatever fails, every request takes effect on
\* whole rows at one moment.
THEOREM Implementation == Spec => ImplementsStore
<1>1. Init => Store!SInit
  BY DEF Init, Store!SInit, Store!Unknown, Unknown
<1> QED BY <1>1, StepStore, TypeCorrect, PTL DEF Spec, ImplementsStore, Store!SSpec

\* A task of gemini that is deleted never comes back, also not by an update that had
\* read it; no version is taken back, and nobody is told of one that did not exist.
THEOREM DeletedForGood == Spec => []Store!Truthful /\ Store!Lasting
BY Implementation, Store!Promised, PTL DEF ImplementsStore

-----------------------------------------------------------------------------------
(* Single fields: when an update is lost.                                         *)

\* An update of the row that did not name the field, and overtook its last writer.
Overtaken == {x \in Ids \X Fields :
                \E p \in Requests :
                  /\ op[p] = "put" /\ task[p] = x[1] /\ x[2] \notin want[p]
                  /\ base[p] < wrote[last[x[1]][x[2]]]
                  /\ wrote[last[x[1]][x[2]]] < wrote[p]}

\* Every field has had a last writer, and holds its value unless that was overtaken;
\* an update on its way carries the value of the last writer of a field, unless
\* that was overtaken, or will be by this update.
Tracked ==
  /\ \A i \in Ids : live[i] => ver[i] > 0
  /\ \A i \in Ids, f \in Fields : live[i] =>
       /\ last[i][f] \in Requests
       /\ wrote[last[i][f]] \in 1..ver[i]
       /\ row[i][f] = last[i][f] \/ <<i, f>> \in Overtaken
  /\ \A r \in Requests : pc[r] = "update" =>
       /\ ver[task[r]] > 0 /\ base[r] <= ver[task[r]]
       /\ live[task[r]] => \A f \in Fields :
            \/ seen[r][f] = last[task[r]][f]
            \/ <<task[r], f>> \in Overtaken
            \/ base[r] < wrote[last[task[r]][f]]

\* A finished request stays what it was.
LEMMA DoneStays ==
  ASSUME TypeOK, Assigned, [Next]_vars, NEW p \in Requests, wrote[p] > 0
  PROVE  /\ op'[p] = op[p] /\ task'[p] = task[p] /\ want'[p] = want[p]
         /\ base'[p] = base[p] /\ wrote'[p] = wrote[p]
<1>1. pc[p] \notin {"idle"} \union Active
  BY DEF Assigned
<1>2. ASSUME NEW r \in Requests, NEW o \in {"get", "list", "post", "put", "delete"},
             NEW i \in Ids, Arrive(r, o, i)
      PROVE  /\ op'[p] = op[p] /\ task'[p] = task[p] /\ want'[p] = want[p]
             /\ base'[p] = base[p] /\ wrote'[p] = wrote[p]
  <2>1. r # p
    BY <1>1, <1>2 DEF Arrive
  <2>2. \E fields \in Bodies(o) : want' = [want EXCEPT ![r] = fields]
    BY <1>2 DEF Arrive
  <2> QED BY <1>2, <2>1, <2>2 DEF Arrive, TypeOK, history
<1>3. ASSUME NEW r \in Requests, Select(r) \/ NotFound(r)
      PROVE  /\ op'[p] = op[p] /\ task'[p] = task[p] /\ want'[p] = want[p]
             /\ base'[p] = base[p] /\ wrote'[p] = wrote[p]
  <2>1. r # p
    BY <1>1, <1>3 DEF Select, NotFound, Active
  <2> QED BY <1>3, <2>1 DEF Select, NotFound, TypeOK, history
<1>4. ASSUME NEW r \in Requests,
             Update(r) \/ Delete(r) \/ Insert(r) \/ (Fails(r) /\ ~UNCHANGED <<db, history>>)
      PROVE  /\ op'[p] = op[p] /\ task'[p] = task[p] /\ want'[p] = want[p]
             /\ base'[p] = base[p] /\ wrote'[p] = wrote[p]
  <2>1. PICK i \in Ids : Writing(r, i)
    BY <1>4, WritingSteps
  <2>2. r # p
    BY <1>1, <2>1 DEF Writing, Active
  <2>3. wrote' = [wrote EXCEPT ![r] = ver[i] + 1] /\ UNCHANGED base
    BY <2>1, SqlType DEF Writing
  <2> QED BY <2>1, <2>2, <2>3 DEF Writing, TypeOK
<1>5. ASSUME NEW r \in Requests, Fails(r), UNCHANGED <<db, history>>
      PROVE  /\ op'[p] = op[p] /\ task'[p] = task[p] /\ want'[p] = want[p]
             /\ base'[p] = base[p] /\ wrote'[p] = wrote[p]
  BY <1>5 DEF Fails, history
<1>6. CASE Crash \/ UNCHANGED vars
  BY <1>6 DEF Crash, vars, request, history
<1> QED BY <1>2, <1>3, <1>4, <1>5, <1>6 DEF Next, Idle

\* A field whose last writer was overtaken stays so until it is written again.
LEMMA OvertakenStays ==
  ASSUME TypeOK, Assigned, [Next]_vars, NEW i \in Ids, NEW f \in Fields,
         <<i, f>> \in Overtaken, last'[i][f] = last[i][f],
         last[i][f] \in Requests, wrote[last[i][f]] > 0
  PROVE  <<i, f>> \in Overtaken'
<1>1. PICK p \in Requests :
        /\ op[p] = "put" /\ task[p] = i /\ f \notin want[p]
        /\ base[p] < wrote[last[i][f]] /\ wrote[last[i][f]] < wrote[p]
  BY DEF Overtaken
<1>2. wrote[p] \in Nat /\ wrote[last[i][f]] \in Nat
  BY DEF TypeOK
<1>3. /\ op'[p] = "put" /\ task'[p] = i /\ f \notin want'[p]
      /\ base'[p] = base[p] /\ wrote'[p] = wrote[p]
  BY <1>1, <1>2, DoneStays
<1>4. wrote'[last'[i][f]] = wrote[last[i][f]]
  BY <1>2, DoneStays
<1> QED BY <1>1, <1>3, <1>4 DEF Overtaken

\* A step that writes nothing keeps Tracked when it sends no update on its way that
\* does not carry the row as it is.
LEMMA ReadingStep ==
  ASSUME TypeOK, Assigned, Tracked, [Next]_vars, UNCHANGED <<db, wrote, last>>,
         \A r \in Requests : pc'[r] = "update" =>
           /\ task'[r] = task[r] /\ task[r] \in Ids
           /\ \/ pc[r] = "update" /\ base'[r] = base[r] /\ seen'[r] = seen[r]
              \/ live[task[r]] /\ base'[r] = ver[task[r]] /\ seen'[r] = row[task[r]]
  PROVE  Tracked'
<1> USE DEF db
<1>1. ASSUME NEW i \in Ids, NEW f \in Fields, live[i], <<i, f>> \in Overtaken
      PROVE  <<i, f>> \in Overtaken'
  BY <1>1, OvertakenStays DEF Tracked
<1>2. \A i \in Ids, f \in Fields : live'[i] =>
       /\ last'[i][f] \in Requests
       /\ wrote'[last'[i][f]] \in 1..ver'[i]
       /\ row'[i][f] = last'[i][f] \/ <<i, f>> \in Overtaken'
  BY <1>1 DEF Tracked
<1>3. ASSUME NEW r \in Requests, pc'[r] = "update"
      PROVE  /\ ver'[task'[r]] > 0 /\ base'[r] <= ver'[task'[r]]
             /\ live'[task'[r]] => \A f \in Fields :
                  \/ seen'[r][f] = last'[task'[r]][f]
                  \/ <<task'[r], f>> \in Overtaken'
                  \/ base'[r] < wrote'[last'[task'[r]][f]]
  <2>1. task'[r] = task[r] /\ task[r] \in Ids
    BY <1>3
  <2>2. CASE pc[r] = "update" /\ base'[r] = base[r] /\ seen'[r] = seen[r]
    BY <1>1, <2>1, <2>2 DEF Tracked
  <2>3. CASE live[task[r]] /\ base'[r] = ver[task[r]] /\ seen'[r] = row[task[r]]
    <3>1. ver[task[r]] \in Nat /\ ver[task[r]] > 0
      BY <2>1, <2>3 DEF Tracked, TypeOK
    <3> QED BY <1>1, <2>1, <2>3, <3>1 DEF Tracked
  <2> QED BY <1>3, <2>2, <2>3
<1>4. \A i \in Ids : live'[i] => ver'[i] > 0
  BY DEF Tracked
<1> QED BY <1>2, <1>3, <1>4 DEF Tracked

\* A write makes its request the last writer of the fields it names, and overtakes
\* the last writer of another field when it carries something else.
LEMMA WritingStep ==
  ASSUME TypeOK, Assigned, Tracked, [Next]_vars,
         NEW r \in Requests, NEW i \in Ids, Writing(r, i)
  PROVE  Tracked'
<1>1. /\ pc[r] \in {"insert", "update", "delete"}
      /\ pc' = [pc EXCEPT ![r] = "done"]
      /\ UNCHANGED <<op, want, blank, seen, base>>
      /\ \A q \in Requests : q # r => task'[q] = task[q]
      /\ wrote' = [wrote EXCEPT ![r] = ver[i] + 1]
  BY SqlType DEF Writing
<1>2. /\ ver' = [ver EXCEPT ![i] = ver[i] + 1]
      /\ last' = [last EXCEPT ![i] = Merge(r, last[i])]
      /\ \A j \in Ids : j # i => live'[j] = live[j] /\ row'[j] = row[j]
  BY DEF Writing, SqlInsert, SqlUpdate, SqlDelete, Write, TypeOK
<1>3. wrote[r] = 0 /\ ver[i] \in Nat
  BY <1>1 DEF Assigned, Active, TypeOK
<1>4. \A j \in Ids : j # i => last'[j] = last[j] /\ ver'[j] = ver[j]
  BY <1>2 DEF TypeOK
<1>5. ver'[i] = ver[i] + 1 /\ wrote'[r] = ver[i] + 1
  BY <1>1, <1>2 DEF TypeOK
<1>6. \A f \in Fields : last'[i][f] = IF f \in want[r] THEN r ELSE last[i][f]
  BY <1>2 DEF TypeOK, Merge
<1>7. ASSUME NEW j \in Ids, NEW f \in Fields, live[j], j # i \/ f \notin want[r]
      PROVE  /\ last'[j][f] = last[j][f] /\ last[j][f] \in Requests
             /\ wrote'[last[j][f]] = wrote[last[j][f]] /\ wrote[last[j][f]] \in 1..ver[j]
             /\ <<j, f>> \in Overtaken => <<j, f>> \in Overtaken'
  <2>1. last[j][f] \in Requests /\ wrote[last[j][f]] \in 1..ver[j]
    BY <1>7 DEF Tracked
  <2>2. last'[j][f] = last[j][f]
    BY <1>4, <1>6, <1>7
  <2>3. wrote[last[j][f]] > 0
    BY <2>1 DEF TypeOK
  <2> QED BY <2>1, <2>2, <2>3, DoneStays, OvertakenStays
\* The row that r creates or updates.
<1>8. ASSUME NEW f \in Fields, live'[i]
      PROVE  /\ last'[i][f] \in Requests
             /\ wrote'[last'[i][f]] \in 1..ver'[i]
             /\ row'[i][f] = last'[i][f] \/ <<i, f>> \in Overtaken'
  <2>1. \/ pc[r] = "insert" /\ ver[i] = 0 /\ row' = [row EXCEPT ![i] = Merge(r, Nothing)]
        \/ pc[r] = "update" /\ live[i] /\ row' = [row EXCEPT ![i] = Merge(r, seen[r])]
    BY <1>8 DEF Writing, SqlInsert, SqlUpdate, SqlDelete, Write, TypeOK
  <2>2. CASE f \in want[r]
    <3>1. row'[i][f] = r
      BY <2>1, <2>2 DEF Merge, TypeOK
    <3>2. last'[i][f] = r
      BY <1>6, <2>2
    <3> QED BY <1>3, <1>5, <3>1, <3>2
  <2>3. CASE f \notin want[r] /\ pc[r] = "update"
    <3>1. /\ live[i] /\ i = task[r] /\ row' = [row EXCEPT ![i] = Merge(r, seen[r])]
      BY <2>1, <2>3 DEF Writing
    <3>2. row'[i][f] = seen[r][f]
      BY <2>3, <3>1 DEF Merge, TypeOK
    <3>3. /\ last'[i][f] = last[i][f] /\ last[i][f] \in Requests
          /\ wrote'[last[i][f]] = wrote[last[i][f]] /\ wrote[last[i][f]] \in 1..ver[i]
          /\ <<i, f>> \in Overtaken => <<i, f>> \in Overtaken'
      BY <1>7, <2>3, <3>1
    <3>4. CASE base[r] < wrote[last[i][f]]
      <4>1. wrote'[last'[i][f]] < wrote'[r]
        BY <1>3, <1>5, <3>3
      <4>2. op'[r] = "put" /\ task'[r] = i
        BY <1>1, <2>3, <3>1 DEF Assigned, Writing
      <4>3. base'[r] < wrote'[last'[i][f]]
        BY <1>1, <3>3, <3>4
      <4>4. f \notin want'[r]
        BY <1>1, <2>3
      <4>5. <<i, f>> \in Overtaken'
        BY <4>1, <4>2, <4>3, <4>4 DEF Overtaken
      <4> QED BY <1>3, <1>5, <3>3, <4>5
    <3>5. CASE seen[r][f] = last[i][f] \/ <<i, f>> \in Overtaken
      BY <1>3, <1>5, <3>2, <3>3, <3>5
    <3> QED BY <2>3, <3>1, <3>4, <3>5 DEF Tracked
  <2>4. CASE f \notin want[r] /\ pc[r] = "insert"
    BY <2>4 DEF Assigned
  <2> QED BY <2>1, <2>2, <2>3, <2>4
<1>9. \A j \in Ids, f \in Fields : live'[j] =>
       /\ last'[j][f] \in Requests
       /\ wrote'[last'[j][f]] \in 1..ver'[j]
       /\ row'[j][f] = last'[j][f] \/ <<j, f>> \in Overtaken'
  <2> TAKE j \in Ids, f \in Fields
  <2>1. CASE j = i
    BY <1>8, <2>1
  <2>2. CASE j # i
    BY <1>2, <1>4, <1>7, <2>2 DEF Tracked
  <2> QED BY <2>1, <2>2
\* The updates on their way.
<1>10. ASSUME NEW q \in Requests, pc'[q] = "update"
       PROVE  /\ ver'[task'[q]] > 0 /\ base'[q] <= ver'[task'[q]]
              /\ live'[task'[q]] => \A f \in Fields :
                   \/ seen'[q][f] = last'[task'[q]][f]
                   \/ <<task'[q], f>> \in Overtaken'
                   \/ base'[q] < wrote'[last'[task'[q]][f]]
  <2>1. /\ q # r /\ pc[q] = "update" /\ task'[q] = task[q] /\ task[q] \in Ids
        /\ base'[q] = base[q] /\ seen'[q] = seen[q]
    BY <1>1, <1>10 DEF TypeOK, Assigned
  <2>2. /\ ver[task[q]] \in Nat /\ ver[task[q]] > 0
        /\ base[q] \in Nat /\ base[q] <= ver[task[q]]
    BY <2>1 DEF Tracked, TypeOK
  <2>3. ver'[task[q]] > 0 /\ base[q] <= ver'[task[q]]
    BY <1>4, <1>5, <2>1, <2>2
  <2>4. ASSUME live'[task[q]], NEW f \in Fields
        PROVE  \/ seen[q][f] = last'[task[q]][f]
               \/ <<task[q], f>> \in Overtaken'
               \/ base[q] < wrote'[last'[task[q]][f]]
    <3>1. live[task[q]]
      <4>1. CASE task[q] = i
        <5>1. ver[i] # 0
          BY <2>2, <4>1
        <5>2. live[i]
          BY <1>1, <5>1 DEF Writing, SqlInsert, SqlUpdate, SqlDelete
        <5> QED BY <4>1, <5>2
      <4>2. CASE task[q] # i
        BY <1>2, <2>1, <2>4, <4>2
      <4> QED BY <4>1, <4>2
    <3>2. CASE task[q] = i /\ f \in want[r]
      BY <1>5, <1>6, <2>2, <3>2
    <3>3. CASE task[q] # i \/ f \notin want[r]
      BY <1>7, <2>1, <3>1, <3>3 DEF Tracked
    <3> QED BY <3>2, <3>3
  <2> QED BY <2>1, <2>3, <2>4
<1>11. \A j \in Ids : live'[j] => ver'[j] > 0
  BY <1>2, <1>3, <1>4, <1>5 DEF Tracked
<1> QED BY <1>9, <1>10, <1>11 DEF Tracked

LEMMA NextTracked == TypeOK /\ Assigned /\ Tracked /\ [Next]_vars => Tracked'
<1> SUFFICES ASSUME TypeOK, Assigned, Tracked, [Next]_vars PROVE Tracked'
  OBVIOUS
<1> USE DEF Goto, Answer
<1>1. ASSUME NEW r \in Requests, NEW o \in {"get", "list", "post", "put", "delete"},
             NEW i \in Ids, Arrive(r, o, i)
      PROVE  Tracked'
  <2>1. \/ pc' = [pc EXCEPT ![r] = Statement(o)]
        \/ pc' = [pc EXCEPT ![r] = "done"]
    BY <1>1 DEF Arrive
  <2>2. Statement(o) # "update"
    BY DEF Statement
  <2>3. /\ UNCHANGED <<seen, db, history>>
        /\ \A q \in Requests : q # r => task'[q] = task[q]
    BY <1>1 DEF Arrive, TypeOK
  <2>4. \A q \in Requests : pc'[q] = "update" => q # r /\ pc[q] = "update"
    BY <2>1, <2>2 DEF TypeOK
  <2> QED BY <2>3, <2>4, ReadingStep DEF Assigned, history
<1>2. ASSUME NEW r \in Requests, Select(r) PROVE Tracked'
  <2>1. /\ UNCHANGED <<task, db, wrote, last>> /\ task[r] \in Ids
        /\ seen' = [seen EXCEPT ![r] = row[task[r]]]
        /\ base' = [base EXCEPT ![r] = ver[task[r]]]
    BY <1>2 DEF Select, Assigned
  <2>2. \/ pc' = [pc EXCEPT ![r] = "update"] /\ live[task[r]]
        \/ pc' = [pc EXCEPT ![r] = "done"]
    BY <1>2 DEF Select
  <2> QED BY <2>1, <2>2, ReadingStep DEF Assigned, TypeOK
<1>3. ASSUME NEW r \in Requests, NotFound(r) PROVE Tracked'
  BY <1>3, ReadingStep DEF NotFound, Assigned, TypeOK, history
<1>4. ASSUME NEW r \in Requests,
             Update(r) \/ Delete(r) \/ Insert(r) \/ (Fails(r) /\ ~UNCHANGED <<db, history>>)
      PROVE  Tracked'
  BY <1>4, WritingSteps, WritingStep
<1>5. ASSUME NEW r \in Requests, Fails(r), UNCHANGED <<db, history>> PROVE Tracked'
  <2>1. pc' = [pc EXCEPT ![r] = "done"] /\ UNCHANGED <<task, seen>>
    BY <1>5 DEF Fails
  <2> QED BY <1>5, <2>1, ReadingStep DEF Assigned, TypeOK, history
<1>6. CASE Crash \/ UNCHANGED vars
  <2>1. \A q \in Requests : pc'[q] = pc[q] \/ pc'[q] = "lost"
    BY <1>6 DEF Crash, vars, request, TypeOK
  <2>2. UNCHANGED <<task, seen, db, history>>
    BY <1>6 DEF Crash, vars, request
  <2> QED BY <2>1, <2>2, ReadingStep DEF Assigned, history
<1> QED BY <1>1, <1>2, <1>3, <1>4, <1>5, <1>6 DEF Next, Idle

\* An update is lost only to an overlapping one that did not name its field: for
\* every number of requests and whatever fails.
THEOREM LostExplained == Spec => []LostOnlyByOverlap
<1>1. Init => Tracked
  BY DEF Init, Tracked
<1>2. TypeOK /\ Tracked => LostOnlyByOverlap
  <2> SUFFICES ASSUME TypeOK, Tracked, NEW i \in Ids, NEW f \in Fields,
                      live[i], row[i][f] # last[i][f]
               PROVE  \E r \in Requests : /\ op[r] = "put" /\ task[r] = i /\ f \notin want[r]
                                          /\ base[r] < wrote[last[i][f]]
                                          /\ wrote[last[i][f]] < wrote[r]
    BY DEF LostOnlyByOverlap
  <2>1. <<i, f>> \in Overtaken
    BY DEF Tracked
  <2> QED BY <2>1 DEF Overtaken
<1> QED BY <1>1, <1>2, NextTracked, TypeCorrect, PTL DEF Spec
==================================================================================
