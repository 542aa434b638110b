------------------------------- MODULE GeminiTasks -------------------------------
(* The tasks API of the gemini application behind its middleware: handlers that   *)
(* run concurrently on one PostgreSQL table, without a transaction around the     *)
(* SELECT and the UPDATE that make up a partial update.  Contents are named by    *)
(* the request that supplied them.                                                *)
EXTENDS Integers, FiniteSets

CONSTANTS Ids,       \* ids the SERIAL column may give
          NoTask,    \* the task of a request that has none yet
          Requests,  \* requests the server may receive
          NoOne,     \* the supplier of what is not there
          InFlight,  \* bound: how many requests are inside the server at a time
          Faults     \* what may go wrong: a subset of FaultKinds

FaultKinds == {"db",     \* a statement fails or is cancelled, or its answer is lost
               "crash"}  \* the server process dies and is started again

ASSUME NoTaskAssumption == NoTask \notin Ids
ASSUME NoOneAssumption == NoOne \notin Requests
ASSUME InFlightAssumption == InFlight \in Nat \ {0}
ASSUME RequestsAssumption == IsFiniteSet(Requests)
ASSUME FaultsAssumption == Faults \subseteq FaultKinds

Fields == {"title", "completed"}

VARIABLES
  pc,     \* pc[r]: the next statement of request r
  op,     \* op[r]: which handler serves r
  task,   \* task[r]: the task r is about
  want,   \* want[r]: the fields that the body of r names
  blank,  \* blank[r]: the title in the body of r is the empty string
  seen,   \* seen[r]: the row as r's SELECT returned it (currentTask)
  got,    \* got[r]: the version r has read or written, 0 when there was no row
  code,   \* code[r]: the HTTP status r was answered with, 0 while there is none
  ver,    \* PostgreSQL: how often row i was changed
  live,   \* PostgreSQL: row i exists
  row,    \* PostgreSQL: row[i][f] is the request that supplied the value of field f
  \* History, read by no action of the system:
  base,   \* base[r]: the version the SELECT of r returned
  wrote,  \* wrote[r]: the version that r produced, 0 when it has produced none
  last    \* last[i][f]: the last request to name f in a write of row i

request == <<pc, op, task, want, blank, seen, got, code>>
db      == <<ver, live, row>>
history == <<base, wrote, last>>
vars    == <<request, db, history>>

Unknown == -1

Active == {"select", "insert", "update", "delete"}

Row == [Fields -> Requests \union {NoOne}]

TypeOK == /\ pc \in [Requests -> Active \union {"idle", "done", "lost"}]
          /\ op \in [Requests -> {"none", "get", "list", "post", "put", "delete"}]
          /\ task \in [Requests -> Ids \union {NoTask}]
          /\ want \in [Requests -> SUBSET Fields]
          /\ blank \in [Requests -> BOOLEAN]
          /\ seen \in [Requests -> Row]
          /\ got \in [Requests -> Nat \union {Unknown}]
          /\ code \in [Requests -> {0, 200, 201, 204, 400, 404, 500}]
          /\ ver \in [Ids -> Nat]
          /\ live \in [Ids -> BOOLEAN]
          /\ row \in [Ids -> Row]
          /\ base \in [Requests -> Nat]
          /\ wrote \in [Requests -> Nat]
          /\ last \in [Ids -> Row]

Nothing == [f \in Fields |-> NoOne]

Init == /\ pc = [r \in Requests |-> "idle"]
        /\ op = [r \in Requests |-> "none"]
        /\ task = [r \in Requests |-> NoTask]
        /\ want = [r \in Requests |-> {}]
        /\ blank = [r \in Requests |-> FALSE]
        /\ seen = [r \in Requests |-> Nothing]
        /\ got = [r \in Requests |-> Unknown]
        /\ code = [r \in Requests |-> 0]
        /\ ver = [i \in Ids |-> 0]
        /\ live = [i \in Ids |-> FALSE]
        /\ row = [i \in Ids |-> Nothing]
        /\ base = [r \in Requests |-> 0]
        /\ wrote = [r \in Requests |-> 0]
        /\ last = [i \in Ids |-> Nothing]

-----------------------------------------------------------------------------------
(* Statements of PostgreSQL.                                                      *)

\* Mutant: what the body does not name is left out of the row.
MergeNamed(r, old) == [f \in want[r] |-> r]

\* The fields that r names come from r, the others from old.
Merge(r, old) == [f \in Fields |-> IF f \in want[r] THEN r ELSE old[f]]

\* Request r changes row i, whose contents become new.
Write(r, i, alive, new) ==
  /\ ver' = [ver EXCEPT ![i] = @ + 1]
  /\ live' = [live EXCEPT ![i] = alive]
  /\ row' = [row EXCEPT ![i] = new]
  /\ wrote' = [wrote EXCEPT ![r] = ver[i] + 1]
  /\ last' = [last EXCEPT ![i] = Merge(r, @)]
  /\ UNCHANGED base

\* INSERT (title): a new id, and completed gets its default.
SqlInsert(r, i) == ver[i] = 0 /\ Write(r, i, TRUE, Merge(r, Nothing))

\* Mutant: what the body does not name is written as its zero value.
SqlUpdateZero(r, i) == live[i] /\ Write(r, i, TRUE, Merge(r, Nothing))

\* Mutant: the row is inserted when it does not exist any more.
SqlUpsert(r, i) == Write(r, i, TRUE, Merge(r, seen[r]))

\* UPDATE writes both columns: what was named, and for the rest what was read.
SqlUpdate(r, i) == live[i] /\ Write(r, i, TRUE, Merge(r, seen[r]))

SqlDelete(r, i) == live[i] /\ Write(r, i, FALSE, Nothing)

-----------------------------------------------------------------------------------
(* Handlers and database methods.                                                 *)

Goto(r, where) == pc' = [pc EXCEPT ![r] = where]

Answer(r, c) == Goto(r, "done") /\ code' = [code EXCEPT ![r] = c]

\* "Title is required" of a new task; an update has to name some field.
Acceptable(o, fields, empty) == /\ o = "post" => ~empty
                                /\ o = "put" => fields # {}

\* What a body may name: a new task has a title, and so has a value of every field.
Bodies(o) == IF o = "post" THEN {Fields}
             ELSE IF o = "put" THEN SUBSET Fields ELSE {{}}

Statement(o) == CASE o \in {"get", "list", "put"} -> "select"
                  [] o = "post"                   -> "insert"
                  [] o = "delete"                 -> "delete"

\* A request arrives and its body is checked.  (A list is followed with regard to
\* one of the tasks.)  Bounds: InFlight, and no more creations than there are ids.
Arrive(r, o, i) ==
  /\ pc[r] = "idle"
  /\ o = "post" => Cardinality({q \in Requests : op[q] = "post"}) < Cardinality(Ids)
  /\ Cardinality({q \in Requests : pc[q] \in Active}) < InFlight
  /\ op' = [op EXCEPT ![r] = o]
  /\ task' = [task EXCEPT ![r] = IF o = "post" THEN NoTask ELSE i]
  /\ \E fields \in Bodies(o), empty \in BOOLEAN :
       /\ empty => "title" \in fields
       /\ want' = [want EXCEPT ![r] = fields]
       /\ blank' = [blank EXCEPT ![r] = empty]
       /\ \/ Acceptable(o, fields, empty) /\ Goto(r, Statement(o)) /\ UNCHANGED code
          \/ ~Acceptable(o, fields, empty) /\ Answer(r, 400)
  /\ UNCHANGED <<seen, got, db, history>>

\* GetTask, GetTasks, and the first step of UpdateTask.
Select(r) ==
  /\ pc[r] = "select"
  /\ seen' = [seen EXCEPT ![r] = row[task[r]]]
  /\ base' = [base EXCEPT ![r] = ver[task[r]]]
  /\ IF op[r] = "put" /\ live[task[r]]
     THEN Goto(r, "update") /\ UNCHANGED <<got, code>>
     ELSE /\ got' = [got EXCEPT ![r] = IF live[task[r]] THEN ver[task[r]] ELSE 0]
          /\ Answer(r, IF op[r] = "list" \/ live[task[r]] THEN 200 ELSE 404)
  /\ UNCHANGED <<op, task, want, blank, db, wrote, last>>

\* There is no row any more: pgx.ErrNoRows, or no row affected.
NotFound(r) == /\ pc[r] \in {"update", "delete"}
               /\ ~live[task[r]]
               /\ got' = [got EXCEPT ![r] = 0]
               /\ Answer(r, 404)
               /\ UNCHANGED <<op, task, want, blank, seen, db, history>>

Written(r, i, c) == /\ got' = [got EXCEPT ![r] = ver[i] + 1]
                    /\ Answer(r, c)
                    /\ UNCHANGED <<op, want, blank, seen>>

\* The second step of UpdateTask, answered with the row that UPDATE returned.
Update(r) == /\ pc[r] = "update"
             /\ SqlUpdate(r, task[r])
             /\ Written(r, task[r], 200)
             /\ UNCHANGED task

Delete(r) == /\ pc[r] = "delete"
             /\ SqlDelete(r, task[r])
             /\ Written(r, task[r], 204)
             /\ UNCHANGED task

Insert(r) == /\ pc[r] = "insert"
             /\ \E i \in Ids : /\ SqlInsert(r, i)
                               /\ task' = [task EXCEPT ![r] = i]
                               /\ Written(r, i, 201)

\* A statement returns an error, executed or not.
Fails(r) == /\ "db" \in Faults
            /\ pc[r] \in Active
            /\ \/ UNCHANGED <<db, history>>
               \/ pc[r] = "update" /\ SqlUpdate(r, task[r])
               \/ pc[r] = "delete" /\ SqlDelete(r, task[r])
               \/ pc[r] = "insert" /\ \E i \in Ids : SqlInsert(r, i)
            /\ Answer(r, 500)
            /\ UNCHANGED <<op, task, want, blank, seen, got>>

\* The server dies with the requests inside it.
Crash == /\ "crash" \in Faults
         /\ \E r \in Requests : pc[r] \in Active
         /\ pc' = [r \in Requests |-> IF pc[r] \in Active THEN "lost" ELSE pc[r]]
         /\ UNCHANGED <<op, task, want, blank, seen, got, code, db, history>>

\* All requests are answered: the server waits.
Idle == /\ \A r \in Requests : pc[r] \in {"done", "lost"}
        /\ UNCHANGED vars

Next == \/ \E r \in Requests, o \in {"get", "list", "post", "put", "delete"}, i \in Ids :
             Arrive(r, o, i)
        \/ \E r \in Requests : \/ Select(r) \/ NotFound(r) \/ Update(r) \/ Delete(r)
                               \/ Insert(r) \/ Fails(r)
        \/ Crash
        \/ Idle

Spec == Init /\ [][Next]_vars

-----------------------------------------------------------------------------------
(* Properties.                                                                    *)

\* A field of a task holds something else than what the last request to name it
\* supplied only because an update that did not name it had read the row before
\* that request wrote it, and wrote the row after it (UpdateTask, without a
\* transaction): nothing else undoes an update.
LostOnlyByOverlap ==
  \A i \in Ids, f \in Fields :
    live[i] /\ row[i][f] # last[i][f] =>
      \E r \in Requests : /\ op[r] = "put" /\ task[r] = i /\ f \notin want[r]
                          /\ base[r] < wrote[last[i][f]]
                          /\ wrote[last[i][f]] < wrote[r]

Store == INSTANCE TaskStore WITH result <- got

\* Taken as a whole a row is never torn between requests: reads, creations, updates
\* and deletions behave as if each took effect at one moment, a request that is
\* answered 404 found no task at that moment, and an update or a deletion never
\* reports success on a task that is gone.
ImplementsStore == Store!SSpec
==================================================================================
