-------------------------------- MODULE TaskStore --------------------------------
(* What a tasks API promises: a table of tasks on which every request takes       *)
(* effect at one moment between its arrival and its answer.  The content of a     *)
(* task is the number of the change that produced it, and a deletion is a change  *)
(* too.  A request that gets no answer, or an error, may still have taken effect. *)
EXTENDS Integers, TLAPS

CONSTANTS Ids,      \* ids of tasks
          Requests  \* requests to the API

VARIABLES ver,    \* ver[i]: how often task i has been changed, 0: it never existed
          live,   \* live[i]: the task is in the table
          result  \* result[r]: the version r has read or written, 0 when there was
                  \* no such task, Unknown while (or if never) answered

svars == <<ver, live, result>>

Unknown == -1

Row(i) == IF live[i] THEN ver[i] ELSE 0

SInit == /\ ver = [i \in Ids |-> 0]
         /\ live = [i \in Ids |-> FALSE]
         /\ result = [r \in Requests |-> Unknown]

Answer(r, v) == /\ result[r] = Unknown
                /\ result' = [result EXCEPT ![r] = v]

Read(r, i) == /\ Answer(r, Row(i))
              /\ UNCHANGED <<ver, live>>

Change(i, alive) == /\ ver' = [ver EXCEPT ![i] = @ + 1]
                    /\ live' = [live EXCEPT ![i] = alive]

Create(i) == ver[i] = 0 /\ Change(i, TRUE)
Update(i) == live[i] /\ Change(i, TRUE)
Delete(i) == live[i] /\ Change(i, FALSE)

Write(i) == Create(i) \/ Update(i) \/ Delete(i)

Written(r, i) == /\ Write(i)
                 /\ Answer(r, ver[i] + 1)

NoSuchTask(r, i) == /\ ~live[i]
                    /\ Answer(r, 0)
                    /\ UNCHANGED <<ver, live>>

Unanswered(i) == /\ Write(i)
                 /\ UNCHANGED result

SNext == \E i \in Ids :
           \/ \E r \in Requests : Read(r, i) \/ Written(r, i) \/ NoSuchTask(r, i)
           \/ Unanswered(i)

SSpec == SInit /\ [][SNext]_svars

-----------------------------------------------------------------------------------
(* What its callers can rely on.                                                  *)

\* Nobody is told of a version that no task has had.
Truthful == \A r \in Requests : result[r] \in {Unknown, 0} \/ \E i \in Ids : result[r] \in 1..ver[i]

\* A deleted task never comes back, no version is taken back, and an answer stands.
Lasting == [][/\ \A i \in Ids : /\ ver'[i] >= ver[i]
                                /\ ver[i] > 0 /\ ~live[i] => ~live'[i]
              /\ \A r \in Requests : result[r] # Unknown => result'[r] = result[r]]_svars

STypeOK == /\ ver \in [Ids -> Nat]
           /\ live \in [Ids -> BOOLEAN]
           /\ result \in [Requests -> Nat \union {Unknown}]
           /\ \A i \in Ids : live[i] => ver[i] > 0

\* What a step does to the table, and what it answers.
LEMMA StepShape ==
  ASSUME STypeOK, SNext
  PROVE  \E i \in Ids :
           /\ \/ UNCHANGED <<ver, live>>
              \/ \E alive \in BOOLEAN : /\ ver' = [ver EXCEPT ![i] = @ + 1]
                                        /\ live' = [live EXCEPT ![i] = alive]
                                        /\ alive => live[i] \/ ver[i] = 0
           /\ \/ UNCHANGED result
              \/ \E r \in Requests : /\ result[r] = Unknown
                                     /\ result' = [result EXCEPT ![r] = result'[r]]
                                     /\ result'[r] \in {0, ver'[i]}
<1>1. PICK i \in Ids : \/ \E r \in Requests : Read(r, i) \/ Written(r, i) \/ NoSuchTask(r, i)
                       \/ Unanswered(i)
  BY DEF SNext
<1>2. ASSUME Write(i)
      PROVE  \E alive \in BOOLEAN : /\ ver' = [ver EXCEPT ![i] = @ + 1]
                                    /\ live' = [live EXCEPT ![i] = alive]
                                    /\ alive => live[i] \/ ver[i] = 0
  BY <1>2 DEF Write, Create, Update, Delete, Change
<1>3. ASSUME NEW r \in Requests, Read(r, i) \/ Written(r, i) \/ NoSuchTask(r, i)
      PROVE  /\ UNCHANGED <<ver, live>> \/ Write(i)
             /\ result[r] = Unknown /\ result' = [result EXCEPT ![r] = result'[r]]
             /\ result'[r] \in {0, ver'[i]}
  BY <1>3 DEF Read, Written, NoSuchTask, Answer, Row, Write, Create, Update, Delete, Change, STypeOK
<1> QED BY <1>1, <1>2, <1>3 DEF Unanswered

\* Every table of tasks keeps these two promises.
THEOREM Promised == SSpec => []Truthful /\ Lasting
<1>1. SInit => STypeOK /\ Truthful
  BY DEF SInit, STypeOK, Truthful
<1>2. ASSUME STypeOK, Truthful, [SNext]_svars
      PROVE  /\ STypeOK' /\ Truthful'
             /\ \A i \in Ids : /\ ver'[i] >= ver[i]
                               /\ ver[i] > 0 /\ ~live[i] => ~live'[i]
             /\ \A r \in Requests : result[r] # Unknown => result'[r] = result[r]
  <2>1. CASE UNCHANGED svars
    BY <1>2, <2>1 DEF svars, STypeOK, Truthful
  <2>2. CASE SNext
    <3>1. PICK i \in Ids :
            /\ \/ UNCHANGED <<ver, live>>
               \/ \E alive \in BOOLEAN : /\ ver' = [ver EXCEPT ![i] = @ + 1]
                                         /\ live' = [live EXCEPT ![i] = alive]
                                         /\ alive => live[i] \/ ver[i] = 0
            /\ \/ UNCHANGED result
               \/ \E r \in Requests : /\ result[r] = Unknown
                                      /\ result' = [result EXCEPT ![r] = result'[r]]
                                      /\ result'[r] \in {0, ver'[i]}
      BY <1>2, <2>2, StepShape
    <3>2. /\ ver' \in [Ids -> Nat] /\ live' \in [Ids -> BOOLEAN]
          /\ \A j \in Ids : /\ ver'[j] >= ver[j]
                            /\ live'[j] => ver'[j] > 0
                            /\ ver[j] > 0 /\ ~live[j] => ~live'[j]
      BY <1>2, <3>1 DEF STypeOK
    <3>3. /\ result' \in [Requests -> Nat \union {Unknown}]
          /\ \A r \in Requests : \/ result'[r] = result[r]
                                 \/ result[r] = Unknown /\ result'[r] \in {0, ver'[i]}
      BY <1>2, <3>1, <3>2 DEF STypeOK
    <3>4. Truthful'
      BY <1>2, <3>2, <3>3 DEF Truthful, STypeOK, Unknown
    <3> QED BY <3>2, <3>3, <3>4 DEF STypeOK
  <2> QED BY <1>2, <2>1, <2>2
<1> QED BY <1>1, <1>2, PTL DEF SSpec, Lasting
==================================================================================
