---------------------------------- MODULE Quota ----------------------------------
(* What a fixed-window rate limiter promises, without saying how: a client has a  *)
(* quota of Limit admissions, and a used quota is renewed at the earliest Window  *)
(* ticks after its first use.  The limiter never promises that a quota IS         *)
(* renewed, nor that every admission is counted: an unreachable counter lets a    *)
(* request through uncounted (Bypass), and a counted request may never be served. *)
EXTENDS Naturals

CONSTANTS Clients,   \* client addresses
          Requests,  \* requests that may be made
          Limit,     \* admissions per window
          Window     \* length of a window in ticks

VARIABLES ip,       \* ip[r]: the client that makes request r
          left,     \* left[c]: what remains of the quota of c
          since,    \* since[c]: ticks since the quota of c was first used, up to Window
          verdict   \* verdict[r]: what was decided about request r

qvars == <<ip, left, since, verdict>>

QInit == /\ ip \in [Requests -> Clients]
         /\ left = [c \in Clients |-> Limit]
         /\ since = [c \in Clients |-> 0]
         /\ verdict = [r \in Requests |-> "none"]

Rule(r, v) == /\ verdict[r] = "none"
              /\ verdict' = [verdict EXCEPT ![r] = v]

Use(c) == /\ left[c] > 0
          /\ left' = [left EXCEPT ![c] = @ - 1]

Admit(r) == /\ Rule(r, "admitted")
            /\ Use(ip[r])
            /\ UNCHANGED <<ip, since>>

Refuse(r) == /\ left[ip[r]] = 0
             /\ Rule(r, "refused")
             /\ UNCHANGED <<ip, left, since>>

Bypass(r) == /\ Rule(r, "bypassed")
             /\ Use(ip[r]) \/ UNCHANGED left
             /\ UNCHANGED <<ip, since>>

Waste(c) == /\ Use(c)
            /\ UNCHANGED <<ip, since, verdict>>

Used(c) == left[c] < Limit

Renewable == {c \in Clients : Used(c) /\ since[c] + 1 >= Window}

QTick == /\ \E S \in SUBSET Renewable :
              /\ left' = [c \in Clients |-> IF c \in S THEN Limit ELSE left[c]]
              /\ since' = [c \in Clients |->
                             IF c \in S \/ ~Used(c) THEN 0
                             ELSE IF since[c] < Window THEN since[c] + 1 ELSE since[c]]
         /\ UNCHANGED <<ip, verdict>>

QNext == \/ \E r \in Requests : Admit(r) \/ Refuse(r) \/ Bypass(r)
         \/ \E c \in Clients : Waste(c)
         \/ QTick

QSpec == QInit /\ [][QNext]_qvars
==================================================================================
