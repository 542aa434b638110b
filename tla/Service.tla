--------------------------------- MODULE Service ---------------------------------
(* What a server process promises to those it serves, from its start to its end:  *)
(* it takes requests only while it serves, closes its door when it was told to    *)
(* stop or could never open it, gives those inside time before it takes anything  *)
(* away from them, and ends in good order, or with an error, only when nobody is  *)
(* inside or that time is over.  A kill is promised nothing about.                *)
CONSTANT Requests

VARIABLES phase,  \* what the process does
          told,   \* it was told to stop
          late,   \* the time it gives those inside is over
          stores, \* what the requests work with: "held" or "released"
          conn,   \* conn[r]: what has become of request r
          how     \* how the process has ended

svvars == <<phase, told, late, stores, conn, how>>

SvInit == /\ phase = "starting"
          /\ told = FALSE
          /\ late = FALSE
          /\ stores = "held"
          /\ conn = [r \in Requests |-> "new"]
          /\ how = "none"

Served == {r \in Requests : conn[r] = "served"}

Settled == Served = {} \/ late

Open == /\ phase = "starting"
        /\ phase' = "serving"
        /\ UNCHANGED <<told, late, stores, conn, how>>

Admit(r) == /\ phase = "serving"
            /\ conn[r] = "new"
            /\ conn' = [conn EXCEPT ![r] = "served"]
            /\ UNCHANGED <<phase, told, late, stores, how>>

Answer(r) == /\ conn[r] = "served"
             /\ conn' = [conn EXCEPT ![r] = "answered"]
             /\ UNCHANGED <<phase, told, late, stores, how>>

Tell == /\ phase # "ended"
        /\ told' = TRUE
        /\ UNCHANGED <<phase, late, stores, conn, how>>

Close == /\ phase = "starting" \/ (phase = "serving" /\ told)
         /\ phase' = "draining"
         /\ told' = TRUE
         /\ UNCHANGED <<late, stores, conn, how>>

Expire == /\ phase = "draining"
          /\ late' = TRUE
          /\ UNCHANGED <<phase, told, stores, conn, how>>

Release == /\ phase = "draining" /\ Settled
           /\ stores' = "released"
           /\ UNCHANGED <<phase, told, late, conn, how>>

End(h) == /\ phase # "ended"
          /\ h = "ok" => phase = "draining"
          /\ h \in {"ok", "failed"} => Settled
          /\ phase' = "ended"
          /\ how' = h
          /\ conn' = [r \in Requests |-> IF r \in Served THEN "cut" ELSE conn[r]]
          /\ UNCHANGED <<told, late, stores>>

SvNext == \/ Open \/ Tell \/ Close \/ Expire \/ Release
          \/ \E r \in Requests : Admit(r) \/ Answer(r)
          \/ \E h \in {"ok", "failed", "killed"} : End(h)

SvSpec == SvInit /\ [][SvNext]_svvars
==================================================================================
