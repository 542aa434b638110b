------------------------------- MODULE RateLimiter -------------------------------
(* The per-address rate limiter of the gemini tasks API (RateLimiterMiddleware):  *)
(* requests run concurrently and each talks to Redis in two separate commands,    *)
(* INCR and, when INCR answers 1, EXPIRE.  Redis keeps one counter per client.    *)
EXTENDS Naturals, FiniteSets

CONSTANTS Clients,     \* client addresses
          Requests,    \* requests the server may receive
          Limit,       \* rateLimitRequests
          Window,      \* rateLimitWindow, in ticks
          MaxRetries,  \* how often the Redis client repeats a command
          Faults       \* what may go wrong: a subset of FaultKinds

FaultKinds == {"disconnect",  \* the caller goes away, its context is cancelled
               "redis",       \* a Redis command fails
               "retry",       \* a reply is lost and the client repeats the command
               "crash"}       \* the server process dies and is started again

ASSUME LimitAssumption == Limit \in Nat \ {0}
ASSUME WindowAssumption == Window \in Nat \ {0}
ASSUME RetryAssumption == MaxRetries \in Nat
ASSUME RequestsAssumption == IsFiniteSet(Requests)
ASSUME FaultsAssumption == Faults \subseteq FaultKinds

VARIABLES
  pc,             \* pc[r]: where request r stands in the middleware
  ip,             \* ip[r]: the address request r comes from
  ticket,         \* ticket[r]: the reply of INCR to request r, 0 while there is none
  retries,        \* retries[r]: how often the last command of r was sent again
  count,          \* Redis: count[c] is the value of rate_limit:c, 0 when absent
  ttl,            \* Redis: ticks until rate_limit:c expires, 0 when it has no TTL
  requestsTotal,  \* app metric, per address: RateLimiterRequestCounter
  blockedTotal,   \* app metric, per address: RateLimiterBlockedCounter
  \* History, read by no action of the system:
  life,           \* life[c]: how many windows of c have expired
  epoch,          \* epoch[r]: life of the client when r was counted
  age,            \* age[r]: ticks since r was counted, up to Window
  keyAge          \* keyAge[c]: ticks since the key of c was created, up to Window

redis   == <<count, ttl>>
metrics == <<requestsTotal, blockedTotal>>
history == <<life, epoch, age, keyAge>>
vars    == <<pc, ip, ticket, retries, redis, metrics, history>>

-----------------------------------------------------------------------------------
Working == {"incr", "expire"}
Served  == {"admitted", "open"}
States  == {"new", "blocked", "lost"} \union Working \union Served

TypeOK == /\ pc \in [Requests -> States]
          /\ ip \in [Requests -> Clients]
          /\ ticket \in [Requests -> Nat]
          /\ retries \in [Requests -> 0..MaxRetries]
          /\ count \in [Clients -> Nat]
          /\ ttl \in [Clients -> 0..Window]
          /\ requestsTotal \in [Clients -> Nat]
          /\ blockedTotal \in [Clients -> Nat]
          /\ life \in [Clients -> Nat]
          /\ epoch \in [Requests -> Nat]
          /\ age \in [Requests -> 0..Window]
          /\ keyAge \in [Clients -> 0..Window]

Init == /\ pc = [r \in Requests |-> "new"]
        /\ ip \in [Requests -> Clients]
        /\ ticket = [r \in Requests |-> 0]
        /\ retries = [r \in Requests |-> 0]
        /\ count = [c \in Clients |-> 0]
        /\ ttl = [c \in Clients |-> 0]
        /\ requestsTotal = [c \in Clients |-> 0]
        /\ blockedTotal = [c \in Clients |-> 0]
        /\ life = [c \in Clients |-> 0]
        /\ epoch = [r \in Requests |-> 0]
        /\ age = [r \in Requests |-> 0]
        /\ keyAge = [c \in Clients |-> 0]

-----------------------------------------------------------------------------------
(* Redis commands.  INCR creates an absent key without a TTL and leaves the TTL   *)
(* of an existing key as it is; EXPIRE on an absent key does nothing.             *)

RedisIncr(c) == count' = [count EXCEPT ![c] = @ + 1]

RedisExpire(c) == ttl' = IF count[c] = 0 THEN ttl ELSE [ttl EXCEPT ![c] = Window]

Elapse(n) == IF n < Window THEN n + 1 ELSE n

Expiring == {c \in Clients : ttl[c] = 1}

-----------------------------------------------------------------------------------
(* The middleware.                                                                *)

Goto(r, where) == pc' = [pc EXCEPT ![r] = where]

\* A request enters the middleware and is counted as received.
Arrive(r) == /\ pc[r] = "new"
             /\ Goto(r, "incr")
             /\ requestsTotal' = [requestsTotal EXCEPT ![ip[r]] = @ + 1]
             /\ UNCHANGED <<ip, ticket, retries, redis, blockedTotal, history>>

\* Mutant: the limit itself is refused already.
DecideEarly(r, n) ==
  IF n >= Limit
  THEN /\ Goto(r, "blocked")
       /\ blockedTotal' = [blockedTotal EXCEPT ![ip[r]] = @ + 1]
  ELSE /\ Goto(r, "admitted")
       /\ UNCHANGED blockedTotal

\* Mutant: one request too many passes.
DecideLate(r, n) ==
  IF n > Limit + 1
  THEN /\ Goto(r, "blocked")
       /\ blockedTotal' = [blockedTotal EXCEPT ![ip[r]] = @ + 1]
  ELSE /\ Goto(r, "admitted")
       /\ UNCHANGED blockedTotal

\* The check of the limit: the n-th request of a window is served or refused.
Decide(r, n) ==
  IF n > Limit
  THEN /\ Goto(r, "blocked")
       /\ blockedTotal' = [blockedTotal EXCEPT ![ip[r]] = @ + 1]
  ELSE /\ Goto(r, "admitted")
       /\ UNCHANGED blockedTotal

\* INCR is applied and answered: r has been counted.
Counted(r) == /\ pc[r] = "incr"
              /\ RedisIncr(ip[r])
              /\ ticket' = [ticket EXCEPT ![r] = count[ip[r]] + 1]
              /\ epoch' = [epoch EXCEPT ![r] = life[ip[r]]]
              /\ age' = [age EXCEPT ![r] = 0]
              /\ UNCHANGED <<ip, ttl, requestsTotal, life, keyAge>>

\* Mutant: the expiry is forgotten.
OpenForever(r) == /\ Counted(r)
                  /\ count[ip[r]] + 1 = 1
                  /\ Decide(r, 1)
                  /\ UNCHANGED retries

\* The reply is 1: this request goes on to set the expiry of the key.
OpenWindow(r) == /\ Counted(r)
                 /\ count[ip[r]] + 1 = 1
                 /\ Goto(r, "expire")
                 /\ retries' = [retries EXCEPT ![r] = 0]
                 /\ UNCHANGED blockedTotal

\* Mutant: every request renews the expiry.
ContinueRenews(r) == /\ Counted(r)
                     /\ count[ip[r]] + 1 # 1
                     /\ Goto(r, "expire")
                     /\ UNCHANGED <<retries, blockedTotal>>

\* Any other reply is compared with the limit at once.
Continue(r) == /\ Counted(r)
               /\ count[ip[r]] + 1 # 1
               /\ Decide(r, count[ip[r]] + 1)
               /\ UNCHANGED retries

\* Mutant: the client repeats the command once too often.
IncrRepeatedOnceMore(r) == /\ "retry" \in Faults
                           /\ pc[r] = "incr"
                           /\ retries[r] <= MaxRetries
                           /\ retries' = [retries EXCEPT ![r] = @ + 1]
                           /\ RedisIncr(ip[r])
                           /\ UNCHANGED <<pc, ip, ticket, ttl, metrics, history>>

\* INCR was applied, its reply was lost, and the Redis client sends it again.
IncrRepeated(r) == /\ "retry" \in Faults
                   /\ pc[r] = "incr"
                   /\ retries[r] < MaxRetries
                   /\ retries' = [retries EXCEPT ![r] = @ + 1]
                   /\ RedisIncr(ip[r])
                   /\ UNCHANGED <<pc, ip, ticket, ttl, metrics, history>>

\* INCR returns an error: the limiter fails open.  A client does not give up a command
\* that is on its way, so one whose context was cancelled has not been sent; what
\* Redis fails to answer may have been applied.
IncrFails(r) == /\ Faults \intersect {"disconnect", "redis"} # {}
                /\ pc[r] = "incr"
                /\ UNCHANGED count \/ ("redis" \in Faults /\ RedisIncr(ip[r]))
                /\ Goto(r, "open")
                /\ UNCHANGED <<ip, ticket, retries, ttl, metrics, history>>

\* EXPIRE was applied, its reply was lost, and the Redis client sends it again.
ExpireRepeated(r) == /\ "retry" \in Faults
                     /\ pc[r] = "expire"
                     /\ retries[r] < MaxRetries
                     /\ retries' = [retries EXCEPT ![r] = @ + 1]
                     /\ RedisExpire(ip[r])
                     /\ UNCHANGED <<pc, ip, ticket, count, metrics, history>>

Expire(r) == /\ pc[r] = "expire"
             /\ RedisExpire(ip[r])
             /\ Decide(r, ticket[r])
             /\ UNCHANGED <<ip, ticket, retries, count, requestsTotal, history>>

\* Mutant: the key is deleted when its expiry could not be set.
ExpireFailsDeletes(r) == /\ Faults \intersect {"disconnect", "redis"} # {}
                         /\ pc[r] = "expire"
                         /\ Decide(r, ticket[r])
                         /\ count' = [count EXCEPT ![ip[r]] = 0]
                         /\ ttl' = [ttl EXCEPT ![ip[r]] = 0]
                         /\ UNCHANGED <<ip, ticket, retries, requestsTotal, history>>

\* EXPIRE returns an error, applied or not, as INCR: it is logged, nothing else.
ExpireFails(r) == /\ Faults \intersect {"disconnect", "redis"} # {}
                  /\ pc[r] = "expire"
                  /\ UNCHANGED ttl \/ ("redis" \in Faults /\ RedisExpire(ip[r]))
                  /\ Decide(r, ticket[r])
                  /\ UNCHANGED <<ip, ticket, retries, count, requestsTotal, history>>

\* The server dies: its requests and its metrics are gone, Redis is not.
Crash == /\ "crash" \in Faults
         /\ pc' = [r \in Requests |-> IF pc[r] \in Working THEN "lost" ELSE pc[r]]
         /\ requestsTotal' = [c \in Clients |-> 0]
         /\ blockedTotal' = [c \in Clients |-> 0]
         /\ UNCHANGED <<ip, ticket, retries, redis, history>>

\* Time passes in Redis: every TTL runs down, and a key whose TTL runs out is gone.
Tick == /\ ttl' = [c \in Clients |-> IF ttl[c] > 0 THEN ttl[c] - 1 ELSE 0]
        /\ count' = [c \in Clients |-> IF c \in Expiring THEN 0 ELSE count[c]]
        /\ life' = [c \in Clients |-> IF c \in Expiring THEN life[c] + 1 ELSE life[c]]
        /\ age' = [r \in Requests |-> IF ticket[r] = 0 THEN 0 ELSE Elapse(age[r])]
        /\ keyAge' = [c \in Clients |-> IF c \in Expiring \/ count[c] = 0 THEN 0
                                        ELSE Elapse(keyAge[c])]
        /\ UNCHANGED <<pc, ip, ticket, retries, metrics, epoch>>

Handle(r) == \/ OpenWindow(r) \/ Continue(r) \/ Expire(r)
             \/ IncrRepeated(r) \/ IncrFails(r)
             \/ ExpireRepeated(r) \/ ExpireFails(r)

Next == \/ \E r \in Requests : Arrive(r) \/ Handle(r)
        \/ Crash
        \/ Tick

Spec == Init /\ [][Next]_vars

\* A request inside the middleware keeps running, and time keeps passing.
Fairness == WF_vars(Tick) /\ \A r \in Requests : WF_vars(Handle(r))

FairSpec == Spec /\ Fairness

-----------------------------------------------------------------------------------
(* Properties.                                                                    *)

Admitted(r) == pc[r] = "admitted"

AdmittedIn(c, e) == {r \in Requests : ip[r] = c /\ epoch[r] = e /\ Admitted(r)}

\* Of the requests of a client that one window of its Redis key has counted at most
\* Limit are let through, whatever fails, is repeated or crashes (rate_limiter.go
\* counts with INCR, whose replies are distinct in a window).
QuotaPerWindow ==
  \A c \in Clients, e \in {epoch[r] : r \in Requests} :
    Cardinality(AdmittedIn(c, e)) <= Limit

\* A fixed window lets a client burst at the boundary of two windows, but never
\* beyond: among the requests counted during the last Window ticks at most
\* 2 * Limit were admitted (the key is created without TTL and EXPIRE gives it a
\* whole rateLimitWindow, so three windows never touch one such interval).
BurstBound ==
  \A c \in Clients :
    Cardinality({r \in Requests : ip[r] = c /\ Admitted(r) /\ age[r] < Window})
      <= 2 * Limit

\* A counter without a TTL is a client that will never be forgiven.  Such a key
\* exists only while the request that created it is still on its way to EXPIRE
\* (the comment "Set expiry only on the first request in the window").
NoStrandedKey ==
  \A c \in Clients :
    count[c] > 0 /\ ttl[c] = 0 => \E r \in Requests : ip[r] = c /\ pc[r] = "expire"

\* A request is refused only after Limit others of the same client were counted
\* before it in the same window: nobody is refused for what others, or earlier
\* windows, have used.
RefusedOnlyAfterQuota ==
  \A r \in Requests : pc[r] = "blocked" =>
    \A n \in 1..Limit : \E q \in Requests :
      q # r /\ ip[q] = ip[r] /\ epoch[q] = epoch[r] /\ ticket[q] = n

\* A key keeps the end it has.
EndKept(c) == ttl'[c] <= ttl[c] /\ (ttl'[c] = 0 => count'[c] = 0)

\* Whose EXPIRE the Redis client has sent more than once.
Repeated(r) == ticket[r] = 1 /\ retries[r] > 0

\* EXPIRE of s moves the end of a key: it is repeated, or that of an earlier opener was
\* and has set the end before s did.
EndMoved(c) == /\ ttl'[c] > 0
               /\ \E r, s \in Requests :
                    /\ ip[r] = c /\ ip[s] = c
                    /\ pc[s] = "expire" /\ (pc'[s] # "expire" \/ retries'[s] > retries[s])
                    /\ Repeated(r) /\ (r = s \/ epoch[r] < epoch[s])

\* A window that has its end keeps it, so that a client who goes on asking is not
\* punished for it (EXPIRE is sent only after the reply 1).  Whatever fails or is delayed,
\* the end is moved only by a repetition of EXPIRE by the Redis client, or because of
\* one that comes too late and meets the next window; each opener moves it at most once
\* and once more for every repetition, and nobody takes it away from a key.
ProlongedOnlyByRepetition ==
  [][\A c \in Clients : ttl[c] > 0 => EndKept(c) \/ EndMoved(c)]_vars

\* A client over its limit is eventually let in again: its counter goes back to
\* zero ("10 requests per 10-second window" in the README of the app).
WindowReopens == \A c \in Clients : count[c] > Limit ~> count[c] = 0

-----------------------------------------------------------------------------------
(* The limiter implements the quota: a window opens with the creation of the key  *)
(* and is renewed with its expiry; a verdict falls with the reply of INCR.        *)

quotaLeft == [c \in Clients |-> IF count[c] < Limit THEN Limit - count[c] ELSE 0]

\* The reply of INCR entitles r to be let through, if it gets that far.
Entitled(r) == ticket[r] \in 1..Limit

quotaVerdict == [r \in Requests |->
                   IF pc[r] = "open" THEN "bypassed"
                   ELSE IF ticket[r] = 0 THEN "none"
                   ELSE IF Admitted(r) \/ (pc[r] # "blocked" /\ Entitled(r))
                   THEN "admitted" ELSE "refused"]

Q == INSTANCE Quota WITH left <- quotaLeft, since <- keyAge, verdict <- quotaVerdict

\* Whatever fails, what the limiter decides is what a quota of Limit admissions
\* per Window ticks would decide: no admission beyond the quota, no refusal while
\* some of it is left, no renewal before the window is over.
ImplementsQuota == Q!QSpec
==================================================================================
