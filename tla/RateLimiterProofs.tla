---------------------------- MODULE RateLimiterProofs ----------------------------
(* Theorems about RateLimiter for every set of clients and requests, every limit, *)
(* window and number of retries.                                                  *)
EXTENDS RateLimiter, FiniteSetTheorems, TLAPS

-----------------------------------------------------------------------------------
(* Type correctness.                                                              *)

LEMMA InitType == Init => TypeOK
  BY WindowAssumption, RetryAssumption DEF Init, TypeOK, States

LEMMA CountedType ==
  ASSUME TypeOK, NEW r \in Requests, Counted(r)
  PROVE  /\ count' \in [Clients -> Nat]
         /\ ticket' \in [Requests -> Nat]
         /\ epoch' \in [Requests -> Nat]
         /\ age' \in [Requests -> 0..Window]
         /\ UNCHANGED <<ip, ttl, requestsTotal, life, keyAge>>
  BY WindowAssumption DEF TypeOK, Counted, RedisIncr

LEMMA DecideType ==
  ASSUME TypeOK, NEW r \in Requests, NEW n, Decide(r, n)
  PROVE  /\ pc' \in [Requests -> States]
         /\ blockedTotal' \in [Clients -> Nat]
  BY DEF TypeOK, Decide, Goto, States, Served, Working

LEMMA NextType == TypeOK /\ [Next]_vars => TypeOK'
<1> SUFFICES ASSUME TypeOK, [Next]_vars PROVE TypeOK'
  OBVIOUS
<1>1. ASSUME NEW r \in Requests, Arrive(r) PROVE TypeOK'
  BY <1>1 DEF TypeOK, Arrive, Goto, States, Working, redis, history
<1>2. ASSUME NEW r \in Requests, OpenWindow(r) PROVE TypeOK'
  BY <1>2, CountedType, RetryAssumption DEF TypeOK, OpenWindow, Goto, States, Working
<1>3. ASSUME NEW r \in Requests, Continue(r) PROVE TypeOK'
  BY <1>3, CountedType, DecideType DEF TypeOK, Continue
<1>4. ASSUME NEW r \in Requests, IncrRepeated(r) PROVE TypeOK'
  BY <1>4, RetryAssumption DEF TypeOK, IncrRepeated, RedisIncr, metrics, history
<1>5. ASSUME NEW r \in Requests, IncrFails(r) PROVE TypeOK'
  BY <1>5 DEF TypeOK, IncrFails, RedisIncr, Goto, States, Served, metrics, history
<1>6. ASSUME NEW r \in Requests, Expire(r) PROVE TypeOK'
  <2>1. ttl' \in [Clients -> 0..Window]
    BY <1>6, WindowAssumption DEF TypeOK, Expire, RedisExpire
  <2> QED BY <1>6, <2>1, DecideType DEF TypeOK, Expire, history
<1>7. ASSUME NEW r \in Requests, ExpireFails(r) PROVE TypeOK'
  <2>1. ttl' \in [Clients -> 0..Window]
    BY <1>7, WindowAssumption DEF TypeOK, ExpireFails, RedisExpire
  <2> QED BY <1>7, <2>1, DecideType DEF TypeOK, ExpireFails, history
<1>11. ASSUME NEW r \in Requests, ExpireRepeated(r) PROVE TypeOK'
  <2>1. ttl' \in [Clients -> 0..Window] /\ retries' \in [Requests -> 0..MaxRetries]
    BY <1>11, WindowAssumption, RetryAssumption DEF TypeOK, ExpireRepeated, RedisExpire
  <2> QED BY <1>11, <2>1 DEF TypeOK, ExpireRepeated, metrics, history
<1>8. ASSUME Crash PROVE TypeOK'
  BY <1>8 DEF TypeOK, Crash, States, redis, history
<1>9. ASSUME Tick PROVE TypeOK'
  BY <1>9, WindowAssumption DEF TypeOK, Tick, Elapse, Expiring, metrics
<1>10. CASE UNCHANGED vars
  BY <1>10 DEF TypeOK, vars, redis, metrics, history
<1> QED
  BY <1>1, <1>2, <1>3, <1>4, <1>5, <1>6, <1>7, <1>8, <1>9, <1>10, <1>11 DEF Next, Handle

\* Every variable keeps its type.
THEOREM TypeCorrect == Spec => []TypeOK
  BY InitType, NextType, PTL DEF Spec

-----------------------------------------------------------------------------------
(* Replies of INCR are distinct within a window.                                  *)

\* A counted request belongs to the current window of its client or to an older
\* one; the replies given in the current window are at most the counter, and two
\* requests counted in one window have different replies.
Tickets ==
  /\ \A r \in Requests : ticket[r] # 0 => epoch[r] <= life[ip[r]]
  /\ \A r \in Requests : ticket[r] # 0 /\ epoch[r] = life[ip[r]]
                           => ticket[r] <= count[ip[r]]
  /\ \A q, r \in Requests :
       /\ q # r /\ ip[q] = ip[r] /\ epoch[q] = epoch[r]
       /\ ticket[q] # 0 /\ ticket[r] # 0
       => ticket[q] # ticket[r]

LEMMA CountedTickets ==
  ASSUME TypeOK, Tickets, NEW r \in Requests, Counted(r)
  PROVE  Tickets'
<1> DEFINE c == ip[r]
<1>1. /\ c \in Clients
      /\ ip' = ip /\ life' = life
      /\ count'[c] = count[c] + 1 /\ count[c] \in Nat
      /\ ticket'[r] = count[c] + 1 /\ epoch'[r] = life[c]
  BY DEF TypeOK, Counted, RedisIncr
<1>2. \A q \in Requests \ {r} : ticket'[q] = ticket[q] /\ epoch'[q] = epoch[q]
  BY DEF TypeOK, Counted
<1>3. \A d \in Clients : count'[d] >= count[d]
  BY DEF TypeOK, Counted, RedisIncr
<1>4. \A q \in Requests : ip[q] \in Clients /\ ticket[q] \in Nat /\ life[ip[q]] \in Nat
                          /\ count[ip[q]] \in Nat /\ epoch[q] \in Nat
  BY DEF TypeOK
<1>5. \A q \in Requests : ip'[q] = ip[q] /\ life'[ip[q]] = life[ip[q]]
                          /\ count'[ip[q]] \in Nat
  BY <1>1 DEF TypeOK, Counted, RedisIncr
<1> HIDE DEF c
<1>6. ASSUME NEW q \in Requests, ticket'[q] # 0 PROVE epoch'[q] <= life'[ip'[q]]
  BY <1>1, <1>2, <1>4, <1>5, <1>6 DEF Tickets, c
<1>7. ASSUME NEW q \in Requests, ticket'[q] # 0, epoch'[q] = life'[ip'[q]]
      PROVE  ticket'[q] <= count'[ip'[q]]
  BY <1>1, <1>2, <1>3, <1>4, <1>5, <1>7 DEF Tickets, c
<1>8. ASSUME NEW q \in Requests, q # r, ip[q] = ip[r], epoch'[q] = epoch'[r],
             ticket'[q] # 0
      PROVE  ticket'[q] # ticket'[r]
  BY <1>1, <1>2, <1>4, <1>8 DEF Tickets, c
<1>9. ASSUME NEW p \in Requests, NEW q \in Requests, p # q, ip'[p] = ip'[q],
             epoch'[p] = epoch'[q], ticket'[p] # 0, ticket'[q] # 0
      PROVE  ticket'[p] # ticket'[q]
  <2>1. CASE p # r /\ q # r
    BY <2>1, <1>2, <1>5, <1>9 DEF Tickets
  <2>2. CASE p = r \/ q = r
    BY <2>2, <1>5, <1>8, <1>9
  <2> QED BY <2>1, <2>2
<1> QED BY <1>6, <1>7, <1>9 DEF Tickets

LEMMA NextTickets == TypeOK /\ Tickets /\ [Next]_vars => Tickets'
<1> SUFFICES ASSUME TypeOK, Tickets, [Next]_vars PROVE Tickets'
  OBVIOUS
<1>1. ASSUME UNCHANGED <<ip, ticket, epoch, life>>,
             \A c \in Clients : count'[c] \in Nat /\ count'[c] >= count[c]
      PROVE  Tickets'
  BY <1>1 DEF TypeOK, Tickets
<1>2. ASSUME NEW r \in Requests, RedisIncr(ip[r])
      PROVE  \A c \in Clients : count'[c] \in Nat /\ count'[c] >= count[c]
  BY <1>2 DEF TypeOK, RedisIncr
<1>3. ASSUME NEW r \in Requests, OpenWindow(r) \/ Continue(r) PROVE Tickets'
  BY <1>3, CountedTickets DEF OpenWindow, Continue
<1>4. ASSUME NEW r \in Requests, IncrRepeated(r) PROVE Tickets'
  BY <1>1, <1>2, <1>4 DEF IncrRepeated, history
<1>5. ASSUME NEW r \in Requests, IncrFails(r) PROVE Tickets'
  <2>1. \A c \in Clients : count'[c] \in Nat /\ count'[c] >= count[c]
    BY <1>2, <1>5 DEF TypeOK, IncrFails
  <2> QED BY <1>1, <1>5, <2>1 DEF IncrFails, history
<1>6. ASSUME UNCHANGED count PROVE \A c \in Clients : count'[c] \in Nat /\ count'[c] >= count[c]
  BY <1>6 DEF TypeOK
<1>7. ASSUME NEW r \in Requests, Arrive(r) \/ Expire(r) \/ ExpireFails(r) \/ ExpireRepeated(r)
      PROVE  Tickets'
  BY <1>1, <1>6, <1>7 DEF Arrive, Expire, ExpireFails, ExpireRepeated, redis, history
<1>8. ASSUME Crash PROVE Tickets'
  BY <1>1, <1>6, <1>8 DEF Crash, redis, history
<1>9. ASSUME Tick PROVE Tickets'
  <2>1. UNCHANGED <<ip, ticket, epoch>>
    BY <1>9 DEF Tick
  <2>2. \A c \in Clients : \/ life'[c] = life[c] + 1
                           \/ life'[c] = life[c] /\ count'[c] = count[c]
    BY <1>9 DEF Tick
  <2>3. \A r \in Requests : ip[r] \in Clients /\ epoch[r] \in Nat /\ life[ip[r]] \in Nat
    BY DEF TypeOK
  <2> QED BY <2>1, <2>2, <2>3 DEF Tickets
<1>10. CASE UNCHANGED vars
  BY <1>1, <1>6, <1>10 DEF vars, redis, history
<1> QED
  BY <1>3, <1>4, <1>5, <1>7, <1>8, <1>9, <1>10 DEF Next, Handle

LEMMA TicketsInvariant == Spec => []Tickets
<1>1. Init => Tickets
  BY DEF Init, Tickets
<1> QED BY <1>1, NextTickets, TypeCorrect, PTL DEF Spec

\* The limiter lets through, and refuses, what the reply of INCR says.
Decided ==
  \A r \in Requests :
    /\ pc[r] \in {"new", "incr"} => ticket[r] = 0
    /\ pc[r] = "expire" => ticket[r] # 0
    /\ pc[r] = "admitted" => Entitled(r)
    /\ pc[r] = "blocked" => ~Entitled(r) /\ ticket[r] # 0

LEMMA NextDecided == TypeOK /\ Decided /\ [Next]_vars => Decided'
<1> SUFFICES ASSUME TypeOK, Decided, [Next]_vars PROVE Decided'
  OBVIOUS
<1>1. ASSUME NEW r \in Requests, Arrive(r) PROVE Decided'
  BY <1>1 DEF TypeOK, Decided, Arrive, Goto, Entitled
<1>2. ASSUME NEW r \in Requests, OpenWindow(r) PROVE Decided'
  BY <1>2 DEF TypeOK, Decided, OpenWindow, Counted, Goto, Entitled
<1>3. ASSUME NEW r \in Requests, Continue(r) PROVE Decided'
  BY <1>3, LimitAssumption DEF TypeOK, Decided, Continue, Counted, Decide, Goto, Entitled
<1>4. ASSUME NEW r \in Requests, IncrRepeated(r) \/ ExpireRepeated(r) PROVE Decided'
  BY <1>4 DEF Decided, IncrRepeated, ExpireRepeated, Entitled
<1>5. ASSUME NEW r \in Requests, IncrFails(r) PROVE Decided'
  BY <1>5 DEF TypeOK, Decided, IncrFails, Goto, Entitled
<1>6. ASSUME NEW r \in Requests, Expire(r) \/ ExpireFails(r) PROVE Decided'
  <2>1. Decide(r, ticket[r]) /\ ticket' = ticket /\ ticket[r] \in Nat /\ ticket[r] # 0
    BY <1>6 DEF TypeOK, Decided, Expire, ExpireFails
  <2> QED BY <2>1, LimitAssumption DEF TypeOK, Decided, Decide, Goto, Entitled
<1>7. ASSUME Crash PROVE Decided'
  BY <1>7 DEF TypeOK, Decided, Crash, Entitled
<1>8. ASSUME Tick PROVE Decided'
  BY <1>8 DEF Decided, Tick, Entitled
<1>9. CASE UNCHANGED vars
  BY <1>9 DEF Decided, vars, Entitled
<1> QED BY <1>1, <1>2, <1>3, <1>4, <1>5, <1>6, <1>7, <1>8, <1>9 DEF Next, Handle

LEMMA DecidedInvariant == Spec => []Decided
<1>1. Init => Decided
  BY DEF Init, Decided
<1> QED BY <1>1, NextDecided, TypeCorrect, PTL DEF Spec

\* Who has been counted, and has not been ruled on, opened the window.
Openers ==
  \A r \in Requests : pc[r] \in {"expire", "lost"} /\ ticket[r] # 0 => ticket[r] = 1

LEMMA NextOpeners == TypeOK /\ Decided /\ Openers /\ [Next]_vars => Openers'
<1> SUFFICES ASSUME TypeOK, Decided, Openers, [Next]_vars PROVE Openers'
  OBVIOUS
<1>1. ASSUME NEW r \in Requests,
             Arrive(r) \/ IncrRepeated(r) \/ IncrFails(r) \/ ExpireRepeated(r)
      PROVE  Openers'
  BY <1>1 DEF TypeOK, Openers, Arrive, IncrRepeated, IncrFails, ExpireRepeated, Goto
<1>2. ASSUME NEW r \in Requests, OpenWindow(r) PROVE Openers'
  BY <1>2 DEF TypeOK, Openers, OpenWindow, Counted, Goto
<1>3. ASSUME NEW r \in Requests, Continue(r) PROVE Openers'
  BY <1>3 DEF TypeOK, Openers, Continue, Counted, Decide, Goto
<1>4. ASSUME NEW r \in Requests, Expire(r) \/ ExpireFails(r) PROVE Openers'
  BY <1>4 DEF TypeOK, Openers, Expire, ExpireFails, Decide, Goto
<1>5. ASSUME Crash PROVE Openers'
  BY <1>5 DEF TypeOK, Decided, Openers, Crash, Working
<1>6. CASE Tick \/ UNCHANGED vars
  BY <1>6 DEF Openers, Tick, vars
<1> QED BY <1>1, <1>2, <1>3, <1>4, <1>5, <1>6 DEF Next, Handle

LEMMA OpenersInvariant == Spec => []Openers
<1>1. Init => Openers
  BY DEF Init, Openers
<1> QED BY <1>1, NextOpeners, TypeCorrect, DecidedInvariant, PTL DEF Spec

\* Requests with distinct replies in 1..Limit are at most Limit.
LEMMA DistinctTickets ==
  ASSUME TypeOK, Tickets, Decided, NEW c, NEW e
  PROVE  IsFiniteSet(AdmittedIn(c, e)) /\ Cardinality(AdmittedIn(c, e)) <= Limit
<1> DEFINE S == AdmittedIn(c, e)
           f == [r \in S |-> ticket[r]]
<1>1. f \in Injection(S, 1..Limit)
  <2>1. f \in [S -> 1..Limit]
    BY DEF AdmittedIn, Admitted, Decided, Entitled
  <2>2. \A q, r \in S : f[q] = f[r] => q = r
    BY DEF Tickets, AdmittedIn, Admitted, Decided, Entitled
  <2> QED BY <2>1, <2>2 DEF Injection, IsInjective
<1>2. IsFiniteSet(1..Limit) /\ Cardinality(1..Limit) = Limit
  BY FS_Interval, LimitAssumption
<1> HIDE DEF f, S
<1>3. IsFiniteSet(S) /\ Cardinality(S) <= Cardinality(1..Limit)
  BY <1>1, <1>2, FS_Injection
<1> QED BY <1>2, <1>3 DEF S

\* Of the requests counted in one window of a client at most Limit are let through,
\* whatever fails.
THEOREM QuotaHolds == Spec => []QuotaPerWindow
<1>1. TypeOK /\ Tickets /\ Decided => QuotaPerWindow
  BY DistinctTickets DEF QuotaPerWindow
<1> QED BY <1>1, TypeCorrect, TicketsInvariant, DecidedInvariant, PTL

-----------------------------------------------------------------------------------
(* Nobody is refused for what others have used.                                   *)

\* The replies of INCR in a window are 1, 2, 3 and so on, without a gap.
Consecutive ==
  /\ \A c \in Clients : \A n \in 1..count[c] :
       \E q \in Requests : ip[q] = c /\ epoch[q] = life[c] /\ ticket[q] = n
  /\ \A r \in Requests : ticket[r] # 0 =>
       \A n \in 1..(ticket[r] - 1) :
         \E q \in Requests : ip[q] = ip[r] /\ epoch[q] = epoch[r] /\ ticket[q] = n

LEMMA CountedConsecutive ==
  ASSUME TypeOK, Decided, Consecutive, NEW r \in Requests, Counted(r)
  PROVE  Consecutive'
<1>1. /\ ip' = ip /\ life' = life
      /\ ticket[r] = 0 /\ ticket'[r] = count[ip[r]] + 1 /\ epoch'[r] = life[ip[r]]
      /\ \A q \in Requests \ {r} : ticket'[q] = ticket[q] /\ epoch'[q] = epoch[q]
      /\ count'[ip[r]] = count[ip[r]] + 1
      /\ \A c \in Clients \ {ip[r]} : count'[c] = count[c]
      /\ \A c \in Clients : count[c] \in Nat
      /\ \A q \in Requests : ticket[q] \in Nat /\ ip[q] \in Clients
  BY DEF TypeOK, Decided, Counted, RedisIncr
\* Witnesses stay: r had no reply before.
<1>2. \A q \in Requests : ticket[q] # 0 => ticket'[q] = ticket[q] /\ epoch'[q] = epoch[q]
  BY <1>1
<1>3. ASSUME NEW c \in Clients, NEW n \in 1..count'[c]
      PROVE  \E q \in Requests : ip'[q] = c /\ epoch'[q] = life'[c] /\ ticket'[q] = n
  <2>1. CASE n \in 1..count[c]
    <3>1. PICK q \in Requests : ip[q] = c /\ epoch[q] = life[c] /\ ticket[q] = n
      BY <2>1 DEF Consecutive
    <3> QED BY <1>1, <1>2, <3>1
  <2>2. CASE n \notin 1..count[c]
    <3>1. c = ip[r] /\ n = count[c] + 1
      BY <1>1, <1>3, <2>2
    <3> QED BY <1>1, <3>1
  <2> QED BY <2>1, <2>2
<1>4. ASSUME NEW p \in Requests, ticket'[p] # 0, NEW n \in 1..(ticket'[p] - 1)
      PROVE  \E q \in Requests : ip'[q] = ip'[p] /\ epoch'[q] = epoch'[p] /\ ticket'[q] = n
  <2>1. PICK q \in Requests : ip[q] = ip[p] /\ epoch[q] = epoch'[p] /\ ticket[q] = n
    <3>1. CASE p = r
      <4>1. ip[r] \in Clients /\ n \in 1..count[ip[r]]
        BY <1>1, <1>4, <3>1
      <4> QED BY <1>1, <3>1, <4>1 DEF Consecutive
    <3>2. CASE p # r
      BY <1>1, <1>4, <3>2 DEF Consecutive
    <3> QED BY <3>1, <3>2
  <2> QED BY <1>1, <1>2, <2>1
<1> QED BY <1>3, <1>4 DEF Consecutive

LEMMA NextConsecutive ==
  ASSUME Faults \subseteq {"crash"}, TypeOK, Decided, Consecutive, [Next]_vars
  PROVE  Consecutive'
<1>1. ASSUME UNCHANGED <<ip, ticket, epoch, life, count>> PROVE Consecutive'
  BY <1>1 DEF Consecutive
<1>2. ASSUME NEW r \in Requests, OpenWindow(r) \/ Continue(r) PROVE Consecutive'
  BY <1>2, CountedConsecutive DEF OpenWindow, Continue
<1>3. ASSUME NEW r \in Requests,
             IncrRepeated(r) \/ IncrFails(r) \/ ExpireFails(r) \/ ExpireRepeated(r)
      PROVE  FALSE
  BY <1>3 DEF IncrRepeated, IncrFails, ExpireFails, ExpireRepeated
<1>4. ASSUME NEW r \in Requests, Arrive(r) \/ Expire(r) PROVE Consecutive'
  BY <1>1, <1>4 DEF Arrive, Expire, redis, history
<1>5. ASSUME Crash PROVE Consecutive'
  BY <1>1, <1>5 DEF Crash, redis, history
<1>6. ASSUME Tick PROVE Consecutive'
  <2>1. /\ UNCHANGED <<ip, ticket, epoch>>
        /\ \A c \in Clients : count'[c] = 0 \/ (count'[c] = count[c] /\ life'[c] = life[c])
    BY <1>6 DEF Tick
  <2> QED BY <2>1 DEF Consecutive
<1>7. CASE UNCHANGED vars
  BY <1>1, <1>7 DEF vars, redis, history
<1> QED BY <1>2, <1>3, <1>4, <1>5, <1>6, <1>7 DEF Next, Handle

\* As long as every command is executed once and answered, a request is refused only
\* after Limit others of its client were counted in the same window, whatever crashes.
THEOREM RefusedJustly ==
  ASSUME Faults \subseteq {"crash"}
  PROVE  Spec => []RefusedOnlyAfterQuota
<1>1. Init => Consecutive
  BY DEF Init, Consecutive
<1>2. TypeOK /\ Decided /\ Consecutive => RefusedOnlyAfterQuota
  <2> SUFFICES ASSUME TypeOK, Decided, Consecutive, NEW r \in Requests, pc[r] = "blocked",
                      NEW n \in 1..Limit
               PROVE  \E q \in Requests : /\ q # r /\ ip[q] = ip[r]
                                          /\ epoch[q] = epoch[r] /\ ticket[q] = n
    BY DEF RefusedOnlyAfterQuota
  <2>1. ticket[r] \in Nat /\ ticket[r] > Limit
    BY LimitAssumption DEF TypeOK, Decided, Entitled
  <2>2. n \in 1..(ticket[r] - 1) /\ n # ticket[r] /\ ticket[r] # 0
    BY <2>1, LimitAssumption
  <2> QED BY <2>2 DEF Consecutive
<1>3. TypeOK /\ Decided /\ Consecutive /\ [Next]_vars => Consecutive'
  BY NextConsecutive
<1> QED BY <1>1, <1>2, <1>3, TypeCorrect, DecidedInvariant, PTL DEF Spec

-----------------------------------------------------------------------------------
(* Without faults every counter has, or is about to get, its TTL.                 *)

\* When nothing fails and nothing is repeated, a counter without a TTL belongs to
\* a request that is about to set it.
THEOREM NoKeyStranded ==
  ASSUME Faults = {}
  PROVE  Spec => []NoStrandedKey
<1>1. Init => NoStrandedKey
  BY DEF Init, NoStrandedKey
<1>2. TypeOK /\ NoStrandedKey /\ [Next]_vars => NoStrandedKey'
  <2> SUFFICES ASSUME TypeOK, NoStrandedKey, [Next]_vars,
                      NEW c \in Clients, count'[c] > 0, ttl'[c] = 0
               PROVE  \E q \in Requests : ip'[q] = c /\ pc'[q] = "expire"
    BY DEF NoStrandedKey
  <2>1. ASSUME NEW r \in Requests, Arrive(r)
        PROVE  \E q \in Requests : ip'[q] = c /\ pc'[q] = "expire"
    BY <2>1 DEF NoStrandedKey, TypeOK, Arrive, Goto, redis
  <2>2. ASSUME NEW r \in Requests, OpenWindow(r)
        PROVE  \E q \in Requests : ip'[q] = c /\ pc'[q] = "expire"
    BY <2>2 DEF NoStrandedKey, TypeOK, OpenWindow, Counted, RedisIncr, Goto
  <2>3. ASSUME NEW r \in Requests, Continue(r)
        PROVE  \E q \in Requests : ip'[q] = c /\ pc'[q] = "expire"
    <3>1. count[c] > 0 /\ ttl[c] = 0
      BY <2>3 DEF TypeOK, Continue, Counted, RedisIncr
    <3>2. PICK q \in Requests : ip[q] = c /\ pc[q] = "expire"
      BY <3>1 DEF NoStrandedKey
    <3>3. q # r
      BY <2>3, <3>2 DEF Continue, Counted
    <3>4. ip'[q] = c /\ pc'[q] = "expire"
      BY <2>3, <3>2, <3>3 DEF TypeOK, Continue, Counted, Decide, Goto
    <3> QED BY <3>4
  <2>4. ASSUME NEW r \in Requests, Expire(r)
        PROVE  \E q \in Requests : ip'[q] = c /\ pc'[q] = "expire"
    <3>1. count[c] > 0
      BY <2>4 DEF Expire
    <3>2. c # ip[r] /\ ttl[c] = 0
      BY <2>4, <3>1, WindowAssumption DEF TypeOK, Expire, RedisExpire
    <3>3. PICK q \in Requests : ip[q] = c /\ pc[q] = "expire"
      BY <3>1, <3>2 DEF NoStrandedKey
    <3>4. ip'[q] = c /\ pc'[q] = "expire"
      BY <2>4, <3>2, <3>3 DEF TypeOK, Expire, Decide, Goto
    <3> QED BY <3>4
  <2>5. ASSUME Tick
        PROVE  \E q \in Requests : ip'[q] = c /\ pc'[q] = "expire"
    <3>1. count[c] > 0 /\ ttl[c] = 0
      BY <2>5 DEF TypeOK, Tick, Expiring
    <3> QED BY <2>5, <3>1 DEF NoStrandedKey, Tick
  <2>6. CASE UNCHANGED vars
    BY <2>6 DEF NoStrandedKey, vars, redis
  <2> QED
    BY <2>1, <2>2, <2>3, <2>4, <2>5, <2>6
       DEF Next, Handle, IncrRepeated, IncrFails, ExpireRepeated, ExpireFails, Crash
<1> QED BY <1>1, <1>2, TypeCorrect, PTL DEF Spec

-----------------------------------------------------------------------------------
(* The limiter implements the quota.                                              *)

\* A key that has a TTL will have lived for a whole window when it expires, and an
\* absent key has neither TTL nor age.
Windows ==
  /\ \A c \in Clients : ttl[c] > 0 => count[c] > 0 /\ ttl[c] + keyAge[c] >= Window
  /\ \A c \in Clients : count[c] = 0 => keyAge[c] = 0

\* The verdict as the reply of INCR alone determines it.
replyVerdict == [r \in Requests |->
                   IF pc[r] = "open" THEN "bypassed"
                   ELSE IF ticket[r] = 0 THEN "none"
                   ELSE IF Entitled(r) THEN "admitted" ELSE "refused"]

LEMMA NextWindows == TypeOK /\ Windows /\ [Next]_vars => Windows'
<1> SUFFICES ASSUME TypeOK, Windows, [Next]_vars PROVE Windows'
  OBVIOUS
<1>1. ASSUME NEW r \in Requests, Arrive(r) PROVE Windows'
  BY <1>1 DEF TypeOK, Windows, Arrive, Goto, redis, history
<1>2. ASSUME NEW r \in Requests, OpenWindow(r) PROVE Windows'
  BY <1>2 DEF TypeOK, Windows, OpenWindow, Counted, RedisIncr, Goto
<1>3. ASSUME NEW r \in Requests, Continue(r) PROVE Windows'
  BY <1>3 DEF TypeOK, Windows, Continue, Counted, RedisIncr, Decide, Goto
<1>4. ASSUME NEW r \in Requests, IncrRepeated(r) PROVE Windows'
  BY <1>4 DEF TypeOK, Windows, IncrRepeated, RedisIncr, history
<1>5. ASSUME NEW r \in Requests, IncrFails(r) PROVE Windows'
  BY <1>5 DEF TypeOK, Windows, IncrFails, RedisIncr, Goto, history
<1>6. ASSUME NEW r \in Requests, Expire(r) \/ ExpireRepeated(r) \/ ExpireFails(r) PROVE Windows'
  <2>1. UNCHANGED <<count, keyAge>> /\ (RedisExpire(ip[r]) \/ UNCHANGED ttl)
    BY <1>6 DEF Expire, ExpireRepeated, ExpireFails, history
  <2> QED BY <2>1, WindowAssumption DEF TypeOK, Windows, RedisExpire
<1>8. ASSUME Crash PROVE Windows'
  BY <1>8 DEF TypeOK, Windows, Crash, Working, redis, history
<1>9. ASSUME Tick PROVE Windows'
  BY <1>9, WindowAssumption DEF TypeOK, Windows, Tick, Elapse, Expiring
<1>10. CASE UNCHANGED vars
  BY <1>10 DEF Windows, vars, redis, history
<1> QED
  BY <1>1, <1>2, <1>3, <1>4, <1>5, <1>6, <1>8, <1>9, <1>10 DEF Next, Handle

LEMMA WindowsInvariant == Spec => []Windows
<1>1. Init => Windows
  BY DEF Init, Windows
<1> QED BY <1>1, NextWindows, TypeCorrect, PTL DEF Spec

LEMMA InitQuota == Init => Q!QInit
<1> SUFFICES ASSUME Init PROVE Q!QInit
  OBVIOUS
<1>1. quotaLeft = [c \in Clients |-> Limit]
  BY LimitAssumption DEF Init, quotaLeft
<1>2. quotaVerdict = [r \in Requests |-> "none"]
  BY DEF Init, quotaVerdict
<1> QED BY <1>1, <1>2 DEF Init, Q!QInit

\* What a step of INCR does to the quota of the client.
LEMMA UseQuota ==
  ASSUME TypeOK, NEW c \in Clients, RedisIncr(c)
  PROVE  \/ count[c] < Limit /\ Q!Use(c)
         \/ count[c] >= Limit /\ quotaLeft' = quotaLeft
<1>1. /\ count[c] \in Nat /\ Limit \in Nat
      /\ \A d \in Clients : count'[d] = IF d = c THEN count[c] + 1 ELSE count[d]
  BY LimitAssumption DEF TypeOK, RedisIncr
<1>2. ASSUME count[c] < Limit PROVE Q!Use(c)
  <2>1. quotaLeft[c] = Limit - count[c]
    BY <1>2 DEF quotaLeft
  <2>2. \A d \in Clients : quotaLeft'[d] = IF d = c THEN quotaLeft[c] - 1 ELSE quotaLeft[d]
    BY <1>1, <1>2 DEF quotaLeft
  <2>3. quotaLeft' = [quotaLeft EXCEPT ![c] = @ - 1]
    BY <2>2 DEF quotaLeft
  <2> QED BY <1>1, <1>2, <2>1, <2>3 DEF Q!Use
<1>3. ASSUME count[c] >= Limit PROVE quotaLeft' = quotaLeft
  BY <1>1, <1>3 DEF quotaLeft
<1> QED BY <1>1, <1>2, <1>3

LEMMA StepQuota ==
  TypeOK /\ Windows /\ Decided /\ Decided' /\ [Next]_vars => [Q!QNext]_(Q!qvars)
<1> SUFFICES ASSUME TypeOK, Windows, Decided, Decided', [Next]_vars
             PROVE  [Q!QNext]_(Q!qvars)
  OBVIOUS
<1>0. quotaVerdict = replyVerdict /\ quotaVerdict' = replyVerdict'
  BY DEF Decided, quotaVerdict, replyVerdict, Admitted
<1>1. ASSUME UNCHANGED <<ip, count, keyAge, replyVerdict>> PROVE UNCHANGED Q!qvars
  BY <1>0, <1>1 DEF Q!qvars, quotaLeft
<1>2. ASSUME NEW r \in Requests, Arrive(r) PROVE UNCHANGED Q!qvars
  <2>1. replyVerdict' = replyVerdict
    BY <1>2 DEF TypeOK, Arrive, Goto, replyVerdict, Entitled
  <2> QED BY <1>1, <1>2, <2>1 DEF Arrive, redis, history
<1>3. ASSUME NEW r \in Requests, Counted(r), pc' = [pc EXCEPT ![r] = pc'[r]], pc'[r] # "open"
      PROVE  Q!Admit(r) \/ Q!Refuse(r)
  <2>1. ticket[r] = 0 /\ pc[r] = "incr" /\ replyVerdict[r] = "none"
    BY <1>3 DEF Decided, Counted, replyVerdict
  <2>2. CASE count[ip[r]] + 1 <= Limit
    <3>1. Q!Use(ip[r])
      BY <1>3, <2>2, UseQuota, LimitAssumption DEF TypeOK, Counted
    <3>2. replyVerdict' = [replyVerdict EXCEPT ![r] = "admitted"]
      <4>1. replyVerdict'[r] = "admitted"
        BY <1>3, <2>2 DEF TypeOK, Counted, replyVerdict, Entitled
      <4> QED BY <1>3, <4>1 DEF TypeOK, Counted, replyVerdict, Entitled
    <3> QED BY <1>0, <1>3, <2>1, <3>1, <3>2 DEF Q!Admit, Q!Rule, Counted
  <2>3. CASE count[ip[r]] + 1 > Limit
    <3>1. quotaLeft' = quotaLeft /\ quotaLeft[ip[r]] = 0
      BY <1>3, <2>3, LimitAssumption DEF TypeOK, Counted, RedisIncr, quotaLeft
    <3>2. replyVerdict' = [replyVerdict EXCEPT ![r] = "refused"]
      <4>1. replyVerdict'[r] = "refused"
        BY <1>3, <2>3, LimitAssumption DEF TypeOK, Counted, replyVerdict, Entitled
      <4> QED BY <1>3, <4>1 DEF TypeOK, Counted, replyVerdict, Entitled
    <3> QED BY <1>0, <1>3, <2>1, <3>1, <3>2 DEF Q!Refuse, Q!Rule, Counted
  <2> QED BY <1>3, <2>2, <2>3, LimitAssumption DEF TypeOK
<1>4. ASSUME NEW r \in Requests, OpenWindow(r) \/ Continue(r)
      PROVE  Q!Admit(r) \/ Q!Refuse(r)
  <2>1. Counted(r) /\ pc' = [pc EXCEPT ![r] = pc'[r]] /\ pc'[r] # "open"
    BY <1>4 DEF TypeOK, OpenWindow, Continue, Decide, Goto
  <2> QED BY <1>3, <2>1
<1>5. ASSUME NEW r \in Requests, IncrRepeated(r)
      PROVE  Q!Waste(ip[r]) \/ UNCHANGED Q!qvars
  <2>1. Q!Use(ip[r]) \/ quotaLeft' = quotaLeft
    <3>1. ip[r] \in Clients /\ RedisIncr(ip[r])
      BY <1>5 DEF TypeOK, IncrRepeated
    <3> QED BY <3>1, UseQuota
  <2>2. replyVerdict' = replyVerdict
    BY <1>5 DEF IncrRepeated, replyVerdict, Entitled
  <2> QED BY <1>0, <1>5, <2>1, <2>2 DEF Q!Waste, Q!qvars, IncrRepeated, history
<1>6. ASSUME NEW r \in Requests, IncrFails(r) PROVE Q!Bypass(r)
  <2>1. Q!Use(ip[r]) \/ quotaLeft' = quotaLeft
    <3>1. ip[r] \in Clients
      BY DEF TypeOK
    <3>2. CASE RedisIncr(ip[r])
      BY <3>1, <3>2, UseQuota
    <3>3. CASE UNCHANGED count
      BY <3>3 DEF quotaLeft
    <3> QED BY <1>6, <3>2, <3>3 DEF IncrFails
  <2>2. replyVerdict[r] = "none"
    BY <1>6 DEF Decided, IncrFails, replyVerdict
  <2>3. replyVerdict' = [replyVerdict EXCEPT ![r] = "bypassed"]
    BY <1>6 DEF TypeOK, IncrFails, Goto, replyVerdict, Entitled
  <2> QED BY <1>0, <1>6, <2>1, <2>2, <2>3 DEF Q!Bypass, Q!Rule, IncrFails, history
<1>7. ASSUME NEW r \in Requests, Expire(r) \/ ExpireRepeated(r) \/ ExpireFails(r)
      PROVE  UNCHANGED Q!qvars
  <2>1. replyVerdict' = replyVerdict
    BY <1>7 DEF TypeOK, Expire, ExpireRepeated, ExpireFails, Decide, Goto, replyVerdict, Entitled
  <2> QED BY <1>1, <1>7, <2>1 DEF Expire, ExpireRepeated, ExpireFails, history
<1>8. ASSUME Crash PROVE UNCHANGED Q!qvars
  <2>1. replyVerdict' = replyVerdict
    BY <1>8 DEF TypeOK, Crash, Working, replyVerdict, Entitled
  <2> QED BY <1>1, <1>8, <2>1 DEF Crash, redis, history
<1>9. ASSUME Tick PROVE Q!QTick
  <2>1. replyVerdict' = replyVerdict
    BY <1>9 DEF Tick, replyVerdict, Entitled
  <2>2. \A c \in Clients : Q!Used(c) <=> count[c] > 0
    BY LimitAssumption DEF TypeOK, Q!Used, quotaLeft
  <2>3. Expiring \in SUBSET Q!Renewable
    BY <2>2, WindowAssumption DEF TypeOK, Windows, Expiring, Q!Renewable
  <2>4. quotaLeft' = [c \in Clients |-> IF c \in Expiring THEN Limit ELSE quotaLeft[c]]
    BY <1>9, LimitAssumption DEF TypeOK, Tick, quotaLeft
  <2>5. keyAge' = [c \in Clients |->
                     IF c \in Expiring \/ ~Q!Used(c) THEN 0
                     ELSE IF keyAge[c] < Window THEN keyAge[c] + 1 ELSE keyAge[c]]
    BY <1>9, <2>2 DEF TypeOK, Tick, Elapse
  <2> QED BY <1>0, <1>9, <2>1, <2>3, <2>4, <2>5 DEF Q!QTick, Tick
<1>10. CASE UNCHANGED vars
  BY <1>0, <1>10 DEF vars, redis, history, Q!qvars, quotaLeft, replyVerdict, Entitled
<1>11. \A r \in Requests : ip[r] \in Clients
  BY DEF TypeOK
<1> QED
  BY <1>2, <1>4, <1>5, <1>6, <1>7, <1>8, <1>9, <1>10, <1>11 DEF Next, Handle, Q!QNext

\* Whatever fails, the limiter decides as a quota of Limit admissions per window
\* would.
THEOREM Implementation == Spec => ImplementsQuota
  BY InitQuota, StepQuota, TypeCorrect, WindowsInvariant, DecidedInvariant, PTL
     DEF Spec, ImplementsQuota, Q!QSpec
-----------------------------------------------------------------------------------
(* Bursts at the boundary of two windows.                                         *)

\* A request of the previous window is at least as old as the key of the current
\* one, and a request of a window before that is at least Window ticks old.
Ages ==
  \A r \in Requests : ticket[r] # 0 =>
    /\ epoch[r] + 1 = life[ip[r]] /\ count[ip[r]] > 0 => age[r] >= keyAge[ip[r]]
    /\ epoch[r] + 1 < life[ip[r]] => age[r] = Window

LEMMA NextAges == TypeOK /\ Tickets /\ Windows /\ Ages /\ [Next]_vars => Ages'
<1> SUFFICES ASSUME TypeOK, Tickets, Windows, Ages, [Next]_vars PROVE Ages'
  OBVIOUS
<1>1. ASSUME NEW r \in Requests
      PROVE  /\ ip[r] \in Clients /\ epoch[r] \in Nat /\ life[ip[r]] \in Nat
             /\ count[ip[r]] \in Nat /\ age[r] \in 0..Window /\ keyAge[ip[r]] \in 0..Window
             /\ count[ip[r]] = 0 => keyAge[ip[r]] = 0
  BY DEF TypeOK, Windows
<1>2. ASSUME UNCHANGED <<ip, ticket, epoch, life, age, keyAge>> PROVE Ages'
  <2> SUFFICES ASSUME NEW r \in Requests, ticket[r] # 0
               PROVE  /\ epoch[r] + 1 = life[ip[r]] => age[r] >= keyAge[ip[r]]
                      /\ epoch[r] + 1 < life[ip[r]] => age[r] = Window
    BY <1>2 DEF Ages
  <2> QED BY <1>1 DEF Ages
<1>3. ASSUME NEW r \in Requests, Counted(r) PROVE Ages'
  <2> SUFFICES ASSUME NEW q \in Requests, ticket'[q] # 0
               PROVE  /\ epoch'[q] + 1 = life'[ip'[q]] /\ count'[ip'[q]] > 0
                           => age'[q] >= keyAge'[ip'[q]]
                      /\ epoch'[q] + 1 < life'[ip'[q]] => age'[q] = Window
    BY DEF Ages
  <2>1. CASE q = r
    BY <1>3, <2>1 DEF TypeOK, Counted
  <2>2. CASE q # r
    <3>1. /\ ticket'[q] = ticket[q] /\ epoch'[q] = epoch[q] /\ age'[q] = age[q]
          /\ ip'[q] = ip[q] /\ life' = life /\ keyAge' = keyAge
      BY <1>3, <2>2 DEF TypeOK, Counted
    <3>2. count[ip[q]] = 0 => keyAge[ip[q]] = 0
      BY DEF TypeOK, Windows
    <3>3. /\ count[ip[q]] \in Nat /\ age[q] \in 0..Window
          /\ keyAge[ip[q]] \in 0..Window
      BY DEF TypeOK
    <3> QED BY <3>1, <3>2, <3>3 DEF Ages
  <2> QED BY <2>1, <2>2
<1>4. ASSUME NEW r \in Requests, IncrRepeated(r) \/ IncrFails(r) \/ ExpireRepeated(r) PROVE Ages'
  BY <1>2, <1>4 DEF IncrRepeated, IncrFails, ExpireRepeated, history
<1>5. ASSUME NEW r \in Requests, Arrive(r) \/ Expire(r) \/ ExpireFails(r) PROVE Ages'
  BY <1>2, <1>5 DEF Arrive, Expire, ExpireFails, history
<1>6. ASSUME Crash PROVE Ages'
  BY <1>2, <1>6 DEF Crash, history
<1>7. ASSUME Tick PROVE Ages'
  <2> SUFFICES ASSUME NEW q \in Requests, ticket'[q] # 0
               PROVE  /\ epoch'[q] + 1 = life'[ip'[q]] /\ count'[ip'[q]] > 0
                           => age'[q] >= keyAge'[ip'[q]]
                      /\ epoch'[q] + 1 < life'[ip'[q]] => age'[q] = Window
    BY DEF Ages
  <2> DEFINE c == ip[q]
  <2>1. /\ c \in Clients /\ life[c] \in Nat /\ count[c] \in Nat /\ epoch[q] \in Nat
        /\ age[q] \in 0..Window /\ keyAge[c] \in 0..Window /\ ttl[c] \in 0..Window
        /\ ticket[q] # 0 /\ epoch'[q] = epoch[q] /\ ip' = ip /\ age'[q] = Elapse(age[q])
    BY <1>7 DEF TypeOK, Tick
  <2>2. CASE ttl[c] = 1
    <3>1. life'[c] = life[c] + 1 /\ count'[c] = 0
      BY <1>7, <2>1, <2>2 DEF Tick, Expiring
    <3>2. count[c] > 0 /\ keyAge[c] + 1 >= Window
      BY <2>1, <2>2, WindowAssumption DEF Windows
    <3>3. epoch[q] + 1 <= life[c] => age[q] + 1 >= Window
      BY <2>1, <3>2, WindowAssumption DEF Ages
    <3> QED BY <2>1, <3>1, <3>3, WindowAssumption DEF Elapse
  <2>3. CASE ttl[c] # 1
    <3>1. life'[c] = life[c] /\ count'[c] = count[c]
      BY <1>7, <2>1, <2>3 DEF Tick, Expiring
    <3>2. count[c] > 0 => keyAge'[c] = Elapse(keyAge[c])
      BY <1>7, <2>1, <2>3 DEF Tick, Expiring
    <3> HIDE DEF c
    <3>3. epoch[q] + 1 = life[c] /\ count[c] > 0 => age[q] >= keyAge[c]
      BY <2>1 DEF Ages, c
    <3>4. epoch[q] + 1 < life[c] => age[q] = Window
      BY <2>1 DEF Ages, c
    <3>5. ip'[q] = c
      BY <2>1 DEF c
    <3> QED BY <2>1, <3>1, <3>2, <3>3, <3>4, <3>5, WindowAssumption DEF Elapse
  <2> QED BY <2>2, <2>3
<1>8. CASE UNCHANGED vars
  BY <1>2, <1>8 DEF vars, history
<1> QED
  BY <1>3, <1>4, <1>5, <1>6, <1>7, <1>8 DEF Next, Handle, OpenWindow, Continue

\* A client never gets more than two quotas in any Window ticks.
THEOREM BurstsBounded == Spec => []BurstBound
<1>1. TypeOK /\ Tickets /\ Decided /\ Ages => BurstBound
  <2> SUFFICES ASSUME TypeOK, Tickets, Decided, Ages, NEW c \in Clients
               PROVE  Cardinality({r \in Requests : /\ ip[r] = c
                                                    /\ Admitted(r)
                                                    /\ age[r] < Window}) <= 2 * Limit
    BY DEF BurstBound
  <2> DEFINE R == {r \in Requests : ip[r] = c /\ Admitted(r) /\ age[r] < Window}
             S == AdmittedIn(c, life[c])
             T == AdmittedIn(c, life[c] - 1)
  <2>1. R \subseteq S \union T
    <3> SUFFICES ASSUME NEW r \in R PROVE r \in S \union T
      OBVIOUS
    <3>1. /\ epoch[r] \in Nat /\ life[c] \in Nat /\ ticket[r] # 0
          /\ age[r] # Window /\ epoch[r] <= life[c]
      BY WindowAssumption DEF TypeOK, Tickets, Admitted, Decided, Entitled
    <3>2. ~(epoch[r] + 1 < life[c])
      BY <3>1 DEF Ages
    <3> QED BY <3>1, <3>2 DEF AdmittedIn
  <2>2. /\ IsFiniteSet(S) /\ Cardinality(S) <= Limit
        /\ IsFiniteSet(T) /\ Cardinality(T) <= Limit
    BY DistinctTickets
  <2> HIDE DEF R, S, T
  <2>3. IsFiniteSet(S \union T) /\ Cardinality(S \union T) <= 2 * Limit
    <3>1. /\ IsFiniteSet(S \union T) /\ IsFiniteSet(S \intersect T)
          /\ Cardinality(S \union T)
               = Cardinality(S) + Cardinality(T) - Cardinality(S \intersect T)
      BY <2>2, FS_Union, FS_Intersection
    <3>2. /\ Cardinality(S) \in Nat /\ Cardinality(T) \in Nat
          /\ Cardinality(S \intersect T) \in Nat
      BY <2>2, <3>1, FS_CardinalityType
    <3> QED BY <2>2, <3>1, <3>2, LimitAssumption
  <2>4. Cardinality(R) <= Cardinality(S \union T) /\ IsFiniteSet(R)
    BY <2>1, <2>3, FS_Subset
  <2>5. Cardinality(R) \in Nat /\ Cardinality(S \union T) \in Nat
    BY <2>3, <2>4, FS_CardinalityType
  <2> QED BY <2>3, <2>4, <2>5, LimitAssumption DEF R
<1>2. Init => Ages
  BY DEF Init, Ages
<1> QED
  BY <1>1, <1>2, NextAges, TypeCorrect, TicketsInvariant, WindowsInvariant,
     DecidedInvariant, PTL DEF Spec
-----------------------------------------------------------------------------------
(* A window that has its end keeps it, but for repetitions of EXPIRE.             *)

\* An opener of an earlier window than that of s has sent its EXPIRE again.
Outrun(s) == \E r \in Requests : ip[r] = ip[s] /\ Repeated(r) /\ epoch[r] < epoch[s]

\* The key for which a request is about to set the first expiry is the one that it has
\* created, and has none yet, unless the request was outrun.
Opening ==
  \A s \in Requests : pc[s] = "expire" /\ retries[s] = 0 =>
    \/ count[ip[s]] > 0 /\ ttl[ip[s]] = 0 /\ epoch[s] = life[ip[s]]
    \/ Outrun(s)

\* r sends EXPIRE, which Redis executes.
Sends(r) == /\ pc[r] = "expire"
            /\ RedisExpire(ip[r])
            /\ pc'[r] # "expire" \/ retries'[r] = retries[r] + 1
            /\ \A q \in Requests \ {r} : pc'[q] = pc[q] /\ retries'[q] = retries[q]
            /\ UNCHANGED <<ip, ticket, count, epoch, life>>

\* Nothing else sets an expiry.
LEMMA Senders ==
  ASSUME TypeOK, NEW r \in Requests, Expire(r) \/ ExpireRepeated(r) \/ ExpireFails(r)
  PROVE  Sends(r) \/ UNCHANGED <<ip, ticket, redis, epoch, life>>
<1>1. CASE Expire(r)
  BY <1>1 DEF TypeOK, Expire, Sends, Decide, Goto, history
<1>2. CASE ExpireRepeated(r)
  BY <1>2, RetryAssumption DEF TypeOK, ExpireRepeated, Sends, history
<1>3. CASE ExpireFails(r)
  BY <1>3 DEF TypeOK, ExpireFails, Sends, Decide, Goto, redis, history
<1> QED BY <1>1, <1>2, <1>3

\* What was repeated stays repeated.
LEMMA RepeatedStays ==
  ASSUME TypeOK, Decided, [Next]_vars, NEW r \in Requests, Repeated(r)
  PROVE  Repeated(r)' /\ UNCHANGED <<ip[r], epoch[r]>>
<1>1. ticket[r] = 1 /\ retries[r] > 0 /\ pc[r] \notin {"new", "incr"}
  BY DEF Repeated, Decided
<1>2. ASSUME NEW q \in Requests, Arrive(q) \/ IncrRepeated(q) \/ IncrFails(q)
      PROVE  Repeated(r)' /\ UNCHANGED <<ip[r], epoch[r]>>
  BY <1>1, <1>2 DEF TypeOK, Repeated, Arrive, IncrRepeated, IncrFails, history
<1>3. ASSUME NEW q \in Requests, OpenWindow(q) \/ Continue(q)
      PROVE  Repeated(r)' /\ UNCHANGED <<ip[r], epoch[r]>>
  BY <1>1, <1>3 DEF TypeOK, Repeated, OpenWindow, Continue, Counted
<1>4. ASSUME NEW q \in Requests, Expire(q) \/ ExpireRepeated(q) \/ ExpireFails(q)
      PROVE  Repeated(r)' /\ UNCHANGED <<ip[r], epoch[r]>>
  BY <1>1, <1>4, RetryAssumption
     DEF TypeOK, Repeated, Expire, ExpireRepeated, ExpireFails, history
<1>5. CASE Crash \/ Tick \/ UNCHANGED vars
  BY <1>1, <1>5 DEF Repeated, Crash, Tick, vars, history
<1> QED BY <1>2, <1>3, <1>4, <1>5 DEF Next, Handle

LEMMA NextOpening ==
  ASSUME TypeOK, Decided, Openers, Tickets, Windows, Opening, [Next]_vars
  PROVE  Opening'
<1> SUFFICES ASSUME NEW s \in Requests, pc'[s] = "expire", retries'[s] = 0
             PROVE  \/ count'[ip'[s]] > 0 /\ ttl'[ip'[s]] = 0 /\ epoch'[s] = life'[ip'[s]]
                    \/ Outrun(s)'
  BY DEF Opening
<1>1. \A r \in Requests : /\ ip[r] \in Clients /\ count[ip[r]] \in Nat /\ epoch[r] \in Nat
                          /\ retries[r] \in Nat /\ life[ip[r]] \in Nat
  BY RetryAssumption DEF TypeOK
<1>2. CASE OpenWindow(s)
  <2>1. count[ip[s]] = 0 /\ ttl[ip[s]] = 0
    BY <1>1, <1>2 DEF TypeOK, Windows, OpenWindow, Counted
  <2> QED BY <1>1, <1>2, <2>1 DEF TypeOK, OpenWindow, Counted, RedisIncr
<1>3. CASE ~OpenWindow(s)
  <2>1. pc[s] = "expire" /\ retries[s] = 0 /\ UNCHANGED <<ip[s], epoch[s]>>
    <3>1. ASSUME NEW q \in Requests, Arrive(q) \/ IncrRepeated(q) \/ IncrFails(q)
          PROVE  pc[s] = "expire" /\ retries[s] = 0 /\ UNCHANGED <<ip[s], epoch[s]>>
      BY <3>1, RetryAssumption DEF TypeOK, Arrive, IncrRepeated, IncrFails, Goto, history
    <3>2. ASSUME NEW q \in Requests, OpenWindow(q) \/ Continue(q)
          PROVE  pc[s] = "expire" /\ retries[s] = 0 /\ UNCHANGED <<ip[s], epoch[s]>>
      BY <1>3, <3>2 DEF TypeOK, OpenWindow, Continue, Counted, Decide, Goto
    <3>3. ASSUME NEW q \in Requests, Expire(q) \/ ExpireRepeated(q) \/ ExpireFails(q)
          PROVE  pc[s] = "expire" /\ retries[s] = 0 /\ UNCHANGED <<ip[s], epoch[s]>>
      BY <3>3, RetryAssumption
         DEF TypeOK, Expire, ExpireRepeated, ExpireFails, Decide, Goto, history
    <3>4. CASE Crash \/ Tick \/ UNCHANGED vars
      BY <3>4 DEF TypeOK, Crash, Tick, vars, Working, history
    <3> QED BY <3>1, <3>2, <3>3, <3>4 DEF Next, Handle
  <2>2. CASE Outrun(s)
    BY <2>1, <2>2, RepeatedStays DEF Outrun
  <2>3. CASE ~Outrun(s)
    <3>1. count[ip[s]] > 0 /\ ttl[ip[s]] = 0 /\ epoch[s] = life[ip[s]]
      BY <2>1, <2>3 DEF Opening
    <3>2. ASSUME UNCHANGED <<ttl, life>>, \A c \in Clients : count'[c] \in Nat /\ count'[c] >= count[c]
          PROVE  count'[ip'[s]] > 0 /\ ttl'[ip'[s]] = 0 /\ epoch'[s] = life'[ip'[s]]
      BY <1>1, <2>1, <3>1, <3>2
    <3>3. UNCHANGED count => \A c \in Clients : count'[c] \in Nat /\ count'[c] >= count[c]
      BY DEF TypeOK
    <3>4. ASSUME NEW q \in Requests, RedisIncr(ip[q])
          PROVE  \A c \in Clients : count'[c] \in Nat /\ count'[c] >= count[c]
      BY <3>4 DEF TypeOK, RedisIncr
    <3>5. ASSUME NEW q \in Requests,
                 OpenWindow(q) \/ Continue(q) \/ IncrRepeated(q) \/ IncrFails(q) \/ Arrive(q)
          PROVE  count'[ip'[s]] > 0 /\ ttl'[ip'[s]] = 0 /\ epoch'[s] = life'[ip'[s]]
      <4>1. UNCHANGED <<ttl, life>> /\ (RedisIncr(ip[q]) \/ UNCHANGED count)
        BY <3>5 DEF OpenWindow, Continue, Counted, IncrRepeated, IncrFails, Arrive, redis, history
      <4> QED BY <3>2, <3>3, <3>4, <4>1
    <3>6. CASE Crash \/ UNCHANGED vars
      BY <3>2, <3>3, <3>6 DEF Crash, vars, redis, history
    <3>7. CASE Tick
      BY <1>1, <2>1, <3>1, <3>7 DEF TypeOK, Tick, Expiring
    <3>8. ASSUME NEW q \in Requests, Expire(q) \/ ExpireRepeated(q) \/ ExpireFails(q)
          PROVE  \/ count'[ip'[s]] > 0 /\ ttl'[ip'[s]] = 0 /\ epoch'[s] = life'[ip'[s]]
                 \/ Outrun(s)'
      <4>1. CASE UNCHANGED <<ip, ticket, redis, epoch, life>>
        BY <3>1, <4>1 DEF redis
      <4>2. CASE Sends(q) /\ ip[q] # ip[s]
        BY <1>1, <3>1, <4>2 DEF TypeOK, Sends, RedisExpire
      <4>3. CASE Sends(q) /\ ip[q] = ip[s]
        <5>1. q # s
          BY <1>1, <2>1, <4>3 DEF Sends
        <5>2. ticket[q] = 1 /\ ticket[s] = 1 /\ pc[q] = "expire"
          BY <2>1, <4>3 DEF Sends, Decided, Openers
        <5>3. epoch[q] < epoch[s]
          BY <1>1, <3>1, <4>3, <5>1, <5>2 DEF Tickets
        <5>4. CASE retries[q] = 0
          <6>1. Outrun(q)
            BY <1>1, <3>1, <4>3, <5>2, <5>3, <5>4 DEF Opening
          <6> QED BY <1>1, <2>3, <4>3, <5>3, <6>1 DEF Outrun
        <5>5. CASE retries[q] # 0
          BY <1>1, <2>3, <4>3, <5>2, <5>3, <5>5 DEF Outrun, Repeated
        <5> QED BY <5>4, <5>5
      <4> QED BY <3>8, <4>1, <4>2, <4>3, Senders
    <3> QED BY <3>5, <3>6, <3>7, <3>8 DEF Next, Handle
  <2> QED BY <2>2, <2>3
<1> QED BY <1>2, <1>3

LEMMA OpeningInvariant == Spec => []Opening
<1>1. Init => Opening
  BY DEF Init, Opening
<1>2. /\ TypeOK /\ Decided /\ Openers /\ Tickets /\ Windows /\ Opening /\ [Next]_vars
      => Opening'
  BY NextOpening
<1> QED
  BY <1>1, <1>2, TypeCorrect, DecidedInvariant, OpenersInvariant, TicketsInvariant,
     WindowsInvariant, PTL DEF Spec

\* Whatever fails, the end of a window is moved only by a repetition of EXPIRE, that of
\* its opener or one of an earlier opener, and as often as the client repeats it.
THEOREM WindowsKeepTheirEnd == Spec => ProlongedOnlyByRepetition
<1>1. ASSUME TypeOK, Decided, Openers, Opening, [Next]_vars, NEW c \in Clients, ttl[c] > 0
      PROVE  EndKept(c) \/ EndMoved(c)
  <2>1. CASE UNCHANGED ttl
    BY <1>1, <2>1 DEF TypeOK, EndKept
  <2>2. ASSUME NEW s \in Requests, Expire(s) \/ ExpireRepeated(s) \/ ExpireFails(s)
        PROVE  EndKept(c) \/ EndMoved(c)
    <3>1. CASE ~Sends(s)
      BY <1>1, <2>1, <2>2, <3>1, Senders DEF redis
    <3>2. CASE Sends(s) /\ ip[s] # c
      <4>1. ttl'[c] = ttl[c]
        BY <3>2 DEF TypeOK, Sends, RedisExpire
      <4> QED BY <1>1, <4>1 DEF TypeOK, EndKept
    <3>3. CASE Sends(s) /\ ip[s] = c
      <4>1. ttl'[c] > 0
        BY <1>1, <3>3, WindowAssumption DEF TypeOK, Sends, RedisExpire
      <4>2. /\ pc[s] = "expire" /\ (pc'[s] # "expire" \/ retries'[s] > retries[s])
            /\ retries[s] \in Nat /\ ticket[s] = 1
        BY <1>1, <3>3, RetryAssumption DEF TypeOK, Sends, Decided, Openers
      <4>3. CASE retries[s] = 0
        <5>1. Outrun(s)
          BY <1>1, <3>3, <4>2, <4>3 DEF Opening
        <5>2. PICK r \in Requests : ip[r] = c /\ Repeated(r) /\ epoch[r] < epoch[s]
          BY <3>3, <5>1 DEF Outrun
        <5> QED BY <3>3, <4>1, <4>2, <5>2 DEF EndMoved
      <4>4. CASE retries[s] # 0
        <5>1. Repeated(s)
          BY <4>2, <4>4 DEF Repeated
        <5> QED BY <3>3, <4>1, <4>2, <5>1 DEF EndMoved
      <4> QED BY <4>3, <4>4
    <3> QED BY <3>1, <3>2, <3>3
  <2>3. CASE Tick
    BY <1>1, <2>3 DEF TypeOK, Tick, Expiring, EndKept
  <2> QED
    BY <1>1, <2>1, <2>2, <2>3 DEF Next, Handle, Arrive, OpenWindow, Continue, Counted,
       IncrRepeated, IncrFails, Crash, vars, redis
<1>2. TypeOK /\ Decided /\ Openers /\ Opening /\ [Next]_vars =>
        [\A c \in Clients : ttl[c] > 0 => EndKept(c) \/ EndMoved(c)]_vars
  BY <1>1
<1> QED
  BY <1>2, TypeCorrect, DecidedInvariant, OpenersInvariant, OpeningInvariant, PTL
     DEF Spec, ProlongedOnlyByRepetition
==================================================================================
