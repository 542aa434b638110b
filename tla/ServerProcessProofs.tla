--------------------------- MODULE ServerProcessProofs ---------------------------
(* Theorems about ServerProcess for every set of programs, requests and faults.   *)
EXTENDS ServerProcess, TLAPS

-----------------------------------------------------------------------------------
(* Type correctness, variable by variable.                                        *)

\* What comes after a stage of the start is a stage.
LEMMA StartStages ==
  ASSUME TypeOK, main \in DOMAIN After[program]
  PROVE  After[program][main] \in Starting \union {"arming", "serving"}
BY ProgramsAssumption DEF TypeOK, AllPrograms, After, GeminiStart, AiStudioStart,
                          ChatgptStart, PostsStart, Starting

LEMMA TypeStep == ASSUME TypeOK, [Next]_vars PROVE TypeOK'
<1> USE DEF vars, server, stores, request, history, Next, Start, Stop, Gone, Exit, Goto,
            SetUpFails, FindBucket, MakeBucket, SetupMakesBucket, Listen, ListenMetrics,
            ListenFails, ListenMetricsFails, Signal, Kill, Shutdown, Deadline, GeminiDrained,
            GeminiShutDown, AiStudioDrained, AiStudioTimedOut, CloseRedis, ClosePool,
            CloseStore, PoolClosed, Flush, SpansGoTo, Return, Accept, Handle, UseRedis,
            Acquire, Query, Reply, Step, Meets, Export
<1>1. main' \in Starting \union {"arming", "serving"} \union Draining \union Closing
                  \union {"gone"}
  <2>1. CASE SetUp
    BY <2>1, StartStages DEF SetUp
  <2>2. CASE ~SetUp
    BY <2>2 DEF TypeOK, Starting, Draining, Closing
  <2> QED BY <2>1, <2>2
<1> USE DEF SetUp, TypeOK
<1>2. program' \in Programs /\ late' \in BOOLEAN
  OBVIOUS
<1>3. status' \in {"none", "ok", "failed", "killed"} /\ signalled' \in BOOLEAN
  OBVIOUS
<1>4. app' \in {"off", "open", "closed"}
  OBVIOUS
<1>5. scrape' \in {"off", "open", "closed"}
  OBVIOUS
<1>6. closed' \subseteq {"redis", "database"}
  OBVIOUS
<1>7. tracing' \in BOOLEAN
  OBVIOUS
<1>8. pc' \in [Requests -> Active \union {"new", "done", "cut"}]
  BY DEF Active
<1>9. span' \in [Requests -> {"none", "queued", "exported", "dropped", "refused"}]
  OBVIOUS
<1>10. bucket' \in BOOLEAN /\ rival' \in BOOLEAN
  OBVIOUS
<1>11. met' \in [Requests -> BOOLEAN]
  OBVIOUS
<1>12. failures' \subseteq FaultKinds
  BY DEF FaultKinds
<1> QED
  BY ONLY <1>1, <1>2, <1>3, <1>4, <1>5, <1>6, <1>7, <1>8, <1>9, <1>10, <1>11, <1>12
     DEF TypeOK

\* The type invariant of the processes, from their start to their end.
THEOREM TypeCorrect == Spec => []TypeOK
<1>1. Init => TypeOK
  BY DEF Init, TypeOK, Starting, FaultKinds
<1> QED BY <1>1, TypeStep, PTL DEF Spec

-----------------------------------------------------------------------------------
(* The inductive invariant.  Listeners are closed before requests are waited for: *)
(* whoever is still served when the stores are being closed has outlived the      *)
(* deadline, and nobody is served any more when the process is gone.              *)

\* Requests come in through the listener of the application only.
Admitting == /\ main \in Starting => app = "off"
             /\ main \in Draining \union Closing \union {"gone"} => app = "closed"
             /\ app = "off" => \A r \in Requests : pc[r] = "new"

\* Requests that are still served.
Outliving == \A r \in Requests : pc[r] \in Active =>
               /\ main # "gone"
               /\ main \in {"metrics"} \union Closing => late /\ program = "gemini"

\* Requests that are served no more.
Ending == /\ status = "none" <=> main # "gone"
          /\ \A r \in Requests : pc[r] = "cut" => main = "gone"
          /\ CutOnlyLate

\* The stores are closed one after another.
Closed == /\ closed # {} => main \in Closing \union {"gone"}
          /\ ClosedOnlyWhenLate

\* The provider goes last.
Traced == /\ ~tracing => main \in {"return", "gone"}
          /\ ~tracing => \A r \in Requests : span[r] # "queued"
          /\ main = "return" \/ status = "ok" => ~tracing
          /\ \A r \in Requests : span[r] = "refused" => late

\* The listener of the metrics is closed last, too.
Scraped == program = "gemini" /\ scrape = "closed" =>
             main \in {"metrics"} \union Closing \union {"gone"} \/ "bind" \in failures

\* What posts has found out about its bucket.
Explained == /\ main \in {"bucket", "make"} => program = "posts"
             /\ main = "make" /\ bucket => rival
             /\ FailureExplained

Inv == /\ TypeOK /\ Admitting /\ Outliving /\ Ending
       /\ Closed /\ Traced /\ Scraped /\ Explained

LEMMA InvInit == Init => Inv
BY DEF Init, Inv, TypeOK, Starting, Draining, Closing, Active, FaultKinds, Admitting,
       Outliving, Ending, CutOnlyLate, Closed, ClosedOnlyWhenLate, Traced, Scraped,
       Explained, FailureExplained

\* SetUp is the only step that looks up where it goes.
LEMMA SetUpStep ==
  ASSUME Inv, SetUp
  PROVE  Inv'
<1>1. /\ main \in {"tracer", "database", "redis", "arming"}
      /\ main' \in {"database", "redis", "arming", "serving", "bucket"}
      /\ main = "arming" => main' = "serving"
      /\ main' = "bucket" => program = "posts"
  BY ProgramsAssumption DEF Inv, TypeOK, AllPrograms, SetUp, After, GeminiStart,
                            AiStudioStart, ChatgptStart, PostsStart, Goto
<1>2. UNCHANGED <<program, status, signalled, late, app, scrape, closed, tracing, pc, span,
                  bucket, met, failures, rival>>
  BY DEF SetUp, Goto, stores, history
<1>3. TypeOK'
  BY TypeStep DEF Inv, Next, Start
<1>4. Admitting' /\ Outliving' /\ Closed'
  BY <1>1, <1>2 DEF Inv, Admitting, Outliving, Closed, ClosedOnlyWhenLate, Starting,
                    Draining, Closing, Active
<1>5. Ending'
  BY <1>1, <1>2 DEF Inv, Ending, CutOnlyLate
<1>6. Traced' /\ Scraped' /\ Explained'
  BY <1>1, <1>2 DEF Inv, Traced, Scraped, Explained, FailureExplained, Closing
<1> QED BY <1>3, <1>4, <1>5, <1>6 DEF Inv

LEMMA InvStep == ASSUME Inv, [Next]_vars, ~SetUp PROVE Inv'
<1> USE DEF vars, server, stores, request, history, Next, Start, Stop, Gone, Exit, Goto,
            SetUpFails, FindBucket, MakeBucket, SetupMakesBucket, Listen, ListenMetrics,
            ListenFails, ListenMetricsFails, Signal, Kill, Shutdown, Deadline, GeminiDrained,
            GeminiShutDown, AiStudioDrained, AiStudioTimedOut, CloseRedis, ClosePool,
            CloseStore, PoolClosed, Flush, SpansGoTo, Return, Accept, Handle, UseRedis,
            Acquire, Query, Reply, Step, Meets, Export, Starting, Draining, Closing
<1>1. TypeOK'
  BY TypeStep DEF Inv
<1>2. Admitting'
  <2>1. main' \in Starting => app' = "off"
    BY DEF Inv, Admitting
  <2>2. main' \in Draining \union Closing \union {"gone"} => app' = "closed"
    BY DEF Inv, Admitting
  <2>3. app' = "off" => \A r \in Requests : pc'[r] = "new"
    BY DEF Inv, Admitting, TypeOK
  <2> QED BY ONLY <2>1, <2>2, <2>3 DEF Admitting
<1>3. Outliving'
  BY DEF Inv, Admitting, Outliving, Active, TypeOK, InFlight
<1>4. Ending'
  <2>1. status' = "none" <=> main' # "gone"
    BY DEF Inv, Ending
  <2>2. ASSUME NEW r \in Requests, pc'[r] = "cut"
        PROVE  /\ main' = "gone"
               /\ \/ status' = "killed"
                  \/ late' /\ (status' = "ok" => program' = "gemini")
    BY <2>2 DEF Inv, Admitting, Outliving, Ending, CutOnlyLate, Active, TypeOK, InFlight
  <2> QED BY ONLY <2>1, <2>2 DEF Ending, CutOnlyLate
<1>5. Closed'
  <2>1. closed' # {} => main' \in Closing \union {"gone"}
    BY DEF Inv, Closed
  <2>2. ASSUME NEW r \in Requests, met'[r] PROVE late'
    BY <2>2 DEF Inv, Outliving, Closed, ClosedOnlyWhenLate, Active, TypeOK
  <2> QED BY ONLY <2>1, <2>2 DEF Closed, ClosedOnlyWhenLate
<1>6. Traced'
  <2>1. ~tracing' => main' \in {"return", "gone"}
    BY DEF Inv, Traced
  <2>2. ~tracing' => \A r \in Requests : span'[r] # "queued"
    BY DEF Inv, Traced, TypeOK
  <2>3. main' = "return" \/ status' = "ok" => ~tracing'
    BY DEF Inv, Traced
  <2>4. ASSUME NEW r \in Requests, span'[r] = "refused" PROVE late'
    BY <2>4 DEF Inv, Traced, TypeOK, Outliving, Active
  <2> QED BY ONLY <2>1, <2>2, <2>3, <2>4 DEF Traced
<1>7. Scraped'
  BY DEF Inv, Scraped
<1>8. Explained'
  <2>1. main' \in {"bucket", "make"} => program' = "posts"
    BY DEF Inv, Explained
  <2>2. main' = "make" /\ bucket' => rival'
    BY DEF Inv, Explained, TypeOK
  <2>3. FailureExplained'
    <3> SUFFICES ASSUME status' = "failed", failures' \intersect {"startup", "bind"} = {}
                 PROVE  \/ program' = "gemini" /\ signalled' /\ \A r \in Requests : pc'[r] = "new"
                        \/ program' = "aistudio" /\ late'
                        \/ program' = "posts" /\ rival'
      BY DEF FailureExplained
    \* Whoever has failed before is gone: nothing that the excuse rests on changes.
    <3>1. CASE status = "failed"
      <4>1. main = "gone" /\ app = "closed"
        BY <3>1 DEF Inv, Ending, Admitting
      <4>2. /\ program' = program /\ failures \subseteq failures'
            /\ signalled => signalled'
            /\ late => late'
            /\ rival => rival'
        OBVIOUS
      <4>3. ASSUME \A r \in Requests : pc[r] = "new"
            PROVE  \A r \in Requests : pc'[r] = "new"
        BY <4>1, <4>3 DEF Inv, TypeOK
      <4> QED
        BY ONLY <3>1, <4>2, <4>3, failures' \intersect {"startup", "bind"} = {}, Inv
           DEF Inv, Explained, FailureExplained
    \* Four actions end a process with an error, or begin to.
    <3>2. CASE status # "failed"
      <4>1. SetUpFails \/ MakeBucket \/ ListenFails \/ AiStudioTimedOut
        BY <3>2
      <4>2. CASE SetUpFails
        BY <4>2 DEF Inv, Admitting, Cancelled, InFlight, Active, TypeOK
      <4>3. CASE MakeBucket
        BY <3>2, <4>3 DEF Inv, Explained
      <4>4. CASE ListenFails
        BY <3>2, <4>4
      <4>5. CASE AiStudioTimedOut
        BY <4>5
      <4> QED BY ONLY <4>1, <4>2, <4>3, <4>4, <4>5
    <3> QED BY ONLY <3>1, <3>2
  <2> QED BY ONLY <2>1, <2>2, <2>3 DEF Explained
<1> QED BY ONLY <1>1, <1>2, <1>3, <1>4, <1>5, <1>6, <1>7, <1>8 DEF Inv

LEMMA Invariant == Spec => []Inv
<1>1. Inv /\ [Next]_vars => Inv'
  BY InvStep, SetUpStep
<1> QED BY <1>1, InvInit, PTL DEF Spec

-----------------------------------------------------------------------------------
(* What the invariant gives.                                                      *)

\* Requests are cut off by a kill or by the deadline of the shutdown only, and only
\* gemini reports success although it has cut one off.
THEOREM CutExplained == Spec => []CutOnlyLate
<1>1. Inv => CutOnlyLate
  BY DEF Inv, Ending
<1> QED BY <1>1, Invariant, PTL

\* No handler of gemini finds a store closed before the deadline.
THEOREM StoresOutliveHandlers == Spec => []ClosedOnlyWhenLate
<1>1. Inv => ClosedOnlyWhenLate
  BY DEF Inv, Closed
<1> QED BY <1>1, Invariant, PTL

\* Whoever returns from main has flushed the spans of all requests that ended in time.
THEOREM SpansFlushed == Spec => []NoSpanLeftBehind
<1>1. Inv => NoSpanLeftBehind
  BY DEF Inv, Traced, NoSpanLeftBehind
<1> QED BY <1>1, Invariant, PTL

\* The metrics of gemini are served for as long as requests drain in time.
THEOREM DrainObserved == Spec => []DrainObservable
<1>1. Inv => DrainObservable
  BY DEF Inv, Scraped, Outliving, DrainObservable, InFlight
<1> QED BY <1>1, Invariant, PTL

\* A process that fails without a failing store or port has one of three excuses.
THEOREM FailuresExplained == Spec => []FailureExplained
<1>1. Inv => FailureExplained
  BY DEF Inv, Explained
<1> QED BY <1>1, Invariant, PTL

-----------------------------------------------------------------------------------
(* The four programs are services.                                                *)

\* The abstract state, while nobody comes, goes or opens a door.
Still == UNCHANGED <<phase, signalled, late, closed, conn, status>>

\* Who is in the process when it ends is cut off; unless it is killed, nobody is, or
\* the deadline has passed.
LEMMA ExitEnds ==
  ASSUME Inv, NEW h \in {"ok", "failed", "killed"}, Exit(h), UNCHANGED <<signalled, late, closed>>,
         h = "ok" => phase = "draining",
         h \in {"ok", "failed"} => InFlight = {} \/ late
  PROVE  SV!End(h)
<1>1. main # "gone" /\ phase # "ended" /\ phase' = "ended"
  BY DEF Exit, phase
<1>2. SV!Served = InFlight
  BY DEF SV!Served, InFlight, conn, Inv, TypeOK, Active
<1>3. conn' = [r \in Requests |-> IF r \in SV!Served THEN "cut" ELSE conn[r]]
  <2>1. \A r \in Requests : pc'[r] = IF r \in InFlight THEN "cut" ELSE pc[r]
    BY DEF Exit
  <2> QED BY <1>2, <2>1 DEF conn, InFlight, Active
<1> QED BY <1>1, <1>2, <1>3 DEF SV!End, SV!Settled, Exit

\* The main goroutine.
LEMMA MainIsStep ==
  ASSUME Inv, Start \/ Stop \/ Deadline
  PROVE  SV!SvNext \/ Still
<1> USE DEF Goto
<1>1. CASE \/ SetUp \/ FindBucket \/ (MakeBucket /\ ~bucket) \/ GeminiDrained \/ GeminiShutDown
           \/ AiStudioDrained \/ PoolClosed \/ Flush
  <2>1. /\ main # "gone" /\ main' # "gone"
        /\ UNCHANGED <<signalled, late, closed, status, app, pc>>
    <3>1. CASE SetUp
      <4>1. main' \in Starting \union {"arming", "serving"}
        BY <3>1, StartStages DEF SetUp, Inv
      <4>2. main # "gone"
        BY <3>1, ProgramsAssumption DEF SetUp, Inv, TypeOK, AllPrograms, After, GeminiStart,
                                        AiStudioStart, ChatgptStart, PostsStart
      <4> QED BY <3>1, <4>1, <4>2 DEF SetUp, Starting, stores
    <3>2. CASE ~SetUp
      BY <1>1, <3>2 DEF FindBucket, MakeBucket, GeminiDrained, GeminiShutDown,
                        AiStudioDrained, PoolClosed, Flush, stores, request, Exit
    <3> QED BY <3>1, <3>2
  <2>2. phase' = phase
    BY <2>1 DEF phase
  <2>3. conn' = conn
    BY <2>1 DEF conn
  <2> QED BY <2>1, <2>2, <2>3 DEF Still
<1>2. CASE SetUpFails \/ (MakeBucket /\ bucket)
  <2>1. Exit("failed") /\ UNCHANGED <<signalled, late, closed>> /\ main \in Starting
    BY <1>2 DEF SetUpFails, MakeBucket, stores, Starting
  <2>2. InFlight = {}
    BY <2>1 DEF Inv, Admitting, InFlight, Active
  <2> QED BY <2>1, <2>2, ExitEnds DEF SV!SvNext
<1>3. CASE AiStudioTimedOut
  BY <1>3, ExitEnds DEF AiStudioTimedOut, stores, SV!SvNext
<1>4. CASE Return
  <2>1. main = "return" /\ Exit("ok") /\ UNCHANGED <<signalled, late, closed>>
    BY <1>4 DEF Return, stores
  <2>2. phase = "draining"
    BY <2>1 DEF phase, Inv, Admitting, Closing
  <2>3. InFlight = {} \/ late
    BY <2>1 DEF Inv, Outliving, InFlight, Closing
  <2> QED BY <2>1, <2>2, <2>3, ExitEnds DEF SV!SvNext
<1>5. CASE Shutdown
  <2>1. /\ main # "gone" /\ main' # "gone" /\ app' = "closed" /\ signalled /\ main = "serving"
        /\ UNCHANGED <<signalled, late, closed, status, pc>>
    BY <1>5 DEF Shutdown, stores, request
  <2>2. conn' = conn
    BY <2>1 DEF conn
  <2>3. phase' = "draining" /\ phase \in {"starting", "serving", "draining"}
    BY <2>1 DEF phase, Inv, TypeOK
  <2> QED BY <2>1, <2>2, <2>3 DEF SV!SvNext, SV!Close, Still
<1>6. CASE Deadline
  <2>1. /\ main \in Draining /\ late'
        /\ UNCHANGED <<main, signalled, closed, status, app, pc>>
    BY <1>6 DEF Deadline, server, stores, request
  <2>2. phase = "draining" /\ phase' = phase
    BY <2>1 DEF phase, Inv, Admitting, Draining
  <2>3. conn' = conn
    BY <2>1 DEF conn
  <2>4. late' = TRUE
    BY <1>6 DEF Deadline
  <2> QED BY <2>1, <2>2, <2>3, <2>4 DEF SV!SvNext, SV!Expire
<1>7. CASE CloseRedis \/ ClosePool
  <2>1. /\ main \in {"rdb", "pool"} /\ main' # "gone" /\ closed' # {}
        /\ UNCHANGED <<signalled, late, status, app, pc>>
    BY <1>7 DEF CloseRedis, ClosePool, CloseStore
  <2>2. phase = "draining" /\ phase' = phase
    BY <2>1 DEF phase, Inv, Admitting, Closing
  <2>3. conn' = conn
    BY <2>1 DEF conn
  <2>4. SV!Settled
    BY <2>1 DEF SV!Settled, SV!Served, conn, Inv, Outliving, Closing, TypeOK, Active
  <2> QED BY <2>1, <2>2, <2>3, <2>4 DEF SV!SvNext, SV!Release
<1> QED BY <1>1, <1>2, <1>3, <1>4, <1>5, <1>6, <1>7 DEF Start, Stop

\* Listeners and signals.
LEMMA EventIsStep ==
  ASSUME Inv, \/ SetupMakesBucket \/ Listen \/ ListenMetrics \/ ListenFails
              \/ ListenMetricsFails \/ Signal \/ Kill
  PROVE  SV!SvNext \/ Still
<1>1. CASE SetupMakesBucket \/ ListenMetrics
  <2>1. UNCHANGED <<main, app, pc, signalled, late, closed, status>>
    BY <1>1 DEF SetupMakesBucket, ListenMetrics, server, stores, request
  <2> QED BY <2>1 DEF Still, phase, conn
<1>2. CASE Listen
  <2>1. /\ app = "off" /\ app' = "open" /\ main \in {"arming", "serving"}
        /\ UNCHANGED <<main, pc, signalled, late, closed, status>>
    BY <1>2 DEF Listen, stores, request
  <2>2. phase = "starting" /\ phase' = "serving"
    BY <2>1 DEF phase
  <2>3. conn' = conn
    BY <2>1 DEF conn
  <2> QED BY <2>1, <2>2, <2>3 DEF SV!SvNext, SV!Open
<1>3. CASE ListenFails
  <2>1. app = "off" /\ main \in {"arming", "serving"} /\ phase = "starting"
    BY <1>3 DEF ListenFails, phase
  <2>2. CASE program = "gemini"
    <3>1. signalled' = TRUE /\ app' = "closed" /\ UNCHANGED <<main, pc, late, closed, status>>
      BY <1>3, <2>2 DEF ListenFails, stores
    <3>2. phase' = "draining"
      BY <2>1, <3>1 DEF phase
    <3>3. conn' = conn
      BY <3>1 DEF conn
    <3> QED BY <2>1, <3>1, <3>2, <3>3 DEF SV!SvNext, SV!Close
  <2>3. CASE program # "gemini"
    <3>1. Exit("failed") /\ UNCHANGED <<signalled, late, closed>>
      BY <1>3, <2>3 DEF ListenFails, stores
    <3>2. InFlight = {}
      BY <2>1 DEF Inv, Admitting, InFlight, Active
    <3> QED BY <3>1, <3>2, ExitEnds DEF SV!SvNext
  <2> QED BY <2>2, <2>3
<1>4. CASE ListenMetricsFails
  <2>1. /\ main # "gone" /\ signalled' \in {signalled, TRUE}
        /\ UNCHANGED <<main, app, pc, late, closed, status>>
    BY <1>4 DEF ListenMetricsFails, stores, request
  <2>2. phase # "ended" /\ UNCHANGED <<phase, conn>>
    BY <2>1 DEF phase, conn
  <2> QED BY <2>1, <2>2 DEF SV!SvNext, SV!Tell, Still
<1>5. CASE Signal
  <2>1. CASE Catches
    <3>1. main # "gone" /\ signalled' = TRUE /\ UNCHANGED <<main, app, pc, late, closed, status>>
      BY <1>5, <2>1 DEF Signal, server, stores
    <3>2. phase # "ended" /\ UNCHANGED <<phase, conn>>
      BY <3>1 DEF phase, conn
    <3> QED BY <3>1, <3>2 DEF SV!SvNext, SV!Tell
  <2>2. CASE ~Catches
    BY <1>5, <2>2, ExitEnds DEF Signal, stores, SV!SvNext
  <2> QED BY <2>1, <2>2
<1>6. CASE Kill
  BY <1>6, ExitEnds DEF Kill, stores, SV!SvNext
<1> QED BY <1>1, <1>2, <1>3, <1>4, <1>5, <1>6

\* Requests.
LEMMA RequestIsStep ==
  ASSUME Inv, NEW r \in Requests, Accept(r) \/ Handle(r) \/ Export(r)
  PROVE  SV!SvNext \/ Still
<1>1. UNCHANGED <<main, app, signalled, late, closed, status>>
  BY DEF Accept, Handle, UseRedis, Acquire, Query, Reply, Step, Export, server, stores
<1>2. phase' = phase
  BY <1>1 DEF phase
<1>3. /\ conn = [q \in DOMAIN conn |-> conn[q]] /\ conn' = [q \in DOMAIN conn' |-> conn'[q]]
      /\ DOMAIN conn = Requests /\ DOMAIN conn' = Requests
  BY DEF conn
<1>4. CASE Accept(r)
  <2>1. pc[r] = "new" /\ app = "open" /\ pc'[r] \in Active
        /\ \A q \in Requests \ {r} : pc'[q] = pc[q]
    BY <1>4 DEF Accept, Step, Active, Inv, TypeOK
  <2>2. phase = "serving"
    BY <2>1 DEF phase, Inv, Admitting
  <2>3. conn[r] = "new" /\ conn'[r] = "served" /\ \A q \in Requests \ {r} : conn'[q] = conn[q]
    BY <2>1 DEF conn, Active
  <2> QED BY <1>1, <1>2, <1>3, <2>2, <2>3 DEF SV!SvNext, SV!Admit
<1>5. CASE UseRedis(r) \/ Acquire(r) \/ Query(r) \/ Export(r)
  <2>1. /\ pc' = pc \/ (pc[r] \in Active /\ pc'[r] \in Active)
        /\ \A q \in Requests \ {r} : pc'[q] = pc[q]
    BY <1>5 DEF UseRedis, Acquire, Query, Export, Step, Active, Inv, TypeOK
  <2>2. conn' = conn
    BY <2>1 DEF conn
  <2> QED BY <1>1, <1>2, <2>2 DEF Still
<1>6. CASE Reply(r)
  <2>1. pc[r] \in Active /\ pc'[r] = "done" /\ \A q \in Requests \ {r} : pc'[q] = pc[q]
    BY <1>6 DEF Reply, Step, Active, Inv, TypeOK
  <2>2. conn[r] = "served" /\ conn'[r] = "answered"
        /\ \A q \in Requests \ {r} : conn'[q] = conn[q]
    BY <2>1 DEF conn, Active
  <2> QED BY <1>1, <1>2, <1>3, <2>2 DEF SV!SvNext, SV!Answer
<1> QED BY <1>4, <1>5, <1>6 DEF Handle

LEMMA ServiceStep == Inv /\ [Next]_vars => [SV!SvNext]_(SV!svvars)
<1> SUFFICES ASSUME Inv, [Next]_vars PROVE SV!SvNext \/ Still
  BY DEF Still, SV!svvars
<1>1. CASE UNCHANGED vars
  BY <1>1 DEF vars, server, stores, request, Still, phase, conn
<1> QED BY <1>1, MainIsStep, EventIsStep, RequestIsStep DEF Next, Gone

\* Each of the four programs does what a service promises.
THEOREM ServiceImplemented == Spec => ImplementsService
<1>1. Init => SV!SvInit
  BY DEF Init, SV!SvInit, phase, conn, Active
<1> QED BY <1>1, Invariant, ServiceStep, PTL DEF Spec, ImplementsService, SV!SvSpec
==================================================================================
