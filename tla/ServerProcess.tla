------------------------------ MODULE ServerProcess ------------------------------
(* The life of the four server processes, from the first line of main to the end  *)
(* of the process: connections made in a fixed order, listeners opened by other   *)
(* goroutines, signals, the drain under a deadline of five seconds, the deferred  *)
(* closes.  Requests run meanwhile and use the stores that main closes.           *)
EXTENDS Naturals, FiniteSets

CONSTANTS Programs,  \* the programs considered: a subset of AllPrograms
          Requests,  \* requests that clients may send
          Faults     \* what may go wrong: a subset of FaultKinds

AllPrograms == {"gemini", "aistudio", "chatgpt", "posts"}

FaultKinds == {"startup",  \* a store does not answer while the process starts
               "bind",     \* a port cannot be listened on
               "export",   \* the collector does not take the spans
               "kill"}     \* the process is killed by a signal nobody can catch

ASSUME ProgramsAssumption == Programs \subseteq AllPrograms
ASSUME FaultsAssumption == Faults \subseteq FaultKinds

VARIABLES
  program,    \* which program this is
  main,       \* where its main goroutine stands
  status,     \* how the process has ended
  signalled,  \* main has been told to stop: a signal was caught, or a listener failed
  late,       \* the deadline of the shutdown has passed
  app,        \* the listener of the application server
  scrape,     \* the listener of the metrics server
  closed,     \* the stores that main has closed
  tracing,    \* the tracer provider takes spans
  pc,         \* pc[r]: what request r does next
  span,       \* span[r]: what has become of the span of r
  bucket,     \* MinIO: the bucket of posts exists
  failures,   \* what has gone wrong; whether a listener has failed decides who catches signals
  \* History, read by no action of the system:
  met,        \* met[r]: r has met a store that main had closed
  rival       \* minio-setup, not the app, has made the bucket

server  == <<app, scrape>>
stores  == <<closed, tracing>>
request == <<pc, span>>
history == <<met, failures, rival>>
vars    == <<program, main, status, signalled, late, server, stores, request, bucket, history>>

Starting == {"tracer", "database", "redis", "bucket", "make"}
Draining == {"drain", "metrics"}
Closing  == {"rdb", "pool", "conns", "flush", "return"}
Active   == {"redis", "acquire", "query", "reply"}

TypeOK == /\ program \in Programs
          /\ main \in Starting \union {"arming", "serving"} \union Draining
                        \union Closing \union {"gone"}
          /\ status \in {"none", "ok", "failed", "killed"}
          /\ signalled \in BOOLEAN
          /\ late \in BOOLEAN
          /\ app \in {"off", "open", "closed"}
          /\ scrape \in {"off", "open", "closed"}
          /\ closed \subseteq {"redis", "database"}
          /\ tracing \in BOOLEAN
          /\ pc \in [Requests -> Active \union {"new", "done", "cut"}]
          /\ span \in [Requests -> {"none", "queued", "exported", "dropped", "refused"}]
          /\ bucket \in BOOLEAN
          /\ met \in [Requests -> BOOLEAN]
          /\ failures \subseteq FaultKinds
          /\ rival \in BOOLEAN

-----------------------------------------------------------------------------------
(* Start.  What main does one after another before it serves.                     *)

GeminiStart == [tracer |-> "database", database |-> "redis", redis |-> "serving"]

AiStudioStart == [tracer |-> "database", database |-> "redis", redis |-> "arming",
                  arming |-> "serving"]

ChatgptStart == [database |-> "serving"]

PostsStart == [database |-> "bucket"]

After == [gemini |-> GeminiStart, aistudio |-> AiStudioStart,
          chatgpt |-> ChatgptStart, posts |-> PostsStart]

Init == /\ program \in Programs
        /\ main = IF program \in {"gemini", "aistudio"} THEN "tracer" ELSE "database"
        /\ status = "none"
        /\ signalled = FALSE
        /\ late = FALSE
        /\ app = "off"
        /\ scrape = "off"
        /\ closed = {}
        /\ tracing = TRUE
        /\ pc = [r \in Requests |-> "new"]
        /\ span = [r \in Requests |-> "none"]
        /\ bucket \in BOOLEAN /\ (program # "posts" => bucket)
        /\ met = [r \in Requests |-> FALSE]
        /\ failures = {}
        /\ rival = FALSE

InFlight == {r \in Requests : pc[r] \in Active}

Goto(stage) == /\ main' = stage
               /\ UNCHANGED <<status, app, scrape, pc>>

\* The process ends, and with it every goroutine.
Exit(how) == /\ main # "gone"
             /\ main' = "gone"
             /\ status' = how
             /\ app' = "closed"
             /\ scrape' = "closed"
             /\ pc' = [r \in Requests |-> IF r \in InFlight THEN "cut" ELSE pc[r]]

\* The pings of gemini are made in the context that a signal cancels.
Cancelled == /\ program = "gemini"
             /\ signalled
             /\ main \in {"database", "redis"}

\* One thing is set up and the next one begins.  The tracer of gemini waits for the
\* collector, for however long and whatever signal arrives.
SetUp == /\ main \in DOMAIN After[program]
         /\ ~Cancelled
         /\ Goto(After[program][main])
         /\ UNCHANGED <<program, signalled, late, stores, span, bucket, history>>

\* An error while something is set up ends the process.
SetUpFails == /\ main \in Starting
              /\ \/ Cancelled /\ UNCHANGED failures
                 \/ "startup" \in Faults /\ failures' = failures \union {"startup"}
              /\ Exit("failed")
              /\ UNCHANGED <<program, signalled, late, stores, span, bucket, met, rival>>

\* Mutant: the bucket is made whether or not it exists.
FindNoBucket == /\ main = "bucket"
                /\ Goto("make")
                /\ UNCHANGED <<program, signalled, late, stores, span, bucket, history>>

\* NewMinioClient asks whether the bucket exists ...
FindBucket == /\ main = "bucket"
              /\ Goto(IF bucket THEN "serving" ELSE "make")
              /\ UNCHANGED <<program, signalled, late, stores, span, bucket, history>>

\* ... and makes it when it did not, which is an error when it does by now.
MakeBucket == /\ main = "make"
              /\ bucket' = TRUE
              /\ IF bucket THEN Exit("failed") ELSE Goto("serving")
              /\ UNCHANGED <<program, signalled, late, stores, span, history>>

\* The container minio-setup makes the bucket, too.
SetupMakesBucket == /\ ~bucket
                    /\ bucket' = TRUE
                    /\ rival' = TRUE
                    /\ UNCHANGED <<program, main, status, signalled, late, server, stores,
                                   request, met, failures>>

-----------------------------------------------------------------------------------
(* Listeners and signals.                                                         *)

\* The goroutines of the servers run as soon as they are started, which ai-studio
\* does before it asks for signals.  After Shutdown nothing is listened on any more.
Listen == /\ app = "off"
          /\ main \in {"arming", "serving"}
          /\ app' = "open"
          /\ UNCHANGED <<program, main, status, signalled, late, scrape, stores, request,
                         bucket, history>>

ListenMetrics == /\ scrape = "off"
                 /\ \/ program = "gemini" /\ main \in {"serving", "drain"}
                    \/ program = "aistudio" /\ main \notin Starting \union {"gone"}
                 /\ scrape' = "open"
                 /\ UNCHANGED <<program, main, status, signalled, late, app, stores, request,
                                bucket, history>>

\* gemini cancels its own context when it cannot listen, the others give up.
ListenFails ==
  /\ "bind" \in Faults
  /\ app = "off"
  /\ main \in {"arming", "serving"}
  /\ failures' = failures \union {"bind"}
  /\ IF program = "gemini"
     THEN /\ signalled' = TRUE
          /\ app' = "closed"
          /\ UNCHANGED <<main, status, scrape, pc>>
     ELSE Exit("failed") /\ UNCHANGED signalled
  /\ UNCHANGED <<program, late, stores, span, bucket, met, rival>>

\* ai-studio goes on without its metrics.
ListenMetricsFails ==
  /\ "bind" \in Faults
  /\ scrape = "off"
  /\ \/ program = "gemini" /\ main \in {"serving", "drain"} /\ signalled' = TRUE
     \/ program = "aistudio" /\ main \notin Starting \union {"gone"} /\ UNCHANGED signalled
  /\ scrape' = "closed"
  /\ failures' = failures \union {"bind"}
  /\ UNCHANGED <<program, main, status, late, app, stores, request, bucket, met, rival>>

\* gemini asks for signals in its first line, ai-studio in its last ones.  With the
\* cancel() of a listener that fails gemini also gives up asking for them: cancel is
\* the stop function of signal.NotifyContext.
Catches == \/ program = "gemini" /\ "bind" \notin failures
           \/ program = "aistudio" /\ main \notin Starting \union {"arming"}

\* SIGINT or SIGTERM: the first one tells main to stop, later ones do nothing; where
\* nobody catches it the process is killed.
Signal == /\ main # "gone"
          /\ IF Catches
             THEN /\ ~signalled
                  /\ signalled' = TRUE
                  /\ UNCHANGED <<main, status, server, pc>>
             ELSE Exit("killed") /\ UNCHANGED signalled
          /\ UNCHANGED <<program, late, stores, span, bucket, history>>

Kill == /\ "kill" \in Faults
        /\ Exit("killed")
        /\ UNCHANGED <<program, signalled, late, stores, span, bucket, history>>

-----------------------------------------------------------------------------------
(* Shutdown.                                                                      *)

\* Shutdown of the application server: its listener is closed, five seconds begin.
Shutdown == /\ main = "serving"
            /\ signalled
            /\ main' = "drain"
            /\ app' = "closed"
            /\ UNCHANGED <<program, status, signalled, late, scrape, stores, request, bucket,
                           history>>

\* Mutant: the five seconds begin with the signal.
DeadlineFromSignal == /\ main \in {"serving"} \union Draining
                      /\ signalled
                      /\ ~late
                      /\ late' = TRUE
                      /\ UNCHANGED <<program, main, status, signalled, server, stores, request,
                                     bucket, history>>

Deadline == /\ main \in Draining
            /\ ~late
            /\ late' = TRUE
            /\ UNCHANGED <<program, main, status, signalled, server, stores, request, bucket,
                           history>>

\* Mutant: Shutdown does not wait.
GeminiDrainedAtOnce == /\ program = "gemini"
                       /\ main = "drain"
                       /\ main' = "metrics"
                       /\ scrape' = "closed"
                       /\ UNCHANGED <<program, status, signalled, late, app, stores, request,
                                      bucket, history>>

\* gemini goes on when nobody is served any more, or the deadline has passed, and
\* shuts down the metrics server under what is left of the deadline.
GeminiDrained == /\ program = "gemini"
                 /\ main = "drain"
                 /\ InFlight = {} \/ late
                 /\ main' = "metrics"
                 /\ scrape' = "closed"
                 /\ UNCHANGED <<program, status, signalled, late, app, stores, request,
                                bucket, history>>

\* "Servers shut down gracefully", whatever the two calls have returned.
GeminiShutDown == /\ main = "metrics"
                  /\ Goto("rdb")
                  /\ UNCHANGED <<program, signalled, late, stores, span, bucket, history>>

\* "Server exited properly": nobody is served any more.
AiStudioDrained == /\ program = "aistudio"
                   /\ main = "drain"
                   /\ InFlight = {}
                   /\ Goto("flush")
                   /\ UNCHANGED <<program, signalled, late, stores, span, bucket, history>>

\* Mutant: a Shutdown that failed is treated as one that succeeded.
AiStudioGoesOn == /\ program = "aistudio"
                  /\ main = "drain"
                  /\ late
                  /\ Goto("flush")
                  /\ UNCHANGED <<program, signalled, late, stores, span, bucket, history>>

\* Mutant: the process ends only when nobody is served any more.
AiStudioWaits == AiStudioDrained

\* Shutdown fails, and os.Exit skips what is deferred.
AiStudioTimedOut == /\ program = "aistudio"
                    /\ main = "drain"
                    /\ late
                    /\ Exit("failed")
                    /\ UNCHANGED <<program, signalled, late, stores, span, bucket, history>>

\* Mutant: what was closed is noted under another name.
CloseStage(store, stage, next) ==
  /\ main = stage
  /\ closed' = closed \union {stage}
  /\ Goto(next)
  /\ UNCHANGED <<program, signalled, late, tracing, span, bucket, history>>

CloseStore(store, stage, next) ==
  /\ main = stage
  /\ closed' = closed \union {store}
  /\ Goto(next)
  /\ UNCHANGED <<program, signalled, late, tracing, span, bucket, history>>

\* rdb.Close().
CloseRedis == CloseStore("redis", "rdb", "pool")

\* db.Close() gives no connection away any more ...
ClosePool == CloseStore("database", "pool", "conns")

\* ... and waits, without a deadline, for those that are in use.
PoolClosed == /\ main = "conns"
              /\ \A r \in Requests : pc[r] # "query"
              /\ Goto("flush")
              /\ UNCHANGED <<program, signalled, late, stores, span, bucket, history>>

\* Mutant: the provider is shut down without a flush.
FlushNothing == /\ main = "flush"
                /\ tracing' = FALSE
                /\ Goto("return")
                /\ UNCHANGED <<program, signalled, late, closed, span, bucket, history>>

SpansGoTo(fate) == span' = [r \in Requests |-> IF span[r] = "queued" THEN fate ELSE span[r]]

\* The tracer provider is shut down: it exports what it holds, and takes no more.
Flush == /\ main = "flush"
         /\ tracing' = FALSE
         /\ \/ SpansGoTo("exported") /\ UNCHANGED failures
            \/ /\ "export" \in Faults
               /\ SpansGoTo("dropped")
               /\ failures' = failures \union {"export"}
         /\ Goto("return")
         /\ UNCHANGED <<program, signalled, late, closed, bucket, met, rival>>

Return == /\ main = "return"
          /\ Exit("ok")
          /\ UNCHANGED <<program, signalled, late, stores, span, bucket, history>>

-----------------------------------------------------------------------------------
(* Requests.                                                                      *)

Step(r, from, to) == /\ pc[r] = from
                     /\ pc' = [pc EXCEPT ![r] = to]
                     /\ UNCHANGED <<program, main, status, signalled, late, server, stores,
                                    bucket, failures, rival>>

Meets(r, store) == met' = [met EXCEPT ![r] = @ \/ store \in closed]

Accept(r) == /\ app = "open"
             /\ Step(r, "new", IF program = "posts" THEN "acquire" ELSE "redis")
             /\ UNCHANGED <<span, met>>

\* A command to Redis; the limiter lets a request pass when Redis is closed.
UseRedis(r) == /\ Step(r, "redis", "acquire")
               /\ Meets(r, "redis")
               /\ UNCHANGED span

\* The handler, which may wait for a body first, takes a connection, or answers 500
\* when the pool is closed.
Acquire(r) == /\ Step(r, "acquire", IF "database" \in closed THEN "reply" ELSE "query")
              /\ Meets(r, "database")
              /\ UNCHANGED span

Query(r) == /\ Step(r, "query", "reply")
            /\ UNCHANGED <<span, met>>

\* The answer is written and the span ends, in the programs that have a provider.
Reply(r) == /\ Step(r, "reply", "done")
            /\ span' = IF program \notin {"gemini", "aistudio"} THEN span
                       ELSE [span EXCEPT ![r] = IF tracing THEN "queued" ELSE "refused"]
            /\ UNCHANGED met

\* The batch processor sends spans now and then.
Export(r) == /\ main # "gone"
             /\ span[r] = "queued"
             /\ \/ span' = [span EXCEPT ![r] = "exported"] /\ UNCHANGED failures
                \/ /\ "export" \in Faults
                   /\ span' = [span EXCEPT ![r] = "dropped"]
                   /\ failures' = failures \union {"export"}
             /\ UNCHANGED <<program, main, status, signalled, late, server, stores, pc,
                            bucket, met, rival>>

Handle(r) == UseRedis(r) \/ Acquire(r) \/ Query(r) \/ Reply(r)

\* What the main goroutine does by itself once it has been told to stop.
Stop == \/ Shutdown \/ GeminiDrained \/ GeminiShutDown \/ AiStudioDrained
        \/ AiStudioTimedOut \/ CloseRedis \/ ClosePool \/ PoolClosed \/ Flush \/ Return

Start == SetUp \/ SetUpFails \/ FindBucket \/ MakeBucket

Gone == main = "gone" /\ UNCHANGED vars

Next == \/ Start \/ SetupMakesBucket
        \/ Listen \/ ListenMetrics \/ ListenFails \/ ListenMetricsFails
        \/ Signal \/ Kill \/ Deadline \/ Stop
        \/ \E r \in Requests : Accept(r) \/ Handle(r) \/ Export(r)
        \/ Gone

Spec == Init /\ [][Next]_vars

\* The main goroutine keeps running unless it waits, five seconds pass, and setting
\* up ends, except that the tracer of gemini may wait for ever.  Only in gemini main
\* waits for connections, so there the statements have to end; a handler may wait for
\* the body of its request for ever.
Fairness == /\ WF_vars(Stop) /\ WF_vars(Deadline)
            /\ WF_vars(main # "tracer" /\ Start)
            /\ \A r \in Requests : WF_vars(program = "gemini" /\ Query(r))

FairSpec == Spec /\ Fairness

-----------------------------------------------------------------------------------
(* Properties.                                                                    *)

\* A request that was accepted is cut off only by a signal that nobody catches or by
\* the deadline of the shutdown; and a process that reports success has cut off a
\* request only if it is gemini, which calls its shutdown graceful all the same.
CutOnlyLate ==
  \A r \in Requests : pc[r] = "cut" =>
    \/ status = "killed"
    \/ late /\ (status = "ok" => program = "gemini")

\* The deferred closes of gemini run while handlers may still use the stores only
\* after the deadline: no handler finds Redis or the pool closed before.
ClosedOnlyWhenLate == \A r \in Requests : met[r] => late

\* A process that ends by returning from main leaves no span behind in its batch:
\* what was not sent was refused by the collector, or ended after the deadline.
NoSpanLeftBehind ==
  /\ status = "ok" => \A r \in Requests : span[r] # "queued"
  /\ \A r \in Requests : span[r] = "refused" => late

\* Requests that drain can be watched: gemini stops serving its metrics only when no
\* request is left, or the deadline has passed.
DrainObservable ==
  program = "gemini" /\ scrape = "closed" /\ InFlight # {} =>
    late \/ "bind" \in failures

\* A process ends with an error, although every store answered and every port was
\* free, only in three ways: gemini was told to stop while it started, ai-studio
\* did not finish its requests in time, or posts lost a race for the bucket.
FailureExplained ==
  status = "failed" /\ failures \intersect {"startup", "bind"} = {} =>
    \/ program = "gemini" /\ signalled /\ \A r \in Requests : pc[r] = "new"
    \/ program = "aistudio" /\ late
    \/ program = "posts" /\ rival

\* Who is told to stop ends: ai-studio even if its handlers hang, gemini because its
\* statements end and nobody is given a connection any more, even if bodies never
\* come, but only once it has found the collector.
Stops == signalled /\ main # "tracer" ~> main = "gone"

\* What those who are served can tell: the door, the stores, their own requests.
phase == IF main = "gone" THEN "ended"
         ELSE IF app = "off" THEN "starting" ELSE IF app = "open" THEN "serving" ELSE "draining"

conn == [r \in Requests |-> IF pc[r] \in Active THEN "served"
                            ELSE IF pc[r] = "done" THEN "answered" ELSE pc[r]]

SV == INSTANCE Service WITH told <- signalled, how <- status,
                            stores <- IF closed = {} THEN "held" ELSE "released"

\* Each of the four programs is such a service: nobody is let in before the start is
\* over or after the stop has begun, the five seconds begin with the drain, and stores
\* are closed, and the process ends without a kill, after it.
ImplementsService == SV!SvSpec
==================================================================================
