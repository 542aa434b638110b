# Formal models of code-bits

TLA+ models of the services in `src/backend`, TLC configurations that check them on
small instances, and proofs, checked by TLAPS, of what matters most about them for
all values of their parameters. Paths below are relative to `src/backend`.

The repository holds four independent programs. Three are the same tasks API, each with
another way of being observed (`01-observability/{gemini,ai-studio,chatgpt}`); the fourth
(`02-presigned-url-upload/chatgpt`) is a posts application whose media are uploaded
directly to an object store. None of them has tests.

## 1. Inventory

| Component | State | Operations | Talks to |
|---|---|---|---|
| gemini rate limiter (`gemini/go-app/rate_limiter.go`) | Redis key `rate_limit:<ip>` with TTL; two counters in the process | one pass per request: INCR, EXPIRE when INCR answers 1, compare with the limit | Redis; called by the HTTP server before every handler |
| gemini tasks API (`handlers.go`, `db.go`) | PostgreSQL table `tasks` | create, list, get, partial update (SELECT, then UPDATE), delete | PostgreSQL; called by the limiter when it lets a request through |
| gemini process (`main.go`, `tracer.go`, `cache.go`) | two listeners, pool, Redis client, tracer provider | connect, serve, stop on a signal within 5 s, deferred closes | all of the above |
| gemini metrics, logging, tracing (`metrics.go`, `logger.go`) | counters, log and span output | middleware around each request | called by the server, calls limiter and handlers |
| ai-studio tasks API (`internal/handlers`, `internal/storage`) | table `tasks`; Redis keys `task:<id>` for a minute | create, list, read-through get, full update and delete with invalidation | PostgreSQL, Redis |
| ai-studio process (`cmd/server/main.go`, `cmd/migrate`) | two listeners, tracer provider | start, stop within 5 s, `os.Exit` on failure; a migration command | all of ai-studio |
| ai-studio metrics, logging, tracing (`internal/metrics`, `internal/logging`, `internal/tracing`) | counters, output | as in gemini | |
| chatgpt tasks API (`internal/handlers`, `internal/middleware`) | table `tasks`; Redis key `rl:<ip>`; counters | limiter with a context of its own, one statement per handler, which counts its answer | PostgreSQL, Redis |
| chatgpt process (`cmd/main.go`) | one listener | connect, serve; no shutdown | |
| posts API (`app/internal/handlers`, `app/internal/storage`) | table `posts`; MinIO bucket | presign an upload, create a post from a key, list, get, delete; API key check | PostgreSQL, MinIO |
| posts process (`app/cmd/main.go`, `minio.go`) | one listener | connect, make the bucket unless it exists, serve; no shutdown | races `minio-setup` |
| posts page (`app/web/app.js`) | the list it has fetched | presign, upload, create, one after another; list; delete | posts API, MinIO |
| posts worker (`worker/cmd/main.go`) | none | logs events of MinIO | called by MinIO |

What is hard in them, and what makes each correct:

* **Limiter.** Any number of requests of one address run at once and share one Redis key
  through two separate commands. Between INCR and EXPIRE the caller may go away (the
  context of the request is cancelled), Redis may fail, its client may repeat either command,
  the process may die. Correct: no window admits more than the limit; nobody is refused for
  another address or an earlier window; a refused client is let in again; bursts
  across windows are bounded.
* **Tasks with a cache.** A read consists of GET, SELECT and SET, a write of a statement and
  DEL. Steps of several requests interleave, each of them may fail with the error ignored, or be repeated by the Redis client,
  the process may die in between. Correct: in sequential use the cache cannot be noticed;
  otherwise a stale copy has one of a few known causes and does not last.
* **Partial updates.** SELECT and UPDATE are two statements without a transaction. Correct:
  every request takes effect at one moment, no row comes back from deletion, and no update is
  undone, except by the overlap that this design admits.
* **Posts.** A row refers to an object in another store, which clients write directly
  and at any time. Uploads expire, are repeated, break off; server, database or object store
  fail between the steps of a call. Correct: a post has its object and shows its size and
  whether it is a video; objects above the limit are refused; nothing is left behind by calls that succeed.
* **Limiter in context.** Middleware, limiter and handlers of a request share a process whose
  counters die with it, and in gemini a context that its caller cancels. Correct: whoever is refused,
  or gets past the limiter by going away, changes nothing; a window lets no more requests than the limit
  change the table; the counters that dashboards compare agree; every request ends unless its own caller holds it up.
* **Processes.** Listeners are opened by other goroutines, signals arrive at any moment of the start,
  requests in flight at shutdown race the deadline, and main closes the stores they use. Correct: no
  accepted request is cut off, or finds a store closed, before the deadline; the spans of answered requests
  are sent; a process that is told to stop does; it fails only for a reason.

`PROJECT.json` lists every hazard with its line and the properties aimed at it.

## 2. Modules

| Module | Models | Abstract specification |
|---|---|---|
| `RateLimiter` | gemini limiter | `Quota` |
| `TaskCache` | ai-studio API, table and cache | `TaskStore` |
| `GeminiTasks` | gemini API and table | `TaskStore` |
| `PresignedUpload` | posts API, page, table and bucket | `PostStore`, for those who use the page only |
| `ChatgptTasks` | chatgpt limiter, handlers and their counters, composed | `RateLimiter`, `TaskStore` |
| `GeminiApp` | gemini metrics middleware, limiter and handlers, composed | `Quota` |
| `ServerProcess` | the life of all four server processes | `Service` |
| `Quota` | what a fixed-window limiter promises: at most `Limit` admissions, renewed at the earliest `Window` ticks after the first use | |
| `TaskStore` | what a tasks API promises: a table on which each request takes effect at one moment; with a theorem on what its callers can rely on | |
| `PostStore` | what the posts application promises: a post has one life, from the file stored for it to the removal of both | |
| `Service` | what a server process promises to those it serves, from the opening of its door to its end | |

`MC*` instantiate a module for TLC, `*Proofs` hold its theorems. Some definitions are
preceded by a variant marked `Mutant`: a plausible bug at that place, not used by
any specification, with which a property is seen to fail. `PROJECT.json` pairs them.

### How state and actions correspond to the code

A request is a process; `pc[r]` names the command to a store that it sends next, and one
action is one such command together with the Go code up to the next one. Go code between
two commands touches only the variables of its own request, so nothing is lost by that.
When a command fails the model distinguishes whether it was executed: an SQL
statement or an upload of which the client got an error may have taken effect.

**RateLimiter.** `Arrive` is `rate_limiter.go:21-37`, INCR is `OpenWindow` (reply 1)
or `Continue`, EXPIRE is `Expire`, `Decide` the comparison in lines 55-68. `IncrFails`
is the early return that fails open, `ExpireFails` the logged error. `IncrRepeated` and `ExpireRepeated` are
the Redis client, created with default options in `cache.go`, that sends a command again when
its reply was lost. A command whose context was cancelled (`"disconnect"`) has not been executed, because the client looks at the
context before it sends and does not give up a command under way; one that Redis fails to answer (`"redis"`) may have been. `count[c] = 0` stands for an absent key and `ttl[c] = 0` for no
expiry; `Tick` lets Redis' time pass. `life`, `epoch`, `age` and `keyAge` are history.

**TaskCache.** `CacheHit`/`CacheMiss`, `Select`, `CacheSet` are the three steps of
`Store.GetTask`; `Exec` and `CacheDel` those of `UpdateTask` and `DeleteTask`; `Insert` is
`CreateTask`. `CacheSetRepeated` and `CacheDelRepeated` are the Redis client sending a command again. The content of a row is the number of its last change, which is all a stale copy can
be told by. The key `tasks:all` is deleted and never set, so it is left out. `taint` is
history: it marks a copy that was stored by a read which a write had overtaken, or kept by
a deletion of the key that was lost. `excused` marks requests answered with a copy that the writer of a
newer version had yet to delete, or with a list that broke off; of the answers of all others `TransparentUnlessStale`
says that they are those of the table alone. An answer of version 0 is "no such task".

**GeminiTasks.** `Select` is `GetTask`, `GetTasks` and the first half of `UpdateTask`,
`Update` the second half with the merge of `db.go:148-153`. A field holds the name of the
request that supplied its value; `last[i][f]` remembers who named it last.

**PresignedUpload.** `InitUpload`; `Stat` and `Insert` (`CreatePostFromKey`); `Lookup`,
`Remove` and `Drop` (`DeletePost`). Uploads are steps of the client and of MinIO:
`UploadBegins` checks the presigned upload, `UploadEnds` makes the object visible. A
`submit` is the form of the page: it goes through init, upload and create by itself.
`Read` is `ListPosts`, with regard to one post, and `GetPost`: the viewer keeps the key and the
description it was shown, to follow the URL at any later time.
A file has a `Size`, and is in `Videos` when the content type that MinIO keeps with it begins with `video/`. `Described` is what
`handlers.go:166-175` makes of that: the size, and "image" for everything that is no video. `info` is what a request was told of an object,
`rowInfo` what a row records. `MaxBytes` is the limit of the server, `PageBytes` that of the form, which are set independently
(`MAX_UPLOAD_MB`, `app.js:61`). `Ranged` says whether a POST policy has its range at all.
`stage` and `told` are what its users see of that, as `PostStore` has it: a post is `"stored"` with its object,
`"posted"` with its row, and `"removing"` once a deletion has sent the removal of its object.
An object key is a UUID and a post id a SERIAL, so both are named by the request that got them.

**ChatgptTasks** instantiates `RateLimiter` for the limiter in `internal/middleware`, which is the same
algorithm with `context.Background()`: the fault "disconnect" does not exist there. `Enter` and
`Limiting` are its steps, a refusal being answered 429 at once. Each handler is one action, since it sends
one statement: `List`, `ListTorn`, `ScanFails` (`ListTasks`), `GetTask`, `CreateTask`, `Write` (`UpdateTask`,
`DeleteTask`), `Fails`, `Malformed`. `Answer` is `observeRequest` together with the reply, `AnswerUnseen` a
reply without it. The content of a row is the number of its changes.

**GeminiApp** is a request from `MetricsMiddleware` to its deferred count: `Enter`, then the
limiter's steps as `Limiting`, under a caller who may leave at any moment (`Disconnect`); then a handler, then
`Record`. A handler that decodes a body, or writes a list, may wait for its caller: it is `at` "body" or "list". `Command` says when a command to Redis is answered and when it fails, for a context that may be
cancelled; `Statement` the same for SQL. `status` is the `responseWriterInterceptor`. Handlers are reduced to
their statements, because `GeminiTasks` has the contents. `excused` is history. `quotaSeen` is the verdict of
`Quota` as callers see it, in the status they get once there is one.

**ServerProcess** follows the main goroutine: `main` names the next thing it sets up, waits for or closes. Which
program it is, is chosen initially, and `After` says what each of them sets up in which order. `Listen*` are the
goroutines of the servers, `Signal` the operating system (a signal kills gemini once a listener has failed, whose `cancel()` unregisters the signals), `Shutdown` to `AiStudioTimedOut` the call of
`Shutdown` with its deadline, `CloseRedis` to `Flush` the deferred calls, `Export` the batch span
processor. A request takes a Redis command, a connection of the pool, a statement and an
answer; a pool that is being closed gives no connection away and waits for those in use, as `pgxpool` does.
`phase` and `conn` are what its clients see of the process, as `Service` has it: whether the listener of the application
is not yet open, open or closed, and whether a request is served, answered or cut off.

## 3. Runs

| Run | Instance | What it shows |
|---|---|---|
| `RateLimiterFaults` | 1 client, 4 requests, limit 2, window 2, 1 repetition, all faults | type invariant; `QuotaPerWindow`; `ProlongedOnlyByRepetition`; the limiter implements `Quota` |
| `RateLimiterSound` | 2 clients, 4 requests, limit 1, window 2, no faults, fairness | `BurstBound`, `RefusedOnlyAfterQuota`, and `WindowReopens`: a client over its limit is let in again |
| `RateLimiterForever` | disconnections, fairness | **violation** of `WindowReopens` |
| `TaskCacheSequential` | 2 tasks, 5 requests one at a time, evictions | the cached API implements `TaskStore` |
| `TaskCacheRaces` | 1 task, 4 requests, 3 at a time, 1 repetition, all faults | type invariant; `StaleHasCause`; `FreshUnlessTainted`; `RevivedOnlyByLateReads`; `TransparentUnlessStale`: but for excused answers the API implements `TaskStore` |
| `TaskCacheExpiry` | 1 task, 3 requests, 1 repetition, all faults, fairness | `StaleEntriesDie`; `DeletedIsForgotten` |
| `GeminiTasksRaces` | 1 task, 4 requests, 3 at a time, all faults | type invariant; `LostOnlyByOverlap`; the API implements `TaskStore` |
| `PresignedUploadCalls` | 4 requests, every call in any order, files of 0, 1 and 2 bytes with a limit of 1, all faults | type invariant; `DanglingNeedsRemoval`; `PolicyEnforced` |
| `PresignedUploadPage` | 3 requests: forms, deletions, views; an empty image and a video; all faults | `DanglingOnlyByDelete` and `MetadataMatches`, of posts that exist and of posts once shown; `OrphanNeedsFailure`; the application implements `PostStore` |
| `ChatgptTasksRaces` | 1 client, 3 requests, limit 2, window 1, failing statements and crashes | `Accounted`; `WritesWithinQuota`; `StrandedOnlyByCrash`; the composition implements `TaskStore` |
| `GeminiAppMiddleware` | 1 client, 2 requests, limit 1, window 1, disconnections, failures of Redis, crashes, fairness | `CountersAgree`; `BypassWritesNothing`; `EveryRequestEnds`; seen by its callers the application implements `Quota` |
| `ServerProcessStops` | all four programs, 3 requests, all faults, fairness | type invariant; `CutOnlyLate`; `NoSpanLeftBehind`; `DrainObservable`; `FailureExplained`; `Stops`; each program implements `Service` |

### The violation

`RateLimiterForever`: the caller disconnects between the answer to INCR and EXPIRE (`OpenWindow`, `ExpireFails`). EXPIRE is not sent,
because its context is cancelled; the error is logged as "not fatal" (`rate_limiter.go:51`), and the key has no TTL: after ten
more requests the address is refused for ever. README line 98 of the app promises ten
requests per window. In chatgpt, whose limiter does not use the context of the caller, only a crash or a
failing Redis does that (`StrandedOnlyByCrash`).

### Other disagreements seen while modelling, without a run

* "Invalidate caches" (`storage.go:128`): a read that missed the cache stores the old row (`:89`) after
  a write has deleted the key, without any failure. `StaleHasCause` names that cause.
* A change of the title that falls between SELECT (`db.go:143`) and UPDATE of a change of `completed` is
  written back to its old value. `LostOnlyByOverlap` says that nothing else undoes a change.
* Two posts may have the same `object_key`; deleting one (`handlers.go:257` of posts) removes the object of both.
  `DanglingNeedsRemoval` is what remains true.
* An EXPIRE repeated by the Redis client gives the key a new window, or, if the key has expired and been created again, gives
  its window to the next one. `ProlongedOnlyByRepetition` is what remains of "Set expiry only on the first request in the window" (`rate_limiter.go:47`).
* An INCR repeated by the Redis client answers 2 to the first request: no expiry is set
  (`RateLimiter` shows it when `"retry"` is in `Faults`, which is why `NoKeyStranded` is
  proved under `Faults = {}`).
* The requests counter counts refused requests too (`rate_limiter.go:34`), which README line
  46 says and line 106 denies; the dashboard plots it as "Allowed" (`go-app-dashboard.json:242`).
* ai-studio answers 200 to an update, and 204 to a deletion, of a task that does not exist
  (`storage.go:123`, `:141`; chatgpt answers 404); the models give such an answer the version 0.
* gemini accepts an empty title in an update (`handlers.go:125`) but not in a creation.
* A presigned PUT has no size limit (`minio.go:57`) and `CreatePostFromKey` does not
  compare the size: `PolicyEnforced` is about keys presigned for POST.
* "Enforces content length" (`minio.go:69`), but the error of `SetContentLengthRange` is dropped (`:79`): with `MAX_UPLOAD_MB` of
  zero or less the range is refused, the policy has none, and every size is accepted. `PolicyEnforced` is about a limit of at least one byte
  (`Ranged`); with `MaxBytes = 0` the model accepts everything.
* A post of a PDF or a text says "image" (`handlers.go:166`): `MetadataMatches` is about the size, and about video or not.
* gemini logs "Servers shut down gracefully" also when the deadline has passed and requests are cut off,
  because it ignores what `Shutdown` returns (`main.go:133`): the exception in `CutOnlyLate`.
* gemini waits for the collector without a deadline (`tracer.go:36`, `WithBlock`), and a signal has no effect
  meanwhile: the exception in `Stops`. ai-studio wants to block, too, but the exporter ignores that option.
* chatgpt installs no tracer provider, so that the spans its README (line 117) speaks of are never made.
* gemini reads the route pattern before the router has matched (`metrics.go:105`): the label is "unknown"
  for every request, which is why the counter of `GeminiApp` has no path.
* A list whose rows stop coming is answered 200 without the rest, because nobody asks `rows.Err()`: in chatgpt
  (`handlers.go:69`, the exception in its `ImplementsStore`), ai-studio (`storage.go:106`, an exception in `TransparentUnlessStale`) and posts
  (`handlers.go:204`). In chatgpt a row that cannot be scanned is answered 500 and not counted (`:72`), though README
  lines 71 and 96 have a counter per route: `Accounted` claims equality only for 201 and 400.
* ai-studio inserts only the title of a new task and answers with the body it was sent (`handler.go:51`).
* The bucket of posts has no policy for anonymous readers, so MinIO refuses the media URLs to browsers. The properties
  about viewers are about whoever is let in.
* The page sends an empty API key (`app.js:2`), which the server never accepts. `PageHasKey` is
  that setting: `FALSE`, as committed, in `PresignedUploadCalls`, and `TRUE` in
  `PresignedUploadPage`, which would otherwise show nothing.

### Bounds, and why they are enough

`Requests` is the number of requests in a whole behaviour; each is used once. `InFlight`
bounds those inside the server at a time. Creations are bounded by the ids there are.

* To exceed a limit of 1 across two windows takes three requests, a limit of 2 within a window
  three; four leave one to open or to repeat. Window 2 is the smallest with a moment inside.
* A stale copy takes a creation, a read and a write that overlap; that it is seen takes a second
  read: four requests. Three suffice for its disappearance.
* A lost update takes a creation and two updates; the fourth request deletes or reads.
* With the form of the page one submit makes a post, one delete unmakes it, and a third
  request interferes or views. With single calls init, upload, create and delete make four.
  A limit of one byte puts an empty file, one within and one above the range into `PresignedUploadCalls`; the form of the page refuses
  the last, so `PresignedUploadPage` has two files that differ in size and in being a video.
  `Expiry` of one tick lets an upload be valid or expired at every step.
* In `ChatgptTasks` a limit of 2 with three requests has one refused, and two that race for one row; a window
  of one tick can pass between any two steps.
* In `GeminiApp` the table may hold the task beforehand, so two requests are enough to race for it, or for
  a quota of 1, while either caller leaves. Failing statements and repeated commands are
  in the other runs of the parts and in the theorems.
* `MaxRetries` is 3 in the Redis client as the programs configure it. One repetition is enough to set a key twice with anything
  between the two, and the theorems hold for any number; where it is 0 the fault `"retry"` is not among `Faults`.
* In `ServerProcess` one request is served, one queued in the listener and one span waiting in the batch when the
  signal arrives; the deadline is an event that may happen at any moment of the drain.
* The proofs below hold for any bounds.

Symmetry is used among requests where a run checks no liveness. No run switches deadlock
checking off: when all requests are answered, `Idle` (or `Tick`) is the server waiting.

### Fairness

`RateLimiter!Fairness` and `TaskCache!Fairness` are weak fairness of each request that is
inside the server and of the expiry of keys. The Go scheduler runs every goroutine; a Redis command
ends with a reply or, after the default read timeout of the client, with an error; a statement on one
row ends because no transaction holds its lock for longer than itself; Redis' clock goes on. What is not
covered is a PostgreSQL that accepts statements and never answers: the code sets no timeout for that.
`GeminiApp!FairSpec` is the same for a request through all of the middleware, except where its handler waits for its own caller
(`AwaitsCaller`): the server has neither a read nor a write timeout (`main.go:92`), so a connected caller who does not send the body it announced
(`handlers.go:51`, `:120`), or does not read a list, holds its handler up for ever. `EveryRequestEnds` says that nothing else does, and that the
handler goes on once the caller has gone. A caller who goes without the server noticing counts as connected.
`ServerProcess!Fairness` does not assume that handlers end, for that reason: only that the statements of gemini do (`Query`), because closing the
pool waits for connections in use, and a handler has its body before it takes one. Of the other programs
it assumes nothing of that kind, because ai-studio ends by its deadline and the other two by being killed. `ServerProcess!Fairness`
further has the main goroutine go on whenever it is not waiting, the five seconds pass, and the connections of the start
succeed or fail, the one to the collector of gemini excepted.
No fairness is assumed of arrivals, failures or crashes.

## 4. Proofs

All constants are arbitrary, subject to the named assumptions of the module: any number of
clients, requests, tasks and ids, any limit and window, any subset of the faults
unless the theorem says otherwise.

* **`RateLimiterProofs`**
  * `TypeCorrect`.
  * `QuotaHolds` (`QuotaPerWindow`). The argument is about tickets: INCR gives the requests of one
    window of a key distinct tickets, none above the count, and only a ticket up to
    the limit is admitted; so the admitted requests of a window are mapped one to one into `1..Limit`.
  * `NoKeyStranded` (`NoStrandedKey`), for `Faults = {}`.
  * `RefusedJustly` (`RefusedOnlyAfterQuota`), for crashes as the only fault: the tickets of a window are
    consecutive (`Consecutive`), so a ticket above the limit has `Limit` others before it.
  * `Implementation`: the limiter implements `Quota` under all faults, with
    `left` the rest of the limit, `since` the age of the key and `verdict` decided by
    the ticket at the moment of INCR. The crucial lemma is that a key does not expire before it is `Window`
    ticks old, because every EXPIRE, also a repeated or late one, gives it a whole window.
  * `BurstsBounded` (`BurstBound`): the requests counted during the last `Window`
    ticks belong to at most two windows; then `QuotaHolds` for each.
  * `WindowsKeepTheirEnd` (`ProlongedOnlyByRepetition`): the only request that may still send EXPIRE in a window
    is the one whose INCR has opened it, and before it has sent it once, the key has no expiry (`Opening`) unless a repeated or late
    EXPIRE of an earlier opener has set one.
* **`TaskCacheProofs`**
  * `TypeCorrect`, with `Assigned`: a request inside a handler knows its task.
  * `StaleExplained` (`StaleHasCause`), `FreshOrTainted` (`FreshUnlessTainted`): every version between
    the copy and the row belongs to a writer that has yet to delete the key, unless the
    copy is tainted; a version is acknowledged only after that.
  * `Implementation` (`TransparentUnlessStale`): under any concurrency and all faults an answer is that of the
    table at some moment, unless it has an excuse. A copy that lags behind without taint has a writer that has yet to
    delete it, which excuses its reader; one that does not lag is a row's and not a deletion's (`Copies`). `DeletedForGood` is what follows for callers.
  * `SequentialTransparent`, for `InFlight = 1` and `Faults = {}`: nobody has an excuse then, so it is a
    corollary of the same step.
  * `RevivalsRunOut` (`RevivedOnlyByLateReads`): the reads that can bring a deleted task back into
    the cache are those that had selected it before; each of them may still send its SET once, and once more for every repetition,
    and every SET takes one of these times away (`RepetitionEffect`).
* **`GeminiTasksProofs`**
  * `TypeCorrect`; `Implementation`: `TaskStore` is implemented under any concurrency and
    all faults. With `TaskStore!Promised` it gives `DeletedForGood`.
  * `LostExplained` (`LostOnlyByOverlap`): the invariant `Tracked` says of a row that a field
    which is not the last one named was overtaken, and of an update on its way that what it
    has read was current, or has been named again, since.
* **`PresignedUploadProofs`**
  * `TypeCorrect`, with `Ready`: each step has the key, file or row that it needs.
  * `DanglingExplained`: a key that `Stat` has seen keeps its object unless a deletion removes it.
  * `PolicyHolds`: if the policy has a range, which it has for a limit of at least one byte, a file outside it never gets under such a
    key, so neither does its description into a row.
  * `PageConsistent`, for calls of the page only: a key belongs to one form, hence
    to one row and one upload (`Own`), and who is over stays over, so that what was shown stays true
    (`Shown`). It gives `DanglingOnlyByDelete` and `MetadataMatches`.
  * `OrphansExplained` (`OrphanNeedsFailure`), for calls of the page only: an object has its row or
    an excuse (`Kept`), and an excuse ends only with the insertion of the row.
  * `PostsImplemented` (`ImplementsPostStore`), for calls of the page only. Each call of the server is a step in the
    life of one post or none (`UploadIsStep` to `AskIsStep`). What has to be known for that is `Lives`: no deletion
    works on the key of a form that is not over, hence what a form stores is the first object under its key and
    still there when its row is inserted.
* **`ChatgptTasksProofs`**
  * `LimiterIsUndisturbed`: every step is one of `RateLimiter` or leaves its variables alone. With that the
    theorems of `RateLimiterProofs`, instantiated, hold of the composition.
  * `TypeCorrect`; `WritesBounded` (`WritesWithinQuota`) from `QuotaHolds` and `Standing`: whoever has changed a row was
    admitted; `StrandedByCrash`.
  * `LimiterCarriesOver`: the composition implements `Quota`, with `BurstBound` and `ProlongedOnlyByRepetition`; with the former,
    `BurstsOfWritesBounded`.
  * `Implementation` of `TaskStore`, from which `DeletedForGood`, and `CountersCorrect` (`Accounted`) with the invariant `Tallied`.
* **`GeminiAppProofs`**
  * `TypeCorrect`; `BypassHarmless` (`BypassWritesNothing`) as in chatgpt, where `Standing` adds that a request
    gets past the limiter uncounted only if its caller has gone, or Redis failed it.
  * `CountersCorrect` (`CountersAgree`).
  * `QuotaImplemented` (`ImplementsQuota`): what a caller sees is the verdict of the limiter (`QuotaIsSeen`), whose
    `Implementation` then is that of the application. It takes `Openers` of `RateLimiterProofs`: a request that was counted
    and goes away before it is ruled on has opened its window, so it was entitled.
* **`TaskStore`** itself: `Promised`. Deleted tasks stay deleted, versions grow, answers stand, and nobody is told of a version
  that did not exist. The three implementations inherit it.
* **`ServerProcessProofs`**: `TypeCorrect`, `CutExplained`, `StoresOutliveHandlers`, `SpansFlushed`,
  `DrainObserved`, `FailuresExplained`, all from one inductive invariant `Inv`. It is needed because none of the properties says
  why it holds: listeners are closed before requests are waited for (`Admitting`), so that whoever is
  still served when stores are being closed has outlived the deadline (`Outliving`). With it each step of main, of the
  listeners and signals, and of a request is one of `Service` or none: `ServiceImplemented` (`ImplementsService`).

Only model-checked, because TLAPS cannot do liveness: `WindowReopens`, `StaleEntriesDie`, `DeletedIsForgotten`,
`EveryRequestEnds` and `Stops`. Every safety property of the runs has its theorem.

Only proved, and checked by no run, are those that follow from what is checked, or that say little by themselves:
`NoStrandedKey` (`WindowReopens` would fail without it), `ClosedOnlyWhenLate` (`Service` takes the stores from
nobody before), the type
invariants of the two compositions, and that chatgpt leaves its limiter undisturbed.

## 5. What is not modelled

* Requests that are refused for malformed JSON, ids or empty form fields, but where answers are
  counted (`ChatgptTasks`, `GeminiApp`): they are answered 400 and touch nothing.
* Contents beyond what a property tells apart: texts, times, order of lists, content
  types other than being a video. A title too long for its column is a failure of the statement.
* A statement that the database executes after its caller was already answered with an error, or
  after a crash of the server: it is executed by then, or never. The same of a Redis command whose client has given up waiting for it or sent it
  again: each sending takes effect before the next one, or not at all.
* Log records, histograms, what is in a span, and the configuration of the observability stack
  (Prometheus, Grafana, Loki, Tempo, Alertmanager, collector): output, or third-party.
* The worker, which keeps no state; the migration command of ai-studio, one CREATE TABLE IF NOT EXISTS;
  `PresignMultipartPart`, which nobody calls; CORS; the rendering of the page.
* Connections that are accepted by the operating system and not yet by the server when its listener is closed.

## 6. Plan

Done, in the order of importance: limiter and `Quota`; cached tasks and `TaskStore`; posts and `PostStore`; partial
updates; the processes and `Service`; the compositions of limiter and handlers in chatgpt and gemini. What is left:

1. Contents in `TaskCache`, for the body that `CreateTask` echoes without having stored it.
2. Statements that are executed late, after the answer to their caller or after a crash, in both models that use
   `TaskStore`; its refinement then needs writes that take effect after their request has ended.
3. `ServerProcess` composed with `GeminiApp`, so that the drain waits for the handlers of the latter.
4. What remains of `PostStore` for callers of the single calls, who may give one object to several posts.
