# Image-Ops in TLA+

This directory models the parts of Image-Ops that are hard to test: what
happens when requests, workers, retries and crashes interleave. The modules are
checked with TLC on small instances; the most important invariants are proved
with TLAPS for every value of the constants. `PROJECT.json` lists components,
runs, mutants, findings, hazards and theorems, and says which lines of `src/`
each definition stands for.

## 1. Inventory

Image-Ops takes an image from a browser to a bucket, runs one tool on it in a
worker and hands back a signed URL. Taking part are the web app, the API, the
workers, the MCP gateway, Redis (or Postgres) for metadata, Redis for BullMQ, and
an S3-compatible bucket; the last three are not in `src/`.

| part | state | operations | talks to | modules |
|---|---|---|---|---|
| image quota (`services/api/src/services/job-repo.ts`, `routes/quota.ts`) | one quota record a subject | reserve by Lua script, reserve by WATCH/MULTI/EXEC, roll on GET | Redis, profile | `QuotaLedger`, `Quota` |
| job creation (`routes/jobs.ts`, `services/queue.ts`), worker (`processor.ts`, `worker.ts`), dead-letter admin (`routes/admin.ts`) | job record, BullMQ job, dead-letter queue | check, reserve, enqueue; process, complete, fail; list, retry | quota, bucket, BullMQ | `JobPipeline` |
| uploads (`routes/uploads.ts`) | object, completion record, dedup index | init, complete (strip EXIF, scan, deduplicate, finalize) | bucket, Redis, scanner | `UploadCompletion` |
| refresh sessions (`routes/auth.ts`, `services/auth.ts`) | session record, cookie | login, rotate, logout | Redis, Google | `Sessions` |
| web client (`apps/web/app/lib/api-client.ts`, `auth-provider.tsx`, `google-auth.tsx`) | token, refresh queue | fetch, refresh once, restore a session | API | `WebClient` |
| tool page (`tool-workbench.tsx`) | file, keys of the last run, history | pick, run, poll, clean up | API, bucket | `Workbench` |
| cleanup (`routes/cleanup.ts`) and MCP gateway (`services/mcp-gateway/src`) | idempotency record, audit; plan and step | delete objects once a key; run a plan step by step | bucket, Redis; API | `Cleanup`, `Gateway` |
| billing (`routes/billing.ts`, `services/billing.ts`) | checkout session, profile, event log | checkout, webhook, reconcile, cancel, reactivate | provider, Redis | `Billing` |
| worker and API processes (`worker.ts`, `heartbeat.ts`, `server.ts`) | heartbeat key, open connections | beat, shut down, readiness | Redis, BullMQ | `WorkerLifecycle`, `ApiLifecycle` |
| background-removal provider (`providers/bg-remove-provider.ts`) | breaker | call, retry, open | HTTP provider | `BackgroundRemoval` |
| rate limiters (`services/*/src/lib/rate-limit.ts`, gateway `rate-limit.ts`) | a counter a key | admit, sweep | - | `RateLimits` |
| Postgres and in-memory repositories (`services/job-repo.ts` of API and worker) | rows, with an end of their time | every method of `JobRepository` | Postgres | `PostgresRepository`, `PostgresStore`, `RecordStore` |
| configuration and formats (`config.ts`, `server.ts`, `packages/core/src/types.ts`, `tools/*.ts`) | the environment of a process | start, choose store, driver and format | - | `JobContract` |
| SQL migrations (`scripts/migrate.ts`) | `schema_migrations` | up, down | Postgres | `Migrations` |
| log buffer, core's window counter, pages, SEO data | lists, content | - | - | none, see section 7 |

What makes each correct, and what is hard about it:

- Quota: no window admits more images than the plan allows; windows do not
  overlap; an expired window refuses nobody. Hard because four code paths
  write one record, with different ideas of its fields, and clocks are read early.
- Jobs: a record agrees with the queue in the end; no failure loses both the
  input and the output; what is deleted is audited; what fails for good is in
  the dead-letter queue. Hard because delivery is at least once, records are
  read and written back, and a process may die between any two awaits.
- Uploads: an accepted upload has an object with the bytes that were recorded;
  deduplication never deletes the last copy. Hard because completions, retries
  and workers share objects, and an object is rewritten while it is checked.
- Sessions and client: a token whose session is revoked opens nothing; a browser
  that refreshes by itself does not lock its user out or strand a fetch. Hard
  because a rotation is four commands and several fetches meet a 401 at once.
- Cleanup and gateway: an answer speaks only of deletions that are audited; an
  answered key deletes nothing more. Hard because a plan is retried under one
  key and a request may die between deleting and auditing.
- Billing: a payment is granted, once, and stays granted; no plan comes from
  nowhere. Hard because six handlers write back the profile they read.
- Processes: a shutdown ends, and ends in order; a live worker looks alive.
- Provider and limits: an open circuit spares the provider from all jobs of the
  process; bursts at the edge of a window are bounded.
- Repositories: Postgres keeps the promises the in-memory repository makes. Hard
  because a call is several statements, and an end in milliseconds becomes one in seconds.
- Configuration: API and worker agree on store and format though each decides alone
  from an environment that may be edited in between.
- Migrations: the journal names files whose objects are there.

`hazards` in `PROJECT.json` lists what in this code is hard to test, each at its
line, with the properties that would catch it.

## 2. Plan

Ordered by what a failure would cost; all of it is built, and what could follow
is at the end.

1. `QuotaLedger` (abstract promise), `Quota` (three code paths), proofs.
2. `JobPipeline` (API, BullMQ, worker, bucket, dead-letter queue), proofs.
3. `UploadCompletion`, proofs.
4. `Sessions`, and `WebClient` which extends it with the browser, proofs.
5. `Billing` with every writer of the profile, proofs.
6. `Cleanup`, and `Gateway` which extends it with its client, proofs.
7. `WorkerLifecycle` and `ApiLifecycle`, proofs.
8. `PostgresRepository` as another implementation of `QuotaLedger`, proved;
   `RecordStore` (abstract: every operation at once) and `PostgresStore`, which
   implements it statement by statement, proved.
9. `BackgroundRemoval`, `RateLimits`, `JobContract`, `Workbench`, `Migrations`, proofs.

Could follow: a composition of uploads, jobs and cleanup over one bucket (today
each module takes the others in as removals it does not control); the Postgres
form of upload completion under the properties of `UploadCompletion`.

Modules that are proved about use recursive functions or none at all, and no
`RECURSIVE` operator.

## 3. Modules

| module | what |
|---|---|
| `QuotaLedger` | what the quota promises: charge the open window, or open a new one |
| `Quota` | the Redis implementation; `Ledger` maps its quota record to `QuotaLedger` |
| `PostgresRepository` | the Postgres implementation, on `QuotaLedger`'s own variables |
| `RecordStore`, `PostgresStore` | a repository whose operations take effect at once; the SQL one |
| `JobPipeline` | a job from POST to its last attempt |
| `UploadCompletion` | POST /api/uploads/complete, from the first HEAD to the deletion of a duplicate |
| `Sessions`, `WebClient` | the session keys; the browser that presents their tokens |
| `Cleanup`, `Gateway` | POST /api/cleanup; the gateway's plans that call it |
| `Billing` | who writes the plan of a subject |
| `WorkerLifecycle`, `ApiLifecycle` | processes from start to exit |
| `BackgroundRemoval`, `RateLimits`, `JobContract`, `Workbench`, `Migrations` | one component each |
| `MC*` | the instances TLC checks; `MCClients` and `MCServices` put components side by side |
| `*Proof` | theorems and proofs: `ComponentsProof` of `Cleanup`, `Gateway`, `Workbench`, `BackgroundRemoval`, `JobContract`, `RateLimits`, `Migrations`, and of the composition in `MCClients`; `SessionsProof` of `Sessions` and `WebClient`, `ServicesProof` of `Billing`, `WorkerLifecycle`, `ApiLifecycle` and their composition in `MCServices`, `PostgresProof` of `PostgresRepository` and `PostgresStore`, the others of the module they are named after |

Operators whose names end in `Slip` are mutants: each changes the definition
after it the way a plausible mistake would, and a property must notice. No
specification uses them.

### Quota

State: `quota` is the Redis value (`NoWindow` when absent; `epoch` is
`windowStartAtEpochMs`, which only the script writes); `watch` is what Redis
knows of each connection's WATCH; `plan` the profile; `pc`, `at`, `tier`,
`seen`, `tries`, `after` the locals of the requests. `granted` and `drops` are
history.

One action a Redis command: `EvalReserve` is the script; `EvalReplyLost` is the
script whose reply was lost (the client has `maxRetriesPerRequest: null` and
sends it again); `WatchKey`, `GetKey`, `RefuseOptimistic`, `ExecCommit`,
`ExecAborted`, `Unwatch` are the fallback, with `UNWATCH` both where the code
calls it and in its `finally`; `ReadQuota` and `RollQuota` are GET /api/quota;
`ChangePlan` stands for the billing routes. Whether a request's EVAL is
answered NOSCRIPT or the like is the constant `LuaDown`. Time is a counter of
ticks, the hours of a plan are ticks.

The requested count is 1 for a job and 0 for GET, as in the routes.

### JobPipeline

State: `record` is the job record's status and error code; `queue` is the
BullMQ job; `pc`, `run`, `seen` a worker's place, job and last read record;
`input` and `output` the objects; `audit` the deletion audit; `adding` the adds
to the dead-letter queue not yet answered; `dead` that queue; `budget` bounds
the trouble. `history` remembers what befell a job (`Mishap`): an attempt that
broke off at one of the steps after the PUT, by a throw or a death; a lock that
expired under a live worker; a dead letter that was lost; a retry by an admin.
No action reads it.

One action an await of POST /api/jobs, `processImageJob` and the failed handler.
`updateJobStatus` reads and then writes, so each of its calls is two actions.
`Throw` makes any await in `Faulty` throw: inside the `try` the catch block runs,
outside it the attempt is over. A step that took effect and still threw is a throw
at the step after it. An enqueue that is refused (`EnqueueFails`) is followed by the
read and the write that mark the record failed; an add to the dead-letter queue that
is refused (`DeadLetterRefused`) is logged and forgotten, as in the handler's catch.
BullMQ is modelled from how the code uses it, in the version `package-lock.json`
names: `Take`, `Promote`, `Stalled`, `Complete`, `Fail`. A job that stalled more
than `maxStalledCount` times fails as it is taken, with one more attempt made; that
is below `attempts`, so the handler adds no dead-letter entry and nothing writes the
record. Completed jobs stay in the queue (they are trimmed by count and age in the
code, far beyond the runs), failed ones stay until removed (`removeOnFail: false`).

Left out: an enqueue that landed in Redis although the API saw an error (ioredis
resends without limit, and the job id makes the second add a no-op).
`ExpireInput` and `ExpireOutput` stand for POST /api/cleanup and the bucket's
lifecycle rule (`infra/README.md`); neither touches the record.

### UploadCompletion

State: `bucket` holds the bytes under each key; `index` the dedup records of a
hash in their order, `completion` the completion records and `watch` what Redis
knows of each connection's WATCH; `pc`, `body`, `left`, `canon`, `read`, `tries`
and `after` are the locals of the requests; `uploaded`, `removed` and `crowded` (the
connections that two transactions used at once) are history. An API process has one
Redis connection for all its requests, so which requests share one is a constant.

One action an await of the route. A content stands for its own hash. `Strip` is
what sharp writes back; nothing is assumed about it, not even that stripping
twice is stripping once. `StripFails` covers both a write that failed and one
that took effect and reported an error (the route goes on with the unstripped
bytes either way). The loop over the candidates is `Compare`, one candidate a
step; the size check is part of the comparison of bytes. The transaction has the
granularity of `Quota`: `WatchKeys`, `ReadIndex`, `Commit`, `Aborted`, `Unwatch`.
Two requests with one key are a client that tries again, which it may do before
the first attempt is over. `Remove` is a worker, POST /api/cleanup or the
bucket's lifecycle rule.

Left out: posting to one presigned URL twice (the web client posts once), and
errors that end a request with status 500, which leave the state a crash leaves.

### Sessions and WebClient

`session[s]` is the Redis key of session s (live or revoked, `expiresAt`, and
when Redis drops it); a call issues at most one session, so calls name sessions.
`callPc`, `presented`, `calledAt` and `resume` are a handler's locals. One action
a Redis command: `CheckSession` is the GET and the checks on it, `RevokeGet` and
`RevokeSet` the two commands of `revokeAuthRefreshSession`, `PutSession` the SET
EX. The clock moves between any two, and `Fail` ends a handler anywhere. `spent`
and `stale` are history: a session somebody revoked, a call that came after that.

`WebClient` adds the browser: `cookie` (shared by the tabs), and for each tab its
bearer token, `isRefreshing`, `refreshQueue` and guarded page. `SendFetch`,
`FetchSettles`, `Unauthorized`, `StartRefresh`, `Conclude` and `Flush` are
`apiFetch`; `OpenPage`, `ShowPage`, `LeavePage` are `AuthProvider`; `AnswerComes`
and `GiveUp` are the answer, or the timer, of `refreshApiToken`. A call carries
the cookie of the moment it is sent and its answer may come at any later one.

Two refreshes that overlap both rotate, although `README.md:74` of the repository
speaks of single-use refresh tokens: `auth.ts:274` reads the session and
`auth.ts:312` revokes it, with nothing in between to stop another. The properties
are therefore about what the code does ensure: `SpentTokenRefused` of calls that
arrive after a revocation, `StaysSignedIn` of a browser in which no such overlap
happened (`trouble` records one, a lost answer, or a logout).

### Cleanup and Gateway

One action an await: `Lookup`, `MarkInProgress` (status 102), `DeleteObjects`,
`AppendAudit` for each entry, `Finish` (the record with status 202). `ForgetKey`
drops a record whose time is over, `UploadAgain` puts an object back, and a request
may die at any of its awaits. A request that finds its key at 102 runs again, as
`cleanup.ts:97` has it, although the comment at `cleanup.ts:23-38` speaks of
replaying or refusing. `Gateway` is one client: `Submit` checks a plan (policy,
sandbox, scopes), steps run one by one, a step that times out may still take effect,
and the caller repeats a plan that failed.

### Billing

`profile` is the plan in the subject's profile; `checkout`, `older`, `recorded`
are the records, `older[s]` the sessions whose `updatedAt` is before that of s;
`planOf`, `offered`, `emitted`, `acked` the provider's side. `request[i]` is a
handler under way: the record it works on, what is left of the sessions it listed
(`PaidSessions`, the first created first), and whether a profile it read is
`stale`. A subscription is reactivated from `LastPaid`, the paid session updated
last. One action an await: every writer goes
through `ReadProfile` and `WriteProfile`; `AfterRead`, `Written` and `AfterWrite`
say where each kind of request goes and what it writes. `Deliver` repeats an event
until it was answered 200. `excused` records a cancellation and a write of a
profile that was read before somebody else's write: the code loses such updates
and nothing promises otherwise.

### WorkerLifecycle and ApiLifecycle

`workerPc` walks through the closes of `shutdown()` in the order of `After`;
`CloseFails` is a close that throws or whose timer wins; `Closed` waits for jobs
only at the close of the BullMQ workers, which is external and modelled as its
callers use it. Jobs go on meanwhile; after the repository is closed they can
write no record. The clock advances in steps of `TickMs`; `Beat` sends the SET EX,
`BeatWritten` is when it takes effect, at most `DelayMs` later. In `ApiLifecycle` a
client may hang up (`HangUp`), after which `server.close` no longer waits for its
handler, which may meet closed dependencies (`"broken unseen"`).

### Postgres

`PostgresRepository` is `reserveQuotaAndCreateJob` with a statement a step and the
row lock of SELECT FOR UPDATE, which locks nothing while there is no row: two first
reservations may both start from nothing, and `raced` records that one overtook the
other. `PostgresStore` is the other methods, of the API's repository and of the
worker's, on rows with `expires_at`. Each look at the clock is a choice between the
step that learned what it needs and the statement that uses it (`Since`), as the
JavaScript around a statement takes time. A change of a session or a checkout works
out what is left of the record's own time in whole seconds (`LeftAt`, `Second`
instants of the clock to a second), and the row's new end from a later look: it may
lie up to a second before the end of the record or after it, a session with nothing
left is deleted, a checkout gets a second more. `RecordStore` therefore promises
that a record is found until its time is over, or, once its status was changed,
until its last second (`Slack`). `overtaken` records a statement that acted on a row
another call had changed since it was read (`updateJobStatus`, `job-repo.ts:1076`;
the unconditional DELETE of an expired row, `job-repo.ts:863`;
`finalizeUploadCompletion` of a new hash, whose FOR UPDATE locks nothing,
`job-repo.ts:975`). Both promise their abstraction up to that moment.

Differences between the repositories that no property is about: the list of a
subject's checkouts applies LIMIT before it filters expired rows
(`job-repo.ts:1160`), so it may be shorter than the in-memory one.

### The other components

- `BackgroundRemoval`: attempts and backoff of each job, one breaker for all. The
  breaker is opossum, external: it counts fires and failures, opens when more than
  half of at least `Volume` fires failed, and lets one call through when it
  half-opens. `worker.ts:36` passes it no backoff values although the configuration
  parses some.
- `RateLimits`: the API's limiter with its sweep, and the gateway's, in milliseconds
  of a common clock.
- `JobContract`: an environment that is edited between the starts of the API and of
  the worker; what each refuses to start with; the store a job record goes to, and
  the format that is promised, put into the key, encoded and recorded. Outside
  production the two may use different stores, and anywhere two databases, since
  nothing compares the `POSTGRES_URL` of one process with that of the other
  (`Store`): the worker's update of a record it does not find returns silently. A
  requested format outside jpeg, png and webp reaches the worker unchecked
  (`jobs.ts:108`).
- `Workbench`: the awaits of the tool page. Keys of the last run are two pieces of
  state which runs, failures and cleanups change at different times. `sent`,
  `canonical` and `reads` are the API's side: the file of a run, the upload that its
  completion recorded as canonical (its own or that of an earlier run of the same
  file) and the one its job reads (`jobs.ts:81`). The page cleans the key it
  uploaded to, so a cleanup in flight may take the input of the next run of that
  file; `CleansOneRun` says that it takes nothing else of that run.
- `Migrations`: commands that read the journal once and apply files one transaction
  each, several at once, and the API's own CREATE TABLE IF NOT EXISTS. An up takes
  its files in the order of their names, so that a set stands for the list; a down
  removes its row wherever it is in the journal.

## 4. Runs

All runs have `CHECK_DEADLOCK FALSE`: every request is served once and the
systems come to rest.

| run | question | answer |
|---|---|---|
| `quota_lua` | does the script keep the promise, with plan changes and resent EVALs? | no window admits more than it may, expired ones admit |
| `quota_optimistic` | does the fallback, one connection a request? | yes, it implements the ledger, and gives up only to winners |
| `quota_faults` | what survives all paths on one connection, with reconnects and GET? | the stored count stays within the limit |
| `quota_shared` | and the number of jobs admitted? | no: a shared connection loses watches |
| `jobs_faults` | an error anywhere in the try block, retries, shared input, a crash anywhere, a refused add | every record settles as the queue did; a deletion is audited unless its attempt broke off before the audit, done is final unless an attempt broke off at the deletion or later |
| `jobs_storm` | every trouble at once | objects and queue still as promised |
| `jobs_dlqretry` | does a retried dead job run? | no |
| `jobs_regress` | is a stored output offered? | not after a crash late in the processor |
| `uploads_dedup` | repeats, damaged files, failures, a crash, a removal | deduplication deletes no last copy, records tell the stored bytes, the index loses nothing but on a connection that two transactions used at once |
| `uploads_retry` | may a client try again as it is told to? | no: its checksum no longer matches the stripped object |
| `clients` | nine components side by side (section 3) | their invariants hold; Postgres implements `QuotaLedger` and `RecordStore` up to a race |
| `services` | billing and two shutdowns, with what happens in the end | payments are granted and kept, shutdowns end in order |

The runs that find a violation check one statement of the repository each;
`findings` quotes it. GET /api/quota beside a reservation is not a run of its own:
it may write back a window from before a charge, and no statement of the
repository says otherwise. Nor are three losses the code allows, which the properties
name as their exceptions: an audit that throws leaves a deletion unaudited; a refused or
interrupted add leaves an exhausted job out of the dead-letter queue (`worker.ts:196`);
two completions on one connection may lose an entry of the dedup index
(`job-repo.ts:437`).

`MCClients` and `MCServices` hold components that share no state. A variable
`part`, chosen in the initial state, says which of them takes steps; TLC thus
explores the union of their behaviours instead of the product, in which every
step of one would be repeated for every state of the others. Every invariant is
evaluated in every state; an idle component is in its initial state. `clients` takes
the callers of the repository as symmetric: no definition tells them apart, and the
run checks no liveness.

Bounds. Quota: three or four requests against limits of one or two images is enough
to fill a window, overflow it, and have one request left to see the next; windows of
two or three ticks in four ticks of time give an old, a current and a new window;
two plans of different limit and hours cover a change in either direction; one lost
reply suffices for a double charge. `MaxTries` is 2 instead of 5: the give-up is
reached with fewer rivals. Pipeline: two jobs are needed for a shared input, two
workers for a redelivery while the first still runs, two attempts for one that is
retried and one that is the last; one stroke of each trouble (two of crashes in
`jobs_storm`, two of faults in `jobs_dlqretry`, where both attempts must fail)
reaches every combination the properties tell apart; a refusal is that of an enqueue
or of a dead letter. Uploads: two keys and three requests give a duplicate, a
repeat, and both at once, two of them on one connection and the third on that of
another process; the third content is a file that is no image, and each file may
arrive as any of the three; one stroke of each trouble.

`clients`: one tab, two fetches, two pages or logins and three calls give a login,
a rotation and one call that races it, and two fetches that meet a 401 at once; a
second tab is not in the run, since `StaysSignedIn` makes no promise for one. Two
cleanups under one key, submitted twice by the gateway, with one upload and two
mishaps: a replay, a retry after a failure, a record that expired. Three removals
with one retry and a volume of two: a breaker that opens in a backoff and
half-opens for two last attempts. Windows of two milliseconds, quota two, five
milliseconds: three windows. Three reservations, two plans, three instants: a
race, a charge and a new window. A key of every kind, two callers, three calls, and
a time of one second on a clock of half seconds that runs for a second: a call that
overtakes another, one that meets an expired row, a session with less than a second
left that is dropped, a checkout that is given another. Two picks
and two runs, one edit of the environment, four migration commands by two
migrators. `services`: one checkout session, two requests besides webhooks, one
death; one job with two attempts, a heartbeat of 1500 ms with writes up to
1000 ms late, two faults; three API clients and two dependencies. The proofs lift
these bounds for the properties of section 6.

## 5. Fairness

`FairSpec` of `JobPipeline` assumes weak fairness of what the programs do by
themselves: a request goes on, a live worker goes on, BullMQ hands out waiting
jobs, ends backoffs and returns the jobs of dead workers. No trouble is ever
forced, so a liveness property holds only if it holds without it. `ReserveSlot`
may refuse, and `Stalled` is fair only when the worker is not alive.

`BillingFairness`: a request under way goes on, and the provider sends an event
until it is answered, as a provider of webhooks does; what dies need not be
repeated by anyone else. `WorkerFairness` is weak fairness of `CloseFails` alone:
the timer of `withShutdownTimeout` fires. Nothing is assumed of jobs, of Redis or
of BullMQ, so `ShutdownEnds` holds when every close hangs. The API's shutdown has
no timer: `ApiFairness` assumes that a client that is not answered hangs up, that closes
settle and that the process goes on; nothing is assumed of handlers. Without it the
API may wait for ever, as the code may.

Quota has no liveness property: its loops are bounded by
`MAX_OPTIMISTIC_RETRIES`, and `AbortsHaveWinners` says what that bound means.
Nor has the browser: `NobodyStranded` is the safety half, and the rest is the
timer of `refreshApiToken`.

## 6. Proofs

| theorem | says |
|---|---|
| `LedgerCorrect` | `LedgerSpec => []LedgerInv` |
| `QuotaTypeOK`, `QuotaUsedWithinLimit` | types, and the stored count, under every mix of paths |
| `ScriptImplementsLedger` | with the script alone (`ScriptOnly`), `Spec => Ledger!LedgerSpec` |
| `TransactionsImplementLedger` | with the fallback alone on private connections (`TransactionOnly`), the same |
| `SerialisedQuotaKeepsPromise` | under either, `GrantsWithinLimit`, and with it that every grant is counted and that windows are spaced |
| `ScriptExpiredWindowAdmits` | with the script alone, a window that is over refuses nobody |
| `TransactionsAbortsHaveWinners` | with transactions alone, as many admitted rivals as aborts |
| `PipelineTypeOK` | types |
| `PipelineDoneHasOutput`, `PipelineInputOutlivesFailure`, `PipelineAuditIsTrue` | the three promises no trouble breaks |
| `PipelineExhaustedIsDead` | what fails with its attempts used up is in the dead-letter queue or on its way there, unless an admin retried it or its dead letter was lost |
| `PipelineDoneIsFinal` | done stays done, unless an attempt broke off at the deletion or later, or a live worker lost its lock |
| `PipelineDeletionsAudited` | every deletion is audited, unless the attempt broke off before the audit |
| `PipelineRecordMatchesQueue` | if only the try block throws (`Faulty \subseteq TryBlock`), and until a lock expires early or more than `MaxStalls` workers die (`Calm`), record and queue agree |
| `PipelineOutputIsOffered` | a stored output is offered once the queue is finished, unless an attempt broke off after the PUT or a live worker lost its lock |
| `PipelineRetryIsLost` | a retried dead job never runs: it stays failed in the queue, its dead letter is gone |
| `UploadTypeOK` | types |
| `UploadKeepsObject` | deduplication by itself never deletes the last copy (`AcceptedHasObject`) |
| `UploadIndexedUnlessCrowded` | the index lists every completed upload, unless a completion of its hash was served on a connection that two transactions used at once |
| `UploadRecordedBytesStored` | the stored object has the recorded content, or that content stripped |
| `UploadMismatchExplained`, `UploadMismatchMeansDamage` | a mismatch means another file was uploaded, or one with EXIF data whose key was completed before; without such files, the former |
| `SessionsTyped`, `SessionsSpentTokenRefused` | types, and a token whose session was revoked is refused |
| `WebImplementsSessions`, `WebSpentTokenRefused` | the browser is a client of `Sessions`, which thus keeps its promise to it |
| `WebTyped` | types of the tabs |
| `WebNobodyStranded` | every fetch in a queue has a refresh under way that will flush it |
| `WebStaysSignedIn` | refreshing by itself never locks the user out |
| `WorkbenchTyped`, `WorkbenchHistoryOrdered`, `WorkbenchCleansOneRun` | types with the cap of the history; it holds a run once, newest first; a cleanup of the tool page names one run and nothing the run under way made, and what that run reads only if an earlier run sent the same file |
| `BillingRecordedMeansApplied` | a payment on record was applied |
| `BillingPlanHasSource` | a paid plan was chosen when a session of the site was created, or paid for |
| `BillingPaidStaysPaid` | a recorded payment keeps the plan paid until a cancellation or a lost update |
| `ServicesTyped` | types of billing and both processes |
| `ServicesDrainBeforeClosing` | the worker settles what it took; the API serves who waits |
| `ServicesHeartbeatHolds` | if a write is over a tick before the next beat (`DelayMs + TickMs <= IntervalMs`), a running worker keeps its key |
| `PostgresTyped`, `PostgresImplementsLedger` | types, and Postgres implements the ledger until a first reservation is overtaken |
| `TablesTyped`, `TablesImplementRepository` | types, with a row that outlives its record but for the last second of a changed one; and the SQL repository implements `RecordStore` until a statement acts on a row changed since it was read |
| `CleanupTyped`, `CleanupAnsweredKeyGuards`, `CleanupAnswerIsAudited` | types, an answered key deletes nothing, an answer speaks of audited deletions |
| `RemovalTyped`, `RemovalSparesProvider` | types, and one new call per reset of an open circuit |
| `GatewayTyped`, `GatewayImplementsCleanup` | types, and the gateway is a client of cleanup: `GatewaySpec => CleanupSpec` |
| `GatewayAnsweredKeyGuards`, `GatewayAnswerIsAudited` | hence cleanup keeps its promises to it |
| `ContractTyped`, `ContractJobMeansTheSame` | types, and API and worker agree on a job's format however the environments are edited, and in production on its record unless `POSTGRES_URL` was edited |
| `RateTyped`, `RateBurstBounded` | types, and at most two windows' worth of requests in less than a window's time |
| `MigrationsTyped`, `MigrationsJournalIsTrue` | types, and the journal names the first files, whose objects exist, until an up and a down overlapped |
| `ClientsImplementParts` | the composition of the run `clients` implements the specifications of its nine components |
| `ClientsTyped`, `ClientsKeepPromises` | types of all of them, and what is proved of each holds of the composition |
| `ServicesImplementParts`, `ServicesKeepBillingPromises` | the same of billing and both processes |

Arguments. `LedgerInv` is inductive because it adds to the two promises
(`ChargesWithinLimit`, `WindowsApart`) how past charges relate to the open
window: none is later (`ChargesPrecede`), all charges of the open window are
counted (`EveryChargeCounted`). The number of requests is finite
(`LedgerAssumption`), and counting uses `FS_*` facts of `FiniteSetTheorems`.

`UsedWithinLimit` is inductive only together with the same bound on every record
a request has read (`seen`) and on what it is about to write. The refinements
need, for the script, that every stored record has the epoch of its own start;
for the fallback, that a clean watch means the record read is still the stored
one, and that no record has an epoch. `SerialisedQuotaKeepsPromise` takes the
ledger's theorem through the refinement instead of proving the promise twice.

For `ScriptExpiredWindowAdmits` the invariant of the script's refinement is enough:
the epoch expires with the window. `WinnersInv` adds to that of the transactions that
aborts are paid for: the aborts of a request, and one more when its watch has
noticed a write (`Noticed`), are no more than the rivals already admitted. A commit
adds at most one to what a rival owes, and adds an admitted request, since nobody is
admitted twice (`AdmittedOnce`).

`PipelineInv` adds `WorkerKnows` to the three promises: a worker past
`PutOutput` knows its job has an output, and one at the audit knows the input is
gone. Objects may be removed meanwhile, so "has an output" is "was stored once".

The other promises say in their own words what excuses them, in marks of `history`
that are never taken back (`HistoryGrows`), so that what holds of a job without the
mark held at every earlier step. They rest on `OwnInv`, which no trouble breaks: a
worker that runs a job holds its lock, unless a live worker ever lost it (`Owned`);
only an active job has a worker's lock (`Held`); the queue holds only jobs whose
record exists (`Created`); only failed jobs are in the dead-letter queue or on their
way (`Buried`). Two workers then never run one job whose lock was kept
(`OnlyRunner`). On top of it `DoneStays` says that a record that says done belongs to
a job the queue completed or to a worker at the end of the processor;
`OutputsPublished`, that an output without such a record is with the worker about to
write it; `Accounted`, that a job which failed with its attempts used up is `Doomed`,
was retried, or its dead letter was lost. A throw or a death late in the
processor, and a lost lock, take the job from that worker: a throw after the record
says done sends the attempt to the catch block, which writes "failed" over it
(`processor.ts:151`). Nothing else does.

Queue and record agree only in fair weather, and there the excuse cannot be a mark of
one job: the queue gives a job up that stalled too often, and no worker is left to
tell the record. `Calm` bounds the trouble instead, until a lock expires early or more
than `MaxStalls` workers died, and `Faulty \subseteq TryBlock` keeps throws inside
the try block, since outside it a throw reaches the queue alone. `LockInv` adds to
`OwnInv` that a job stalled no more often than workers died (`Counted`), `ToldInv` that
a worker about to tell the queue how a job ended has told the record. Trouble is
never taken back either (`BudgetGrows`). `jobs_faults` satisfies both hypotheses, with
every step of the try block in `Faulty`.

Two promises of the repository that runs refute have a boundary, which is proved. A
stored output is offered unless its attempt broke off after the PUT or a live worker
lost its lock (`OfferedInv`). The retry of a dead letter has no such boundary: a dead
job is failed in its queue (`Buried`), which no command of BullMQ undoes while the job
is kept, so the add is ignored every time.

`UploadInv` says of every key that anything points at, or may yet point at (the
index, the candidates and records a request has read, its canonical key, the
completion records), that it is `Good`: its own completion is over, left the
object alone, and the object is kept, or the key was completed twice. A key
becomes good with the commit that first puts it into the index, which is why
`WorkedOnKept` (the object of a request at work is kept) is needed; it stays good
because only its own completion could delete it, and a second one makes it
`Repeated`. `AcceptedHasObject` alone is not inductive: a candidate read before
it went away would be pointed at next.

`IndexInv` is about the transactions that write the index. Two of them on one
connection crowd it (`Alone`), and UNWATCH or EXEC of the one may then drop the watch
of the other. On a connection that never was crowded, `ReadIsCurrent` is the usual
invariant of an optimistic transaction: what was read is stored, unless the watch
noticed. So an upload is in the index, or a completion of its hash was served on a
crowded connection (`IndexedOrLost`).

`BytesInv` carries `StandsFor` from the body a request holds (`WorkTrue`) to the
record it writes (`RecordTrue`): a content stands for a key if it was uploaded there,
or is what stripping it left and nothing else is there any more. Since a key is
uploaded once and stripped only of the declared file (`BucketTrue`), a second
completion, or a stripping that reported an error, may change the object under a
record only to what the property allows.

`MismatchInv` is the boundary of `uploads_retry`. An object that is not what was
uploaded has an author, a request that is past its stripping (`RewriteHasAuthor`,
on `BytesInv`); a request that hashes that object is another one, so its key is
`Repeated`, and stripping changed the declared file. The refused client is right if
its file carries no EXIF data or it asked once.

`SpentTokenRefused` needs that what is spent stays dead (`SpentAreDead`): its call
has been answered, so it writes no session any more, and the record is revoked, or
over, which no command undoes, for a revocation writes only revoked records and the
clock does not go back. A call that arrived with a spent token (`StaleIsKeptOff`)
therefore never learns "live" and never sets out for `put`. That a token is
presented only after its session was written (`PresentedAreIssued`) excludes that a
spent session is written later.

That the browser implements `Sessions` takes one fact besides the invariant of
`Sessions`: its cookie is a token the API issued, or none (`CookieInv`). `StrandInv`
adds who waits for whom: a call the browser waits for has one waiter, a waiting
fetch is refreshing and waits for one call (`CallsInv`); a tab is marked refreshing
exactly while one of its fetches is, and its queue holds exactly its queued fetches,
which are there only meanwhile (`FlightInv`).

`SignedInv` adds that nothing ended a session yet. No key is over before
`RefreshTtl` and no call reads a clock that runs ahead (`LivesInv`). Until there
was trouble the browser waits for one call at a time (`OneAtATime`), and that call
has come to something (`UnderWay`): a login has touched nothing, a refresh has found
the cookie's session alive, or has revoked it and is to write the next one. The
property speaks of a browser at rest; the invariant must say what happens between.

`PostgresInv` is about the row lock: who selected an existing row holds it and the
row is what it selected (`SelectedHeld`), who waits to commit holds the row or its
insertion (`CommitHolds`), and what it will write was allowed (`WritesAllowed`). A
commit is then a charge of `QuotaLedger`, except one that started from no row and
finds one; that one sets `raced`.

A step of `PostgresStore` maps to an operation of `RecordStore`, or to none, if the
row it acts on is still the one its call read; a call that finds another sets
`overtaken`. `StoreInv` therefore says of every call what it may have in hand
(`InHand`): a record its kind of key admits, or a patch of one, worked out from a
clock that was read before. And it says of every row (`Sound`) that it has an end
exactly if its kind expires, never before the record's own but for the last second of
a record whose status was changed (`Slack`), so that a row that PostgreSQL hides is one
the abstract store has dropped or may drop.

`GuardInv` keeps a guarded request off the mark as long as its key says answered.
`AuditInv` says of every request where its deletions stand: in its outcome, among
the entries it has yet to append, or in the audit; and of a record that is
answered, that everything it names is audited. `SparedInv` says that a breaker
awaits a probe only half-open and before it let any through, so that no reset lets
a second one in. `OneRunInv` says that the page's two keys are each absent or of the
last run, and that no cleanup names an object that a run under way made; `ReadsInv`,
that what a completion recorded as canonical, and what a job reads, was uploaded by its
own run or an earlier one of the same file. `OrderInv` adds to the order of the page's
history that a run under way is not in it yet. `ContractInv` says what is settled about
a job when it is made and what the encoder must then choose (`EncoderAgrees`).

A step of the gateway is a step of `Cleanup`, or of the API towards its other
clients, or leaves both alone, if what it sends is a request cleanup takes: its key
and objects are those of a plan that passed `Verdict` and was not empty
(`Executing`, `PlanIsSubmitted`). The verdict is computed once, and the plan runs
long after; the invariant carries it to each step.

The compositions hold `part` and let one component step. `EveryPartSteps` and
`EachStep` say that each step of the composition is, for every component, a step
of its own or leaves its variables alone, so the composition implements every one
of them, fairness of `MCServices` included, and each theorem about a component
carries over by implication.

`GrantInv` follows a webhook: at every step from the event record on (`Recording`) a
paid event has its session among the applied ones, so a death before that leaves the
event unrecorded, to be delivered again. `PlanInv` says where the plan in the hands
of each request comes from (`Sourced`), for a request writes what it read several
steps ago: what a reconcile has listed was paid for, what a reactivation took is the
plan of a session, a cancellation is excused; and that a profile that was read is
still the one stored unless the request is `stale` (`Fresh`). A record says paid
only if the provider did (`SessionOK`). Once a webhook was applied, every write that
is not of a stale profile then finds a paid plan and leaves one.

`DrainInv` says that past the close of
the BullMQ workers no job is in hand and that the repository closes after it;
`ServedInv` that the dependencies are open until `server.close` resolved, and that no
client is waiting then. `BeatInv` relates the two ages of the heartbeat: a write
under way was sent when the timer was set, so together they make an interval, and
the key outlives the next beat by what is left of two. Were a write to take a whole
interval, it might take effect two intervals after the one before it, as late as
the key expires: hence the hypothesis on `DelayMs`. The types need that a job
that waits has an attempt left (`HandsInv`), and that the gauge of the API counts no
more requests than came (`GaugeInv`).

`BurstInv` says of the requests a limiter let through which of them its counter
counts (`Current`): the last `count` are of the window that began at its start, the
`Quota` before them of an earlier one, and all others lie a window further back; a
counter the sweep removed is over (`Rested`). The two windows' worth of the property
are these two. `JournalInv` says of the commands under way, while all are
of one kind, that what an up leaves out is on record, so that the least file it may
still apply is the next one, and that what a down is to roll back is the last file
on record or has been rolled back already.

The assumptions are those the modules name: that bounds are natural numbers and
`Init`'s constants of their types, that requests (`LedgerAssumption`) and clients of
the API (`ApiAssumption`) are finitely many, that a row's time to live fits into
the clock and a second is at least one of its instants (`StoreAssumption`). Runs
evaluate them all. Some theorems restrict a constant further, where the property is
false without it: the quota theorems to one path (`ScriptOnly`, `TransactionOnly`),
`PipelineRecordMatchesQueue` to throws inside the try block, `ServicesHeartbeatHolds` to
short writes, and `UploadMismatchMeansDamage` to files without EXIF data, each for the
reason given here. The other exceptions are part of the properties.

Every safety property that a passing run checks is a theorem, some with the
hypotheses just named. Model-checked only is
liveness (`QueueSettles`, `RecordSettles`, `PaymentIsGranted`, `ShutdownEnds`), which
TLAPS does not prove under fairness. `Others` of the tool page takes out one entry
where the code filters all, since the provers cannot expand a `SelectSeq` of an
anonymous operator; `WorkbenchHistoryOrdered` says that there is no second one. Of
what `violation` runs refute, `GrantsWithinLimit` and `MismatchMeansDamage` are proved
under the restrictions above, `OutputIsOffered` with the exceptions above, and
`RetryRequeues` is proved to fail at every retry.

## 7. Not modelled

- The fixed-window counter of core (`packages/core/src/quota.ts`): no service
  calls it, so it has no behaviour in the system.
- The log buffer of the API: an administrator's view, nothing depends on it.
- Pixels: sharp, EXIF parsing, ClamAV and the HTTP service that removes
  backgrounds are external; the watermark tool keeps the format of its input and
  is left out of `JobContract`.
- Web pages, SEO data, styles and animation: presentation and content.
- The parser that turns a command of the gateway into a plan, metrics text,
  headers, Docker and CI files.
- Token signatures and hashes are not modelled, only who holds which.
- Agreement of two validations that no run compares: the API refuses `stripe`
  without its keys in `superRefine` by presence and in `createBillingService` by
  content, and demands `STRIPE_WEBHOOK_SECRET` in production whatever the provider
  is. `JobContract` follows both; no document says which is meant.
