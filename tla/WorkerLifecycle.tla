-------------------------- MODULE WorkerLifecycle --------------------------
(***************************************************************************)
(* The worker process from its first heartbeat to its exit.  A signal or   *)
(* an unexpected error starts shutdown(), which stops the heartbeat and    *)
(* closes the dead-letter queue, the BullMQ workers, the job repository    *)
(* and the Redis connection, one after the other, each with a timer that   *)
(* forces the exit.  Jobs go on meanwhile.  What a job does is in          *)
(* JobPipeline; here it is taken, writes its record and is settled.        *)
(*                                                                         *)
(* A definition whose name ends in Slip is a mutant of the one after it.   *)
(***************************************************************************)
EXTENDS Integers

CONSTANTS
  Job,          \* jobs in the queues
  MaxAttempts,  \* attempts of a job
  IntervalMs,   \* WORKER_HEARTBEAT_INTERVAL_MS
  TickMs,       \* step of the clock
  DelayMs,      \* bound: how long a heartbeat is under way
  MaxFaults     \* bound: writes that fail

ASSUME WorkerAssumption ==
  /\ {MaxAttempts, IntervalMs, TickMs} \subseteq Nat \ {0}
  /\ {DelayMs, MaxFaults} \subseteq Nat
  /\ IntervalMs % TickMs = 0

VARIABLES
  job,        \* job[j]: where BullMQ has job j
  attempt,    \* attempt[j]: attempts begun
  record,     \* record[j]: the status in the job's record
  deadLetter, \* deadLetter[j]: the entry of j in the dead-letter queue
  workerPc,   \* the step of shutdown()
  shut,       \* the steps of shutdown() that are done
  exitCode,   \* what the process will exit with
  forced,     \* whether a step failed or timed out
  nextBeat,   \* ms until the heartbeat timer fires
  beating,    \* ms since the write under way was sent, or None
  keyLeft,    \* ms until the heartbeat key expires
  boot,       \* whether a first heartbeat was written
  faults      \* writes that failed

queueVars  == <<job, attempt, record, deadLetter>>
beatVars   == <<nextBeat, beating, keyLeft, boot>>
workerVars == <<queueVars, workerPc, shut, exitCode, forced, beatVars, faults>>

None == -1

\* The steps of shutdown(), and the next one.  The slip closes the repository
\* before the workers.
AfterSlip == [running |-> "dlq", dlq |-> "repo", repo |-> "workers", workers |-> "quit",
              quit |-> "exited"]

After == [running |-> "dlq", dlq |-> "workers", workers |-> "repo", repo |-> "quit",
          quit |-> "exited"]

Begun(step) == workerPc = step \/ step \in shut
TakesJobs   == ~Begun("workers")
RepoOpen    == ~Begun("repo")
Alive       == workerPc # "exited"

\* Math.max(2, Math.ceil((intervalMs / 1000) * 2)) seconds.  The slip takes one
\* interval.
HeartbeatTtlMsSlip == LET s == (IntervalMs + 999) \div 1000 IN 1000 * (IF s < 2 THEN 2 ELSE s)

HeartbeatTtlMs == LET s == (2 * IntervalMs + 999) \div 1000 IN 1000 * (IF s < 2 THEN 2 ELSE s)
-----------------------------------------------------------------------------
WorkerInit ==
  /\ job = [j \in Job |-> "waiting"]
  /\ attempt = [j \in Job |-> 0]
  /\ record = [j \in Job |-> "queued"]
  /\ deadLetter = [j \in Job |-> "none"]
  /\ workerPc = "running"
  /\ shut = {}
  /\ exitCode = 0
  /\ forced = FALSE
  /\ nextBeat = IntervalMs
  /\ beating = None
  /\ keyLeft = 0
  /\ boot = FALSE
  /\ faults = 0

TakeJob(j) ==
  /\ job[j] = "waiting" /\ TakesJobs /\ Alive
  /\ job' = [job EXCEPT ![j] = "active"]
  /\ attempt' = [attempt EXCEPT ![j] = @ + 1]
  /\ record' = [record EXCEPT ![j] = "running"]
  /\ UNCHANGED <<deadLetter, workerPc, shut, exitCode, forced, beatVars, faults>>

\* The status that ends an attempt; without a repository, or when the write
\* fails, it stays as it is.
WriteRecord(j) ==
  /\ job[j] = "active" /\ Alive
  /\ job' = [job EXCEPT ![j] = "settling"]
  /\ \/ RepoOpen /\ UNCHANGED faults
        /\ \E status \in {"done", "failed"} : record' = [record EXCEPT ![j] = status]
     \/ ~RepoOpen /\ UNCHANGED <<record, faults>>
     \/ faults < MaxFaults /\ faults' = faults + 1 /\ UNCHANGED record
  /\ UNCHANGED <<attempt, deadLetter, workerPc, shut, exitCode, forced, beatVars>>

\* One attempt too many.
SettleJobSlip(j) ==
  /\ job[j] = "settling" /\ Alive
  /\ IF record[j] = "done"
     THEN job' = [job EXCEPT ![j] = "completed"] /\ UNCHANGED deadLetter
     ELSE IF attempt[j] <= MaxAttempts
     THEN job' = [job EXCEPT ![j] = "waiting"] /\ UNCHANGED deadLetter
     ELSE /\ job' = [job EXCEPT ![j] = "failed"]
          /\ deadLetter' = [deadLetter EXCEPT ![j] = "adding"]
  /\ UNCHANGED <<attempt, record, workerPc, shut, exitCode, forced, beatVars, faults>>

\* The attempt ends in the queue: completed, delayed until the next one, or
\* failed for good, and then the add to the dead-letter queue begins.
SettleJob(j) ==
  /\ job[j] = "settling" /\ Alive
  /\ IF record[j] = "done"
     THEN job' = [job EXCEPT ![j] = "completed"] /\ UNCHANGED deadLetter
     ELSE IF attempt[j] < MaxAttempts
     THEN job' = [job EXCEPT ![j] = "waiting"] /\ UNCHANGED deadLetter
     ELSE /\ job' = [job EXCEPT ![j] = "failed"]
          /\ deadLetter' = [deadLetter EXCEPT ![j] = "adding"]
  /\ UNCHANGED <<attempt, record, workerPc, shut, exitCode, forced, beatVars, faults>>

\* Nobody waits for the add, and it may be made on a queue that is closed.
AddDeadLetter(j) ==
  /\ deadLetter[j] = "adding" /\ Alive
  /\ \/ deadLetter' = [deadLetter EXCEPT ![j] = "moved"] /\ UNCHANGED faults
     \/ /\ faults < MaxFaults /\ faults' = faults + 1
        /\ deadLetter' = [deadLetter EXCEPT ![j] = "lost"]
  /\ UNCHANGED <<job, attempt, record, workerPc, shut, exitCode, forced, beatVars>>
-----------------------------------------------------------------------------
\* The first signal, uncaught exception or unhandled rejection; any other is
\* ignored.
Shutdown(code) ==
  /\ workerPc = "running"
  /\ workerPc' = After[workerPc]
  /\ exitCode' = code
  /\ UNCHANGED <<queueVars, shut, forced, beatVars, faults>>

Busy == \E j \in Job : job[j] \in {"active", "settling"}

\* The close at this step is done: that of the workers waits for their jobs.
Closed ==
  /\ workerPc \in {"dlq", "workers", "repo", "quit"}
  /\ workerPc = "workers" => ~Busy
  /\ workerPc' = After[workerPc]
  /\ shut' = shut \cup {workerPc}
  /\ UNCHANGED <<queueVars, exitCode, forced, beatVars, faults>>

\* Only the close of the workers has a timer.
CloseFailsSlip ==
  /\ workerPc = "workers"
  /\ workerPc' = "exited"
  /\ exitCode' = 1
  /\ forced' = TRUE
  /\ UNCHANGED <<queueVars, shut, beatVars, faults>>

\* It throws, or its timer wins.
CloseFails ==
  /\ workerPc \in {"dlq", "workers", "repo", "quit"}
  /\ workerPc' = "exited"
  /\ exitCode' = 1
  /\ forced' = TRUE
  /\ UNCHANGED <<queueVars, shut, beatVars, faults>>
-----------------------------------------------------------------------------
(* The heartbeat.                                                          *)

Beat ==
  /\ nextBeat = 0 /\ workerPc = "running"
  /\ beating = None
  /\ nextBeat' = IntervalMs
  /\ beating' = 0
  /\ UNCHANGED <<queueVars, workerPc, shut, exitCode, forced, keyLeft, boot, faults>>

\* SET EX: the time to live counts from here, even when the process has begun
\* to shut down meanwhile.
BeatWritten ==
  /\ beating # None
  /\ beating' = None
  /\ \/ keyLeft' = HeartbeatTtlMs /\ boot' = TRUE /\ UNCHANGED faults
     \/ faults < MaxFaults /\ faults' = faults + 1 /\ UNCHANGED <<keyLeft, boot>>
  /\ UNCHANGED <<queueVars, workerPc, shut, exitCode, forced, nextBeat>>

\* Timers fire on time and a write takes at most DelayMs.
TickWorker ==
  /\ workerPc = "running" => nextBeat > 0
  /\ beating # None => beating < DelayMs
  /\ nextBeat' = IF nextBeat < TickMs THEN 0 ELSE nextBeat - TickMs
  /\ beating' = IF beating = None THEN None ELSE beating + TickMs
  /\ keyLeft' = IF keyLeft < TickMs THEN 0 ELSE keyLeft - TickMs
  /\ UNCHANGED <<queueVars, workerPc, shut, exitCode, forced, boot, faults>>

Work(j) == WriteRecord(j) \/ SettleJob(j) \/ AddDeadLetter(j)

WorkerNext ==
  \/ \E j \in Job : TakeJob(j) \/ Work(j)
  \/ \E code \in {0, 1} : Shutdown(code)
  \/ Closed \/ CloseFails
  \/ Beat \/ BeatWritten \/ TickWorker

\* The timer of a close fires.  Nothing is assumed of jobs or of Redis.
WorkerFairness == WF_workerVars(CloseFails)

WorkerSpec == WorkerInit /\ [][WorkerNext]_workerVars /\ WorkerFairness
-----------------------------------------------------------------------------
(* Properties.                                                             *)

\* Every variable stays in its type.
WorkerTypeOK ==
  /\ job \in [Job -> {"waiting", "active", "settling", "completed", "failed"}]
  /\ attempt \in [Job -> 0..MaxAttempts]
  /\ record \in [Job -> {"queued", "running", "done", "failed"}]
  /\ deadLetter \in [Job -> {"none", "adding", "moved", "lost"}]
  /\ workerPc \in {"running", "dlq", "workers", "repo", "quit", "exited"}
  /\ shut \subseteq {"dlq", "workers", "repo", "quit"}
  /\ exitCode \in {0, 1}
  /\ forced \in BOOLEAN
  /\ nextBeat \in 0..IntervalMs
  /\ beating \in Nat \cup {None}
  /\ keyLeft \in 0..HeartbeatTtlMs
  /\ boot \in BOOLEAN
  /\ faults \in Nat

\* A worker whose shutdown met no failure and no timer leaves no job half done:
\* each one it took was settled in the queue, with a record that says how the
\* attempt ended, however late the signal came.
WorkerDrained ==
  ~Alive /\ ~forced =>
    \A j \in Job :
      /\ job[j] \notin {"active", "settling"}
      /\ faults = 0 => record[j] # "running"

\* A live worker keeps its heartbeat key: between two beats, each up to DelayMs
\* late, the key does not expire unless a write failed, so GET /ready does not
\* report that there are no workers.
HeartbeatHolds ==
  workerPc = "running" /\ boot /\ faults = 0 => keyLeft > 0

\* A shutdown that has begun ends, even when every close hangs.
WorkerStops == workerPc # "running" ~> workerPc = "exited"
=============================================================================
