---------------------------- MODULE JobPipeline ----------------------------
(***************************************************************************)
(* An image job from POST /api/jobs to its last attempt: the API writes    *)
(* the job record and adds the job to its BullMQ queue, a worker takes it, *)
(* reads the input object, writes the output, deletes the input, and keeps *)
(* the record's status as it goes.  A step may throw, a process may die, a *)
(* worker may lose its lock while it still runs, and the objects may be    *)
(* removed under it.  A job that has no attempt left goes to the           *)
(* dead-letter queue, from which an admin may retry it.                    *)
(*                                                                         *)
(* A definition whose name ends in Slip is a mutant of the one that        *)
(* follows it; the runs show which property notices.                       *)
(***************************************************************************)
EXTENDS Integers, FiniteSets

CONSTANTS
  Job,          \* image jobs, one for each POST /api/jobs
  Input,        \* canonical input objects
  InputOf,      \* InputOf[j]: the input of j; deduplicated uploads share one
  Worker,       \* worker processes, each with one job at a time
  MaxAttempts,  \* the attempts option of enqueue
  MaxStalls,    \* BullMQ's maxStalledCount
  Faulty,       \* worker steps that may throw
  MaxFaults,    \* bound: steps that throw
  MaxCrashes,   \* bound: worker processes that die
  MaxPauses,    \* bound: locks that expire under a live worker
  MaxOutages,   \* bound: API processes that die
  MaxRefusals,  \* bound: jobs that BullMQ refuses to add to a queue
  MaxExpired    \* bound: objects removed by cleanup or by the bucket's lifecycle

NoWorker == "no worker"

ASSUME PipelineAssumption ==
  /\ NoWorker \notin Worker
  /\ InputOf \in [Job -> Input]
  /\ MaxAttempts \in Nat \ {0}
  /\ MaxStalls \in Nat
  /\ Faulty \subseteq {"readRunning", "writeRunning", "fetch", "put", "readDone", "writeDone",
                       "delete", "audit", "complete", "readFailed", "writeFailed"}
  /\ {MaxFaults, MaxCrashes, MaxPauses, MaxOutages, MaxRefusals, MaxExpired} \subseteq Nat

VARIABLES
  api,       \* api[j]: where the request that creates j stands
  record,    \* record[j]: the status and the error code of j's record
  queue,     \* queue[j]: j in BullMQ
  pc,        \* pc[w]: the step worker w is at
  run,       \* run[w]: the job w runs, or ran last
  seen,      \* seen[w]: the record w read to update it
  input,     \* input[i]: whether object i is stored
  output,    \* output[j]: whether the output object of j is stored
  audit,     \* the inputs whose deletion was audited
  adding,    \* adding[w]: jobs w is adding to the dead-letter queue
  dead,      \* jobs in the dead-letter queue
  budget,    \* how often each kind of trouble has struck
  history    \* what befell the jobs; read by the properties only

vars == <<api, record, queue, pc, run, seen, input, output, audit, adding, dead, budget, history>>

Status == {"none", "queued", "running", "done", "failed"}
Code   == {"none", "QUEUE_ENQUEUE_FAILED", "PROCESSING_FAILED"}
Record == [status : Status, code : Code]

QueueState == {"absent", "waiting", "active", "delayed", "completed", "failed"}
QueueEntry == [state : QueueState, made : Nat, stalls : Nat, lock : Worker \cup {NoWorker}]

\* A job in BullMQ: attempts made, stalls, and the worker that holds its lock.
Entry(state, made, stalls, lock) ==
  [state |-> state, made |-> made, stalls |-> stalls, lock |-> lock]

\* The steps of a worker, and those inside the try block of processImageJob.
Step == {"idle", "readRunning", "writeRunning", "fetch", "put", "readDone", "writeDone",
         "delete", "audit", "complete", "readFailed", "writeFailed", "fail"}

TryBlock == {"fetch", "put", "readDone", "writeDone", "delete", "audit", "complete"}

Trouble == {"fault", "crash", "pause", "outage", "refusal", "expiry"}

Bound == [fault  |-> MaxFaults, crash |-> MaxCrashes, pause |-> MaxPauses,
          outage |-> MaxOutages, refusal |-> MaxRefusals, expiry |-> MaxExpired]

\* One more stroke of trouble t.
Strike(t) == budget[t] < Bound[t] /\ budget' = [budget EXCEPT ![t] = @ + 1]

\* The steps after the PUT of the output.
Late == {"readDone", "writeDone", "delete", "audit", "complete"}

\* What may befall a job: an attempt breaks off late, its live worker loses the
\* lock, its dead letter is lost, an admin retries it.
Mishap == (Late \cup {"lock", "deadLetter", "retry"}) \X Job

Recall(mishaps) == history' = history \cup mishaps

BrokenOff(w) == IF pc[w] \in Late THEN {<<pc[w], run[w]>>} ELSE {}
-----------------------------------------------------------------------------
Init ==
  /\ api = [j \in Job |-> "idle"]
  /\ record = [j \in Job |-> [status |-> "none", code |-> "none"]]
  /\ queue = [j \in Job |-> Entry("absent", 0, 0, NoWorker)]
  /\ pc = [w \in Worker |-> "idle"]
  /\ run \in [Worker -> Job]
  /\ seen = [w \in Worker |-> [status |-> "none", code |-> "none"]]
  /\ input = [i \in Input |-> "stored"]
  /\ output = [j \in Job |-> "absent"]
  /\ audit = {}
  /\ adding = [w \in Worker |-> {}]
  /\ dead = {}
  /\ budget = [t \in Trouble |-> 0]
  /\ history = {}
-----------------------------------------------------------------------------
(* POST /api/jobs.                                                         *)

\* The canonical input must still be in the bucket.
HeadInput(j) ==
  /\ api[j] = "idle"
  /\ api' = [api EXCEPT ![j] = IF input[InputOf[j]] = "stored" THEN "reserve" ELSE "not found"]
  /\ UNCHANGED <<record, queue, pc, run, seen, input, output, audit, adding, dead, budget, history>>

\* The reservation creates the record, or the quota refuses the job.
ReserveSlot(j) ==
  /\ api[j] = "reserve"
  /\ \/ /\ api' = [api EXCEPT ![j] = "enqueue"]
        /\ record' = [record EXCEPT ![j] = [status |-> "queued", code |-> "none"]]
     \/ /\ api' = [api EXCEPT ![j] = "over quota"]
        /\ UNCHANGED record
  /\ UNCHANGED <<queue, pc, run, seen, input, output, audit, adding, dead, budget, history>>

Enqueue(j) ==
  /\ api[j] = "enqueue"
  /\ api' = [api EXCEPT ![j] = "created"]
  /\ queue' = [queue EXCEPT ![j] = Entry("waiting", 0, 0, NoWorker)]
  /\ UNCHANGED <<record, pc, run, seen, input, output, audit, adding, dead, budget, history>>

\* queue.enqueue throws, and nothing was added: the record is read and marked
\* failed before the error goes on.
EnqueueFails(j) ==
  /\ api[j] = "enqueue"
  /\ Strike("refusal")
  /\ api' = [api EXCEPT ![j] = "readRefused"]
  /\ UNCHANGED <<record, queue, pc, run, seen, input, output, audit, adding, dead, history>>

ReadRefused(j) ==
  /\ api[j] = "readRefused"
  /\ api' = [api EXCEPT ![j] = "writeRefused"]
  /\ UNCHANGED <<record, queue, pc, run, seen, input, output, audit, adding, dead, budget, history>>

WriteRefused(j) ==
  /\ api[j] = "writeRefused"
  /\ api' = [api EXCEPT ![j] = "error"]
  /\ record' = [record EXCEPT ![j] = [status |-> "failed", code |-> "QUEUE_ENQUEUE_FAILED"]]
  /\ UNCHANGED <<queue, pc, run, seen, input, output, audit, adding, dead, budget, history>>

\* The API process dies with the request under way, or its store fails it.
ApiCrash(j) ==
  /\ api[j] \in {"reserve", "enqueue", "readRefused", "writeRefused"}
  /\ Strike("outage")
  /\ api' = [api EXCEPT ![j] = "crashed"]
  /\ UNCHANGED <<record, queue, pc, run, seen, input, output, audit, adding, dead, history>>
-----------------------------------------------------------------------------
(* BullMQ (external): delivery, backoff, locks, stalled jobs, attempts.    *)

Goto(w, label) == pc' = [pc EXCEPT ![w] = label]

\* The job has failed for good; w hears of it through its failed event, and
\* adds it to the dead-letter queue if its attempts are used up.
GiveUp(w, j) ==
  /\ queue' = [queue EXCEPT ![j] = Entry("failed", @.made + 1, @.stalls, NoWorker)]
  /\ adding' = [adding EXCEPT ![w] = IF queue[j].made + 1 < MaxAttempts THEN @ ELSE @ \cup {j}]

\* A worker takes a waiting job, unless it has stalled too often.
Take(w, j) ==
  /\ pc[w] = "idle"
  /\ queue[j].state = "waiting"
  /\ IF queue[j].stalls > MaxStalls
     THEN /\ GiveUp(w, j)
          /\ UNCHANGED <<pc, run>>
     ELSE /\ queue' = [queue EXCEPT ![j] = Entry("active", @.made, @.stalls, w)]
          /\ run' = [run EXCEPT ![w] = j]
          /\ Goto(w, "readRunning")
          /\ UNCHANGED adding
  /\ UNCHANGED <<api, record, seen, input, output, audit, dead, budget, history>>

\* The backoff of a failed attempt is over.
Promote(j) ==
  /\ queue[j].state = "delayed"
  /\ queue' = [queue EXCEPT ![j] = Entry("waiting", @.made, @.stalls, NoWorker)]
  /\ UNCHANGED <<api, record, pc, run, seen, input, output, audit, adding, dead, budget, history>>

Alive(j) == \E w \in Worker : queue[j].lock = w /\ run[w] = j /\ pc[w] # "idle"

\* The lock of an active job expired: it waits again.  The worker that held it
\* is dead, or merely late and still running.
Stalled(j) ==
  /\ queue[j].state = "active"
  /\ IF Alive(j) THEN Strike("pause") /\ Recall({<<"lock", j>>}) ELSE UNCHANGED <<budget, history>>
  /\ queue' = [queue EXCEPT ![j] = Entry("waiting", @.made, @.stalls + 1, NoWorker)]
  /\ UNCHANGED <<api, record, pc, run, seen, input, output, audit, adding, dead>>

\* The processor returned.  Without the lock the job is no longer w's to settle.
Complete(w) ==
  LET j == run[w]
  IN  /\ pc[w] = "complete"
      /\ Goto(w, "idle")
      /\ queue' = IF queue[j].lock = w
                  THEN [queue EXCEPT ![j] = Entry("completed", @.made, @.stalls, NoWorker)]
                  ELSE queue
      /\ UNCHANGED <<api, record, run, seen, input, output, audit, adding, dead, budget, history>>

\* A failed attempt is not counted.
FailSlip(w) ==
  LET j == run[w]
  IN  /\ pc[w] = "fail"
      /\ Goto(w, "idle")
      /\ queue' = IF queue[j].lock # w THEN queue
                  ELSE [queue EXCEPT ![j] = Entry("delayed", @.made, @.stalls, NoWorker)]
      /\ UNCHANGED <<api, record, run, seen, input, output, audit, adding, dead, budget, history>>

\* The processor threw.
Fail(w) ==
  LET j == run[w]
  IN  /\ pc[w] = "fail"
      /\ Goto(w, "idle")
      /\ IF queue[j].lock # w
         THEN UNCHANGED <<queue, adding>>
         ELSE IF queue[j].made + 1 < MaxAttempts
              THEN /\ queue' = [queue EXCEPT ![j] = Entry("delayed", @.made + 1, @.stalls, NoWorker)]
                   /\ UNCHANGED adding
              ELSE GiveUp(w, j)
      /\ UNCHANGED <<api, record, run, seen, input, output, audit, dead, budget, history>>
-----------------------------------------------------------------------------
(* processImageJob, one await a step.  updateJobStatus reads the record and *)
(* writes it back: an error code it is not given stays.                    *)

ReadRecord(w, from, to) ==
  /\ pc[w] = from
  /\ seen' = [seen EXCEPT ![w] = record[run[w]]]
  /\ Goto(w, to)
  /\ UNCHANGED <<api, record, queue, run, input, output, audit, adding, dead, budget, history>>

WriteRecord(w, from, updated, to) ==
  /\ pc[w] = from
  /\ record' = [record EXCEPT ![run[w]] = updated]
  /\ Goto(w, to)
  /\ UNCHANGED <<api, queue, run, seen, input, output, audit, adding, dead, budget, history>>

ReadRunning(w)  == ReadRecord(w, "readRunning", "writeRunning")
WriteRunning(w) == WriteRecord(w, "writeRunning", [seen[w] EXCEPT !.status = "running"], "fetch")

\* The job is done before its output is written.
FetchSkipSlip(w) ==
  /\ pc[w] = "fetch"
  /\ Goto(w, IF input[InputOf[run[w]]] = "stored" THEN "readDone" ELSE "readFailed")
  /\ UNCHANGED <<api, record, queue, run, seen, input, output, audit, adding, dead, budget, history>>

\* The input is deleted as it is read.
FetchClaimSlip(w) ==
  LET i == InputOf[run[w]]
  IN  /\ pc[w] = "fetch"
      /\ Goto(w, IF input[i] = "stored" THEN "put" ELSE "readFailed")
      /\ input' = [input EXCEPT ![i] = IF @ = "stored" THEN "deleted" ELSE @]
      /\ UNCHANGED <<api, record, queue, run, seen, output, audit, adding, dead, budget, history>>

\* The input is read and transformed; without it the attempt fails.
Fetch(w) ==
  /\ pc[w] = "fetch"
  /\ Goto(w, IF input[InputOf[run[w]]] = "stored" THEN "put" ELSE "readFailed")
  /\ UNCHANGED <<api, record, queue, run, seen, input, output, audit, adding, dead, budget, history>>

PutOutput(w) ==
  /\ pc[w] = "put"
  /\ output' = [output EXCEPT ![run[w]] = "stored"]
  /\ Goto(w, "readDone")
  /\ UNCHANGED <<api, record, queue, run, seen, input, audit, adding, dead, budget, history>>

ReadDone(w)  == ReadRecord(w, "readDone", "writeDone")
WriteDone(w) == WriteRecord(w, "writeDone", [seen[w] EXCEPT !.status = "done"], "delete")

\* The deletion of an object that is gone throws.
DeleteInputStrictSlip(w) ==
  LET i == InputOf[run[w]]
  IN  /\ pc[w] = "delete"
      /\ input' = [input EXCEPT ![i] = IF @ = "stored" THEN "deleted" ELSE @]
      /\ Goto(w, IF input[i] = "stored" THEN "audit" ELSE "readFailed")
      /\ UNCHANGED <<api, record, queue, run, seen, output, audit, adding, dead, budget, history>>

\* The audit is left out.
DeleteInputSilentSlip(w) ==
  LET i == InputOf[run[w]]
  IN  /\ pc[w] = "delete"
      /\ input' = [input EXCEPT ![i] = IF @ = "stored" THEN "deleted" ELSE @]
      /\ Goto(w, "complete")
      /\ UNCHANGED <<api, record, queue, run, seen, output, audit, adding, dead, budget, history>>

DeleteInput(w) ==
  LET i == InputOf[run[w]]
  IN  /\ pc[w] = "delete"
      /\ input' = [input EXCEPT ![i] = IF @ = "stored" THEN "deleted" ELSE @]
      /\ Goto(w, "audit")
      /\ UNCHANGED <<api, record, queue, run, seen, output, audit, adding, dead, budget, history>>

AppendAudit(w) ==
  /\ pc[w] = "audit"
  /\ audit' = audit \cup {InputOf[run[w]]}
  /\ Goto(w, "complete")
  /\ UNCHANGED <<api, record, queue, run, seen, input, output, adding, dead, budget, history>>

\* The catch block.
ReadFailed(w)  == ReadRecord(w, "readFailed", "writeFailed")

\* A status of the design document that JOB_STATUSES does not have.
WriteFailedStatusSlip(w) ==
  WriteRecord(w, "writeFailed", [status |-> "expired", code |-> "PROCESSING_FAILED"], "fail")

\* The error is not thrown again.
WriteFailedSwallowSlip(w) ==
  WriteRecord(w, "writeFailed", [status |-> "failed", code |-> "PROCESSING_FAILED"], "complete")

WriteFailed(w) ==
  WriteRecord(w, "writeFailed", [status |-> "failed", code |-> "PROCESSING_FAILED"], "fail")

\* A step throws: inside the try block the catch block runs, outside it the
\* processor is over.  A step that took effect and threw, its answer lost, is a
\* throw at the step after it.
Throw(w) ==
  /\ \/ pc[w] \in Faulty /\ Goto(w, IF pc[w] \in TryBlock THEN "readFailed" ELSE "fail")
     \/ pc[w] = "fetch" /\ "writeRunning" \in Faulty /\ Goto(w, "fail")
  /\ Strike("fault")
  /\ Recall(BrokenOff(w))
  /\ UNCHANGED <<api, record, queue, run, seen, input, output, audit, adding, dead>>

\* The process dies and is started again; what it was adding is lost.
Crash(w) ==
  /\ pc[w] # "idle" \/ adding[w] # {}
  /\ Strike("crash")
  /\ Goto(w, "idle")
  /\ adding' = [adding EXCEPT ![w] = {}]
  /\ Recall(BrokenOff(w) \cup {"deadLetter"} \X adding[w])
  /\ UNCHANGED <<api, record, queue, run, seen, input, output, audit, dead>>
-----------------------------------------------------------------------------
(* The dead-letter queue, and the objects that others remove.              *)

AddDeadLetter(w, j) ==
  /\ j \in adding[w]
  /\ adding' = [adding EXCEPT ![w] = @ \ {j}]
  /\ dead' = dead \cup {j}
  /\ UNCHANGED <<api, record, queue, pc, run, seen, input, output, audit, budget, history>>

\* The add is refused: the catch handler logs it, and the dead letter is lost.
DeadLetterRefused(w, j) ==
  /\ j \in adding[w]
  /\ Strike("refusal")
  /\ adding' = [adding EXCEPT ![w] = @ \ {j}]
  /\ Recall({<<"deadLetter", j>>})
  /\ UNCHANGED <<api, record, queue, pc, run, seen, input, output, audit, dead>>

\* POST /api/admin/dlq/:jobId/retry.  BullMQ ignores an add under an id that
\* is still in the queue.
RetryDeadLetter(j) ==
  /\ j \in dead
  /\ queue' = IF queue[j].state = "absent"
              THEN [queue EXCEPT ![j] = Entry("waiting", 0, 0, NoWorker)]
              ELSE queue
  /\ dead' = dead \ {j}
  /\ Recall({<<"retry", j>>})
  /\ UNCHANGED <<api, record, pc, run, seen, input, output, audit, adding, budget>>

\* POST /api/cleanup or the lifecycle of the bucket removes an object.
ExpireInput(i) ==
  /\ input[i] = "stored"
  /\ Strike("expiry")
  /\ input' = [input EXCEPT ![i] = "expired"]
  /\ UNCHANGED <<api, record, queue, pc, run, seen, output, audit, adding, dead, history>>

ExpireOutput(j) ==
  /\ output[j] = "stored"
  /\ Strike("expiry")
  /\ output' = [output EXCEPT ![j] = "expired"]
  /\ UNCHANGED <<api, record, queue, pc, run, seen, input, audit, adding, dead, history>>
-----------------------------------------------------------------------------
Request(j) ==
  HeadInput(j) \/ ReserveSlot(j) \/ Enqueue(j) \/ ReadRefused(j) \/ WriteRefused(j)

Process(w) ==
  \/ ReadRunning(w) \/ WriteRunning(w)
  \/ Fetch(w) \/ PutOutput(w)
  \/ ReadDone(w) \/ WriteDone(w)
  \/ DeleteInput(w) \/ AppendAudit(w)
  \/ ReadFailed(w) \/ WriteFailed(w)
  \/ Complete(w) \/ Fail(w)

Next ==
  \/ \E j \in Job : Request(j) \/ EnqueueFails(j) \/ ApiCrash(j)
  \/ \E j \in Job : Promote(j) \/ Stalled(j) \/ RetryDeadLetter(j)
  \/ \E w \in Worker : Process(w) \/ Throw(w) \/ Crash(w)
  \/ \E w \in Worker, j \in Job : Take(w, j) \/ AddDeadLetter(w, j) \/ DeadLetterRefused(w, j)
  \/ \E i \in Input : ExpireInput(i)
  \/ \E j \in Job : ExpireOutput(j)

Spec == Init /\ [][Next]_vars

\* Requests and workers go on, BullMQ delivers what waits, ends a backoff and
\* notices a dead worker.  Nothing ever has to go wrong.
Fairness ==
  /\ \A j \in Job :
       /\ WF_vars(Request(j))
       /\ WF_vars(Promote(j))
       /\ WF_vars(Stalled(j) /\ ~Alive(j))
  /\ \A w \in Worker :
       /\ WF_vars(Process(w))
       /\ WF_vars(\E j \in Job : Take(w, j))
       /\ WF_vars(\E j \in Job : AddDeadLetter(w, j))

FairSpec == Spec /\ Fairness
-----------------------------------------------------------------------------
(* Properties.                                                             *)

\* Every variable stays in its type.
TypeOK ==
  /\ api \in [Job -> {"idle", "not found", "reserve", "over quota", "enqueue",
                      "created", "readRefused", "writeRefused", "error", "crashed"}]
  /\ record \in [Job -> Record]
  /\ queue \in [Job -> QueueEntry]
  /\ pc \in [Worker -> Step]
  /\ run \in [Worker -> Job]
  /\ seen \in [Worker -> Record]
  /\ input \in [Input -> {"stored", "deleted", "expired"}]
  /\ output \in [Job -> {"absent", "stored", "expired"}]
  /\ audit \subseteq Input
  /\ adding \in [Worker -> SUBSET Job]
  /\ dead \subseteq Job
  /\ budget \in [Trouble -> Nat]
  /\ history \subseteq Mishap

\* A record that says done has an output object, unless someone removed it
\* since: GET /api/jobs/:id never hands out a URL to nothing.
DoneHasOutput ==
  \A j \in Job : record[j].status = "done" => output[j] # "absent"

\* A worker deletes an input only once a job on it has its output: no failure
\* leaves a subject with neither.
InputOutlivesFailure ==
  \A i \in Input : input[i] = "deleted" =>
    \E j \in Job : InputOf[j] = i /\ output[j] # "absent"

\* An input whose deletion is audited is not in the bucket.
AuditIsTrue == \A i \in audit : input[i] # "stored"

Busy(j) == \E w \in Worker : run[w] = j /\ pc[w] # "idle"

Settled(j) == queue[j].state \in {"completed", "failed"} /\ ~Busy(j)

\* Once the queue is finished with a job, its record says what the queue says.
RecordMatchesQueue ==
  \A j \in Job : Settled(j) =>
    record[j].status = IF queue[j].state = "completed" THEN "done" ELSE "failed"

\* Every deletion of an input is audited, or its worker is about to audit it,
\* unless the attempt broke off right there.
DeletionsAudited ==
  \A i \in Input : input[i] = "deleted" =>
    \/ i \in audit
    \/ \E w \in Worker : pc[w] = "audit" /\ InputOf[run[w]] = i
    \/ \E j \in Job : InputOf[j] = i /\ <<"audit", j>> \in history

\* In the dead-letter queue, or on its way there.
Doomed(j) == j \in dead \/ \E w \in Worker : j \in adding[w]

\* A job that an admin retries runs again.
RetryRequeues ==
  [][\A j \in Job : j \in dead /\ j \notin dead' => queue'[j].state = "waiting"]_vars

\* A job that was done stays done, through every retry and redelivery, unless an
\* attempt broke off after saying so, or a live worker lost its lock.
DoneIsFinal ==
  [][\A j \in Job : record[j].status = "done" /\ record'[j].status # "done" =>
       \E s \in {"delete", "audit", "complete", "lock"} : <<s, j>> \in history]_vars

\* Once the queue is finished with a job whose output is stored, the record says
\* done, so that GET /api/jobs/:id offers the output.
OutputIsOffered ==
  \A j \in Job : Settled(j) /\ output[j] = "stored" => record[j].status = "done"

\* The queue finishes with every job it is given.
QueueSettles ==
  \A j \in Job : (queue[j].state # "absent") ~> Settled(j)

\* Every job record ends as done or failed.
RecordSettles ==
  \A j \in Job : <>[](record[j].status \in {"none", "done", "failed"})
=============================================================================
