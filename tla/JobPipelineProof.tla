-------------------------- MODULE JobPipelineProof --------------------------
(***************************************************************************)
(* Whatever throws, dies, stalls or expires, and however often: a record   *)
(* that says done has its output, an input is deleted only once an output  *)
(* of it was written, and the audit of a deletion is true.  PipelineInv    *)
(* adds what a worker knows at each step that makes one of these so.       *)
(*                                                                         *)
(* The other promises hold of a job until a mishap strikes it.  history     *)
(* names the mishaps, and the theorems which of them break which promise:  *)
(* exhausted jobs are dead-lettered, done is final, deletions are audited, *)
(* outputs are offered.  OwnInv says what a job's lock is worth while no   *)
(* live worker loses it; on it they rest, and with LockInv, which counts   *)
(* the stalls, that the record ends as the queue does.                     *)
(***************************************************************************)
EXTENDS JobPipeline, TLAPS

LEMMA StrikeType ==
  ASSUME TypeOK, NEW t \in Trouble, Strike(t)
  PROVE  budget' \in [Trouble -> Nat]
<1>1. budget \in [Trouble -> Nat]
  BY DEF TypeOK
<1>. QED
  BY <1>1 DEF Strike

LEMMA RecallType ==
  ASSUME TypeOK, NEW mishaps \in SUBSET Mishap, Recall(mishaps)
  PROVE  history' \subseteq Mishap
BY DEF TypeOK, Recall

\* What a worker's attempt leaves when it breaks off.
LEMMA BrokenOffType ==
  ASSUME TypeOK, NEW w \in Worker
  PROVE  /\ BrokenOff(w) \subseteq Mishap
         /\ {"deadLetter"} \X adding[w] \subseteq Mishap
<1>1. run[w] \in Job /\ adding[w] \subseteq Job
  BY DEF TypeOK
<1>2. CASE pc[w] \in Late
  BY <1>1, <1>2 DEF BrokenOff, Mishap
<1>3. CASE pc[w] \notin Late
  BY <1>1, <1>3 DEF BrokenOff, Mishap
<1>. QED
  BY <1>2, <1>3

\* Putting a well-typed entry for a job in the queue.
LEMMA EntryType ==
  ASSUME NEW q \in [Job -> QueueEntry], NEW j \in Job,
         NEW s \in QueueState, NEW m \in Nat, NEW n \in Nat, NEW l \in Worker \cup {NoWorker}
  PROVE  [q EXCEPT ![j] = Entry(s, m, n, l)] \in [Job -> QueueEntry]
<1>1. Entry(s, m, n, l) \in QueueEntry
  BY DEF Entry, QueueEntry
<1>. QED
  BY <1>1

\* What the queue says of a job.
LEMMA EntryParts ==
  ASSUME TypeOK, NEW j \in Job
  PROVE  /\ queue \in [Job -> QueueEntry]
         /\ queue[j].made \in Nat /\ queue[j].made + 1 \in Nat
         /\ queue[j].stalls \in Nat /\ queue[j].stalls + 1 \in Nat
<1>1. queue \in [Job -> QueueEntry]
  BY DEF TypeOK
<1>2. queue[j] \in QueueEntry
  BY <1>1
<1>. QED
  BY <1>1, <1>2 DEF QueueEntry

LEMMA GiveUpType ==
  ASSUME TypeOK, NEW w \in Worker, NEW j \in Job, GiveUp(w, j)
  PROVE  /\ queue' \in [Job -> QueueEntry]
         /\ adding' \in [Worker -> SUBSET Job]
<1>1. queue' \in [Job -> QueueEntry]
  BY EntryParts, EntryType DEF GiveUp, QueueState
<1>2. adding' \in [Worker -> SUBSET Job]
  BY DEF GiveUp, TypeOK
<1>. QED
  BY <1>1, <1>2

LEMMA InitTypeOK == Init => TypeOK
BY PipelineAssumption DEF Init, TypeOK, Record, Status, Code, QueueEntry, Entry, QueueState, Step, Mishap

LEMMA StepTypeOK == TypeOK /\ [Next]_vars => TypeOK'
<1>. SUFFICES ASSUME TypeOK, [Next]_vars PROVE TypeOK'
  OBVIOUS
<1>. USE PipelineAssumption DEF Goto, Step
<1>1. ASSUME NEW j \in Job, Request(j) \/ EnqueueFails(j) \/ ApiCrash(j) PROVE TypeOK'
  <2>1. CASE HeadInput(j)
    BY <2>1 DEF HeadInput, TypeOK
  <2>2. CASE ReserveSlot(j)
    <3>1. [status |-> "queued", code |-> "none"] \in Record
      BY DEF Record, Status, Code
    <3>2. record' \in [Job -> Record]
      BY <2>2, <3>1 DEF ReserveSlot, TypeOK
    <3>3. CASE api' = [api EXCEPT ![j] = "enqueue"]
      BY <2>2, <3>2, <3>3 DEF ReserveSlot, TypeOK
    <3>4. CASE api' = [api EXCEPT ![j] = "over quota"]
      BY <2>2, <3>2, <3>4 DEF ReserveSlot, TypeOK
    <3>. QED
      BY <2>2, <3>3, <3>4 DEF ReserveSlot
  <2>3. CASE Enqueue(j)
    <3>1. queue' \in [Job -> QueueEntry]
      BY <2>3, EntryParts, EntryType DEF Enqueue, QueueState
    <3>. QED
      BY <2>3, <3>1 DEF Enqueue, TypeOK
  <2>4. CASE EnqueueFails(j)
    BY <2>4, StrikeType DEF EnqueueFails, TypeOK, Trouble
  <2>5. CASE ApiCrash(j)
    BY <2>5, StrikeType DEF ApiCrash, TypeOK, Trouble
  <2>6. CASE ReadRefused(j)
    BY <2>6 DEF ReadRefused, TypeOK
  <2>7. CASE WriteRefused(j)
    <3>1. [status |-> "failed", code |-> "QUEUE_ENQUEUE_FAILED"] \in Record
      BY DEF Record, Status, Code
    <3>. QED
      BY <2>7, <3>1 DEF WriteRefused, TypeOK
  <2>. QED
    BY <1>1, <2>1, <2>2, <2>3, <2>4, <2>5, <2>6, <2>7 DEF Request
<1>2. ASSUME NEW j \in Job, Promote(j) \/ Stalled(j) \/ RetryDeadLetter(j) PROVE TypeOK'
  <2>1. CASE Promote(j)
    <3>1. queue' \in [Job -> QueueEntry]
      BY <2>1, EntryParts, EntryType DEF Promote, QueueState
    <3>. QED
      BY <2>1, <3>1 DEF Promote, TypeOK
  <2>2. CASE Stalled(j)
    <3>0. {<<"lock", j>>} \subseteq Mishap
      BY DEF Mishap
    <3>1. budget' \in [Trouble -> Nat] /\ history' \subseteq Mishap
      BY <2>2, <3>0, StrikeType, RecallType DEF Stalled, TypeOK, Trouble
    <3>2. queue' \in [Job -> QueueEntry]
      BY <2>2, EntryParts, EntryType DEF Stalled, QueueState
    <3>. QED
      BY <2>2, <3>1, <3>2 DEF Stalled, TypeOK
  <2>3. CASE RetryDeadLetter(j)
    <3>1. queue' \in [Job -> QueueEntry]
      BY <2>3, EntryParts, EntryType DEF RetryDeadLetter, QueueState
    <3>2. {<<"retry", j>>} \subseteq Mishap
      BY DEF Mishap
    <3>3. history' \subseteq Mishap
      BY <2>3, <3>2, RecallType DEF RetryDeadLetter
    <3>. QED
      BY <2>3, <3>1, <3>3 DEF RetryDeadLetter, TypeOK
  <2>. QED
    BY <1>2, <2>1, <2>2, <2>3
<1>3. ASSUME NEW w \in Worker, Process(w) PROVE TypeOK'
  <2>1. run[w] \in Job /\ seen[w] \in Record /\ record[run[w]] \in Record
    BY DEF TypeOK
  <2>2. CASE ReadRunning(w) \/ ReadDone(w) \/ ReadFailed(w)
    BY <2>1, <2>2 DEF ReadRunning, ReadDone, ReadFailed, ReadRecord, TypeOK
  <2>3. CASE WriteRunning(w) \/ WriteDone(w) \/ WriteFailed(w)
    <3>1. /\ [seen[w] EXCEPT !.status = "running"] \in Record
          /\ [seen[w] EXCEPT !.status = "done"] \in Record
          /\ [status |-> "failed", code |-> "PROCESSING_FAILED"] \in Record
      BY <2>1 DEF Record, Status, Code
    <3>2. PICK e \in Record : record' = [record EXCEPT ![run[w]] = e]
      BY <2>3, <3>1 DEF WriteRunning, WriteDone, WriteFailed, WriteRecord
    <3>3. PICK l \in {"fetch", "delete", "fail"} :
            /\ pc' = [pc EXCEPT ![w] = l]
            /\ UNCHANGED <<api, queue, run, seen, input, output, audit, adding, dead, budget, history>>
      BY <2>3 DEF WriteRunning, WriteDone, WriteFailed, WriteRecord
    <3>. QED
      BY <2>1, <3>2, <3>3 DEF TypeOK
  <2>4. CASE Fetch(w)
    BY <2>4 DEF Fetch, TypeOK
  <2>5. CASE PutOutput(w)
    BY <2>1, <2>5 DEF PutOutput, TypeOK
  <2>6. CASE DeleteInput(w)
    BY <2>1, <2>6 DEF DeleteInput, TypeOK
  <2>7. CASE AppendAudit(w)
    BY <2>1, <2>7 DEF AppendAudit, TypeOK
  <2>8. CASE Complete(w)
    <3>1. queue' \in [Job -> QueueEntry]
      BY <2>1, <2>8, EntryParts, EntryType DEF Complete, QueueState
    <3>. QED
      BY <2>8, <3>1 DEF Complete, TypeOK
  <2>9. CASE Fail(w)
    <3>1. /\ queue' \in [Job -> QueueEntry]
          /\ adding' \in [Worker -> SUBSET Job]
      <4>1. CASE queue[run[w]].lock # w
        BY <2>9, <4>1 DEF Fail, TypeOK
      <4>2. CASE queue[run[w]].lock = w /\ queue[run[w]].made + 1 < MaxAttempts
        <5>1. queue' \in [Job -> QueueEntry]
          <6>1. PICK e : e = Entry("delayed", queue[run[w]].made + 1, queue[run[w]].stalls, NoWorker)
            OBVIOUS
          <6>2. e \in QueueEntry
            BY <2>1, <6>1, EntryParts, EntryType DEF QueueState
          <6>3. queue' = [queue EXCEPT ![run[w]] = e]
            BY <2>9, <4>2, <6>1 DEF Fail
          <6>. QED
            BY <2>1, <6>2, <6>3 DEF TypeOK
        <5>. QED
          BY <2>9, <4>2, <5>1 DEF Fail, TypeOK
      <4>3. CASE queue[run[w]].lock = w /\ ~(queue[run[w]].made + 1 < MaxAttempts)
        BY <2>1, <2>9, <4>3, GiveUpType DEF Fail
      <4>. QED
        BY <4>1, <4>2, <4>3
    <3>. QED
      BY <2>9, <3>1 DEF Fail, TypeOK
  <2>. QED
    BY <1>3, <2>2, <2>3, <2>4, <2>5, <2>6, <2>7, <2>8, <2>9 DEF Process
<1>4. ASSUME NEW w \in Worker, Throw(w) \/ Crash(w) PROVE TypeOK'
  <2>1. budget' \in [Trouble -> Nat]
    BY <1>4, StrikeType DEF Throw, Crash, Trouble
  <2>2. history' \subseteq Mishap
    <3>1. BrokenOff(w) \subseteq Mishap /\ BrokenOff(w) \cup {"deadLetter"} \X adding[w] \subseteq Mishap
      BY BrokenOffType
    <3>. QED
      BY <1>4, <3>1, RecallType DEF Throw, Crash
  <2>3. pc' \in [Worker -> Step] /\ adding' \in [Worker -> SUBSET Job]
    BY <1>4 DEF Throw, Crash, TypeOK, Step
  <2>. QED
    BY <1>4, <2>1, <2>2, <2>3 DEF Throw, Crash, TypeOK
<1>5. ASSUME NEW w \in Worker, NEW j \in Job, Take(w, j) PROVE TypeOK'
  <2>1. CASE queue[j].stalls > MaxStalls
    BY <1>5, <2>1, GiveUpType DEF Take, TypeOK
  <2>2. CASE ~(queue[j].stalls > MaxStalls)
    <3>1. queue' = [queue EXCEPT ![j] = Entry("active", queue[j].made, queue[j].stalls, w)]
      BY <1>5, <2>2 DEF Take
    <3>2. queue' \in [Job -> QueueEntry]
      BY <3>1, EntryParts, EntryType DEF QueueState
    <3>3. /\ run' = [run EXCEPT ![w] = j]
          /\ pc' = [pc EXCEPT ![w] = "readRunning"]
          /\ UNCHANGED <<api, record, seen, input, output, audit, adding, dead, budget, history>>
      BY <1>5, <2>2 DEF Take
    <3>. QED
      BY <3>2, <3>3 DEF TypeOK
  <2>. QED
    BY <2>1, <2>2
<1>6. ASSUME NEW w \in Worker, NEW j \in Job, AddDeadLetter(w, j) \/ DeadLetterRefused(w, j)
      PROVE  TypeOK'
  <2>1. CASE AddDeadLetter(w, j)
    BY <2>1 DEF AddDeadLetter, TypeOK
  <2>2. CASE DeadLetterRefused(w, j)
    <3>1. {<<"deadLetter", j>>} \subseteq Mishap
      BY DEF Mishap
    <3>2. budget' \in [Trouble -> Nat] /\ history' \subseteq Mishap
      BY <2>2, <3>1, StrikeType, RecallType DEF DeadLetterRefused, Trouble
    <3>. QED
      BY <2>2, <3>2 DEF DeadLetterRefused, TypeOK
  <2>. QED
    BY <1>6, <2>1, <2>2
<1>7. ASSUME NEW i \in Input, ExpireInput(i) PROVE TypeOK'
  BY <1>7, StrikeType DEF ExpireInput, TypeOK, Trouble
<1>8. ASSUME NEW j \in Job, ExpireOutput(j) PROVE TypeOK'
  BY <1>8, StrikeType DEF ExpireOutput, TypeOK, Trouble
<1>9. CASE UNCHANGED vars
  BY <1>9 DEF vars, TypeOK
<1>. QED
  BY <1>1, <1>2, <1>3, <1>4, <1>5, <1>6, <1>7, <1>8, <1>9 DEF Next

\* Records, queue entries, workers and objects stay in their types.
THEOREM PipelineTypeOK == Spec => []TypeOK
BY InitTypeOK, StepTypeOK, PTL DEF Spec
-----------------------------------------------------------------------------
(* The three promises that survive anything.  From its PutOutput on, and   *)
(* until it fails, a worker knows that its job has an output; when it      *)
(* appends the audit, that the input is gone.                              *)

HasOutput(w) == output[run[w]] # "absent"

WorkerKnows ==
  \A w \in Worker :
    /\ pc[w] \in {"readDone", "writeDone", "delete", "audit", "complete"} => HasOutput(w)
    /\ pc[w] = "audit" => input[InputOf[run[w]]] # "stored"

PipelineInv ==
  /\ TypeOK
  /\ WorkerKnows
  /\ DoneHasOutput
  /\ InputOutlivesFailure
  /\ AuditIsTrue

\* Steps that leave the objects and their audit alone, write no done, and send
\* workers only to places where they know no more than before.
LEMMA QuietStep ==
  ASSUME PipelineInv, TypeOK',
         UNCHANGED <<input, output, audit>>,
         \A j \in Job : record'[j].status = "done" => record[j].status = "done",
         \A w \in Worker :
           pc'[w] \in {"readDone", "writeDone", "delete", "audit", "complete"} =>
             /\ run'[w] = run[w]
             /\ pc[w] \in {"readDone", "writeDone", "delete", "audit", "complete"}
             /\ pc'[w] = "audit" => pc[w] = "audit"
  PROVE  PipelineInv'
<1>1. WorkerKnows'
  BY DEF PipelineInv, WorkerKnows, HasOutput
<1>2. DoneHasOutput' /\ InputOutlivesFailure' /\ AuditIsTrue'
  BY DEF PipelineInv, DoneHasOutput, InputOutlivesFailure, AuditIsTrue
<1>. QED
  BY <1>1, <1>2 DEF PipelineInv

\* Objects that others remove stay known.
LEMMA Expiry ==
  ASSUME PipelineInv, TypeOK',
         UNCHANGED <<record, pc, run, audit>>,
         \A j \in Job : output'[j] = "absent" => output[j] = "absent",
         \A i \in Input : input'[i] = input[i] \/ input'[i] = "expired"
  PROVE  PipelineInv'
<1>0. /\ \A w \in Worker : run[w] \in Job /\ InputOf[run[w]] \in Input
      /\ audit \subseteq Input
  <2>1. run \in [Worker -> Job] /\ audit \subseteq Input
    BY DEF PipelineInv, TypeOK
  <2>2. InputOf \in [Job -> Input]
    BY PipelineAssumption
  <2>. QED
    BY <2>1, <2>2
<1>1. WorkerKnows'
  <2>1. \A w \in Worker : /\ output'[run[w]] = "absent" => output[run[w]] = "absent"
                          /\ input'[InputOf[run[w]]] = "stored" => input[InputOf[run[w]]] = "stored"
    BY <1>0
  <2>. QED
    BY <2>1 DEF PipelineInv, WorkerKnows, HasOutput
<1>2. DoneHasOutput' /\ InputOutlivesFailure' /\ AuditIsTrue'
  BY <1>0 DEF PipelineInv, DoneHasOutput, InputOutlivesFailure, AuditIsTrue
<1>. QED
  BY <1>1, <1>2 DEF PipelineInv

LEMMA ProcessStep ==
  ASSUME PipelineInv, TypeOK', NEW w \in Worker, Process(w)
  PROVE  PipelineInv'
<1>. DEFINE j == run[w]
            i == InputOf[j]
<1>0. /\ j \in Job /\ i \in Input
      /\ pc \in [Worker -> Step]
      /\ record \in [Job -> Record] /\ output \in [Job -> {"absent", "stored", "expired"}]
      /\ input \in [Input -> {"stored", "deleted", "expired"}] /\ audit \subseteq Input
      /\ run \in [Worker -> Job]
  <2>1. TypeOK
    BY DEF PipelineInv
  <2>2. /\ pc \in [Worker -> Step]
        /\ record \in [Job -> Record] /\ output \in [Job -> {"absent", "stored", "expired"}]
        /\ input \in [Input -> {"stored", "deleted", "expired"}] /\ audit \subseteq Input
        /\ run \in [Worker -> Job]
    BY <2>1 DEF TypeOK
  <2>3. InputOf \in [Job -> Input]
    BY PipelineAssumption
  <2>. QED
    BY <2>2, <2>3
<1>1. CASE ReadRunning(w) \/ ReadDone(w) \/ ReadFailed(w)
  <2>1. PICK from, to \in {"readRunning", "writeRunning", "readDone", "writeDone",
                          "readFailed", "writeFailed"} :
          /\ pc[w] = from /\ pc' = [pc EXCEPT ![w] = to]
          /\ to \in {"writeRunning", "writeFailed"} \/ from = "readDone"
          /\ UNCHANGED <<record, run, input, output, audit>>
    BY <1>1 DEF ReadRunning, ReadDone, ReadFailed, ReadRecord, Goto
  <2>. QED
    BY <1>0, <2>1, QuietStep
<1>2. CASE WriteRunning(w) \/ WriteFailed(w)
  <2>1. seen[w] \in Record
    BY DEF PipelineInv, TypeOK
  <2>2. /\ [seen[w] EXCEPT !.status = "running"] \in Record
        /\ [seen[w] EXCEPT !.status = "running"].status # "done"
        /\ [status |-> "failed", code |-> "PROCESSING_FAILED"] \in Record
    BY <2>1 DEF Record, Status, Code
  <2>3. PICK e \in Record, l \in {"fetch", "fail"} :
          /\ record' = [record EXCEPT ![j] = e] /\ e.status # "done"
          /\ pc' = [pc EXCEPT ![w] = l]
          /\ UNCHANGED <<run, input, output, audit>>
    BY <1>2, <2>2 DEF WriteRunning, WriteFailed, WriteRecord, Goto
  <2>. HIDE DEF j, i
  <2>4. \A k \in Job : record'[k] = record[k] \/ record'[k] = e
    BY <1>0, <2>3
  <2>5. \A k \in Job : record'[k].status = "done" => record[k].status = "done"
    BY <2>3, <2>4
  <2>6. \A v \in Worker : pc'[v] = IF v = w THEN l ELSE pc[v]
    BY <1>0, <2>3
  <2>. QED
    BY <2>3, <2>5, <2>6, QuietStep
<1>3. CASE Fetch(w)
  BY <1>0, <1>3, QuietStep DEF Fetch, Goto
<1>4. CASE PutOutput(w)
  <2>1. /\ output' = [output EXCEPT ![j] = "stored"]
        /\ pc' = [pc EXCEPT ![w] = "readDone"]
        /\ UNCHANGED <<record, run, input, audit>>
    BY <1>4 DEF PutOutput, Goto
  <2>2. \A k \in Job : output[k] # "absent" => output'[k] # "absent"
    BY <1>0, <2>1
  <2>3. WorkerKnows'
    BY <1>0, <2>1, <2>2 DEF PipelineInv, WorkerKnows, HasOutput
  <2>4. DoneHasOutput' /\ InputOutlivesFailure' /\ AuditIsTrue'
    BY <1>0, <2>1, <2>2 DEF PipelineInv, DoneHasOutput, InputOutlivesFailure, AuditIsTrue
  <2>. QED
    BY <2>3, <2>4 DEF PipelineInv
<1>5. CASE WriteDone(w)
  <2>1. output[j] # "absent"
    BY <1>5 DEF WriteDone, WriteRecord, PipelineInv, WorkerKnows, HasOutput
  <2>2. /\ \A k \in Job : k # j => record'[k] = record[k]
        /\ pc' = [pc EXCEPT ![w] = "delete"]
        /\ UNCHANGED <<run, input, output, audit>>
    BY <1>0, <1>5 DEF WriteDone, WriteRecord, Goto
  <2>3. WorkerKnows'
    BY <1>0, <2>1, <2>2 DEF PipelineInv, WorkerKnows, HasOutput
  <2>4. DoneHasOutput' /\ InputOutlivesFailure' /\ AuditIsTrue'
    BY <1>0, <2>1, <2>2 DEF PipelineInv, DoneHasOutput, InputOutlivesFailure, AuditIsTrue
  <2>. QED
    BY <2>3, <2>4 DEF PipelineInv
<1>6. CASE DeleteInput(w)
  <2>1. output[j] # "absent"
    BY <1>6 DEF DeleteInput, PipelineInv, WorkerKnows, HasOutput
  <2>2. /\ input' = [input EXCEPT ![i] = IF @ = "stored" THEN "deleted" ELSE @]
        /\ pc' = [pc EXCEPT ![w] = "audit"]
        /\ UNCHANGED <<record, run, output, audit>>
    BY <1>6 DEF DeleteInput, Goto
  <2>3. /\ input'[i] # "stored"
        /\ \A k \in Input : input'[k] = "stored" => input[k] = "stored"
        /\ \A k \in Input : k # i => input'[k] = input[k]
    BY <1>0, <2>2
  <2>4. WorkerKnows'
    BY <1>0, <2>1, <2>2, <2>3, PipelineAssumption DEF PipelineInv, WorkerKnows, HasOutput
  <2>5. DoneHasOutput' /\ AuditIsTrue'
    BY <1>0, <2>2, <2>3 DEF PipelineInv, DoneHasOutput, AuditIsTrue
  <2>6. InputOutlivesFailure'
    BY <1>0, <2>1, <2>2, <2>3 DEF PipelineInv, InputOutlivesFailure
  <2>. QED
    BY <2>4, <2>5, <2>6 DEF PipelineInv
<1>7. CASE AppendAudit(w)
  <2>1. input[i] # "stored"
    BY <1>7 DEF AppendAudit, PipelineInv, WorkerKnows
  <2>2. /\ audit' = audit \cup {i}
        /\ pc[w] = "audit" /\ pc' = [pc EXCEPT ![w] = "complete"]
        /\ UNCHANGED <<record, run, input, output>>
    BY <1>7 DEF AppendAudit, Goto
  <2>3. WorkerKnows'
    BY <1>0, <2>2 DEF PipelineInv, WorkerKnows, HasOutput
  <2>4. DoneHasOutput' /\ InputOutlivesFailure' /\ AuditIsTrue'
    BY <1>0, <2>1, <2>2 DEF PipelineInv, DoneHasOutput, InputOutlivesFailure, AuditIsTrue
  <2>. QED
    BY <2>3, <2>4 DEF PipelineInv
<1>8. CASE Complete(w) \/ Fail(w)
  BY <1>0, <1>8, QuietStep DEF Complete, Fail, Goto
<1>. QED
  BY <1>1, <1>2, <1>3, <1>4, <1>5, <1>6, <1>7, <1>8 DEF Process

LEMMA StepPipelineInv == PipelineInv /\ [Next]_vars => PipelineInv'
<1>. SUFFICES ASSUME PipelineInv, [Next]_vars PROVE PipelineInv'
  OBVIOUS
<1>. USE DEF Goto
<1>0. TypeOK /\ TypeOK'
  BY StepTypeOK DEF PipelineInv
<1>1. /\ pc \in [Worker -> Step]
      /\ record \in [Job -> Record] /\ run \in [Worker -> Job]
      /\ input \in [Input -> {"stored", "deleted", "expired"}]
      /\ output \in [Job -> {"absent", "stored", "expired"}]
  BY <1>0 DEF TypeOK
<1>2. ASSUME NEW j \in Job, Request(j) \/ EnqueueFails(j) \/ ApiCrash(j) PROVE PipelineInv'
  <2>1. UNCHANGED <<pc, run, input, output, audit>>
    BY <1>2 DEF Request, HeadInput, ReserveSlot, Enqueue, ReadRefused, WriteRefused,
       EnqueueFails, ApiCrash
  <2>2. record' = record \/ \E e : e.status # "done" /\ record' = [record EXCEPT ![j] = e]
    BY <1>2 DEF Request, HeadInput, ReserveSlot, Enqueue, ReadRefused, WriteRefused,
       EnqueueFails, ApiCrash
  <2>3. \A k \in Job : record'[k].status = "done" => record[k].status = "done"
    BY <1>1, <2>2
  <2>. QED
    BY <1>0, <2>1, <2>3, QuietStep
<1>3. ASSUME NEW j \in Job, Promote(j) \/ Stalled(j) \/ RetryDeadLetter(j) PROVE PipelineInv'
  BY <1>0, <1>3, QuietStep DEF Promote, Stalled, RetryDeadLetter
<1>4. ASSUME NEW w \in Worker, Process(w) PROVE PipelineInv'
  BY <1>0, <1>4, ProcessStep
<1>5. ASSUME NEW w \in Worker, Throw(w) \/ Crash(w) PROVE PipelineInv'
  BY <1>0, <1>1, <1>5, QuietStep DEF Throw, Crash
<1>6. ASSUME NEW w \in Worker, NEW j \in Job, Take(w, j) PROVE PipelineInv'
  <2>1. /\ \/ pc' = pc /\ run' = run
           \/ pc' = [pc EXCEPT ![w] = "readRunning"] /\ run' = [run EXCEPT ![w] = j]
        /\ UNCHANGED <<record, input, output, audit>>
    BY <1>6 DEF Take
  <2>. QED
    BY <1>0, <1>1, <2>1, QuietStep
<1>7. ASSUME NEW w \in Worker, NEW j \in Job, AddDeadLetter(w, j) \/ DeadLetterRefused(w, j)
      PROVE  PipelineInv'
  BY <1>0, <1>7, QuietStep DEF AddDeadLetter, DeadLetterRefused
<1>8. ASSUME NEW i \in Input, ExpireInput(i) PROVE PipelineInv'
  BY <1>0, <1>1, <1>8, Expiry DEF ExpireInput
<1>9. ASSUME NEW j \in Job, ExpireOutput(j) PROVE PipelineInv'
  BY <1>0, <1>1, <1>9, Expiry DEF ExpireOutput
<1>10. CASE UNCHANGED vars
  BY <1>0, <1>10, QuietStep DEF vars
<1>. QED
  BY <1>2, <1>3, <1>4, <1>5, <1>6, <1>7, <1>8, <1>9, <1>10 DEF Next

LEMMA PipelineCorrect == Spec => []PipelineInv
<1>1. Init => PipelineInv
  <2>1. Init => WorkerKnows
    BY DEF Init, WorkerKnows
  <2>2. Init => DoneHasOutput /\ InputOutlivesFailure /\ AuditIsTrue
    BY DEF Init, DoneHasOutput, InputOutlivesFailure, AuditIsTrue
  <2>. QED
    BY <2>1, <2>2, InitTypeOK DEF PipelineInv
<1>. QED
  BY <1>1, StepPipelineInv, PTL DEF Spec

\* A record never says done without an output, through any sequence of
\* crashes, redeliveries to a second worker and late writes.
THEOREM PipelineDoneHasOutput == Spec => []DoneHasOutput
<1>1. PipelineInv => DoneHasOutput
  BY DEF PipelineInv
<1>. QED
  BY <1>1, PipelineCorrect, PTL

\* No failure leaves a subject with neither the input nor an output of it.
THEOREM PipelineInputOutlivesFailure == Spec => []InputOutlivesFailure
<1>1. PipelineInv => InputOutlivesFailure
  BY DEF PipelineInv
<1>. QED
  BY <1>1, PipelineCorrect, PTL

\* The audit never lists an input that is still in the bucket.
THEOREM PipelineAuditIsTrue == Spec => []AuditIsTrue
<1>1. PipelineInv => AuditIsTrue
  BY DEF PipelineInv
<1>. QED
  BY <1>1, PipelineCorrect, PTL
-----------------------------------------------------------------------------
(* Who runs a job.  While its live workers keep its lock, the lock is what *)
(* it seems: the worker that runs a job holds it, so nobody else does.     *)

\* The worker that runs a job holds its lock, unless a live one ever lost it.
Owned ==
  \A w \in Worker : pc[w] # "idle" /\ <<"lock", run[w]>> \notin history =>
    queue[run[w]].lock = w /\ queue[run[w]].state = "active"

\* Only an active job has a worker's lock on it.
Held == \A j \in Job : queue[j].lock \in Worker => queue[j].state = "active"

Created == \A j \in Job : queue[j].state # "absent" => api[j] = "created"

Buried == \A j \in Job : Doomed(j) => queue[j].state = "failed"

OwnInv == TypeOK /\ Owned /\ Held /\ Created /\ Buried

\* The parts of a well-typed state that the locks are about.
LEMMA LockParts ==
  ASSUME TypeOK
  PROVE  /\ queue \in [Job -> QueueEntry] /\ run \in [Worker -> Job]
         /\ DOMAIN pc = Worker /\ DOMAIN api = Job /\ DOMAIN record = Job
         /\ adding \in [Worker -> SUBSET Job] /\ dead \subseteq Job
         /\ DOMAIN budget = Trouble
         /\ \A t \in Trouble : budget[t] \in Nat
         /\ \A j \in Job : queue[j].stalls \in Nat /\ queue[j].made \in Nat
BY DEF TypeOK, QueueEntry

\* One job's entry is replaced.
LEMMA Replaced ==
  ASSUME TypeOK, NEW j \in Job, NEW s, NEW m, NEW n, NEW l,
         queue' = [queue EXCEPT ![j] = Entry(s, m, n, l)]
  PROVE  /\ \A k \in Job : k # j => queue'[k] = queue[k]
         /\ queue'[j].state = s /\ queue'[j].made = m
         /\ queue'[j].stalls = n /\ queue'[j].lock = l
BY LockParts DEF Entry

LEMMA HistoryGrows ==
  ASSUME [Next]_vars
  PROVE  history \subseteq history'
BY DEF Next, Request, HeadInput, ReserveSlot, Enqueue, ReadRefused, WriteRefused, EnqueueFails,
   ApiCrash, Promote, Stalled, RetryDeadLetter, Process, ReadRunning, ReadDone, ReadFailed,
   ReadRecord, WriteRunning, WriteDone, WriteFailed, WriteRecord, Fetch, PutOutput, DeleteInput,
   AppendAudit, Complete, Fail, Throw, Crash, Take, AddDeadLetter, DeadLetterRefused, ExpireInput,
   ExpireOutput, vars, Recall

\* Only its own steps move a worker.
LEMMA WorkerStays ==
  ASSUME TypeOK, [Next]_vars, NEW w \in Worker,
         ~Process(w), ~Throw(w), ~Crash(w), \A k \in Job : ~Take(w, k)
  PROVE  run'[w] = run[w] /\ pc'[w] = pc[w]
<1>1. ASSUME NEW v \in Worker, v # w, UNCHANGED run, NEW l, pc' = [pc EXCEPT ![v] = l]
      PROVE  run'[w] = run[w] /\ pc'[w] = pc[w]
  BY <1>1, LockParts
<1>2. ASSUME NEW v \in Worker, v # w, Process(v) \/ Throw(v) \/ Crash(v)
      PROVE  run'[w] = run[w] /\ pc'[w] = pc[w]
  <2>1. UNCHANGED run /\ \E l : pc' = [pc EXCEPT ![v] = l]
    BY <1>2 DEF Process, ReadRunning, ReadDone, ReadFailed, ReadRecord, WriteRunning, WriteDone,
       WriteFailed, WriteRecord, Fetch, PutOutput, DeleteInput, AppendAudit, Complete, Fail, Throw,
       Crash, Goto
  <2>. QED
    BY <1>1, <1>2, <2>1
<1>3. ASSUME NEW v \in Worker, v # w, NEW k \in Job, Take(v, k)
      PROVE  run'[w] = run[w] /\ pc'[w] = pc[w]
  BY <1>3, LockParts DEF Take, Goto
<1>4. ASSUME \/ \E k \in Job : \/ Request(k) \/ EnqueueFails(k) \/ ApiCrash(k)
                               \/ Promote(k) \/ Stalled(k) \/ RetryDeadLetter(k)
             \/ \E v \in Worker, k \in Job : AddDeadLetter(v, k) \/ DeadLetterRefused(v, k)
             \/ \E i \in Input : ExpireInput(i)
             \/ \E k \in Job : ExpireOutput(k)
             \/ UNCHANGED vars
      PROVE  UNCHANGED <<run, pc>>
  BY <1>4 DEF Request, HeadInput, ReserveSlot, Enqueue, ReadRefused, WriteRefused, EnqueueFails,
     ApiCrash, Promote, Stalled, RetryDeadLetter, AddDeadLetter, DeadLetterRefused, ExpireInput,
     ExpireOutput, vars
<1>. QED
  BY <1>2, <1>3, <1>4 DEF Next

\* A step of the processor starts busy, and leaves the worker its job.
LEMMA BusyStep ==
  ASSUME TypeOK, NEW w \in Worker, Process(w) \/ Throw(w)
  PROVE  /\ pc[w] # "idle" /\ UNCHANGED run
         /\ ~Complete(w) /\ ~Fail(w) => pc'[w] # "idle"
<1>1. CASE ReadRunning(w) \/ ReadDone(w) \/ ReadFailed(w)
  BY <1>1, LockParts DEF ReadRunning, ReadDone, ReadFailed, ReadRecord, Goto
<1>2. CASE WriteRunning(w) \/ WriteDone(w) \/ WriteFailed(w)
  BY <1>2, LockParts DEF WriteRunning, WriteDone, WriteFailed, WriteRecord, Goto
<1>3. CASE Fetch(w) \/ PutOutput(w) \/ DeleteInput(w) \/ AppendAudit(w)
  BY <1>3, LockParts DEF Fetch, PutOutput, DeleteInput, AppendAudit, Goto
<1>4. CASE Complete(w) \/ Fail(w)
  BY <1>4 DEF Complete, Fail
<1>5. CASE Throw(w)
  <2>1. pc[w] # "idle"
    BY <1>5, PipelineAssumption DEF Throw
  <2>. QED
    BY <1>5, <2>1, LockParts DEF Throw, Goto
<1>. QED
  BY <1>1, <1>2, <1>3, <1>4, <1>5 DEF Process

\* A busy worker was busy with the same job before, or has just taken it.
LEMMA BusyBefore ==
  ASSUME TypeOK, [Next]_vars, NEW w \in Worker, pc'[w] # "idle", \A k \in Job : ~Take(w, k)
  PROVE  pc[w] # "idle" /\ run'[w] = run[w]
<1>1. ~Crash(w)
  BY LockParts DEF Crash, Goto
<1>2. CASE Process(w) \/ Throw(w)
  BY <1>2, BusyStep
<1>. QED
  BY <1>1, <1>2, WorkerStays

\* What moves a job in the queue.
LEMMA QueueMove ==
  ASSUME OwnInv, [Next]_vars, NEW j \in Job, queue'[j] # queue[j]
  PROVE  \/ \E w \in Worker : Take(w, j)
         \/ \E w \in Worker : run[w] = j /\ queue[j].lock = w /\ (Complete(w) \/ Fail(w))
         \/ Enqueue(j) \/ Promote(j) \/ Stalled(j)
<1>0. TypeOK
  BY DEF OwnInv
<1>1. ASSUME NEW k \in Job, \E e : queue' = [queue EXCEPT ![k] = e] PROVE k = j
  BY <1>0, <1>1, LockParts
<1>2. ASSUME NEW w \in Worker, Complete(w) \/ Fail(w) PROVE run[w] = j /\ queue[j].lock = w
  <2>1. queue[run[w]].lock = w /\ \E e : queue' = [queue EXCEPT ![run[w]] = e]
    BY <1>2 DEF Complete, Fail, GiveUp
  <2>. QED
    BY <1>0, <1>1, <2>1, LockParts
<1>3. ASSUME NEW w \in Worker, NEW k \in Job, Take(w, k) PROVE k = j
  BY <1>1, <1>3 DEF Take, GiveUp
<1>4. ASSUME NEW k \in Job, Enqueue(k) \/ Promote(k) \/ Stalled(k) PROVE k = j
  BY <1>1, <1>4 DEF Enqueue, Promote, Stalled
<1>5. ASSUME NEW k \in Job, RetryDeadLetter(k) PROVE FALSE
  <2>1. queue[k].state = "failed"
    BY <1>5 DEF RetryDeadLetter, OwnInv, Buried, Doomed
  <2>. QED
    BY <1>5, <2>1 DEF RetryDeadLetter
<1>6. ASSUME NEW w \in Worker, Process(w) \/ Throw(w) \/ Crash(w), ~Complete(w), ~Fail(w)
      PROVE  UNCHANGED queue
  BY <1>6 DEF Process, ReadRunning, ReadDone, ReadFailed, ReadRecord, WriteRunning, WriteDone,
     WriteFailed, WriteRecord, Fetch, PutOutput, DeleteInput, AppendAudit, Throw, Crash
<1>7. ASSUME \/ \E k \in Job : \/ HeadInput(k) \/ ReserveSlot(k) \/ ReadRefused(k)
                               \/ WriteRefused(k) \/ EnqueueFails(k) \/ ApiCrash(k)
             \/ \E w \in Worker, k \in Job : AddDeadLetter(w, k) \/ DeadLetterRefused(w, k)
             \/ \E i \in Input : ExpireInput(i)
             \/ \E k \in Job : ExpireOutput(k)
             \/ UNCHANGED vars
      PROVE  UNCHANGED queue
  BY <1>7 DEF HeadInput, ReserveSlot, ReadRefused, WriteRefused, EnqueueFails, ApiCrash,
     AddDeadLetter, DeadLetterRefused, ExpireInput, ExpireOutput, vars
<1>. QED
  BY <1>2, <1>3, <1>4, <1>5, <1>6, <1>7 DEF Next, Request

\* Where a move takes a job.
LEMMA TakeMove ==
  ASSUME TypeOK, NEW w \in Worker, NEW j \in Job, Take(w, j)
  PROVE  /\ queue[j].state = "waiting" /\ pc[w] = "idle" /\ queue'[j].stalls = queue[j].stalls
         /\ \/ /\ GiveUp(w, j) /\ queue[j].stalls > MaxStalls /\ UNCHANGED <<pc, run>>
               /\ queue'[j].state = "failed" /\ queue'[j].lock = NoWorker
            \/ /\ queue'[j].state = "active" /\ queue'[j].lock = w
               /\ run'[w] = j /\ pc'[w] = "readRunning" /\ UNCHANGED adding
<1>0. queue[j].state = "waiting" /\ pc[w] = "idle"
  BY DEF Take
<1>1. CASE queue[j].stalls > MaxStalls
  <2>1. /\ queue' = [queue EXCEPT ![j] = Entry("failed", queue[j].made + 1, queue[j].stalls, NoWorker)]
        /\ GiveUp(w, j) /\ UNCHANGED <<pc, run>>
    BY <1>1 DEF Take, GiveUp
  <2>. QED
    BY <1>0, <1>1, <2>1, LockParts DEF Entry
<1>2. CASE ~(queue[j].stalls > MaxStalls)
  <2>1. /\ queue' = [queue EXCEPT ![j] = Entry("active", queue[j].made, queue[j].stalls, w)]
        /\ run' = [run EXCEPT ![w] = j] /\ pc' = [pc EXCEPT ![w] = "readRunning"]
        /\ UNCHANGED adding
    BY <1>2 DEF Take, Goto
  <2>. QED
    BY <1>0, <2>1, LockParts DEF Entry
<1>. QED
  BY <1>1, <1>2

LEMMA SettleMove ==
  ASSUME TypeOK, NEW w \in Worker, Complete(w) \/ Fail(w), queue[run[w]].lock = w
  PROVE  /\ queue'[run[w]].lock = NoWorker /\ queue'[run[w]].stalls = queue[run[w]].stalls
         /\ pc'[w] = "idle"
         /\ \/ Complete(w) /\ queue'[run[w]].state = "completed" /\ UNCHANGED adding
            \/ Fail(w) /\ queue'[run[w]].state = "delayed" /\ UNCHANGED adding
            \/ Fail(w) /\ queue'[run[w]].state = "failed" /\ GiveUp(w, run[w])
<1>0. run[w] \in Job /\ pc'[w] = "idle"
  BY LockParts DEF Complete, Fail, Goto
<1>1. CASE Complete(w)
  <2>1. /\ queue' = [queue EXCEPT ![run[w]] =
                       Entry("completed", queue[run[w]].made, queue[run[w]].stalls, NoWorker)]
        /\ UNCHANGED adding
    BY <1>1 DEF Complete
  <2>. QED
    BY <1>0, <1>1, <2>1, LockParts DEF Entry
<1>2. CASE Fail(w) /\ queue[run[w]].made + 1 < MaxAttempts
  <2>1. /\ queue' = [queue EXCEPT ![run[w]] =
                       Entry("delayed", queue[run[w]].made + 1, queue[run[w]].stalls, NoWorker)]
        /\ UNCHANGED adding
    BY <1>2 DEF Fail
  <2>. QED
    BY <1>0, <1>2, <2>1, LockParts DEF Entry
<1>3. CASE Fail(w) /\ ~(queue[run[w]].made + 1 < MaxAttempts)
  <2>1. /\ queue' = [queue EXCEPT ![run[w]] =
                       Entry("failed", queue[run[w]].made + 1, queue[run[w]].stalls, NoWorker)]
        /\ GiveUp(w, run[w])
    BY <1>3 DEF Fail, GiveUp
  <2>. QED
    BY <1>0, <1>3, <2>1, LockParts DEF Entry
<1>. QED
  BY <1>1, <1>2, <1>3

LEMMA WaitMove ==
  ASSUME TypeOK, NEW j \in Job, Enqueue(j) \/ Promote(j) \/ Stalled(j)
  PROVE  /\ queue'[j].state = "waiting" /\ queue'[j].lock = NoWorker
         /\ \/ Enqueue(j) /\ api[j] = "enqueue" /\ api'[j] = "created" /\ queue'[j].stalls = 0
            \/ Promote(j) /\ queue[j].state = "delayed" /\ queue'[j].stalls = queue[j].stalls
            \/ Stalled(j) /\ queue[j].state = "active" /\ queue'[j].stalls = queue[j].stalls + 1
BY Replaced, LockParts DEF Enqueue, Promote, Stalled

\* How a job comes to the dead letters.
LEMMA NewlyDoomed ==
  ASSUME TypeOK, [Next]_vars, NEW j \in Job, Doomed(j)', ~Doomed(j)
  PROVE  \E w \in Worker : GiveUp(w, j)
<1>1. ASSUME NEW w \in Worker, NEW k \in Job, AddDeadLetter(w, k) \/ DeadLetterRefused(w, k)
      PROVE  FALSE
  BY <1>1, LockParts DEF AddDeadLetter, DeadLetterRefused, Doomed
<1>2. ASSUME NEW w \in Worker, Crash(w) PROVE FALSE
  BY <1>2, LockParts DEF Crash, Doomed
<1>3. ASSUME NEW k \in Job, RetryDeadLetter(k) PROVE FALSE
  BY <1>3 DEF RetryDeadLetter, Doomed
<1>4. ASSUME NEW w \in Worker, NEW k \in Job, GiveUp(w, k), UNCHANGED dead PROVE k = j
  BY <1>4, LockParts DEF GiveUp, Doomed
<1>5. ASSUME UNCHANGED <<adding, dead>> PROVE FALSE
  BY <1>5 DEF Doomed
<1>6. ASSUME NEW w \in Worker, Process(w) \/ Throw(w)
      PROVE  UNCHANGED dead /\ (UNCHANGED adding \/ GiveUp(w, run[w]))
  BY <1>6 DEF Process, ReadRunning, ReadDone, ReadFailed, ReadRecord, WriteRunning, WriteDone,
     WriteFailed, WriteRecord, Fetch, PutOutput, DeleteInput, AppendAudit, Complete, Fail, Throw
<1>7. ASSUME NEW w \in Worker, NEW k \in Job, Take(w, k)
      PROVE  UNCHANGED dead /\ (UNCHANGED adding \/ GiveUp(w, k))
  BY <1>7 DEF Take
<1>8. ASSUME \/ \E k \in Job : \/ Request(k) \/ EnqueueFails(k) \/ ApiCrash(k)
                               \/ Promote(k) \/ Stalled(k)
             \/ \E i \in Input : ExpireInput(i)
             \/ \E k \in Job : ExpireOutput(k)
             \/ UNCHANGED vars
      PROVE  UNCHANGED <<adding, dead>>
  BY <1>8 DEF Request, HeadInput, ReserveSlot, Enqueue, ReadRefused, WriteRefused, EnqueueFails,
     ApiCrash, Promote, Stalled, ExpireInput, ExpireOutput, vars
<1>9. \A w \in Worker : run[w] \in Job
  BY LockParts
<1>. QED
  BY <1>1, <1>2, <1>3, <1>4, <1>5, <1>6, <1>7, <1>8, <1>9 DEF Next

LEMMA StepOwnInv == OwnInv /\ [Next]_vars => OwnInv'
<1>. SUFFICES ASSUME OwnInv, [Next]_vars PROVE OwnInv'
  OBVIOUS
<1>1. TypeOK /\ TypeOK' /\ history \subseteq history'
  BY StepTypeOK, HistoryGrows DEF OwnInv
<1>2. \A j \in Job : api[j] = "created" => api'[j] = "created"
  <2>1. \/ UNCHANGED api
        \/ \E k \in Job : \E l : api[k] # "created" /\ api' = [api EXCEPT ![k] = l]
    BY DEF Next, Request, HeadInput, ReserveSlot, Enqueue, ReadRefused, WriteRefused, EnqueueFails,
       ApiCrash, Promote, Stalled, RetryDeadLetter, Process, ReadRunning, ReadDone, ReadFailed,
       ReadRecord, WriteRunning, WriteDone, WriteFailed, WriteRecord, Fetch, PutOutput, DeleteInput,
       AppendAudit, Complete, Fail, Throw, Crash, Take, AddDeadLetter, DeadLetterRefused,
       ExpireInput, ExpireOutput, vars
  <2>. QED
    BY <1>1, <2>1, LockParts
<1>3. ASSUME NEW j \in Job
      PROVE  /\ queue'[j].lock \in Worker => queue'[j].state = "active"
             /\ queue'[j].state # "absent" => api'[j] = "created"
             /\ Doomed(j)' => queue'[j].state = "failed"
  <2>1. CASE queue'[j] = queue[j]
    <3>1. ASSUME Doomed(j)', ~Doomed(j) PROVE queue'[j].state = "failed"
      <4>1. PICK w \in Worker : GiveUp(w, j)
        BY <1>1, <3>1, NewlyDoomed
      <4>. QED
        BY <1>1, <4>1, Replaced DEF GiveUp
    <3>. QED
      BY <1>2, <2>1, <3>1 DEF OwnInv, Held, Created, Buried
  <2>2. CASE queue'[j] # queue[j]
    <3>1. ASSUME NEW w \in Worker, Take(w, j)
          PROVE  /\ queue'[j].lock \in Worker => queue'[j].state = "active"
                 /\ queue[j].state = "waiting" /\ api'[j] = "created"
      BY <1>1, <1>2, <3>1, TakeMove, PipelineAssumption DEF OwnInv, Created
    <3>2. ASSUME NEW w \in Worker, run[w] = j, queue[j].lock = w, Complete(w) \/ Fail(w)
          PROVE  /\ queue'[j].lock \in Worker => queue'[j].state = "active"
                 /\ queue[j].state = "active" /\ api'[j] = "created"
      BY <1>1, <1>2, <3>2, SettleMove, PipelineAssumption DEF OwnInv, Created, Held
    <3>3. ASSUME Enqueue(j) \/ Promote(j) \/ Stalled(j)
          PROVE  /\ queue'[j].lock \in Worker => queue'[j].state = "active"
                 /\ queue[j].state # "failed" /\ api'[j] = "created"
      BY <1>1, <1>2, <3>3, WaitMove, PipelineAssumption DEF OwnInv, Created
    <3>4. /\ queue'[j].lock \in Worker => queue'[j].state = "active"
          /\ queue[j].state # "failed" /\ api'[j] = "created"
      BY <2>2, <3>1, <3>2, <3>3, QueueMove
    <3>5. ASSUME Doomed(j)' PROVE queue'[j].state = "failed"
      <4>1. ~Doomed(j)
        BY <3>4 DEF OwnInv, Buried
      <4>2. PICK w \in Worker : GiveUp(w, j)
        BY <1>1, <3>5, <4>1, NewlyDoomed
      <4>. QED
        BY <1>1, <4>2, Replaced DEF GiveUp
    <3>. QED
      BY <3>4, <3>5
  <2>. QED
    BY <2>1, <2>2
<1>4. ASSUME NEW w \in Worker, pc'[w] # "idle", <<"lock", run'[w]>> \notin history'
      PROVE  queue'[run'[w]].lock = w /\ queue'[run'[w]].state = "active"
  <2>1. ASSUME NEW k \in Job, Take(w, k)
        PROVE  queue'[run'[w]].lock = w /\ queue'[run'[w]].state = "active"
    BY <1>1, <1>4, <2>1, TakeMove
  <2>2. ASSUME \A k \in Job : ~Take(w, k)
        PROVE  queue'[run'[w]].lock = w /\ queue'[run'[w]].state = "active"
    <3>. DEFINE j == run[w]
    <3>1. pc[w] # "idle" /\ run'[w] = j /\ j \in Job
      BY <1>1, <1>4, <2>2, BusyBefore, LockParts
    <3>2. queue[j].lock = w /\ queue[j].state = "active" /\ api[j] = "created"
      BY <1>1, <1>4, <3>1 DEF OwnInv, Owned, Created
    <3>3. ASSUME queue'[j] # queue[j] PROVE FALSE
      <4>. HIDE DEF j
      <4>1. ASSUME NEW v \in Worker, Take(v, j) PROVE FALSE
        BY <3>2, <4>1 DEF Take
      <4>2. ASSUME NEW v \in Worker, run[v] = j, queue[j].lock = v, Complete(v) \/ Fail(v)
            PROVE  FALSE
        BY <1>1, <1>4, <3>2, <4>2, SettleMove
      <4>3. ASSUME Enqueue(j) \/ Promote(j) PROVE FALSE
        BY <3>2, <4>3 DEF Enqueue, Promote
      <4>4. ASSUME Stalled(j) PROVE FALSE
        <5>1. Alive(j)
          BY <3>1, <3>2 DEF Alive, j
        <5>. QED
          BY <1>4, <3>1, <4>4, <5>1 DEF Stalled, Recall
      <4>. QED
        BY <3>1, <3>3, <4>1, <4>2, <4>3, <4>4, QueueMove
    <3>. QED
      BY <3>1, <3>2, <3>3
  <2>. QED
    BY <2>1, <2>2
<1>. QED
  BY <1>1, <1>3, <1>4 DEF OwnInv, Owned, Held, Created, Buried

LEMMA InitOwnInv == Init => OwnInv
<1>1. ASSUME Init PROVE Owned /\ Held /\ Created /\ Buried
  BY <1>1, PipelineAssumption DEF Init, Owned, Held, Created, Buried, Doomed, Entry
<1>. QED
  BY <1>1, InitTypeOK DEF OwnInv

LEMMA OwnInvHolds == Spec => []OwnInv
BY InitOwnInv, StepOwnInv, PTL DEF Spec

\* The worker that runs a job is the only one, and may settle it.
LEMMA OnlyRunner ==
  ASSUME OwnInv, NEW w \in Worker, pc[w] # "idle", <<"lock", run[w]>> \notin history
  PROVE  /\ run[w] \in Job /\ queue[run[w]].lock = w
         /\ queue[run[w]].state = "active" /\ api[run[w]] = "created"
         /\ \A v \in Worker : pc[v] # "idle" /\ run[v] = run[w] => v = w
<1>1. run[w] \in Job
  BY LockParts DEF OwnInv
<1>2. queue[run[w]].lock = w /\ queue[run[w]].state = "active"
  BY DEF OwnInv, Owned
<1>3. \A v \in Worker : pc[v] # "idle" /\ run[v] = run[w] => v = w
  BY <1>2 DEF OwnInv, Owned
<1>. QED
  BY <1>1, <1>2, <1>3 DEF OwnInv, Created
-----------------------------------------------------------------------------
(* The record of a job that the queue has is written by its one worker.    *)

\* Once a job is in the queue, only a worker that runs it writes its record.
LEMMA RecordWriter ==
  ASSUME TypeOK, [Next]_vars, NEW j \in Job, record'[j] # record[j], api[j] = "created"
  PROVE  \E w \in Worker : /\ run[w] = j
                           /\ WriteRunning(w) \/ WriteDone(w) \/ WriteFailed(w)
<1>1. ASSUME NEW w \in Worker, WriteRunning(w) \/ WriteDone(w) \/ WriteFailed(w)
      PROVE  run[w] = j
  <2>1. \E e : record' = [record EXCEPT ![run[w]] = e]
    BY <1>1 DEF WriteRunning, WriteDone, WriteFailed, WriteRecord
  <2>. QED
    BY <2>1, LockParts
<1>2. ASSUME NEW k \in Job, ReserveSlot(k) \/ WriteRefused(k) PROVE FALSE
  <2>1. record' = record \/ \E e : api[k] # "created" /\ record' = [record EXCEPT ![k] = e]
    BY <1>2 DEF ReserveSlot, WriteRefused
  <2>. QED
    BY <2>1, LockParts
<1>3. \/ UNCHANGED record
      \/ \E k \in Job : ReserveSlot(k) \/ WriteRefused(k)
      \/ \E w \in Worker : WriteRunning(w) \/ WriteDone(w) \/ WriteFailed(w)
  BY DEF Next, Request, HeadInput, Enqueue, ReadRefused, EnqueueFails, ApiCrash, Promote, Stalled,
     RetryDeadLetter, Process, ReadRunning, ReadDone, ReadFailed, ReadRecord, Fetch, PutOutput,
     DeleteInput, AppendAudit, Complete, Fail, Throw, Crash, Take, AddDeadLetter,
     DeadLetterRefused, ExpireInput, ExpireOutput, vars
<1>. QED
  BY <1>1, <1>2, <1>3

\* Only WriteDone writes done.
LEMMA NewDone ==
  ASSUME TypeOK, [Next]_vars, NEW j \in Job,
         record'[j].status = "done", record[j].status # "done"
  PROVE  \E w \in Worker : WriteDone(w) /\ run[w] = j
<1>1. record \in [Job -> Record] /\ seen \in [Worker -> Record] /\ run \in [Worker -> Job]
  BY DEF TypeOK
<1>2. ASSUME NEW w \in Worker, WriteRunning(w) \/ WriteFailed(w) PROVE FALSE
  <2>1. [seen[w] EXCEPT !.status = "running"].status # "done"
    BY <1>1 DEF Record
  <2>2. \E e : e.status # "done" /\ record' = [record EXCEPT ![run[w]] = e]
    BY <1>2, <2>1 DEF WriteRunning, WriteFailed, WriteRecord
  <2>. QED
    BY <1>1, <2>2
<1>3. ASSUME NEW k \in Job, ReserveSlot(k) \/ WriteRefused(k) PROVE FALSE
  <2>1. UNCHANGED record \/ \E e : e.status # "done" /\ record' = [record EXCEPT ![k] = e]
    BY <1>3 DEF ReserveSlot, WriteRefused
  <2>. QED
    BY <1>1, <2>1
<1>4. ASSUME NEW w \in Worker, WriteDone(w) PROVE run[w] = j
  <2>1. \E e : record' = [record EXCEPT ![run[w]] = e]
    BY <1>4 DEF WriteDone, WriteRecord
  <2>. QED
    BY <1>1, <2>1
<1>5. \/ UNCHANGED record
      \/ \E k \in Job : ReserveSlot(k) \/ WriteRefused(k)
      \/ \E w \in Worker : WriteRunning(w) \/ WriteDone(w) \/ WriteFailed(w)
  BY DEF Next, Request, HeadInput, Enqueue, ReadRefused, EnqueueFails, ApiCrash, Promote, Stalled,
     RetryDeadLetter, Process, ReadRunning, ReadDone, ReadFailed, ReadRecord, Fetch, PutOutput,
     DeleteInput, AppendAudit, Complete, Fail, Throw, Crash, Take, AddDeadLetter,
     DeadLetterRefused, ExpireInput, ExpireOutput, vars
<1>. QED
  BY <1>2, <1>3, <1>4, <1>5

Finishing == {"delete", "audit", "complete"}

\* No attempt on j broke off after the record said done, no live worker lost its
\* lock.
Spared(j) == \A s \in {"delete", "audit", "complete", "lock"} : <<s, j>> \notin history

\* A record that says done is either settled in the queue, or about to be.
DoneStays ==
  \A j \in Job : record[j].status = "done" /\ Spared(j) =>
    \/ queue[j].state = "completed"
    \/ \E w \in Worker : run[w] = j /\ pc[w] \in Finishing

DoneInv == OwnInv /\ DoneStays

\* What is completed stays so.
LEMMA CompletedStays ==
  ASSUME OwnInv, [Next]_vars, NEW j \in Job, queue[j].state = "completed"
  PROVE  queue'[j].state = "completed"
<1>1. api[j] = "created"
  BY DEF OwnInv, Created
<1>2. ASSUME NEW w \in Worker, queue[j].lock = w PROVE FALSE
  BY <1>2 DEF OwnInv, Held
<1>3. ASSUME queue'[j] # queue[j] PROVE FALSE
  <2>1. \/ \E w \in Worker : Take(w, j)
        \/ Enqueue(j) \/ Promote(j) \/ Stalled(j)
    BY <1>2, <1>3, QueueMove
  <2>. QED
    BY <1>1, <2>1 DEF Take, Enqueue, Promote, Stalled
<1>. QED
  BY <1>3

\* An attempt that breaks off late leaves a mark.
LEMMA BreaksOff ==
  ASSUME [Next]_vars, NEW w \in Worker, pc[w] \in Late, Throw(w) \/ Crash(w)
  PROVE  <<pc[w], run[w]>> \in history'
BY DEF Throw, Crash, Recall, BrokenOff

\* A worker leaves the end of a job by completing it, or with a mark.
LEMMA FinishingStays ==
  ASSUME OwnInv, [Next]_vars, NEW j \in Job, Spared(j)',
         NEW w \in Worker, run[w] = j, pc[w] \in Finishing
  PROVE  \/ run'[w] = j /\ pc'[w] \in Finishing
         \/ queue'[j].state = "completed"
<1>0. /\ pc[w] \in {"delete", "audit", "complete"} /\ TypeOK
      /\ \A k \in Job : ~Take(w, k)
  BY DEF Finishing, OwnInv, Take
<1>1. CASE Throw(w) \/ Crash(w)
  BY <1>0, <1>1, BreaksOff DEF Late, Spared
<1>2. CASE Process(w) /\ ~Complete(w)
  <2>1. DeleteInput(w) \/ AppendAudit(w)
    BY <1>0, <1>2 DEF Process, ReadRunning, ReadDone, ReadFailed, ReadRecord, WriteRunning,
       WriteDone, WriteFailed, WriteRecord, Fetch, PutOutput, Fail
  <2>. QED
    BY <1>0, <2>1, LockParts DEF DeleteInput, AppendAudit, Goto, Finishing
<1>3. CASE Complete(w)
  <2>1. <<"lock", j>> \notin history
    BY HistoryGrows DEF Spared
  <2>2. queue[run[w]].lock = w
    BY <1>0, <2>1, OnlyRunner
  <2>. QED
    BY <1>0, <1>3, <2>2, SettleMove DEF Fail
<1>4. CASE ~Process(w) /\ ~Throw(w) /\ ~Crash(w)
  BY <1>0, <1>4, WorkerStays
<1>. QED
  BY <1>1, <1>2, <1>3, <1>4

LEMMA StepDoneInv == DoneInv /\ [Next]_vars => DoneInv'
<1>. SUFFICES ASSUME DoneInv, [Next]_vars PROVE DoneInv'
  OBVIOUS
<1>1. OwnInv /\ OwnInv' /\ TypeOK
  BY StepOwnInv DEF DoneInv, OwnInv
<1>. SUFFICES ASSUME NEW j \in Job, record'[j].status = "done", Spared(j)'
              PROVE  \/ queue'[j].state = "completed"
                     \/ \E w \in Worker : run'[w] = j /\ pc'[w] \in Finishing
  BY <1>1 DEF DoneInv, DoneStays
<1>2. Spared(j)
  BY HistoryGrows DEF Spared
<1>3. CASE record[j].status # "done"
  <2>1. PICK w \in Worker : WriteDone(w) /\ run[w] = j
    BY <1>1, <1>3, NewDone
  <2>2. run'[w] = j /\ pc'[w] = "delete"
    BY <1>1, <2>1, LockParts DEF WriteDone, WriteRecord, Goto
  <2>. QED
    BY <2>2 DEF Finishing
<1>4. CASE record[j].status = "done"
  <2>1. CASE queue[j].state = "completed"
    BY <1>1, <2>1, CompletedStays
  <2>2. ASSUME NEW w \in Worker, run[w] = j, pc[w] \in Finishing
        PROVE  \/ queue'[j].state = "completed"
               \/ run'[w] = j /\ pc'[w] \in Finishing
    BY <1>1, <2>2, FinishingStays
  <2>. QED
    BY <1>2, <1>4, <2>1, <2>2 DEF DoneInv, DoneStays
<1>. QED
  BY <1>3, <1>4

\* Done is not overwritten.
LEMMA DoneKept ==
  ASSUME DoneInv, [Next]_vars, NEW j \in Job, record[j].status = "done", Spared(j)
  PROVE  record'[j].status = "done"
<1>1. OwnInv /\ TypeOK /\ <<"lock", j>> \notin history
  BY DEF DoneInv, OwnInv, Spared
<1>2. queue[j].state = "completed" \/ \E w \in Worker : run[w] = j /\ pc[w] \in Finishing
  BY DEF DoneInv, DoneStays
<1>3. queue[j].state \in {"completed", "active"} /\ api[j] = "created"
  <2>1. ASSUME NEW w \in Worker, run[w] = j, pc[w] \in Finishing PROVE queue[j].state = "active"
    BY <1>1, <2>1, OnlyRunner DEF Finishing
  <2>2. queue[j].state \in {"completed", "active"}
    BY <1>2, <2>1
  <2>. QED
    BY <1>1, <2>2 DEF OwnInv, Created
<1>4. ASSUME NEW w \in Worker, run[w] = j, WriteRunning(w) \/ WriteDone(w) \/ WriteFailed(w)
      PROVE  FALSE
  <2>1. pc[w] \in {"writeRunning", "writeDone", "writeFailed"}
    BY <1>4 DEF WriteRunning, WriteDone, WriteFailed, WriteRecord
  <2>2. queue[j].state = "active" /\ \A v \in Worker : pc[v] # "idle" /\ run[v] = j => v = w
    BY <1>1, <1>4, <2>1, OnlyRunner
  <2>3. PICK v \in Worker : run[v] = j /\ pc[v] \in Finishing
    BY <1>2, <2>2
  <2>. QED
    BY <2>1, <2>2, <2>3 DEF Finishing
<1>. QED
  BY <1>1, <1>3, <1>4, RecordWriter

\* A job that is done stays done, across every retry, throw, death and
\* redelivery, unless an attempt broke off at or after the deletion of the input,
\* or a live worker lost the lock of the job: the marks of history that
\* DoneIsFinal names are all there is.
THEOREM PipelineDoneIsFinal == Spec => DoneIsFinal
<1>1. Init => DoneInv
  BY InitOwnInv DEF DoneInv, DoneStays, Init
<1>2. DoneInv /\ [Next]_vars =>
        [\A j \in Job : record[j].status = "done" /\ record'[j].status # "done" =>
           \E s \in {"delete", "audit", "complete", "lock"} : <<s, j>> \in history]_vars
  BY DoneKept DEF Spared
<1>. QED
  BY <1>1, <1>2, StepDoneInv, PTL DEF Spec, DoneIsFinal
-----------------------------------------------------------------------------
(* The audit of deletions.                                                 *)

LEMMA StepDeletionsAudited ==
  ASSUME TypeOK, TypeOK', DeletionsAudited, [Next]_vars
  PROVE  DeletionsAudited'
<1>1. /\ input \in [Input -> {"stored", "deleted", "expired"}]
      /\ \A w \in Worker : run[w] \in Job /\ InputOf[run[w]] \in Input
  <2>1. InputOf \in [Job -> Input]
    BY PipelineAssumption
  <2>. QED
    BY <2>1 DEF TypeOK
<1>2. audit \subseteq audit'
  BY DEF Next, Request, HeadInput, ReserveSlot, Enqueue, ReadRefused, WriteRefused, EnqueueFails,
     ApiCrash, Promote, Stalled, RetryDeadLetter, Process, ReadRunning, ReadDone, ReadFailed,
     ReadRecord, WriteRunning, WriteDone, WriteFailed, WriteRecord, Fetch, PutOutput, DeleteInput,
     AppendAudit, Complete, Fail, Throw, Crash, Take, AddDeadLetter, DeadLetterRefused,
     ExpireInput, ExpireOutput, vars
<1>3. ASSUME NEW w \in Worker, pc[w] = "audit"
      PROVE  \/ run'[w] = run[w] /\ pc'[w] = "audit"
             \/ InputOf[run[w]] \in audit'
             \/ <<"audit", run[w]>> \in history'
  <2>1. \A k \in Job : ~Take(w, k)
    BY <1>3 DEF Take
  <2>2. CASE Process(w)
    <3>1. AppendAudit(w)
      BY <1>3, <2>2 DEF Process, ReadRunning, ReadDone, ReadFailed, ReadRecord, WriteRunning,
         WriteDone, WriteFailed, WriteRecord, Fetch, PutOutput, DeleteInput, Complete, Fail
    <3>. QED
      BY <3>1 DEF AppendAudit
  <2>3. CASE Throw(w) \/ Crash(w)
    BY <1>3, <2>3, BreaksOff DEF Late
  <2>. QED
    BY <1>3, <2>1, <2>2, <2>3, WorkerStays
<1>4. ASSUME NEW i \in Input, input[i] # "deleted", input'[i] = "deleted"
      PROVE  \E w \in Worker : pc'[w] = "audit" /\ InputOf[run'[w]] = i
  <2>1. PICK w \in Worker : DeleteInput(w)
    <3>1. \/ UNCHANGED input
          \/ \E k \in Input : ExpireInput(k)
          \/ \E w \in Worker : DeleteInput(w)
      BY DEF Next, Request, HeadInput, ReserveSlot, Enqueue, ReadRefused, WriteRefused,
         EnqueueFails, ApiCrash, Promote, Stalled, RetryDeadLetter, Process, ReadRunning, ReadDone,
         ReadFailed, ReadRecord, WriteRunning, WriteDone, WriteFailed, WriteRecord, Fetch,
         PutOutput, AppendAudit, Complete, Fail, Throw, Crash, Take, AddDeadLetter,
         DeadLetterRefused, ExpireOutput, vars
    <3>2. ~\E k \in Input : ExpireInput(k)
      BY <1>1, <1>4 DEF ExpireInput
    <3>. QED
      BY <1>4, <3>1, <3>2
  <2>2. InputOf[run[w]] = i /\ pc'[w] = "audit" /\ UNCHANGED run
    BY <1>1, <1>4, <2>1, LockParts DEF DeleteInput, Goto
  <2>. QED
    BY <2>2
<1>5. ASSUME NEW i \in Input, input[i] = "deleted"
      PROVE  \/ i \in audit'
             \/ \E w \in Worker : pc'[w] = "audit" /\ InputOf[run'[w]] = i
             \/ \E j \in Job : InputOf[j] = i /\ <<"audit", j>> \in history'
  <2>1. CASE i \in audit
    BY <1>2, <2>1
  <2>2. ASSUME NEW w \in Worker, pc[w] = "audit", InputOf[run[w]] = i
        PROVE  \/ i \in audit'
               \/ pc'[w] = "audit" /\ InputOf[run'[w]] = i
               \/ \E j \in Job : InputOf[j] = i /\ <<"audit", j>> \in history'
    BY <1>1, <1>3, <2>2
  <2>3. ASSUME NEW j \in Job, InputOf[j] = i, <<"audit", j>> \in history
        PROVE  <<"audit", j>> \in history'
    BY <2>3, HistoryGrows
  <2>. QED
    BY <1>5, <2>1, <2>2, <2>3 DEF DeletionsAudited
<1>. QED
  BY <1>4, <1>5 DEF DeletionsAudited

\* No deletion of an input goes unaudited, whatever fails and however jobs share
\* inputs, unless the attempt that deleted it broke off before its audit: a
\* worker that dies there, or an audit that throws, is all that loses one.
THEOREM PipelineDeletionsAudited == Spec => []DeletionsAudited
<1>1. Init => DeletionsAudited
  BY DEF Init, DeletionsAudited
<1>. QED
  BY <1>1, InitTypeOK, StepTypeOK, StepDeletionsAudited, PTL DEF Spec
-----------------------------------------------------------------------------
(* Outputs and the records that offer them.                                *)

Publishing == {"readDone", "writeDone"}

\* No attempt on j broke off after the PUT of its output, no live worker lost its
\* lock.
Intact(j) == \A s \in Late \cup {"lock"} : <<s, j>> \notin history

\* An output belongs to a job whose record says done, or to one whose worker is
\* about to say so.
OutputsPublished ==
  \A j \in Job : output[j] # "absent" /\ Intact(j) =>
    \/ record[j].status = "done"
    \/ \E w \in Worker : run[w] = j /\ pc[w] \in Publishing

OfferedInv == DoneInv /\ OutputsPublished

\* Only PutOutput writes an output object.
LEMMA OutputWriter ==
  ASSUME TypeOK, [Next]_vars, ~\E w \in Worker : PutOutput(w), NEW j \in Job,
         output'[j] # "absent"
  PROVE  output[j] # "absent"
<1>1. DOMAIN output = Job
  BY DEF TypeOK
<1>2. ASSUME NEW k \in Job, ExpireOutput(k) PROVE output[j] # "absent"
  BY <1>1, <1>2 DEF ExpireOutput
<1>3. UNCHANGED output \/ \E k \in Job : ExpireOutput(k)
  BY DEF Next, Request, HeadInput, ReserveSlot, Enqueue, ReadRefused, WriteRefused, EnqueueFails,
     ApiCrash, Promote, Stalled, RetryDeadLetter, Process, ReadRunning, ReadDone, ReadFailed,
     ReadRecord, WriteRunning, WriteDone, WriteFailed, WriteRecord, Fetch, DeleteInput,
     AppendAudit, Complete, Fail, Throw, Crash, Take, AddDeadLetter, DeadLetterRefused,
     ExpireInput, vars
<1>. QED
  BY <1>2, <1>3

\* A worker about to say done says it, or leaves a mark.
LEMMA PublishingStays ==
  ASSUME TypeOK, [Next]_vars, NEW j \in Job, Intact(j)',
         NEW w \in Worker, run[w] = j, pc[w] \in Publishing
  PROVE  \/ run'[w] = j /\ pc'[w] \in Publishing
         \/ record'[j].status = "done"
<1>1. pc[w] \in {"readDone", "writeDone"} /\ \A k \in Job : ~Take(w, k)
  BY DEF Publishing, Take
<1>2. CASE Throw(w) \/ Crash(w)
  <2>1. <<pc[w], j>> \in history' /\ pc[w] \in Late
    BY <1>1, <1>2, BreaksOff DEF Late
  <2>. QED
    BY <2>1 DEF Intact
<1>3. CASE Process(w)
  <2>1. ReadDone(w) \/ WriteDone(w)
    BY <1>1, <1>3 DEF Process, ReadRunning, ReadFailed, ReadRecord, WriteRunning,
       WriteFailed, WriteRecord, Fetch, PutOutput, DeleteInput, AppendAudit, Complete, Fail
  <2>2. CASE ReadDone(w)
    BY <2>2, LockParts DEF ReadDone, ReadRecord, Goto, Publishing
  <2>3. CASE WriteDone(w)
    <3>1. record' = [record EXCEPT ![j] = [seen[w] EXCEPT !.status = "done"]]
      BY <2>3 DEF WriteDone, WriteRecord
    <3>2. DOMAIN record = Job /\ seen[w] \in [status : Status, code : Code]
      BY DEF TypeOK, Record
    <3>3. [seen[w] EXCEPT !.status = "done"].status = "done"
      BY <3>2
    <3>. QED
      BY <3>1, <3>2, <3>3
  <2>. QED
    BY <2>1, <2>2, <2>3
<1>. QED
  BY <1>1, <1>2, <1>3, WorkerStays

LEMMA StepOfferedInv == OfferedInv /\ [Next]_vars => OfferedInv'
<1>. SUFFICES ASSUME OfferedInv, [Next]_vars PROVE OfferedInv'
  OBVIOUS
<1>1. DoneInv /\ DoneInv' /\ TypeOK
  BY StepDoneInv DEF OfferedInv, DoneInv, OwnInv
<1>. SUFFICES ASSUME NEW j \in Job, output'[j] # "absent", Intact(j)'
              PROVE  \/ record'[j].status = "done"
                     \/ \E w \in Worker : run'[w] = j /\ pc'[w] \in Publishing
  BY <1>1 DEF OfferedInv, OutputsPublished
<1>2. Intact(j) /\ Spared(j)
  BY HistoryGrows DEF Intact, Spared, Late
<1>3. CASE output[j] # "absent"
  <2>1. CASE record[j].status = "done"
    BY <1>1, <1>2, <2>1, DoneKept
  <2>2. ASSUME NEW w \in Worker, run[w] = j, pc[w] \in Publishing
        PROVE  record'[j].status = "done" \/ (run'[w] = j /\ pc'[w] \in Publishing)
    BY <1>1, <2>2, PublishingStays
  <2>. QED
    BY <1>2, <1>3, <2>1, <2>2 DEF OfferedInv, OutputsPublished
<1>4. CASE output[j] = "absent"
  <2>1. PICK w \in Worker : PutOutput(w)
    BY <1>1, <1>4, OutputWriter
  <2>2. run'[w] = j /\ pc'[w] = "readDone"
    BY <1>1, <1>4, <2>1, LockParts DEF PutOutput, TypeOK, Goto
  <2>. QED
    BY <2>2 DEF Publishing
<1>. QED
  BY <1>3, <1>4

\* Once the queue is finished with a job whose output is stored, its record says
\* done and GET /api/jobs/:id offers it, unless an attempt on it broke off
\* between the PUT of the output and the end of the processor, or a live worker
\* lost its lock: what breaks OutputIsOffered in the run jobs_regress is all that
\* can.
THEOREM PipelineOutputIsOffered ==
  Spec => [](\A j \in Job : Settled(j) /\ output[j] = "stored" =>
               \/ record[j].status = "done"
               \/ \E s \in Late \cup {"lock"} : <<s, j>> \in history)
<1>. DEFINE Offered == \A j \in Job : Settled(j) /\ output[j] = "stored" =>
                          \/ record[j].status = "done"
                          \/ \E s \in Late \cup {"lock"} : <<s, j>> \in history
<1>1. Init => OfferedInv
  BY InitOwnInv DEF OfferedInv, DoneInv, DoneStays, OutputsPublished, Init
<1>2. OfferedInv => Offered
  BY DEF OfferedInv, OutputsPublished, Settled, Busy, Publishing, Intact
<1>. QED
  BY <1>1, <1>2, StepOfferedInv, PTL DEF Spec
-----------------------------------------------------------------------------
(* Dead letters, and what a retry of one does.                             *)

\* How a job leaves the dead letters, and the way there.
LEMMA DoomedLost ==
  ASSUME TypeOK, [Next]_vars, NEW j \in Job, Doomed(j), ~Doomed(j)'
  PROVE  <<"retry", j>> \in history' \/ <<"deadLetter", j>> \in history'
<1>1. ASSUME NEW w \in Worker, NEW k \in Job, AddDeadLetter(w, k) PROVE FALSE
  BY <1>1, LockParts DEF AddDeadLetter, Doomed
<1>2. ASSUME NEW w \in Worker, NEW k \in Job, DeadLetterRefused(w, k)
      PROVE  <<"deadLetter", j>> \in history'
  <2>1. k = j
    BY <1>2, LockParts DEF DeadLetterRefused, Doomed
  <2>. QED
    BY <1>2, <2>1 DEF DeadLetterRefused, Recall
<1>3. ASSUME NEW w \in Worker, Crash(w) PROVE <<"deadLetter", j>> \in history'
  <2>1. j \in adding[w]
    BY <1>3, LockParts DEF Crash, Doomed
  <2>. QED
    BY <1>3, <2>1 DEF Crash, Recall
<1>4. ASSUME NEW k \in Job, RetryDeadLetter(k) PROVE <<"retry", j>> \in history'
  <2>1. k = j
    BY <1>4 DEF RetryDeadLetter, Doomed
  <2>. QED
    BY <1>4, <2>1 DEF RetryDeadLetter, Recall
<1>5. ASSUME NEW w \in Worker, NEW k \in Job, GiveUp(w, k), UNCHANGED dead PROVE FALSE
  BY <1>5, LockParts DEF GiveUp, Doomed
<1>6. ASSUME UNCHANGED <<adding, dead>> PROVE FALSE
  BY <1>6 DEF Doomed
<1>7. ASSUME NEW w \in Worker, Process(w) \/ Throw(w)
      PROVE  UNCHANGED dead /\ (UNCHANGED adding \/ GiveUp(w, run[w]))
  BY <1>7 DEF Process, ReadRunning, ReadDone, ReadFailed, ReadRecord, WriteRunning, WriteDone,
     WriteFailed, WriteRecord, Fetch, PutOutput, DeleteInput, AppendAudit, Complete, Fail, Throw
<1>8. ASSUME NEW w \in Worker, NEW k \in Job, Take(w, k)
      PROVE  UNCHANGED dead /\ (UNCHANGED adding \/ GiveUp(w, k))
  BY <1>8 DEF Take
<1>9. ASSUME \/ \E k \in Job : \/ Request(k) \/ EnqueueFails(k) \/ ApiCrash(k)
                               \/ Promote(k) \/ Stalled(k)
             \/ \E i \in Input : ExpireInput(i)
             \/ \E k \in Job : ExpireOutput(k)
             \/ UNCHANGED vars
      PROVE  UNCHANGED <<adding, dead>>
  BY <1>9 DEF Request, HeadInput, ReserveSlot, Enqueue, ReadRefused, WriteRefused, EnqueueFails,
     ApiCrash, Promote, Stalled, ExpireInput, ExpireOutput, vars
<1>10. \A w \in Worker : run[w] \in Job
  BY LockParts
<1>. QED
  BY <1>1, <1>2, <1>3, <1>4, <1>5, <1>6, <1>7, <1>8, <1>9, <1>10 DEF Next

\* A job whose attempts are used up when it is given up is added to the dead letters.
LEMMA GivenUp ==
  ASSUME TypeOK, NEW w \in Worker, NEW j \in Job, GiveUp(w, j), queue'[j].made >= MaxAttempts
  PROVE  Doomed(j)'
<1>1. queue[j].made \in Nat /\ MaxAttempts \in Nat
  BY LockParts, PipelineAssumption
<1>2. queue'[j].made = queue[j].made + 1
  BY LockParts DEF GiveUp, Entry
<1>3. j \in adding'[w]
  BY <1>1, <1>2, LockParts DEF GiveUp
<1>. QED
  BY <1>3 DEF Doomed

Accounted ==
  \A j \in Job : queue[j].state = "failed" /\ queue[j].made >= MaxAttempts =>
    Doomed(j) \/ <<"retry", j>> \in history \/ <<"deadLetter", j>> \in history

LEMMA StepAccounted ==
  ASSUME OwnInv, Accounted, [Next]_vars
  PROVE  Accounted'
<1>1. TypeOK
  BY DEF OwnInv
<1>. SUFFICES ASSUME NEW j \in Job, queue'[j].state = "failed", queue'[j].made >= MaxAttempts
              PROVE  \/ Doomed(j)'
                     \/ <<"retry", j>> \in history' \/ <<"deadLetter", j>> \in history'
  BY DEF Accounted
<1>2. CASE queue'[j] = queue[j]
  BY <1>1, <1>2, HistoryGrows, DoomedLost DEF Accounted
<1>3. CASE queue'[j] # queue[j]
  <2>1. ASSUME NEW w \in Worker, Take(w, j) PROVE Doomed(j)'
    BY <1>1, <2>1, TakeMove, GivenUp
  <2>2. ASSUME NEW w \in Worker, run[w] = j, queue[j].lock = w, Complete(w) \/ Fail(w)
        PROVE  Doomed(j)'
    BY <1>1, <2>2, SettleMove, GivenUp
  <2>3. ~(Enqueue(j) \/ Promote(j) \/ Stalled(j))
    BY <1>1, WaitMove
  <2>. QED
    BY <1>3, <2>1, <2>2, <2>3, QueueMove
<1>. QED
  BY <1>2, <1>3

\* A job that fails with its attempts used up, whoever gave it up and whatever
\* struck before, is in the dead-letter queue or on its way there, unless an
\* admin retried it or its dead letter was lost: refused by the queue, or dropped
\* by the death of the worker that was adding it.
THEOREM PipelineExhaustedIsDead ==
  Spec => [](\A j \in Job : queue[j].state = "failed" /\ queue[j].made >= MaxAttempts =>
               Doomed(j) \/ <<"retry", j>> \in history \/ <<"deadLetter", j>> \in history)
<1>1. Init => Accounted
  BY DEF Init, Accounted, Entry
<1>2. OwnInv /\ Accounted /\ [Next]_vars => Accounted'
  BY StepAccounted
<1>. QED
  BY <1>1, <1>2, OwnInvHolds, PTL DEF Accounted, Spec

\* POST /api/admin/dlq/:jobId/retry never runs a job again: the failed job is
\* still in its queue, BullMQ ignores the add, and the dead letter is gone.  It
\* takes no unlucky order to break the promise of RetryRequeues: every retry
\* breaks it, whatever the attempts, the workers and their faults.
THEOREM PipelineRetryIsLost ==
  Spec => [][\A j \in Job : j \in dead /\ j \notin dead' =>
               queue' = queue /\ queue'[j].state = "failed"]_vars
<1>1. ASSUME OwnInv, Next, NEW j \in Job, j \in dead, j \notin dead'
      PROVE  queue' = queue /\ queue'[j].state = "failed"
  <2>1. queue[j].state = "failed"
    BY <1>1 DEF OwnInv, Buried, Doomed
  <2>2. RetryDeadLetter(j)
    <3>1. dead' = dead \/ (\E w \in Worker, k \in Job : dead' = dead \cup {k})
          \/ \E k \in Job : RetryDeadLetter(k)
      BY <1>1 DEF Next, Request, HeadInput, ReserveSlot, Enqueue, ReadRefused, WriteRefused,
         EnqueueFails, ApiCrash, Promote, Stalled, Process, ReadRunning, ReadDone, ReadFailed,
         ReadRecord, WriteRunning, WriteDone, WriteFailed, WriteRecord, Fetch, PutOutput,
         DeleteInput, AppendAudit, Complete, Fail, Throw, Crash, Take, AddDeadLetter,
         DeadLetterRefused, ExpireInput, ExpireOutput
    <3>. QED
      BY <1>1, <3>1 DEF RetryDeadLetter
  <2>. QED
    BY <2>1, <2>2 DEF RetryDeadLetter
<1>2. OwnInv /\ [Next]_vars =>
        [\A j \in Job : j \in dead /\ j \notin dead' =>
           queue' = queue /\ queue'[j].state = "failed"]_vars
  BY <1>1
<1>. QED
  BY <1>2, OwnInvHolds, PTL DEF Spec
-----------------------------------------------------------------------------
(* The record and the queue.  A worker that died makes BullMQ deliver its  *)
(* job again, at most MaxStalls times: beyond that the queue gives the job *)
(* up, and no worker is left to tell the record.                           *)

Unlocked == \A j \in Job : <<"lock", j>> \notin history

\* Each stall, and each active job without its worker, is owed to a worker that
\* died.
Counted ==
  \A j \in Job :
    /\ queue[j].stalls <= budget["crash"]
    /\ queue[j].state = "active" /\ ~Alive(j) => queue[j].stalls + 1 <= budget["crash"]

LockInv == OwnInv /\ (budget["pause"] = 0 => Unlocked /\ Counted)

\* Trouble is never taken back.
LEMMA BudgetGrows ==
  ASSUME TypeOK, [Next]_vars, NEW t \in Trouble
  PROVE  budget[t] \in Nat /\ budget'[t] \in Nat /\ budget[t] <= budget'[t]
<1>1. budget \in [Trouble -> Nat]
  BY DEF TypeOK
<1>2. budget' = budget \/ \E u \in Trouble : Strike(u)
  BY DEF Next, Request, HeadInput, ReserveSlot, Enqueue, ReadRefused, WriteRefused, EnqueueFails,
     ApiCrash, Promote, Stalled, RetryDeadLetter, Process, ReadRunning, ReadDone, ReadFailed,
     ReadRecord, WriteRunning, WriteDone, WriteFailed, WriteRecord, Fetch, PutOutput, DeleteInput,
     AppendAudit, Complete, Fail, Throw, Crash, Take, AddDeadLetter, DeadLetterRefused,
     ExpireInput, ExpireOutput, vars, Trouble
<1>. QED
  BY <1>1, <1>2 DEF Strike

\* Only the expiry of a lock under a live worker leaves its mark.
LEMMA LockMark ==
  ASSUME [Next]_vars, NEW j \in Job, <<"lock", j>> \in history', <<"lock", j>> \notin history
  PROVE  Stalled(j) /\ Alive(j)
<1>1. ASSUME NEW w \in Worker, Throw(w) \/ Crash(w) PROVE FALSE
  <2>1. history' \subseteq history \cup BrokenOff(w) \cup {"deadLetter"} \X adding[w]
    BY <1>1 DEF Throw, Crash, Recall
  <2>2. \A m \in BrokenOff(w) : m[1] \in Late
    BY DEF BrokenOff
  <2>3. "lock" \notin Late
    BY DEF Late
  <2>. QED
    BY <2>1, <2>2, <2>3
<1>2. ASSUME NEW w \in Worker, NEW k \in Job, DeadLetterRefused(w, k) PROVE FALSE
  BY <1>2 DEF DeadLetterRefused, Recall
<1>3. ASSUME NEW k \in Job, RetryDeadLetter(k) PROVE FALSE
  BY <1>3 DEF RetryDeadLetter, Recall
<1>4. ASSUME NEW k \in Job, Stalled(k) PROVE Stalled(j) /\ Alive(j)
  <2>1. Alive(k) /\ history' = history \cup {<<"lock", k>>}
    BY <1>4 DEF Stalled, Recall
  <2>2. j = k
    BY <2>1
  <2>. QED
    BY <1>4, <2>1, <2>2
<1>5. ASSUME \/ \E k \in Job : Request(k) \/ EnqueueFails(k) \/ ApiCrash(k) \/ Promote(k)
             \/ \E w \in Worker : Process(w)
             \/ \E w \in Worker, k \in Job : Take(w, k) \/ AddDeadLetter(w, k)
             \/ \E i \in Input : ExpireInput(i)
             \/ \E k \in Job : ExpireOutput(k)
             \/ UNCHANGED vars
      PROVE  UNCHANGED history
  BY <1>5 DEF Request, HeadInput, ReserveSlot, Enqueue, ReadRefused, WriteRefused, EnqueueFails,
     ApiCrash, Promote, Process, ReadRunning, ReadDone, ReadFailed, ReadRecord, WriteRunning,
     WriteDone, WriteFailed, WriteRecord, Fetch, PutOutput, DeleteInput, AppendAudit, Complete,
     Fail, Take, AddDeadLetter, ExpireInput, ExpireOutput, vars
<1>. QED
  BY <1>1, <1>2, <1>3, <1>4, <1>5 DEF Next

LEMMA StepCounted ==
  ASSUME OwnInv, Counted, Unlocked', [Next]_vars
  PROVE  Counted'
<1>1. /\ TypeOK
      /\ budget["crash"] \in Nat /\ budget'["crash"] \in Nat
      /\ budget["crash"] <= budget'["crash"]
  BY BudgetGrows DEF OwnInv, Trouble
<1>. SUFFICES ASSUME NEW j \in Job
              PROVE  /\ queue'[j].stalls <= budget'["crash"]
                     /\ queue'[j].state = "active" /\ ~Alive(j)' =>
                          queue'[j].stalls + 1 <= budget'["crash"]
  BY DEF Counted
<1>2. queue[j].stalls \in Nat /\ queue[j].stalls <= budget["crash"]
  BY <1>1, LockParts DEF Counted
<1>3. CASE queue'[j] # queue[j]
  <2>1. ASSUME NEW w \in Worker, Take(w, j)
        PROVE  queue'[j].stalls <= budget["crash"] /\ (queue'[j].state = "active" => Alive(j)')
    BY <1>1, <1>2, <2>1, TakeMove DEF Alive
  <2>2. ASSUME NEW w \in Worker, run[w] = j, queue[j].lock = w, Complete(w) \/ Fail(w)
        PROVE  queue'[j].stalls <= budget["crash"] /\ queue'[j].state # "active"
    BY <1>1, <1>2, <2>2, SettleMove
  <2>3. ASSUME Enqueue(j) \/ Promote(j) \/ Stalled(j)
        PROVE  queue'[j].stalls <= budget["crash"] /\ queue'[j].state # "active"
    <3>1. ASSUME Stalled(j) PROVE queue[j].stalls + 1 <= budget["crash"]
      <4>1. ~Alive(j)
        BY <3>1 DEF Stalled, Recall, Unlocked
      <4>. QED
        BY <3>1, <4>1 DEF Stalled, Counted
    <3>. QED
      BY <1>1, <1>2, <2>3, <3>1, WaitMove
  <2>4. queue'[j].stalls <= budget["crash"] /\ (queue'[j].state = "active" => Alive(j)')
    BY <1>3, <2>1, <2>2, <2>3, QueueMove
  <2>5. queue'[j].stalls \in Nat
    BY StepTypeOK, LockParts DEF OwnInv, TypeOK, QueueEntry
  <2>. QED
    BY <1>1, <2>4, <2>5
<1>4. CASE queue'[j] = queue[j]
  <2>. SUFFICES ASSUME queue[j].state = "active", ~Alive(j)'
                PROVE  queue[j].stalls + 1 <= budget'["crash"]
    BY <1>1, <1>2, <1>4
  <2>1. CASE ~Alive(j)
    BY <1>1, <1>2, <2>1 DEF Counted
  <2>2. CASE Alive(j)
    <3>1. PICK w \in Worker : queue[j].lock = w /\ run[w] = j /\ pc[w] # "idle"
      BY <2>2 DEF Alive
    <3>2. ~(run'[w] = j /\ pc'[w] # "idle")
      BY <1>4, <3>1 DEF Alive
    <3>3. ~Complete(w) /\ ~Fail(w)
      <4>1. w # NoWorker
        BY PipelineAssumption
      <4>. QED
        BY <1>1, <1>4, <3>1, <4>1, SettleMove
    <3>4. Crash(w)
      <4>1. \A k \in Job : ~Take(w, k)
        BY <3>1 DEF Take
      <4>. QED
        BY <1>1, <3>1, <3>2, <3>3, <4>1, WorkerStays, BusyStep
    <3>5. budget'["crash"] = budget["crash"] + 1
      BY <1>1, <3>4, LockParts DEF Crash, Strike, Trouble
    <3>. QED
      BY <1>1, <1>2, <3>5
  <2>. QED
    BY <2>1, <2>2
<1>. QED
  BY <1>3, <1>4

LEMMA StepLockInv == LockInv /\ [Next]_vars => LockInv'
<1>. SUFFICES ASSUME LockInv, [Next]_vars PROVE LockInv'
  OBVIOUS
<1>1. OwnInv /\ OwnInv' /\ TypeOK
  BY StepOwnInv DEF LockInv, OwnInv
<1>. SUFFICES ASSUME budget'["pause"] = 0 PROVE Unlocked' /\ Counted'
  BY <1>1 DEF LockInv
<1>2. budget["pause"] = 0
  <2>1. /\ budget["pause"] \in Nat /\ budget'["pause"] \in Nat
        /\ budget["pause"] <= budget'["pause"]
    BY <1>1, BudgetGrows DEF Trouble
  <2>. QED
    BY <2>1
<1>3. Unlocked'
  <2>1. ASSUME NEW j \in Job, <<"lock", j>> \in history' PROVE FALSE
    <3>1. Stalled(j) /\ Alive(j)
      BY <1>2, <2>1, LockMark DEF LockInv, Unlocked
    <3>2. budget'["pause"] = budget["pause"] + 1
      BY <1>1, <3>1, LockParts DEF Stalled, Strike, Trouble
    <3>. QED
      BY <1>2, <3>2
  <2>. QED
    BY <2>1 DEF Unlocked
<1>. QED
  BY <1>1, <1>2, <1>3, StepCounted DEF LockInv

LEMMA InitLockInv == Init => LockInv
<1>1. ASSUME Init PROVE Unlocked /\ Counted
  BY <1>1 DEF Init, Unlocked, Counted, Entry, Trouble
<1>. QED
  BY <1>1, InitOwnInv DEF LockInv

Calm == budget["pause"] = 0 /\ budget["crash"] <= MaxStalls

\* At the end of the processor the record says what the queue will be told,
\* and goes on saying so.
Told ==
  /\ \A w \in Worker :
       /\ pc[w] \in Finishing => record[run[w]].status = "done"
       /\ pc[w] = "fail" => record[run[w]].status = "failed"
  /\ \A j \in Job :
       /\ queue[j].state = "completed" => record[j].status = "done"
       /\ queue[j].state = "failed" => record[j].status = "failed"

ToldInv == LockInv /\ (Calm => Told)

LEMMA WasCalm ==
  ASSUME LockInv, [Next]_vars, Calm'
  PROVE  Calm /\ Unlocked /\ Counted /\ OwnInv /\ TypeOK
<1>1. OwnInv /\ TypeOK
  BY DEF LockInv, OwnInv
<1>2. /\ budget["crash"] \in Nat /\ budget'["crash"] \in Nat /\ budget["crash"] <= budget'["crash"]
      /\ budget["pause"] \in Nat /\ budget'["pause"] \in Nat /\ budget["pause"] <= budget'["pause"]
  BY <1>1, BudgetGrows DEF Trouble
<1>3. Calm
  BY <1>2, PipelineAssumption DEF Calm
<1>. QED
  BY <1>1, <1>3 DEF LockInv, Calm

\* The queue settles a job only on its worker's word.
LEMMA SettledByWorker ==
  ASSUME OwnInv, Counted, Calm, [Next]_vars, NEW j \in Job,
         queue'[j].state \in {"completed", "failed"}, queue'[j] # queue[j]
  PROVE  \E w \in Worker : /\ run[w] = j
                           /\ \/ Complete(w) /\ queue'[j].state = "completed"
                              \/ Fail(w) /\ queue'[j].state = "failed"
<1>1. TypeOK
  BY DEF OwnInv
<1>2. ASSUME NEW w \in Worker, Take(w, j) PROVE FALSE
  <2>1. ~(queue[j].stalls > MaxStalls)
    BY <1>1, LockParts, PipelineAssumption DEF Calm, Counted, Trouble
  <2>. QED
    BY <1>1, <1>2, <2>1, TakeMove
<1>3. ASSUME NEW w \in Worker, run[w] = j, queue[j].lock = w, Complete(w) \/ Fail(w)
      PROVE  \/ Complete(w) /\ queue'[j].state = "completed"
             \/ Fail(w) /\ queue'[j].state = "failed"
  BY <1>1, <1>3, SettleMove
<1>4. ~(Enqueue(j) \/ Promote(j) \/ Stalled(j))
  BY <1>1, WaitMove
<1>. QED
  BY <1>2, <1>3, <1>4, QueueMove

\* How a worker comes to the end of the processor.
LEMMA HowItEnds ==
  ASSUME Faulty \subseteq TryBlock, TypeOK, [Next]_vars, NEW w \in Worker,
         pc'[w] \in Finishing \cup {"fail"}
  PROVE  /\ run'[w] = run[w]
         /\ \/ pc[w] \in Finishing /\ pc'[w] \in Finishing
            \/ pc[w] = "fail" /\ pc'[w] = "fail"
            \/ WriteDone(w) /\ pc'[w] = "delete"
            \/ WriteFailed(w) /\ pc'[w] = "fail"
<1>. DEFINE Result == /\ run'[w] = run[w]
                      /\ \/ pc[w] \in Finishing /\ pc'[w] \in Finishing
                         \/ pc[w] = "fail" /\ pc'[w] = "fail"
                         \/ WriteDone(w) /\ pc'[w] = "delete"
                         \/ WriteFailed(w) /\ pc'[w] = "fail"
<1>0. pc'[w] \in {"delete", "audit", "complete", "fail"}
  BY DEF Finishing
<1>1. ASSUME NEW k \in Job, Take(w, k) PROVE Result
  BY <1>0, <1>1, TakeMove
<1>2. ~Throw(w) /\ ~Crash(w)
  <2>1. "writeRunning" \notin Faulty
    BY DEF TryBlock
  <2>. QED
    BY <1>0, <2>1, LockParts DEF Throw, Crash, Goto
<1>3. CASE Process(w)
  <2>1. UNCHANGED run
    BY <1>3, BusyStep
  <2>2. ASSUME NEW l, pc' = [pc EXCEPT ![w] = l] PROVE pc'[w] = l
    BY <2>2, LockParts
  <2>3. CASE WriteDone(w) \/ WriteFailed(w)
    BY <2>1, <2>2, <2>3 DEF WriteDone, WriteFailed, WriteRecord, Goto
  <2>4. CASE DeleteInput(w) \/ AppendAudit(w)
    BY <2>1, <2>2, <2>4 DEF DeleteInput, AppendAudit, Goto, Finishing
  <2>5. CASE ReadRunning(w) \/ ReadDone(w) \/ ReadFailed(w) \/ WriteRunning(w)
    BY <1>0, <2>2, <2>5 DEF ReadRunning, ReadDone, ReadFailed, ReadRecord, WriteRunning,
       WriteRecord, Goto
  <2>6. CASE Fetch(w) \/ PutOutput(w) \/ Complete(w) \/ Fail(w)
    BY <1>0, <2>2, <2>6 DEF Fetch, PutOutput, Complete, Fail, Goto
  <2>. QED
    BY <1>3, <2>3, <2>4, <2>5, <2>6 DEF Process
<1>4. CASE ~Process(w) /\ \A k \in Job : ~Take(w, k)
  <2>1. run'[w] = run[w] /\ pc'[w] = pc[w]
    BY <1>2, <1>4, WorkerStays
  <2>. QED
    BY <2>1 DEF Finishing
<1>. QED
  BY <1>1, <1>3, <1>4
LEMMA StepToldInv ==
  ASSUME Faulty \subseteq TryBlock, ToldInv, [Next]_vars
  PROVE  ToldInv'
<1>1. LockInv /\ LockInv'
  BY StepLockInv DEF ToldInv
<1>. SUFFICES ASSUME Calm' PROVE Told'
  BY <1>1 DEF ToldInv
<1>2. Calm /\ Unlocked /\ Counted /\ OwnInv /\ TypeOK /\ Told
  BY <1>1, WasCalm DEF ToldInv
<1>3. \A w \in Worker : run[w] \in Job
  BY <1>2, LockParts
<1>4. /\ record \in [Job -> Record] /\ seen \in [Worker -> Record]
  BY <1>2 DEF TypeOK
\* The record of a job whose worker is not writing it stays.
<1>5. ASSUME NEW j \in Job, api[j] = "created",
             \A w \in Worker : run[w] = j => pc[w] \notin {"writeRunning", "writeDone", "writeFailed"}
      PROVE  record'[j] = record[j]
  <2>. SUFFICES ASSUME record'[j] # record[j] PROVE FALSE
    OBVIOUS
  <2>1. PICK w \in Worker : run[w] = j /\ (WriteRunning(w) \/ WriteDone(w) \/ WriteFailed(w))
    BY <1>2, <1>5, RecordWriter
  <2>2. pc[w] \in {"writeRunning", "writeDone", "writeFailed"}
    BY <2>1 DEF WriteRunning, WriteDone, WriteFailed, WriteRecord
  <2>. QED
    BY <1>5, <2>1, <2>2
<1>6. ASSUME NEW w \in Worker, pc[w] \in Finishing \cup {"fail"}
      PROVE  record'[run[w]] = record[run[w]]
  <2>1. pc[w] \in {"delete", "audit", "complete", "fail"}
    BY <1>6 DEF Finishing
  <2>2. /\ api[run[w]] = "created"
        /\ \A v \in Worker : pc[v] # "idle" /\ run[v] = run[w] => v = w
    BY <1>2, <1>3, <2>1, OnlyRunner DEF Unlocked
  <2>. QED
    BY <1>3, <1>5, <2>1, <2>2
<1>7. ASSUME NEW w \in Worker
      PROVE  /\ pc'[w] \in Finishing => record'[run'[w]].status = "done"
             /\ pc'[w] = "fail" => record'[run'[w]].status = "failed"
  <2>1. CASE pc'[w] \notin Finishing \cup {"fail"}
    BY <2>1
  <2>2. CASE pc[w] \in Finishing /\ pc'[w] \in Finishing /\ run'[w] = run[w]
    BY <1>2, <1>6, <2>2 DEF Told, Finishing
  <2>3. CASE pc[w] = "fail" /\ pc'[w] = "fail" /\ run'[w] = run[w]
    BY <1>2, <1>6, <2>3 DEF Told, Finishing
  <2>4. CASE WriteDone(w) /\ pc'[w] = "delete" /\ run'[w] = run[w]
    <3>1. record'[run[w]] = [seen[w] EXCEPT !.status = "done"] /\ seen[w] \in Record
      BY <1>3, <1>4, <2>4 DEF WriteDone, WriteRecord
    <3>. QED
      BY <2>4, <3>1 DEF Record
  <2>5. CASE WriteFailed(w) /\ pc'[w] = "fail" /\ run'[w] = run[w]
    <3>1. record'[run[w]].status = "failed"
      BY <1>3, <1>4, <2>5 DEF WriteFailed, WriteRecord
    <3>. QED
      BY <2>5, <3>1 DEF Finishing
  <2>. QED
    BY <1>2, <2>1, <2>2, <2>3, <2>4, <2>5, HowItEnds
<1>8. ASSUME NEW j \in Job
      PROVE  /\ queue'[j].state = "completed" => record'[j].status = "done"
             /\ queue'[j].state = "failed" => record'[j].status = "failed"
  <2>1. CASE queue'[j].state \notin {"completed", "failed"}
    BY <2>1
  <2>2. CASE queue[j].state \in {"completed", "failed"} /\ queue'[j] = queue[j]
    <3>1. api[j] = "created"
      BY <1>2, <2>2 DEF OwnInv, Created
    <3>2. \A w \in Worker : run[w] = j => pc[w] = "idle"
      BY <1>2, <2>2 DEF OwnInv, Owned, Unlocked
    <3>3. record'[j] = record[j]
      BY <1>5, <3>1, <3>2
    <3>. QED
      BY <1>2, <2>2, <3>3 DEF Told
  <2>3. CASE \E w \in Worker : run[w] = j /\ Complete(w) /\ queue'[j].state = "completed"
    <3>1. PICK w \in Worker : run[w] = j /\ Complete(w) /\ queue'[j].state = "completed"
      BY <2>3
    <3>2. pc[w] \in Finishing /\ UNCHANGED record
      BY <3>1 DEF Complete, Finishing
    <3>. QED
      BY <1>2, <3>1, <3>2 DEF Told
  <2>4. CASE \E w \in Worker : run[w] = j /\ Fail(w) /\ queue'[j].state = "failed"
    <3>1. PICK w \in Worker : run[w] = j /\ Fail(w) /\ queue'[j].state = "failed"
      BY <2>4
    <3>2. pc[w] = "fail" /\ UNCHANGED record
      BY <3>1 DEF Fail
    <3>. QED
      BY <1>2, <3>1, <3>2 DEF Told
  <2>. QED
    BY <1>2, <2>1, <2>2, <2>3, <2>4, SettledByWorker
<1>. QED
  BY <1>7, <1>8 DEF Told

\* Whatever throws inside the try block, however often, and even if workers
\* die, as long as none loses its lock alive and no more die than BullMQ forgives
\* a job: the queue and the record agree on how each job ended.
THEOREM PipelineRecordMatchesQueue ==
  ASSUME Faulty \subseteq TryBlock
  PROVE  Spec => [](Calm => RecordMatchesQueue)
<1>1. Init => ToldInv
  <2>1. Init => Told
    BY DEF Init, Told, Entry, Finishing
  <2>. QED
    BY <2>1, InitLockInv DEF ToldInv
<1>2. ToldInv /\ [Next]_vars => ToldInv'
  BY StepToldInv
<1>3. ToldInv => (Calm => RecordMatchesQueue)
  BY DEF ToldInv, Told, RecordMatchesQueue, Settled
<1>. QED
  BY <1>1, <1>2, <1>3, PTL DEF Spec
=============================================================================
