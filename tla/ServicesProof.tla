---------------------------- MODULE ServicesProof ----------------------------
(***************************************************************************)
(* What billing and the two shutdowns promise, for every value of their    *)
(* constants: a payment is recorded after it was granted, the worker       *)
(* settles what it took, and the API fails nobody who waits.               *)
(***************************************************************************)
EXTENDS MCServices, FiniteSetTheorems, WellFoundedInduction, TLAPS

(***************************************************************************)
(* The worker.                                                             *)
(***************************************************************************)

\* What makes WorkerDrained inductive: past the close of the workers, which
\* nothing reopens, no job is in hand; and a record says running only while an
\* attempt is.
DrainInv ==
  /\ job \in [Job -> {"waiting", "active", "settling", "completed", "failed"}]
  /\ record \in [Job -> {"queued", "running", "done", "failed"}]
  /\ faults \in Nat
  /\ workerPc \in {"repo", "quit"} => "workers" \in shut
  /\ ~Alive /\ ~forced => "workers" \in shut
  /\ "repo" \in shut => "workers" \in shut
  /\ "workers" \in shut => ~Busy
  /\ faults = 0 => \A j \in Job : record[j] = "running" => job[j] = "active"

LEMMA DrainStep == DrainInv /\ [WorkerNext]_workerVars => DrainInv'
<1>. SUFFICES ASSUME DrainInv, [WorkerNext]_workerVars PROVE DrainInv'
  OBVIOUS
<1>. USE DEF DrainInv, Alive, Busy
<1>1. ASSUME NEW j \in Job, TakeJob(j) PROVE DrainInv'
  BY <1>1 DEF TakeJob, TakesJobs, Begun, beatVars
<1>2. ASSUME NEW j \in Job, WriteRecord(j) PROVE DrainInv'
  <2>1. job' = [job EXCEPT ![j] = "settling"] /\ job[j] = "active"
        /\ UNCHANGED <<workerPc, shut, forced>>
    BY <1>2 DEF WriteRecord
  <2>2. RepoOpen
    BY <2>1 DEF RepoOpen, Begun
  <2>3. CASE \E status \in {"done", "failed"} :
               record' = [record EXCEPT ![j] = status] /\ faults' = faults
    BY <2>1, <2>3
  <2>4. CASE faults' = faults + 1 /\ record' = record
    BY <2>1, <2>4
  <2>. QED
    BY <1>2, <2>2, <2>3, <2>4 DEF WriteRecord
<1>3. ASSUME NEW j \in Job, SettleJob(j) PROVE DrainInv'
  <2>1. /\ UNCHANGED <<record, workerPc, shut, forced, faults>> /\ job[j] = "settling"
        /\ \E s \in {"waiting", "completed", "failed"} : job' = [job EXCEPT ![j] = s]
    BY <1>3 DEF SettleJob
  <2>. QED
    BY <2>1
<1>4. ASSUME NEW j \in Job, AddDeadLetter(j) PROVE DrainInv'
  BY <1>4 DEF AddDeadLetter
<1>5. ASSUME NEW code \in {0, 1}, Shutdown(code) PROVE DrainInv'
  BY <1>5 DEF Shutdown, After, queueVars
<1>6. CASE Closed
  BY <1>6 DEF Closed, After, queueVars
<1>7. CASE CloseFails
  BY <1>7 DEF CloseFails, queueVars
<1>8. CASE Beat
  BY <1>8 DEF Beat, queueVars
<1>9. CASE BeatWritten
  BY <1>9 DEF BeatWritten, queueVars
<1>10. CASE TickWorker
  BY <1>10 DEF TickWorker, queueVars
<1>11. CASE UNCHANGED workerVars
  BY <1>11 DEF workerVars, queueVars
<1>. QED
  BY <1>1, <1>2, <1>3, <1>4, <1>5, <1>6, <1>7, <1>8, <1>9, <1>10, <1>11 DEF WorkerNext, Work

LEMMA DrainInit == WorkerInit => DrainInv
BY DEF WorkerInit, DrainInv, Alive, Busy

LEMMA DrainImplies == DrainInv => WorkerDrained
BY DEF DrainInv, WorkerDrained, Busy

\* What makes HeartbeatHolds inductive.  While the worker runs, a write under
\* way was sent when its timer was set, so the two ages add up to the interval;
\* and the key outlives the beat that is next, and its write, by what is left of
\* a time to live of two intervals.
Due == IF beating = None THEN nextBeat ELSE 0 - beating

BeatInv ==
  /\ faults \in Nat
  /\ workerPc = "running" =>
       /\ \E k \in Nat : nextBeat = TickMs * k
       /\ beating = None \/ beating \in 0..IntervalMs - 1
       /\ beating # None => beating + nextBeat = IntervalMs
       /\ nextBeat \in 0..IntervalMs
       /\ boot /\ faults = 0 => keyLeft \in Nat /\ keyLeft >= HeartbeatTtlMs - IntervalMs + Due

LEMMA TtlBound == HeartbeatTtlMs \in Nat /\ HeartbeatTtlMs >= 2 * IntervalMs
<1>1. IntervalMs \in Nat
  BY WorkerAssumption
<1>2. (2 * IntervalMs + 999) \div 1000 \in Nat
      /\ 1000 * ((2 * IntervalMs + 999) \div 1000) >= 2 * IntervalMs
  BY <1>1
<1>. QED
  BY <1>1, <1>2 DEF HeartbeatTtlMs

\* A timer that counts down by ticks comes to zero at a tick.
LEMMA TickDown ==
  ASSUME NEW n \in Nat, n > 0, NEW k \in Nat, n = TickMs * k
  PROVE  n >= TickMs /\ \E m \in Nat : n - TickMs = TickMs * m
<1>1. TickMs \in Nat \ {0}
  BY WorkerAssumption
<1>2. k >= 1
  BY <1>1
<1>3. k - 1 \in Nat /\ TickMs * k = TickMs * (k - 1) + TickMs /\ TickMs * (k - 1) \in Nat
  BY <1>1, <1>2
<1>. QED
  BY <1>1, <1>3

LEMMA WholeInterval == \E k \in Nat : IntervalMs = TickMs * k
<1>1. IntervalMs \in Nat /\ TickMs \in Nat \ {0} /\ IntervalMs % TickMs = 0
  BY WorkerAssumption
<1>2. IntervalMs = TickMs * (IntervalMs \div TickMs) /\ IntervalMs \div TickMs \in Nat
  BY <1>1
<1>. QED
  BY <1>2

LEMMA BeatInit == WorkerInit => BeatInv
BY WholeInterval, WorkerAssumption DEF WorkerInit, BeatInv, None

LEMMA BeatStep ==
  ASSUME DelayMs + TickMs <= IntervalMs, BeatInv, [WorkerNext]_workerVars
  PROVE  BeatInv'
<1>0. /\ IntervalMs \in Nat \ {0} /\ TickMs \in Nat \ {0} /\ DelayMs \in Nat
      /\ HeartbeatTtlMs \in Nat /\ HeartbeatTtlMs >= 2 * IntervalMs /\ None = -1
      /\ faults \in Nat
  BY WorkerAssumption, TtlBound DEF BeatInv, None
<1>1. CASE UNCHANGED beatVars /\ (faults' = faults \/ faults' = faults + 1)
           /\ (workerPc' = "running" => workerPc = "running")
  <2>1. UNCHANGED <<nextBeat, beating, keyLeft, boot, HeartbeatTtlMs, Due>>
    BY <1>1 DEF beatVars, HeartbeatTtlMs, Due
  <2>2. faults' \in Nat /\ (faults' = 0 => faults = 0)
    BY <1>0, <1>1
  <2>. QED
    BY <1>1, <2>1, <2>2 DEF BeatInv
<1>2. CASE Beat
  <2>1. /\ workerPc = "running" /\ nextBeat = 0 /\ beating = None
        /\ nextBeat' = IntervalMs /\ beating' = 0
        /\ UNCHANGED <<workerPc, keyLeft, boot, faults>>
    BY <1>2 DEF Beat
  <2>2. boot /\ faults = 0 => keyLeft \in Nat /\ keyLeft >= HeartbeatTtlMs - IntervalMs
    BY <1>0, <2>1 DEF BeatInv, Due
  <2>. QED
    BY <1>0, <2>1, <2>2, WholeInterval DEF BeatInv, Due, HeartbeatTtlMs
<1>3. CASE BeatWritten
  <2>1. /\ beating # None /\ beating' = None /\ UNCHANGED <<workerPc, nextBeat>>
        /\ \/ keyLeft' = HeartbeatTtlMs /\ faults' = faults
           \/ faults' = faults + 1
    BY <1>3 DEF BeatWritten
  <2>. QED
    BY <1>0, <2>1 DEF BeatInv, Due, HeartbeatTtlMs
<1>4. CASE TickWorker
  <2>1. /\ beating # None => beating < DelayMs
        /\ nextBeat' = IF nextBeat < TickMs THEN 0 ELSE nextBeat - TickMs
        /\ beating' = IF beating = None THEN None ELSE beating + TickMs
        /\ keyLeft' = IF keyLeft < TickMs THEN 0 ELSE keyLeft - TickMs
        /\ UNCHANGED <<workerPc, boot, faults>>
    BY <1>4 DEF TickWorker
  <2>. SUFFICES ASSUME workerPc = "running" PROVE BeatInv'
    BY <1>0, <2>1 DEF BeatInv
  <2>2. /\ nextBeat \in 0..IntervalMs /\ nextBeat > 0
        /\ beating # None => beating \in 0..IntervalMs - 1 /\ beating + nextBeat = IntervalMs
    BY <1>4 DEF BeatInv, TickWorker
  <2>3. nextBeat >= TickMs /\ nextBeat' = nextBeat - TickMs
        /\ \E m \in Nat : nextBeat' = TickMs * m
    <3>1. PICK k \in Nat : nextBeat = TickMs * k
      BY DEF BeatInv
    <3>. QED
      BY <1>0, <2>1, <2>2, <3>1, TickDown
  <2>4. beating' = None \/ beating' \in 0..IntervalMs - 1
    BY <1>0, <2>1, <2>2
  <2>5. beating' # None => beating' + nextBeat' = IntervalMs
    BY <1>0, <2>1, <2>2, <2>3
  <2>6. ASSUME boot, faults = 0
        PROVE  keyLeft' \in Nat /\ keyLeft' >= HeartbeatTtlMs - IntervalMs + Due'
    <3>1. keyLeft \in Nat /\ keyLeft >= HeartbeatTtlMs - IntervalMs + Due
      BY <2>6 DEF BeatInv
    <3>2. CASE beating = None
      BY <1>0, <2>1, <2>2, <2>3, <3>1, <3>2 DEF Due
    <3>3. CASE beating # None
      BY <1>0, <2>1, <2>2, <2>3, <3>1, <3>3 DEF Due
    <3>. QED
      BY <3>2, <3>3
  <2>7. HeartbeatTtlMs' = HeartbeatTtlMs
    BY DEF HeartbeatTtlMs
  <2>8. nextBeat' \in 0..IntervalMs
    BY <1>0, <2>2, <2>3
  <2>9. boot' /\ faults' = 0 => keyLeft' \in Nat /\ keyLeft' >= HeartbeatTtlMs' - IntervalMs + Due'
    BY <2>1, <2>6, <2>7
  <2>10. faults' \in Nat
    BY <1>0, <2>1
  <2>. QED
    BY <2>3, <2>4, <2>5, <2>8, <2>9, <2>10 DEF BeatInv
<1>5. ASSUME NEW j \in Job, TakeJob(j) \/ Work(j) PROVE BeatInv'
  BY <1>1, <1>5 DEF Work, TakeJob, WriteRecord, SettleJob, AddDeadLetter
<1>6. ASSUME NEW code \in {0, 1}, Shutdown(code) PROVE BeatInv'
  BY <1>1, <1>6 DEF Shutdown
<1>7. CASE Closed
  BY <1>1, <1>7 DEF Closed, After
<1>8. CASE CloseFails
  BY <1>1, <1>8 DEF CloseFails
<1>9. CASE UNCHANGED workerVars
  BY <1>1, <1>9 DEF workerVars
<1>. QED
  BY <1>2, <1>3, <1>4, <1>5, <1>6, <1>7, <1>8, <1>9 DEF WorkerNext

LEMMA BeatImplies == BeatInv => HeartbeatHolds
<1>1. IntervalMs \in Nat \ {0} /\ HeartbeatTtlMs \in Nat /\ HeartbeatTtlMs >= 2 * IntervalMs
  BY WorkerAssumption, TtlBound
<1>2. ASSUME BeatInv, workerPc = "running", boot, faults = 0 PROVE keyLeft > 0
  <2>1. /\ keyLeft \in Nat /\ keyLeft >= HeartbeatTtlMs - IntervalMs + Due
        /\ nextBeat \in 0..IntervalMs
        /\ beating = None \/ beating \in 0..IntervalMs - 1
    BY <1>2 DEF BeatInv
  <2>. QED
    BY <1>1, <2>1 DEF Due
<1>. QED
  BY <1>2 DEF HeartbeatHolds

(***************************************************************************)
(* The API.                                                                *)
(***************************************************************************)

\* What makes WaitingIsServed inductive: dependencies are open until the last
\* connection is gone, and none comes after that.
ServedInv ==
  /\ visit \in [Visit -> {"new", "handled", "deserted", "answered", "unheard", "broken",
                          "broken unseen"}]
  /\ \A v \in Visit : visit[v] # "broken"
  /\ apiPc \in {"serving", "closing server"} => \A d \in Dependency : dependency[d] = "open"
  /\ apiPc \notin {"serving", "closing server"} => \A v \in Visit : visit[v] # "handled"

LEMMA ServedStep == ServedInv /\ [ApiNext]_apiVars => ServedInv'
<1>. SUFFICES ASSUME ServedInv, [ApiNext]_apiVars PROVE ServedInv'
  OBVIOUS
<1>. USE DEF ServedInv
<1>1. ASSUME NEW v \in Visit, ArriveAtApi(v) PROVE ServedInv'
  BY <1>1 DEF ArriveAtApi
<1>2. ASSUME NEW v \in Visit, NEW d \in Dependency, UseDependency(v, d) PROVE ServedInv'
  BY <1>2 DEF UseDependency, Running
<1>3. ASSUME NEW v \in Visit, DependencyAnswers(v) PROVE ServedInv'
  BY <1>3 DEF DependencyAnswers
<1>4. ASSUME NEW v \in Visit, Respond(v) PROVE ServedInv'
  BY <1>4 DEF Respond
<1>5. ASSUME NEW v \in Visit, HangUp(v) PROVE ServedInv'
  BY <1>5 DEF HangUp
<1>6. CASE StopApi
  BY <1>6 DEF StopApi
<1>7. CASE ServerClosed
  BY <1>7 DEF ServerClosed, Connected
<1>8. CASE ExitApi
  BY <1>8 DEF ExitApi
<1>9. ASSUME NEW d \in Dependency, DependencyCloses(d) PROVE ServedInv'
  BY <1>9 DEF DependencyCloses
<1>10. CASE UNCHANGED apiVars
  BY <1>10 DEF apiVars
<1>. QED
  BY <1>1, <1>2, <1>3, <1>4, <1>5, <1>6, <1>7, <1>8, <1>9, <1>10 DEF ApiNext

LEMMA ServedInit == ApiInit => ServedInv
BY DEF ApiInit, ServedInv

LEMMA ServedImplies == ServedInv => WaitingIsServed
BY DEF ServedInv, WaitingIsServed

\* A step of the three components is a step of each, or leaves it alone.
LEMMA EachStep ==
  [ServicesNext]_serviceVars =>
    [WorkerNext]_workerVars /\ [ApiNext]_apiVars /\ [BillingNext]_billingVars
BY DEF ServicesNext, serviceVars

\* Both processes shut down in order, whenever the signal comes: a worker that
\* met no failure settles every job it took, and the API fails no client that
\* still waits (worker.ts:269, server.ts:608).
THEOREM ServicesDrainBeforeClosing == ServicesSpec => []DrainsBeforeClosing
<1>1. ServicesInit => DrainInv /\ ServedInv
  BY DrainInit, ServedInit DEF ServicesInit
<1>2. DrainInv /\ ServedInv /\ [ServicesNext]_serviceVars => (DrainInv /\ ServedInv)'
  BY EachStep, DrainStep, ServedStep
<1>3. DrainInv /\ ServedInv => DrainsBeforeClosing
  BY DrainImplies, ServedImplies DEF DrainsBeforeClosing
<1>. QED
  BY <1>1, <1>2, <1>3, PTL DEF ServicesSpec

\* A worker that runs keeps its heartbeat key, so that GET /ready does not report
\* that there are no workers, when a write of the heartbeat is over before the
\* next beat is due, to the tick of the clock: a time to live of two intervals is
\* then enough (worker.ts:19, worker.ts:211).
THEOREM ServicesHeartbeatHolds ==
  ASSUME DelayMs + TickMs <= IntervalMs
  PROVE  ServicesSpec => []HeartbeatHolds
<1>1. ServicesInit => BeatInv
  BY BeatInit DEF ServicesInit
<1>2. BeatInv /\ [ServicesNext]_serviceVars => BeatInv'
  BY EachStep, BeatStep
<1>. QED
  BY <1>1, <1>2, BeatImplies, PTL DEF ServicesSpec

(***************************************************************************)
(* Billing.                                                                *)
(***************************************************************************)

RequestFields == {"kind", "step", "session", "status", "plan", "stale", "left"}

\* Where a webhook is past the write of the profile, if it makes one.
Recording == {"append", "list"}

GrantedBy(r) == r.step \in Recording /\ r.status = "paid" => r.session \in applied

\* What makes RecordedMeansApplied inductive: a webhook comes to the event record
\* only when it has written the profile, unless its event is no payment.
GrantInv ==
  /\ DOMAIN request = Slot
  /\ \A i \in Slot : DOMAIN request[i] = RequestFields /\ GrantedBy(request[i])
  /\ RecordedMeansApplied

\* Where a request moves to, it keeps its event, or is over.
LEMMA MovedOn ==
  ASSUME NEW r, NEW step, DOMAIN r = RequestFields
  PROVE  /\ DOMAIN Moved(r, step) = RequestFields
         /\ Moved(r, step).step \in Recording =>
              /\ Moved(r, step).step = step /\ step \notin {"over", "next"}
              /\ Moved(r, step).session = r.session /\ Moved(r, step).status = r.status
<1>. USE DEF RequestFields, Recording
<1>1. DOMAIN Idle = RequestFields /\ Idle.step \notin Recording
  BY DEF Idle
<1>2. CASE step = "over"
  BY <1>1, <1>2 DEF Moved
<1>3. CASE step = "next"
  <2>1. Moved(r, step) \in {Idle, [r EXCEPT !.step = "read", !.left = r.left \ {First(r.left)}]}
    BY <1>3 DEF Moved
  <2>2. /\ DOMAIN [r EXCEPT !.step = "read", !.left = r.left \ {First(r.left)}] = RequestFields
        /\ [r EXCEPT !.step = "read", !.left = r.left \ {First(r.left)}].step = "read"
    OBVIOUS
  <2>. QED
    BY <1>1, <2>1, <2>2
<1>4. CASE step \notin {"over", "next"}
  <2>1. Moved(r, step) = [r EXCEPT !.step = step]
    BY <1>4 DEF Moved
  <2>. QED
    BY <1>4, <2>1
<1>. QED
  BY <1>2, <1>3, <1>4

\* A request that goes anywhere but to the event record disturbs nothing.
LEMMA GoneOn ==
  ASSUME GrantInv, NEW i \in Slot, NEW r, DOMAIN r = RequestFields, GrantedBy(r),
         request' = [request EXCEPT ![i] = r], UNCHANGED <<recorded, applied>>
  PROVE  GrantInv'
BY DEF GrantInv, GrantedBy, RecordedMeansApplied

LEMMA GrantStep == GrantInv /\ [BillingNext]_billingVars => GrantInv'
<1>. SUFFICES ASSUME GrantInv, [BillingNext]_billingVars PROVE GrantInv'
  OBVIOUS
<1>0. \A i \in Slot : DOMAIN request[i] = RequestFields /\ GrantedBy(request[i])
  BY DEF GrantInv
<1>1. ASSUME NEW i \in Slot, NEW kind, NEW step, NEW plan, NEW session, NEW status,
             Begin(i, kind, step, plan, session, status), step \notin Recording,
             UNCHANGED <<recorded, applied>>
      PROVE  GrantInv'
  <2>. DEFINE r == [Idle EXCEPT !.kind = kind, !.step = step, !.plan = plan,
                                !.session = session, !.status = status]
  <2>1. DOMAIN r = RequestFields /\ r.step = step
    BY DEF Idle, RequestFields
  <2>2. request' = [request EXCEPT ![i] = r]
    BY <1>1 DEF Begin
  <2>. HIDE DEF r
  <2>. QED
    BY <1>1, <2>1, <2>2, GoneOn DEF GrantedBy
<1>2. ASSUME NEW i \in Slot,
             AskCheckout(i) \/ AskCreate(i) \/ AskLogin(i) \/ AskChange(i) \/ AskReconcile(i)
      PROVE  GrantInv'
  <2>1. ASSUME NEW kind, NEW step, NEW plan, Ask(i, kind, step, plan), step \in {"read", "scan"}
        PROVE  GrantInv'
    BY <1>1, <2>1 DEF Ask, records, Recording
  <2>2. CASE AskCheckout(i)
    BY <2>1, <2>2 DEF AskCheckout
  <2>3. CASE AskCreate(i)
    BY <2>1, <2>3 DEF AskCreate
  <2>4. CASE AskLogin(i)
    BY <2>1, <2>4 DEF AskLogin
  <2>5. CASE AskChange(i)
    BY <2>1, <2>5 DEF AskChange
  <2>6. CASE AskReconcile(i)
    BY <2>1, <2>6 DEF AskReconcile
  <2>. QED
    BY <1>2, <2>2, <2>3, <2>4, <2>5, <2>6
<1>3. ASSUME NEW i \in Slot, NEW e \in Event, Deliver(i, e) PROVE GrantInv'
  BY <1>1, <1>3 DEF Deliver, records, Recording
<1>4. ASSUME NEW i \in Slot, NEW step, Go(i, step), UNCHANGED <<recorded, applied>>,
             step = "append" => request[i].status # "paid" \/ request[i].session \in applied,
             step = "list" => GrantedBy([request[i] EXCEPT !.step = "list"])
      PROVE  GrantInv'
  <2>1. request' = [request EXCEPT ![i] = Moved(request[i], step)]
    BY <1>4 DEF Go
  <2>2. DOMAIN Moved(request[i], step) = RequestFields
    BY <1>0, MovedOn
  <2>3. [request[i] EXCEPT !.step = "list"].step = "list"
        /\ [request[i] EXCEPT !.step = "list"].session = request[i].session
        /\ [request[i] EXCEPT !.step = "list"].status = request[i].status
    BY <1>0 DEF RequestFields
  <2>4. GrantedBy(Moved(request[i], step))
    BY <1>0, <1>4, <2>3, MovedOn DEF GrantedBy, Recording
  <2>. QED
    BY <1>4, <2>1, <2>2, <2>4, GoneOn
<1>5. ASSUME NEW i \in Slot, ReadProfile(i) PROVE GrantInv'
  <2>1. PICK plan : request' = [request EXCEPT ![i] =
          Moved([request[i] EXCEPT !.stale = FALSE, !.plan = plan], AfterRead(request[i]))]
    BY <1>5 DEF ReadProfile
  <2>. DEFINE r == [request[i] EXCEPT !.stale = FALSE, !.plan = plan]
  <2>2. DOMAIN r = RequestFields
    BY <1>0
  <2>3. AfterRead(request[i]) \notin Recording
    BY DEF AfterRead, Recording
  <2>. HIDE DEF r
  <2>4. /\ DOMAIN Moved(r, AfterRead(request[i])) = RequestFields
        /\ GrantedBy(Moved(r, AfterRead(request[i])))
    BY <2>2, <2>3, MovedOn DEF GrantedBy
  <2>5. request' = [request EXCEPT ![i] = Moved(r, AfterRead(request[i]))]
    BY <2>1 DEF r
  <2>. QED
    BY <1>5, <2>4, <2>5, GoneOn DEF ReadProfile, records
<1>6. ASSUME NEW i \in Slot, WriteProfile(i) PROVE GrantInv'
  <2>. DEFINE r == Moved(request[i], AfterWrite(request[i]))
  <2>1. /\ request' = [j \in Slot |->
             IF j = i THEN r
             ELSE IF request[j] = Idle THEN Idle ELSE [request[j] EXCEPT !.stale = TRUE]]
        /\ applied' = IF request[i].kind = "webhook" THEN applied \cup {request[i].session}
                      ELSE applied
        /\ recorded' = recorded
    BY <1>6 DEF WriteProfile, records
  <2>2. DOMAIN r = RequestFields
    BY <1>0, MovedOn
  <2>3. r.step \in Recording => r.session = request[i].session /\ request[i].kind = "webhook"
    <3>1. AfterWrite(request[i]) \in Recording => request[i].kind = "webhook"
      BY DEF AfterWrite, Recording
    <3>. QED
      BY <1>0, <3>1, MovedOn
  <2>. HIDE DEF r
  <2>4. ASSUME NEW j \in Slot
        PROVE  DOMAIN request'[j] = RequestFields /\ GrantedBy(request[j])'
    <3>1. CASE j = i
      BY <2>1, <2>2, <2>3, <3>1 DEF GrantedBy
    <3>2. CASE j # i /\ request[j] = Idle
      BY <1>0, <2>1, <3>2 DEF GrantedBy
    <3>3. CASE j # i /\ request[j] # Idle
      <4>1. request'[j] = [request[j] EXCEPT !.stale = TRUE]
        BY <2>1, <3>3
      <4>2. /\ DOMAIN request'[j] = RequestFields /\ request'[j].step = request[j].step
            /\ request'[j].session = request[j].session /\ request'[j].status = request[j].status
        BY <1>0, <4>1 DEF RequestFields
      <4>. QED
        BY <1>0, <2>1, <4>2 DEF GrantedBy
    <3>. QED
      BY <3>1, <3>2, <3>3
  <2>. QED
    BY <2>1, <2>4 DEF GrantInv, RecordedMeansApplied
<1>7. ASSUME NEW i \in Slot, CreateProviderSession(i) PROVE GrantInv'
  <2>1. PICK s \in Checkout : request' = [request EXCEPT ![i].step = "store", ![i].session = s]
    BY <1>7 DEF CreateProviderSession
  <2>. DEFINE r == [request[i] EXCEPT !.step = "store", !.session = s]
  <2>2. DOMAIN r = RequestFields /\ r.step = "store"
    BY <1>0 DEF RequestFields
  <2>3. request' = [request EXCEPT ![i] = r]
    BY <2>1
  <2>. HIDE DEF r
  <2>. QED
    BY <1>7, <2>2, <2>3, GoneOn DEF CreateProviderSession, records, GrantedBy, Recording
<1>8. ASSUME NEW i \in Slot, StoreCheckout(i) PROVE GrantInv'
  BY <1>4, <1>8 DEF StoreCheckout
<1>9. ASSUME NEW i \in Slot, LatestPaid(i) PROVE GrantInv'
  <2>1. CASE Go(i, "over")
    BY <1>4, <1>9, <2>1 DEF LatestPaid, records
  <2>2. CASE ~Go(i, "over")
    <3>0. PICK s \in LastPaid :
            request' = [request EXCEPT ![i].step = "write", ![i].plan = planOf[s]]
      BY <1>9, <2>2 DEF LatestPaid
    <3>1. PICK plan : request' = [request EXCEPT ![i].step = "write", ![i].plan = plan]
      BY <3>0
    <3>. DEFINE r == [request[i] EXCEPT !.step = "write", !.plan = plan]
    <3>2. DOMAIN r = RequestFields /\ r.step = "write"
      BY <1>0 DEF RequestFields
    <3>3. request' = [request EXCEPT ![i] = r]
      BY <3>1
    <3>. HIDE DEF r
    <3>. QED
      BY <1>9, <3>2, <3>3, GoneOn DEF LatestPaid, records, GrantedBy, Recording
  <2>. QED
    BY <2>1, <2>2
<1>10. ASSUME NEW i \in Slot, ScanCheckouts(i) PROVE GrantInv'
  <2>1. PICK left : request' = [request EXCEPT ![i] =
          IF left = {} THEN Idle ELSE [@ EXCEPT !.step = "read", !.left = left]]
    BY <1>10 DEF ScanCheckouts
  <2>. DEFINE r == IF left = {} THEN Idle
                   ELSE [request[i] EXCEPT !.step = "read", !.left = left]
  <2>2. DOMAIN r = RequestFields /\ r.step \in {"idle", "read"}
    BY <1>0 DEF RequestFields, Idle
  <2>3. request' = [request EXCEPT ![i] = r]
    BY <2>1
  <2>. HIDE DEF r
  <2>. QED
    BY <1>10, <2>2, <2>3, GoneOn DEF ScanCheckouts, records, GrantedBy, Recording
<1>11. ASSUME NEW i \in Slot, FindEvent(i) PROVE GrantInv'
  BY <1>4, <1>11 DEF FindEvent, AfterLookup, records
<1>12. ASSUME NEW i \in Slot, UpdateCheckout(i) PROVE GrantInv'
  BY <1>4, <1>12 DEF UpdateCheckout
<1>13. ASSUME NEW i \in Slot, AppendEvent(i) PROVE GrantInv'
  <2>. DEFINE e    == EventOf(request[i])
              step == IF e \in recorded THEN "over" ELSE "list"
              r    == Moved(request[i], step)
  <2>1. /\ request[i].step = "append" /\ recorded' = recorded \cup {e}
        /\ request' = [request EXCEPT ![i] = r] /\ applied' = applied
    BY <1>13 DEF AppendEvent, At, Go
  <2>2. request[i].status = "paid" => request[i].session \in applied
    BY <1>0, <2>1 DEF GrantedBy, Recording
  <2>3. e[2] = "paid" => e[1] \in applied
    BY <2>2 DEF EventOf
  <2>4. DOMAIN r = RequestFields /\ GrantedBy(r)
    BY <1>0, <2>2, MovedOn DEF GrantedBy
  <2>. HIDE DEF e, r
  <2>. QED
    BY <2>1, <2>3, <2>4 DEF GrantInv, GrantedBy, RecordedMeansApplied
<1>14. ASSUME NEW i \in Slot, ListEvent(i) PROVE GrantInv'
  BY <1>4, <1>14 DEF ListEvent, records
<1>15. ASSUME NEW i \in Slot, Die(i) PROVE GrantInv'
  BY <1>4, <1>15 DEF Die, records
<1>16. ASSUME UNCHANGED <<request, recorded, applied>> PROVE GrantInv'
  BY <1>16 DEF GrantInv, GrantedBy, RecordedMeansApplied
<1>17. ASSUME NEW s \in Checkout, Emit(s) \/ DropCheckout(s) PROVE GrantInv'
  BY <1>16, <1>17 DEF Emit, DropCheckout, records
<1>18. CASE UNCHANGED billingVars
  BY <1>16, <1>18 DEF billingVars
<1>. QED
  BY <1>2, <1>3, <1>5, <1>6, <1>7, <1>8, <1>9, <1>10, <1>11, <1>12, <1>13, <1>14, <1>15, <1>17,
     <1>18
     DEF BillingNext, Handle

LEMMA GrantInit == BillingInit => GrantInv
BY DEF BillingInit, GrantInv, GrantedBy, RecordedMeansApplied, Idle, RequestFields, Recording

\* A payment whose event is recorded, and so will never be applied again, has been
\* applied: no death between the steps of a webhook and no second delivery loses it
\* (billing.ts:213).
THEOREM BillingRecordedMeansApplied == BillingSpec => []RecordedMeansApplied
<1>2. GrantInv => RecordedMeansApplied
  BY DEF GrantInv
<1>. QED
  BY <1>2, GrantInit, GrantStep, PTL DEF BillingSpec

\* What billing keeps of a request: by its kind and step, what its plan, its
\* session and its list are good for.
Kind == {"idle", "checkout", "create", "login", "cancel", "reactivate", "reconcile", "webhook"}
Step == {"idle", "read", "write", "provider", "store", "latest", "scan", "event", "update",
         "append", "list"}

Request == [kind : Kind, step : Step, session : Checkout \cup {0},
            status : {"created", "paid", "canceled"}, plan : Profile, stale : BOOLEAN,
            left : SUBSET Checkout]

\* Sessions paid at the provider, and where a plan may come from.
PaidAt  == {s \in Checkout : <<s, "paid">> \in emitted}
Sources == {"none", "free"} \cup chosen \cup {planOf[s] : s \in PaidAt}

Placed(r) ==
  /\ r.step \in {"provider", "store"} => r.kind = "checkout"
  /\ r.step = "latest" => r.kind = "reactivate"
  /\ r.step = "scan" => r.kind = "reconcile"
  /\ r.step \in {"event", "update", "append", "list"} => r.kind = "webhook"
  /\ r.step \in {"read", "write"} => r.kind # "idle"

Sourced(r) ==
  /\ r.left \subseteq PaidAt
  /\ r.kind = "checkout" => r.plan \in Paid
  /\ r.step = "store" => r.session \in Checkout /\ planOf[r.session] \in Paid
  /\ r.kind = "create" => r.plan \in chosen
  /\ r.kind \in {"login", "reactivate"} => r.plan \in Sources
  /\ r.kind = "reactivate" /\ r.step = "write" => r.plan \in Paid
  /\ r.kind = "cancel" => excused
  /\ r.kind = "reconcile" /\ r.step \in {"read", "write"} => r.left # {}
  /\ r.kind = "webhook" => <<r.session, r.status>> \in emitted
  /\ r.kind = "webhook" /\ r.step \in {"read", "write"} => r.status = "paid"

\* What it read is what is stored, unless another request wrote since.
Fresh(r) ==
  r.step = "write" /\ ~r.stale =>
    /\ r.kind \in {"checkout", "create"} => profile = "none"
    /\ r.kind = "login" => r.plan = profile

RequestOK(r) == r \in Request /\ Placed(r) /\ Sourced(r) /\ Fresh(r)

\* A session that is recorded, offered or reported on is one of the provider's,
\* and a record says paid only when the provider did.
SessionOK(s) ==
  /\ Stored(s) \/ s \in offered \/ (\E e \in emitted : e[1] = s) => planOf[s] \in Paid
  /\ PaidRecord(s) => s \in PaidAt

PlanTypes ==
  /\ profile \in Profile
  /\ planOf \in [Checkout -> Paid \cup {"none"}]
  /\ checkout \in [Checkout -> {"none", "created", "paid", "canceled", "gone"}]
  /\ offered \subseteq Checkout /\ emitted \subseteq Event
  /\ chosen \subseteq Plan /\ applied \subseteq Checkout /\ excused \in BOOLEAN
  /\ DOMAIN request = Slot

PlanInv ==
  /\ PlanTypes
  /\ \A i \in Slot : RequestOK(request[i])
  /\ \A s \in Checkout : SessionOK(s)
  /\ profile \in Sources
  /\ applied # {} /\ ~excused => profile \in Paid

\* Among sessions there is a first.
LEMMA FirstIn ==
  ASSUME NEW S \in SUBSET Checkout, S # {}
  PROVE  First(S) \in S
<1>. DEFINE R == OpToRel(<, Nat)
<1>1. S \subseteq Nat
  BY BillingAssumption DEF Checkout
<1>2. IsWellFoundedOn(R, Nat)
  BY NatLessThanWellFounded
<1>0. \A x, y \in Nat : x < y => <<x, y>> \in R
  BY DEF OpToRel
<1>. HIDE DEF R
<1>3. PICK x \in S : \A y \in S : ~(<<y, x>> \in R)
  BY <1>1, <1>2, WFMin
<1>4. ASSUME NEW y \in S PROVE x <= y
  <2>1. x \in Nat /\ y \in Nat
    BY <1>1
  <2>2. ~(y < x)
    BY <1>0, <1>3, <2>1
  <2>. QED
    BY <2>1, <2>2
<1>. QED
  BY <1>4 DEF First

LEMMA IdleOK == RequestOK(Idle)
BY DEF RequestOK, Request, Placed, Sourced, Fresh, Idle, Kind, Step, Profile, Plan, Paid

\* What the provider has reported, and the plans that were chosen, only grow.
LEMMA SourcesGrow ==
  ASSUME PlanInv, emitted \subseteq emitted', chosen \subseteq chosen',
         \A s \in Checkout : planOf[s] \in Paid => planOf'[s] = planOf[s]
  PROVE  PaidAt \subseteq PaidAt' /\ Sources \subseteq Sources'
<1>1. PaidAt \subseteq PaidAt'
  BY DEF PaidAt
<1>2. ASSUME NEW s \in PaidAt PROVE planOf'[s] = planOf[s]
  <2>1. s \in Checkout /\ <<s, "paid">> \in emitted
    BY DEF PaidAt
  <2>2. planOf[s] \in Paid
    BY <2>1 DEF PlanInv, SessionOK
  <2>. QED
    BY <2>1, <2>2
<1>. QED
  BY <1>1, <1>2 DEF Sources

\* A request that does nothing is served as well after a step as before.
LEMMA RequestKept ==
  ASSUME PlanInv, NEW r, RequestOK(r),
         emitted \subseteq emitted', chosen \subseteq chosen',
         \A s \in Checkout : planOf[s] \in Paid => planOf'[s] = planOf[s],
         excused => excused', profile' = profile
  PROVE  RequestOK(r)'
<1>1. PaidAt \subseteq PaidAt' /\ Sources \subseteq Sources'
  BY SourcesGrow
<1>2. Sourced(r)'
  BY <1>1 DEF RequestOK, Sourced
<1>. QED
  BY <1>2 DEF RequestOK, Placed, Fresh

\* Request i is at r now, and no plan is written.
LEMMA OneMoved ==
  ASSUME PlanInv, NEW i \in Slot, NEW r, RequestOK(r)',
         request' = [request EXCEPT ![i] = r],
         emitted \subseteq emitted', chosen \subseteq chosen',
         \A s \in Checkout : planOf[s] \in Paid => planOf'[s] = planOf[s],
         excused => excused', profile' = profile
  PROVE  /\ DOMAIN request' = Slot
         /\ \A j \in Slot : RequestOK(request[j])'
<1>1. \A j \in Slot : request'[j] = IF j = i THEN r ELSE request[j]
  BY DEF PlanInv, PlanTypes
<1>2. ASSUME NEW j \in Slot, j # i PROVE RequestOK(request[j])'
  <2>1. RequestOK(request[j])
    BY DEF PlanInv
  <2>. DEFINE q == request[j]
  <2>2. request'[j] = q
    BY <1>1, <1>2
  <2>3. RequestOK(q)
    BY <2>1
  <2>. QED
    BY <2>2, <2>3, RequestKept DEF RequestOK, Placed, Sourced, Fresh
<1>3. RequestOK(request[i])'
  BY <1>1 DEF RequestOK, Placed, Sourced, Fresh
<1>. QED
  BY <1>2, <1>3 DEF PlanInv, PlanTypes

\* A step that changes no more than request i, the plans chosen and the excuse.
LEMMA OnlyRequest ==
  ASSUME PlanInv, NEW i \in Slot, NEW r, RequestOK(r)',
         request' = [request EXCEPT ![i] = r],
         UNCHANGED <<profile, planOf, checkout, offered, emitted, applied>>,
         chosen \subseteq chosen', chosen' \subseteq Plan,
         excused => excused', excused' \in BOOLEAN
  PROVE  PlanInv'
<1>1. DOMAIN request' = Slot /\ \A j \in Slot : RequestOK(request[j])'
  BY OneMoved
<1>2. PaidAt' = PaidAt /\ Sources \subseteq Sources'
  BY SourcesGrow DEF PaidAt
<1>3. \A s \in Checkout : SessionOK(s)'
  BY <1>2 DEF PlanInv, SessionOK, Stored, PaidRecord
<1>4. PlanTypes'
  BY <1>1 DEF PlanInv, PlanTypes
<1>5. profile' \in Sources' /\ (applied' # {} /\ ~excused' => profile' \in Paid)
  BY <1>2 DEF PlanInv
<1>. QED
  BY <1>1, <1>3, <1>4, <1>5 DEF PlanInv

\* The same for a request that only moves, with what it has.
LEMMA OnlyMoved ==
  ASSUME PlanInv, NEW i \in Slot, NEW r, RequestOK(r),
         request' = [request EXCEPT ![i] = r],
         UNCHANGED <<profile, planOf, checkout, offered, emitted, applied, chosen, excused>>
  PROVE  PlanInv'
<1>1. RequestOK(r)'
  BY RequestKept
<1>. QED
  BY <1>1, OnlyRequest DEF PlanInv, PlanTypes

LEMMA AskPlan ==
  ASSUME PlanInv, NEW i \in Slot,
         AskCheckout(i) \/ AskCreate(i) \/ AskLogin(i) \/ AskChange(i) \/ AskReconcile(i)
  PROVE  PlanInv'
<1>1. ASSUME NEW kind \in Kind, NEW step \in {"read", "scan"}, NEW plan \in Profile,
             Ask(i, kind, step, plan),
             kind \notin {"idle", "webhook"},
             kind = "reconcile" <=> step = "scan",
             kind = "checkout" => plan \in Paid,
             kind = "create" => plan \in chosen',
             kind \in {"login", "reactivate"} => plan = "none",
             chosen \subseteq chosen', chosen' \subseteq Plan
      PROVE  PlanInv'
  <2>1. /\ Begin(i, kind, step, plan, 0, "created")
        /\ UNCHANGED <<profile, planOf, checkout, offered, emitted, applied>>
        /\ excused' = (excused \/ kind = "cancel")
    BY <1>1 DEF Ask, records
  <2>. DEFINE r == [Idle EXCEPT !.kind = kind, !.step = step, !.plan = plan, !.session = 0,
                                !.status = "created"]
  <2>2. /\ request' = [request EXCEPT ![i] = r] /\ r \in Request
        /\ r.kind = kind /\ r.step = step /\ r.plan = plan /\ r.left = {}
    BY <2>1 DEF Begin, Idle, Request, Step
  <2>. HIDE DEF r
  <2>3. /\ excused => excused' /\ excused' \in BOOLEAN
        /\ kind = "cancel" => excused'
    BY <2>1 DEF PlanInv, PlanTypes
  <2>4. RequestOK(r)'
    <3>1. Placed(r) /\ Fresh(r)'
      BY <1>1, <2>2 DEF Placed, Fresh
    <3>2. Sourced(r)'
      BY <1>1, <2>2, <2>3 DEF Sourced, Sources
    <3>. QED
      BY <2>2, <3>1, <3>2 DEF RequestOK, Placed
  <2>. QED
    BY <1>1, <2>1, <2>2, <2>3, <2>4, OnlyRequest
<1>2. chosen \subseteq Plan
  BY DEF PlanInv, PlanTypes
<1>3. CASE AskCheckout(i)
  BY <1>1, <1>2, <1>3 DEF AskCheckout, Kind, Profile, Plan
<1>4. CASE AskCreate(i)
  BY <1>1, <1>2, <1>4 DEF AskCreate, Kind, Profile
<1>5. CASE AskLogin(i)
  BY <1>1, <1>2, <1>5 DEF AskLogin, Kind, Profile
<1>6. CASE AskChange(i)
  BY <1>1, <1>2, <1>6 DEF AskChange, Kind, Profile
<1>7. CASE AskReconcile(i)
  BY <1>1, <1>2, <1>7 DEF AskReconcile, Kind, Profile
<1>. QED
  BY <1>3, <1>4, <1>5, <1>6, <1>7

LEMMA DeliverPlan ==
  ASSUME PlanInv, NEW i \in Slot, NEW e \in Event, Deliver(i, e)
  PROVE  PlanInv'
<1>1. /\ Begin(i, "webhook", "event", "none", e[1], e[2]) /\ e \in emitted
      /\ UNCHANGED <<profile, planOf, checkout, offered, emitted, applied, chosen, excused>>
  BY DEF Deliver, records
<1>2. e[1] \in Checkout /\ e[2] \in {"paid", "canceled"} /\ e = <<e[1], e[2]>>
  BY DEF Event
<1>. DEFINE r == [Idle EXCEPT !.kind = "webhook", !.step = "event", !.plan = "none",
                              !.session = e[1], !.status = e[2]]
<1>3. /\ request' = [request EXCEPT ![i] = r] /\ r \in Request
      /\ r.kind = "webhook" /\ r.step = "event" /\ r.left = {}
      /\ r.session = e[1] /\ r.status = e[2]
  BY <1>1, <1>2 DEF Begin, Idle, Request, Kind, Step, Profile
<1>. HIDE DEF r
<1>4. RequestOK(r)
  BY <1>1, <1>2, <1>3 DEF RequestOK, Placed, Sourced, Fresh
<1>. QED
  BY <1>1, <1>3, <1>4, OnlyMoved

\* A request that goes to a step where it needs no more than it had.
LEMMA SteppedOK ==
  ASSUME NEW r, RequestOK(r), NEW step \in Step,
         step \in {"provider"} => r.kind = "checkout",
         step = "latest" => r.kind = "reactivate",
         step \in {"event", "update", "append", "list"} => r.kind = "webhook",
         step \notin {"store", "scan", "write"},
         step = "read" => r.kind \notin {"idle", "reconcile"} /\ (r.kind = "webhook" => r.status = "paid")
  PROVE  RequestOK([r EXCEPT !.step = step])
<1>. DEFINE q == [r EXCEPT !.step = step]
<1>1. /\ q \in Request /\ q.step = step /\ q.kind = r.kind /\ q.session = r.session
      /\ q.status = r.status /\ q.plan = r.plan /\ q.left = r.left
  BY DEF RequestOK, Request
<1>. HIDE DEF q
<1>2. Placed(q) /\ Fresh(q)
  BY <1>1 DEF Placed, Fresh
<1>3. Sourced(q)
  BY <1>1 DEF RequestOK, Sourced
<1>. QED
  BY <1>1, <1>2, <1>3 DEF RequestOK, q

\* The steps of a webhook, and of any request that dies.
LEMMA GonePlan ==
  ASSUME PlanInv, NEW i \in Slot, NEW step \in Step \cup {"over"}, Go(i, step),
         step \in {"over", "update", "append", "list", "read"},
         step # "over" => request[i].kind = "webhook" /\ (step = "read" => request[i].status = "paid"),
         UNCHANGED <<profile, planOf, checkout, offered, emitted, applied, chosen, excused>>
  PROVE  PlanInv'
<1>1. request' = [request EXCEPT ![i] = Moved(request[i], step)]
  BY DEF Go
<1>2. RequestOK(request[i])
  BY DEF PlanInv
<1>3. CASE step = "over"
  BY <1>1, <1>3, IdleOK, OnlyMoved DEF Moved
<1>4. CASE step # "over"
  <2>1. Moved(request[i], step) = [request[i] EXCEPT !.step = step]
    BY <1>4 DEF Moved
  <2>2. RequestOK([request[i] EXCEPT !.step = step])
    BY <1>2, <1>4, SteppedOK
  <2>. QED
    BY <1>1, <2>1, <2>2, OnlyMoved
<1>. QED
  BY <1>3, <1>4

LEMMA WebhookPlan ==
  ASSUME PlanInv, NEW i \in Slot, FindEvent(i) \/ AppendEvent(i) \/ ListEvent(i) \/ Die(i)
  PROVE  PlanInv'
<1>1. UNCHANGED <<profile, planOf, checkout, offered, emitted, applied, chosen, excused>>
  BY DEF FindEvent, AppendEvent, ListEvent, Die, records
<1>2. request[i].step \in {"event", "append"} => request[i].kind = "webhook"
  BY DEF PlanInv, RequestOK, Placed
<1>3. CASE FindEvent(i)
  BY <1>1, <1>2, <1>3, GonePlan DEF FindEvent, AfterLookup, At, Step
<1>4. CASE AppendEvent(i)
  BY <1>1, <1>2, <1>4, GonePlan DEF AppendEvent, At, Step
<1>5. CASE ListEvent(i) \/ Die(i)
  BY <1>1, <1>5, GonePlan DEF ListEvent, Die
<1>. QED
  BY <1>3, <1>4, <1>5

\* A reconcile goes on to its next session.
LEMMA NextOK ==
  ASSUME NEW r, RequestOK(r), r.kind = "reconcile", r.step \in {"read", "write"}
  PROVE  /\ RequestOK(Moved(r, "next"))
         /\ Moved(r, "next").step # "write"
<1>. DEFINE q == [r EXCEPT !.step = "read", !.left = r.left \ {First(r.left)}]
<1>1. CASE r.left = {First(r.left)}
  <2>1. Moved(r, "next") = Idle
    BY <1>1 DEF Moved
  <2>2. Idle.step # "write"
    BY DEF Idle
  <2>. QED
    BY <2>1, <2>2, IdleOK
<1>2. CASE r.left # {First(r.left)}
  <2>1. Moved(r, "next") = q
    BY <1>2 DEF Moved
  <2>2. /\ q \in Request /\ q.step = "read" /\ q.kind = "reconcile"
        /\ q.left = r.left \ {First(r.left)}
    BY DEF RequestOK, Request, Step
  <2>3. r.left # {} /\ r.left \subseteq PaidAt
    BY DEF RequestOK, Sourced
  <2>4. q.left # {} /\ q.left \subseteq PaidAt
    BY <1>2, <2>2, <2>3
  <2>. HIDE DEF q
  <2>5. RequestOK(q)
    BY <2>2, <2>4 DEF RequestOK, Placed, Sourced, Fresh
  <2>. QED
    BY <2>1, <2>2, <2>5
<1>. QED
  BY <1>1, <1>2

LEMMA ReadPlan ==
  ASSUME PlanInv, NEW i \in Slot, ReadProfile(i)
  PROVE  PlanInv'
<1>. DEFINE r == request[i]
            q == [r EXCEPT !.stale = FALSE,
                           !.plan = IF r.kind \in {"checkout", "create"} THEN r.plan ELSE profile]
            step == AfterRead(r)
<1>1. /\ r.step = "read"
      /\ request' = [request EXCEPT ![i] = Moved(q, step)]
      /\ UNCHANGED <<profile, planOf, checkout, offered, emitted, applied, chosen, excused>>
  BY DEF ReadProfile, At, world, records
<1>2. RequestOK(r) /\ profile \in Profile /\ profile \in Sources
  BY DEF PlanInv, PlanTypes
<1>3. /\ q \in Request /\ q.step = "read" /\ q.kind = r.kind /\ q.session = r.session
      /\ q.status = r.status /\ q.left = r.left /\ q.stale = FALSE
      /\ q.plan = IF r.kind \in {"checkout", "create"} THEN r.plan ELSE profile
  BY <1>1, <1>2 DEF RequestOK, Request
<1>4. r.kind \in Kind /\ r.kind # "idle"
  BY <1>1, <1>2 DEF RequestOK, Request, Placed
<1>. HIDE DEF q, r
<1>5. RequestOK(q)
  <2>1. Placed(q) /\ Fresh(q)
    BY <1>3, <1>4 DEF Placed, Fresh
  <2>2. Sourced(q)
    BY <1>1, <1>2, <1>3 DEF RequestOK, Sourced
  <2>. QED
    BY <1>3, <2>1, <2>2 DEF RequestOK
<1>6. RequestOK(Moved(q, step))
  <2>1. CASE step = "over"
    BY <2>1, IdleOK DEF Moved
  <2>2. CASE step = "next"
    <3>1. q.kind = "reconcile"
      BY <1>3, <1>4, <2>2 DEF AfterRead, Kind
    <3>. QED
      BY <1>3, <1>5, <2>2, <3>1, NextOK
  <2>3. CASE step \in {"provider", "latest"}
    <3>1. /\ step = "provider" => q.kind = "checkout"
          /\ step = "latest" => q.kind = "reactivate"
      BY <1>3, <1>4, <2>3 DEF AfterRead, Kind
    <3>2. RequestOK([q EXCEPT !.step = step])
      BY <1>5, <2>3, <3>1, SteppedOK DEF Step
    <3>. QED
      BY <2>3, <3>2 DEF Moved
  <2>4. CASE step = "write"
    <3>. DEFINE w == [q EXCEPT !.step = "write"]
    <3>1. /\ w \in Request /\ w.step = "write" /\ w.kind = r.kind /\ w.session = r.session
          /\ w.status = r.status /\ w.left = r.left /\ w.plan = q.plan
      BY <1>3 DEF Request, Step
    <3>2. Moved(q, step) = w
      BY <2>4 DEF Moved
    <3>. HIDE DEF w
    <3>3. Placed(w)
      BY <1>4, <3>1 DEF Placed
    <3>4. r.kind # "reactivate" /\ (r.kind \in {"checkout", "create"} => profile = "none")
      BY <2>4 DEF AfterRead
    <3>5. Fresh(w)
      BY <1>3, <3>1, <3>4 DEF Fresh
    <3>6. Sourced(w)
      BY <1>2, <1>1, <1>3, <3>1, <3>4 DEF RequestOK, Sourced
    <3>. QED
      BY <3>1, <3>2, <3>3, <3>5, <3>6 DEF RequestOK
  <2>5. step \in {"over", "next", "provider", "latest", "write"}
    BY DEF AfterRead
  <2>. QED
    BY <2>1, <2>2, <2>3, <2>4, <2>5
<1>. QED
  BY <1>1, <1>6, OnlyMoved

\* What a request writes has a source, and is a paid plan if it was read fresh
\* where one was applied.
LEMMA WrittenOK ==
  ASSUME PlanInv, NEW i \in Slot, request[i].step = "write"
  PROVE  /\ Written(request[i]) \in Profile /\ Written(request[i]) \in Sources
         /\ request[i].kind = "webhook" =>
              request[i].session \in Checkout /\ Written(request[i]) \in Paid
         /\ applied # {} /\ ~excused /\ ~request[i].stale => Written(request[i]) \in Paid
<1>. DEFINE r == request[i]
<1>1. /\ r.step = "write" /\ r \in Request /\ r.kind \in Kind /\ r.kind # "idle"
      /\ r.plan \in Profile /\ r.left \subseteq Checkout
      /\ Sourced(r) /\ Fresh(r)
  BY DEF PlanInv, RequestOK, Request, Placed
<1>2. /\ planOf \in [Checkout -> Paid \cup {"none"}] /\ emitted \subseteq Event
      /\ Paid \subseteq Profile
  BY DEF PlanInv, PlanTypes, Profile, Plan
<1>3. ASSUME NEW s \in PaidAt PROVE planOf[s] \in Paid /\ planOf[s] \in Sources
  BY DEF PlanInv, SessionOK, PaidAt, Sources
<1>4. {"none", "free"} \subseteq Sources \cap Profile /\ chosen \subseteq Sources
  BY DEF Sources, Profile, Plan
<1>. HIDE DEF r
<1>5. CASE r.kind \in {"checkout", "cancel"}
  <2>1. Written(r) = "free"
    BY <1>5 DEF Written
  <2>2. ~(applied # {} /\ ~excused /\ ~r.stale)
    BY <1>1, <1>5 DEF Sourced, Fresh, PlanInv, Paid
  <2>. QED
    BY <1>4, <1>5, <2>1, <2>2 DEF r
<1>6. CASE r.kind = "webhook"
  <2>1. Written(r) = planOf[r.session]
    BY <1>6 DEF Written
  <2>2. <<r.session, "paid">> \in emitted
    BY <1>1, <1>6 DEF Sourced
  <2>3. r.session \in PaidAt
    BY <1>2, <2>2 DEF PaidAt, Event
  <2>. QED
    BY <1>2, <1>3, <2>1, <2>3 DEF PaidAt, r
<1>7. CASE r.kind = "reconcile"
  <2>1. Written(r) = planOf[First(r.left)]
    BY <1>7 DEF Written, Scanned
  <2>2. r.left # {} /\ r.left \subseteq PaidAt
    BY <1>1, <1>7 DEF Sourced
  <2>3. First(r.left) \in PaidAt
    BY <1>1, <2>2, FirstIn
  <2>. QED
    BY <1>2, <1>3, <1>7, <2>1, <2>3 DEF r
<1>8. CASE r.kind = "login"
  <2>1. Written(r) = IF r.plan = "none" THEN "free" ELSE r.plan
    BY <1>8 DEF Written
  <2>2. r.plan \in Sources
    BY <1>1, <1>8 DEF Sourced
  <2>3. applied # {} /\ ~excused /\ ~r.stale => r.plan \in Paid
    BY <1>1, <1>8 DEF Fresh, PlanInv
  <2>. QED
    BY <1>1, <1>4, <1>8, <2>1, <2>2, <2>3 DEF r, Paid
<1>9. CASE r.kind = "create"
  <2>1. Written(r) = r.plan /\ r.plan \in chosen
    BY <1>1, <1>9 DEF Written, Sourced
  <2>2. ~(applied # {} /\ ~excused /\ ~r.stale)
    BY <1>1, <1>9 DEF Fresh, PlanInv, Paid
  <2>. QED
    BY <1>1, <1>4, <1>9, <2>1, <2>2 DEF r
<1>10. CASE r.kind = "reactivate"
  <2>1. Written(r) = r.plan /\ r.plan \in Sources /\ r.plan \in Paid
    BY <1>1, <1>10 DEF Written, Sourced
  <2>. QED
    BY <1>1, <1>10, <2>1 DEF r
<1>. QED
  BY <1>1, <1>5, <1>6, <1>7, <1>8, <1>9, <1>10 DEF Kind

\* After a write the other requests are stale, and only the plan needs care.
LEMMA WritePlan ==
  ASSUME PlanInv, NEW i \in Slot, WriteProfile(i)
  PROVE  PlanInv'
<1>. DEFINE r == request[i]
            q == Moved(r, AfterWrite(r))
            Staled(j) == IF request[j] = Idle THEN Idle ELSE [request[j] EXCEPT !.stale = TRUE]
<1>1. /\ r.step = "write" /\ profile' = Written(r)
      /\ request' = [j \in Slot |-> IF j = i THEN q ELSE Staled(j)]
      /\ applied' = IF r.kind = "webhook" THEN applied \cup {r.session} ELSE applied
      /\ excused' = (excused \/ (r.stale /\ r.kind # "webhook"))
      /\ UNCHANGED <<planOf, checkout, offered, emitted, chosen>>
  BY DEF WriteProfile, At, records, world
<1>2. RequestOK(r) /\ r.kind \in Kind /\ r.kind # "idle"
  BY <1>1 DEF PlanInv, RequestOK, Request, Placed
<1>3. /\ profile' \in Profile /\ profile' \in Sources
      /\ r.kind = "webhook" => r.session \in Checkout /\ profile' \in Paid
      /\ applied # {} /\ ~excused /\ ~r.stale => profile' \in Paid
  BY <1>1, WrittenOK
<1>4. PaidAt' = PaidAt /\ Sources' = Sources
  BY <1>1 DEF PaidAt, Sources
<1>5. RequestOK(q) /\ q.step # "write"
  <2>1. CASE r.kind = "reconcile"
    <3>1. AfterWrite(r) = "next"
      BY <2>1 DEF AfterWrite
    <3>. QED
      BY <1>1, <1>2, <2>1, <3>1, NextOK
  <2>2. CASE r.kind \in {"checkout", "webhook"}
    <3>. DEFINE step == AfterWrite(r)
    <3>1. step = IF r.kind = "checkout" THEN "provider" ELSE "append"
      BY <2>2 DEF AfterWrite
    <3>2. q = [r EXCEPT !.step = step]
      BY <3>1 DEF Moved
    <3>3. step \in Step
      BY <3>1 DEF Step
    <3>4. RequestOK([r EXCEPT !.step = step])
      <4>. HIDE DEF step, r
      <4>. QED
        BY <1>2, <2>2, <3>1, <3>3, SteppedOK
    <3>5. [r EXCEPT !.step = step].step = step
      BY <1>2 DEF RequestOK, Request
    <3>. QED
      BY <3>1, <3>2, <3>4, <3>5
  <2>3. CASE r.kind \notin {"reconcile", "checkout", "webhook"}
    <3>1. q = Idle
      BY <2>3 DEF AfterWrite, Moved
    <3>2. Idle.step # "write"
      BY DEF Idle
    <3>. QED
      BY <3>1, <3>2, IdleOK
  <2>. QED
    BY <2>1, <2>2, <2>3
<1>. HIDE DEF q, r
<1>6. excused => excused'
  BY <1>1
<1>7. ASSUME NEW p, RequestOK(p), p.step = "write" => p.stale
      PROVE  RequestOK(p)'
  <2>1. Sourced(p)'
    BY <1>1, <1>4, <1>6, <1>7 DEF RequestOK, Sourced
  <2>. QED
    BY <1>7, <2>1 DEF RequestOK, Placed, Fresh
<1>8. ASSUME NEW j \in Slot PROVE RequestOK(request[j])'
  <2>1. RequestOK(request[j])
    BY DEF PlanInv
  <2>0. PICK p : p = IF j = i THEN q ELSE Staled(j)
    OBVIOUS
  <2>2. request'[j] = p
    BY <1>1, <2>0
  <2>3. RequestOK(p) /\ (p.step = "write" => p.stale)
    <3>1. CASE j = i
      BY <1>5, <2>0, <3>1
    <3>2. CASE j # i /\ request[j] = Idle
      <4>1. Idle.step # "write"
        BY DEF Idle
      <4>. QED
        BY <2>0, <3>2, <4>1, IdleOK
    <3>3. CASE j # i /\ request[j] # Idle
      <4>. DEFINE o == request[j]
                  w == [o EXCEPT !.stale = TRUE]
      <4>1. /\ w \in Request /\ w.step = o.step /\ w.kind = o.kind /\ w.session = o.session
            /\ w.status = o.status /\ w.left = o.left /\ w.plan = o.plan /\ w.stale = TRUE
        BY <2>1 DEF RequestOK, Request
      <4>2. p = w
        BY <2>0, <3>3
      <4>. HIDE DEF w
      <4>3. Placed(w) /\ Fresh(w)
        BY <2>1, <4>1 DEF RequestOK, Placed, Fresh
      <4>4. Sourced(w)
        BY <2>1, <4>1 DEF RequestOK, Sourced
      <4>. QED
        BY <4>1, <4>2, <4>3, <4>4 DEF RequestOK
    <3>. QED
      BY <3>1, <3>2, <3>3
  <2>4. RequestOK(p)'
    BY <1>7, <2>3
  <2>. QED
    BY <2>2, <2>4 DEF RequestOK, Placed, Sourced, Fresh
<1>9. \A s \in Checkout : SessionOK(s)'
  BY <1>1, <1>4 DEF PlanInv, SessionOK, Stored, PaidRecord
<1>10. PlanTypes'
  <2>1. applied' \subseteq Checkout /\ excused' \in BOOLEAN
    BY <1>1, <1>2, <1>3 DEF PlanInv, PlanTypes, RequestOK, Request
  <2>. QED
    BY <1>1, <1>3, <2>1 DEF PlanInv, PlanTypes
<1>11. applied' # {} /\ ~excused' => profile' \in Paid
  BY <1>1, <1>3
<1>. QED
  BY <1>3, <1>4, <1>8, <1>9, <1>10, <1>11 DEF PlanInv

\* A checkout creates its session, for the plan that was asked for.
LEMMA CreatePlan ==
  ASSUME PlanInv, NEW i \in Slot, CreateProviderSession(i)
  PROVE  PlanInv'
<1>. DEFINE r == request[i]
<1>1. PICK s \in Checkout :
        /\ planOf[s] = "none"
        /\ planOf' = [planOf EXCEPT ![s] = r.plan]
        /\ request' = [request EXCEPT ![i].step = "store", ![i].session = s]
  BY DEF CreateProviderSession
<1>2. /\ r.step = "provider"
      /\ UNCHANGED <<profile, checkout, offered, emitted, applied, chosen, excused>>
  BY DEF CreateProviderSession, At, records
<1>3. RequestOK(r) /\ r.kind = "checkout" /\ r.plan \in Paid
  BY <1>2 DEF PlanInv, RequestOK, Placed, Sourced
<1>4. planOf \in [Checkout -> Paid \cup {"none"}] /\ "none" \notin Paid
  BY DEF PlanInv, PlanTypes, Paid
<1>5. /\ planOf'[s] = r.plan /\ planOf' \in [Checkout -> Paid \cup {"none"}]
      /\ \A t \in Checkout : planOf[t] \in Paid => planOf'[t] = planOf[t]
  BY <1>1, <1>3, <1>4
<1>0. PICK q : q = [r EXCEPT !.step = "store", !.session = s]
  OBVIOUS
<1>6. /\ q \in Request /\ q.step = "store" /\ q.kind = "checkout" /\ q.session = s
      /\ q.left = r.left /\ q.plan = r.plan
  BY <1>3, <1>0 DEF RequestOK, Request, Step
<1>7. request' = [request EXCEPT ![i] = q]
  BY <1>1, <1>0
<1>8. PaidAt' = PaidAt /\ Sources \subseteq Sources'
  BY <1>2, <1>5, SourcesGrow DEF PaidAt
<1>9. RequestOK(q)'
  <2>1. Placed(q) /\ Fresh(q)'
    BY <1>6 DEF Placed, Fresh
  <2>2. Sourced(q)'
    BY <1>3, <1>5, <1>6, <1>8 DEF RequestOK, Sourced
  <2>. QED
    BY <1>6, <2>1, <2>2 DEF RequestOK, Placed
<1>10. DOMAIN request' = Slot /\ \A j \in Slot : RequestOK(request[j])'
  BY <1>2, <1>5, <1>7, <1>9, OneMoved
<1>11. \A t \in Checkout : SessionOK(t)'
  BY <1>2, <1>5, <1>8 DEF PlanInv, SessionOK, Stored, PaidRecord
<1>12. PlanTypes'
  BY <1>2, <1>5, <1>10 DEF PlanInv, PlanTypes
<1>. QED
  BY <1>2, <1>8, <1>10, <1>11, <1>12 DEF PlanInv

\* The record of a session says what the provider says of it.
LEMMA StorePlan ==
  ASSUME PlanInv, NEW i \in Slot, StoreCheckout(i)
  PROVE  PlanInv'
<1>1. PICK s : s = request[i].session
  OBVIOUS
<1>2. /\ request[i].step = "store"
      /\ checkout' = [checkout EXCEPT ![s] = "created"] /\ offered' = offered \cup {s}
      /\ request' = [request EXCEPT ![i] = Idle]
      /\ UNCHANGED <<profile, planOf, emitted, applied, chosen, excused>>
  BY <1>1 DEF StoreCheckout, At, Go, Moved
<1>3. s \in Checkout /\ planOf[s] \in Paid
  BY <1>1, <1>2 DEF PlanInv, RequestOK, Placed, Sourced
<1>4. RequestOK(Idle)'
  BY <1>2, IdleOK, RequestKept
<1>5. DOMAIN request' = Slot /\ \A j \in Slot : RequestOK(request[j])'
  BY <1>2, <1>4, OneMoved
<1>6. PaidAt' = PaidAt /\ Sources' = Sources
  BY <1>2 DEF PaidAt, Sources
<1>7. /\ checkout' \in [Checkout -> {"none", "created", "paid", "canceled", "gone"}]
      /\ checkout'[s] = "created"
      /\ \A t \in Checkout \ {s} : checkout'[t] = checkout[t]
  BY <1>2, <1>3 DEF PlanInv, PlanTypes
<1>8. \A t \in Checkout : SessionOK(t)'
  BY <1>2, <1>3, <1>6, <1>7 DEF PlanInv, SessionOK, Stored, PaidRecord
<1>9. PlanTypes'
  BY <1>2, <1>3, <1>5, <1>7 DEF PlanInv, PlanTypes
<1>. QED
  BY <1>2, <1>5, <1>6, <1>8, <1>9 DEF PlanInv

LEMMA UpdatePlan ==
  ASSUME PlanInv, NEW i \in Slot, UpdateCheckout(i)
  PROVE  PlanInv'
<1>. DEFINE r == request[i]
<1>1. PICK s : s = r.session
  OBVIOUS
<1>2. PICK step : step = IF r.status = "paid" THEN "read" ELSE "append"
  OBVIOUS
<1>3. PICK q : q = [r EXCEPT !.step = step]
  OBVIOUS
<1>4. /\ r.step = "update"
      /\ IF Stored(s) THEN checkout' = [checkout EXCEPT ![s] = r.status]
                      ELSE UNCHANGED checkout
      /\ request' = [request EXCEPT ![i] = q]
      /\ UNCHANGED <<profile, planOf, offered, emitted, applied, chosen, excused>>
  BY <1>1, <1>2, <1>3 DEF UpdateCheckout, At, Go, Moved, world
<1>5. /\ RequestOK(r) /\ r.kind = "webhook" /\ <<s, r.status>> \in emitted
      /\ emitted \subseteq Event
  BY <1>1, <1>4 DEF PlanInv, PlanTypes, RequestOK, Placed, Sourced
<1>6. s \in Checkout /\ r.status \in {"paid", "canceled"}
  BY <1>5 DEF Event
<1>7. step \in Step
  BY <1>2 DEF Step
<1>8. RequestOK(q)
  <2>. HIDE DEF r
  <2>. QED
    BY <1>2, <1>3, <1>5, <1>7, SteppedOK
<1>9. RequestOK(q)'
  BY <1>4, <1>8, RequestKept
<1>10. DOMAIN request' = Slot /\ \A j \in Slot : RequestOK(request[j])'
  BY <1>4, <1>9, OneMoved
<1>11. PaidAt' = PaidAt /\ Sources' = Sources
  BY <1>4 DEF PaidAt, Sources
<1>12. /\ checkout' \in [Checkout -> {"none", "created", "paid", "canceled", "gone"}]
       /\ checkout'[s] \in {checkout[s], r.status}
       /\ \A t \in Checkout \ {s} : checkout'[t] = checkout[t]
       /\ checkout'[s] # checkout[s] => Stored(s)
  BY <1>4, <1>6 DEF PlanInv, PlanTypes
<1>13. ASSUME NEW t \in Checkout PROVE SessionOK(t)'
  <2>1. SessionOK(t)
    BY DEF PlanInv
  <2>2. CASE checkout'[t] = checkout[t]
    BY <1>4, <1>11, <2>1, <2>2 DEF SessionOK, Stored, PaidRecord
  <2>3. CASE checkout'[t] # checkout[t]
    <3>1. t = s /\ Stored(s) /\ checkout'[s] = r.status
      BY <1>12, <2>3
    <3>2. r.status = "paid" => s \in PaidAt
      BY <1>5, <1>6 DEF PaidAt
    <3>3. planOf[s] \in Paid
      BY <2>1, <3>1 DEF SessionOK
    <3>. QED
      BY <1>4, <1>6, <1>11, <3>1, <3>2, <3>3 DEF SessionOK, PaidRecord
  <2>. QED
    BY <2>2, <2>3
<1>14. PlanTypes'
  BY <1>4, <1>10, <1>12 DEF PlanInv, PlanTypes
<1>. QED
  BY <1>4, <1>10, <1>11, <1>13, <1>14 DEF PlanInv

LEMMA DropPlan ==
  ASSUME PlanInv, NEW s \in Checkout, DropCheckout(s)
  PROVE  PlanInv'
<1>1. /\ checkout' = [checkout EXCEPT ![s] = "gone"]
      /\ UNCHANGED <<profile, planOf, offered, emitted, request, applied, chosen, excused>>
  BY DEF DropCheckout, world
<1>2. PaidAt' = PaidAt /\ Sources' = Sources
  BY <1>1 DEF PaidAt, Sources
<1>3. /\ checkout' \in [Checkout -> {"none", "created", "paid", "canceled", "gone"}]
      /\ checkout'[s] = "gone"
      /\ \A t \in Checkout \ {s} : checkout'[t] = checkout[t]
  BY <1>1 DEF PlanInv, PlanTypes
<1>4. \A t \in Checkout : SessionOK(t)'
  BY <1>1, <1>2, <1>3 DEF PlanInv, SessionOK, Stored, PaidRecord
<1>5. \A j \in Slot : RequestOK(request[j])'
  BY <1>1, <1>2 DEF PlanInv, RequestOK, Placed, Sourced, Fresh
<1>6. PlanTypes'
  BY <1>1, <1>3 DEF PlanInv, PlanTypes
<1>. QED
  BY <1>1, <1>2, <1>4, <1>5, <1>6 DEF PlanInv

LEMMA EmitPlan ==
  ASSUME PlanInv, NEW s \in Checkout, Emit(s)
  PROVE  PlanInv'
<1>1. PICK status \in {"paid", "canceled"} :
        /\ emitted' = emitted \cup {<<s, status>>}
        /\ s \in offered \/ <<s, "paid">> \in emitted
  BY DEF Emit
<1>2. UNCHANGED <<profile, planOf, checkout, offered, request, applied, chosen, excused>>
  BY DEF Emit, records
<1>3. planOf[s] \in Paid
  BY <1>1 DEF PlanInv, SessionOK
<1>4. emitted' \subseteq Event /\ emitted \subseteq emitted'
  BY <1>1 DEF PlanInv, PlanTypes, Event
<1>5. PaidAt \subseteq PaidAt' /\ Sources \subseteq Sources'
  BY <1>2, <1>4, SourcesGrow
<1>6. ASSUME NEW t \in Checkout PROVE SessionOK(t)'
  <2>1. SessionOK(t)
    BY DEF PlanInv
  <2>2. \A e \in emitted' : e \in emitted \/ e[1] = s
    BY <1>1
  <2>. QED
    BY <1>2, <1>3, <1>5, <2>1, <2>2 DEF SessionOK, Stored, PaidRecord
<1>7. ASSUME NEW j \in Slot PROVE RequestOK(request[j])'
  <2>1. PICK q : q = request[j]
    OBVIOUS
  <2>2. RequestOK(q)
    BY <2>1 DEF PlanInv
  <2>3. RequestOK(q)'
    BY <1>2, <1>4, <2>2, RequestKept
  <2>4. request'[j] = q
    BY <1>2, <2>1
  <2>. QED
    BY <2>3, <2>4 DEF RequestOK, Placed, Sourced, Fresh
<1>8. PlanTypes'
  BY <1>2, <1>4 DEF PlanInv, PlanTypes
<1>. QED
  BY <1>2, <1>5, <1>6, <1>7, <1>8 DEF PlanInv

\* Reactivate and reconcile look at paid sessions only.
LEMMA LatestPlan ==
  ASSUME PlanInv, NEW i \in Slot, LatestPaid(i)
  PROVE  PlanInv'
<1>. DEFINE r == request[i]
<1>1. /\ r.step = "latest"
      /\ UNCHANGED <<profile, planOf, checkout, offered, emitted, applied, chosen, excused>>
  BY DEF LatestPaid, At, records, world
<1>2. RequestOK(r) /\ r.kind = "reactivate"
  BY <1>1 DEF PlanInv, RequestOK, Placed
<1>3. CASE Go(i, "over")
  BY <1>1, <1>3, GonePlan
<1>4. ASSUME NEW s \in LastPaid,
             request' = [request EXCEPT ![i].step = "write", ![i].plan = planOf[s]]
      PROVE  PlanInv'
  <2>1. s \in PaidAt /\ planOf[s] \in Paid /\ planOf[s] \in Sources
    <3>1. s \in Checkout /\ PaidRecord(s)
      BY DEF LastPaid, PaidSessions
    <3>2. s \in PaidAt
      BY <3>1 DEF PlanInv, SessionOK
    <3>3. planOf[s] \in Paid
      BY <3>1, <3>2 DEF PlanInv, SessionOK, PaidAt
    <3>. QED
      BY <3>2, <3>3 DEF Sources
  <2>2. PICK q : q = [r EXCEPT !.step = "write", !.plan = planOf[s]]
    OBVIOUS
  <2>3. /\ q \in Request /\ q.step = "write" /\ q.kind = "reactivate"
        /\ q.left = r.left /\ q.plan = planOf[s]
    BY <1>2, <2>1, <2>2 DEF RequestOK, Request, Step, Profile, Plan
  <2>4. request' = [request EXCEPT ![i] = q]
    BY <1>4, <2>2
  <2>5. Placed(q) /\ Fresh(q)
    BY <2>3 DEF Placed, Fresh
  <2>6. Sourced(q)
    BY <1>2, <2>1, <2>3 DEF RequestOK, Sourced
  <2>. QED
    BY <1>1, <2>3, <2>4, <2>5, <2>6, OnlyMoved DEF RequestOK
<1>. QED
  BY <1>3, <1>4 DEF LatestPaid

LEMMA ScanPlan ==
  ASSUME PlanInv, NEW i \in Slot, ScanCheckouts(i)
  PROVE  PlanInv'
<1>. DEFINE r == request[i]
<1>1. /\ r.step = "scan"
      /\ UNCHANGED <<profile, planOf, checkout, offered, emitted, applied, chosen, excused>>
  BY DEF ScanCheckouts, At, records, world
<1>2. RequestOK(r) /\ r.kind = "reconcile"
  BY <1>1 DEF PlanInv, RequestOK, Placed
<1>3. CASE PaidSessions = {}
  <2>1. request' = [request EXCEPT ![i] = Idle]
    BY <1>3 DEF ScanCheckouts
  <2>. QED
    BY <1>1, <2>1, IdleOK, OnlyMoved
<1>4. CASE PaidSessions # {}
  <2>1. PICK q : q = [r EXCEPT !.step = "read", !.left = PaidSessions]
    OBVIOUS
  <2>2. request' = [request EXCEPT ![i] = q]
    BY <1>4, <2>1 DEF ScanCheckouts
  <2>3. PaidSessions \subseteq PaidAt
    BY DEF PlanInv, SessionOK, PaidSessions
  <2>4. /\ q \in Request /\ q.step = "read" /\ q.kind = "reconcile"
        /\ q.left = PaidSessions
    BY <1>2, <2>1 DEF RequestOK, Request, Step, PaidSessions
  <2>5. Placed(q) /\ Fresh(q)
    BY <2>4 DEF Placed, Fresh
  <2>6. Sourced(q)
    BY <1>4, <2>3, <2>4 DEF Sourced
  <2>. QED
    BY <1>1, <2>2, <2>4, <2>5, <2>6, OnlyMoved DEF RequestOK
<1>. QED
  BY <1>3, <1>4

LEMMA PlanInit == BillingInit => PlanInv
<1>. SUFFICES ASSUME BillingInit PROVE PlanInv
  OBVIOUS
<1>1. PlanTypes
  BY DEF BillingInit, PlanTypes, Profile, Plan, Paid
<1>2. \A i \in Slot : RequestOK(request[i])
  BY IdleOK DEF BillingInit
<1>3. \A s \in Checkout : SessionOK(s)
  BY DEF BillingInit, SessionOK, Stored, PaidRecord
<1>4. profile \in Sources /\ applied = {}
  BY DEF BillingInit, Sources
<1>. QED
  BY <1>1, <1>2, <1>3, <1>4 DEF PlanInv

LEMMA PlanStep == PlanInv /\ [BillingNext]_billingVars => PlanInv'
<1>. SUFFICES ASSUME PlanInv, [BillingNext]_billingVars PROVE PlanInv'
  OBVIOUS
<1>1. CASE UNCHANGED billingVars
  <2>1. UNCHANGED <<profile, planOf, checkout, offered, emitted, request, applied, chosen, excused>>
    BY <1>1 DEF billingVars
  <2>2. UNCHANGED <<PaidAt, Sources>>
    BY <2>1 DEF PaidAt, Sources
  <2>3. \A i \in Slot : RequestOK(request[i])'
    BY <2>1, <2>2 DEF PlanInv, RequestOK, Placed, Sourced, Fresh
  <2>4. \A s \in Checkout : SessionOK(s)'
    BY <2>1, <2>2 DEF PlanInv, SessionOK, Stored, PaidRecord
  <2>. QED
    BY <2>1, <2>2, <2>3, <2>4 DEF PlanInv, PlanTypes
<1>2. ASSUME NEW i \in Slot,
             \/ AskCheckout(i) \/ AskCreate(i) \/ AskLogin(i) \/ AskChange(i) \/ AskReconcile(i)
             \/ \E e \in Event : Deliver(i, e)
             \/ Handle(i) \/ Die(i)
      PROVE  PlanInv'
  BY <1>2, AskPlan, DeliverPlan, ReadPlan, WritePlan, CreatePlan, StorePlan, LatestPlan,
     ScanPlan, UpdatePlan, WebhookPlan DEF Handle
<1>3. ASSUME NEW s \in Checkout, Emit(s) \/ DropCheckout(s) PROVE PlanInv'
  BY <1>3, EmitPlan, DropPlan
<1>. QED
  BY <1>1, <1>2, <1>3 DEF BillingNext

\* Nobody gets a plan for nothing: the plan in the profile was chosen with a
\* session of the site, or paid for at the provider.
THEOREM BillingPlanHasSource == BillingSpec => []PlanHasSource
<1>1. PlanInv => PlanHasSource
  <2>. SUFFICES ASSUME PlanInv PROVE PlanHasSource
    OBVIOUS
  <2>1. ASSUME NEW s \in PaidAt
        PROVE  planOf[s] \in {planOf[e[1]] : e \in {x \in emitted : x[2] = "paid"}}
    <3>1. <<s, "paid">> \in {x \in emitted : x[2] = "paid"} /\ <<s, "paid">>[1] = s
      BY DEF PaidAt
    <3>. QED
      BY <3>1
  <2>. QED
    BY <2>1 DEF PlanInv, Sources, PlanHasSource
<1>. QED
  BY <1>1, PlanInit, PlanStep, PTL DEF BillingSpec

\* Once a payment is recorded the user keeps a paid plan, whatever logins,
\* reconciles and other webhooks do meanwhile, until they cancel or one of those
\* writes back a profile it read before another's write (billing.ts:226,
\* billing.ts:306).
THEOREM BillingPaidStaysPaid == BillingSpec => []PaidStaysPaid
<1>1. BillingInit => PlanInv /\ GrantInv
  BY PlanInit, GrantInit
<1>2. PlanInv /\ GrantInv /\ [BillingNext]_billingVars => (PlanInv /\ GrantInv)'
  BY PlanStep, GrantStep
<1>3. PlanInv /\ GrantInv => PaidStaysPaid
  BY DEF PlanInv, GrantInv, RecordedMeansApplied, PaidStaysPaid
<1>. QED
  BY <1>1, <1>2, <1>3, PTL DEF BillingSpec

(***************************************************************************)
(* The types.                                                              *)
(***************************************************************************)

\* The sets a record of billing stays in that no plan depends on.
BooksOK ==
  /\ older \in [Checkout -> SUBSET Checkout]
  /\ recorded \subseteq Event /\ acked \subseteq Event
  /\ started \in Nat /\ deaths \in Nat

\* An event that a webhook handles is one the provider emitted.
LEMMA HandledEvent ==
  ASSUME PlanInv, NEW i \in Slot, request[i].step \in {"event", "update", "append", "list"}
  PROVE  EventOf(request[i]) \in Event
BY DEF PlanInv, PlanTypes, RequestOK, Placed, Sourced, EventOf

LEMMA BooksStep == PlanInv /\ BooksOK /\ [BillingNext]_billingVars => BooksOK'
<1>. SUFFICES ASSUME PlanInv, BooksOK, [BillingNext]_billingVars PROVE BooksOK'
  OBVIOUS
<1>. USE DEF BooksOK, records, world
<1>1. ASSUME NEW s \in Checkout PROVE Touched(s) \in [Checkout -> SUBSET Checkout]
  BY DEF Touched
<1>2. ASSUME NEW i \in Slot,
             AskCheckout(i) \/ AskCreate(i) \/ AskLogin(i) \/ AskChange(i) \/ AskReconcile(i)
      PROVE  BooksOK'
  BY <1>2 DEF AskCheckout, AskCreate, AskLogin, AskChange, AskReconcile, Ask
<1>3. ASSUME NEW i \in Slot, NEW e \in Event, Deliver(i, e) PROVE BooksOK'
  BY <1>3 DEF Deliver
<1>4. ASSUME NEW i \in Slot, ReadProfile(i) \/ WriteProfile(i) \/ CreateProviderSession(i)
                             \/ LatestPaid(i) \/ ScanCheckouts(i)
      PROVE  BooksOK'
  BY <1>4 DEF ReadProfile, WriteProfile, CreateProviderSession, LatestPaid, ScanCheckouts
<1>5. ASSUME NEW i \in Slot, StoreCheckout(i) PROVE BooksOK'
  <2>1. request[i].session \in Checkout
    BY <1>5 DEF StoreCheckout, At, PlanInv, RequestOK, Sourced
  <2>. QED
    BY <1>1, <1>5, <2>1 DEF StoreCheckout
<1>6. ASSUME NEW i \in Slot, FindEvent(i) PROVE BooksOK'
  BY <1>6 DEF FindEvent
<1>7. ASSUME NEW i \in Slot, UpdateCheckout(i) PROVE BooksOK'
  <2>1. EventOf(request[i]) \in Event
    BY <1>7, HandledEvent DEF UpdateCheckout, At
  <2>2. request[i].session \in Checkout
    BY <2>1 DEF EventOf, Event
  <2>. QED
    BY <1>1, <1>7, <2>2 DEF UpdateCheckout
<1>8. ASSUME NEW i \in Slot, AppendEvent(i) \/ ListEvent(i) PROVE BooksOK'
  <2>1. EventOf(request[i]) \in Event
    BY <1>8, HandledEvent DEF AppendEvent, ListEvent, At
  <2>. QED
    BY <1>8, <2>1 DEF AppendEvent, ListEvent
<1>9. ASSUME NEW i \in Slot, Die(i) PROVE BooksOK'
  BY <1>9 DEF Die
<1>10. ASSUME NEW s \in Checkout, Emit(s) \/ DropCheckout(s) PROVE BooksOK'
  BY <1>10 DEF Emit, DropCheckout
<1>11. CASE UNCHANGED billingVars
  BY <1>11 DEF billingVars
<1>. QED
  BY <1>2, <1>3, <1>4, <1>5, <1>6, <1>7, <1>8, <1>9, <1>10, <1>11 DEF BillingNext, Handle

LEMMA BooksImply == PlanInv /\ BooksOK => BillingTypeOK
<1>. SUFFICES ASSUME PlanInv, BooksOK PROVE BillingTypeOK
  OBVIOUS
<1>1. \A i \in Slot : /\ request[i].plan \in Profile
                      /\ request[i].session \in Checkout \cup {0}
                      /\ request[i].left \subseteq Checkout
  BY DEF PlanInv, RequestOK, Request
<1>. QED
  BY <1>1 DEF PlanInv, PlanTypes, BooksOK, BillingTypeOK

\* What makes the worker's types inductive: a job that waits has an attempt left.
HandsInv ==
  /\ WorkerTypeOK
  /\ \A j \in Job : job[j] = "waiting" => attempt[j] < MaxAttempts

LEMMA HandsInit == WorkerInit => HandsInv
<1>. SUFFICES ASSUME WorkerInit PROVE HandsInv
  OBVIOUS
<1>1. /\ IntervalMs \in Nat /\ MaxAttempts \in Nat \ {0} /\ HeartbeatTtlMs \in Nat
      /\ None \in {None}
  BY WorkerAssumption, TtlBound
<1>2. nextBeat \in 0..IntervalMs /\ keyLeft \in 0..HeartbeatTtlMs /\ faults \in Nat
  BY <1>1 DEF WorkerInit
<1>3. /\ attempt \in [Job -> 0..MaxAttempts]
      /\ \A j \in Job : job[j] = "waiting" => attempt[j] < MaxAttempts
  BY <1>1 DEF WorkerInit
<1>. QED
  BY <1>2, <1>3 DEF WorkerInit, HandsInv, WorkerTypeOK

LEMMA HandsStep == HandsInv /\ [WorkerNext]_workerVars => HandsInv'
<1>. SUFFICES ASSUME HandsInv, [WorkerNext]_workerVars PROVE HandsInv'
  OBVIOUS
<1>0. /\ IntervalMs \in Nat /\ TickMs \in Nat /\ DelayMs \in Nat /\ MaxAttempts \in Nat
      /\ HeartbeatTtlMs \in Nat /\ None = -1 /\ HeartbeatTtlMs' = HeartbeatTtlMs
  BY WorkerAssumption, TtlBound DEF None, HeartbeatTtlMs
<1>. USE DEF HandsInv, WorkerTypeOK
<1>1. ASSUME NEW j \in Job, TakeJob(j) PROVE HandsInv'
  <2>1. /\ job' = [job EXCEPT ![j] = "active"] /\ attempt' = [attempt EXCEPT ![j] = @ + 1]
        /\ record' = [record EXCEPT ![j] = "running"] /\ job[j] = "waiting"
        /\ UNCHANGED <<deadLetter, workerPc, shut, exitCode, forced, nextBeat, beating,
                       keyLeft, boot, faults>>
    BY <1>1 DEF TakeJob, beatVars
  <2>2. attempt[j] + 1 \in 0..MaxAttempts
    BY <1>0, <2>1
  <2>3. attempt' \in [Job -> 0..MaxAttempts]
    BY <2>1, <2>2
  <2>4. \A k \in Job : job'[k] = "waiting" => attempt'[k] < MaxAttempts
    BY <2>1
  <2>. QED
    BY <1>0, <2>1, <2>3, <2>4
<1>2. ASSUME NEW j \in Job, WriteRecord(j) PROVE HandsInv'
  BY <1>0, <1>2 DEF WriteRecord, beatVars
<1>3. ASSUME NEW j \in Job, SettleJob(j) PROVE HandsInv'
  BY <1>0, <1>3 DEF SettleJob, beatVars
<1>4. ASSUME NEW j \in Job, AddDeadLetter(j) PROVE HandsInv'
  BY <1>0, <1>4 DEF AddDeadLetter, beatVars
<1>5. ASSUME NEW code \in {0, 1}, Shutdown(code) PROVE HandsInv'
  BY <1>0, <1>5 DEF Shutdown, After, queueVars, beatVars
<1>6. CASE Closed
  <2>1. /\ workerPc' \in {"running", "dlq", "workers", "repo", "quit", "exited"}
        /\ shut' \subseteq {"dlq", "workers", "repo", "quit"}
        /\ UNCHANGED <<queueVars, exitCode, forced, beatVars, faults>>
    BY <1>6 DEF Closed, After
  <2>. QED
    BY <1>0, <2>1 DEF queueVars, beatVars
<1>7. CASE CloseFails
  BY <1>0, <1>7 DEF CloseFails, queueVars, beatVars
<1>10. CASE Beat
  <2>1. nextBeat' \in 0..IntervalMs /\ beating' \in Nat
    BY <1>0, <1>10 DEF Beat
  <2>. QED
    BY <1>0, <1>10, <2>1 DEF Beat, queueVars
<1>11. CASE BeatWritten
  <2>1. keyLeft' \in 0..HeartbeatTtlMs /\ beating' \in {None} /\ faults' \in Nat
        /\ boot' \in BOOLEAN
    <3>1. CASE keyLeft' = HeartbeatTtlMs /\ boot' = TRUE /\ UNCHANGED faults
      <4>1. HeartbeatTtlMs \in 0..HeartbeatTtlMs
        BY <1>0
      <4>. QED
        BY <1>11, <3>1, <4>1 DEF BeatWritten
    <3>2. CASE faults' = faults + 1 /\ UNCHANGED <<keyLeft, boot>>
      BY <1>11, <3>2 DEF BeatWritten
    <3>. QED
      BY <1>11, <3>1, <3>2 DEF BeatWritten
  <2>. QED
    BY <1>0, <1>11, <2>1 DEF BeatWritten, queueVars
<1>8. CASE TickWorker
  BY <1>0, <1>8 DEF TickWorker, queueVars
<1>9. CASE UNCHANGED workerVars
  BY <1>0, <1>9 DEF workerVars, queueVars, beatVars
<1>. QED
  BY <1>1, <1>2, <1>3, <1>4, <1>5, <1>6, <1>7, <1>8, <1>9, <1>10, <1>11 DEF WorkerNext, Work

\* What makes the API's types inductive: its gauge counts no more requests than
\* have come.
Come == {v \in Visit : visit[v] # "new"}

GaugeInv ==
  /\ visit \in [Visit -> {"new", "handled", "deserted", "answered", "unheard", "broken",
                          "broken unseen"}]
  /\ usage \in [Visit -> Dependency \cup {Idling}]
  /\ inflight \in Nat /\ inflight <= Cardinality(Come)
  /\ apiPc \in {"serving", "closing server", "closing dependencies", "exited"}
  /\ dependency \in [Dependency -> {"open", "closing", "closed", "failed"}]
  /\ apiExit \in {0, 1}

LEMMA GaugeInit == ApiInit => GaugeInv
<1>. SUFFICES ASSUME ApiInit PROVE GaugeInv
  OBVIOUS
<1>1. Come = {}
  BY DEF ApiInit, Come
<1>2. Cardinality(Come) = 0
  BY <1>1, FS_EmptySet
<1>. QED
  BY <1>2 DEF ApiInit, GaugeInv

LEMMA GaugeStep == GaugeInv /\ [ApiNext]_apiVars => GaugeInv'
<1>. SUFFICES ASSUME GaugeInv, [ApiNext]_apiVars PROVE GaugeInv'
  OBVIOUS
<1>0. IsFiniteSet(Come) /\ Cardinality(Come) \in Nat
  <2>1. Come \subseteq Visit
    BY DEF Come
  <2>. QED
    BY <2>1, ApiAssumption, FS_Subset, FS_CardinalityType
<1>1. ASSUME NEW v \in Visit, ArriveAtApi(v) PROVE GaugeInv'
  <2>1. /\ visit[v] = "new" /\ visit' = [visit EXCEPT ![v] = "handled"]
        /\ inflight' = inflight + 1 /\ UNCHANGED <<usage, apiPc, dependency, apiExit>>
    BY <1>1 DEF ArriveAtApi
  <2>2. Come' = Come \cup {v} /\ v \notin Come
    BY <2>1 DEF Come, GaugeInv
  <2>3. Cardinality(Come') = Cardinality(Come) + 1
    BY <1>0, <2>2, FS_AddElement
  <2>4. inflight' \in Nat /\ inflight' <= Cardinality(Come)'
    <3>1. PICK n, k : n = Cardinality(Come) /\ k = inflight
      OBVIOUS
    <3>2. n \in Nat /\ k \in Nat /\ k <= n
      BY <1>0, <3>1 DEF GaugeInv
    <3>3. inflight' = k + 1 /\ Cardinality(Come)' = n + 1
      BY <2>1, <2>3, <3>1
    <3>. QED
      BY <3>2, <3>3
  <2>. QED
    BY <2>1, <2>4 DEF GaugeInv
<1>2. ASSUME Come' = Come, inflight' \in {inflight, Decremented},
             visit' \in [Visit -> {"new", "handled", "deserted", "answered", "unheard",
                                   "broken", "broken unseen"}],
             usage' \in [Visit -> Dependency \cup {Idling}],
             apiPc' \in {"serving", "closing server", "closing dependencies", "exited"},
             dependency' \in [Dependency -> {"open", "closing", "closed", "failed"}],
             apiExit' \in {0, 1}
      PROVE  GaugeInv'
  <2>1. PICK n, k : n = Cardinality(Come) /\ k = inflight
    OBVIOUS
  <2>2. n \in Nat /\ k \in Nat /\ k <= n
    BY <1>0, <2>1 DEF GaugeInv
  <2>3. inflight' = k \/ inflight' = IF k = 0 THEN 0 ELSE k - 1
    BY <1>2, <2>1 DEF Decremented
  <2>4. inflight' \in Nat /\ inflight' <= n
    BY <2>2, <2>3
  <2>5. Cardinality(Come)' = n
    BY <1>2, <2>1
  <2>. QED
    BY <1>2, <2>4, <2>5 DEF GaugeInv
<1>3. ASSUME NEW v \in Visit, NEW d \in Dependency, UseDependency(v, d) PROVE GaugeInv'
  BY <1>2, <1>3 DEF GaugeInv, UseDependency, Running, Come
<1>4. ASSUME NEW v \in Visit, DependencyAnswers(v) PROVE GaugeInv'
  BY <1>2, <1>4 DEF GaugeInv, DependencyAnswers, Come
<1>5. ASSUME NEW v \in Visit, Respond(v) PROVE GaugeInv'
  <2>1. Come' = Come
    BY <1>5 DEF GaugeInv, Respond, Running, Come
  <2>. QED
    BY <1>2, <1>5, <2>1 DEF GaugeInv, Respond
<1>6. ASSUME NEW v \in Visit, HangUp(v) PROVE GaugeInv'
  <2>1. Come' = Come
    BY <1>6 DEF GaugeInv, HangUp, Come
  <2>. QED
    BY <1>2, <1>6, <2>1 DEF GaugeInv, HangUp
<1>7. CASE StopApi \/ ServerClosed \/ ExitApi
  BY <1>2, <1>7 DEF GaugeInv, StopApi, ServerClosed, ExitApi, Come
<1>8. ASSUME NEW d \in Dependency, DependencyCloses(d) PROVE GaugeInv'
  BY <1>2, <1>8 DEF GaugeInv, DependencyCloses, Come
<1>9. CASE UNCHANGED apiVars
  BY <1>2, <1>9 DEF GaugeInv, apiVars, Come
<1>. QED
  BY <1>1, <1>3, <1>4, <1>5, <1>6, <1>7, <1>8, <1>9 DEF ApiNext

LEMMA GaugeImplies == GaugeInv => ApiTypeOK
<1>. SUFFICES ASSUME GaugeInv PROVE ApiTypeOK
  OBVIOUS
<1>1. Come \subseteq Visit
  BY DEF Come
<1>2. /\ Cardinality(Come) <= Cardinality(Visit)
      /\ Cardinality(Come) \in Nat /\ Cardinality(Visit) \in Nat
  BY <1>1, ApiAssumption, FS_Subset, FS_CardinalityType
<1>3. PICK n, k, m : n = Cardinality(Come) /\ k = inflight /\ m = Cardinality(Visit)
  OBVIOUS
<1>4. k \in Nat /\ k <= n /\ n \in Nat /\ m \in Nat /\ n <= m
  BY <1>2, <1>3 DEF GaugeInv
<1>5. k \in 0..m
  BY <1>4
<1>. QED
  BY <1>3, <1>5 DEF GaugeInv, ApiTypeOK

\* Every variable of billing and of the two processes stays in its type: no job
\* gets an attempt too many, the heartbeat's ages stay in their interval, and the
\* gauge of requests in flight counts no more than there are.
THEOREM ServicesTyped == ServicesSpec => []ServicesTypeOK
<1>. DEFINE Inv == PlanInv /\ BooksOK /\ HandsInv /\ GaugeInv
<1>1. ServicesInit => Inv
  <2>1. BillingInit => BooksOK
    BY DEF BillingInit, BooksOK
  <2>. QED
    BY <2>1, PlanInit, HandsInit, GaugeInit DEF ServicesInit
<1>2. Inv /\ [ServicesNext]_serviceVars => Inv'
  BY EachStep, PlanStep, BooksStep, HandsStep, GaugeStep
<1>3. Inv => ServicesTypeOK
  BY BooksImply, GaugeImplies DEF HandsInv, ServicesTypeOK
<1>. QED
  BY <1>1, <1>2, <1>3, PTL DEF ServicesSpec

\* Billing, the worker and the API side by side are each what they are alone, their
\* fairness included, so what is true of billing by itself is true of it there.
THEOREM ServicesImplementParts == ServicesSpec => BillingSpec /\ WorkerSpec /\ ApiSpec
<1>1. ServicesInit => BillingInit /\ WorkerInit /\ ApiInit
  BY DEF ServicesInit
<1>. QED
  BY <1>1, EachStep, PTL DEF ServicesSpec, BillingSpec, WorkerSpec, ApiSpec

\* What billing promises holds of the three side by side: a plan has a source, a
\* payment is recorded once it is applied, and who paid keeps a paid plan.
THEOREM ServicesKeepBillingPromises ==
  ServicesSpec => [](PlanHasSource /\ RecordedMeansApplied /\ PaidStaysPaid)
BY ServicesImplementParts, BillingPlanHasSource, BillingRecordedMeansApplied,
   BillingPaidStaysPaid, PTL
=============================================================================
