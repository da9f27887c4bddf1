------------------------------- MODULE Quota -------------------------------
(***************************************************************************)
(* The image quota of one subject in Redis: the Lua script that reserves a *)
(* slot and creates the job record, the WATCH/MULTI/EXEC fallback used     *)
(* when the script cannot run, and GET /api/quota, which rolls an expired  *)
(* window with a plain GET and SET.  POST /api/jobs reads the clock and    *)
(* the plan before it reserves, so both may be stale by then.              *)
(***************************************************************************)
EXTENDS Integers, FiniteSets

CONSTANTS
  Request,   \* POST /api/jobs requests of the subject
  Reader,    \* GET /api/quota requests for the subject
  Conn,      \* Redis connections: one for each API process
  ConnOf,    \* ConnOf[r]: the connection of the process that serves r
  LuaDown,   \* requests whose EVAL is answered NOSCRIPT, BUSY, LOADING, ...
  Plan,      \* image plans
  Limit,     \* Limit[p]: images in a window of plan p
  Hours,     \* Hours[p]: length of a window of plan p
  MaxTries,  \* MAX_OPTIMISTIC_RETRIES
  MaxTime,   \* bound: the clock stops here
  MaxDrops   \* bound: connections lost

ASSUME QuotaAssumption ==
  /\ IsFiniteSet(Request)
  /\ Request \cap Reader = {}
  /\ ConnOf \in [Request -> Conn]
  /\ LuaDown \subseteq Request
  /\ Plan # {}
  /\ Limit \in [Plan -> Nat \ {0}]
  /\ Hours \in [Plan -> Nat \ {0}]
  /\ MaxTries \in Nat \ {0}
  /\ MaxTime \in Nat
  /\ MaxDrops \in Nat

VARIABLES
  clock,     \* deps.now()
  plan,      \* the plan of the subject's profile
  quota,     \* the subject's quota key
  watch,     \* watch[c]: whether c watches that key, and saw it change
  pc,        \* pc[q]: where request or reader q stands
  at,        \* at[q]: the clock q read when it arrived
  tier,      \* tier[q]: the plan q applies
  seen,      \* seen[q]: the quota record q read
  tries,     \* tries[r]: optimistic transactions of r that were aborted
  after,     \* after[r]: what r does once its final UNWATCH is answered
  granted,   \* history: the window whose images r's job record was counted in
  drops      \* history: connections lost so far

vars == <<clock, plan, quota, watch, pc, at, tier, seen, tries, after,
          granted, drops>>

Proc == Request \cup Reader

NoStart  == -1
NoEpoch  == -1
NoWindow == [start |-> NoStart, used |-> 0, epoch |-> NoEpoch]
QuotaWindow == [start : Nat, used : Nat, epoch : Nat \cup {NoEpoch}]

Finished == {"created", "denied", "conflict"}
-----------------------------------------------------------------------------
(* The two implementations of the quota rule.  An operator whose name ends *)
(* in Slip is a mutant of the definition that follows it: the runs show    *)
(* which property notices.                                                 *)

\* core applyQuota.  It copies the record it is given, so a window it resets
\* keeps the epoch the script stored for the previous one.
ApplyQuota(existing, requested, now, p) ==
  LET expired   == now > existing.start + Hours[p]
      current   == IF expired THEN [existing EXCEPT !.start = now, !.used = 0]
                              ELSE existing
      projected == current.used + requested
  IN  IF projected > Limit[p]
      THEN [allowed |-> FALSE, window |-> current]
      ELSE [allowed |-> TRUE,  window |-> [current EXCEPT !.used = projected]]

\* What the script's slips have in common.
LuaReserveWith(current, bound) ==
  IF current.used + 1 > bound
  THEN [allowed |-> FALSE, window |-> current]
  ELSE [allowed |-> TRUE,  window |-> [current EXCEPT !.used = @ + 1]]

\* One image too many.
LuaReserveLimitSlip(existing, requested, now, p) ==
  LET epoch == IF existing.epoch = NoEpoch THEN now ELSE existing.epoch
  IN  LuaReserveWith(IF existing = NoWindow \/ now - epoch >= Hours[p]
                     THEN [start |-> now, used |-> 0, epoch |-> now]
                     ELSE [existing EXCEPT !.epoch = epoch],
                     Limit[p] + 1)

\* The epoch follows the last image instead of the first.
LuaReserveSlidingSlip(existing, requested, now, p) ==
  LET epoch == IF existing.epoch = NoEpoch THEN now ELSE existing.epoch
  IN  LuaReserveWith(IF existing = NoWindow \/ now - epoch >= Hours[p]
                     THEN [start |-> now, used |-> 0, epoch |-> now]
                     ELSE [existing EXCEPT !.epoch = now],
                     Limit[p])

\* The Lua script.  Expiry is measured from the stored epoch, and from now
\* when the record has none.
LuaReserve(existing, requested, now, p) ==
  LET start   == IF existing = NoWindow THEN now ELSE existing.start
      epoch   == IF existing.epoch = NoEpoch THEN now ELSE existing.epoch
      expired == now - epoch >= Hours[p]
      current == IF expired
                 THEN [start |-> now, used |-> 0, epoch |-> now]
                 ELSE [start |-> start, used |-> existing.used, epoch |-> epoch]
      next    == current.used + requested
  IN  IF next > Limit[p]
      THEN [allowed |-> FALSE, window |-> current]
      ELSE [allowed |-> TRUE,  window |-> [current EXCEPT !.used = next]]

\* The window a request starts from when the key is absent; the slip is to
\* start from the missing record itself.
DefaultQuota(now) == [start |-> now, used |-> 0, epoch |-> NoEpoch]

ExistingSlip(record, now) == record

ExistingOr(record, now) == IF record = NoWindow THEN DefaultQuota(now) ELSE record
-----------------------------------------------------------------------------
(* Redis: a write to the key dirties every connection that watches it.     *)

Touched(w) == [c \in Conn |-> IF w[c] = "clean" THEN "dirty" ELSE w[c]]

Write(record, w) == quota' = record /\ watch' = Touched(w)

Forget(w, c) == [w EXCEPT ![c] = "none"]
-----------------------------------------------------------------------------
Init ==
  /\ clock = 0
  /\ plan \in Plan
  /\ quota = NoWindow
  /\ watch = [c \in Conn |-> "none"]
  /\ pc = [q \in Proc |-> "idle"]
  /\ at = [q \in Proc |-> 0]
  /\ tier \in [Proc -> {plan}]
  /\ seen = [q \in Proc |-> NoWindow]
  /\ tries = [r \in Request |-> 0]
  /\ after = [r \in Request |-> "watch"]
  /\ granted = [r \in Request |-> NoStart]
  /\ drops = 0

Goto(q, label) == pc' = [pc EXCEPT ![q] = label]

\* The handler reads the clock before it awaits anything.
Arrive(q) ==
  /\ pc[q] = "idle"
  /\ Goto(q, "profile")
  /\ at' = [at EXCEPT ![q] = clock]
  /\ UNCHANGED <<clock, plan, quota, watch, tier, seen, tries, after, granted, drops>>

\* POST /api/jobs applies the plan of the profile.
ReadProfile(r) ==
  /\ pc[r] = "profile"
  /\ Goto(r, IF r \in LuaDown THEN "watch" ELSE "eval")
  /\ tier' = [tier EXCEPT ![r] = plan]
  /\ UNCHANGED <<clock, plan, quota, watch, at, seen, tries, after, granted, drops>>

\* EVAL: the script checks the window and, if there is room, writes the quota
\* and the job record in one step.
EvalReserve(r) ==
  LET result == LuaReserve(quota, 1, at[r], tier[r])
  IN  /\ pc[r] = "eval"
      /\ IF result.allowed
         THEN /\ Write(result.window, watch)
              /\ granted' = [granted EXCEPT ![r] = result.window.start]
              /\ Goto(r, "created")
         ELSE /\ Goto(r, "denied")
              /\ UNCHANGED <<quota, watch, granted>>
      /\ UNCHANGED <<clock, plan, at, tier, seen, tries, after, drops>>

\* The script ran but the connection was lost before its reply: the client
\* reconnects and sends the EVAL again.
EvalReplyLost(r) ==
  LET result == LuaReserve(quota, 1, at[r], tier[r])
  IN  /\ pc[r] = "eval"
      /\ drops < MaxDrops
      /\ drops' = drops + 1
      /\ result.allowed
      /\ Write(result.window, Forget(watch, ConnOf[r]))
      /\ granted' = [granted EXCEPT ![r] = result.window.start]
      /\ UNCHANGED <<clock, plan, pc, at, tier, seen, tries, after>>

\* A lost connection forgets what it watched.
Reconnect(c) ==
  /\ watch[c] # "none"
  /\ drops < MaxDrops
  /\ drops' = drops + 1
  /\ watch' = Forget(watch, c)
  /\ UNCHANGED <<clock, plan, quota, pc, at, tier, seen, tries, after, granted>>
-----------------------------------------------------------------------------
(* The optimistic fallback, one Redis command a step.                      *)

WatchKey(r) ==
  /\ pc[r] = "watch"
  /\ Goto(r, "get")
  /\ watch' = [watch EXCEPT ![ConnOf[r]] = IF @ = "none" THEN "clean" ELSE @]
  /\ UNCHANGED <<clock, plan, quota, at, tier, seen, tries, after, granted, drops>>

\* A missing record is created before the transaction, under the own WATCH.
GetKeyInitSlip(r) ==
  /\ pc[r] = "get"
  /\ Goto(r, "exec")
  /\ seen' = [seen EXCEPT ![r] = ExistingOr(quota, at[r])]
  /\ IF quota = NoWindow THEN Write(DefaultQuota(at[r]), watch) ELSE UNCHANGED <<quota, watch>>
  /\ UNCHANGED <<clock, plan, at, tier, tries, after, granted, drops>>

GetKey(r) ==
  /\ pc[r] = "get"
  /\ Goto(r, "exec")
  /\ seen' = [seen EXCEPT ![r] = quota]
  /\ UNCHANGED <<clock, plan, quota, watch, at, tier, tries, after, granted, drops>>

Decision(r) == ApplyQuota(ExistingOr(seen[r], at[r]), 1, at[r], tier[r])

\* Refused: an UNWATCH before the one in the finally block.
RefuseOptimistic(r) ==
  /\ pc[r] = "exec"
  /\ ~Decision(r).allowed
  /\ watch' = Forget(watch, ConnOf[r])
  /\ after' = [after EXCEPT ![r] = "denied"]
  /\ Goto(r, "unwatch")
  /\ UNCHANGED <<clock, plan, quota, at, tier, seen, tries, granted, drops>>

\* The two SETs without WATCH and EXEC around them.
ExecCommitSlip(r) ==
  /\ pc[r] = "exec"
  /\ Decision(r).allowed
  /\ Write(Decision(r).window, Forget(watch, ConnOf[r]))
  /\ granted' = [granted EXCEPT ![r] = Decision(r).window.start]
  /\ after' = [after EXCEPT ![r] = "created"]
  /\ Goto(r, "unwatch")
  /\ UNCHANGED <<clock, plan, at, tier, seen, tries, drops>>

\* MULTI, SET quota, SET job, EXEC, sent as one pipeline.
ExecCommit(r) ==
  /\ pc[r] = "exec"
  /\ Decision(r).allowed
  /\ watch[ConnOf[r]] # "dirty"
  /\ Write(Decision(r).window, Forget(watch, ConnOf[r]))
  /\ granted' = [granted EXCEPT ![r] = Decision(r).window.start]
  /\ after' = [after EXCEPT ![r] = "created"]
  /\ Goto(r, "unwatch")
  /\ UNCHANGED <<clock, plan, at, tier, seen, tries, drops>>

ExecAborted(r) ==
  /\ pc[r] = "exec"
  /\ Decision(r).allowed
  /\ watch[ConnOf[r]] = "dirty"
  /\ watch' = Forget(watch, ConnOf[r])
  /\ tries' = [tries EXCEPT ![r] = @ + 1]
  /\ after' = [after EXCEPT ![r] = IF tries[r] + 1 = MaxTries THEN "conflict" ELSE "watch"]
  /\ Goto(r, "unwatch")
  /\ UNCHANGED <<clock, plan, quota, at, tier, seen, granted, drops>>

\* finally: UNWATCH, which clears whatever the connection watches by now.
Unwatch(r) ==
  /\ pc[r] = "unwatch"
  /\ watch' = Forget(watch, ConnOf[r])
  /\ Goto(r, after[r])
  /\ UNCHANGED <<clock, plan, quota, at, tier, seen, tries, after, granted, drops>>
-----------------------------------------------------------------------------
(* GET /api/quota: a read and a write with nothing to tie them together.   *)

\* The plan is the query's if it names one, and the profile's otherwise.
ReadQuota(g) ==
  /\ pc[g] = "profile"
  /\ \E p \in Plan : tier' = [tier EXCEPT ![g] = p]
  /\ seen' = [seen EXCEPT ![g] = quota]
  /\ Goto(g, "roll")
  /\ UNCHANGED <<clock, plan, quota, watch, at, tries, after, granted, drops>>

RollQuota(g) ==
  LET rolled == ApplyQuota(ExistingOr(seen[g], at[g]), 0, at[g], tier[g]).window
  IN  /\ pc[g] = "roll"
      /\ Goto(g, "done")
      /\ IF rolled # seen[g] THEN Write(rolled, watch) ELSE UNCHANGED <<quota, watch>>
      /\ UNCHANGED <<clock, plan, at, tier, seen, tries, after, granted, drops>>
-----------------------------------------------------------------------------
\* The billing routes change the plan of the profile at any time.
ChangePlan(p) ==
  /\ p # plan
  /\ plan' = p
  /\ UNCHANGED <<clock, quota, watch, pc, at, tier, seen, tries, after, granted, drops>>

Tick ==
  /\ clock < MaxTime
  /\ clock' = clock + 1
  /\ UNCHANGED <<plan, quota, watch, pc, at, tier, seen, tries, after, granted, drops>>

Reserve(r) ==
  \/ ReadProfile(r)
  \/ EvalReserve(r) \/ EvalReplyLost(r)
  \/ WatchKey(r) \/ GetKey(r)
  \/ RefuseOptimistic(r) \/ ExecCommit(r) \/ ExecAborted(r) \/ Unwatch(r)

Next ==
  \/ \E q \in Proc : Arrive(q)
  \/ \E r \in Request : Reserve(r)
  \/ \E g \in Reader : ReadQuota(g) \/ RollQuota(g)
  \/ \E c \in Conn : Reconnect(c)
  \/ \E p \in Plan : ChangePlan(p)
  \/ Tick

Spec == Init /\ [][Next]_vars
-----------------------------------------------------------------------------
(* Properties.                                                             *)

\* Every variable stays in its type.
TypeOK ==
  /\ clock \in Nat
  /\ plan \in Plan
  /\ quota \in QuotaWindow \cup {NoWindow}
  /\ watch \in [Conn -> {"none", "clean", "dirty"}]
  /\ pc \in [Proc -> {"idle", "profile", "eval", "watch", "get", "exec",
                      "unwatch", "roll", "done"} \cup Finished]
  /\ at \in [Proc -> Nat]
  /\ tier \in [Proc -> Plan]
  /\ seen \in [Proc -> QuotaWindow \cup {NoWindow}]
  /\ tries \in [Request -> Nat]
  /\ after \in [Request -> {"watch"} \cup Finished]
  /\ granted \in [Request -> Nat \cup {NoStart}]
  /\ drops \in Nat

\* The requests whose job record was counted in the window that starts at w.
ChargedTo(w) == {r \in Request : granted[r] = w}

\* The stored count never exceeds what some plan allows, whatever path wrote it.
UsedWithinLimit ==
  quota # NoWindow => \E p \in Plan : quota.used <= Limit[p]

\* No admitted job is missing from the count of the window it was admitted in:
\* a concurrent reservation or roll never overwrites it.
NoUncountedGrant ==
  quota # NoWindow => Cardinality(ChargedTo(quota.start)) <= quota.used

\* A window never admits more jobs than a plan allows, counting every job
\* record ever written and not just what the key says now.
GrantsWithinLimit ==
  \A r \in Request : granted[r] # NoStart =>
    \E p \in Plan : Cardinality(ChargedTo(granted[r])) <= Limit[p]

\* Two windows that admitted jobs start at least the hours of a plan apart.
WindowsSpaced ==
  \A r, s \in Request :
    granted[r] # NoStart /\ granted[r] < granted[s] =>
      \E p \in Plan : granted[s] - granted[r] >= Hours[p]

\* A window that is over refuses nobody: the next request to reach the script
\* opens a new one.
ExpiredWindowAdmits ==
  quota # NoWindow =>
    \A p \in Plan : clock > quota.start + Hours[p] => LuaReserve(quota, 1, clock, p).allowed

\* A request gives up with a conflict only after losing to as many other
\* requests, so contention alone never starves everybody.
AbortsHaveWinners ==
  \A r \in Request : tries[r] <= Cardinality({s \in Request \ {r} : granted[s] # NoStart})

\* The record and the job keys implement the abstract ledger.
Ledger == INSTANCE QuotaLedger WITH
  window <- [start |-> quota.start, used |-> quota.used],
  Time <- 0..MaxTime

ImplementsLedger == Ledger!LedgerSpec
=============================================================================
