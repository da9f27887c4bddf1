----------------------------- MODULE QuotaProof -----------------------------
(***************************************************************************)
(* Quota for every number of requests, connections and plans: the type     *)
(* invariant and the bound on the stored count hold on every path; where   *)
(* all reservations go through the script, or all through transactions on  *)
(* connections of their own, Quota implements QuotaLedger, and an expired  *)
(* window or a lost race refuses nobody who should not be.                 *)
(***************************************************************************)
EXTENDS Quota, FiniteSetTheorems, TLAPS

\* applyQuota: the decision and the fields of the window, reset when the hours
\* have passed.
LEMMA ApplyQuotaValue ==
  ASSUME NEW w \in QuotaWindow, NEW n \in Nat, NEW now \in Nat, NEW p \in Plan,
         NEW d, d = ApplyQuota(w, n, now, p),
         NEW s, s = IF now > w.start + Hours[p] THEN now ELSE w.start,
         NEW u, u = IF now > w.start + Hours[p] THEN 0 ELSE w.used
  PROVE  \/ /\ u + n <= Limit[p]
            /\ d = [allowed |-> TRUE, window |-> [start |-> s, used |-> u + n, epoch |-> w.epoch]]
         \/ /\ u + n > Limit[p]
            /\ d = [allowed |-> FALSE, window |-> [start |-> s, used |-> u, epoch |-> w.epoch]]
<1>. DEFINE current == IF now > w.start + Hours[p]
                       THEN [w EXCEPT !.start = now, !.used = 0] ELSE w
<1>1. current = [start |-> s, used |-> u, epoch |-> w.epoch]
  BY DEF QuotaWindow
<1>2. d = IF current.used + n > Limit[p]
          THEN [allowed |-> FALSE, window |-> current]
          ELSE [allowed |-> TRUE,  window |-> [current EXCEPT !.used = current.used + n]]
  BY DEF ApplyQuota
<1>3. /\ u \in Nat /\ Limit[p] \in Nat
      /\ current.used = u
  BY <1>1, QuotaAssumption DEF QuotaWindow
<1>. HIDE DEF current
<1>4. CASE u + n > Limit[p]
  BY <1>1, <1>2, <1>3, <1>4
<1>5. CASE ~(u + n > Limit[p])
  <2>1. d = [allowed |-> TRUE, window |-> [current EXCEPT !.used = u + n]]
    BY <1>2, <1>3, <1>5
  <2>2. [current EXCEPT !.used = u + n] = [start |-> s, used |-> u + n, epoch |-> w.epoch]
    BY <1>1
  <2>3. u + n <= Limit[p]
    BY <1>3, <1>5
  <2>4. d = [allowed |-> TRUE, window |-> [start |-> s, used |-> u + n, epoch |-> w.epoch]]
    BY <2>1, <2>2, Zenon
  <2>. QED
    BY <2>3, <2>4
<1>. QED
  BY <1>4, <1>5

LEMMA ApplyQuotaType ==
  ASSUME NEW w \in QuotaWindow, NEW n \in Nat, NEW now \in Nat, NEW p \in Plan
  PROVE  /\ ApplyQuota(w, n, now, p).allowed \in BOOLEAN
         /\ ApplyQuota(w, n, now, p).window \in QuotaWindow
         /\ ApplyQuota(w, n, now, p).window.epoch = w.epoch
<1>. DEFINE s == IF now > w.start + Hours[p] THEN now ELSE w.start
            u == IF now > w.start + Hours[p] THEN 0 ELSE w.used
<1>1. s \in Nat /\ u \in Nat /\ w.epoch \in Nat \cup {NoEpoch}
  BY QuotaAssumption DEF QuotaWindow
<1>2. \/ ApplyQuota(w, n, now, p) =
            [allowed |-> TRUE, window |-> [start |-> s, used |-> u + n, epoch |-> w.epoch]]
      \/ ApplyQuota(w, n, now, p) =
            [allowed |-> FALSE, window |-> [start |-> s, used |-> u, epoch |-> w.epoch]]
  BY ApplyQuotaValue
<1>. HIDE DEF s, u
<1>3. /\ [start |-> s, used |-> u + n, epoch |-> w.epoch] \in QuotaWindow
      /\ [start |-> s, used |-> u, epoch |-> w.epoch] \in QuotaWindow
  BY <1>1 DEF QuotaWindow
<1>4. CASE ApplyQuota(w, n, now, p) =
            [allowed |-> TRUE, window |-> [start |-> s, used |-> u + n, epoch |-> w.epoch]]
  BY <1>3, <1>4
<1>5. CASE ApplyQuota(w, n, now, p) =
            [allowed |-> FALSE, window |-> [start |-> s, used |-> u, epoch |-> w.epoch]]
  BY <1>3, <1>5
<1>. QED
  BY <1>2, <1>4, <1>5

LEMMA LuaReserveType ==
  ASSUME NEW w \in QuotaWindow \cup {NoWindow}, NEW n \in Nat, NEW now \in Nat, NEW p \in Plan
  PROVE  /\ LuaReserve(w, n, now, p).allowed \in BOOLEAN
         /\ LuaReserve(w, n, now, p).window \in QuotaWindow
BY QuotaAssumption DEF LuaReserve, QuotaWindow, NoWindow, NoStart, NoEpoch

LEMMA ExistingType ==
  ASSUME NEW w \in QuotaWindow \cup {NoWindow}, NEW now \in Nat
  PROVE  ExistingOr(w, now) \in QuotaWindow
BY DEF ExistingOr, DefaultQuota, QuotaWindow, NoWindow, NoStart, NoEpoch

LEMMA TouchedType ==
  ASSUME NEW w \in [Conn -> {"none", "clean", "dirty"}]
  PROVE  Touched(w) \in [Conn -> {"none", "clean", "dirty"}]
BY DEF Touched

LEMMA ForgetType ==
  ASSUME NEW w \in [Conn -> {"none", "clean", "dirty"}], NEW c
  PROVE  Forget(w, c) \in [Conn -> {"none", "clean", "dirty"}]
BY DEF Forget

LEMMA DecisionType ==
  ASSUME TypeOK, NEW r \in Request
  PROVE  /\ Decision(r).allowed \in BOOLEAN
         /\ Decision(r).window \in QuotaWindow
         /\ Decision(r).window.epoch = ExistingOr(seen[r], at[r]).epoch
<1>1. ExistingOr(seen[r], at[r]) \in QuotaWindow /\ at[r] \in Nat /\ tier[r] \in Plan
  BY ExistingType DEF TypeOK, Proc
<1>. QED
  BY <1>1, ApplyQuotaType DEF Decision

LEMMA InitTypeOK == Init => TypeOK
BY QuotaAssumption DEF Init, TypeOK, Proc, Finished

LEMMA StepTypeOK == TypeOK /\ [Next]_vars => TypeOK'
<1>. SUFFICES ASSUME TypeOK, [Next]_vars PROVE TypeOK'
  OBVIOUS
<1>. USE QuotaAssumption DEF Goto, Proc, Finished
<1>1. ASSUME NEW q \in Proc, Arrive(q) PROVE TypeOK'
  BY <1>1 DEF Arrive, TypeOK
<1>2. ASSUME NEW r \in Request, ReadProfile(r) PROVE TypeOK'
  BY <1>2 DEF ReadProfile, TypeOK
<1>3. ASSUME NEW r \in Request, EvalReserve(r) PROVE TypeOK'
  <2>. DEFINE result == LuaReserve(quota, 1, at[r], tier[r])
  <2>1. result.window \in QuotaWindow /\ result.window.start \in Nat
    BY LuaReserveType DEF TypeOK, QuotaWindow
  <2>. HIDE DEF result
  <2>2. CASE result.allowed
    <3>1. quota' \in QuotaWindow /\ watch' = Touched(watch)
      BY <1>3, <2>1, <2>2 DEF EvalReserve, Write, result
    <3>2. watch' \in [Conn -> {"none", "clean", "dirty"}]
      BY <3>1, TouchedType DEF TypeOK
    <3>3. granted' = [granted EXCEPT ![r] = result.window.start] /\ pc' = [pc EXCEPT ![r] = "created"]
      BY <1>3, <2>2 DEF EvalReserve, result
    <3>. QED
      BY <1>3, <2>1, <3>1, <3>2, <3>3 DEF EvalReserve, TypeOK
  <2>3. CASE ~result.allowed
    BY <1>3, <2>3 DEF EvalReserve, TypeOK, result
  <2>. QED
    BY <2>2, <2>3
<1>4. ASSUME NEW r \in Request, EvalReplyLost(r) PROVE TypeOK'
  <2>. DEFINE result == LuaReserve(quota, 1, at[r], tier[r])
  <2>1. result.window \in QuotaWindow /\ result.window.start \in Nat
    BY LuaReserveType DEF TypeOK, QuotaWindow
  <2>. HIDE DEF result
  <2>2. quota' \in QuotaWindow /\ watch' = Touched(Forget(watch, ConnOf[r]))
    BY <1>4, <2>1 DEF EvalReplyLost, Write, result
  <2>3. watch' \in [Conn -> {"none", "clean", "dirty"}]
    BY <2>2, TouchedType, ForgetType DEF TypeOK
  <2>4. granted' = [granted EXCEPT ![r] = result.window.start]
    BY <1>4 DEF EvalReplyLost, result
  <2>. QED
    BY <1>4, <2>1, <2>2, <2>3, <2>4 DEF EvalReplyLost, TypeOK
<1>5. ASSUME NEW r \in Request, WatchKey(r) PROVE TypeOK'
  BY <1>5 DEF WatchKey, TypeOK
<1>6. ASSUME NEW r \in Request, GetKey(r) PROVE TypeOK'
  BY <1>6 DEF GetKey, TypeOK
<1>7. ASSUME NEW r \in Request, RefuseOptimistic(r) PROVE TypeOK'
  BY <1>7, ForgetType DEF RefuseOptimistic, TypeOK
<1>8. ASSUME NEW r \in Request, ExecCommit(r) PROVE TypeOK'
  <2>1. Decision(r).window \in QuotaWindow /\ Decision(r).window.start \in Nat
    BY DecisionType DEF QuotaWindow
  <2>2. quota' = Decision(r).window /\ watch' = Touched(Forget(watch, ConnOf[r]))
    BY <1>8 DEF ExecCommit, Write
  <2>3. watch' \in [Conn -> {"none", "clean", "dirty"}]
    BY <2>2, TouchedType, ForgetType DEF TypeOK
  <2>. QED
    BY <1>8, <2>1, <2>2, <2>3 DEF ExecCommit, TypeOK
<1>9. ASSUME NEW r \in Request, ExecAborted(r) PROVE TypeOK'
  BY <1>9, ForgetType DEF ExecAborted, TypeOK
<1>10. ASSUME NEW r \in Request, Unwatch(r) PROVE TypeOK'
  BY <1>10, ForgetType DEF Unwatch, TypeOK
<1>11. ASSUME NEW g \in Reader, ReadQuota(g) PROVE TypeOK'
  BY <1>11 DEF ReadQuota, TypeOK
<1>12. ASSUME NEW g \in Reader, RollQuota(g) PROVE TypeOK'
  <2>. DEFINE rolled == ApplyQuota(ExistingOr(seen[g], at[g]), 0, at[g], tier[g]).window
  <2>1. rolled \in QuotaWindow
    BY ExistingType, ApplyQuotaType DEF TypeOK
  <2>. HIDE DEF rolled
  <2>2. \/ quota' = rolled /\ watch' = Touched(watch)
        \/ UNCHANGED <<quota, watch>>
    BY <1>12 DEF RollQuota, Write, rolled
  <2>3. watch' \in [Conn -> {"none", "clean", "dirty"}]
    BY <2>2, TouchedType DEF TypeOK
  <2>. QED
    BY <1>12, <2>1, <2>2, <2>3 DEF RollQuota, TypeOK
<1>13. ASSUME NEW c \in Conn, Reconnect(c) PROVE TypeOK'
  BY <1>13, ForgetType DEF Reconnect, TypeOK
<1>14. ASSUME NEW p \in Plan, ChangePlan(p) PROVE TypeOK'
  BY <1>14 DEF ChangePlan, TypeOK
<1>15. CASE Tick
  BY <1>15 DEF Tick, TypeOK
<1>16. CASE UNCHANGED vars
  BY <1>16 DEF vars, TypeOK
<1>. QED
  BY <1>1, <1>2, <1>3, <1>4, <1>5, <1>6, <1>7, <1>8, <1>9, <1>10, <1>11, <1>12,
     <1>13, <1>14, <1>15, <1>16 DEF Next, Reserve

\* Every reachable state is well typed.
THEOREM QuotaTypeOK == Spec => []TypeOK
BY InitTypeOK, StepTypeOK, PTL DEF Spec
-----------------------------------------------------------------------------
(* The stored count is within a limit whatever path wrote it, because each *)
(* path checks the limit before it writes and a roll only keeps or clears  *)
(* a count that was read from the key.                                     *)

Fits(w) == w # NoWindow => \E p \in Plan : w.used <= Limit[p]

CountInv == TypeOK /\ Fits(quota) /\ \A q \in Proc : Fits(seen[q])

\* The script: a reservation it admits.
LEMMA LuaReserveValue ==
  ASSUME NEW w \in QuotaWindow \cup {NoWindow}, NEW now \in Nat, NEW p \in Plan,
         LuaReserve(w, 1, now, p).allowed,
         NEW e, e = IF w.epoch = NoEpoch THEN now ELSE w.epoch
  PROVE  LET d == LuaReserve(w, 1, now, p).window
         IN  /\ d.used <= Limit[p]
             /\ \/ now - e >= Hours[p] /\ d = [start |-> now, used |-> 1, epoch |-> now]
                \/ /\ now - e < Hours[p]
                   /\ d = [start |-> IF w = NoWindow THEN now ELSE w.start,
                           used |-> w.used + 1, epoch |-> e]
<1>. DEFINE s == IF w = NoWindow THEN now ELSE w.start
            current == IF now - e >= Hours[p]
                       THEN [start |-> now, used |-> 0, epoch |-> now]
                       ELSE [start |-> s, used |-> w.used, epoch |-> e]
<1>1. LuaReserve(w, 1, now, p) =
        IF current.used + 1 > Limit[p]
        THEN [allowed |-> FALSE, window |-> current]
        ELSE [allowed |-> TRUE,  window |-> [current EXCEPT !.used = current.used + 1]]
  BY DEF LuaReserve
<1>2. /\ Limit[p] \in Nat /\ Hours[p] \in Nat /\ e \in Nat
      /\ w.used \in Nat /\ w.epoch \in Nat \cup {-1}
  BY QuotaAssumption DEF QuotaWindow, NoWindow, NoEpoch
<1>3. \/ now - e >= Hours[p] /\ current = [start |-> now, used |-> 0, epoch |-> now]
      \/ now - e < Hours[p] /\ current = [start |-> s, used |-> w.used, epoch |-> e]
  BY <1>2
<1>. HIDE DEF current, s
<1>4. current.used \in Nat
  BY <1>2, <1>3
<1>5. /\ current.used + 1 <= Limit[p]
      /\ LuaReserve(w, 1, now, p).window = [current EXCEPT !.used = current.used + 1]
  BY <1>1, <1>2, <1>4
<1>6. CASE now - e >= Hours[p] /\ current = [start |-> now, used |-> 0, epoch |-> now]
  BY <1>5, <1>6
<1>7. CASE now - e < Hours[p] /\ current = [start |-> s, used |-> w.used, epoch |-> e]
  BY <1>5, <1>7 DEF s
<1>. QED
  BY <1>3, <1>6, <1>7

LEMMA ApplyQuotaFits ==
  ASSUME NEW w \in QuotaWindow, Fits(w), NEW n \in Nat, NEW now \in Nat, NEW p \in Plan
  PROVE  Fits(ApplyQuota(w, n, now, p).window)
<1>. DEFINE s == IF now > w.start + Hours[p] THEN now ELSE w.start
            u == IF now > w.start + Hours[p] THEN 0 ELSE w.used
<1>1. \/ /\ u + n <= Limit[p]
         /\ ApplyQuota(w, n, now, p) =
              [allowed |-> TRUE, window |-> [start |-> s, used |-> u + n, epoch |-> w.epoch]]
      \/ ApplyQuota(w, n, now, p) =
              [allowed |-> FALSE, window |-> [start |-> s, used |-> u, epoch |-> w.epoch]]
  BY ApplyQuotaValue
<1>2. \E q \in Plan : u <= Limit[q]
  <2>1. w # NoWindow
    BY DEF QuotaWindow, NoWindow, NoStart
  <2>2. PICK q \in Plan : w.used <= Limit[q]
    BY <2>1 DEF Fits
  <2>. QED
    BY <2>2, QuotaAssumption DEF QuotaWindow
<1>. HIDE DEF s, u
<1>. QED
  BY <1>1, <1>2 DEF Fits

LEMMA ExistingFits ==
  ASSUME NEW w \in QuotaWindow \cup {NoWindow}, Fits(w), NEW now \in Nat
  PROVE  Fits(ExistingOr(w, now))
BY QuotaAssumption DEF Fits, ExistingOr, DefaultQuota

LEMMA StepCountInv == CountInv /\ [Next]_vars => CountInv'
<1>. SUFFICES ASSUME CountInv, [Next]_vars PROVE CountInv'
  OBVIOUS
<1>1. TypeOK /\ TypeOK'
  BY StepTypeOK DEF CountInv
<1>2. ASSUME UNCHANGED <<quota, seen>> PROVE CountInv'
  BY <1>1, <1>2 DEF CountInv, Fits
<1>3. ASSUME NEW q \in Proc, seen' = [seen EXCEPT ![q] = quota], UNCHANGED quota
      PROVE  CountInv'
  BY <1>1, <1>3 DEF CountInv, Fits, TypeOK
<1>4. ASSUME Fits(quota'), UNCHANGED seen PROVE CountInv'
  BY <1>1, <1>4 DEF CountInv, Fits
<1>5. ASSUME NEW r \in Request, LuaReserve(quota, 1, at[r], tier[r]).allowed
      PROVE  Fits(LuaReserve(quota, 1, at[r], tier[r]).window)
  <2>1. LuaReserve(quota, 1, at[r], tier[r]).window.used <= Limit[tier[r]]
    <3>1. /\ quota \in QuotaWindow \cup {NoWindow}
          /\ at[r] \in Nat /\ tier[r] \in Plan
      BY <1>1 DEF TypeOK, Proc
    <3>2. PICK e : e = IF quota.epoch = NoEpoch THEN at[r] ELSE quota.epoch
      OBVIOUS
    <3>. QED
      BY <1>5, <3>1, <3>2, LuaReserveValue
  <2>. QED
    BY <1>1, <2>1 DEF Fits, TypeOK, Proc
<1>6. ASSUME NEW q \in Proc, NEW n \in Nat
      PROVE  Fits(ApplyQuota(ExistingOr(seen[q], at[q]), n, at[q], tier[q]).window)
  BY <1>1, ExistingType, ExistingFits, ApplyQuotaFits DEF CountInv, TypeOK
<1>7. ASSUME NEW r \in Request, Reserve(r) PROVE CountInv'
  <2>1. CASE EvalReserve(r)
    BY <2>1, <1>2, <1>4, <1>5 DEF EvalReserve, Write
  <2>2. CASE EvalReplyLost(r)
    BY <2>2, <1>4, <1>5 DEF EvalReplyLost, Write
  <2>3. CASE GetKey(r)
    BY <2>3, <1>3 DEF GetKey, Proc
  <2>4. CASE ExecCommit(r)
    BY <2>4, <1>4, <1>6 DEF ExecCommit, Write, Decision, Proc
  <2>5. CASE ReadProfile(r) \/ WatchKey(r) \/ RefuseOptimistic(r) \/ ExecAborted(r) \/ Unwatch(r)
    BY <2>5, <1>2 DEF ReadProfile, WatchKey, RefuseOptimistic, ExecAborted, Unwatch
  <2>. QED
    BY <1>7, <2>1, <2>2, <2>3, <2>4, <2>5 DEF Reserve
<1>8. ASSUME NEW g \in Reader, ReadQuota(g) \/ RollQuota(g) PROVE CountInv'
  <2>1. CASE ReadQuota(g)
    BY <2>1, <1>3 DEF ReadQuota, Proc
  <2>2. CASE RollQuota(g)
    BY <2>2, <1>2, <1>4, <1>6 DEF RollQuota, Write, Proc
  <2>. QED
    BY <1>8, <2>1, <2>2
<1>9. CASE \/ \E q \in Proc : Arrive(q)
           \/ \E c \in Conn : Reconnect(c)
           \/ \E p \in Plan : ChangePlan(p)
           \/ Tick
           \/ UNCHANGED vars
  BY <1>9, <1>2 DEF Arrive, Reconnect, ChangePlan, Tick, vars
<1>. QED
  BY <1>7, <1>8, <1>9 DEF Next

\* With any mix of scripts, transactions, shared connections, lost replies and
\* readers, the stored count never exceeds what a plan allows.
THEOREM QuotaUsedWithinLimit == Spec => []UsedWithinLimit
<1>1. Init => CountInv
  BY InitTypeOK DEF Init, CountInv, Fits
<1>2. CountInv => UsedWithinLimit
  BY DEF CountInv, Fits, UsedWithinLimit
<1>. QED
  BY <1>1, <1>2, StepCountInv, PTL DEF Spec
-----------------------------------------------------------------------------
(* Quota implements QuotaLedger in the two deployments in which every      *)
(* reservation is serialised by Redis and no GET /api/quota rolls the      *)
(* window: all through the script, on any connections, replies lost or     *)
(* not; and all through WATCH/MULTI/EXEC, each on a connection of its own  *)
(* that is never lost.  What the ledger promises follows for both.         *)

ScriptOnly == Reader = {} /\ LuaDown = {}

TransactionOnly ==
  /\ Reader = {}
  /\ LuaDown = Request
  /\ MaxDrops = 0
  /\ \A r, s \in Request : ConnOf[r] = ConnOf[s] => r = s

\* Requests arrive while the clock runs.
InTime == clock \in 0..MaxTime /\ \A r \in Request : at[r] \in 0..MaxTime

\* A write of the quota key that charges r is a step of the ledger.
LEMMA LedgerStep ==
  ASSUME TypeOK, NEW r \in Request, NEW p \in Plan, NEW now \in 0..MaxTime,
         quota' \in QuotaWindow,
         granted' = [granted EXCEPT ![r] = quota'.start],
         \/ /\ quota # NoWindow
            /\ now - quota.start <= Hours[p]
            /\ quota.used < Limit[p]
            /\ quota'.start = quota.start
            /\ quota'.used = quota.used + 1
         \/ /\ quota # NoWindow => now - quota.start >= Hours[p]
            /\ quota'.start = now
            /\ quota'.used = 1
  PROVE  Ledger!LedgerNext
<1>1. CASE /\ quota # NoWindow
           /\ now - quota.start <= Hours[p]
           /\ quota.used < Limit[p]
           /\ quota'.start = quota.start
           /\ quota'.used = quota.used + 1
  <2>1. quota.start \in Nat
    BY <1>1 DEF TypeOK, QuotaWindow
  <2>2. Ledger!Charge(r, p, now)
    BY <1>1, <2>1 DEF Ledger!Charge, Ledger!Closed, Ledger!NoStart
  <2>. QED
    BY <2>2 DEF Ledger!LedgerNext
<1>2. CASE /\ quota # NoWindow => now - quota.start >= Hours[p]
           /\ quota'.start = now
           /\ quota'.used = 1
  <2>1. quota = NoWindow =>
          [start |-> quota.start, used |-> quota.used] = Ledger!Closed
    BY DEF NoWindow, NoStart, Ledger!Closed, Ledger!NoStart
  <2>2. Limit[p] > 0
    BY QuotaAssumption
  <2>3. Ledger!Open(r, p, now)
    BY <1>2, <2>1, <2>2 DEF Ledger!Open
  <2>. QED
    BY <2>3 DEF Ledger!LedgerNext
<1>. QED
  BY <1>1, <1>2

LEMMA LedgerStutter ==
  ASSUME UNCHANGED <<quota, granted>>
  PROVE  UNCHANGED Ledger!ledgerVars
BY DEF Ledger!ledgerVars

LEMMA LedgerStart == Init => Ledger!LedgerInit
BY DEF Init, NoWindow, NoStart, Ledger!LedgerInit, Ledger!Closed, Ledger!NoStart

-----------------------------------------------------------------------------
(* All reservations through the script.  The stored epoch is the start of  *)
(* the window, which is what makes the script's expiry test the ledger's.  *)

ScriptInv ==
  /\ TypeOK
  /\ InTime
  /\ quota # NoWindow => quota.epoch = quota.start
  /\ \A r \in Request : pc[r] \in {"idle", "profile", "eval", "created", "denied"}

\* The script's write, when the epoch is the start.
LEMMA ScriptCharges ==
  ASSUME ScriptInv, NEW r \in Request,
         LuaReserve(quota, 1, at[r], tier[r]).allowed,
         quota' = LuaReserve(quota, 1, at[r], tier[r]).window,
         granted' = [granted EXCEPT ![r] = LuaReserve(quota, 1, at[r], tier[r]).window.start]
  PROVE  /\ quota' \in QuotaWindow
         /\ quota'.epoch = quota'.start
         /\ Ledger!LedgerNext
<1>. DEFINE p == tier[r]
            now == at[r]
            e == IF quota.epoch = NoEpoch THEN now ELSE quota.epoch
<1>1. /\ TypeOK /\ p \in Plan /\ now \in 0..MaxTime /\ now \in Nat
      /\ quota \in QuotaWindow \cup {NoWindow}
      /\ Hours[p] \in Nat \ {0} /\ Limit[p] \in Nat
  BY QuotaAssumption DEF ScriptInv, InTime, TypeOK, Proc
<1>2. quota' \in QuotaWindow
  BY <1>1, LuaReserveType
<1>3. /\ quota'.used <= Limit[p]
      /\ \/ now - e >= Hours[p] /\ quota' = [start |-> now, used |-> 1, epoch |-> now]
         \/ /\ now - e < Hours[p]
            /\ quota' = [start |-> IF quota = NoWindow THEN now ELSE quota.start,
                         used |-> quota.used + 1, epoch |-> e]
  BY <1>1, LuaReserveValue
<1>4. \/ /\ quota = NoWindow /\ e = now /\ quota.used = 0
      \/ /\ quota # NoWindow /\ quota \in QuotaWindow /\ e = quota.start
  BY <1>1 DEF ScriptInv, QuotaWindow, NoWindow, NoEpoch
<1>. HIDE DEF p, now, e
<1>5. quota'.epoch = quota'.start
  BY <1>1, <1>3, <1>4
<1>6. \/ /\ quota # NoWindow
         /\ now - quota.start <= Hours[p]
         /\ quota.used < Limit[p]
         /\ quota'.start = quota.start
         /\ quota'.used = quota.used + 1
      \/ /\ quota # NoWindow => now - quota.start >= Hours[p]
         /\ quota'.start = now
         /\ quota'.used = 1
  BY <1>1, <1>3, <1>4 DEF QuotaWindow
<1>. QED
  BY <1>1, <1>2, <1>5, <1>6, LedgerStep

LEMMA ScriptStep ==
  ASSUME ScriptOnly, ScriptInv, [Next]_vars
  PROVE  ScriptInv' /\ [Ledger!LedgerNext]_(Ledger!ledgerVars)
<1>. USE QuotaAssumption
<1>1. TypeOK'
  BY StepTypeOK DEF ScriptInv
<1>2. TypeOK /\ InTime
  BY DEF ScriptInv
<1>3. CASE UNCHANGED <<quota, granted>> /\ InTime'
           /\ \A r \in Request : pc'[r] \in {"idle", "profile", "eval", "created", "denied"}
  BY <1>1, <1>3, LedgerStutter DEF ScriptInv
<1>4. ASSUME NEW r \in Request, EvalReserve(r) \/ EvalReplyLost(r),
             LuaReserve(quota, 1, at[r], tier[r]).allowed
      PROVE  ScriptInv' /\ [Ledger!LedgerNext]_(Ledger!ledgerVars)
  <2>1. /\ quota' = LuaReserve(quota, 1, at[r], tier[r]).window
        /\ granted' = [granted EXCEPT ![r] = LuaReserve(quota, 1, at[r], tier[r]).window.start]
        /\ UNCHANGED <<clock, at>>
        /\ pc' = [pc EXCEPT ![r] = "created"] \/ pc' = pc
    BY <1>4 DEF EvalReserve, EvalReplyLost, Write, Goto
  <2>2. quota'.epoch = quota'.start /\ Ledger!LedgerNext
    BY <2>1, <1>4, ScriptCharges
  <2>3. InTime' /\ \A s \in Request : pc'[s] \in {"idle", "profile", "eval", "created", "denied"}
    BY <1>2, <2>1 DEF ScriptInv, InTime, TypeOK, Proc
  <2>. QED
    BY <1>1, <2>2, <2>3 DEF ScriptInv
<1>5. ASSUME NEW r \in Request, Reserve(r)
      PROVE  ScriptInv' /\ [Ledger!LedgerNext]_(Ledger!ledgerVars)
  <2>1. CASE ReadProfile(r)
    BY <2>1, <1>2, <1>3 DEF ReadProfile, Goto, ScriptInv, ScriptOnly, InTime, TypeOK, Proc
  <2>2. CASE EvalReserve(r)
    <3>1. CASE LuaReserve(quota, 1, at[r], tier[r]).allowed
      BY <2>2, <3>1, <1>4
    <3>2. CASE ~LuaReserve(quota, 1, at[r], tier[r]).allowed
      BY <2>2, <3>2, <1>2, <1>3 DEF EvalReserve, Goto, ScriptInv, InTime, TypeOK, Proc
    <3>. QED
      BY <3>1, <3>2
  <2>3. CASE EvalReplyLost(r)
    BY <2>3, <1>4 DEF EvalReplyLost
  <2>4. CASE \/ WatchKey(r) \/ GetKey(r) \/ RefuseOptimistic(r)
             \/ ExecCommit(r) \/ ExecAborted(r) \/ Unwatch(r)
    BY <2>4 DEF WatchKey, GetKey, RefuseOptimistic, ExecCommit, ExecAborted, Unwatch, ScriptInv
  <2>. QED
    BY <1>5, <2>1, <2>2, <2>3, <2>4 DEF Reserve
<1>6. ASSUME NEW q \in Proc, Arrive(q)
      PROVE  ScriptInv' /\ [Ledger!LedgerNext]_(Ledger!ledgerVars)
  BY <1>6, <1>2, <1>3 DEF Arrive, Goto, ScriptInv, ScriptOnly, InTime, TypeOK, Proc
<1>7. CASE \/ \E c \in Conn : Reconnect(c)
           \/ \E p \in Plan : ChangePlan(p)
           \/ UNCHANGED vars
  BY <1>7, <1>2, <1>3 DEF Reconnect, ChangePlan, vars, ScriptInv, InTime
<1>8. CASE Tick
  BY <1>8, <1>2, <1>3 DEF Tick, ScriptInv, InTime, TypeOK
<1>. QED
  BY <1>5, <1>6, <1>7, <1>8 DEF Next, ScriptOnly

\* With every reservation made by the script, on however many connections and
\* with replies lost at any time, the quota is the abstract ledger.
THEOREM ScriptImplementsLedger ==
  ASSUME ScriptOnly
  PROVE  Spec => ImplementsLedger
<1>1. Init => ScriptInv
  BY InitTypeOK, QuotaAssumption DEF Init, ScriptInv, InTime, Proc
<1>2. ScriptInv /\ [Next]_vars => ScriptInv' /\ [Ledger!LedgerNext]_(Ledger!ledgerVars)
  BY ScriptStep
<1>. QED
  BY <1>1, <1>2, LedgerStart, PTL DEF Spec, ImplementsLedger, Ledger!LedgerSpec

\* The script opens a new window when the epoch it goes by is old enough.
LEMMA LuaReserveAdmitsExpired ==
  ASSUME NEW w \in QuotaWindow, w.epoch = w.start,
         NEW now \in Nat, NEW p \in Plan, now > w.start + Hours[p]
  PROVE  LuaReserve(w, 1, now, p).allowed
<1>1. /\ w.start \in Nat /\ w.epoch # NoEpoch
      /\ Hours[p] \in Nat /\ Limit[p] \in Nat \ {0}
  BY QuotaAssumption DEF QuotaWindow, NoEpoch
<1>2. now - w.epoch >= Hours[p]
  BY <1>1
<1>3. ~(0 + 1 > Limit[p])
  BY <1>1
<1>. QED
  BY <1>1, <1>2, <1>3 DEF LuaReserve

\* With every reservation made by the script, a window that is over refuses
\* nobody, since no stored epoch is later than the start of its window.
THEOREM ScriptExpiredWindowAdmits ==
  ASSUME ScriptOnly
  PROVE  Spec => []ExpiredWindowAdmits
<1>1. Init => ScriptInv
  BY InitTypeOK, QuotaAssumption DEF Init, ScriptInv, InTime, Proc
<1>2. ScriptInv /\ [Next]_vars => ScriptInv'
  BY ScriptStep
<1>3. ScriptInv => ExpiredWindowAdmits
  BY LuaReserveAdmitsExpired DEF ScriptInv, TypeOK, ExpiredWindowAdmits
<1>. QED
  BY <1>1, <1>2, <1>3, PTL DEF Spec
-----------------------------------------------------------------------------
(* All reservations through transactions, one connection a request.  A     *)
(* clean watch says that the record the request read is still the stored   *)
(* one, which is what makes the check it made on it the ledger's.          *)

TransactionInv ==
  /\ TypeOK
  /\ InTime
  /\ \A r \in Request :
       /\ pc[r] \in {"idle", "profile", "watch", "get", "exec", "unwatch"} \cup Finished
       /\ pc[r] \in {"get", "exec"} => watch[ConnOf[r]] # "none"
       /\ pc[r] = "exec" /\ watch[ConnOf[r]] = "clean" => seen[r] = quota

\* What applyQuota does with one image it admits.
LEMMA ApplyQuotaAdmits ==
  ASSUME NEW w \in QuotaWindow, NEW now \in Nat, NEW p \in Plan,
         NEW d, d = ApplyQuota(w, 1, now, p), d.allowed
  PROVE  /\ d.window \in QuotaWindow
         /\ \/ now > w.start + Hours[p] /\ d.window.start = now /\ d.window.used = 1
            \/ /\ ~(now > w.start + Hours[p])
               /\ w.used + 1 <= Limit[p]
               /\ d.window.start = w.start /\ d.window.used = w.used + 1
<1>. DEFINE s == IF now > w.start + Hours[p] THEN now ELSE w.start
            u == IF now > w.start + Hours[p] THEN 0 ELSE w.used
<1>1. \/ /\ u + 1 <= Limit[p]
         /\ d = [allowed |-> TRUE, window |-> [start |-> s, used |-> u + 1, epoch |-> w.epoch]]
      \/ /\ u + 1 > Limit[p]
         /\ d = [allowed |-> FALSE, window |-> [start |-> s, used |-> u, epoch |-> w.epoch]]
  BY ApplyQuotaValue
<1>2. u \in Nat
  BY DEF QuotaWindow
<1>3. u + 1 <= Limit[p] /\ d.window.start = s /\ d.window.used = u + 1
  <2>. HIDE DEF s, u
  <2>. QED
    BY <1>1
<1>4. d.window \in QuotaWindow
  BY ApplyQuotaType
<1>. QED
  BY <1>2, <1>3, <1>4

\* A decision made on the stored record, written back.
LEMMA DecisionCharges ==
  ASSUME TypeOK, InTime, NEW r \in Request,
         seen[r] = quota,
         Decision(r).allowed,
         quota' = Decision(r).window,
         granted' = [granted EXCEPT ![r] = Decision(r).window.start]
  PROVE  Ledger!LedgerNext
<1>. DEFINE p == tier[r]
            now == at[r]
            w == ExistingOr(quota, now)
            d == ApplyQuota(w, 1, now, p)
<1>1. /\ p \in Plan /\ now \in 0..MaxTime /\ now \in Nat
      /\ quota \in QuotaWindow \cup {NoWindow}
      /\ Hours[p] \in Nat \ {0} /\ Limit[p] \in Nat
  BY QuotaAssumption DEF InTime, TypeOK, Proc
<1>2. w \in QuotaWindow
  BY <1>1, ExistingType
<1>3. /\ d.window \in QuotaWindow
      /\ \/ now > w.start + Hours[p] /\ d.window.start = now /\ d.window.used = 1
         \/ /\ ~(now > w.start + Hours[p])
            /\ w.used + 1 <= Limit[p]
            /\ d.window.start = w.start /\ d.window.used = w.used + 1
  <2>1. d.allowed
    BY DEF Decision
  <2>. QED
    BY <1>1, <1>2, <2>1, ApplyQuotaAdmits
<1>4. quota' = d.window
  BY DEF Decision
<1>5. \/ quota = NoWindow /\ w.start = now /\ w.used = 0
      \/ quota # NoWindow /\ w = quota
  BY DEF ExistingOr, DefaultQuota
<1>6. w.start \in Nat /\ w.used \in Nat
  BY <1>2 DEF QuotaWindow
<1>. HIDE DEF w, p, now, d
<1>7. \/ /\ quota # NoWindow
         /\ now - quota.start <= Hours[p]
         /\ quota.used < Limit[p]
         /\ quota'.start = quota.start
         /\ quota'.used = quota.used + 1
      \/ /\ quota # NoWindow => now - quota.start >= Hours[p]
         /\ quota'.start = now
         /\ quota'.used = 1
  BY <1>1, <1>3, <1>4, <1>5, <1>6
<1>8. granted' = [granted EXCEPT ![r] = quota'.start]
  OBVIOUS
<1>. QED
  BY <1>1, <1>3, <1>4, <1>7, <1>8, LedgerStep

LEMMA TransactionStep ==
  ASSUME TransactionOnly, TransactionInv, [Next]_vars
  PROVE  TransactionInv' /\ [Ledger!LedgerNext]_(Ledger!ledgerVars)
<1>1. TypeOK' /\ TypeOK /\ InTime
  BY StepTypeOK DEF TransactionInv
<1>2. CASE UNCHANGED <<quota, granted>> /\ InTime' /\ TransactionInv'
  BY <1>2, LedgerStutter
<1>3. ASSUME NEW r \in Request, Reserve(r)
      PROVE  TransactionInv' /\ [Ledger!LedgerNext]_(Ledger!ledgerVars)
  <2>. USE DEF TransactionInv, InTime, TypeOK, Proc, Goto, Finished, Forget
  <2>1. CASE ReadProfile(r)
    BY <2>1, <1>1, <1>2, QuotaAssumption DEF ReadProfile, TransactionOnly
  <2>2. CASE EvalReserve(r) \/ EvalReplyLost(r)
    BY <2>2 DEF EvalReserve, EvalReplyLost
  <2>3. CASE WatchKey(r)
    BY <2>3, <1>1, <1>2, QuotaAssumption DEF WatchKey, TransactionOnly
  <2>4. CASE GetKey(r)
    BY <2>4, <1>1, <1>2, QuotaAssumption DEF GetKey
  <2>5. CASE RefuseOptimistic(r)
    BY <2>5, <1>1, <1>2, QuotaAssumption DEF RefuseOptimistic, TransactionOnly
  <2>6. CASE ExecCommit(r)
    <3>1. seen[r] = quota
      BY <2>6, QuotaAssumption DEF ExecCommit
    <3>2. Ledger!LedgerNext
      BY <2>6, <3>1, <1>1, DecisionCharges DEF ExecCommit, Write
    <3>3. watch' = Touched(Forget(watch, ConnOf[r])) /\ pc' = [pc EXCEPT ![r] = "unwatch"]
          /\ UNCHANGED <<clock, at>>
      BY <2>6 DEF ExecCommit, Write
    <3>4. \A s \in Request : pc'[s] = "exec" => watch'[ConnOf[s]] # "clean"
      BY <3>3, <1>1, QuotaAssumption DEF Touched
    <3>5. \A s \in Request : pc'[s] \in {"get", "exec"} => watch'[ConnOf[s]] # "none"
      BY <3>3, <1>1, QuotaAssumption DEF Touched, TransactionOnly
    <3>. QED
      BY <1>1, <3>2, <3>3, <3>4, <3>5
  <2>7. CASE ExecAborted(r)
    BY <2>7, <1>1, <1>2, QuotaAssumption DEF ExecAborted, TransactionOnly
  <2>8. CASE Unwatch(r)
    BY <2>8, <1>1, <1>2, QuotaAssumption DEF Unwatch, TransactionOnly
  <2>. QED
    BY <1>3, <2>1, <2>2, <2>3, <2>4, <2>5, <2>6, <2>7, <2>8 DEF Reserve
<1>4. ASSUME NEW q \in Proc, Arrive(q)
      PROVE  TransactionInv' /\ [Ledger!LedgerNext]_(Ledger!ledgerVars)
  BY <1>4, <1>1, <1>2 DEF Arrive, Goto, TransactionInv, InTime, TypeOK, Proc
<1>5. ASSUME NEW c \in Conn, Reconnect(c) PROVE FALSE
  BY <1>5, <1>1 DEF Reconnect, TransactionOnly, TypeOK
<1>6. CASE (\E p \in Plan : ChangePlan(p)) \/ UNCHANGED vars
  BY <1>6, <1>1, <1>2 DEF ChangePlan, vars, TransactionInv, InTime
<1>7. CASE Tick
  <2>1. InTime'
    BY <1>7, <1>1, QuotaAssumption DEF Tick, InTime, TypeOK
  <2>. QED
    BY <1>7, <1>1, <1>2, <2>1 DEF Tick, TransactionInv
<1>. QED
  BY <1>3, <1>4, <1>5, <1>6, <1>7 DEF Next, TransactionOnly

\* With every reservation made by a transaction on a connection of its own,
\* never lost, the quota is the abstract ledger.
THEOREM TransactionsImplementLedger ==
  ASSUME TransactionOnly
  PROVE  Spec => ImplementsLedger
<1>1. Init => TransactionInv
  BY InitTypeOK, QuotaAssumption DEF Init, TransactionInv, InTime, Proc
<1>2. TransactionInv /\ [Next]_vars => TransactionInv' /\ [Ledger!LedgerNext]_(Ledger!ledgerVars)
  BY TransactionStep
<1>. QED
  BY <1>1, <1>2, LedgerStart, PTL DEF Spec, ImplementsLedger, Ledger!LedgerSpec
-----------------------------------------------------------------------------
(* The fallback's give-up, with transactions alone.  A watch that noticed  *)
(* a write stands for a rival that the next abort will count, and every    *)
(* rival is counted once because nobody is admitted twice.                 *)

Rivals(r) == {s \in Request \ {r} : granted[s] # NoStart}

Noticed(r) == IF watch[ConnOf[r]] = "dirty" THEN 1 ELSE 0

AdmittedOnce ==
  \A r \in Request : granted[r] # NoStart =>
    pc[r] = "created" \/ (pc[r] = "unwatch" /\ after[r] = "created")

WinnersInv ==
  /\ TransactionInv
  /\ AdmittedOnce
  /\ \A r \in Request : tries[r] + Noticed(r) <= Cardinality(Rivals(r))

LEMMA RivalsFinite ==
  ASSUME NEW r \in Request
  PROVE  IsFiniteSet(Rivals(r)) /\ Cardinality(Rivals(r)) \in Nat
BY QuotaAssumption, FS_Subset, FS_CardinalityType DEF Rivals

\* A step that admits nobody, and lets no watch notice anything.
LEMMA WinnersKept ==
  ASSUME WinnersInv, TransactionInv', AdmittedOnce', UNCHANGED granted,
         \A s \in Request : tries'[s] + Noticed(s)' <= tries[s] + Noticed(s)
  PROVE  WinnersInv'
<1>1. \A s \in Request : Rivals(s)' = Rivals(s)
  BY DEF Rivals
<1>2. \A s \in Request : /\ tries[s] \in Nat /\ tries'[s] \in Nat
                        /\ Noticed(s) \in Nat /\ Noticed(s)' \in Nat
                        /\ Cardinality(Rivals(s)) \in Nat
                        /\ tries[s] + Noticed(s) <= Cardinality(Rivals(s))
  BY RivalsFinite DEF WinnersInv, TransactionInv, TypeOK, Noticed
<1>3. \A s \in Request : tries'[s] + Noticed(s)' <= Cardinality(Rivals(s)')
  BY <1>1, <1>2
<1>. QED
  BY <1>3 DEF WinnersInv

\* Everybody whose watch may notice a commit gains the rival who made it.
LEMMA WinnersGained ==
  ASSUME TransactionOnly, WinnersInv, TypeOK', NEW r \in Request, ExecCommit(r)
  PROVE  \A s \in Request : tries'[s] + Noticed(s)' <= Cardinality(Rivals(s)')
<1>1. /\ tries' = tries
      /\ watch' = Touched(Forget(watch, ConnOf[r]))
      /\ granted' = [granted EXCEPT ![r] = Decision(r).window.start]
      /\ pc[r] = "exec"
  BY DEF ExecCommit, Write
<1>2. TypeOK /\ TransactionInv /\ AdmittedOnce
  BY DEF WinnersInv, TransactionInv
<1>3. granted[r] = NoStart
  BY <1>1, <1>2 DEF AdmittedOnce
<1>4. granted'[r] # NoStart
  <2>1. Decision(r).window \in QuotaWindow
    BY <1>2, QuotaAssumption, ExistingType, ApplyQuotaType DEF Decision, TypeOK, Proc
  <2>. QED
    BY <2>1, <1>1, <1>2 DEF QuotaWindow, NoStart, TypeOK
<1>. SUFFICES ASSUME NEW s \in Request
              PROVE  tries'[s] + Noticed(s)' <= Cardinality(Rivals(s)')
  OBVIOUS
<1>5. /\ tries[s] \in Nat /\ Cardinality(Rivals(s)) \in Nat
      /\ tries[s] + Noticed(s) <= Cardinality(Rivals(s))
      /\ Noticed(s) \in {0, 1} /\ Noticed(s)' \in {0, 1}
  BY <1>2, RivalsFinite DEF WinnersInv, TypeOK, Noticed
<1>6. CASE s = r
  <2>1. Noticed(s)' = 0
    BY <1>6, <1>1, <1>2, QuotaAssumption DEF Noticed, Touched, Forget, TypeOK
  <2>2. Rivals(s)' = Rivals(s)
    BY <1>6, <1>1, <1>2 DEF Rivals, TypeOK
  <2>. QED
    BY <2>1, <2>2, <1>1, <1>5
<1>7. CASE s # r
  <2>1. Rivals(s)' = Rivals(s) \cup {r} /\ r \notin Rivals(s)
    BY <1>7, <1>1, <1>2, <1>3, <1>4 DEF Rivals, TypeOK
  <2>2. Cardinality(Rivals(s)') = Cardinality(Rivals(s)) + 1
    BY <2>1, RivalsFinite, FS_AddElement
  <2>. QED
    BY <2>2, <1>1, <1>5
<1>. QED
  BY <1>6, <1>7

LEMMA WinnersStep ==
  ASSUME TransactionOnly, WinnersInv, [Next]_vars
  PROVE  WinnersInv'
<1>1. TransactionInv' /\ TransactionInv /\ TypeOK /\ TypeOK'
  BY TransactionStep DEF WinnersInv, TransactionInv
<1>. DEFINE Same == \A s \in Request : tries'[s] + Noticed(s)' <= tries[s] + Noticed(s)
<1>2. ASSUME NEW r \in Request, Reserve(r)
      PROVE  WinnersInv'
  <2>1. CASE ReadProfile(r) \/ GetKey(r)
    <3>1. AdmittedOnce' /\ Same /\ UNCHANGED granted
      BY <2>1, <1>1 DEF ReadProfile, GetKey, Goto, AdmittedOnce, WinnersInv, Noticed, TypeOK, Proc
    <3>. QED
      BY <3>1, <1>1, WinnersKept
  <2>2. CASE EvalReserve(r) \/ EvalReplyLost(r)
    BY <2>2, <1>1 DEF EvalReserve, EvalReplyLost, TransactionInv, Finished
  <2>3. CASE WatchKey(r)
    <3>1. AdmittedOnce' /\ UNCHANGED granted
      BY <2>3, <1>1 DEF WatchKey, Goto, AdmittedOnce, WinnersInv, TypeOK, Proc
    <3>2. Same
      BY <2>3, <1>1, QuotaAssumption DEF WatchKey, Noticed, TypeOK
    <3>. QED
      BY <3>1, <3>2, <1>1, WinnersKept
  <2>4. CASE RefuseOptimistic(r)
    <3>1. AdmittedOnce' /\ UNCHANGED granted
      BY <2>4, <1>1 DEF RefuseOptimistic, Goto, AdmittedOnce, WinnersInv, TypeOK, Proc
    <3>2. Same
      BY <2>4, <1>1, QuotaAssumption DEF RefuseOptimistic, Forget, Noticed, TypeOK
    <3>. QED
      BY <3>1, <3>2, <1>1, WinnersKept
  <2>5. CASE ExecCommit(r)
    <3>1. AdmittedOnce'
      BY <2>5, <1>1 DEF ExecCommit, Goto, AdmittedOnce, WinnersInv, TypeOK, Proc
    <3>. QED
      BY <3>1, <2>5, <1>1, WinnersGained DEF WinnersInv
  <2>6. CASE ExecAborted(r)
    <3>1. AdmittedOnce' /\ UNCHANGED granted
      BY <2>6, <1>1 DEF ExecAborted, Goto, AdmittedOnce, WinnersInv, TypeOK, Proc
    <3>2. Same
      BY <2>6, <1>1, QuotaAssumption DEF ExecAborted, Forget, Noticed, TypeOK
    <3>. QED
      BY <3>1, <3>2, <1>1, WinnersKept
  <2>7. CASE Unwatch(r)
    <3>1. AdmittedOnce' /\ UNCHANGED granted
      BY <2>7, <1>1 DEF Unwatch, Goto, AdmittedOnce, WinnersInv, TypeOK, Proc
    <3>2. Same
      BY <2>7, <1>1, QuotaAssumption DEF Unwatch, Forget, Noticed, TypeOK
    <3>. QED
      BY <3>1, <3>2, <1>1, WinnersKept
  <2>. QED
    BY <1>2, <2>1, <2>2, <2>3, <2>4, <2>5, <2>6, <2>7 DEF Reserve
<1>3. ASSUME NEW q \in Proc, Arrive(q)
      PROVE  WinnersInv'
  <2>1. AdmittedOnce' /\ Same /\ UNCHANGED granted
    BY <1>3, <1>1 DEF Arrive, Goto, AdmittedOnce, WinnersInv, Noticed, TypeOK, Proc
  <2>. QED
    BY <2>1, <1>1, WinnersKept
<1>4. ASSUME NEW c \in Conn, Reconnect(c) PROVE FALSE
  BY <1>4, <1>1 DEF Reconnect, TransactionOnly, TypeOK
<1>5. CASE (\E p \in Plan : ChangePlan(p)) \/ Tick \/ UNCHANGED vars
  <2>1. AdmittedOnce' /\ Same /\ UNCHANGED granted
    BY <1>5, <1>1 DEF ChangePlan, Tick, vars, AdmittedOnce, WinnersInv, Noticed, TypeOK
  <2>. QED
    BY <2>1, <1>1, WinnersKept
<1>. QED
  BY <1>2, <1>3, <1>4, <1>5 DEF Next, TransactionOnly

\* With a connection a request, nobody gives up with a conflict without having
\* lost to as many admitted rivals as it counts aborts.
THEOREM TransactionsAbortsHaveWinners ==
  ASSUME TransactionOnly
  PROVE  Spec => []AbortsHaveWinners
<1>1. Init => WinnersInv
  <2>1. Init => TransactionInv
    BY InitTypeOK, QuotaAssumption DEF Init, TransactionInv, InTime, Proc
  <2>2. ASSUME Init PROVE AdmittedOnce
    BY <2>2 DEF Init, AdmittedOnce
  <2>3. ASSUME Init, NEW r \in Request
        PROVE  tries[r] + Noticed(r) <= Cardinality(Rivals(r))
    <3>1. tries[r] = 0 /\ Noticed(r) = 0
      BY <2>3, QuotaAssumption DEF Init, Noticed
    <3>. QED
      BY <3>1, RivalsFinite
  <2>. QED
    BY <2>1, <2>2, <2>3 DEF WinnersInv
<1>2. WinnersInv /\ [Next]_vars => WinnersInv'
  BY WinnersStep
<1>3. ASSUME WinnersInv PROVE AbortsHaveWinners
  <2>. SUFFICES ASSUME NEW r \in Request
                PROVE  tries[r] <= Cardinality(Rivals(r))
    BY DEF AbortsHaveWinners, Rivals
  <2>1. tries[r] \in Nat /\ Noticed(r) \in {0, 1} /\ Cardinality(Rivals(r)) \in Nat
    BY <1>3, RivalsFinite DEF WinnersInv, TransactionInv, TypeOK, Noticed
  <2>. QED
    BY <2>1, <1>3 DEF WinnersInv
<1>. QED
  BY <1>1, <1>2, <1>3, PTL DEF Spec
-----------------------------------------------------------------------------
(* What the ledger promises, for the keys.                                 *)

Kept == INSTANCE QuotaLedgerProof WITH
  window <- [start |-> quota.start, used |-> quota.used],
  Time <- 0..MaxTime

\* The instance has its own copies of the operators of FiniteSets.
LEMMA KeptCardinality ==
  ASSUME NEW S
  PROVE  /\ Kept!IsFiniteSet(S) <=> IsFiniteSet(S)
         /\ Kept!Cardinality(S) = Cardinality(S)
<1>1. Kept!IsFiniteSet(S) <=> IsFiniteSet(S)
  BY DEF Kept!IsFiniteSet, IsFiniteSet
<1>. QED
  BY <1>1 DEF Kept!Cardinality, Cardinality

\* The ledger's assumption, for this instance of it.
LEMMA KeptAssumption ==
  /\ Kept!IsFiniteSet(Request)
  /\ Limit \in [Plan -> Nat]
  /\ Hours \in [Plan -> Nat \ {0}]
  /\ 0..MaxTime \subseteq Nat
BY QuotaAssumption, KeptCardinality

LEMMA KeptPromises ==
  TypeOK /\ Kept!LedgerInv => NoUncountedGrant /\ GrantsWithinLimit /\ WindowsSpaced
<1>. SUFFICES ASSUME TypeOK, Kept!LedgerInv
              PROVE  NoUncountedGrant /\ GrantsWithinLimit /\ WindowsSpaced
  OBVIOUS
<1>1. \A w : ChargedTo(w) = Kept!Charged(granted, w)
  BY DEF ChargedTo, Kept!Charged
<1>2. NoUncountedGrant
  <2>1. quota # NoWindow => [start |-> quota.start, used |-> quota.used] # Kept!Closed
    BY DEF TypeOK, QuotaWindow, NoWindow, Kept!Closed, Kept!NoStart
  <2>2. quota # NoWindow => Cardinality(Kept!Charged(granted, quota.start)) <= quota.used
    BY <2>1, KeptCardinality DEF Kept!LedgerInv, Kept!EveryChargeCounted
  <2>. QED
    BY <1>1, <2>2 DEF NoUncountedGrant
<1>3. GrantsWithinLimit
  BY <1>1, KeptCardinality DEF GrantsWithinLimit, NoStart, Kept!NoStart, Kept!LedgerInv, Kept!ChargesWithinLimit
<1>4. WindowsSpaced
  BY DEF WindowsSpaced, NoStart, Kept!NoStart, Kept!LedgerInv, Kept!WindowsApart
<1>. QED
  BY <1>2, <1>3, <1>4

LEMMA LedgerKept == ImplementsLedger => []Kept!LedgerInv
<1>1. Ledger!LedgerInit => Kept!LedgerInit
  BY DEF Ledger!LedgerInit, Ledger!Closed, Ledger!NoStart,
         Kept!LedgerInit, Kept!Closed, Kept!NoStart
<1>2. [Ledger!LedgerNext]_(Ledger!ledgerVars) => [Kept!LedgerNext]_(Kept!ledgerVars)
  BY DEF Ledger!LedgerNext, Ledger!Charge, Ledger!Open, Ledger!Closed, Ledger!NoStart,
         Kept!LedgerNext, Kept!Charge, Kept!Open, Kept!Closed, Kept!NoStart,
         Ledger!ledgerVars, Kept!ledgerVars
<1>3. Kept!LedgerSpec => []Kept!LedgerInv
  BY KeptAssumption, Kept!LedgerCorrect
<1>. QED
  BY <1>1, <1>2, <1>3, PTL DEF ImplementsLedger, Ledger!LedgerSpec, Kept!LedgerSpec

\* No job record is ever missing from the count, no window ever admits more
\* than a plan allows and windows keep their distance, in both deployments.
THEOREM SerialisedQuotaKeepsPromise ==
  ASSUME ScriptOnly \/ TransactionOnly
  PROVE  Spec => [](NoUncountedGrant /\ GrantsWithinLimit /\ WindowsSpaced)
<1>1. Spec => ImplementsLedger
  BY ScriptImplementsLedger, TransactionsImplementLedger
<1>. QED
  BY <1>1, QuotaTypeOK, LedgerKept, KeptPromises, PTL
=============================================================================
