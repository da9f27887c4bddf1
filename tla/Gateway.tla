------------------------------ MODULE Gateway ------------------------------
(***************************************************************************)
(* POST /mcp/execute: a plan of operations is checked against policy,      *)
(* sandbox and scopes and run step by step against the API, each step with *)
(* a timeout and all of them with the one idempotency key of the plan.     *)
(* Its caller repeats a plan that ended in an error.  A step that is       *)
(* abandoned may still take effect at the API; what POST /api/cleanup does *)
(* with it is in Cleanup.                                                  *)
(***************************************************************************)
EXTENDS Cleanup

CONSTANTS
  Submission,  \* plans callers may submit: [steps, key, code, scopes]
  MaxSteps,    \* config.maxCallsPerExecute
  Enabled,     \* config.executeEnabled
  MaxAttempts  \* bound: how often a plan is submitted

\* The operations of the reduced API and what each one needs.
Operation == {"uploads_init", "jobs_create", "jobs_get", "cleanup_create", "quota_get"}
Mutating  == {"uploads_init", "jobs_create", "cleanup_create"}
Scope     == [op \in Operation |->
               CASE op = "uploads_init"   -> "image.upload"
                 [] op = "jobs_create"    -> "image.jobs.write"
                 [] op = "jobs_get"       -> "image.jobs.read"
                 [] op = "cleanup_create" -> "image.cleanup"
                 [] op = "quota_get"      -> "image.quota.read"]

ASSUME GatewayAssumption ==
  /\ \A p \in Submission :
       /\ p.key \in IdemKey \cup {"none"}
       /\ \A i \in 1..Len(p.steps) : p.steps[i].objects \subseteq Object
  /\ {MaxSteps, MaxAttempts} \subseteq Nat
  /\ Enabled \in BOOLEAN

VARIABLES
  plan,       \* the plan being executed
  gateway,    \* "idle", "running", "waiting", or how the last attempt ended
  stepNo,     \* the step it is at
  call,       \* the cleanup request that the step waits for
  attempts,   \* submissions so far
  jobsMade     \* jobs created by all attempts

gatewayVars == <<plan, gateway, stepNo, call, attempts, jobsMade>>

NoPlan == [steps |-> <<>>, key |-> "none", code |-> FALSE, scopes |-> {}]
NoClean == 0

\* validateExecuteRequest, assertSandboxPolicy and requireScope, in that order.
Verdict(p) ==
  LET ops == {p.steps[i].op : i \in 1..Len(p.steps)}
  IN  CASE ~Enabled                                         -> "disabled"
        [] ops = {} \/ ~(ops \subseteq Operation)           -> "invalid"
        [] ops \cap Mutating # {} /\ p.key = "none"         -> "invalid"
        [] p.code \/ Len(p.steps) > MaxSteps                -> "invalid"
        [] ~({Scope[op] : op \in ops} \subseteq p.scopes)   -> "forbidden"
        [] OTHER                                            -> "running"

GatewayInit ==
  /\ CleanupInit
  /\ plan = NoPlan
  /\ gateway = "idle"
  /\ stepNo = 0
  /\ call = NoClean
  /\ attempts = 0
  /\ jobsMade = 0

\* The first submission is any plan; after an error it is the same one again.
Submit(p) ==
  /\ gateway = "idle" \/ (gateway = "error" /\ p = plan)
  /\ attempts < MaxAttempts
  /\ attempts' = attempts + 1
  /\ plan' = p
  /\ gateway' = Verdict(p)
  /\ stepNo' = 1
  /\ call' = NoClean
  /\ UNCHANGED <<cleanVars, jobsMade>>

\* The next step is sent.  Only cleanup honours the key; a job is created anew.
SendStep ==
  LET step == plan.steps[stepNo]
  IN  /\ gateway = "running" /\ stepNo <= Len(plan.steps)
      /\ gateway' = "waiting"
      /\ IF step.op = "cleanup_create"
         THEN \E c \in Clean :
                RequestCleanup(c, plan.key, step.objects) /\ call' = c /\ UNCHANGED jobsMade
         ELSE /\ jobsMade' \in IF step.op = "jobs_create" THEN {jobsMade, jobsMade + 1} ELSE {jobsMade}
              /\ call' = NoClean
              /\ UNCHANGED cleanVars
      /\ UNCHANGED <<plan, stepNo, attempts>>

\* Any answer at all, 409 and 500 included, lets the plan go on.
StepAnswered ==
  /\ gateway = "waiting"
  /\ call # NoClean => cleanPc[call] \in {"answered", "conflict", "failed"}
  /\ gateway' = "running"
  /\ stepNo' = stepNo + 1
  /\ UNCHANGED <<cleanVars, plan, call, attempts, jobsMade>>

\* The timer or the network ends the step, and with it the plan: the results of
\* earlier steps are not reported.
StepAborted ==
  /\ gateway = "waiting"
  /\ gateway' = "error"
  /\ UNCHANGED <<cleanVars, plan, stepNo, call, attempts, jobsMade>>

PlanDone ==
  /\ gateway = "running" /\ stepNo > Len(plan.steps)
  /\ gateway' = "done"
  /\ UNCHANGED <<cleanVars, plan, stepNo, call, attempts, jobsMade>>

GatewayNext ==
  \/ \E p \in Submission : Submit(p)
  \/ SendStep \/ StepAnswered \/ StepAborted \/ PlanDone
  \/ CleanupWorld /\ UNCHANGED gatewayVars

GatewaySpec == GatewayInit /\ [][GatewayNext]_<<cleanVars, gatewayVars>>

GatewayTypeOK ==
  /\ CleanupTypeOK
  /\ plan \in Submission \cup {NoPlan}
  /\ gateway \in {"idle", "disabled", "invalid", "forbidden", "running", "waiting", "error", "done"}
  /\ stepNo \in Nat
  /\ call \in Clean \cup {NoClean}
  /\ {attempts, jobsMade} \subseteq Nat
=============================================================================
