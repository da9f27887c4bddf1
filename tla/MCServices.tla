----------------------------- MODULE MCServices -----------------------------
(***************************************************************************)
(* Instances for TLC of the components with promises about what happens in *)
(* the end, side by side: billing, and the shutdowns of the worker and of  *)
(* the API.  They share no state, so "part" says which of them takes steps *)
(* while the others stay as they began; there no fair action is enabled.   *)
(***************************************************************************)
EXTENDS Billing, WorkerLifecycle, ApiLifecycle

VARIABLE part

serviceVars == <<billingVars, workerVars, apiVars, part>>

ServicesInit ==
  /\ BillingInit /\ WorkerInit /\ ApiInit
  /\ part \in {"billing", "worker", "api"}

ServicesNext ==
  /\ UNCHANGED part
  /\ \/ part = "billing" /\ BillingNext /\ UNCHANGED <<workerVars, apiVars>>
     \/ part = "worker" /\ WorkerNext /\ UNCHANGED <<billingVars, apiVars>>
     \/ part = "api" /\ ApiNext /\ UNCHANGED <<billingVars, workerVars>>

ServicesSpec ==
  /\ ServicesInit /\ [][ServicesNext]_serviceVars
  /\ BillingFairness /\ WorkerFairness /\ ApiFairness

ServicesTypeOK == BillingTypeOK /\ WorkerTypeOK /\ ApiTypeOK

\* Both processes shut down in order: the worker settles every job it took
\* (worker.ts:269) and the API fails no client that still waits (server.ts:608).
DrainsBeforeClosing == WorkerDrained /\ WaitingIsServed

\* A shutdown that has begun ends: in the worker by its timers, even when every
\* close hangs (worker.ts:227), in the API when its clients and closes end
\* (server.ts:592).
ShutdownEnds == WorkerStops /\ ApiStops
=============================================================================
