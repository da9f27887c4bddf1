------------------------- MODULE BackgroundRemoval -------------------------
(***************************************************************************)
(* The background-remove provider of a worker: every removal calls it up   *)
(* to MaxRetries + 1 times, through one circuit breaker that all removals  *)
(* of the process share.  The breaker is opossum: it counts the calls and  *)
(* failures of a rolling window, opens, and half-opens on a timer to let   *)
(* one call through.                                                       *)
(*                                                                         *)
(* A definition whose name ends in Slip is a mutant of the one after it.   *)
(***************************************************************************)
EXTENDS Integers

CONSTANTS
  Removal,    \* jobs that remove a background
  MaxRetries, \* BG_REMOVE_MAX_RETRIES
  Volume      \* volumeThreshold

ASSUME RemovalAssumption == MaxRetries \in Nat /\ Volume \in Nat \ {0}

VARIABLES
  removal,  \* removal[r]: where removeBackground stands
  tried,    \* tried[r]: attempts begun
  called,   \* called[r]: calls the provider has received for r
  breaker,  \* the breaker: its state, whether a probe is awaited, its counts
  probes    \* history: calls let through since the breaker last half-opened

removalVars == <<removal, tried, called, breaker, probes>>

NewBreaker == [state |-> "closed", pendingClose |-> FALSE, fires |-> 0, failures |-> 0]
-----------------------------------------------------------------------------
RemovalInit ==
  /\ removal = [r \in Removal |-> "loop"]
  /\ tried = [r \in Removal |-> 0]
  /\ called = [r \in Removal |-> 0]
  /\ breaker = NewBreaker
  /\ probes = 0

Proceed(r, label) == removal' = [removal EXCEPT ![r] = label]

\* One attempt too many.
AfterErrorSlip(r, attempts) == IF attempts > MaxRetries + 1 THEN "failed" ELSE "backoff"

\* An attempt that failed: the last one, or one to back off after.
AfterError(r, attempts) == IF attempts > MaxRetries THEN "failed" ELSE "backoff"

\* Once the circuit was found not to be open, the provider is called directly.
AdmitsSlip(b) == b.state # "open"

\* fire() lets a call through when the breaker is closed, or half-open and
\* nobody was let through yet.
Admits(b) == b.state = "closed" \/ b.pendingClose

\* The top of the loop: an open circuit ends the removal at once; otherwise the
\* breaker is fired, and calls the provider or rejects.
Attempt(r) ==
  /\ removal[r] = "loop"
  /\ IF breaker.state = "open"
     THEN Proceed(r, "failed") /\ UNCHANGED <<tried, called, breaker, probes>>
     ELSE /\ tried' = [tried EXCEPT ![r] = @ + 1]
          /\ IF Admits(breaker)
             THEN /\ Proceed(r, "calling")
                  /\ called' = [called EXCEPT ![r] = @ + 1]
                  /\ breaker' = [breaker EXCEPT !.fires = @ + 1, !.pendingClose = FALSE]
                  /\ probes' = IF breaker.state = "closed" THEN probes ELSE probes + 1
             ELSE /\ Proceed(r, AfterError(r, tried[r] + 1))
                  /\ breaker' = [breaker EXCEPT !.fires = @ + 1]
                  /\ UNCHANGED <<called, probes>>

\* A failed call opens a half-open breaker, and a closed one with more than half
\* of enough calls failed.
Failed(b) ==
  LET c == [b EXCEPT !.failures = @ + 1]
      opens == \/ c.state = "halfOpen"
               \/ c.fires >= Volume /\ 2 * c.failures > c.fires
  IN  IF opens THEN [c EXCEPT !.state = "open", !.pendingClose = FALSE] ELSE c

\* Any success closes a half-open breaker, also that of a call made long before.
Succeeds(r) ==
  /\ removal[r] = "calling"
  /\ Proceed(r, "removed")
  /\ breaker' = IF breaker.state = "halfOpen"
                THEN [breaker EXCEPT !.state = "closed", !.pendingClose = FALSE] ELSE breaker
  /\ UNCHANGED <<tried, called, probes>>

\* A 4xx other than 429 is final, and counts against the provider all the same.
Rejected(r) ==
  /\ removal[r] = "calling"
  /\ Proceed(r, "rejected")
  /\ breaker' = Failed(breaker)
  /\ UNCHANGED <<tried, called, probes>>

\* Any other status, a timeout, a broken connection or a body that breaks off.
Errs(r) ==
  /\ removal[r] = "calling"
  /\ Proceed(r, AfterError(r, tried[r]))
  /\ breaker' = Failed(breaker)
  /\ UNCHANGED <<tried, called, probes>>

BackedOff(r) ==
  /\ removal[r] = "backoff"
  /\ Proceed(r, "loop")
  /\ UNCHANGED <<tried, called, breaker, probes>>

\* resetTimeout after the breaker opened.
HalfOpen ==
  /\ breaker.state = "open"
  /\ breaker' = [breaker EXCEPT !.state = "halfOpen", !.pendingClose = TRUE]
  /\ probes' = 0
  /\ UNCHANGED <<removal, tried, called>>

\* The rolling window moves past the calls it counted.
Roll ==
  /\ breaker.fires > 0
  /\ breaker' = [breaker EXCEPT !.fires = 0, !.failures = 0]
  /\ UNCHANGED <<removal, tried, called, probes>>

RemovalNext ==
  \/ \E r \in Removal : Attempt(r) \/ Succeeds(r) \/ Rejected(r) \/ Errs(r) \/ BackedOff(r)
  \/ HalfOpen \/ Roll

RemovalSpec == RemovalInit /\ [][RemovalNext]_removalVars
-----------------------------------------------------------------------------
(* Properties.                                                             *)

\* Every variable stays in its type.
RemovalTypeOK ==
  /\ removal \in [Removal -> {"loop", "calling", "backoff", "removed", "rejected", "failed"}]
  /\ tried \in [Removal -> 0..(MaxRetries + 1)]
  /\ called \in [Removal -> 0..(MaxRetries + 1)]
  /\ breaker \in [state : {"closed", "open", "halfOpen"}, pendingClose : BOOLEAN,
                  fires : Nat, failures : Nat]
  /\ probes \in Nat

\* A provider that fails is spared: from the moment the circuit opens until some
\* call succeeds it receives one new call per reset, however many removals are
\* between two attempts or about to make their last one when the breaker half-opens.
ProviderSpared == breaker.state # "closed" => probes <= 1
=============================================================================
