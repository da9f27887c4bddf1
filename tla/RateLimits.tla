----------------------------- MODULE RateLimits -----------------------------
(***************************************************************************)
(* The two fixed-window rate limiters that run inside a process, for one   *)
(* key each: the one of the API's write routes (createRateLimitMiddleware),*)
(* whose records a timer sweeps and which the polling of GET /api/jobs/:id *)
(* passes too, and the one of the MCP gateway, which counts what it        *)
(* refuses.  A window opens with a request, not with the clock, so two of  *)
(* them may meet in one interval.                                          *)
(*                                                                         *)
(* A definition whose name ends in Slip is a mutant of the one after it.   *)
(***************************************************************************)
EXTENDS Integers, Sequences

CONSTANTS
  WindowMs,  \* length of a window
  Quota,     \* requests that a window admits
  LastMs     \* bound: the clock stops here

ASSUME RateAssumption == {WindowMs, Quota} \subseteq Nat \ {0} /\ LastMs \in Nat

VARIABLES
  nowMs,     \* Date.now()
  hits,      \* the API's record of the key: count and resetAtMs
  actor,     \* the gateway's record of the actor: count and windowStart
  passed,    \* the instants at which the API let a request through
  executed   \* ... and the gateway

rateVars == <<nowMs, hits, actor, passed, executed>>

NoHits == [count |-> 0, resetAtMs |-> 0]

RateInit ==
  /\ nowMs = 0
  /\ hits = NoHits
  /\ actor = [count |-> 0, windowStart |-> 0]
  /\ passed = <<>>
  /\ executed = <<>>

\* A record counts for nothing from the first millisecond after its reset.
Over(record) == nowMs > record.resetAtMs

Write ==
  /\ IF hits = NoHits \/ Over(hits)
     THEN /\ hits' = [count |-> 1, resetAtMs |-> nowMs + WindowMs]
          /\ passed' = Append(passed, nowMs)
     ELSE /\ hits.count < Quota
          /\ hits' = [hits EXCEPT !.count = @ + 1]
          /\ passed' = Append(passed, nowMs)
  /\ UNCHANGED <<nowMs, actor, executed>>

\* The sweep clears the map.
SweepSlip ==
  /\ hits # NoHits
  /\ hits' = NoHits
  /\ UNCHANGED <<nowMs, actor, passed, executed>>

\* The timer of the limiter, which runs on its own.
Sweep ==
  /\ hits # NoHits /\ hits.resetAtMs <= nowMs
  /\ hits' = NoHits
  /\ UNCHANGED <<nowMs, actor, passed, executed>>

\* The gateway counts first and refuses above the limit; a record that does not
\* exist is one that starts now.  Bound: one refusal a window is counted.
Execute ==
  LET old == actor.count = 0 \/ nowMs - actor.windowStart > WindowMs
      count == IF old THEN 1 ELSE actor.count + 1
  IN  /\ count <= Quota + 1
      /\ actor' = [count |-> count, windowStart |-> IF old THEN nowMs ELSE actor.windowStart]
      /\ executed' = IF count <= Quota THEN Append(executed, nowMs) ELSE executed
      /\ UNCHANGED <<nowMs, hits, passed>>

NextMs ==
  /\ nowMs < LastMs
  /\ nowMs' = nowMs + 1
  /\ UNCHANGED <<hits, actor, passed, executed>>

RateNext == Write \/ Sweep \/ Execute \/ NextMs

RateSpec == RateInit /\ [][RateNext]_rateVars
-----------------------------------------------------------------------------
(* Properties.                                                             *)

\* Every variable stays in its type.
RateTypeOK ==
  /\ nowMs \in Nat
  /\ hits \in [count : 0..Quota, resetAtMs : Nat]
  /\ actor \in [count : 0..(Quota + 1), windowStart : Nat]
  /\ {passed, executed} \subseteq Seq(Nat)

\* No more than two windows' worth of requests ever pass in less time than one
\* window takes: request number 2 * Quota + 1 is at least a window later than
\* the first, wherever windows begin and whenever the sweep runs.
BurstBounded ==
  \A times \in {passed, executed} :
    \A i \in 1..Len(times) : i + 2 * Quota <= Len(times) =>
      times[i + 2 * Quota] - times[i] >= WindowMs
=============================================================================
