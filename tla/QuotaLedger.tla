---------------------------- MODULE QuotaLedger ----------------------------
(***************************************************************************)
(* What the image quota of one subject promises, without the means: images *)
(* are charged one at a time, atomically, to the open window; a window is  *)
(* replaced only by a later one, once the hours of the subject's plan have *)
(* passed; no charge takes a window beyond the limit of the plan it is     *)
(* made under.  Quota implements this through Redis.                       *)
(***************************************************************************)
EXTENDS Integers, FiniteSets

CONSTANTS
  Request,  \* job-creation requests of the subject
  Plan,     \* image plans
  Limit,    \* Limit[p]: images a window of plan p admits
  Hours,    \* Hours[p]: length of a window of plan p
  Time      \* the instants requests arrive at

ASSUME LedgerAssumption ==
  /\ IsFiniteSet(Request)
  /\ Limit \in [Plan -> Nat]
  /\ Hours \in [Plan -> Nat \ {0}]
  /\ Time \subseteq Nat

VARIABLES
  window,   \* the open window: its start and the images charged to it
  granted   \* granted[r]: start of the window request r was charged to

ledgerVars == <<window, granted>>

NoStart == -1
Closed  == [start |-> NoStart, used |-> 0]

LedgerInit ==
  /\ window = Closed
  /\ granted = [r \in Request |-> NoStart]

\* One more image in the open window, which plan p does not yet consider
\* over at time now.  The last instant of a window may fall on either side.
Charge(r, p, now) ==
  /\ window # Closed
  /\ now - window.start <= Hours[p]
  /\ window.used < Limit[p]
  /\ window'  = [window EXCEPT !.used = @ + 1]
  /\ granted' = [granted EXCEPT ![r] = window.start]

\* The first image of a new window.
Open(r, p, now) ==
  /\ window # Closed => now - window.start >= Hours[p]
  /\ Limit[p] > 0
  /\ window'  = [start |-> now, used |-> 1]
  /\ granted' = [granted EXCEPT ![r] = now]

LedgerNext ==
  \E r \in Request, p \in Plan, now \in Time : Charge(r, p, now) \/ Open(r, p, now)

LedgerSpec == LedgerInit /\ [][LedgerNext]_ledgerVars
-----------------------------------------------------------------------------
\* The requests that g charges to the window starting at w.
Charged(g, w) == {r \in Request : g[r] = w}

LedgerTypeOK ==
  /\ window \in [start : Nat, used : Nat] \cup {Closed}
  /\ granted \in [Request -> Nat \cup {NoStart}]

\* No request is charged to a window that has not opened, and none to a
\* window that began less than the hours of a plan before the open one.
ChargesPrecede ==
  \A r \in Request :
    /\ granted[r] <= window.start
    /\ granted[r] \notin {NoStart, window.start} =>
         \E p \in Plan : window.start - granted[r] >= Hours[p]

\* Every request charged to the open window is counted by it.
EveryChargeCounted ==
  window # Closed => Cardinality(Charged(granted, window.start)) <= window.used

\* The open window counts no more than a plan allows.
WindowWithinLimit ==
  window # Closed => \E p \in Plan : window.used <= Limit[p]

\* No window, past or open, was ever charged more than a plan allows.
ChargesWithinLimit ==
  \A r \in Request : granted[r] # NoStart =>
    \E p \in Plan : Cardinality(Charged(granted, granted[r])) <= Limit[p]

\* Windows that were charged start at least the hours of a plan apart.
WindowsApart ==
  \A r, s \in Request :
    granted[r] # NoStart /\ granted[r] < granted[s] =>
      \E p \in Plan : granted[s] - granted[r] >= Hours[p]

LedgerInv ==
  /\ LedgerTypeOK
  /\ ChargesPrecede
  /\ EveryChargeCounted
  /\ WindowWithinLimit
  /\ ChargesWithinLimit
  /\ WindowsApart
=============================================================================
