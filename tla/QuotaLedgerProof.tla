-------------------------- MODULE QuotaLedgerProof --------------------------
(***************************************************************************)
(* The abstract ledger keeps its promise for every set of requests and     *)
(* plans.  LedgerInv is inductive as it stands.                            *)
(***************************************************************************)
EXTENDS QuotaLedger, FiniteSetTheorems, TLAPS

\* The requests charged to a window are finitely many, so their number is a
\* natural number.
LEMMA ChargedFinite ==
  ASSUME NEW g, NEW w
  PROVE  /\ IsFiniteSet(Charged(g, w))
         /\ Cardinality(Charged(g, w)) \in Nat
BY FS_Subset, FS_CardinalityType, LedgerAssumption DEF Charged

\* Charging r to window w adds at most r to that window and takes at most r
\* from any other.
LEMMA ChargeCardinality ==
  ASSUME NEW g \in [Request -> Nat \cup {NoStart}], NEW r \in Request, NEW w \in Nat,
         NEW h, h = [g EXCEPT ![r] = w]
  PROVE  /\ Cardinality(Charged(h, w)) <= Cardinality(Charged(g, w)) + 1
         /\ \A v \in Nat : v # w => Cardinality(Charged(h, v)) <= Cardinality(Charged(g, v))
<1>1. Charged(h, w) = Charged(g, w) \cup {r}
  BY DEF Charged
<1>2. Cardinality(Charged(g, w) \cup {r}) <= Cardinality(Charged(g, w)) + 1
  <2>1. IsFiniteSet(Charged(g, w)) /\ Cardinality(Charged(g, w)) \in Nat
    BY ChargedFinite
  <2>2. \/ Cardinality(Charged(g, w) \cup {r}) = Cardinality(Charged(g, w)) + 1
        \/ Cardinality(Charged(g, w) \cup {r}) = Cardinality(Charged(g, w))
    BY <2>1, FS_AddElement
  <2>. QED
    BY <2>1, <2>2
<1>3. ASSUME NEW v \in Nat, v # w
      PROVE  Cardinality(Charged(h, v)) <= Cardinality(Charged(g, v))
  <2>1. Charged(h, v) \subseteq Charged(g, v)
    BY <1>3 DEF Charged
  <2>2. IsFiniteSet(Charged(g, v))
    BY ChargedFinite
  <2>. QED
    BY <2>1, <2>2, FS_Subset
<1>. QED
  BY <1>1, <1>2, <1>3

LEMMA LedgerInitInv == LedgerInit => LedgerInv
BY DEF LedgerInit, LedgerInv, LedgerTypeOK, ChargesPrecede, EveryChargeCounted,
       WindowWithinLimit, ChargesWithinLimit, WindowsApart, Closed, NoStart

\* What Charge and Open have in common: r is charged to the window that starts
\* at w, which counts u images within the limit of p, and which is the open
\* window or begins the hours of a plan after it.
LEMMA ChargeInv ==
  ASSUME LedgerInv, NEW r \in Request, NEW p \in Plan, NEW w \in Nat, NEW u \in Nat,
         window' = [start |-> w, used |-> u],
         granted' = [granted EXCEPT ![r] = w],
         u <= Limit[p],
         Cardinality(Charged(granted, w)) + 1 <= u,
         \/ window = Closed
         \/ window.start = w
         \/ \E q \in Plan : w - window.start >= Hours[q]
  PROVE  LedgerInv'
<1>. USE LedgerAssumption DEF NoStart
<1>1. LedgerTypeOK'
  BY DEF LedgerInv, LedgerTypeOK
<1>2. window.start \in Nat \/ (window.start = -1 /\ window = Closed)
  BY DEF LedgerInv, LedgerTypeOK, Closed
<1>3. \/ window = Closed /\ window.start = -1
      \/ window.start = w
      \/ \E q \in Plan : w - window.start >= Hours[q] /\ window.start < w /\ window.start \in Nat
  <2>1. CASE window = Closed
    BY <2>1 DEF Closed
  <2>2. CASE window # Closed /\ window.start # w
    <3>1. PICK q \in Plan : w - window.start >= Hours[q]
      BY <2>2
    <3>2. Hours[q] \in Nat \ {0}
      OBVIOUS
    <3>. QED
      BY <1>2, <2>2, <3>1, <3>2
  <2>. QED
    BY <2>1, <2>2
<1>4. ChargesPrecede'
  <2>. SUFFICES ASSUME NEW s \in Request
                PROVE  /\ granted'[s] <= w
                       /\ granted'[s] \notin {-1, w} =>
                            \E q \in Plan : w - granted'[s] >= Hours[q]
    BY DEF ChargesPrecede
  <2>1. CASE granted'[s] = w
    BY <2>1
  <2>2. CASE granted'[s] # w
    <3>1. granted'[s] = granted[s] /\ granted[s] \in Nat \cup {-1}
      BY <2>2 DEF LedgerInv, LedgerTypeOK
    <3>2. granted[s] <= window.start
      BY DEF LedgerInv, ChargesPrecede
    <3>3. granted[s] \notin {-1, window.start} =>
            \E q \in Plan : window.start - granted[s] >= Hours[q]
      BY DEF LedgerInv, ChargesPrecede
    <3>4. CASE window.start = -1
      BY <3>1, <3>2, <3>4
    <3>5. CASE window.start = w
      BY <2>2, <3>1, <3>2, <3>3, <3>5
    <3>6. ASSUME NEW q \in Plan, w - window.start >= Hours[q],
                 window.start < w, window.start \in Nat
          PROVE  /\ granted'[s] <= w
                 /\ granted'[s] \notin {-1, w} =>
                      \E x \in Plan : w - granted'[s] >= Hours[x]
      <4>1. Hours[q] \in Nat
        OBVIOUS
      <4>2. CASE granted[s] = window.start
        BY <3>1, <3>6, <4>1, <4>2
      <4>3. CASE granted[s] = -1
        BY <3>1, <4>3
      <4>4. CASE granted[s] \notin {-1, window.start}
        <5>1. PICK x \in Plan : window.start - granted[s] >= Hours[x]
          BY <3>3, <4>4
        <5>2. Hours[x] \in Nat
          OBVIOUS
        <5>. QED
          BY <3>1, <3>2, <3>6, <4>4, <5>1, <5>2
      <4>. QED
        BY <4>2, <4>3, <4>4
    <3>. QED
      BY <1>3, <3>4, <3>5, <3>6
  <2>. QED
    BY <2>1, <2>2
<1>5. \A v \in Nat : v # w => Cardinality(Charged(granted', v)) <= Cardinality(Charged(granted, v))
  BY ChargeCardinality DEF LedgerInv, LedgerTypeOK
<1>6. Cardinality(Charged(granted', w)) <= u
  <2>1. Cardinality(Charged(granted', w)) <= Cardinality(Charged(granted, w)) + 1
    BY ChargeCardinality DEF LedgerInv, LedgerTypeOK
  <2>2. /\ Cardinality(Charged(granted', w)) \in Nat
        /\ Cardinality(Charged(granted, w)) \in Nat
    BY ChargedFinite
  <2>. QED
    BY <2>1, <2>2
<1>7. EveryChargeCounted'
  BY <1>6 DEF EveryChargeCounted
<1>8. WindowWithinLimit'
  BY DEF WindowWithinLimit
<1>9. ChargesWithinLimit'
  <2>. SUFFICES ASSUME NEW s \in Request, granted'[s] # -1
                PROVE  \E q \in Plan : Cardinality(Charged(granted', granted'[s])) <= Limit[q]
    BY DEF ChargesWithinLimit
  <2>1. CASE granted'[s] = w
    <3>1. Cardinality(Charged(granted', w)) \in Nat
      BY ChargedFinite
    <3>. QED
      BY <2>1, <3>1, <1>6
  <2>2. CASE granted'[s] # w
    <3>1. granted'[s] = granted[s] /\ granted[s] \in Nat
      BY <2>2 DEF LedgerInv, LedgerTypeOK
    <3>2. PICK q \in Plan : Cardinality(Charged(granted, granted[s])) <= Limit[q]
      BY <3>1 DEF LedgerInv, ChargesWithinLimit
    <3>3. /\ Cardinality(Charged(granted, granted[s])) \in Nat
          /\ Cardinality(Charged(granted', granted[s])) \in Nat
      BY ChargedFinite
    <3>4. Cardinality(Charged(granted', granted[s])) <= Cardinality(Charged(granted, granted[s]))
      BY <2>2, <3>1, <1>5
    <3>. QED
      BY <3>1, <3>2, <3>3, <3>4
  <2>. QED
    BY <2>1, <2>2
<1>10. WindowsApart'
  <2>. SUFFICES ASSUME NEW s \in Request, NEW t \in Request,
                       granted'[s] # -1, granted'[s] < granted'[t]
                PROVE  \E q \in Plan : granted'[t] - granted'[s] >= Hours[q]
    BY DEF WindowsApart
  <2>1. granted'[s] <= w /\ granted'[t] <= w /\ granted'[s] \in Nat /\ granted'[t] \in Nat \cup {-1}
    BY <1>1, <1>4 DEF LedgerTypeOK, ChargesPrecede
  <2>2. CASE granted'[t] = w
    BY <1>4, <2>1, <2>2 DEF ChargesPrecede
  <2>3. CASE granted'[t] # w
    <3>1. granted'[t] = granted[t] /\ granted'[s] = granted[s]
      BY <2>1, <2>3 DEF LedgerInv, LedgerTypeOK
    <3>. QED
      BY <3>1 DEF LedgerInv, WindowsApart
  <2>. QED
    BY <2>2, <2>3
<1>. QED
  BY <1>1, <1>4, <1>7, <1>8, <1>9, <1>10 DEF LedgerInv

LEMMA LedgerStepInv == LedgerInv /\ [LedgerNext]_ledgerVars => LedgerInv'
<1>. SUFFICES ASSUME LedgerInv, [LedgerNext]_ledgerVars PROVE LedgerInv'
  OBVIOUS
<1>. USE LedgerAssumption
<1>1. ASSUME NEW r \in Request, NEW p \in Plan, NEW now \in Time, Charge(r, p, now)
      PROVE  LedgerInv'
  <2>1. window.start \in Nat /\ window.used \in Nat
    BY <1>1 DEF Charge, LedgerInv, LedgerTypeOK
  <2>2. window' = [start |-> window.start, used |-> window.used + 1]
    BY <1>1 DEF Charge, LedgerInv, LedgerTypeOK
  <2>3. Cardinality(Charged(granted, window.start)) + 1 <= window.used + 1
    BY <1>1, <2>1, ChargedFinite DEF Charge, LedgerInv, EveryChargeCounted
  <2>4. window.used + 1 <= Limit[p]
    BY <1>1, <2>1 DEF Charge
  <2>5. granted' = [granted EXCEPT ![r] = window.start] /\ window.used + 1 \in Nat
    BY <1>1, <2>1 DEF Charge
  <2>. QED
    BY <2>1, <2>2, <2>3, <2>4, <2>5, ChargeInv
<1>2. ASSUME NEW r \in Request, NEW p \in Plan, NEW now \in Time, Open(r, p, now)
      PROVE  LedgerInv'
  <2>1. Charged(granted, now) = {}
    BY <1>2 DEF Open, Charged, LedgerInv, LedgerTypeOK, ChargesPrecede, Closed, NoStart
  <2>2. Cardinality(Charged(granted, now)) + 1 <= 1
    BY <2>1, FS_EmptySet
  <2>3. 1 <= Limit[p]
    BY <1>2 DEF Open
  <2>4. window = Closed \/ \E q \in Plan : now - window.start >= Hours[q]
    BY <1>2 DEF Open
  <2>. QED
    BY <1>2, <2>2, <2>3, <2>4, ChargeInv DEF Open
<1>3. CASE UNCHANGED ledgerVars
  BY <1>3 DEF ledgerVars, LedgerInv, LedgerTypeOK, ChargesPrecede, EveryChargeCounted,
              WindowWithinLimit, ChargesWithinLimit, WindowsApart
<1>. QED
  BY <1>1, <1>2, <1>3 DEF LedgerNext

\* The ledger never forgets a charge of the open window, never charges a window
\* beyond a plan's limit, and never opens a window before the last one is over.
THEOREM LedgerCorrect == LedgerSpec => []LedgerInv
BY LedgerInitInv, LedgerStepInv, PTL DEF LedgerSpec
=============================================================================
