------------------------------ MODULE Billing ------------------------------
(***************************************************************************)
(* The plan of one subject and everything that writes it: checkout, the    *)
(* webhook of the payment provider, reconcile, cancel and reactivate, and  *)
(* the profile's part of the two logins.  Every handler reads, awaits and  *)
(* writes, so requests interleave; any of them may die on the way, and the *)
(* provider sends an event again until it is answered 200.                 *)
(*                                                                         *)
(* A reconcile that is answered from its idempotency record changes        *)
(* nothing and is left out.  A definition whose name ends in Slip is a     *)
(* mutant of the one that follows it.                                      *)
(***************************************************************************)
EXTENDS Integers

CONSTANTS
  Slot,         \* bound: requests under way at the same time
  MaxSessions,  \* bound: checkout sessions
  MaxRequests,  \* bound: requests, the first deliveries of an event aside
  MaxDeaths     \* bound: requests that fail on the way

ASSUME BillingAssumption == {MaxSessions, MaxRequests, MaxDeaths} \subseteq Nat

Checkout == 1..MaxSessions
Paid     == {"pro", "team"}
Plan     == {"free"} \cup Paid
Profile  == Plan \cup {"none"}
Rank     == [p \in Profile |-> CASE p = "team" -> 2 [] p = "pro" -> 1 [] p = "free" -> 0
                                 [] OTHER -> -1]

\* Events of the provider: what has become of a checkout session.  A session
\* that expired is treated as one that was canceled.
Event == Checkout \X {"paid", "canceled"}

VARIABLES
  profile,    \* the plan in the subject's profile
  planOf,     \* planOf[s]: the plan of the provider's session s, once it exists
  checkout,   \* checkout[s]: the status in the record of s
  older,      \* older[s]: sessions with an earlier updatedAt in their records than s
  offered,    \* sessions whose checkout URL the user was given
  emitted,    \* events the provider has emitted
  recorded,   \* events recorded under their provider id
  acked,      \* events answered 200
  request,    \* request[i]: the request in slot i
  started,    \* requests so far
  deaths,     \* failures so far
  chosen,     \* history: plans chosen when a session of the site was created
  applied,    \* history: sessions whose webhook wrote the profile
  excused     \* history: the user canceled, or a write was lost

billingVars == <<profile, planOf, checkout, older, offered, emitted, recorded,
                 acked, request, started, deaths, chosen, applied, excused>>
records == <<checkout, older, recorded>>
world   == <<planOf, offered, emitted, acked, started, deaths, chosen>>

Idle == [kind |-> "idle", step |-> "idle", session |-> 0, status |-> "created",
         plan |-> "none", stale |-> FALSE, left |-> {}]
-----------------------------------------------------------------------------
BillingInit ==
  /\ profile = "none"
  /\ planOf = [s \in Checkout |-> "none"]
  /\ checkout = [s \in Checkout |-> "none"]
  /\ older = [s \in Checkout |-> {}]
  /\ offered = {}
  /\ emitted = {}
  /\ recorded = {}
  /\ acked = {}
  /\ request = [i \in Slot |-> Idle]
  /\ started = 0
  /\ deaths = 0
  /\ chosen = {}
  /\ applied = {}
  /\ excused = FALSE

At(i, step) == request[i].step = step

\* The session that was created first.
First(S) == CHOOSE s \in S : \A q \in S : s <= q

\* Request r at another step, with the next record of its list, or over.
Moved(r, step) ==
  CASE step = "over" -> Idle
    [] step = "next" -> IF r.left = {First(r.left)} THEN Idle
                        ELSE [r EXCEPT !.step = "read", !.left = @ \ {First(@)}]
    [] OTHER         -> [r EXCEPT !.step = step]

Go(i, step) == request' = [request EXCEPT ![i] = Moved(@, step)]

\* A request arrives: what it is given, and its first step.
Begin(i, kind, step, plan, session, status) ==
  /\ request[i] = Idle
  /\ request' = [request EXCEPT ![i] =
       [Idle EXCEPT !.kind = kind, !.step = step, !.plan = plan, !.session = session,
                    !.status = status]]

Ask(i, kind, step, plan) ==
  /\ started < MaxRequests
  /\ started' = started + 1
  /\ Begin(i, kind, step, plan, 0, "created")
  /\ excused' = (excused \/ kind = "cancel")
  /\ UNCHANGED <<profile, records, planOf, offered, emitted, acked, deaths, applied>>

AskCheckout(i) == \E p \in Paid : Ask(i, "checkout", "read", p) /\ UNCHANGED chosen
AskCreate(i)   == \E p \in Plan : Ask(i, "create", "read", p) /\ chosen' = chosen \cup {p}
AskLogin(i)    == Ask(i, "login", "read", "none") /\ UNCHANGED chosen
AskChange(i)   == \E k \in {"cancel", "reactivate"} :
                    Ask(i, k, "read", "none") /\ UNCHANGED chosen
AskReconcile(i) == Ask(i, "reconcile", "scan", "none") /\ UNCHANGED chosen

\* The provider delivers an event, again and again until it is answered, and
\* perhaps once more.
Deliver(i, e) ==
  /\ e \in emitted
  /\ IF e \in acked THEN started < MaxRequests /\ started' = started + 1
                    ELSE UNCHANGED started
  /\ Begin(i, "webhook", "event", "none", e[1], e[2])
  /\ UNCHANGED <<profile, records, planOf, offered, emitted, acked, deaths, chosen,
                 applied, excused>>
-----------------------------------------------------------------------------
(* The profile is read and written back whole.                             *)

\* The plan of the record that a reconcile is at.
Scanned(r) == planOf[First(r.left)]

\* Where a request goes once it has read the profile.
AfterRead(r) ==
  CASE r.kind = "checkout"   -> IF profile = "none" THEN "write" ELSE "provider"
    [] r.kind = "create"     -> IF profile = "none" THEN "write" ELSE "over"
    [] r.kind = "cancel"     -> IF profile = "free" THEN "over" ELSE "write"
    [] r.kind = "reactivate" -> "latest"
    [] r.kind = "reconcile"  -> IF Rank[profile] >= Rank[Scanned(r)] THEN "next" ELSE "write"
    [] OTHER                 -> "write"

\* The plan it writes.  The slip: a login starts over with the free plan.
WrittenSlip(r) ==
  CASE r.kind \in {"checkout", "cancel", "login"} -> "free"
    [] r.kind = "webhook"   -> planOf[r.session]
    [] r.kind = "reconcile" -> Scanned(r)
    [] OTHER                -> r.plan

Written(r) ==
  CASE r.kind \in {"checkout", "cancel"} -> "free"
    [] r.kind = "webhook"   -> planOf[r.session]
    [] r.kind = "reconcile" -> Scanned(r)
    [] r.kind = "login"     -> IF r.plan = "none" THEN "free" ELSE r.plan
    [] OTHER                -> r.plan

AfterWrite(r) ==
  CASE r.kind = "checkout"  -> "provider"
    [] r.kind = "webhook"   -> "append"
    [] r.kind = "reconcile" -> "next"
    [] OTHER                -> "over"

ReadProfile(i) ==
  LET r == request[i]
  IN  /\ At(i, "read")
      /\ request' = [request EXCEPT ![i] =
           Moved([r EXCEPT !.stale = FALSE,
                           !.plan = IF r.kind \in {"checkout", "create"} THEN @ ELSE profile],
                 AfterRead(r))]
      /\ UNCHANGED <<profile, records, world, applied, excused>>

\* The write makes what other requests have read stale.
WriteProfile(i) ==
  LET r == request[i]
  IN  /\ At(i, "write")
      /\ profile' = Written(r)
      /\ request' = [j \in Slot |->
           IF j = i THEN Moved(r, AfterWrite(r))
           ELSE IF request[j] = Idle THEN Idle ELSE [request[j] EXCEPT !.stale = TRUE]]
      /\ applied' = IF r.kind = "webhook" THEN applied \cup {r.session} ELSE applied
      /\ excused' = (excused \/ (r.stale /\ r.kind # "webhook"))
      /\ UNCHANGED <<records, world>>
-----------------------------------------------------------------------------
(* Checkout and subscription.                                              *)

\* The provider creates a session...
CreateProviderSession(i) ==
  /\ At(i, "provider")
  /\ \E s \in Checkout :
       /\ planOf[s] = "none" /\ \A q \in 1..(s - 1) : planOf[q] # "none"
       /\ planOf' = [planOf EXCEPT ![s] = request[i].plan]
       /\ request' = [request EXCEPT ![i].step = "store", ![i].session = s]
  /\ UNCHANGED <<profile, records, offered, emitted, acked, started, deaths, chosen,
                 applied, excused>>

\* The record of s has the latest updatedAt.
Touched(s) == [q \in Checkout |-> IF q = s THEN Checkout \ {s} ELSE older[q] \ {s}]

\* ... and it is recorded before the user learns of its URL.
StoreCheckout(i) ==
  LET s == request[i].session
  IN  /\ At(i, "store")
      /\ checkout' = [checkout EXCEPT ![s] = "created"]
      /\ older' = Touched(s)
      /\ offered' = offered \cup {s}
      /\ Go(i, "over")
      /\ UNCHANGED <<profile, planOf, emitted, recorded, acked, started, deaths,
                     chosen, applied, excused>>

Stored(s) == checkout[s] \notin {"none", "gone"}
PaidRecord(s) == checkout[s] = "paid"

\* The paid sessions, and the one that was updated last.
PaidSessions == {s \in Checkout : PaidRecord(s)}
LastPaid     == {s \in PaidSessions : PaidSessions \ {s} \subseteq older[s]}

\* The last paid session is what a subscription is reactivated from.
LatestPaid(i) ==
  /\ At(i, "latest")
  /\ \/ PaidSessions = {} /\ Go(i, "over")
     \/ \E s \in LastPaid :
          IF planOf[s] = request[i].plan
          THEN Go(i, "over")
          ELSE request' = [request EXCEPT ![i].step = "write", ![i].plan = planOf[s]]
  /\ UNCHANGED <<profile, records, world, applied, excused>>

\* Reconcile lists the sessions once and goes through the paid ones, whatever
\* becomes of them or of the plan meanwhile.  The slip is to take them all.
ScanAnyStatusSlip(i) ==
  LET all == {s \in Checkout : Stored(s)}
  IN  /\ At(i, "scan")
      /\ request' = [request EXCEPT ![i] = IF all = {} THEN Idle
                                          ELSE [@ EXCEPT !.step = "read", !.left = all]]
      /\ UNCHANGED <<profile, records, world, applied, excused>>

ScanCheckouts(i) ==
  /\ At(i, "scan")
  /\ request' = [request EXCEPT ![i] = IF PaidSessions = {} THEN Idle
                                      ELSE [@ EXCEPT !.step = "read", !.left = PaidSessions]]
  /\ UNCHANGED <<profile, records, world, applied, excused>>
-----------------------------------------------------------------------------
(* The webhook.                                                            *)

EventOf(r) == <<r.session, r.status>>

\* What a webhook does next: an event that is recorded is not applied again, and
\* one whose session has no record is answered 404.
AfterLookup(r) ==
  IF EventOf(r) \notin recorded /\ Stored(r.session) THEN "update" ELSE "over"

\* The answer comes first and the work after it.
FindEventSlip(i) ==
  /\ At(i, "event")
  /\ Go(i, AfterLookup(request[i]))
  /\ acked' = acked \cup {EventOf(request[i])}
  /\ UNCHANGED <<profile, records, planOf, offered, emitted, started, deaths, chosen,
                 applied, excused>>

FindEvent(i) ==
  /\ At(i, "event")
  /\ Go(i, AfterLookup(request[i]))
  /\ acked' = acked \cup ({EventOf(request[i])} \cap recorded)
  /\ UNCHANGED <<profile, records, planOf, offered, emitted, started, deaths, chosen,
                 applied, excused>>

\* The event is recorded before the profile is written, as it would be if the
\* event record were to guard against duplicates.
UpdateCheckoutSwappedSlip(i) ==
  LET r == request[i]
  IN  /\ At(i, "update")
      /\ checkout' = [checkout EXCEPT ![r.session] = IF Stored(r.session) THEN r.status ELSE @]
      /\ recorded' = recorded \cup {EventOf(r)}
      /\ Go(i, IF r.status = "paid" THEN "read" ELSE "append")
      /\ UNCHANGED <<profile, older, world, applied, excused>>

\* The session's record, if it is still there, takes the status of the event;
\* only a payment goes on to the profile.
UpdateCheckout(i) ==
  LET r == request[i]
  IN  /\ At(i, "update")
      /\ IF Stored(r.session)
         THEN /\ checkout' = [checkout EXCEPT ![r.session] = r.status]
              /\ older' = Touched(r.session)
         ELSE UNCHANGED <<checkout, older>>
      /\ Go(i, IF r.status = "paid" THEN "read" ELSE "append")
      /\ UNCHANGED <<profile, recorded, world, applied, excused>>

\* SET NX: the first of two webhooks for one event goes on to the list.
AppendEvent(i) ==
  LET e == EventOf(request[i])
  IN  /\ At(i, "append")
      /\ recorded' = recorded \cup {e}
      /\ Go(i, IF e \in recorded THEN "over" ELSE "list")
      /\ acked' = IF e \in recorded THEN acked \cup {e} ELSE acked
      /\ UNCHANGED <<profile, checkout, older, planOf, offered, emitted, started,
                     deaths, chosen, applied, excused>>

ListEvent(i) ==
  /\ At(i, "list")
  /\ acked' = acked \cup {EventOf(request[i])}
  /\ Go(i, "over")
  /\ UNCHANGED <<profile, records, planOf, offered, emitted, started, deaths, chosen,
                 applied, excused>>
-----------------------------------------------------------------------------
\* A store or the provider fails, or the process dies: no answer.
Die(i) ==
  /\ request[i] # Idle
  /\ deaths < MaxDeaths
  /\ deaths' = deaths + 1
  /\ Go(i, "over")
  /\ UNCHANGED <<profile, records, planOf, offered, emitted, acked, started, chosen,
                 applied, excused>>

\* What the provider sees: the user pays at the URL, or lets it expire; a
\* payment it has reported may still be canceled.
Emit(s) ==
  /\ \/ /\ s \in offered /\ \A e \in emitted : e[1] # s
        /\ \E status \in {"paid", "canceled"} : emitted' = emitted \cup {<<s, status>>}
     \/ <<s, "paid">> \in emitted /\ <<s, "canceled">> \notin emitted
        /\ emitted' = emitted \cup {<<s, "canceled">>}
  /\ UNCHANGED <<profile, records, planOf, offered, acked, request, started, deaths, chosen,
                 applied, excused>>

\* Redis drops the record of a session when the checkout's time is over.
DropCheckout(s) ==
  /\ Stored(s)
  /\ checkout' = [checkout EXCEPT ![s] = "gone"]
  /\ UNCHANGED <<profile, older, recorded, world, request, applied, excused>>

Handle(i) ==
  \/ ReadProfile(i) \/ WriteProfile(i)
  \/ CreateProviderSession(i) \/ StoreCheckout(i) \/ LatestPaid(i) \/ ScanCheckouts(i)
  \/ FindEvent(i) \/ UpdateCheckout(i) \/ AppendEvent(i) \/ ListEvent(i)

BillingNext ==
  \/ \E i \in Slot :
       \/ AskCheckout(i) \/ AskCreate(i) \/ AskLogin(i) \/ AskChange(i) \/ AskReconcile(i)
       \/ \E e \in Event : Deliver(i, e)
       \/ Handle(i) \/ Die(i)
  \/ \E s \in Checkout : Emit(s) \/ DropCheckout(s)

\* Handlers run on, and the provider repeats an event that is not answered.
BillingFairness ==
  /\ \A i \in Slot : WF_billingVars(Handle(i))
  /\ \A e \in Event : SF_billingVars(e \notin acked /\ \E i \in Slot : Deliver(i, e))

BillingSpec == BillingInit /\ [][BillingNext]_billingVars /\ BillingFairness
-----------------------------------------------------------------------------
(* Properties.                                                             *)

\* Every variable stays in its type.
BillingTypeOK ==
  /\ profile \in Profile
  /\ planOf \in [Checkout -> Paid \cup {"none"}]
  /\ checkout \in [Checkout -> {"none", "created", "paid", "canceled", "gone"}]
  /\ older \in [Checkout -> SUBSET Checkout]
  /\ offered \subseteq Checkout
  /\ {emitted, recorded, acked} \subseteq SUBSET Event
  /\ \A i \in Slot :
       /\ request[i].plan \in Profile
       /\ request[i].session \in Checkout \cup {0}
       /\ request[i].left \subseteq Checkout
  /\ {started, deaths} \subseteq Nat
  /\ chosen \subseteq Plan
  /\ applied \subseteq Checkout

\* Nobody gets a plan for nothing: whatever logins, reconciles and subscription
\* changes write back, a paid plan was chosen when the session was created or
\* paid for at the provider.
PlanHasSource ==
  profile \in {"none", "free"} \cup chosen \cup {planOf[e[1]] : e \in {x \in emitted : x[2] = "paid"}}

\* An event that will never be applied again has been applied: no death between
\* the steps of a webhook and no second delivery loses a payment.
RecordedMeansApplied ==
  \A e \in recorded : e[2] = "paid" => e[1] \in applied

\* Once a payment is recorded the user keeps a paid plan, until they cancel or a
\* request that read the profile before another one's write writes it back.
PaidStaysPaid ==
  (\E e \in recorded : e[2] = "paid") /\ ~excused => profile \in Paid

\* A payment is granted in the end, despite failures, unless the session's
\* record is dropped first.
PaymentIsGranted ==
  \A s \in Checkout : <<s, "paid">> \in emitted ~> s \in applied \/ checkout[s] = "gone"
=============================================================================
