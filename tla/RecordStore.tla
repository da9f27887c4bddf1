----------------------------- MODULE RecordStore -----------------------------
(***************************************************************************)
(* What the API may expect of a JobRepository: every operation takes       *)
(* effect at once, on the record of one key.  InMemoryJobRepository does   *)
(* so by construction; PostgresStore shows how far the SQL repository,     *)
(* whose operations are several statements, does.                          *)
(*                                                                         *)
(* A record that was given a time to live may be dropped once it is over,  *)
(* and is found until then.  A change of its status gives it what is left  *)
(* of that time in whole seconds, so it may go up to a second early from   *)
(* then on.  Quota windows are in QuotaLedger.                             *)
(***************************************************************************)
EXTENDS Integers

CONSTANTS
  RecordKey,  \* keys
  KindOf,     \* KindOf[k]: the kind of record that k is the key of
  Caller,     \* those who read
  Twin,       \* object keys of one hash, in the dedup index
  Second,     \* instants of the clock in a second
  Horizon     \* bound: the latest end of a record's time

Kind  == {"profile", "job", "session", "checkout", "idempotency", "event", "audit",
          "completion", "dedup"}
Timed == {"session", "checkout", "idempotency"}

VARIABLES
  clock,    \* now()
  records,  \* records[k]: the record under key k, or Nothing
  answers   \* answers[c]: the records that c was last given

storeVars == <<clock, records, answers>>

Note    == {"none", "SCAN"}  \* error codes
Nothing == [status |-> "nothing", note |-> "none", expires |-> 0, holds |-> {}]

A(status, expires) == [Nothing EXCEPT !.status = status, !.expires = expires]

Is(k, kind) == KindOf[k] = kind

Present(k) == records[k] # Nothing

\* A record whose status was changed has lost the part of a second.
Slack(v) == IF v.status \in {"revoked", "paid"} THEN Second ELSE 1

\* The end of the record's own time has come, or nearly.
Lapsed(k) == KindOf[k] \in Timed /\ records[k].expires < clock + Slack(records[k])

\* Fields that a patch does not name stay.
Merged(v, status, note) ==
  [v EXCEPT !.status = status, !.note = IF note = "none" THEN @ ELSE note]
-----------------------------------------------------------------------------
StoreInit ==
  /\ clock = 0
  /\ records = [k \in RecordKey |-> Nothing]
  /\ answers = [c \in Caller |-> {}]

Save(k, v) == records' = [records EXCEPT ![k] = v] /\ UNCHANGED <<clock, answers>>

Reads(c, found) == answers' = [answers EXCEPT ![c] = found] /\ UNCHANGED <<clock, records>>

Plans    == {"free", "pro"}
Statuses == {"running", "failed"}

CreateJob(k)            == Is(k, "job") /\ Save(k, A("queued", 0))
UpsertSubjectProfile(k) == Is(k, "profile") /\ \E p \in Plans : Save(k, A(p, 0))

PutAuthRefreshSession(k) ==
  Is(k, "session") /\ \E e \in 0..Horizon : Save(k, A("live", e))

CreateBillingCheckoutSession(k) ==
  Is(k, "checkout") /\ \E e \in 0..Horizon : Save(k, A("created", e))

SetCleanupIdempotency(k) ==
  Is(k, "idempotency") /\ \E e \in 0..Horizon, s \in {"102", "202"} : Save(k, A(s, e))

UpdateJobStatus(k) ==
  /\ Is(k, "job") /\ Present(k)
  /\ \E s \in Statuses, n \in Note : Save(k, Merged(records[k], s, n))

\* A session with less than a second to live is dropped instead.
RevokeAuthRefreshSession(k) ==
  /\ Is(k, "session") /\ Present(k)
  /\ \/ Save(k, Merged(records[k], "revoked", "none"))
     \/ records[k].expires < clock + Second /\ Save(k, Nothing)

UpdateBillingCheckoutStatus(k) ==
  /\ Is(k, "checkout") /\ Present(k)
  /\ Save(k, Merged(records[k], "paid", "none"))

\* The first event of an id stays.
AppendBillingWebhookEvent(k) ==
  /\ Is(k, "event") /\ ~Present(k)
  /\ \E s \in Statuses : Save(k, A(s, 0))

AppendDeletionAudit(k) == Is(k, "audit") /\ ~Present(k) /\ Save(k, A("success", 0))

\* The completion and the entry of its object in the dedup index, at once.
FinalizeUploadCompletion(k, h, twin) ==
  /\ Is(k, "completion") /\ Is(h, "dedup")
  /\ records' = [records EXCEPT
       ![k] = A("completed", 0),
       ![h] = [A("index", 0) EXCEPT !.holds = records[h].holds \cup {twin}]]
  /\ UNCHANGED <<clock, answers>>

Find(c, k) ==
  \/ Reads(c, IF Present(k) THEN {records[k]} ELSE {})
  \/ Lapsed(k) /\ Reads(c, {})

ListBillingCheckoutSessions(c) ==
  LET there == {k \in RecordKey : Is(k, "checkout") /\ Present(k)}
  IN  \E over \in SUBSET {k \in there : Lapsed(k)} : Reads(c, {records[k] : k \in there \ over})

\* InMemoryJobRepository drops idempotency records only.
Drop(k) == Lapsed(k) /\ Save(k, Nothing)

PassTime == clock' = clock + 1 /\ UNCHANGED <<records, answers>>

StoreNext ==
  \/ \E k \in RecordKey :
       \/ CreateJob(k) \/ UpsertSubjectProfile(k) \/ PutAuthRefreshSession(k)
       \/ CreateBillingCheckoutSession(k) \/ SetCleanupIdempotency(k)
       \/ UpdateJobStatus(k) \/ RevokeAuthRefreshSession(k) \/ UpdateBillingCheckoutStatus(k)
       \/ AppendBillingWebhookEvent(k) \/ AppendDeletionAudit(k) \/ Drop(k)
       \/ \E h \in RecordKey, twin \in Twin : FinalizeUploadCompletion(k, h, twin)
       \/ \E c \in Caller : Find(c, k)
  \/ \E c \in Caller : ListBillingCheckoutSessions(c)
  \/ PassTime

StoreSpec == StoreInit /\ [][StoreNext]_storeVars
=============================================================================
