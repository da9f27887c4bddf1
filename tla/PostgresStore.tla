---------------------------- MODULE PostgresStore ----------------------------
(***************************************************************************)
(* The records of PostgresJobRepository and PostgresWorkerJobRepository,   *)
(* one SQL statement a step.  A row keeps its value and when it expires;   *)
(* reading an expired row deletes it with a second statement, which does   *)
(* not look at what is there by then; an update reads the value, merges    *)
(* and writes it back; the completion of an upload is a transaction that   *)
(* locks the row of the dedup index, if there is one.                      *)
(*                                                                         *)
(* A definition whose name ends in Slip is a mutant of the one after it.   *)
(***************************************************************************)
EXTENDS Integers

CONSTANTS
  RecordKey, KindOf, Caller, Twin, Second, Horizon,  \* as in RecordStore
  TtlOf,     \* TtlOf[kind]: the time that a record of that kind is given
  MaxAsked   \* bound: calls

VARIABLES
  clock,    \* now()
  records,  \* records[k]: the value in the row of key k, or Nothing
  until,    \* until[k]: expires_at of that row
  answers,  \* answers[c]: the records that caller c was last given
  calls,    \* calls[c]: the call of c: its next statement, what it knows, since when
  locked,   \* the caller that holds the row of the dedup index
  asked,    \* calls so far
  overtaken \* history: a statement acted on a row that had changed since it was read

Repository == INSTANCE RecordStore

ASSUME StoreAssumption ==
  /\ KindOf \in [RecordKey -> Repository!Kind]
  /\ TtlOf \in [Repository!Timed -> 1..Horizon]
  /\ Second \in Nat \ {0} /\ Horizon \in Nat /\ MaxAsked \in Nat

tableVars == <<clock, records, until, answers, calls, locked, asked, overtaken>>

Nothing == Repository!Nothing
NoRow   == [value |-> Nothing, until |-> 0]
Row(k)  == [value |-> records[k], until |-> until[k]]
Quiet   == [next |-> "none", key |-> CHOOSE k \in RecordKey : TRUE, value |-> Nothing,
            ttl |-> 0, base |-> NoRow, since |-> 0]
Free    == "free"

\* Math.floor(ms / 1000), in the clock's instants.
WholeSeconds(ms) == ms - (ms % Second)

\* expires_at is NULL for a row that was given no time.
Expired(row) == row.until # 0 /\ row.until <= clock

TablesInit ==
  /\ clock = 0
  /\ records = [k \in RecordKey |-> Nothing]
  /\ until = [k \in RecordKey |-> 0]
  /\ answers = [c \in Caller |-> {}]
  /\ calls = [c \in Caller |-> Quiet]
  /\ locked = Free
  /\ asked = 0
  /\ overtaken = FALSE

Knows(c, next) == calls[c].next = next

Done(c) == calls' = [calls EXCEPT ![c] = Quiet]

PutRow(k, row) ==
  /\ records' = [records EXCEPT ![k] = row.value]
  /\ until' = [until EXCEPT ![k] = row.until]

\* A call of a repository method, up to its first statement.
Ask(c, kind, next, value, ttl) ==
  /\ calls[c] = Quiet
  /\ asked < MaxAsked
  /\ asked' = asked + 1
  /\ \E k \in RecordKey :
       /\ KindOf[k] = kind
       /\ calls' = [calls EXCEPT ![c] = [next |-> next, key |-> k, value |-> value,
                                         ttl |-> ttl, base |-> NoRow, since |-> clock]]
  /\ UNCHANGED <<clock, records, until, answers, locked, overtaken>>

A(status, expires) == Repository!A(status, expires)

\* What the caller stores says when it ends, from its own look at the clock.
AskTimed(c, kind, status) ==
  Ask(c, kind, "upsert", A(status, clock + TtlOf[kind]), TtlOf[kind])

AskCreateJob(c) == Ask(c, "job", "upsert", A("queued", 0), 0)
AskProfile(c)   == \E p \in Repository!Plans : Ask(c, "profile", "upsert", A(p, 0), 0)
AskSession(c)   == AskTimed(c, "session", "live")
AskCheckout(c)  == AskTimed(c, "checkout", "created")
AskCleanup(c)   == \E s \in {"102", "202"} : AskTimed(c, "idempotency", s)
AskEvent(c)     == \E s \in Repository!Statuses : Ask(c, "event", "insert", A(s, 0), 0)
AskAudit(c)     == Ask(c, "audit", "insert", A("success", 0), 0)
AskGet(c)       == \E kind \in Repository!Kind : Ask(c, kind, "select", Nothing, 0)
AskList(c)      == Ask(c, "checkout", "list", Nothing, 0)
AskFinalize(c)  == Ask(c, "dedup", "lock", A("index", 0), 0)
AskRevoke(c)    == Ask(c, "session", "select", A("revoked", 0), 0)
AskPaid(c)      == Ask(c, "checkout", "select", A("paid", 0), 0)

\* By the API, or by a worker, which reads without a look at the expiry.
AskStatus(c, next) ==
  \E s \in Repository!Statuses, n \in Repository!Note :
    Ask(c, "job", next, [A(s, 0) EXCEPT !.note = n], 0)
-----------------------------------------------------------------------------
(* The statements.  The time in one was read, or worked out, at an instant  *)
(* since the call learned what it knows: the statement may run later.      *)

Since(c) == calls[c].since..clock

ExpiresAt(now, ttl) == IF ttl = 0 THEN 0 ELSE now + ttl

\* ON CONFLICT DO UPDATE SET value = EXCLUDED.value, and no more.
SetStoredValueSlip(c) ==
  LET k == calls[c].key
  IN  /\ Knows(c, "upsert")
      /\ \E now \in Since(c) :
           PutRow(k, [value |-> calls[c].value,
                      until |-> IF Row(k) # NoRow THEN until[k] ELSE ExpiresAt(now, calls[c].ttl)])
      /\ Done(c)
      /\ UNCHANGED <<clock, answers, locked, asked, overtaken>>

SetStoredValue(c) ==
  /\ Knows(c, "upsert")
  /\ \E now \in Since(c) :
       PutRow(calls[c].key, [value |-> calls[c].value, until |-> ExpiresAt(now, calls[c].ttl)])
  /\ Done(c)
  /\ UNCHANGED <<clock, answers, locked, asked, overtaken>>

InsertOnce(c) ==
  /\ Knows(c, "insert")
  /\ LET k == calls[c].key
     IN  PutRow(k, IF Row(k) = NoRow THEN [value |-> calls[c].value, until |-> 0] ELSE Row(k))
  /\ Done(c)
  /\ UNCHANGED <<clock, answers, locked, asked, overtaken>>

\* The call goes on with the row it has read, or answers with it.
Found(c, row) ==
  IF calls[c].value = Nothing
  THEN answers' = [answers EXCEPT ![c] = {row.value}] /\ Done(c)
  ELSE /\ calls' = [calls EXCEPT ![c].next = "merge", ![c].base = row,
                                  ![c].since = clock]
       /\ UNCHANGED answers

NotFound(c) == answers' = IF calls[c].value = Nothing THEN [answers EXCEPT ![c] = {}] ELSE answers

GetStoredValue(c) ==
  LET row == Row(calls[c].key)
  IN  /\ Knows(c, "select")
      /\ \/ row = NoRow /\ NotFound(c) /\ Done(c)
         \/ row # NoRow /\ ~Expired(row) /\ Found(c, row)
         \/ row # NoRow /\ Expired(row) /\ NotFound(c)
            /\ calls' = [calls EXCEPT ![c].next = "delete"]
      /\ UNCHANGED <<clock, records, until, locked, asked, overtaken>>

\* DELETE ... WHERE key = $1, whatever the row is by now.
DeleteExpired(c) ==
  LET k == calls[c].key
  IN  /\ Knows(c, "delete")
      /\ overtaken' = (overtaken \/ (Row(k) # NoRow /\ ~Expired(Row(k))))
      /\ PutRow(k, NoRow)
      /\ Done(c)
      /\ UNCHANGED <<clock, answers, locked, asked>>

WorkerGetStoredValue(c) ==
  LET row == Row(calls[c].key)
  IN  /\ Knows(c, "worker select")
      /\ IF row = NoRow THEN Done(c) /\ UNCHANGED answers ELSE Found(c, row)
      /\ UNCHANGED <<clock, records, until, locked, asked, overtaken>>

\* The value that was read, merged with what the call was given, is written back.
WriteBack(c, kind, row) ==
  /\ Knows(c, "merge") /\ KindOf[calls[c].key] = kind
  /\ PutRow(calls[c].key, row)
  /\ overtaken' = (overtaken \/ Row(calls[c].key) # calls[c].base)
  /\ Done(c)
  /\ UNCHANGED <<clock, answers, locked, asked>>

MergedRow(c, expires) ==
  LET call == calls[c]
  IN  [value |-> Repository!Merged(call.base.value, call.value.status, call.value.note),
       until |-> expires]

UpdateJobStatus(c) == WriteBack(c, "job", MergedRow(c, 0))

\* What is left of the value's time at an instant.  The row's new time counts from
\* a later one.
LeftAt(c, now) == WholeSeconds(calls[c].base.value.expires - now)

\* Nothing is left of the last part of a second: the row is deleted.
RevokeAuthRefreshSession(c) ==
  \E now \in Since(c), later \in Since(c) :
    /\ now <= later
    /\ WriteBack(c, "session", IF LeftAt(c, now) <= 0 THEN NoRow
                               ELSE MergedRow(c, later + LeftAt(c, now)))

\* At least a second more.
UpdateBillingCheckoutStatus(c) ==
  \E now \in Since(c), later \in Since(c) :
    /\ now <= later
    /\ WriteBack(c, "checkout",
                 MergedRow(c, later + IF LeftAt(c, now) < Second THEN Second ELSE LeftAt(c, now)))

ListBillingCheckoutSessions(c) ==
  /\ Knows(c, "list")
  /\ answers' = [answers EXCEPT ![c] =
       {records[k] : k \in {l \in RecordKey : /\ KindOf[l] = "checkout"
                                              /\ Row(l) # NoRow /\ ~Expired(Row(l))}}]
  /\ Done(c)
  /\ UNCHANGED <<clock, records, until, locked, asked, overtaken>>

\* SELECT ... FOR UPDATE waits for the holder of the row, and locks what it finds.
LockIndex(c) ==
  LET row == Row(calls[c].key)
  IN  /\ Knows(c, "lock")
      /\ row # NoRow => locked = Free
      /\ locked' = IF row # NoRow THEN c ELSE locked
      /\ calls' = [calls EXCEPT ![c].next = "finalize", ![c].base = row]
      /\ UNCHANGED <<clock, records, until, answers, asked, overtaken>>

\* The upserts and the commit.
CommitCompletion(c) ==
  /\ Knows(c, "finalize")
  /\ locked \in {Free, c}
  /\ \E k \in RecordKey, twin \in Twin :
       /\ KindOf[k] = "completion"
       /\ records' = [records EXCEPT
            ![k] = A("completed", 0),
            ![calls[c].key] =
              [A("index", 0) EXCEPT !.holds = calls[c].base.value.holds \cup {twin}]]
       /\ until' = [until EXCEPT ![k] = 0, ![calls[c].key] = 0]
  /\ overtaken' = (overtaken \/ Row(calls[c].key) # calls[c].base)
  /\ locked' = Free
  /\ Done(c)
  /\ UNCHANGED <<clock, answers, asked>>

\* A statement fails or the process dies; a transaction is rolled back.
StatementFails(c) ==
  /\ calls[c] # Quiet
  /\ locked' = IF locked = c THEN Free ELSE locked
  /\ Done(c)
  /\ UNCHANGED <<clock, records, until, answers, asked, overtaken>>

PassTime ==
  /\ \A kind \in Repository!Timed : clock + TtlOf[kind] < Horizon
  /\ clock' = clock + 1
  /\ UNCHANGED <<records, until, answers, calls, locked, asked, overtaken>>

Asks(c) ==
  \/ AskCreateJob(c) \/ AskProfile(c) \/ AskSession(c) \/ AskCheckout(c) \/ AskCleanup(c)
  \/ AskEvent(c) \/ AskAudit(c) \/ AskGet(c) \/ AskList(c) \/ AskFinalize(c)
  \/ AskRevoke(c) \/ AskPaid(c) \/ AskStatus(c, "select") \/ AskStatus(c, "worker select")

Statement(c) ==
  \/ SetStoredValue(c) \/ InsertOnce(c) \/ GetStoredValue(c) \/ DeleteExpired(c)
  \/ WorkerGetStoredValue(c) \/ UpdateJobStatus(c) \/ RevokeAuthRefreshSession(c)
  \/ UpdateBillingCheckoutStatus(c) \/ ListBillingCheckoutSessions(c)
  \/ LockIndex(c) \/ CommitCompletion(c)

TablesNext == PassTime \/ \E c \in Caller : Asks(c) \/ Statement(c) \/ StatementFails(c)

TablesSpec == TablesInit /\ [][TablesNext]_tableVars
-----------------------------------------------------------------------------
(* Properties.                                                             *)

\* Every variable stays in its type, and a row never lapses before the record in
\* it, but for the last second of one whose status was changed (job-repo.ts:1038).
TablesTypeOK ==
  /\ clock \in Nat /\ asked \in Nat
  /\ \A k \in RecordKey :
       /\ until[k] \in Nat
       /\ records[k] = Nothing => until[k] = 0
       /\ KindOf[k] \in Repository!Timed /\ records[k] # Nothing =>
            until[k] # 0 /\ records[k].expires < until[k] + Repository!Slack(records[k])
       /\ KindOf[k] \notin Repository!Timed => until[k] = 0
  /\ locked \in Caller \cup {Free}
  /\ overtaken \in BOOLEAN

\* Every statement of every method does what one operation of the repository
\* does, or nothing that a caller could see, whatever expires and fails in
\* between, and a record is found until its time is over, or, once its status
\* was changed, until its last second (job-repo.ts:1038, 1182).  This holds until a
\* statement acts on a row that another call has changed since it was read
\* (job-repo.ts:863, 1076), or a first completion of a hash overtakes another
\* (job-repo.ts:975).
ImplementsRepository ==
  /\ Repository!StoreInit
  /\ [][ \/ UNCHANGED <<clock, records, answers>>
        \/ overtaken'
        \/ Repository!StoreNext ]_(Repository!storeVars)
=============================================================================
