---------------------------- MODULE PostgresProof ----------------------------
(***************************************************************************)
(* Postgres, for every value of the constants.                             *)
(*                                                                         *)
(* Reservations implement the ledger, except where a first reservation is  *)
(* overtaken.  What makes it so is the row lock: a reservation that has    *)
(* selected a row holds it, and the row is still what it selected.         *)
(*                                                                         *)
(* The SQL repository implements RecordStore, statement by statement,      *)
(* except where a statement is overtaken: what a call has in hand is a     *)
(* record or a patch of the kind of its key, and an expired row holds a    *)
(* record whose own time is over.                                          *)
(***************************************************************************)
EXTENDS PostgresRepository, PostgresStore, TLAPS

\* A reservation that waits to commit holds the row or its insertion.
CommitHolds == \A r \in Request : txn[r] = "commit" => lock = r

\* What it is going to write is within the limit.
WritesAllowed == \A r \in Request : txn[r] \in {"upsert", "commit"} => Allowed(r, base[r])

\* A row that was there when it was selected is held and has not changed.
SelectedHeld ==
  \A r \in Request :
    txn[r] \in {"upsert", "commit", "rollback"} /\ base[r] # Closed =>
      lock = r /\ window = base[r]

PostgresInv == PostgresTypeOK /\ CommitHolds /\ WritesAllowed /\ SelectedHeld

LEMMA PostgresInitInv == PostgresInit => PostgresInv
<1>. SUFFICES ASSUME PostgresInit PROVE PostgresInv
  OBVIOUS
<1>1. (CHOOSE t \in Time : TRUE) \in Time /\ (CHOOSE p \in Plan : TRUE) \in Plan
  BY PostgresAssumption
<1>2. PostgresTypeOK
  BY <1>1 DEF PostgresInit, LedgerInit, PostgresTypeOK, LedgerTypeOK
<1>3. CommitHolds /\ WritesAllowed /\ SelectedHeld
  BY DEF PostgresInit, CommitHolds, WritesAllowed, SelectedHeld
<1>. QED
  BY <1>2, <1>3 DEF PostgresInv

\* A window that a reservation may select, and what it makes of it.
LEMMA AppliedTyped ==
  ASSUME PostgresTypeOK, NEW r \in Request, NEW w \in [start : Nat, used : Nat] \cup {Closed}
  PROVE  /\ Applied(r, w) \in [start : Nat, used : Nat]
         /\ Applied(r, w).start \in Nat
<1>1. at[r] \in Nat
  BY LedgerAssumption DEF PostgresTypeOK
<1>2. CASE w = Closed
  BY <1>1, <1>2 DEF Applied
<1>3. CASE w \in [start : Nat, used : Nat]
  BY <1>1, <1>3 DEF Applied
<1>. QED
  BY <1>2, <1>3

\* Initialising the schema touches no reservation.
LEMMA SchemaInv ==
  ASSUME PostgresInv, Initialize \/ EnsureSchema PROVE PostgresInv'
BY DEF PostgresInv, Initialize, EnsureSchema, PostgresTypeOK, LedgerTypeOK, ledgerVars,
       CommitHolds, WritesAllowed, SelectedHeld, Allowed, Applied

\* A reservation that begins has selected nothing.
LEMMA BeginInv ==
  ASSUME PostgresInv, NEW r \in Request, Begin(r) PROVE PostgresInv'
<1>1. PostgresTypeOK'
  BY DEF PostgresInv, Begin, Step, PostgresTypeOK, LedgerTypeOK, ledgerVars
<1>2. ASSUME NEW s \in Request, s # r
      PROVE  /\ txn'[s] = txn[s] /\ at'[s] = at[s] /\ tier'[s] = tier[s]
  BY <1>2 DEF Begin, Step, PostgresInv, PostgresTypeOK
<1>3. txn'[r] \in {"select", "failed"}
  BY DEF Begin, Step, PostgresInv, PostgresTypeOK
<1>4. UNCHANGED <<window, base, lock>>
  BY DEF Begin, ledgerVars
<1>5. CommitHolds' /\ SelectedHeld'
  BY <1>2, <1>3, <1>4 DEF PostgresInv, CommitHolds, SelectedHeld
<1>6. WritesAllowed'
  BY <1>2, <1>3, <1>4 DEF PostgresInv, WritesAllowed, Allowed, Applied
<1>. QED
  BY <1>1, <1>5, <1>6 DEF PostgresInv

\* When there is a row, nobody holds it, so nobody else has selected it.
LEMMA SelectInv ==
  ASSUME PostgresInv, NEW r \in Request, SelectForUpdate(r) PROVE PostgresInv'
<1>1. PostgresTypeOK'
  BY DEF PostgresInv, SelectForUpdate, Step, PostgresTypeOK, LedgerTypeOK, ledgerVars
<1>2. ASSUME NEW s \in Request, s # r
      PROVE  txn'[s] = txn[s] /\ base'[s] = base[s]
  BY <1>2 DEF SelectForUpdate, Step, PostgresInv, PostgresTypeOK
<1>3. /\ txn'[r] = IF Allowed(r, window) THEN "upsert" ELSE "rollback"
      /\ base'[r] = window
      /\ window' = window /\ at' = at /\ tier' = tier
      /\ lock' = IF window # Closed THEN r ELSE lock
      /\ window # Closed => lock = Unlocked
  BY DEF SelectForUpdate, Step, PostgresInv, PostgresTypeOK, ledgerVars
<1>4. CommitHolds'
  BY <1>2, <1>3, PostgresAssumption DEF PostgresInv, CommitHolds
<1>5. WritesAllowed'
  BY <1>2, <1>3 DEF PostgresInv, WritesAllowed, Allowed, Applied
<1>6. SelectedHeld'
  <2>1. ASSUME NEW s \in Request, s # r,
               txn'[s] \in {"upsert", "commit", "rollback"}, base'[s] # Closed
        PROVE  lock' = s /\ window' = base'[s]
    BY <1>2, <1>3, <2>1, PostgresAssumption DEF PostgresInv, SelectedHeld
  <2>2. ASSUME base'[r] # Closed PROVE lock' = r /\ window' = base'[r]
    BY <1>3, <2>2
  <2>. QED
    BY <2>1, <2>2, <1>3 DEF SelectedHeld
<1>. QED
  BY <1>1, <1>4, <1>5, <1>6 DEF PostgresInv

LEMMA UpsertInv ==
  ASSUME PostgresInv, NEW r \in Request, Upsert(r) PROVE PostgresInv'
<1>1. PostgresTypeOK'
  BY DEF PostgresInv, Upsert, Step, PostgresTypeOK, LedgerTypeOK, ledgerVars
<1>2. ASSUME NEW s \in Request, s # r PROVE txn'[s] = txn[s]
  BY <1>2 DEF Upsert, Step, PostgresInv, PostgresTypeOK
<1>3. /\ txn[r] = "upsert" /\ txn'[r] = "commit"
      /\ lock \in {Unlocked, r} /\ lock' = r
      /\ UNCHANGED <<window, base, at, tier>>
  BY DEF Upsert, Step, PostgresInv, PostgresTypeOK, ledgerVars
<1>4. CommitHolds' /\ WritesAllowed' /\ SelectedHeld'
  BY <1>2, <1>3, PostgresAssumption
     DEF PostgresInv, CommitHolds, WritesAllowed, SelectedHeld, Allowed, Applied
<1>. QED
  BY <1>1, <1>4 DEF PostgresInv

\* Whoever commits holds the row, so no other reservation has selected one.
LEMMA CommitInv ==
  ASSUME PostgresInv, NEW r \in Request, Commit(r) PROVE PostgresInv'
<1>1. /\ txn[r] = "commit" /\ lock = r
      /\ lock' = Unlocked
      /\ txn' \in {[txn EXCEPT ![r] = "done"], [txn EXCEPT ![r] = "failed"]}
      /\ window' = Applied(r, base[r])
      /\ granted' = [granted EXCEPT ![r] = Applied(r, base[r]).start]
      /\ UNCHANGED <<schema, at, tier, base>>
      /\ raced' \in BOOLEAN
      /\ errors' \in Nat
  BY DEF Commit, Step, Released, PostgresInv, CommitHolds, PostgresTypeOK
<1>2. /\ Applied(r, base[r]) \in [start : Nat, used : Nat]
      /\ Applied(r, base[r]).start \in Nat
  BY AppliedTyped DEF PostgresInv, PostgresTypeOK
<1>3. PostgresTypeOK'
  BY <1>1, <1>2 DEF PostgresInv, PostgresTypeOK, LedgerTypeOK
<1>4. /\ txn'[r] \in {"done", "failed"}
      /\ \A s \in Request : s # r => txn'[s] = txn[s]
  BY <1>1 DEF PostgresInv, PostgresTypeOK
<1>5. CommitHolds' /\ WritesAllowed' /\ SelectedHeld'
  BY <1>1, <1>4 DEF PostgresInv, CommitHolds, WritesAllowed, SelectedHeld, Allowed, Applied
<1>. QED
  BY <1>3, <1>5 DEF PostgresInv

\* A reservation that gives up releases what only it can hold.
LEMMA EndInv ==
  ASSUME PostgresInv, NEW r \in Request, Rollback(r) \/ TransactionFails(r)
  PROVE  PostgresInv'
<1>1. PostgresTypeOK'
  BY DEF PostgresInv, Rollback, TransactionFails, Step, Released, PostgresTypeOK,
         LedgerTypeOK, ledgerVars
<1>2. /\ txn'[r] \in {"refused", "failed"}
      /\ \A s \in Request : s # r => txn'[s] = txn[s]
      /\ \A s \in Request : s # r /\ lock = s => lock' = s
      /\ UNCHANGED <<window, base, at, tier>>
  BY DEF Rollback, TransactionFails, Step, Released, PostgresInv, PostgresTypeOK, ledgerVars
<1>3. CommitHolds' /\ WritesAllowed' /\ SelectedHeld'
  BY <1>2 DEF PostgresInv, CommitHolds, WritesAllowed, SelectedHeld, Allowed, Applied
<1>. QED
  BY <1>1, <1>3 DEF PostgresInv

LEMMA PostgresStepInv == PostgresInv /\ [PostgresNext]_postgresVars => PostgresInv'
<1>. SUFFICES ASSUME PostgresInv, [PostgresNext]_postgresVars PROVE PostgresInv'
  OBVIOUS
<1>1. CASE Initialize \/ EnsureSchema
  BY <1>1, SchemaInv
<1>2. ASSUME NEW r \in Request, Begin(r) PROVE PostgresInv'
  BY <1>2, BeginInv
<1>3. ASSUME NEW r \in Request, SelectForUpdate(r) PROVE PostgresInv'
  BY <1>3, SelectInv
<1>4. ASSUME NEW r \in Request, Upsert(r) PROVE PostgresInv'
  BY <1>4, UpsertInv
<1>5. ASSUME NEW r \in Request, Commit(r) PROVE PostgresInv'
  BY <1>5, CommitInv
<1>6. ASSUME NEW r \in Request, Rollback(r) \/ TransactionFails(r) PROVE PostgresInv'
  BY <1>6, EndInv
<1>7. CASE UNCHANGED postgresVars
  BY <1>7 DEF postgresVars, ledgerVars, PostgresInv, PostgresTypeOK, LedgerTypeOK,
     CommitHolds, WritesAllowed, SelectedHeld, Allowed, Applied
<1>. QED
  BY <1>1, <1>2, <1>3, <1>4, <1>5, <1>6, <1>7 DEF PostgresNext

LEMMA PostgresAlwaysInv == PostgresSpec => []PostgresInv
BY PostgresInitInv, PostgresStepInv, PTL DEF PostgresSpec

\* Every variable of the repository's reservations stays in its type.
THEOREM PostgresTyped == PostgresSpec => []PostgresTypeOK
<1>1. PostgresInv => PostgresTypeOK
  BY DEF PostgresInv
<1>. QED
  BY <1>1, PostgresAlwaysInv, PTL

\* A commit charges the window it selected, or opens one, unless it found no
\* row and another reservation has committed one since.
LEMMA CommitCharges ==
  ASSUME PostgresInv, NEW r \in Request, Commit(r)
  PROVE  raced' \/ LedgerNext
<1>1. /\ at[r] \in Time /\ at[r] \in Nat /\ tier[r] \in Plan
      /\ Limit[tier[r]] \in Nat /\ Hours[tier[r]] \in Nat
  BY LedgerAssumption DEF PostgresInv, PostgresTypeOK
<1>2. Applied(r, base[r]).used <= Limit[tier[r]]
  BY DEF Commit, PostgresInv, WritesAllowed, Allowed
<1>3. CASE base[r] = Closed /\ window # Closed
  BY <1>3 DEF Commit
<1>4. CASE base[r] = Closed /\ window = Closed
  <2>1. Applied(r, base[r]) = [start |-> at[r], used |-> 1]
    BY <1>4 DEF Applied
  <2>2. Open(r, tier[r], at[r])
    BY <1>1, <1>2, <1>4, <2>1 DEF Commit, Open
  <2>. QED
    BY <1>1, <2>2 DEF LedgerNext
<1>5. CASE base[r] # Closed
  <2>1. window = base[r] /\ window \in [start : Nat, used : Nat]
    BY <1>5 DEF Commit, PostgresInv, SelectedHeld, PostgresTypeOK, LedgerTypeOK
  <2>2. CASE at[r] - window.start <= Hours[tier[r]]
    <3>1. Applied(r, base[r]) = [window EXCEPT !.used = @ + 1]
      BY <1>5, <2>1, <2>2 DEF Applied
    <3>2. Applied(r, base[r]).used = window.used + 1
          /\ Applied(r, base[r]).start = window.start
      BY <2>1, <3>1
    <3>3. Charge(r, tier[r], at[r])
      BY <1>1, <1>2, <1>5, <2>1, <2>2, <3>1, <3>2 DEF Commit, Charge
    <3>. QED
      BY <1>1, <3>3 DEF LedgerNext
  <2>3. CASE ~(at[r] - window.start <= Hours[tier[r]])
    <3>1. Applied(r, base[r]) = [start |-> at[r], used |-> 1]
      BY <1>5, <2>1, <2>3 DEF Applied
    <3>2. Open(r, tier[r], at[r])
      BY <1>1, <1>2, <2>1, <2>3, <3>1 DEF Commit, Open
    <3>. QED
      BY <1>1, <3>2 DEF LedgerNext
  <2>. QED
    BY <2>2, <2>3
<1>. QED
  BY <1>3, <1>4, <1>5

\* Reservations in Postgres charge the ledger as QuotaLedger allows, whatever
\* clocks, plans, failures and lock waits do, until a first reservation is
\* overtaken (reserveQuotaAndCreateJob's SELECT ... FOR UPDATE).
THEOREM PostgresImplementsLedger == PostgresSpec => ImplementsQuotaLedger
<1>1. PostgresInit => LedgerInit
  BY DEF PostgresInit
<1>2. ASSUME PostgresInv, [PostgresNext]_postgresVars
      PROVE  [UNCHANGED ledgerVars \/ raced' \/ LedgerNext]_ledgerVars
  <2>1. ASSUME NEW r \in Request, Commit(r) PROVE raced' \/ LedgerNext
    BY <1>2, <2>1, CommitCharges
  <2>2. CASE UNCHANGED postgresVars
    BY <2>2 DEF postgresVars
  <2>3. ASSUME NEW r \in Request,
               \/ Begin(r) \/ SelectForUpdate(r) \/ Upsert(r)
               \/ Rollback(r) \/ TransactionFails(r)
        PROVE  UNCHANGED ledgerVars
    BY <2>3 DEF Begin, SelectForUpdate, Upsert, Rollback, TransactionFails
  <2>4. CASE Initialize \/ EnsureSchema
    BY <2>4 DEF Initialize, EnsureSchema
  <2>. QED
    BY <1>2, <2>1, <2>2, <2>3, <2>4 DEF PostgresNext
<1>. QED
  BY <1>1, <1>2, PostgresAlwaysInv, PTL DEF PostgresSpec, ImplementsQuotaLedger

(***************************************************************************)
(* The records.  A statement finds the row as its call has read it, or the *)
(* history says that it was overtaken; an expired row holds a record whose *)
(* own time is over, but for the part of a second that an update drops.    *)
(***************************************************************************)

Status == {"queued", "free", "pro", "live", "created", "102", "202", "running", "failed",
           "success", "index", "completed", "revoked", "paid"}

Value == [status : Status \cup {"nothing"}, note : Repository!Note, expires : Nat,
          holds : SUBSET Twin]

TableRow == [value : Value, until : Nat]

Errand == {"none", "upsert", "insert", "select", "worker select", "merge", "delete", "list",
         "lock", "finalize"}

Pending == [next : Errand, key : RecordKey \cup {Quiet.key}, value : Value, ttl : Nat,
            base : TableRow, since : Nat]

\* What may be in the row of a key: a row expires if its kind does, and no sooner
\* than its record may be dropped.
Sound(k, row) ==
  /\ row.value = Nothing => row.until = 0
  /\ KindOf[k] \in Repository!Timed /\ row.value # Nothing =>
       row.until # 0 /\ row.value.expires < row.until + Repository!Slack(row.value)
  /\ KindOf[k] \notin Repository!Timed => row.until = 0

\* A record that an upsert of its kind writes.
Written(call) ==
  LET kind == KindOf[call.key]
  IN  \/ call.ttl = 0 /\ \/ kind = "job" /\ call.value = A("queued", 0)
                         \/ kind = "profile" /\ \E p \in Repository!Plans : call.value = A(p, 0)
      \/ /\ kind \in Repository!Timed /\ call.ttl = TtlOf[kind]
         /\ \E e \in 0..Horizon :
              /\ e = call.since + TtlOf[kind]
              /\ \/ kind = "session" /\ call.value = A("live", e)
                 \/ kind = "checkout" /\ call.value = A("created", e)
                 \/ /\ kind = "idempotency"
                    /\ \E s \in {"102", "202"} : call.value = A(s, e)

\* A record that an insert of its kind writes.
Inserted(call) ==
  LET kind == KindOf[call.key]
  IN  \/ kind = "event" /\ \E s \in Repository!Statuses : call.value = A(s, 0)
      \/ kind = "audit" /\ call.value = A("success", 0)

\* What an update of its kind changes.
Patch(call) ==
  LET kind == KindOf[call.key]
  IN  \/ kind = "job" /\ call.value.status \in Repository!Statuses
      \/ kind = "session" /\ call.value.status = "revoked" /\ call.value.note = "none"
      \/ kind = "checkout" /\ call.value.status = "paid" /\ call.value.note = "none"

InHand(call, now) ==
  /\ call.since <= now
  /\ call.next # "none" => call.key \in RecordKey
  /\ call.next = "upsert" => Written(call)
  /\ call.next = "insert" => Inserted(call)
  /\ call.next \in {"select", "worker select", "merge"} /\ call.value # Nothing => Patch(call)
  /\ call.next = "merge" => call.value # Nothing /\ call.base.value # Nothing
  /\ call.next \in {"lock", "finalize"} => KindOf[call.key] = "dedup"

\* What makes ImplementsRepository hold of every step.
StoreInv ==
  /\ clock \in Nat /\ \A kind \in Repository!Timed : clock + TtlOf[kind] <= Horizon
  /\ records \in [RecordKey -> Value] /\ until \in [RecordKey -> Nat]
  /\ \A k \in RecordKey : Sound(k, Row(k))
  /\ calls \in [Caller -> Pending]
  /\ \A c \in Caller : InHand(calls[c], clock)
  /\ locked \in Caller \cup {Free} /\ asked \in Nat /\ overtaken \in BOOLEAN

LEMMA NothingIs ==
  /\ Nothing = [status |-> "nothing", note |-> "none", expires |-> 0, holds |-> {}]
  /\ Nothing \in Value
  /\ NoRow \in TableRow /\ NoRow.value = Nothing /\ NoRow.until = 0
  BY DEF Nothing, Repository!Nothing, NoRow, Value, TableRow, Repository!Note

LEMMA RecordsAre ==
  ASSUME NEW status \in Status, NEW expires \in Nat
  PROVE  /\ A(status, expires) \in Value /\ A(status, expires) # Nothing
         /\ A(status, expires).status = status /\ A(status, expires).note = "none"
         /\ A(status, expires).expires = expires
<1>1. PICK n \in Value : n = Nothing
  BY NothingIs
<1>2. PICK v : v = [n EXCEPT !.status = status, !.expires = expires]
  OBVIOUS
<1>3. A(status, expires) = v
  BY <1>1, <1>2 DEF A, Repository!A, Nothing
<1>4. v \in Value
  BY <1>2 DEF Value
<1>5. v.status = status
  BY <1>2 DEF Value
<1>6. v.expires = expires
  BY <1>2 DEF Value
<1>7. v.note = "none"
  <2>1. n.note = "none"
    BY <1>1, NothingIs
  <2>. QED
    BY <1>2, <2>1 DEF Value
<1>8. v # Nothing
  BY <1>5, NothingIs DEF Status
<1>. QED
  BY <1>3, <1>4, <1>5, <1>6, <1>7, <1>8

LEMMA QuietIs ==
  /\ Quiet \in Pending /\ Quiet.next = "none" /\ \A now \in Nat : InHand(Quiet, now)
  BY NothingIs DEF Quiet, Pending, Errand, InHand

LEMMA NowIs ==
  ASSUME StoreInv
  PROVE  clock \in Nat /\ clock <= clock
<1>1. clock \in Nat
  BY DEF StoreInv
<1>. QED
  BY <1>1

\* How early a record may be dropped.
LEMMA SlackIs ==
  ASSUME NEW v \in Value
  PROVE  /\ Repository!Slack(v) \in Nat /\ Repository!Slack(v) >= 1
         /\ v.status \in {"revoked", "paid"} => Repository!Slack(v) = Second
  BY StoreAssumption DEF Repository!Slack

\* Less than a second is dropped.
LEMMA SecondsAre ==
  ASSUME NEW ms \in Int
  PROVE  /\ WholeSeconds(ms) \in Int
         /\ WholeSeconds(ms) <= ms /\ ms < WholeSeconds(ms) + Second
<1>1. Second \in Nat /\ Second > 0
  BY StoreAssumption
<1>2. ms % Second \in 0..(Second - 1)
  BY <1>1
<1>. QED
  BY <1>1, <1>2 DEF WholeSeconds

\* A row is there when its record is.
LEMMA RowThere ==
  ASSUME StoreInv, NEW k \in RecordKey
  PROVE  /\ Row(k) \in TableRow /\ Row(k).value = records[k] /\ Row(k).until = until[k]
         /\ (Row(k) = NoRow) <=> (records[k] = Nothing)
         /\ Sound(k, Row(k))
<1>1. records[k] \in Value /\ until[k] \in Nat /\ Sound(k, Row(k))
  BY DEF StoreInv
<1>2. Row(k) = [value |-> records[k], until |-> until[k]]
  BY DEF Row
<1>3. records[k] = Nothing => until[k] = 0
  BY <1>1, <1>2 DEF Sound
<1>. QED
  BY <1>1, <1>2, <1>3 DEF NoRow, TableRow

\* An expired row holds a record that may be dropped.
LEMMA ExpiredIsLapsed ==
  ASSUME StoreInv, NEW k \in RecordKey, Row(k) # NoRow, Expired(Row(k))
  PROVE  Repository!Lapsed(k)
<1>1. /\ records[k] \in Value /\ until[k] \in Nat /\ clock \in Nat
      /\ Row(k).until # 0 /\ Row(k).until <= clock /\ Row(k).value = records[k]
      /\ records[k] # Nothing /\ Row(k).until = until[k] /\ Sound(k, Row(k))
  BY RowThere DEF StoreInv, Expired
<1>2. KindOf[k] \in Repository!Timed /\ records[k].expires < until[k] + Repository!Slack(records[k])
  BY <1>1 DEF Sound
<1>3. records[k].expires \in Nat /\ Repository!Slack(records[k]) \in Nat
  BY <1>1, SlackIs DEF Value
<1>4. records[k].expires < clock + Repository!Slack(records[k])
  BY <1>1, <1>2, <1>3
<1>. QED
  BY <1>2, <1>4 DEF Repository!Lapsed

LEMMA MergedIs ==
  ASSUME NEW v \in Value, NEW status \in {"running", "failed", "revoked", "paid"},
         NEW note \in Repository!Note
  PROVE  /\ Repository!Merged(v, status, note) \in Value
         /\ Repository!Merged(v, status, note) # Nothing
         /\ Repository!Merged(v, status, note).expires = v.expires
         /\ Repository!Merged(v, status, note).status = status
<1>1. PICK n : n = IF note = "none" THEN v.note ELSE note
  OBVIOUS
<1>2. Repository!Merged(v, status, note) = [v EXCEPT !.status = status, !.note = n]
  BY <1>1 DEF Repository!Merged
<1>3. n \in Repository!Note
  BY <1>1 DEF Value
<1>4. PICK w : w = [v EXCEPT !.status = status, !.note = n]
  OBVIOUS
<1>5. w \in Value
  BY <1>3, <1>4 DEF Value, Status
<1>6. w.status = status /\ w.expires = v.expires
  BY <1>4 DEF Value
<1>7. w # Nothing
  BY <1>6, NothingIs
<1>. QED
  BY <1>2, <1>4, <1>5, <1>6, <1>7

\* One row is written, and the call that wrote it is done.
LEMMA RowWritten ==
  ASSUME StoreInv, NEW c \in Caller, NEW k \in RecordKey, NEW row \in TableRow,
         Sound(k, row), PutRow(k, row), Done(c), UNCHANGED <<clock, asked, locked>>,
         overtaken' \in BOOLEAN
  PROVE  StoreInv'
<1>1. /\ records' = [records EXCEPT ![k] = row.value]
      /\ until' = [until EXCEPT ![k] = row.until]
      /\ calls' = [calls EXCEPT ![c] = Quiet]
  BY DEF PutRow, Done
<1>2. row.value \in Value /\ row.until \in Nat /\ row = [value |-> row.value, until |-> row.until]
  BY DEF TableRow
<1>3. records' \in [RecordKey -> Value] /\ until' \in [RecordKey -> Nat]
  BY <1>1, <1>2 DEF StoreInv
<1>4. calls' \in [Caller -> Pending]
  BY <1>1, QuietIs DEF StoreInv
<1>5. ASSUME NEW d \in Caller PROVE InHand(calls'[d], clock')
  <2>1. calls'[d] = Quiet \/ calls'[d] = calls[d]
    BY <1>1 DEF StoreInv
  <2>. QED
    BY <2>1, QuietIs DEF StoreInv
<1>6. ASSUME NEW l \in RecordKey PROVE Sound(l, Row(l)')
  <2>1. CASE l = k
    <3>1. Row(l)' = row
      BY <1>1, <1>2, <2>1 DEF Row, StoreInv
    <3>. QED
      BY <2>1, <3>1
  <2>2. CASE l # k
    <3>1. Row(l)' = Row(l)
      BY <1>1, <2>2 DEF Row, StoreInv
    <3>. QED
      BY <3>1 DEF StoreInv
  <2>. QED
    BY <2>1, <2>2
<1>. QED
  BY <1>3, <1>4, <1>5, <1>6 DEF StoreInv

\* Only the call of c goes on.
LEMMA CallGoesOn ==
  ASSUME StoreInv, NEW c \in Caller, NEW call \in Pending, InHand(call, clock),
         calls' = [calls EXCEPT ![c] = call], UNCHANGED <<clock, records, until>>,
         locked' \in Caller \cup {Free}, asked' \in Nat, overtaken' \in BOOLEAN
  PROVE  StoreInv'
<1>1. calls' \in [Caller -> Pending]
  BY DEF StoreInv
<1>2. ASSUME NEW d \in Caller PROVE InHand(calls'[d], clock')
  <2>1. calls'[d] = call \/ calls'[d] = calls[d]
    BY DEF StoreInv
  <2>. QED
    BY <2>1 DEF StoreInv
<1>3. ASSUME NEW k \in RecordKey PROVE Sound(k, Row(k)')
  <2>1. Row(k)' = Row(k)
    BY DEF Row
  <2>. QED
    BY <2>1 DEF StoreInv
<1>. QED
  BY <1>1, <1>2, <1>3 DEF StoreInv

LEMMA CallEnds ==
  ASSUME StoreInv, NEW c \in Caller, Done(c), UNCHANGED <<clock, records, until>>,
         locked' \in Caller \cup {Free}, asked' \in Nat, overtaken' \in BOOLEAN
  PROVE  StoreInv'
<1>1. clock \in Nat
  BY DEF StoreInv
<1>. QED
  BY <1>1, QuietIs, CallGoesOn DEF Done

\* What a call is given when it begins.
LEMMA AskStep ==
  ASSUME StoreInv, NEW c \in Caller, NEW kind, NEW next \in Errand, NEW value \in Value,
         NEW ttl \in Nat, Ask(c, kind, next, value, ttl),
         \A k \in RecordKey : KindOf[k] = kind =>
           InHand([next |-> next, key |-> k, value |-> value, ttl |-> ttl, base |-> NoRow,
                       since |-> clock], clock)
  PROVE  StoreInv' /\ UNCHANGED <<clock, records, answers>>
<1>1. PICK k \in RecordKey :
        /\ KindOf[k] = kind
        /\ calls' = [calls EXCEPT ![c] = [next |-> next, key |-> k, value |-> value,
                                          ttl |-> ttl, base |-> NoRow, since |-> clock]]
  BY DEF Ask
<1>2. PICK call : call = [next |-> next, key |-> k, value |-> value, ttl |-> ttl, base |-> NoRow,
                          since |-> clock]
  OBVIOUS
<1>3. call \in Pending /\ InHand(call, clock) /\ calls' = [calls EXCEPT ![c] = call]
  BY <1>1, <1>2, NothingIs DEF Pending, StoreInv
<1>4. UNCHANGED <<clock, records, until, answers, locked, overtaken>> /\ asked' = asked + 1
  BY DEF Ask
<1>5. asked' \in Nat /\ locked' \in Caller \cup {Free} /\ overtaken' \in BOOLEAN
  BY <1>4 DEF StoreInv
<1>. QED
  BY <1>3, <1>4, <1>5, CallGoesOn

\* A record with a time to live ends that long after its caller looked at the clock.
LEMMA TimedStep ==
  ASSUME StoreInv, NEW c \in Caller, NEW kind, NEW status, AskTimed(c, kind, status),
         \/ kind = "session" /\ status = "live"
         \/ kind = "checkout" /\ status = "created"
         \/ kind = "idempotency" /\ status \in {"102", "202"}
  PROVE  StoreInv' /\ UNCHANGED <<clock, records, answers>>
<1>1. kind \in Repository!Timed /\ status \in Status
  BY DEF Repository!Timed, Status
<1>2. PICK ttl \in 1..Horizon : ttl = TtlOf[kind]
  BY <1>1, StoreAssumption
<1>3. PICK e : e = clock + ttl
  OBVIOUS
<1>4. clock \in Nat /\ ttl \in Nat /\ e \in Nat /\ e \in 0..Horizon /\ clock <= clock
  BY <1>1, <1>2, <1>3, StoreAssumption DEF StoreInv
<1>5. PICK v : v = A(status, e)
  OBVIOUS
<1>6. v \in Value
  BY <1>1, <1>4, <1>5, RecordsAre
<1>7. ASSUME NEW k \in RecordKey, KindOf[k] = kind
      PROVE  InHand([next |-> "upsert", key |-> k, value |-> v, ttl |-> ttl, base |-> NoRow,
                     since |-> clock], clock)
  <2>1. PICK call : call = [next |-> "upsert", key |-> k, value |-> v, ttl |-> ttl,
                            base |-> NoRow, since |-> clock]
    OBVIOUS
  <2>2. Written(call)
    BY <1>1, <1>2, <1>3, <1>4, <1>5, <1>7, <2>1 DEF Written
  <2>. QED
    BY <1>4, <1>7, <2>1, <2>2 DEF InHand
<1>8. Ask(c, kind, "upsert", v, ttl)
  BY <1>2, <1>3, <1>5 DEF AskTimed
<1>. QED
  BY <1>4, <1>6, <1>7, <1>8, AskStep DEF Errand

\* Every call that begins knows what it is to write.
LEMMA AsksStep ==
  ASSUME StoreInv, NEW c \in Caller, Asks(c)
  PROVE  StoreInv' /\ UNCHANGED <<clock, records, answers>>
<1>1. clock \in Nat /\ 0 \in Nat
  BY DEF StoreInv
<1>2. clock <= clock
  BY <1>1
<1>3. CASE AskCreateJob(c)
  <2>1. Ask(c, "job", "upsert", A("queued", 0), 0)
    BY <1>3, <1>2 DEF AskCreateJob
  <2>2. PICK v : v = A("queued", 0)
    OBVIOUS
  <2>3. v \in Value
    BY <1>2, <2>2, RecordsAre DEF Status
  <2>4. ASSUME NEW k \in RecordKey, KindOf[k] = "job"
        PROVE  InHand([next |-> "upsert", key |-> k, value |-> v, ttl |-> 0, base |-> NoRow,
                       since |-> clock], clock)
    BY <1>2, <2>2, <2>3, <2>4 DEF InHand, Written
  <2>. QED
    BY <1>1, <2>1, <2>2, <2>3, <2>4, AskStep DEF Errand
<1>4. CASE AskProfile(c)
  <2>1. PICK p \in Repository!Plans :
          Ask(c, "profile", "upsert", A(p, 0), 0)
    BY <1>4, <1>2 DEF AskProfile
  <2>2. PICK v : v = A(p, 0)
    OBVIOUS
  <2>3. v \in Value
    BY <1>2, <2>2, RecordsAre DEF Status, Repository!Plans
  <2>4. ASSUME NEW k \in RecordKey, KindOf[k] = "profile"
        PROVE  InHand([next |-> "upsert", key |-> k, value |-> v, ttl |-> 0, base |-> NoRow,
                       since |-> clock], clock)
    BY <1>2, <2>2, <2>3, <2>4 DEF InHand, Written
  <2>. QED
    BY <1>1, <2>1, <2>2, <2>3, <2>4, AskStep DEF Errand
<1>5. CASE AskSession(c)
  BY <1>5, TimedStep DEF AskSession
<1>6. CASE AskCheckout(c)
  BY <1>6, TimedStep DEF AskCheckout
<1>7. CASE AskCleanup(c)
  BY <1>7, TimedStep DEF AskCleanup
<1>8. CASE AskEvent(c)
  <2>1. PICK s \in Repository!Statuses :
          Ask(c, "event", "insert", A(s, 0), 0)
    BY <1>8, <1>2 DEF AskEvent
  <2>2. PICK v : v = A(s, 0)
    OBVIOUS
  <2>3. v \in Value
    BY <1>2, <2>2, RecordsAre DEF Status, Repository!Statuses
  <2>4. ASSUME NEW k \in RecordKey, KindOf[k] = "event"
        PROVE  InHand([next |-> "insert", key |-> k, value |-> v, ttl |-> 0, base |-> NoRow,
                       since |-> clock], clock)
    BY <1>2, <2>2, <2>3, <2>4 DEF InHand, Inserted
  <2>. QED
    BY <1>1, <2>1, <2>2, <2>3, <2>4, AskStep DEF Errand
<1>9. CASE AskAudit(c)
  <2>1. Ask(c, "audit", "insert", A("success", 0), 0)
    BY <1>9, <1>2 DEF AskAudit
  <2>2. PICK v : v = A("success", 0)
    OBVIOUS
  <2>3. v \in Value
    BY <1>2, <2>2, RecordsAre DEF Status
  <2>4. ASSUME NEW k \in RecordKey, KindOf[k] = "audit"
        PROVE  InHand([next |-> "insert", key |-> k, value |-> v, ttl |-> 0, base |-> NoRow,
                       since |-> clock], clock)
    BY <1>2, <2>2, <2>3, <2>4 DEF InHand, Inserted
  <2>. QED
    BY <1>1, <2>1, <2>2, <2>3, <2>4, AskStep DEF Errand
<1>10. CASE AskGet(c)
  <2>1. PICK kind \in Repository!Kind : Ask(c, kind, "select", Nothing, 0)
    BY <1>10 DEF AskGet
  <2>2. PICK v : v = Nothing
    OBVIOUS
  <2>3. v \in Value
    BY <2>2, NothingIs
  <2>4. ASSUME NEW k \in RecordKey
        PROVE  InHand([next |-> "select", key |-> k, value |-> v, ttl |-> 0, base |-> NoRow,
                       since |-> clock], clock)
    BY <1>2, <2>2 DEF InHand
  <2>. QED
    BY <1>1, <2>1, <2>2, <2>3, <2>4, AskStep DEF Errand
<1>11. CASE AskList(c)
  <2>1. Ask(c, "checkout", "list", Nothing, 0)
    BY <1>11, <1>2 DEF AskList
  <2>2. PICK v : v = Nothing
    OBVIOUS
  <2>3. v \in Value
    BY <2>2, NothingIs
  <2>4. ASSUME NEW k \in RecordKey, KindOf[k] = "checkout"
        PROVE  InHand([next |-> "list", key |-> k, value |-> v, ttl |-> 0, base |-> NoRow,
                       since |-> clock], clock)
    BY <1>2, <2>2, <2>3, <2>4 DEF InHand
  <2>. QED
    BY <1>1, <2>1, <2>2, <2>3, <2>4, AskStep DEF Errand
<1>12. CASE AskFinalize(c)
  <2>1. Ask(c, "dedup", "lock", A("index", 0), 0)
    BY <1>12, <1>2 DEF AskFinalize
  <2>2. PICK v : v = A("index", 0)
    OBVIOUS
  <2>3. v \in Value
    BY <1>2, <2>2, RecordsAre DEF Status
  <2>4. ASSUME NEW k \in RecordKey, KindOf[k] = "dedup"
        PROVE  InHand([next |-> "lock", key |-> k, value |-> v, ttl |-> 0, base |-> NoRow,
                       since |-> clock], clock)
    BY <1>2, <2>2, <2>3, <2>4 DEF InHand
  <2>. QED
    BY <1>1, <2>1, <2>2, <2>3, <2>4, AskStep DEF Errand
<1>13. CASE AskRevoke(c)
  <2>1. Ask(c, "session", "select", A("revoked", 0), 0)
    BY <1>13, <1>2 DEF AskRevoke
  <2>2. PICK v : v = A("revoked", 0)
    OBVIOUS
  <2>3. v \in Value
    BY <2>2, RecordsAre DEF Status
  <2>4. v.status = "revoked" /\ v.note = "none"
    BY <2>2, RecordsAre DEF Status
  <2>5. ASSUME NEW k \in RecordKey, KindOf[k] = "session"
        PROVE  InHand([next |-> "select", key |-> k, value |-> v, ttl |-> 0, base |-> NoRow,
                       since |-> clock], clock)
    BY <1>2, <2>4, <2>5 DEF InHand, Patch
  <2>. QED
    BY <1>1, <2>1, <2>2, <2>3, <2>5, AskStep DEF Errand
<1>14. CASE AskPaid(c)
  <2>1. Ask(c, "checkout", "select", A("paid", 0), 0)
    BY <1>14, <1>2 DEF AskPaid
  <2>2. PICK v : v = A("paid", 0)
    OBVIOUS
  <2>3. v \in Value
    BY <2>2, RecordsAre DEF Status
  <2>4. v.status = "paid" /\ v.note = "none"
    BY <2>2, RecordsAre DEF Status
  <2>5. ASSUME NEW k \in RecordKey, KindOf[k] = "checkout"
        PROVE  InHand([next |-> "select", key |-> k, value |-> v, ttl |-> 0, base |-> NoRow,
                       since |-> clock], clock)
    BY <1>2, <2>4, <2>5 DEF InHand, Patch
  <2>. QED
    BY <1>1, <2>1, <2>2, <2>3, <2>5, AskStep DEF Errand
<1>15. ASSUME NEW next \in {"select", "worker select"}, AskStatus(c, next)
       PROVE  StoreInv' /\ UNCHANGED <<clock, records, answers>>
  <2>1. PICK s \in Repository!Statuses, n \in Repository!Note :
          Ask(c, "job", next, [A(s, 0) EXCEPT !.note = n], 0)
    BY <1>15 DEF AskStatus
  <2>2. PICK w : w = A(s, 0)
    OBVIOUS
  <2>3. s \in Status /\ 0 \in Nat
    BY DEF Repository!Statuses, Status
  <2>4. w \in Value
    BY <2>2, <2>3, RecordsAre
  <2>5. w.status = s
    BY <2>2, <2>3, RecordsAre
  <2>6. next \in Errand
    BY <1>15 DEF Errand
  <2>7. PICK v : v = [w EXCEPT !.note = n]
    OBVIOUS
  <2>8. v \in Value
    BY <2>4, <2>7 DEF Value
  <2>9. v.status = s
    BY <2>3, <2>4, <2>5, <2>7 DEF Value
  <2>10. Ask(c, "job", next, v, 0)
    BY <2>1, <2>2, <2>7
  <2>11. ASSUME NEW k \in RecordKey, KindOf[k] = "job"
        PROVE  InHand([next |-> next, key |-> k, value |-> v, ttl |-> 0, base |-> NoRow,
                       since |-> clock], clock)
    BY <1>2, <1>15, <2>3, <2>9, <2>11 DEF InHand, Patch, Repository!Statuses
  <2>. QED
    BY <1>1, <2>6, <2>8, <2>10, <2>11, AskStep
<1>. QED
  BY <1>3, <1>4, <1>5, <1>6, <1>7, <1>8, <1>9, <1>10, <1>11, <1>12, <1>13, <1>14, <1>15 DEF Asks

LEMMA CallIs ==
  ASSUME StoreInv, NEW c \in Caller
  PROVE  calls[c] \in Pending /\ InHand(calls[c], clock)
  BY DEF StoreInv

LEMMA UpsertStep ==
  ASSUME StoreInv, NEW c \in Caller, SetStoredValue(c)
  PROVE  StoreInv' /\ Repository!StoreNext
<1>1. PICK call \in Pending : call = calls[c] /\ InHand(call, clock)
  BY CallIs
<1>2. PICK now \in call.since..clock :
        PutRow(call.key, [value |-> call.value, until |-> ExpiresAt(now, call.ttl)])
  BY <1>1 DEF SetStoredValue, Since
<1>3. PICK row : row = [value |-> call.value, until |-> IF call.ttl = 0 THEN 0 ELSE now + call.ttl]
  OBVIOUS
<1>4. /\ call.next = "upsert" /\ PutRow(call.key, row) /\ Done(c)
       /\ UNCHANGED <<clock, answers, locked, asked, overtaken>>
  BY <1>1, <1>2, <1>3 DEF SetStoredValue, Knows, ExpiresAt
<1>5. call.key \in RecordKey /\ Written(call)
  BY <1>1, <1>4 DEF InHand
<1>6. /\ call.value \in Value /\ call.ttl \in Nat /\ clock \in Nat /\ call.since \in Nat
      /\ now \in Nat /\ call.since <= now
  BY <1>1 DEF Pending, StoreInv
<1>7. row.value = call.value /\ row.until = (IF call.ttl = 0 THEN 0 ELSE now + call.ttl)
  BY <1>3
<1>8. row \in TableRow
  BY <1>3, <1>6 DEF TableRow
<1>9. Repository!Save(call.key, call.value)
  BY <1>4, <1>7 DEF PutRow, Repository!Save
<1>10. CASE /\ call.ttl = 0
           /\ \/ KindOf[call.key] = "job" /\ call.value = A("queued", 0)
              \/ /\ KindOf[call.key] = "profile"
                 /\ \E p \in Repository!Plans : call.value = A(p, 0)
  <2>1. Sound(call.key, row)
    BY <1>7, <1>10 DEF Sound, Repository!Timed
  <2>2. Repository!CreateJob(call.key) \/ Repository!UpsertSubjectProfile(call.key)
    BY <1>9, <1>10 DEF A, Repository!CreateJob, Repository!UpsertSubjectProfile, Repository!Is
  <2>. QED
    BY <1>4, <1>5, <1>8, <2>1, <2>2, RowWritten DEF Repository!StoreNext, StoreInv
<1>11. ASSUME NEW e \in 0..Horizon, e = call.since + TtlOf[KindOf[call.key]],
              KindOf[call.key] \in Repository!Timed, call.ttl = TtlOf[KindOf[call.key]],
              \/ KindOf[call.key] = "session" /\ call.value = A("live", e)
              \/ KindOf[call.key] = "checkout" /\ call.value = A("created", e)
              \/ /\ KindOf[call.key] = "idempotency"
                 /\ \E s \in {"102", "202"} : call.value = A(s, e)
       PROVE  StoreInv' /\ Repository!StoreNext
  <2>1. PICK ttl \in 1..Horizon : ttl = call.ttl /\ e = call.since + ttl
    BY <1>11, StoreAssumption
  <2>2. PICK s \in Status : call.value = A(s, e)
    BY <1>11 DEF Status
  <2>3. call.value.expires = e /\ call.value # Nothing
    BY <2>2, RecordsAre
  <2>4. row.until = now + ttl /\ row.until # 0 /\ row.until \in Nat /\ e <= row.until
    BY <1>6, <1>7, <2>1, StoreAssumption
  <2>5. Sound(call.key, row)
    <3>1. Repository!Slack(row.value) \in Nat /\ Repository!Slack(row.value) >= 1
      BY <1>6, <1>7, SlackIs
    <3>2. row.value.expires < row.until + Repository!Slack(row.value)
      BY <1>7, <2>3, <2>4, <3>1
    <3>. QED
      BY <1>7, <1>11, <2>3, <2>4, <3>2 DEF Sound
  <2>6. \/ Repository!PutAuthRefreshSession(call.key)
        \/ Repository!CreateBillingCheckoutSession(call.key)
        \/ Repository!SetCleanupIdempotency(call.key)
    BY <1>9, <1>11 DEF A, Repository!PutAuthRefreshSession, Repository!CreateBillingCheckoutSession,
       Repository!SetCleanupIdempotency, Repository!Is
  <2>. QED
    BY <1>4, <1>5, <1>8, <2>5, <2>6, RowWritten DEF Repository!StoreNext, StoreInv
<1>. QED
  BY <1>5, <1>10, <1>11 DEF Written

LEMMA InsertStep ==
  ASSUME StoreInv, NEW c \in Caller, InsertOnce(c)
  PROVE  StoreInv' /\ (Repository!StoreNext \/ UNCHANGED <<clock, records, answers>>)
<1>1. PICK call \in Pending : call = calls[c] /\ InHand(call, clock)
  BY CallIs
<1>2. PICK row : row = IF Row(call.key) = NoRow THEN [value |-> call.value, until |-> 0]
                       ELSE Row(call.key)
  OBVIOUS
<1>3. /\ call.next = "insert" /\ PutRow(call.key, row) /\ Done(c)
      /\ UNCHANGED <<clock, answers, locked, asked, overtaken>>
  BY <1>1, <1>2 DEF InsertOnce, Knows
<1>4. call.key \in RecordKey /\ Inserted(call) /\ call.value \in Value
  BY <1>1, <1>3 DEF InHand, Pending
<1>5. /\ Row(call.key) \in TableRow /\ Row(call.key).value = records[call.key]
      /\ (Row(call.key) = NoRow) <=> (records[call.key] = Nothing)
      /\ Sound(call.key, Row(call.key))
  BY <1>4, RowThere
<1>6. overtaken' \in BOOLEAN
  BY <1>3 DEF StoreInv
<1>7. CASE Row(call.key) = NoRow
  <2>1. row \in TableRow /\ row.value = call.value /\ row.until = 0
    BY <1>2, <1>4, <1>7 DEF TableRow
  <2>2. KindOf[call.key] \notin Repository!Timed
    BY <1>4 DEF Inserted, Repository!Timed
  <2>3. Sound(call.key, row)
    BY <2>1, <2>2 DEF Sound
  <2>4. Repository!Save(call.key, call.value) /\ ~Repository!Present(call.key)
    BY <1>3, <1>5, <1>7, <2>1 DEF PutRow, Repository!Save, Repository!Present, Nothing
  <2>5. Repository!AppendBillingWebhookEvent(call.key) \/ Repository!AppendDeletionAudit(call.key)
    BY <1>4, <2>4 DEF Inserted, A, Repository!AppendBillingWebhookEvent,
       Repository!AppendDeletionAudit, Repository!Is
  <2>. QED
    BY <1>3, <1>4, <1>6, <2>1, <2>3, <2>5, RowWritten DEF Repository!StoreNext
<1>8. CASE Row(call.key) # NoRow
  <2>1. row = Row(call.key)
    BY <1>2, <1>8
  <2>2. StoreInv'
    BY <1>3, <1>4, <1>5, <1>6, <2>1, RowWritten
  <2>3. records' = records
    BY <1>3, <1>4, <1>5, <2>1 DEF PutRow, StoreInv
  <2>. QED
    BY <1>3, <2>2, <2>3
<1>. QED
  BY <1>7, <1>8

\* A read answers with the record, or goes on with the row that it has found.
LEMMA FoundStep ==
  ASSUME StoreInv, NEW c \in Caller, calls[c].next \in {"select", "worker select"},
         Row(calls[c].key) # NoRow, Found(c, Row(calls[c].key)),
         UNCHANGED <<clock, records, until, locked, asked, overtaken>>
  PROVE  StoreInv' /\ (Repository!StoreNext \/ UNCHANGED <<clock, records, answers>>)
<1>1. PICK call \in Pending : call = calls[c] /\ InHand(call, clock)
  BY CallIs
<1>2. call.key \in RecordKey
  BY <1>1 DEF InHand
<1>3. PICK row \in TableRow : row = Row(call.key) /\ row.value = records[call.key]
                              /\ records[call.key] # Nothing
  BY <1>1, <1>2, RowThere
<1>4. locked' \in Caller \cup {Free} /\ asked' \in Nat /\ overtaken' \in BOOLEAN
  BY DEF StoreInv
<1>5. CASE call.value = Nothing
  <2>1. answers' = [answers EXCEPT ![c] = {records[call.key]}] /\ Done(c)
    BY <1>1, <1>3, <1>5 DEF Found
  <2>2. Repository!Find(c, call.key)
    BY <1>3, <2>1 DEF Repository!Find, Repository!Reads, Repository!Present, Nothing
  <2>. QED
    BY <1>2, <1>4, <2>1, <2>2, CallEnds DEF Repository!StoreNext
<1>6. CASE call.value # Nothing
  <2>1. PICK next : next = [call EXCEPT !.next = "merge", !.base = row, !.since = clock]
    OBVIOUS
  <2>2. calls' = [calls EXCEPT ![c] = next] /\ UNCHANGED answers
    BY <1>1, <1>3, <1>6, <2>1 DEF Found, StoreInv
  <2>3. next \in Pending
    BY <2>1 DEF Pending, Errand, StoreInv
  <2>4. next.next = "merge" /\ next.base = row /\ next.since = clock
    BY <2>1 DEF Pending
  <2>5. next.key = call.key /\ next.value = call.value
    BY <2>1 DEF Pending
  <2>6. Patch(next)
    <3>1. Patch(call)
      BY <1>1, <1>6 DEF InHand
    <3>. QED
      BY <2>5, <3>1 DEF Patch
  <2>7. next.since <= clock
    BY ONLY <2>4, NowIs, StoreInv
  <2>8. InHand(next, clock)
    BY <1>2, <1>3, <1>6, <2>4, <2>5, <2>6, <2>7 DEF InHand
  <2>. QED
    BY <1>4, <2>2, <2>3, <2>8, CallGoesOn
<1>. QED
  BY <1>5, <1>6

\* Nothing found: no record is there, or the time of the one that is is over.
LEMMA NotFoundStep ==
  ASSUME StoreInv, NEW c \in Caller, calls[c].key \in RecordKey, NotFound(c),
         Row(calls[c].key) = NoRow \/ Expired(Row(calls[c].key)), UNCHANGED <<clock, records>>
  PROVE  Repository!StoreNext \/ UNCHANGED <<clock, records, answers>>
<1>1. CASE calls[c].value # Nothing
  BY <1>1 DEF NotFound
<1>2. CASE calls[c].value = Nothing
  <2>1. Repository!Reads(c, {})
    BY <1>2 DEF NotFound, Repository!Reads
  <2>2. ~Repository!Present(calls[c].key) \/ Repository!Lapsed(calls[c].key)
    BY RowThere, ExpiredIsLapsed DEF Repository!Present, Nothing
  <2>3. Repository!Find(c, calls[c].key)
    BY <2>1, <2>2 DEF Repository!Find
  <2>. QED
    BY <2>3 DEF Repository!StoreNext
<1>. QED
  BY <1>1, <1>2

LEMMA SelectStep ==
  ASSUME StoreInv, NEW c \in Caller, GetStoredValue(c) \/ WorkerGetStoredValue(c)
  PROVE  StoreInv' /\ (Repository!StoreNext \/ UNCHANGED <<clock, records, answers>>)
<1>1. PICK call \in Pending : call = calls[c] /\ InHand(call, clock)
  BY CallIs
<1>2. /\ call.next \in {"select", "worker select"}
      /\ UNCHANGED <<clock, records, until, locked, asked, overtaken>>
  BY <1>1 DEF GetStoredValue, WorkerGetStoredValue, Knows
<1>3. call.key \in RecordKey
  BY <1>1, <1>2 DEF InHand
<1>4. locked' \in Caller \cup {Free} /\ asked' \in Nat /\ overtaken' \in BOOLEAN
  BY <1>2 DEF StoreInv
<1>5. \/ Row(call.key) # NoRow /\ Found(c, Row(call.key))
      \/ Row(call.key) = NoRow /\ Done(c) /\ (NotFound(c) \/ UNCHANGED answers)
      \/ /\ Row(call.key) # NoRow /\ Expired(Row(call.key)) /\ NotFound(c)
         /\ calls' = [calls EXCEPT ![c].next = "delete"]
  BY <1>1 DEF GetStoredValue, WorkerGetStoredValue
<1>6. CASE Row(call.key) # NoRow /\ Found(c, Row(call.key))
  BY <1>1, <1>2, <1>6, FoundStep
<1>7. CASE Row(call.key) = NoRow /\ Done(c) /\ (NotFound(c) \/ UNCHANGED answers)
  BY <1>1, <1>2, <1>3, <1>4, <1>7, CallEnds, NotFoundStep
<1>8. CASE /\ Row(call.key) # NoRow /\ Expired(Row(call.key)) /\ NotFound(c)
           /\ calls' = [calls EXCEPT ![c].next = "delete"]
  <2>1. PICK next : next = [call EXCEPT !.next = "delete"]
    OBVIOUS
  <2>2. calls' = [calls EXCEPT ![c] = next]
    BY <1>1, <1>8, <2>1 DEF StoreInv
  <2>3. next \in Pending
    BY <2>1 DEF Pending, Errand
  <2>4. next.next = "delete" /\ next.key = call.key /\ next.since = call.since
    BY <2>1 DEF Pending
  <2>5. InHand(next, clock)
    BY <1>1, <1>3, <2>4 DEF InHand
  <2>. QED
    BY <1>1, <1>2, <1>3, <1>4, <1>8, <2>2, <2>3, <2>5, CallGoesOn, NotFoundStep
<1>. QED
  BY <1>5, <1>6, <1>7, <1>8

\* The second statement of a read that met an expired row.
LEMMA DeleteStep ==
  ASSUME StoreInv, NEW c \in Caller, DeleteExpired(c), calls[c].key \in RecordKey
  PROVE  /\ StoreInv'
         /\ overtaken' \/ Repository!StoreNext \/ UNCHANGED <<clock, records, answers>>
<1>1. PICK k \in RecordKey : k = calls[c].key
  OBVIOUS
<1>2. /\ overtaken' = (overtaken \/ (Row(k) # NoRow /\ ~Expired(Row(k))))
      /\ PutRow(k, NoRow) /\ Done(c) /\ UNCHANGED <<clock, answers, locked, asked>>
  BY <1>1 DEF DeleteExpired
<1>3. StoreInv'
  <2>1. Sound(k, NoRow) /\ NoRow \in TableRow
    BY NothingIs DEF Sound
  <2>2. overtaken' \in BOOLEAN
    BY <1>2 DEF StoreInv
  <2>. QED
    BY <1>2, <2>1, <2>2, RowWritten
<1>4. records' = [records EXCEPT ![k] = Nothing]
  BY <1>2, NothingIs DEF PutRow
<1>5. CASE Row(k) = NoRow
  <2>1. records[k] = Nothing
    BY <1>5, RowThere
  <2>2. records' = records
    BY <1>4, <2>1 DEF StoreInv
  <2>. QED
    BY <1>2, <1>3, <2>2
<1>6. CASE Row(k) # NoRow /\ Expired(Row(k))
  <2>1. Repository!Drop(k)
    BY <1>2, <1>4, <1>6, ExpiredIsLapsed DEF Repository!Drop, Repository!Save, Nothing
  <2>. QED
    BY <1>3, <2>1 DEF Repository!StoreNext
<1>7. CASE Row(k) # NoRow /\ ~Expired(Row(k))
  BY <1>2, <1>3, <1>7
<1>. QED
  BY <1>5, <1>6, <1>7

\* A value that has not changed since it was read, or the history says so.
LEMMA MergeStep ==
  ASSUME StoreInv, NEW c \in Caller, calls[c].next = "merge"
  PROVE  /\ calls[c].key \in RecordKey /\ Patch(calls[c]) /\ calls[c].value \in Value
         /\ calls[c].base.value \in Value /\ calls[c].base.value # Nothing
         /\ calls[c].base.value.expires \in Nat
         /\ calls[c].value.note \in Repository!Note
         /\ Row(calls[c].key) = calls[c].base =>
              /\ records[calls[c].key] = calls[c].base.value
              /\ Repository!Present(calls[c].key)
<1>1. PICK call \in Pending : call = calls[c] /\ InHand(call, clock)
  BY CallIs
<1>2. call.value # Nothing /\ call.base.value # Nothing /\ call.key \in RecordKey
  BY <1>1 DEF InHand
<1>3. Patch(call)
  BY <1>1, <1>2 DEF InHand
<1>4. call.value \in Value /\ call.base \in TableRow
  BY <1>1 DEF Pending
<1>5. call.base.value \in Value
  BY <1>4 DEF TableRow
<1>6. call.value.note \in Repository!Note /\ call.base.value.expires \in Nat
  BY <1>4, <1>5 DEF Value
<1>7. Row(call.key) = call.base => records[call.key] = call.base.value
  BY <1>2, RowThere
<1>. QED
  BY <1>1, <1>2, <1>3, <1>4, <1>5, <1>6, <1>7 DEF Repository!Present, Nothing

LEMMA JobStep ==
  ASSUME StoreInv, NEW c \in Caller, UpdateJobStatus(c)
  PROVE  /\ StoreInv'
         /\ overtaken' \/ Repository!StoreNext \/ UNCHANGED <<clock, records, answers>>
<1>1. PICK k : k = calls[c].key
  OBVIOUS
<1>2. PICK v : v = calls[c].base.value
  OBVIOUS
<1>3. PICK status : status = calls[c].value.status
  OBVIOUS
<1>4. PICK note : note = calls[c].value.note
  OBVIOUS
<1>5. PICK w : w = Repository!Merged(v, status, note)
  OBVIOUS
<1>6. PICK row : row = [value |-> w, until |-> 0]
  OBVIOUS
<1>7. /\ calls[c].next = "merge" /\ KindOf[k] = "job" /\ PutRow(k, row) /\ Done(c)
      /\ overtaken' = (overtaken \/ Row(k) # calls[c].base)
      /\ UNCHANGED <<clock, answers, locked, asked>>
  BY <1>1, <1>2, <1>3, <1>4, <1>5, <1>6 DEF UpdateJobStatus, WriteBack, MergedRow, Knows
<1>8. /\ k \in RecordKey /\ v \in Value /\ note \in Repository!Note
      /\ Row(k) = calls[c].base => records[k] = v /\ Repository!Present(k)
  BY <1>1, <1>2, <1>4, <1>7, MergeStep
<1>9. status \in Repository!Statuses
  BY <1>1, <1>3, <1>7, MergeStep DEF Patch
<1>10. w \in Value /\ w # Nothing
  BY SMTT(60), <1>5, <1>8, <1>9, MergedIs DEF Repository!Statuses
<1>11. row \in TableRow /\ row.value = w /\ row.until = 0
  BY <1>6, <1>10 DEF TableRow
<1>12. Sound(k, row)
  BY <1>7, <1>11 DEF Sound, Repository!Timed
<1>13. StoreInv'
  <2>1. overtaken' \in BOOLEAN
    BY <1>7 DEF StoreInv
  <2>. QED
    BY <1>7, <1>8, <1>11, <1>12, <2>1, RowWritten
<1>14. CASE Row(k) = calls[c].base
  <2>1. Repository!Save(k, w)
    BY <1>7, <1>11 DEF PutRow, Repository!Save
  <2>2. Repository!UpdateJobStatus(k)
    BY <1>5, <1>7, <1>8, <1>9, <1>14, <2>1 DEF Repository!UpdateJobStatus, Repository!Is
  <2>. QED
    BY <1>8, <1>13, <2>2 DEF Repository!StoreNext
<1>. QED
  BY <1>7, <1>13, <1>14

\* What an update finds left of a record's time, in whole seconds.
LEMMA LeftIs ==
  ASSUME StoreInv, NEW c \in Caller, calls[c].next = "merge",
         NEW now \in Since(c), NEW later \in Since(c), now <= later
  PROVE  /\ now \in Nat /\ later \in Nat /\ later <= clock /\ LeftAt(c, now) \in Int
         /\ calls[c].base.value.expires < later + LeftAt(c, now) + Second
         /\ LeftAt(c, now) <= 0 => calls[c].base.value.expires < clock + Second
<1>1. PICK end \in Nat : end = calls[c].base.value.expires
  BY MergeStep
<1>2. calls[c].since \in Nat /\ clock \in Nat
  BY CallIs DEF Pending, StoreInv
<1>3. now \in Nat /\ later \in Nat /\ later <= clock /\ now <= clock
  BY <1>2 DEF Since
<1>4. PICK left : left = LeftAt(c, now)
  OBVIOUS
<1>5. PICK ms \in Int : ms = end - now
  BY <1>3
<1>6. left = WholeSeconds(ms)
  BY <1>1, <1>4, <1>5 DEF LeftAt
<1>7. left \in Int /\ ms < left + Second
  BY <1>6, SecondsAre
<1>8. Second \in Nat
  BY StoreAssumption
<1>. QED
  BY <1>1, <1>2, <1>3, <1>4, <1>5, <1>7, <1>8

LEMMA RevokeStep ==
  ASSUME StoreInv, NEW c \in Caller, RevokeAuthRefreshSession(c)
  PROVE  /\ StoreInv'
         /\ overtaken' \/ Repository!StoreNext \/ UNCHANGED <<clock, records, answers>>
<1>1. PICK k : k = calls[c].key
  OBVIOUS
<1>2. PICK v : v = calls[c].base.value
  OBVIOUS
<1>3. PICK status : status = calls[c].value.status
  OBVIOUS
<1>4. PICK note : note = calls[c].value.note
  OBVIOUS
<1>5. PICK w : w = Repository!Merged(v, status, note)
  OBVIOUS
<1>6. PICK now \in Since(c), later \in Since(c) :
        /\ now <= later
        /\ WriteBack(c, "session", IF LeftAt(c, now) <= 0 THEN NoRow
                                   ELSE MergedRow(c, later + LeftAt(c, now)))
  BY DEF RevokeAuthRefreshSession
<1>7. PICK left : left = LeftAt(c, now)
  OBVIOUS
<1>8. PICK row : row = IF left <= 0 THEN NoRow ELSE [value |-> w, until |-> later + left]
  OBVIOUS
<1>9. /\ calls[c].next = "merge" /\ KindOf[k] = "session" /\ PutRow(k, row) /\ Done(c)
      /\ overtaken' = (overtaken \/ Row(k) # calls[c].base)
      /\ UNCHANGED <<clock, answers, locked, asked>>
  BY <1>1, <1>2, <1>3, <1>4, <1>5, <1>6, <1>7, <1>8 DEF WriteBack, MergedRow, Knows
<1>10. /\ k \in RecordKey /\ v \in Value /\ note \in Repository!Note /\ v.expires \in Nat
       /\ Row(k) = calls[c].base => records[k] = v /\ Repository!Present(k)
  BY <1>1, <1>2, <1>4, <1>9, MergeStep
<1>11. status = "revoked" /\ note = "none"
  BY <1>1, <1>3, <1>4, <1>9, MergeStep DEF Patch
<1>12. w \in Value /\ w # Nothing /\ w.expires = v.expires /\ w.status = "revoked"
  <2>1. status \in {"running", "failed", "revoked", "paid"}
    BY <1>11
  <2>2. v \in Value /\ note \in Repository!Note
    BY <1>10
  <2>3. /\ Repository!Merged(v, status, note) \in Value
        /\ Repository!Merged(v, status, note) # Nothing
        /\ Repository!Merged(v, status, note).expires = v.expires
        /\ Repository!Merged(v, status, note).status = status
    BY ONLY <2>1, <2>2, MergedIs
  <2>. QED
    BY <1>5, <1>11, <2>3
<1>13. /\ later \in Nat /\ left \in Int /\ v.expires < later + left + Second
       /\ left <= 0 => v.expires < clock + Second
  BY <1>2, <1>6, <1>7, <1>9, LeftIs
<1>14. overtaken' \in BOOLEAN
  BY <1>9 DEF StoreInv
<1>15. CASE left <= 0
  <2>1. row = NoRow /\ row \in TableRow /\ Sound(k, row)
    BY <1>8, <1>15, NothingIs DEF Sound
  <2>2. StoreInv'
    BY <1>9, <1>10, <1>14, <2>1, RowWritten
  <2>3. Repository!Save(k, Nothing)
    BY <1>9, <2>1, NothingIs DEF PutRow, Repository!Save
  <2>4. Row(k) = calls[c].base => Repository!RevokeAuthRefreshSession(k)
    BY <1>9, <1>10, <1>13, <1>15, <2>3
       DEF Repository!RevokeAuthRefreshSession, Repository!Is, Nothing
  <2>. QED
    BY <1>9, <1>10, <2>2, <2>4 DEF Repository!StoreNext
<1>16. CASE ~(left <= 0)
  <2>1. PICK end \in Nat : end = later + left
    BY <1>13, <1>16
  <2>2. end # 0 /\ v.expires < end + Second
    BY <1>13, <1>16, <2>1
  <2>3. row \in TableRow /\ row.value = w /\ row.until = end
    BY <1>8, <1>12, <1>16, <2>1 DEF TableRow
  <2>4. Repository!Slack(w) = Second
    BY <1>12 DEF Repository!Slack
  <2>5. Sound(k, row)
    BY <1>9, <1>12, <2>2, <2>3, <2>4 DEF Sound, Repository!Timed
  <2>6. StoreInv'
    BY <1>9, <1>10, <1>14, <2>3, <2>5, RowWritten
  <2>7. Repository!Save(k, w)
    BY <1>9, <2>3 DEF PutRow, Repository!Save
  <2>8. Row(k) = calls[c].base => Repository!RevokeAuthRefreshSession(k)
    BY <1>5, <1>9, <1>10, <1>11, <2>7 DEF Repository!RevokeAuthRefreshSession, Repository!Is
  <2>. QED
    BY <1>9, <1>10, <2>6, <2>8 DEF Repository!StoreNext
<1>. QED
  BY <1>13, <1>15, <1>16

LEMMA CheckoutStep ==
  ASSUME StoreInv, NEW c \in Caller, UpdateBillingCheckoutStatus(c)
  PROVE  /\ StoreInv'
         /\ overtaken' \/ Repository!StoreNext \/ UNCHANGED <<clock, records, answers>>
<1>1. PICK k : k = calls[c].key
  OBVIOUS
<1>2. PICK v : v = calls[c].base.value
  OBVIOUS
<1>3. PICK status : status = calls[c].value.status
  OBVIOUS
<1>4. PICK note : note = calls[c].value.note
  OBVIOUS
<1>5. PICK w : w = Repository!Merged(v, status, note)
  OBVIOUS
<1>6. PICK now \in Since(c), later \in Since(c) :
        /\ now <= later
        /\ WriteBack(c, "checkout", MergedRow(c, later + IF LeftAt(c, now) < Second THEN Second
                                                         ELSE LeftAt(c, now)))
  BY DEF UpdateBillingCheckoutStatus
<1>7. PICK left : left = LeftAt(c, now)
  OBVIOUS
<1>8. PICK end : end = later + IF left < Second THEN Second ELSE left
  OBVIOUS
<1>9. PICK row : row = [value |-> w, until |-> end]
  OBVIOUS
<1>10. /\ calls[c].next = "merge" /\ KindOf[k] = "checkout" /\ PutRow(k, row) /\ Done(c)
       /\ overtaken' = (overtaken \/ Row(k) # calls[c].base)
       /\ UNCHANGED <<clock, answers, locked, asked>>
  BY <1>1, <1>2, <1>3, <1>4, <1>5, <1>6, <1>7, <1>8, <1>9 DEF WriteBack, MergedRow, Knows
<1>11. /\ k \in RecordKey /\ v \in Value /\ note \in Repository!Note /\ v.expires \in Nat
       /\ Row(k) = calls[c].base => records[k] = v /\ Repository!Present(k)
  BY <1>1, <1>2, <1>4, <1>10, MergeStep
<1>12. status = "paid" /\ note = "none"
  BY <1>1, <1>3, <1>4, <1>10, MergeStep DEF Patch
<1>13. w \in Value /\ w # Nothing /\ w.expires = v.expires /\ w.status = "paid"
  <2>1. status \in {"running", "failed", "revoked", "paid"}
    BY <1>12
  <2>2. v \in Value /\ note \in Repository!Note
    BY <1>11
  <2>3. /\ Repository!Merged(v, status, note) \in Value
        /\ Repository!Merged(v, status, note) # Nothing
        /\ Repository!Merged(v, status, note).expires = v.expires
        /\ Repository!Merged(v, status, note).status = status
    BY ONLY <2>1, <2>2, MergedIs
  <2>. QED
    BY <1>5, <1>12, <2>3
<1>14. overtaken' \in BOOLEAN
  BY <1>10 DEF StoreInv
<1>15. later \in Nat /\ left \in Int /\ v.expires < later + left + Second
  BY <1>2, <1>6, <1>7, <1>10, LeftIs
<1>16. Second \in Nat /\ Second > 0
  BY StoreAssumption
<1>17. end \in Nat /\ end # 0 /\ v.expires < end + Second
  BY <1>8, <1>11, <1>15, <1>16
<1>18. row \in TableRow /\ row.value = w /\ row.until = end
  BY <1>9, <1>13, <1>17 DEF TableRow
<1>19. Repository!Slack(w) = Second
  BY <1>13 DEF Repository!Slack
<1>20. Sound(k, row)
  BY <1>10, <1>13, <1>17, <1>18, <1>19 DEF Sound, Repository!Timed
<1>21. StoreInv'
  BY <1>10, <1>11, <1>14, <1>18, <1>20, RowWritten
<1>22. Repository!Save(k, w)
  BY <1>10, <1>18 DEF PutRow, Repository!Save
<1>23. Row(k) = calls[c].base => Repository!UpdateBillingCheckoutStatus(k)
  BY <1>5, <1>10, <1>11, <1>12, <1>22 DEF Repository!UpdateBillingCheckoutStatus, Repository!Is
<1>. QED
  BY <1>10, <1>11, <1>21, <1>23 DEF Repository!StoreNext

\* The list leaves out what has expired, and nothing else.
LEMMA ListStep ==
  ASSUME StoreInv, NEW c \in Caller, ListBillingCheckoutSessions(c)
  PROVE  StoreInv' /\ Repository!StoreNext
<1>1. PICK there : there = {k \in RecordKey : Repository!Is(k, "checkout") /\ Repository!Present(k)}
  OBVIOUS
<1>2. PICK over : over = {k \in there : Expired(Row(k))}
  OBVIOUS
<1>3. over \in SUBSET {k \in there : Repository!Lapsed(k)}
  <2>. SUFFICES ASSUME NEW k \in over PROVE k \in there /\ Repository!Lapsed(k)
    OBVIOUS
  <2>1. k \in RecordKey /\ records[k] # Nothing /\ Expired(Row(k)) /\ k \in there
    BY <1>1, <1>2 DEF Repository!Present, Nothing
  <2>. QED
    BY <2>1, RowThere, ExpiredIsLapsed
<1>4. there \ over = {l \in RecordKey : /\ KindOf[l] = "checkout"
                                        /\ Row(l) # NoRow /\ ~Expired(Row(l))}
  BY <1>1, <1>2, RowThere DEF Repository!Present, Repository!Is, Nothing
<1>5. /\ Repository!Reads(c, {records[k] : k \in there \ over})
      /\ Done(c) /\ UNCHANGED <<clock, records, until, locked, asked, overtaken>>
  BY <1>4 DEF ListBillingCheckoutSessions, Repository!Reads
<1>6. Repository!ListBillingCheckoutSessions(c)
  BY <1>1, <1>3, <1>5 DEF Repository!ListBillingCheckoutSessions
<1>7. StoreInv'
  <2>1. locked' \in Caller \cup {Free} /\ asked' \in Nat /\ overtaken' \in BOOLEAN
    BY <1>5 DEF StoreInv
  <2>. QED
    BY <1>5, <2>1, CallEnds
<1>. QED
  BY <1>6, <1>7 DEF Repository!StoreNext

LEMMA LockStep ==
  ASSUME StoreInv, NEW c \in Caller, LockIndex(c)
  PROVE  StoreInv' /\ UNCHANGED <<clock, records, answers>>
<1>1. PICK call \in Pending : call = calls[c] /\ InHand(call, clock)
  BY CallIs
<1>2. PICK row : row = Row(call.key)
  OBVIOUS
<1>3. PICK next : next = [call EXCEPT !.next = "finalize", !.base = row]
  OBVIOUS
<1>4. /\ call.next = "lock" /\ locked' \in {c, locked}
      /\ calls' = [calls EXCEPT ![c] = next]
      /\ UNCHANGED <<clock, records, until, answers, asked, overtaken>>
  BY <1>1, <1>2, <1>3 DEF LockIndex, Knows, StoreInv
<1>5. call.key \in RecordKey /\ KindOf[call.key] = "dedup"
  BY <1>1, <1>4 DEF InHand
<1>6. row \in TableRow
  BY <1>2, <1>5, RowThere
<1>7. next \in Pending
  BY <1>3, <1>6 DEF Pending, Errand
<1>8. next.next = "finalize" /\ next.key = call.key /\ next.since = call.since
  BY <1>3 DEF Pending
<1>9. InHand(next, clock)
  BY <1>1, <1>5, <1>8 DEF InHand
<1>10. locked' \in Caller \cup {Free} /\ asked' \in Nat /\ overtaken' \in BOOLEAN
  BY <1>4 DEF StoreInv
<1>. QED
  BY <1>4, <1>7, <1>9, <1>10, CallGoesOn

\* The two rows of a completion are written at once.
LEMMA CommitStep ==
  ASSUME StoreInv, NEW c \in Caller, CommitCompletion(c)
  PROVE  StoreInv' /\ (overtaken' \/ Repository!StoreNext)
<1>1. PICK call \in Pending : call = calls[c] /\ InHand(call, clock)
  BY CallIs
<1>2. PICK h : h = call.key
  OBVIOUS
<1>3. call.next = "finalize" /\ h \in RecordKey /\ KindOf[h] = "dedup"
  BY <1>1, <1>2 DEF CommitCompletion, Knows, InHand
<1>4. PICK k \in RecordKey, twin \in Twin :
        /\ KindOf[k] = "completion"
        /\ records' = [records EXCEPT ![k] = A("completed", 0),
             ![h] = [A("index", 0) EXCEPT !.holds = call.base.value.holds \cup {twin}]]
        /\ until' = [until EXCEPT ![k] = 0, ![h] = 0]
  BY <1>1, <1>2 DEF CommitCompletion
<1>5. /\ overtaken' = (overtaken \/ Row(h) # call.base) /\ locked' = Free /\ Done(c)
      /\ UNCHANGED <<clock, answers, asked>>
  BY <1>1, <1>2 DEF CommitCompletion
<1>6. PICK i : i = A("index", 0)
  OBVIOUS
<1>7. i \in Value /\ i.status = "index" /\ A("completed", 0) \in Value
  BY <1>6, RecordsAre DEF Status
<1>8. PICK w : w = [i EXCEPT !.holds = call.base.value.holds \cup {twin}]
  OBVIOUS
<1>9. call.base.value.holds \in SUBSET Twin
  BY DEF Pending, TableRow, Value
<1>10. w \in Value
  BY <1>7, <1>8, <1>9 DEF Value
<1>11. records' = [records EXCEPT ![k] = A("completed", 0), ![h] = w]
  BY <1>4, <1>6, <1>8
<1>12. StoreInv'
  <2>1. records' \in [RecordKey -> Value] /\ until' \in [RecordKey -> Nat]
    BY <1>3, <1>4, <1>7, <1>10, <1>11 DEF StoreInv
  <2>2. ASSUME NEW l \in RecordKey PROVE Sound(l, Row(l)')
    <3>1. CASE l \in {k, h}
      <4>1. until'[l] = 0 /\ KindOf[l] \notin Repository!Timed
        BY <1>3, <1>4, <3>1 DEF StoreInv, Repository!Timed
      <4>. QED
        BY <4>1 DEF Sound, Row
    <3>2. CASE l \notin {k, h}
      <4>1. records'[l] = records[l] /\ until'[l] = until[l]
        BY <1>4, <1>11, <3>2 DEF StoreInv
      <4>2. Row(l)' = Row(l)
        BY <4>1 DEF Row
      <4>. QED
        BY <4>2 DEF StoreInv
    <3>. QED
      BY <3>1, <3>2
  <2>3. calls' \in [Caller -> Pending]
    BY <1>5, QuietIs DEF Done, StoreInv
  <2>4. ASSUME NEW d \in Caller PROVE InHand(calls'[d], clock')
    <3>1. calls'[d] = Quiet \/ calls'[d] = calls[d]
      BY <1>5 DEF Done, StoreInv
    <3>. QED
      BY <1>5, <3>1, QuietIs DEF StoreInv
  <2>5. locked' \in Caller \cup {Free} /\ asked' \in Nat /\ overtaken' \in BOOLEAN
    BY <1>5 DEF StoreInv
  <2>. QED
    BY <1>5, <2>1, <2>2, <2>3, <2>4, <2>5 DEF StoreInv
<1>13. CASE Row(h) = call.base
  <2>1. records[h] = call.base.value
    BY <1>3, <1>13, RowThere
  <2>2. Repository!FinalizeUploadCompletion(k, h, twin)
    BY <1>3, <1>4, <1>5, <2>1 DEF A, Repository!FinalizeUploadCompletion, Repository!Is
  <2>. QED
    BY <1>3, <1>12, <2>2 DEF Repository!StoreNext
<1>. QED
  BY <1>5, <1>12, <1>13

LEMMA PassTimeStep ==
  ASSUME StoreInv, PassTime
  PROVE  StoreInv' /\ Repository!StoreNext
<1>1. /\ \A kind \in Repository!Timed : clock + TtlOf[kind] < Horizon
      /\ clock' = clock + 1
      /\ UNCHANGED <<records, until, answers, calls, locked, asked, overtaken>>
  BY DEF PassTime
<1>2. Repository!StoreNext
  BY <1>1 DEF Repository!StoreNext, Repository!PassTime
<1>3. clock \in Nat /\ Horizon \in Nat /\ \A kind \in Repository!Timed : TtlOf[kind] \in Nat
  BY StoreAssumption DEF StoreInv
<1>4. clock' \in Nat /\ \A kind \in Repository!Timed : clock' + TtlOf[kind] <= Horizon
  BY <1>1, <1>3
<1>5. ASSUME NEW k \in RecordKey PROVE Sound(k, Row(k)')
  <2>1. Row(k)' = Row(k)
    BY <1>1 DEF Row
  <2>. QED
    BY <2>1 DEF StoreInv
<1>6. ASSUME NEW d \in Caller PROVE InHand(calls'[d], clock')
  <2>1. PICK call \in Pending : call = calls[d] /\ InHand(call, clock)
    BY CallIs
  <2>2. call.since \in Nat
    BY DEF Pending
  <2>3. call.since <= clock
    BY <2>1 DEF InHand
  <2>4. call.since <= clock'
    BY <1>1, <1>3, <2>2, <2>3
  <2>5. InHand(call, clock')
    BY <2>1, <2>4 DEF InHand
  <2>. QED
    BY <1>1, <2>1, <2>5
<1>. QED
  BY <1>1, <1>2, <1>4, <1>5, <1>6 DEF StoreInv

\* A step is one of the repository, or none that a caller could see, or overtaken.
LEMMA TablesStep ==
  ASSUME StoreInv, [TablesNext]_tableVars
  PROVE  /\ StoreInv'
         /\ overtaken' \/ Repository!StoreNext \/ UNCHANGED <<clock, records, answers>>
<1>1. CASE UNCHANGED tableVars
  <2>1. \A k \in RecordKey : Row(k)' = Row(k)
    BY <1>1 DEF tableVars, Row
  <2>. QED
    BY <1>1, <2>1 DEF tableVars, StoreInv
<1>2. ASSUME NEW c \in Caller, DeleteExpired(c) PROVE calls[c].key \in RecordKey
  BY <1>2, CallIs DEF DeleteExpired, Knows, InHand
<1>3. ASSUME NEW c \in Caller, StatementFails(c)
      PROVE  StoreInv' /\ UNCHANGED <<clock, records, answers>>
  <2>1. /\ locked' \in {Free, locked} /\ Done(c)
        /\ UNCHANGED <<clock, records, until, answers, asked, overtaken>>
    BY <1>3 DEF StatementFails
  <2>2. locked' \in Caller \cup {Free} /\ asked' \in Nat /\ overtaken' \in BOOLEAN
    BY <2>1 DEF StoreInv
  <2>. QED
    BY <2>1, <2>2, CallEnds
<1>4. ASSUME NEW c \in Caller, Statement(c)
      PROVE  /\ StoreInv'
             /\ overtaken' \/ Repository!StoreNext \/ UNCHANGED <<clock, records, answers>>
  BY <1>2, <1>4, UpsertStep, InsertStep, SelectStep, DeleteStep, JobStep, RevokeStep,
     CheckoutStep, ListStep, LockStep, CommitStep DEF Statement
<1>. QED
  BY <1>1, <1>3, <1>4, AsksStep, PassTimeStep DEF TablesNext

LEMMA TablesAlwaysInv == TablesSpec => []StoreInv
<1>1. TablesInit => StoreInv
  <2>. SUFFICES ASSUME TablesInit PROVE StoreInv
    OBVIOUS
  <2>1. \A kind \in Repository!Timed : TtlOf[kind] \in Nat /\ TtlOf[kind] <= Horizon
    BY StoreAssumption
  <2>2. /\ clock = 0 /\ asked = 0 /\ locked = Free /\ overtaken = FALSE
        /\ records = [k \in RecordKey |-> Nothing] /\ until = [k \in RecordKey |-> 0]
        /\ calls = [c \in Caller |-> Quiet]
    BY DEF TablesInit
  <2>3. \A k \in RecordKey : Row(k) = NoRow
    BY <2>2 DEF Row, NoRow
  <2>4. \A k \in RecordKey : Sound(k, Row(k))
    BY <2>3, NothingIs DEF Sound
  <2>5. \A c \in Caller : InHand(calls[c], clock)
    BY <2>2, QuietIs
  <2>6. /\ records \in [RecordKey -> Value] /\ until \in [RecordKey -> Nat]
        /\ calls \in [Caller -> Pending]
    BY <2>2, NothingIs, QuietIs
  <2>7. /\ clock \in Nat /\ \A kind \in Repository!Timed : clock + TtlOf[kind] <= Horizon
        /\ asked \in Nat
    BY <2>1, <2>2
  <2>8. locked \in Caller \cup {Free} /\ overtaken \in BOOLEAN
    BY <2>2
  <2>. QED
    BY <2>4, <2>5, <2>6, <2>7, <2>8 DEF StoreInv
<1>2. StoreInv /\ [TablesNext]_tableVars => StoreInv'
  BY TablesStep
<1>. QED
  BY <1>1, <1>2, PTL DEF TablesSpec

\* Every variable of the tables stays in its type, and a row never lapses before the
\* record in it, but for the last second of one whose status was changed.
THEOREM TablesTyped == TablesSpec => []TablesTypeOK
<1>1. StoreInv => TablesTypeOK
  BY RowThere DEF StoreInv, TablesTypeOK, Sound
<1>. QED
  BY <1>1, TablesAlwaysInv, PTL

\* Every statement of every method does what one operation of the repository does,
\* or nothing that a caller could see, and a record is found until its time is over
\* or, once its status was changed, until its last second (job-repo.ts:1038, 1182):
\* until a statement acts on a row that another call has changed since it was read,
\* or a first completion of a hash overtakes another (job-repo.ts:863, 975, 1076).
THEOREM TablesImplementRepository == TablesSpec => ImplementsRepository
<1>1. TablesInit => Repository!StoreInit
  BY DEF TablesInit, Repository!StoreInit, Nothing
<1>2. ASSUME StoreInv, [TablesNext]_tableVars
      PROVE  [ \/ UNCHANGED <<clock, records, answers>>
               \/ overtaken'
               \/ Repository!StoreNext ]_(Repository!storeVars)
  BY <1>2, TablesStep
<1>. QED
  BY <1>1, <1>2, TablesAlwaysInv, PTL DEF TablesSpec, ImplementsRepository
=============================================================================
