------------------------- MODULE PostgresRepository -------------------------
(***************************************************************************)
(* PostgresJobRepository.reserveQuotaAndCreateJob: the quota row of the    *)
(* subject is selected FOR UPDATE, computed with, upserted and committed   *)
(* with the job, at READ COMMITTED.  A row that does not exist cannot be   *)
(* locked, so two first reservations may both start from nothing; the      *)
(* later commit then overtakes the earlier.                                *)
(*                                                                         *)
(* The committed row is the window of QuotaLedger, and the history of      *)
(* charges its granted.                                                    *)
(*                                                                         *)
(* A definition whose name ends in Slip is a mutant of the one after it.   *)
(***************************************************************************)
EXTENDS QuotaLedger

CONSTANT MaxErrors  \* bound: queries that fail

Unlocked == "unlocked"

ASSUME PostgresAssumption ==
  /\ MaxErrors \in Nat
  /\ Unlocked \notin Request
  /\ Plan # {} /\ Time # {}

VARIABLES
  schema,  \* initPromise: none yet, pending, fulfilled or rejected
  txn,     \* txn[r]: where the reservation r stands
  at,      \* at[r]: the clock it arrived with
  tier,    \* tier[r]: the plan it is made under
  base,    \* base[r]: the row that it selected
  lock,    \* the reservation that holds the row, or its insertion
  raced,   \* history: a first reservation was overtaken
  errors   \* errors so far

postgresVars == <<ledgerVars, schema, txn, at, tier, base, lock, raced, errors>>

PostgresInit ==
  /\ LedgerInit
  /\ schema = "none"
  /\ txn = [r \in Request |-> "idle"]
  /\ at \in [Request -> {CHOOSE t \in Time : TRUE}]
  /\ tier \in [Request -> {CHOOSE p \in Plan : TRUE}]
  /\ base = [r \in Request |-> Closed]
  /\ lock = Unlocked
  /\ raced = FALSE
  /\ errors = 0

Step(r, label) == txn' = [txn EXCEPT ![r] = label]

Released(r) == IF lock = r THEN Unlocked ELSE lock

\* The first operation of the process creates the schema...
Initialize ==
  /\ schema = "none"
  /\ schema' = "pending"
  /\ UNCHANGED <<ledgerVars, txn, at, tier, base, lock, raced, errors>>

\* ... and all operations wait for that one promise, fulfilled or not.
EnsureSchema ==
  /\ schema = "pending"
  /\ \/ schema' = "fulfilled" /\ UNCHANGED errors
     \/ schema' = "rejected" /\ errors < MaxErrors /\ errors' = errors + 1
  /\ UNCHANGED <<ledgerVars, txn, at, tier, base, lock, raced>>

\* A rejected promise is never replaced: every later operation fails.
Begin(r) ==
  /\ txn[r] = "idle" /\ schema \in {"fulfilled", "rejected"}
  /\ Step(r, IF schema = "fulfilled" THEN "select" ELSE "failed")
  /\ \E now \in Time, p \in Plan : at' = [at EXCEPT ![r] = now] /\ tier' = [tier EXCEPT ![r] = p]
  /\ UNCHANGED <<ledgerVars, schema, base, lock, raced, errors>>

\* What applyQuota makes of a window for one image, and whether it allows it.
Applied(r, w) ==
  IF w # Closed /\ at[r] - w.start <= Hours[tier[r]]
  THEN [w EXCEPT !.used = @ + 1]
  ELSE [start |-> at[r], used |-> 1]

Allowed(r, w) == Applied(r, w).used <= Limit[tier[r]]

\* A plain SELECT: the row is read and not locked.
SelectForUpdateSlip(r) ==
  /\ txn[r] = "select"
  /\ base' = [base EXCEPT ![r] = window]
  /\ Step(r, IF Allowed(r, window) THEN "upsert" ELSE "rollback")
  /\ UNCHANGED <<ledgerVars, schema, at, tier, lock, raced, errors>>

\* The select waits for the holder of the row, and locks what it finds.
SelectForUpdate(r) ==
  /\ txn[r] = "select"
  /\ window # Closed => lock = Unlocked
  /\ lock' = IF window # Closed THEN r ELSE lock
  /\ base' = [base EXCEPT ![r] = window]
  /\ Step(r, IF Allowed(r, window) THEN "upsert" ELSE "rollback")
  /\ UNCHANGED <<ledgerVars, schema, at, tier, raced, errors>>

\* INSERT ... ON CONFLICT DO UPDATE waits for an insertion that is not committed.
Upsert(r) ==
  /\ txn[r] = "upsert"
  /\ lock \in {Unlocked, r}
  /\ lock' = r
  /\ Step(r, "commit")
  /\ UNCHANGED <<ledgerVars, schema, at, tier, base, raced, errors>>

\* The caller may get an error all the same, when the reply is lost.
Commit(r) ==
  /\ txn[r] = "commit"
  /\ lock' = Released(r)
  /\ raced' = (raced \/ (base[r] = Closed /\ window # Closed))
  /\ window' = Applied(r, base[r])
  /\ granted' = [granted EXCEPT ![r] = Applied(r, base[r]).start]
  /\ \/ Step(r, "done") /\ UNCHANGED errors
     \/ errors < MaxErrors /\ errors' = errors + 1 /\ Step(r, "failed")
  /\ UNCHANGED <<schema, at, tier, base>>

\* The quota is used up.
Rollback(r) ==
  /\ txn[r] = "rollback"
  /\ lock' = Released(r)
  /\ Step(r, "refused")
  /\ UNCHANGED <<ledgerVars, schema, at, tier, base, raced, errors>>

\* A query fails, or the connection or the process is lost.
TransactionFails(r) ==
  /\ txn[r] \in {"select", "upsert", "commit", "rollback"}
  /\ errors < MaxErrors
  /\ errors' = errors + 1
  /\ lock' = Released(r)
  /\ Step(r, "failed")
  /\ UNCHANGED <<ledgerVars, schema, at, tier, base, raced>>

PostgresNext ==
  \/ Initialize \/ EnsureSchema
  \/ \E r \in Request :
       \/ Begin(r) \/ SelectForUpdate(r) \/ Upsert(r) \/ Commit(r)
       \/ Rollback(r) \/ TransactionFails(r)

PostgresSpec == PostgresInit /\ [][PostgresNext]_postgresVars
-----------------------------------------------------------------------------
(* Properties.                                                             *)

\* Every variable stays in its type.
PostgresTypeOK ==
  /\ LedgerTypeOK
  /\ schema \in {"none", "pending", "fulfilled", "rejected"}
  /\ txn \in [Request -> {"idle", "select", "upsert", "commit", "rollback", "done", "refused",
                          "failed"}]
  /\ at \in [Request -> Time]
  /\ tier \in [Request -> Plan]
  /\ base \in [Request -> [start : Nat, used : Nat] \cup {Closed}]
  /\ lock \in Request \cup {Unlocked}
  /\ raced \in BOOLEAN
  /\ errors \in Nat

\* Whatever clocks, plans, failures and lock waits do, every commit charges the
\* ledger as QuotaLedger allows, until a first reservation is overtaken by another
\* one: the ledger is implemented from the moment the row exists.  (A step that
\* leaves the ledger alone is named first, to spare TLC the actions of the ledger.)
ImplementsQuotaLedger ==
  LedgerInit /\ [][UNCHANGED ledgerVars \/ raced' \/ LedgerNext]_ledgerVars
=============================================================================
