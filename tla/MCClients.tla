------------------------------ MODULE MCClients ------------------------------
(***************************************************************************)
(* Instances for TLC of the components that share no key with one another, *)
(* side by side: a browser with its refresh sessions, the gateway with the *)
(* cleanups it calls, background removal, the rate limits, reservations    *)
(* and records in Postgres, the tool page, what the API and the worker     *)
(* agree on, and the migrations.  "part" says which of them takes steps;   *)
(* the others stay as they began, so what TLC explores is their union and  *)
(* not their product.                                                      *)
(***************************************************************************)
EXTENDS WebClient, Gateway, BackgroundRemoval, RateLimits, PostgresRepository, PostgresStore,
        Workbench, JobContract, Migrations

LOCAL INSTANCE TLC

CONSTANTS t1, o1, o2

VARIABLE part

clientVars == <<webVars, cleanVars, gatewayVars, removalVars, rateVars, postgresVars,
                tableVars, workbenchVars, contractVars, migrationVars, part>>

OneTab == [f \in Fetch |-> t1]

\* A plan that cleans up and creates a job, the same steps in the other order,
\* one without a key and one without its scopes.
CleanStep == [op |-> "cleanup_create", objects |-> {o1, o2}]
MakeStep  == [op |-> "jobs_create", objects |-> {}]
Scopes    == {"image.cleanup", "image.jobs.write"}
Submitted == {[steps |-> s, key |-> "k1", code |-> FALSE, scopes |-> Scopes] :
                s \in {<<CleanStep, MakeStep>>, <<MakeStep, [CleanStep EXCEPT !.objects = {o1}]>>}}
             \cup {[steps |-> <<CleanStep>>, key |-> "none", code |-> FALSE, scopes |-> Scopes],
                   [steps |-> <<CleanStep>>, key |-> "k1", code |-> FALSE, scopes |-> {}]}

\* The paid plan has more images in shorter windows.
TwoLimits == [p \in Plan |-> IF p = "pro" THEN 2 ELSE 1]
TwoHours  == [p \in Plan |-> IF p = "pro" THEN 1 ELSE 2]
Instants  == {0, 1, 3}

\* A key of every kind.
OneOfEach == [k \in RecordKey |-> k]

\* Sessions, checkouts and idempotency records that live for a second.
OneSecond == [kind \in {"session", "checkout", "idempotency"} |-> Second]

\* Nothing tells one caller of the repository from another.
CallerSymmetry == Permutations(Caller)

ClientsInit ==
  /\ WebInit /\ GatewayInit /\ RemovalInit /\ RateInit /\ PostgresInit /\ TablesInit
  /\ WorkbenchInit /\ ContractInit /\ MigrationsInit
  /\ part \in {"browser", "gateway", "removal", "rates", "postgres", "tables", "workbench",
              "contract", "migrations"}
  /\ part = "contract" \/ env = Development

ClientsNext ==
  /\ UNCHANGED part
  /\ \/ part = "browser" /\ WebNext
     \/ part # "browser" /\ UNCHANGED webVars
  /\ \/ part = "gateway" /\ GatewayNext
     \/ part # "gateway" /\ UNCHANGED <<cleanVars, gatewayVars>>
  /\ \/ part = "removal" /\ RemovalNext
     \/ part # "removal" /\ UNCHANGED removalVars
  /\ \/ part = "rates" /\ RateNext
     \/ part # "rates" /\ UNCHANGED rateVars
  /\ \/ part = "postgres" /\ PostgresNext
     \/ part # "postgres" /\ UNCHANGED postgresVars
  /\ \/ part = "tables" /\ TablesNext
     \/ part # "tables" /\ UNCHANGED tableVars
  /\ \/ part = "workbench" /\ WorkbenchNext
     \/ part # "workbench" /\ UNCHANGED workbenchVars
  /\ \/ part = "contract" /\ ContractNext
     \/ part # "contract" /\ UNCHANGED contractVars
  /\ \/ part = "migrations" /\ MigrationsNext
     \/ part # "migrations" /\ UNCHANGED migrationVars

ClientsSpec == ClientsInit /\ [][ClientsNext]_clientVars

\* Only the part that takes steps can leave its type.
ClientsTypeOK ==
  /\ part = "browser"   => WebTypeOK
  /\ part = "gateway"   => CleanupTypeOK /\ GatewayTypeOK
  /\ part = "removal"   => RemovalTypeOK
  /\ part = "rates"     => RateTypeOK
  /\ part = "postgres"  => PostgresTypeOK
  /\ part = "tables"    => TablesTypeOK
  /\ part = "workbench" => WorkbenchTypeOK
  /\ part = "contract"  => ContractTypeOK
  /\ part = "migrations" => MigrationsTypeOK
=============================================================================
