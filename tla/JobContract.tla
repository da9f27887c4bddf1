----------------------------- MODULE JobContract -----------------------------
(***************************************************************************)
(* What the API and the worker decide each for itself, in processes that   *)
(* are started at different times from an environment that is edited in    *)
(* between: whether to run at all, which store the job records are in, and *)
(* the format of a job's output, which the API tells its client and puts   *)
(* into the object key before the worker chooses an encoder.               *)
(*                                                                         *)
(* A format stands for its MIME type; "other" is one no encoder is for.    *)
(* REDIS_URL and JOB_QUEUE_NAME are left out: they name the queue as well, *)
(* and a worker with other values never gets the job.                      *)
(*                                                                         *)
(* A definition whose name ends in Slip is a mutant of the one after it.   *)
(***************************************************************************)
EXTENDS Integers

CONSTANT MaxEdits  \* bound: changes of the environment

ASSUME ContractAssumption == MaxEdits \in Nat

VARIABLES
  env,    \* the environment that the next process starts with
  api,    \* the configuration the API runs with, or Down
  worker, \* and that of the worker
  job,    \* a job, from its creation until it is processed
  edits   \* changes so far

contractVars == <<env, api, worker, job, edits>>

\* The variables that are checked or name a store, and what may be said of their
\* values: not there, a development default, spaces only, one database or another...
Variable == [node       |-> {"development", "test", "production"},
             driver     |-> {"redis", "postgres"},
             url        |-> {"absent", "one", "other"},
             provider   |-> {"hmac", "stripe"},
             stripeKey  |-> {"absent", "blank", "set"},
             stripeHook |-> {"absent", "blank", "set"},
             price      |-> {"blank", "set"},
             secret     |-> {"default", "short", "long"},
             cookie     |-> {"false", "TRUE", "true"},
             sameSite   |-> {"lax", "none"},
             billing    |-> {"default", "set"},
             s3         |-> {"absent", "minioadmin", "set"},
             metrics    |-> {"absent", "set"},
             removeUrl  |-> {"absent", "set"},
             backoff    |-> {"ordered", "reversed"},
             workers    |-> {"ordered", "reversed"}]

Development == [node |-> "development", driver |-> "redis", url |-> "absent",
                provider |-> "hmac", stripeKey |-> "absent", stripeHook |-> "absent",
                price |-> "set", secret |-> "long", cookie |-> "false", sameSite |-> "lax",
                billing |-> "default", s3 |-> "minioadmin", metrics |-> "absent",
                removeUrl |-> "set", backoff |-> "ordered", workers |-> "ordered"]

Production == [Development EXCEPT
                 !.node = "production", !.driver = "postgres", !.url = "one",
                 !.stripeHook = "set", !.cookie = "true", !.billing = "set", !.s3 = "set",
                 !.metrics = "set"]

Down == [node |-> "down", driver |-> "none", url |-> "absent"]

Tool   == {"resize", "compress", "convert", "background-remove"}
Format == {"jpeg", "png", "webp"}

NoJob == [state |-> "none"]
-----------------------------------------------------------------------------
(* Configuration.                                                          *)

\* What envSchema of the API refuses.
ApiParses(e) ==
  /\ e.driver = "postgres" => e.url # "absent"
  /\ e.provider = "stripe" => e.stripeKey # "absent" /\ e.stripeHook # "absent"
  /\ e.sameSite = "none" => e.cookie # "false"
  /\ e.s3 # "absent"
  /\ e.node = "production" =>
       e.driver = "postgres" /\ e.secret # "default" /\ e.billing = "set" /\ e.s3 = "set"

\* process.env, not the parsed configuration.
ValidEnv(e) ==
  /\ e.secret = "long"
  /\ e.node = "production" =>
       e.cookie = "true" /\ e.stripeHook # "absent" /\ e.metrics = "set"
  /\ e.provider = "stripe" => e.stripeKey # "absent" /\ e.stripeHook # "absent"

\* The one check that looks beyond spaces.
BillingCreated(e) ==
  e.provider = "stripe" => e.stripeKey = "set" /\ e.stripeHook = "set" /\ e.price = "set"

\* The rule about the driver is the API's only.
WorkerParsesSlip(e) ==
  /\ e.driver = "postgres" => e.url # "absent"
  /\ e.s3 # "absent" /\ e.removeUrl = "set"
  /\ e.node = "production" => e.s3 = "set"
  /\ e.backoff = "ordered" /\ e.workers = "ordered"

WorkerParses(e) ==
  /\ e.driver = "postgres" => e.url # "absent"
  /\ e.s3 # "absent" /\ e.removeUrl = "set"
  /\ e.node = "production" => e.driver = "postgres" /\ e.s3 = "set"
  /\ e.backoff = "ordered" /\ e.workers = "ordered"

ContractInit ==
  /\ env \in {Development, Production}
  /\ api = Down /\ worker = Down
  /\ job = NoJob
  /\ edits = 0

Edit ==
  /\ edits < MaxEdits
  /\ edits' = edits + 1
  /\ \E v \in DOMAIN Variable : \E value \in Variable[v] : env' = [env EXCEPT ![v] = value]
  /\ UNCHANGED <<api, worker, job>>

Running(e) == [node |-> e.node, driver |-> e.driver, url |-> e.url]

\* Where a process keeps the records of jobs.
Store(p) == IF p.driver = "postgres" THEN p.url ELSE p.driver

StartApi ==
  /\ api = Down
  /\ ApiParses(env)
  /\ env.node # "test" => ValidEnv(env)
  /\ BillingCreated(env)
  /\ api' = Running(env)
  /\ UNCHANGED <<env, worker, job, edits>>

StartWorker ==
  /\ worker = Down
  /\ WorkerParses(env)
  /\ worker' = Running(env)
  /\ UNCHANGED <<env, api, job, edits>>

StopProcess ==
  /\ \/ api # Down /\ api' = Down /\ UNCHANGED worker
     \/ worker # Down /\ worker' = Down /\ UNCHANGED api
  /\ UNCHANGED <<env, job, edits>>
-----------------------------------------------------------------------------
(* Formats.                                                                *)

\* The options of a request, if any, win over those of the tool.
MergeToolOptions(tool, named) ==
  IF named # "none" THEN named
  ELSE CASE tool = "convert" -> "jpeg" [] tool = "background-remove" -> "png" [] OTHER -> "none"

ToolOutputFormat(tool, mime, option) ==
  IF tool \in {"convert", "background-remove"} THEN option
  ELSE IF mime \in {"png", "webp"} THEN mime ELSE "jpeg"

FormatToMime(format) == IF format \in {"jpeg", "png"} THEN format ELSE "webp"

MimeToFormat(mime) == IF mime \in Format THEN mime ELSE "none"

\* Every tool ends with an encoder of its own choice.
RunResize(mime)    == IF MimeToFormat(mime) \in {"png", "webp"} THEN mime ELSE "jpeg"
RunCompress(mime)  == IF MimeToFormat(mime) \in {"png", "webp"} THEN mime ELSE "jpeg"
RunConvert(option) == IF option \in {"png", "webp"} THEN option ELSE "jpeg"
RunBackgroundRemove(option) == IF option \in {"webp", "png"} THEN option ELSE "jpeg"

Encoded(tool, mime, option) ==
  CASE tool = "resize"   -> RunResize(mime)
    [] tool = "compress" -> RunCompress(mime)
    [] tool = "convert"  -> RunConvert(option)
    [] OTHER             -> RunBackgroundRemove(option)

\* The options are not checked: any value may be named as the format.
CreateJob ==
  /\ api # Down
  /\ job = NoJob
  /\ \E tool \in Tool, mime \in Format \cup {"other"}, named \in Format \cup {"none", "other"} :
       LET option == MergeToolOptions(tool, named)
           format == ToolOutputFormat(tool, mime, option)
       IN  job' = [state |-> "queued", by |-> api, on |-> Down, tool |-> tool, mime |-> mime,
                   option |-> option, told |-> FormatToMime(format), extension |-> format,
                   stored |-> "none", recorded |-> "none"]
  /\ UNCHANGED <<env, api, worker, edits>>

\* A record that is not in the worker's store is not updated, and nobody is told.
ProcessJob ==
  /\ worker # Down
  /\ job # NoJob /\ job.state = "queued"
  /\ LET made == Encoded(job.tool, job.mime, job.option)
     IN  job' = [job EXCEPT !.state = "processed", !.on = worker, !.stored = made,
                   !.recorded = IF Store(job.by) = Store(worker) THEN made ELSE "none"]
  /\ UNCHANGED <<env, api, worker, edits>>

ContractNext == Edit \/ StartApi \/ StartWorker \/ StopProcess \/ CreateJob \/ ProcessJob

ContractSpec == ContractInit /\ [][ContractNext]_contractVars
-----------------------------------------------------------------------------
(* Properties.                                                             *)

\* Every variable stays in its type.
ContractTypeOK ==
  /\ \A v \in DOMAIN Variable : env[v] \in Variable[v]
  /\ {api, worker} \subseteq
       [node : Variable.node, driver : Variable.driver, url : Variable.url] \cup {Down}
  /\ job # NoJob => job.state \in {"queued", "processed"} /\ job.told \in Format
  /\ edits \in Nat

\* However the environment is edited between the starts of the two processes, a
\* worker makes what the client was told, under a key with that extension, unless
\* the request named a format that there is none for (jobs.ts:108).  A production
\* worker also finds the record of a job that a production API created, unless
\* POSTGRES_URL is what was edited: nothing compares the two (worker.ts:32).
JobMeansTheSame ==
  (job # NoJob /\ job.state = "processed" /\ job.option \in Format \cup {"none"}) =>
    /\ job.stored = job.told /\ job.extension = job.stored
    /\ (/\ job.by.node = "production" /\ job.on.node = "production"
        /\ job.by.url = job.on.url) => job.recorded = job.told
=============================================================================
