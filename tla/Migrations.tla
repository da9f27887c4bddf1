------------------------------ MODULE Migrations ------------------------------
(***************************************************************************)
(* scripts/migrate.ts: the files of infra/sql, applied in the order of     *)
(* their numbers and rolled back from the latest one, by commands that may *)
(* run at the same time and fail anywhere, beside API processes that make  *)
(* the tables of the second file themselves.                               *)
(*                                                                         *)
(* A command reads schema_migrations once and then works file by file, in  *)
(* a transaction each: the statements and the row of the file.  Postgres   *)
(* serialises transactions that touch the same objects, so each of them is *)
(* one step here; what was read before may be outdated by then.            *)
(*                                                                         *)
(* A definition whose name ends in Slip is a mutant of the one after it.   *)
(***************************************************************************)
EXTENDS Integers, Sequences

CONSTANTS
  Migrator,    \* command lines
  MaxCommands  \* bound: commands

ASSUME MigrationsAssumption == MaxCommands \in Nat

\* 001_initial_schema, 002_metadata_runtime_tables, 003_indexes
Migration == 1..3

VARIABLES
  journal,  \* schema_migrations, by applied_at
  built,    \* the files whose objects are there
  task,     \* task[m]: the command of m and the files it has still to do
  started,  \* commands so far
  crossed   \* history: an up and a down were under way at once

migrationVars == <<journal, built, task, started, crossed>>

NoTask == [command |-> "none", files |-> {}]

Rows == {journal[k] : k \in DOMAIN journal}

MigrationsInit ==
  /\ journal = <<>>
  /\ built = {}
  /\ task = [m \in Migrator |-> NoTask]
  /\ started = 0
  /\ crossed = FALSE

\* The first one that was applied.
LatestSlip == journal[1]

Latest == journal[Len(journal)]

\* A command that has nothing more to do ends.
Task(command, files) ==
  IF files = {} THEN NoTask ELSE [command |-> command, files |-> files]

Command(m, command, files) ==
  /\ task[m] = NoTask
  /\ started < MaxCommands
  /\ started' = started + 1
  /\ task' = [task EXCEPT ![m] = Task(command, files)]
  /\ crossed' = (crossed \/ (/\ files # {}
                             /\ \E n \in Migrator : task[n].command \notin {"none", command}))
  /\ UNCHANGED <<journal, built>>

MigrateUp(m) == Command(m, "up", Migration \ Rows)

MigrateDown(m) == Command(m, "down", IF journal = <<>> THEN {} ELSE {Latest})

\* The first file creates what must not be there, the third needs the tables of
\* both others; a row that is there already breaks the primary key.
Applies(i) ==
  /\ i = 1 => 1 \notin built
  /\ i = 3 => {1, 2} \subseteq built
  /\ i \notin Rows

Apply(m) ==
  \E i \in task[m].files :
    /\ task[m].command = "up" /\ (\A j \in task[m].files : i <= j) /\ Applies(i)
    /\ built' = built \cup {i}
    /\ journal' = Append(journal, i)
    /\ task' = [task EXCEPT ![m] = Task("up", @.files \ {i})]
    /\ UNCHANGED <<started, crossed>>

\* A row that is not there any more is no error.
DeleteRow(i) ==
  \/ i \notin Rows /\ UNCHANGED journal
  \/ \E k \in DOMAIN journal :
       /\ journal[k] = i
       /\ journal' = SubSeq(journal, 1, k - 1) \o SubSeq(journal, k + 1, Len(journal))

\* Indexes go with their tables.
RollBack(m) ==
  \E i \in task[m].files :
    /\ task[m].command = "down"
    /\ built' = built \ {i, 3}
    /\ DeleteRow(i)
    /\ task' = [task EXCEPT ![m] = NoTask]
    /\ UNCHANGED <<started, crossed>>

\* A statement fails, as one that does not apply must, or the command is killed.
CommandFails(m) ==
  /\ task[m] # NoTask
  /\ task' = [task EXCEPT ![m] = NoTask]
  /\ UNCHANGED <<journal, built, started, crossed>>

\* An API or a worker starts with POSTGRES_URL.
Bootstrap ==
  /\ 2 \notin built
  /\ built' = built \cup {2}
  /\ UNCHANGED <<journal, task, started, crossed>>

MigrationsNext ==
  \/ Bootstrap
  \/ \E m \in Migrator :
       MigrateUp(m) \/ MigrateDown(m) \/ Apply(m) \/ RollBack(m) \/ CommandFails(m)

MigrationsSpec == MigrationsInit /\ [][MigrationsNext]_migrationVars
-----------------------------------------------------------------------------
(* Properties.                                                             *)

\* Every variable stays in its type.
MigrationsTypeOK ==
  /\ journal \in Seq(Migration)
  /\ built \subseteq Migration
  /\ task \in [Migrator -> [command : {"none", "up", "down"}, files : SUBSET Migration]]
  /\ started \in 0..MaxCommands /\ crossed \in BOOLEAN

\* Wherever commands fail and however many run at once, the files on record are
\* the first ones, in order, and their objects are there, unless an up and a
\* down overlapped (migrate.ts:65, 96).
JournalIsTrue ==
  ~crossed => /\ \A k \in 1..Len(journal) : journal[k] = k
              /\ Rows \subseteq built
=============================================================================
