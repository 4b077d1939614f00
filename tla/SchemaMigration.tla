--------------------------- MODULE SchemaMigration ---------------------------
(***************************************************************************)
(* Databases of earlier versions are converted in place.  The table of     *)
(* jobs is converted when the application starts                           *)
(* (infrastructure/db/job_migration.py), the table of noise items by every *)
(* extraction that finds the old one (pipeline/handlers/                   *)
(* extraction_handler.py).  Both set the old table aside under another     *)
(* name, create the new one, copy the rows and drop what was set aside.    *)
(*                                                                         *)
(* Sessions work on autocommitting connections, each statement for itself. *)
(* The connection of the start-up opens a transaction at the first row it  *)
(* copies and commits at its end, so copying and dropping are one step.    *)
(***************************************************************************)
EXTENDS FiniteSets

CONSTANTS
    Extractions,    \* threads that run an extraction
    OldRows,        \* the rows an old database has in each table
    NewRows         \* noise items saved later

Tables == {"jobs", "noise_items"}

VARIABLES
    tables,     \* name -> the table and its rows
    aside,      \* name -> the table that was set aside
    starter,    \* where the start-up of the application is
    worker,     \* where every extraction is
    saved,      \* name -> all rows the database was given
    disturbed   \* has a migration been interrupted?

migrationVars == <<tables, aside, starter, worker, saved, disturbed>>

-----------------------------------------------------------------------------
NoTable == [schema |-> "none", rows |-> {}]
NewTable == [schema |-> "new", rows |-> {}]

StarterPc == {"bootstrap", "check", "drop", "rename", "create", "copy", "running"}
WorkerPc == {"idle", "check", "rename", "create", "copy", "drop", "save"}

MigrationTypeOK ==
    /\ \A n \in Tables :
          /\ tables[n].schema \in {"none", "old", "new"} /\ tables[n].rows \subseteq OldRows \cup NewRows
          /\ aside[n].schema \in {"none", "old", "new"} /\ aside[n].rows \subseteq OldRows \cup NewRows
    /\ starter \in StarterPc
    /\ worker \in [Extractions -> WorkerPc]
    /\ disturbed \in BOOLEAN

\* the database of this version, of an earlier one, or none yet
MigrationInit ==
    /\ tables \in [Tables -> {NoTable, [schema |-> "old", rows |-> OldRows],
                                       [schema |-> "new", rows |-> OldRows]}]
    /\ aside = [n \in Tables |-> NoTable]
    /\ starter = "bootstrap"
    /\ worker = [w \in Extractions |-> "idle"]
    /\ saved = [n \in Tables |-> tables[n].rows]
    /\ disturbed = FALSE

IsThere(table) == table.schema # "none"

Rename(n) ==
    /\ aside' = [aside EXCEPT ![n] = tables[n]]
    /\ tables' = [tables EXCEPT ![n] = NoTable]

-----------------------------------------------------------------------------
(* Start-up *)

StarterGoes(pc) == starter' = pc /\ UNCHANGED <<worker, saved, disturbed>>

\* CREATE TABLE IF NOT EXISTS: the schema has the jobs as they were, the noise items as they are
Bootstrapped(n) == IF n = "jobs" THEN [NewTable EXCEPT !.schema = "old"] ELSE NewTable

Bootstrap ==
    /\ starter = "bootstrap"
    /\ tables' = [n \in Tables |-> IF IsThere(tables[n]) THEN tables[n] ELSE Bootstrapped(n)]
    /\ StarterGoes("check")
    /\ UNCHANGED aside

CheckJobs ==
    /\ starter = "check"
    /\ StarterGoes(IF tables["jobs"].schema = "new" THEN "running" ELSE "drop")
    /\ UNCHANGED <<tables, aside>>

\* DROP TABLE IF EXISTS jobs_old
DropJobsAside ==
    /\ starter = "drop"
    /\ aside' = [aside EXCEPT !["jobs"] = NoTable]
    /\ StarterGoes("rename")
    /\ UNCHANGED tables

RenameJobs == starter = "rename" /\ Rename("jobs") /\ StarterGoes("create")

CreateJobs ==
    /\ starter = "create"
    /\ tables' = [tables EXCEPT !["jobs"] = NewTable]
    /\ StarterGoes("copy")
    /\ UNCHANGED aside

CopyJobs ==
    /\ starter = "copy"
    /\ tables' = [tables EXCEPT !["jobs"].rows = @ \cup aside["jobs"].rows]
    /\ aside' = [aside EXCEPT !["jobs"] = NoTable]
    /\ StarterGoes("running")

-----------------------------------------------------------------------------
(* Extractions *)

WorkerGoes(w, pc) == worker' = [worker EXCEPT ![w] = pc] /\ UNCHANGED <<starter, disturbed>>

StartExtraction(w) ==
    /\ starter = "running" /\ worker[w] = "idle"
    /\ WorkerGoes(w, "check")
    /\ UNCHANGED <<tables, aside, saved>>

\* _ensure_noise_schema_supports_statuses
CheckNoise(w) ==
    /\ worker[w] = "check"
    /\ WorkerGoes(w, IF tables["noise_items"].schema = "old" THEN "rename" ELSE "save")
    /\ UNCHANGED <<tables, aside, saved>>

\* Bug variant: what is set aside is dropped first, as for the jobs.
RenameNoiseOver(w) ==
    /\ worker[w] = "rename"
    /\ IF IsThere(tables["noise_items"])
       THEN Rename("noise_items") /\ WorkerGoes(w, "create")
       ELSE /\ aside' = [aside EXCEPT !["noise_items"] = NoTable]
            /\ WorkerGoes(w, "idle") /\ UNCHANGED tables
    /\ UNCHANGED saved

\* the statement fails without the table, or with one of that name set aside already
RenameNoise(w) ==
    /\ worker[w] = "rename"
    /\ IF IsThere(tables["noise_items"]) /\ ~IsThere(aside["noise_items"])
       THEN Rename("noise_items") /\ WorkerGoes(w, "create")
       ELSE WorkerGoes(w, "idle") /\ UNCHANGED <<tables, aside>>
    /\ UNCHANGED saved

CreateNoiseTable(w) ==
    /\ worker[w] = "create"
    /\ tables' = [tables EXCEPT !["noise_items"] = NewTable]
    /\ WorkerGoes(w, "copy")
    /\ UNCHANGED <<aside, saved>>

CopyNoise(w) ==
    /\ worker[w] = "copy"
    /\ tables' = [tables EXCEPT !["noise_items"].rows = @ \cup aside["noise_items"].rows]
    /\ WorkerGoes(w, "drop")
    /\ UNCHANGED <<aside, saved>>

DropNoiseAside(w) ==
    /\ worker[w] = "drop"
    /\ aside' = [aside EXCEPT !["noise_items"] = NoTable]
    /\ WorkerGoes(w, "save")
    /\ UNCHANGED <<tables, saved>>

\* the item is saved unless it is there already; without the table that fails
SaveNoise(w, r) ==
    /\ worker[w] = "save"
    /\ IF IsThere(tables["noise_items"])
       THEN /\ tables' = [tables EXCEPT !["noise_items"].rows = @ \cup {r}]
            /\ saved' = [saved EXCEPT !["noise_items"] = @ \cup {r}]
       ELSE UNCHANGED <<tables, saved>>
    /\ WorkerGoes(w, "idle")
    /\ UNCHANGED aside

Migrating ==
    \/ starter \in {"create", "copy"}
    \/ \E w \in Extractions : worker[w] \in {"create", "copy", "drop"}

\* the application is killed and starts again
MigrationCrash ==
    /\ starter' = "bootstrap"
    /\ worker' = [w \in Extractions |-> "idle"]
    /\ disturbed' = (disturbed \/ Migrating)
    /\ UNCHANGED <<tables, aside, saved>>

MigrationNext ==
    \/ Bootstrap \/ CheckJobs \/ DropJobsAside \/ RenameJobs \/ CreateJobs \/ CopyJobs
    \/ \E w \in Extractions :
          \/ StartExtraction(w) \/ CheckNoise(w) \/ RenameNoise(w) \/ CreateNoiseTable(w)
          \/ CopyNoise(w) \/ DropNoiseAside(w) \/ \E r \in NewRows : SaveNoise(w, r)
    \/ MigrationCrash

MigrationSpec == MigrationInit /\ [][MigrationNext]_migrationVars

-----------------------------------------------------------------------------
(* Properties *)

\* When no migration has been interrupted, the application has all rows as soon as none is
\* under way, however many extractions convert the table at once.  Whatever is interrupted, a
\* noise item that was saved is in the table or in the one set aside.  (Not so a job: when the
\* start-up is cut off between renaming and creating, the next one creates the old table
\* again and drops the jobs that were set aside.)
MigrationKeepsRows ==
    /\ \A n \in Tables : disturbed \/ Migrating \/ saved[n] = tables[n].rows
    /\ saved["noise_items"] = tables["noise_items"].rows \cup aside["noise_items"].rows
=============================================================================
