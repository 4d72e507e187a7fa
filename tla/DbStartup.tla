----------------------------- MODULE DbStartup -----------------------------
(***************************************************************************)
(* The cold start of service instances on one PostgreSQL database: the     *)
(* lifespan of src/src/api/main.py and init_db of src/src/db/engine.py.    *)
(* Each instance runs two transactions, create_all (which looks for the    *)
(* missing tables first and then creates them) and the version column of   *)
(* the sessions table, unless it is there.  Whatever init_db raises, the   *)
(* instance logs it and serves.  Instances may crash and start again.      *)
(***************************************************************************)
EXTENDS FiniteSets

CONSTANTS Instances, Tables, SessionsTable

ASSUME SessionsTableAssumption == SessionsTable \in Tables

\* A deployed service has an instance.
ASSUME InstancesAssumption == Instances # {}

VARIABLES
    tables,     \* the tables that exist
    hasColumn,  \* the sessions table has its version column
    stage,      \* where each instance stands
    missing,    \* the tables its create_all found missing
    outcome,    \* "success" if it logged db.init.success, else the error it
                \*   logged with db.init.failed
    dbFailed    \* history: a statement failed for a reason of its own

startupVars == <<tables, hasColumn, stage, missing, outcome, dbFailed>>

StartupTypeOK ==
    /\ tables \subseteq Tables
    /\ hasColumn \in BOOLEAN
    /\ hasColumn => SessionsTable \in tables
    /\ stage \in [Instances -> {"boot", "create", "check", "alter", "serving"}]
    /\ missing \in [Instances -> SUBSET Tables]
    /\ outcome \in [Instances -> {"none", "success", "failed", "duplicate_table",
                                 "duplicate_column"}]
    /\ dbFailed \in BOOLEAN

\* A fresh database, or one left by any earlier version of the service.
StartupInit ==
    /\ tables \in SUBSET Tables
    /\ hasColumn \in BOOLEAN
    /\ hasColumn => SessionsTable \in tables
    /\ stage = [i \in Instances |-> "boot"]
    /\ missing = [i \in Instances |-> {}]
    /\ outcome = [i \in Instances |-> "none"]
    /\ dbFailed = FALSE

MoveTo(i, from, to) == stage[i] = from /\ stage' = [stage EXCEPT ![i] = to]

Serve(i, from, how) ==
    /\ MoveTo(i, from, "serving")
    /\ outcome' = [outcome EXCEPT ![i] = how]

-----------------------------------------------------------------------------
\* Mutant: with all tables there, the instance takes the schema for current.
InspectMutantSkips(i) ==
    /\ IF tables = Tables
       THEN Serve(i, "boot", "success")
       ELSE MoveTo(i, "boot", "create") /\ UNCHANGED outcome
    /\ missing' = [missing EXCEPT ![i] = Tables \ tables]
    /\ UNCHANGED <<tables, hasColumn, dbFailed>>

Inspect(i) ==
    /\ MoveTo(i, "boot", "create")
    /\ missing' = [missing EXCEPT ![i] = Tables \ tables]
    /\ UNCHANGED <<tables, hasColumn, outcome, dbFailed>>

\* CREATE TABLE of each; a table another instance made meanwhile is an error.
\* A new sessions table has the column.
CreateAll(i) ==
    /\ IF missing[i] \cap tables = {}
       THEN /\ MoveTo(i, "create", "check")
            /\ tables' = tables \cup missing[i]
            /\ hasColumn' = (hasColumn \/ SessionsTable \in missing[i])
            /\ UNCHANGED outcome
       ELSE Serve(i, "create", "duplicate_table") /\ UNCHANGED <<tables, hasColumn>>
    /\ UNCHANGED <<missing, dbFailed>>

\* Mutant: only an instance that created a table migrates the columns.
CheckColumnMutantOwn(i) ==
    /\ IF hasColumn \/ missing[i] = {}
       THEN Serve(i, "check", "success")
       ELSE MoveTo(i, "check", "alter") /\ UNCHANGED outcome
    /\ UNCHANGED <<tables, hasColumn, missing, dbFailed>>

\* _column_exists
CheckColumn(i) ==
    /\ IF hasColumn
       THEN Serve(i, "check", "success")
       ELSE MoveTo(i, "check", "alter") /\ UNCHANGED outcome
    /\ UNCHANGED <<tables, hasColumn, missing, dbFailed>>

\* ALTER TABLE waits for the lock of another one, and fails if that one
\* added the column.
AddColumn(i) ==
    /\ Serve(i, "alter", IF hasColumn THEN "duplicate_column" ELSE "success")
    /\ hasColumn' = TRUE
    /\ UNCHANGED <<tables, missing, dbFailed>>

\* The connection or the database is down; a COMMIT may have got through.
StartupFails(i) ==
    /\ \E from \in {"boot", "create", "check", "alter"} : Serve(i, from, "failed")
    /\ dbFailed' = TRUE
    /\ UNCHANGED missing
    /\ \/ UNCHANGED <<tables, hasColumn>>
       \/ /\ stage[i] = "create" /\ missing[i] \cap tables = {}
          /\ tables' = tables \cup missing[i]
          /\ hasColumn' = (hasColumn \/ SessionsTable \in missing[i])
       \/ /\ stage[i] = "alter" /\ hasColumn' = TRUE
          /\ UNCHANGED tables

\* The instance is gone and a new one takes its place.
Restart(i) ==
    /\ stage[i] # "boot"
    /\ stage' = [stage EXCEPT ![i] = "boot"]
    /\ outcome' = [outcome EXCEPT ![i] = "none"]
    /\ missing' = [missing EXCEPT ![i] = {}]
    /\ UNCHANGED <<tables, hasColumn, dbFailed>>

StartupNext == \E i \in Instances :
    \/ Inspect(i) \/ CreateAll(i) \/ CheckColumn(i) \/ AddColumn(i)
    \/ StartupFails(i) \/ Restart(i)

StartupSpec == StartupInit /\ [][StartupNext]_startupVars

-----------------------------------------------------------------------------
\* Properties

SchemaComplete == tables = Tables /\ hasColumn

\* An instance that logged db.init.success serves with the complete schema.
SuccessMeansSchema ==
    \A i \in Instances : outcome[i] = "success" => SchemaComplete

\* Races between instances never leave the schema behind: when every instance
\* serves, even if some logged db.init.failed because another was faster, the
\* schema is complete, unless the database itself failed.
RacesConverge ==
    (\A i \in Instances : stage[i] = "serving") /\ ~ dbFailed => SchemaComplete
=============================================================================
