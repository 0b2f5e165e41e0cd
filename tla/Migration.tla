------------------------------ MODULE Migration ------------------------------
(***************************************************************************)
(* OpenStore and migrate (internal/shortener/store.go): a starting process *)
(* reads the version of the database file and runs the statements that     *)
(* bring its schema to SchemaVersion.  Each statement is a transaction of  *)
(* its own, so a crash, a cancelled start-up context or a failed statement *)
(* can leave the file between any two of them, and the next start meets    *)
(* it there.  Nothing in the code keeps a second process off the file.     *)
(* The index on (user_id, id) is left out: it changes no answer.           *)
(***************************************************************************)
EXTENDS Naturals

CONSTANT Processes

SchemaVersion == 2
NewerVersion  == SchemaVersion + 1   \* a file written by a later program

VARIABLES
    version,  \* PRAGMA user_version of the file
    table,    \* the links table: absent, untitled (v1), titled (v2)
    pc        \* down, at the next statement of OpenStore, or serving

file == <<version, table>>
vars == <<version, table, pc>>

Pc == {"down", "opening", "createTable", "createIndex", "addTitle",
       "setVersion", "serving"}

TypeOK ==
    /\ version \in 0 .. NewerVersion
    /\ table \in {"absent", "untitled", "titled"}
    /\ pc \in [Processes -> Pc]

\* A file that does not exist yet, one of each released version, and one of a
\* later program.
Init ==
    /\ \/ version = 0 /\ table = "absent"
       \/ version = 1 /\ table = "untitled"
       \/ version \in {SchemaVersion, NewerVersion} /\ table = "titled"
    /\ pc = [p \in Processes |-> "down"]

Advance(p, from, to) == pc[p] = from /\ pc' = [pc EXCEPT ![p] = to]

\* main: MkdirAll, sql.Open, Ping.
Open(p) == Advance(p, "down", "opening") /\ UNCHANGED file

ReadVersion(p) ==
    /\ \/ version > SchemaVersion /\ Advance(p, "opening", "down")
       \/ version = SchemaVersion /\ Advance(p, "opening", "serving")
       \/ version = 0 /\ Advance(p, "opening", "createTable")
       \/ version = 1 /\ Advance(p, "opening", "addTitle")
    /\ UNCHANGED file

\* Mutated form: without IF NOT EXISTS.
CreateTableOnce(p) ==
    /\ Advance(p, "createTable", "createIndex")
    /\ table = "absent"
    /\ table' = "titled"
    /\ UNCHANGED version

\* CREATE TABLE IF NOT EXISTS links
CreateTable(p) ==
    /\ Advance(p, "createTable", "createIndex")
    /\ table' = IF table = "absent" THEN "titled" ELSE table
    /\ UNCHANGED version

\* CREATE INDEX IF NOT EXISTS idx_links_user_id_id
CreateIndex(p) ==
    /\ Advance(p, "createIndex", "setVersion")
    /\ table # "absent"
    /\ UNCHANGED file

\* Mutated form: the version is written before the column is added.
AddTitleLast(p) ==
    /\ pc[p] = "addTitle"
    /\ version' = SchemaVersion
    /\ pc' = [pc EXCEPT ![p] = "setVersion"]
    /\ UNCHANGED table

\* ALTER TABLE links ADD COLUMN title; an error if the column exists.
AddTitle(p) ==
    /\ Advance(p, "addTitle", "setVersion")
    /\ table = "untitled"
    /\ table' = "titled"
    /\ UNCHANGED version

\* ALTER TABLE finds the column: a duplicate column is an error of migrate.
DuplicateColumn(p) ==
    /\ Advance(p, "addTitle", "down")
    /\ table = "titled"
    /\ UNCHANGED file

\* Mutated form: the version is counted up, not set.
AddVersion(p) ==
    /\ Advance(p, "setVersion", "serving")
    /\ version' = version + SchemaVersion
    /\ UNCHANGED table

\* PRAGMA user_version = 2, after which OpenStore returns.
SetVersion(p) ==
    /\ Advance(p, "setVersion", "serving")
    /\ version' = SchemaVersion
    /\ UNCHANGED table

\* A statement fails and OpenStore returns its error, or the process stops.
Stop(p) ==
    /\ pc[p] # "down"
    /\ pc' = [pc EXCEPT ![p] = "down"]
    /\ UNCHANGED file

Next ==
    \E p \in Processes :
        \/ Open(p) \/ ReadVersion(p)
        \/ CreateTable(p) \/ CreateIndex(p)
        \/ AddTitle(p) \/ DuplicateColumn(p)
        \/ SetVersion(p)
        \/ Stop(p)

Spec == Init /\ [][Next]_vars

\* A process that ended is started again (restart: unless-stopped), and no
\* statement fails for ever: of infinitely many tries at it one succeeds.
Fairness ==
    \A p \in Processes :
        /\ WF_vars(Open(p))
        /\ SF_vars(ReadVersion(p))
        /\ SF_vars(CreateTable(p))
        /\ SF_vars(CreateIndex(p))
        /\ SF_vars(AddTitle(p))
        /\ WF_vars(DuplicateColumn(p))
        /\ SF_vars(SetVersion(p))

FairSpec == Spec /\ Fairness

-----------------------------------------------------------------------------

Serving == \E p \in Processes : pc[p] = "serving"

\* A process serves only on a complete schema of exactly its own version: not
\* on a half-migrated file, whatever stopped earlier starts and however two
\* starts interleave, and not on a file of a later program.
ServingOnCurrentSchema ==
    Serving => version = SchemaVersion /\ table = "titled"

\* A new database is always completed: wherever an earlier start was stopped,
\* a later one gets to serve.
NewDatabaseServes == version = 0 ~> Serving

\* store.go says that migrate brings the schema to schemaVersion, a file of
\* version 1 by adding the column: a version 1 file gets to serve too.
Version1Serves == version = 1 ~> Serving

\* Why ServingOnCurrentSchema holds: the version is the last thing written, and
\* what a start has executed, or found, is on the file.
SchemaInv ==
    /\ version = 0 => table # "untitled"
    /\ version # 0 => table # "absent"
    /\ version >= SchemaVersion => table = "titled"
    /\ \A p \in Processes :
          /\ pc[p] = "createTable" => table # "untitled"
          /\ pc[p] \in {"createIndex", "setVersion", "serving"} => table = "titled"
          /\ pc[p] = "serving" => version = SchemaVersion
          /\ pc[p] \in {"createTable", "createIndex", "addTitle", "setVersion"} =>
                version <= SchemaVersion
          /\ pc[p] = "addTitle" => table # "absent"

=============================================================================
