--------------------------- MODULE MigrationProofs ---------------------------
(***************************************************************************)
(* The safety of OpenStore for any number of processes that start, stop    *)
(* and crash at any point of the migration.                                *)
(***************************************************************************)
EXTENDS Migration, TLAPS

Inv == TypeOK /\ SchemaInv

LEMMA InitInv == Init => Inv
BY DEF Init, Inv, TypeOK, SchemaInv, Pc, SchemaVersion, NewerVersion

LEMMA NextInv == Inv /\ [Next]_vars => Inv'
<1> SUFFICES ASSUME Inv, [Next]_vars PROVE Inv'
  OBVIOUS
<1> USE DEF Inv, TypeOK, SchemaInv, Pc, SchemaVersion, NewerVersion, Advance, file
<1>1. ASSUME NEW p \in Processes, Open(p) PROVE Inv'
  BY <1>1 DEF Open
<1>2. ASSUME NEW p \in Processes, ReadVersion(p) PROVE Inv'
  BY <1>2 DEF ReadVersion
<1>3. ASSUME NEW p \in Processes, CreateTable(p) PROVE Inv'
  BY <1>3 DEF CreateTable
<1>4. ASSUME NEW p \in Processes, CreateIndex(p) PROVE Inv'
  BY <1>4 DEF CreateIndex
<1>5. ASSUME NEW p \in Processes, AddTitle(p) PROVE Inv'
  BY <1>5 DEF AddTitle
<1>6. ASSUME NEW p \in Processes, DuplicateColumn(p) \/ Stop(p) PROVE Inv'
  BY <1>6 DEF DuplicateColumn, Stop
<1>7. ASSUME NEW p \in Processes, SetVersion(p) PROVE Inv'
  BY <1>7 DEF SetVersion
<1>8. CASE UNCHANGED vars
  BY <1>8 DEF vars
<1> QED
  BY <1>1, <1>2, <1>3, <1>4, <1>5, <1>6, <1>7, <1>8 DEF Next

\* The version only takes the values migrate knows, and the steps of a start
\* are the ones OpenStore has.
THEOREM MigrationTypeCorrect == Spec => []TypeOK
BY InitInv, NextInv, PTL DEF Spec, Inv

\* No process serves on a half-migrated file, or on one of a later program.
THEOREM MigrationSafe == Spec => []ServingOnCurrentSchema
<1>1. Inv => ServingOnCurrentSchema
  BY DEF Inv, SchemaInv, ServingOnCurrentSchema, Serving
<1> QED
  BY <1>1, InitInv, NextInv, PTL DEF Spec

-----------------------------------------------------------------------------
(* The file between ALTER TABLE and PRAGMA user_version: what the run      *)
(* migration_interrupted shows of one process, for any number.             *)

\* The column is there, the version says it is not, and whoever added it is gone.
Trapped ==
    /\ version = 1 /\ table = "titled"
    /\ \A p \in Processes : pc[p] \in {"down", "opening", "addTitle"}

\* On a file of version 1 a start adds the column, and only the one that has added it
\* goes on to write the version.
UpgradeInv ==
    version = 1 =>
        /\ \A p \in Processes : pc[p] \in {"down", "opening", "addTitle", "setVersion"}
        /\ \A p \in Processes : pc[p] = "setVersion" => table = "titled"
        /\ \A p, q \in Processes : pc[p] = "setVersion" /\ pc[q] = "setVersion" => p = q

LEMMA NextUpgradeInv == TypeOK /\ UpgradeInv /\ [Next]_vars => UpgradeInv'
<1> SUFFICES ASSUME TypeOK, UpgradeInv, [Next]_vars PROVE UpgradeInv'
  OBVIOUS
<1> USE DEF TypeOK, UpgradeInv, SchemaVersion, Advance, file
<1>1. ASSUME NEW p \in Processes, Open(p) \/ ReadVersion(p) PROVE UpgradeInv'
  BY <1>1 DEF Open, ReadVersion
<1>2. ASSUME NEW p \in Processes, CreateTable(p) \/ CreateIndex(p) PROVE UpgradeInv'
  BY <1>2 DEF CreateTable, CreateIndex
<1>3. ASSUME NEW p \in Processes, AddTitle(p) PROVE UpgradeInv'
  BY <1>3 DEF AddTitle
<1>4. ASSUME NEW p \in Processes, DuplicateColumn(p) \/ Stop(p) PROVE UpgradeInv'
  BY <1>4 DEF DuplicateColumn, Stop
<1>5. ASSUME NEW p \in Processes, SetVersion(p) PROVE UpgradeInv'
  BY <1>5 DEF SetVersion
<1>6. CASE UNCHANGED vars
  BY <1>6 DEF vars
<1> QED
  BY <1>1, <1>2, <1>3, <1>4, <1>5, <1>6 DEF Next

LEMMA UpgradeInvariance == Spec => [](TypeOK /\ UpgradeInv)
<1>1. Init => UpgradeInv
  BY DEF Init, UpgradeInv
<1> QED
  BY <1>1, NextUpgradeInv, MigrationTypeCorrect, PTL DEF Spec

\* A start that ends between its two statements, in whatever company, leaves the trap.
InterruptionTraps ==
    version = 1 => \A p \in Processes : pc[p] = "setVersion" /\ Stop(p) => Trapped'

\* migrate runs the two statements outside a transaction: whenever the process that has
\* added the column ends before it has written the version, the file is trapped.
THEOREM InterruptedIsTrapped == Spec => [][InterruptionTraps]_vars
<1>1. TypeOK /\ UpgradeInv /\ [Next]_vars => [InterruptionTraps]_vars
  <2> SUFFICES ASSUME TypeOK, UpgradeInv, version = 1,
                      NEW p \in Processes, pc[p] = "setVersion", Stop(p)
               PROVE  Trapped'
    BY DEF InterruptionTraps
  <2> QED
    BY DEF TypeOK, UpgradeInv, Stop, Trapped, file
<1> QED
  BY <1>1, UpgradeInvariance, PTL DEF Spec

\* And a trapped file is never served again, however often, and by however many
\* processes, a start is tried: DuplicateColumn is all that is left.
THEOREM TrappedForEver == Spec => [](Trapped => []~Serving)
<1>1. TypeOK /\ Trapped /\ [Next]_vars => Trapped'
  <2> SUFFICES ASSUME TypeOK, Trapped, [Next]_vars PROVE Trapped'
    OBVIOUS
  <2> USE DEF TypeOK, Trapped, SchemaVersion, Advance, file
  <2>1. ASSUME NEW p \in Processes, Open(p) \/ ReadVersion(p) PROVE Trapped'
    BY <2>1 DEF Open, ReadVersion
  <2>2. ASSUME NEW p \in Processes, CreateTable(p) \/ CreateIndex(p) PROVE Trapped'
    BY <2>2 DEF CreateTable, CreateIndex
  <2>3. ASSUME NEW p \in Processes, AddTitle(p) \/ SetVersion(p) PROVE Trapped'
    BY <2>3 DEF AddTitle, SetVersion
  <2>4. ASSUME NEW p \in Processes, DuplicateColumn(p) \/ Stop(p) PROVE Trapped'
    BY <2>4 DEF DuplicateColumn, Stop
  <2>5. CASE UNCHANGED vars
    BY <2>5 DEF vars
  <2> QED
    BY <2>1, <2>2, <2>3, <2>4, <2>5 DEF Next
<1>2. Trapped => ~Serving
  BY DEF Trapped, Serving
<1> QED
  BY <1>1, <1>2, MigrationTypeCorrect, PTL DEF Spec

\* On a file of no version, or of the one that a start wrote on such a file, every
\* statement that a start comes to succeeds.
StatementsSucceed ==
    /\ version \in {0, SchemaVersion}
    /\ \A p \in Processes :
        /\ pc[p] # "addTitle"
        /\ pc[p] = "createIndex" => table # "absent"

LEMMA NewFileStep ==
    Inv /\ StatementsSucceed /\ Inv' /\ [Next]_vars => StatementsSucceed'
<1> SUFFICES ASSUME Inv, StatementsSucceed, Inv', [Next]_vars PROVE StatementsSucceed'
  OBVIOUS
<1>1. \A p \in Processes : pc'[p] = "createIndex" => table' # "absent"
  BY DEF Inv, SchemaInv
<1> USE DEF StatementsSucceed, SchemaVersion, Advance, file
<1>2. pc \in [Processes -> Pc]
  BY DEF Inv, TypeOK
<1>3. ASSUME NEW p \in Processes, Open(p) \/ ReadVersion(p) PROVE StatementsSucceed'
  BY <1>1, <1>2, <1>3 DEF Open, ReadVersion
<1>4. ASSUME NEW p \in Processes, CreateTable(p) \/ CreateIndex(p) PROVE StatementsSucceed'
  BY <1>1, <1>2, <1>4 DEF CreateTable, CreateIndex
<1>5. ASSUME NEW p \in Processes, AddTitle(p) \/ DuplicateColumn(p) PROVE FALSE
  BY <1>5 DEF AddTitle, DuplicateColumn
<1>6. ASSUME NEW p \in Processes, SetVersion(p) \/ Stop(p) PROVE StatementsSucceed'
  BY <1>1, <1>2, <1>6 DEF SetVersion, Stop
<1>7. CASE UNCHANGED vars
  BY <1>7 DEF vars
<1> QED
  BY <1>3, <1>4, <1>5, <1>6, <1>7 DEF Next

\* A file that migrate creates is never in the trap: wherever starts on it are stopped and
\* however they overlap, no statement of a later one fails for what they have left.  And
\* once a schema is complete it stays so.
THEOREM NewFileSafe ==
    Spec => /\ [](version = 0 => [](StatementsSucceed /\ ~Trapped))
            /\ [](version = SchemaVersion => [](version = SchemaVersion /\ table = "titled"))
<1> DEFINE NoUpgrade == version = 0 => \A p \in Processes : pc[p] # "addTitle"
<1>1. Init => NoUpgrade
  BY DEF Init
<1>2. Inv /\ NoUpgrade /\ [Next]_vars => NoUpgrade'
  BY DEF Inv, TypeOK, Next, Open, ReadVersion, CreateTable, CreateIndex, AddTitle,
         DuplicateColumn, SetVersion, Stop, Advance, file, vars, SchemaVersion
<1>3. Inv /\ NoUpgrade /\ version = 0 => StatementsSucceed
  BY DEF Inv, SchemaInv, StatementsSucceed
<1>4. StatementsSucceed => ~Trapped
  BY DEF StatementsSucceed, Trapped, SchemaVersion
<1>5. version = SchemaVersion /\ [Next]_vars => (version = SchemaVersion)'
  BY DEF Next, Open, ReadVersion, CreateTable, CreateIndex, AddTitle, DuplicateColumn,
         SetVersion, Stop, file, vars
<1>6. Inv /\ version = SchemaVersion => table = "titled"
  BY DEF Inv, SchemaInv, SchemaVersion
<1> HIDE DEF NoUpgrade
<1> QED
  BY <1>1, <1>2, <1>3, <1>4, <1>5, <1>6, NewFileStep, InitInv, NextInv, PTL DEF Spec

=============================================================================
