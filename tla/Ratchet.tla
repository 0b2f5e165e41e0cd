------------------------------- MODULE Ratchet -------------------------------
(***************************************************************************)
(* The commands of the duplication ratchet (tools/slopo_harness/           *)
(* ratchet.py) that share the files of .slopo/local and the registry:      *)
(* snapshot and gate scan the sources with the native slopo tool, propose  *)
(* turns the manifest of a scan into a proposal, a person classifies it,   *)
(* and update makes it the registry.  Commands exclude each other with a   *)
(* file lock that nobody waits for.  The sources, the pinned files and the *)
(* proposal can be edited at any time, steps fail, and processes are       *)
(* killed.                                                                 *)
(*                                                                         *)
(* A cluster is its tier and its member set.  That a comparison is clean   *)
(* exactly when the cluster sets are equal, and that a proposal keeps the  *)
(* classification of exactly the groups the registry has unchanged, is     *)
(* what ClusterCompare shows.                                              *)
(***************************************************************************)
EXTENDS Integers, FiniteSets

CONSTANTS
    Procs,       \* processes that run a command
    Contracts,   \* what the pinned files say: a profile and a slopo revision
    Committed,   \* the contract whose files are committed
    Clusters,    \* all clusters
    ClustersOf,  \* what a scan under a contract finds in some sources
    Classes,     \* the classifications a person can give
    Baseline,    \* the review of the registry of the first sources
    MaxEdits,    \* bound: edits of the sources
    MaxPins,     \* bound: edits of the pinned files
    MaxRuns,     \* bound: commands started
    NoProc,      \* the lock is free
    NoFile,      \* a file that does not exist, a value that was not read
    Unclassified

Sources == 0 .. MaxEdits

KindOf(c) == IF c.tier = "exact" THEN "exact" ELSE "semantic"

\* _candidate_key: clusters of one kind and member set are reviewed as one.
CandidateOf(c) == [kind |-> KindOf(c), members |-> c.members]
Candidates(clusters) == {CandidateOf(c) : c \in clusters}

\* _validate_cross_profile_review_consistency: main and loose clusters of one member set
\* have one decision, or the registry is refused.
SameDecision(review) ==
    \A c, d \in DOMAIN review : CandidateOf(c) = CandidateOf(d) => review[c] = review[d]

\* The stages of a scan that run slopo.
Native == {"show", "index", "embed", "main", "loose"}

\* What a manifest says, and what a native command that runs has been started with.
Identities == [src : Sources, edited : BOOLEAN]
Document == [profile : Contracts, id : Identities, clusters : SUBSET Clusters]
Command == [command : Native, contract : Contracts, src : Sources]

ASSUME RatchetAssumption ==
    /\ MaxEdits \in Nat /\ MaxPins \in Nat /\ MaxRuns \in Nat
    /\ Committed \in Contracts
    /\ \A c \in Clusters : c.tier \in {"exact", "main", "loose"}
    /\ ClustersOf \in [Contracts -> [Sources -> SUBSET Clusters]]
    /\ Baseline \in [ClustersOf[Committed][0] -> Classes] /\ SameDecision(Baseline)
    /\ NoProc \notin Procs /\ NoFile \notin Contracts
    /\ NoFile \notin Command /\ NoFile \notin Document
    /\ Unclassified \notin Classes

VARIABLES
    src,       \* revision and content of the sources: every edit is a new one
    pins,      \* the contract in the pinned files
    pinEdits,
    runs,
    lock,      \* the process that holds <profile>.lock, or NoProc
    job,       \* what each process does
    child,     \* the native command each process waits for, or NoFile
    orphans,   \* native commands that outlived their process
    db,        \* the slopo database
    marker,    \* <db>.cache.json: the contract the database is said to have
    report,    \* the main and the loose report
    manifest,
    evidence,
    proposal,
    registry,
    decided,   \* history: the classifications that a person has given
    disturbed  \* history: pins moved during a scan, or a scan lost its child

environment == <<src, pins, pinEdits>>
artifacts == <<db, marker, report, manifest, evidence>>
vars == <<environment, runs, lock, job, child, orphans, artifacts,
          proposal, registry, decided, disturbed>>

\* _source_identity.  The pinned files are versioned, so git status tells whether
\* they are edited, but not what they say.
Identity == [src |-> src, edited |-> pins # Committed]

ScanPc == {"preflight", "before", "cache", "marker", "reparse", "verify", "resetMain",
           "resetLoose", "collect", "source", "mark", "report"} \cup Native
Pc == {"idle", "registry", "propose", "load", "identity", "pins", "install"} \cup ScanPc

\* pc; the command; the contract of the preflight; the identity before the scan; the
\* documents that were read.
IdleJob == [pc |-> "idle", cmd |-> NoFile, contract |-> NoFile, before |-> NoFile,
            accepted |-> NoFile, manifest |-> NoFile, proposal |-> NoFile]

Reviews(classes) == UNION {[clusters -> classes] : clusters \in SUBSET Clusters}

Init ==
    /\ src = 0 /\ pins = Committed /\ pinEdits = 0 /\ runs = 0
    /\ lock = NoProc
    /\ job = [p \in Procs |-> IdleJob]
    /\ child = [p \in Procs |-> NoFile]
    /\ orphans = {}
    /\ db = NoFile /\ marker = NoFile
    /\ report = [main |-> NoFile, loose |-> NoFile]
    /\ manifest = NoFile /\ evidence = NoFile /\ proposal = NoFile
    /\ \/ registry = NoFile /\ decided = {}
       \/ /\ registry = [profile |-> Committed, id |-> Identity, review |-> Baseline]
          /\ decided = {[profile |-> Committed, candidate |-> CandidateOf(c), class |-> Baseline[c]]
                          : c \in DOMAIN Baseline}
    /\ disturbed = FALSE

-----------------------------------------------------------------------------
(* main and _exclusive_local_lock.                                         *)

Scanning(p) == job[p].pc \in ScanPc

\* Mutated form: nothing keeps two commands apart.
StartAnyway(p) == job[p].pc = "idle"

\* flock with LOCK_NB: a command that finds the lock taken ends with ratchet_busy and
\* leaves nothing behind, so it is not modelled.
CanStart(p) == job[p].pc = "idle" /\ lock = NoProc

Start(p) ==
    /\ CanStart(p)
    /\ runs < MaxRuns
    /\ \E first \in {<<"snapshot", "preflight">>, <<"gate", "registry">>,
                     <<"propose", "propose">>, <<"update", "load">>} :
        job' = [job EXCEPT ![p].cmd = first[1], ![p].pc = first[2]]
    /\ lock' = p
    /\ runs' = runs + 1
    /\ UNCHANGED <<environment, child, orphans, artifacts, proposal, registry, decided, disturbed>>

Goto(p, pc) == job' = [job EXCEPT ![p].pc = pc]

\* Mutated form: the native command is still waited for.
EndLeavingChild(p) ==
    /\ job' = [job EXCEPT ![p] = IdleJob]
    /\ lock' = NoProc
    /\ UNCHANGED child

\* The handler returns, and the lock is released.
End(p) ==
    /\ job' = [job EXCEPT ![p] = IdleJob]
    /\ child' = [child EXCEPT ![p] = NoFile]
    /\ lock' = NoProc

\* What stays during a step of a command that neither starts nor ends one.
Rest == <<environment, runs, lock, orphans, decided, disturbed>>

Evidence(verdict) ==
    [verdict |-> verdict, src |-> 0, profile |-> NoFile, accepted |-> {}]

\* _contract_error_result: any step of a handler can raise.  Only the commands that
\* scan have evidence, which then says so.
Fail(p) ==
    /\ job[p].pc \notin {"idle"} \cup Native
    /\ evidence' = IF job[p].cmd \in {"snapshot", "gate"} THEN Evidence("error") ELSE evidence
    /\ End(p)
    /\ UNCHANGED <<environment, runs, orphans, db, marker, report, manifest,
                   proposal, registry, decided, disturbed>>

-----------------------------------------------------------------------------
(* The native commands: slopo itself, known by what the scan does with it. *)

\* The configuration is read when the command starts.
Spawn(p, command) ==
    /\ child' = [child EXCEPT ![p] = [command |-> command, contract |-> pins, src |-> src]]
    /\ Goto(p, command)

\* The clusters of a tier that an analysis of the database finds.
Found(tier) ==
    {c \in UNION {ClustersOf[k][db.src] : k \in db.by} : c.tier = tier}

IndexedBy(k) == IF db = NoFile THEN {k} ELSE db.by \cup {k}

\* What a native command leaves when it ends: an index has read the sources at some
\* time since its start.
Writes(c) ==
    \/ /\ c.command \in {"show", "embed"}
       /\ UNCHANGED <<db, report>>
    \/ /\ c.command = "index"
       /\ \E s \in c.src .. src : db' = [src |-> s, fresh |-> TRUE, by |-> IndexedBy(c.contract)]
       /\ UNCHANGED report
    \/ /\ c.command \in {"main", "loose"}
       /\ db # NoFile
       /\ report' = [report EXCEPT ![c.command] = Found(c.command)]
       /\ UNCHANGED db

\* What an index that is cut short can leave.
CutShort(c) ==
    \/ UNCHANGED db
    \/ /\ c.command = "index"
       /\ db' = [src |-> c.src, fresh |-> FALSE, by |-> IndexedBy(c.contract)]

NextPc(command) ==
    CASE command = "show" -> "cache"
      [] command = "index" -> "verify"
      [] command = "embed" -> "resetMain"
      [] command = "main" -> "resetLoose"
      [] command = "loose" -> "collect"

NativeEnds(p) ==
    /\ child[p] # NoFile
    /\ Writes(child[p])
    /\ child' = [child EXCEPT ![p] = NoFile]
    /\ Goto(p, NextPc(child[p].command))
    /\ UNCHANGED <<Rest, marker, manifest, evidence, proposal, registry>>

\* What becomes of a native command that the scan does not wait for any longer: it is
\* stopped, or a process of its group goes on.
Abandon(p) ==
    \/ /\ CutShort(child[p])
       /\ UNCHANGED <<orphans, disturbed>>
    \/ /\ orphans' = orphans \cup {child[p]}
       /\ disturbed' = TRUE
       /\ UNCHANGED db

\* _run_native_slopo: the command failed, said too much, or reached its deadline.
\* BoundedProcess shows that it has ended, but a child that ignores SIGTERM need not.
NativeFails(p) ==
    /\ child[p] # NoFile
    /\ Abandon(p)
    /\ evidence' = Evidence("error")
    /\ End(p)
    /\ UNCHANGED <<environment, runs, marker, report, manifest, proposal, registry, decided>>

\* Anything but a ContractError, an interrupt or a kill: no evidence is written.  A
\* native command is in a session of its own, and outlives a kill.
Die(p) ==
    /\ job[p].pc # "idle"
    /\ IF child[p] = NoFile THEN UNCHANGED <<db, orphans, disturbed>> ELSE Abandon(p)
    /\ End(p)
    /\ UNCHANGED <<environment, runs, marker, report, manifest, evidence,
                   proposal, registry, decided>>

\* Nobody waits for an orphan, and nobody stops it.
OrphanEnds ==
    \E c \in orphans :
        /\ orphans' = orphans \ {c}
        /\ Writes(c) \/ (CutShort(c) /\ UNCHANGED report)
        /\ UNCHANGED <<environment, runs, lock, job, child, marker, manifest, evidence,
                       proposal, registry, decided, disturbed>>

-----------------------------------------------------------------------------
(* _scan_current.                                                          *)

Preflight(p) ==
    /\ job[p].pc = "preflight"
    /\ job' = [job EXCEPT ![p].contract = pins, ![p].pc = "before"]
    /\ UNCHANGED <<Rest, child, artifacts, proposal, registry>>

\* _source_metadata, and both show-config commands.
SourceBefore(p) ==
    /\ job[p].pc = "before"
    /\ job' = [job EXCEPT ![p].before = Identity, ![p].pc = "show"]
    /\ child' = [child EXCEPT ![p] = [command |-> "show", contract |-> pins, src |-> src]]
    /\ UNCHANGED <<Rest, artifacts, proposal, registry>>

\* _prepare_index_cache: a database of another contract goes, then its marker.
KeepCache(p) ==
    /\ job[p].pc = "cache"
    /\ marker = job[p].contract /\ db # NoFile
    /\ Goto(p, "reparse")
    /\ UNCHANGED <<Rest, child, artifacts, proposal, registry>>

DropDatabase(p) ==
    /\ job[p].pc = "cache"
    /\ marker # job[p].contract \/ db = NoFile
    /\ db' = NoFile
    /\ Goto(p, "marker")
    /\ UNCHANGED <<Rest, child, marker, report, manifest, evidence, proposal, registry>>

\* Mutated form: the marker stays.
KeepMarker(p) ==
    /\ job[p].pc = "marker"
    /\ Goto(p, "reparse")
    /\ UNCHANGED <<Rest, child, artifacts, proposal, registry>>

DropMarker(p) ==
    /\ job[p].pc = "marker"
    /\ marker' = NoFile
    /\ Goto(p, "reparse")
    /\ UNCHANGED <<Rest, child, db, report, manifest, evidence, proposal, registry>>

\* _force_full_reparse.
Reparse(p) ==
    /\ job[p].pc = "reparse"
    /\ db' = IF db = NoFile THEN NoFile ELSE [db EXCEPT !.fresh = FALSE]
    /\ Spawn(p, "index")
    /\ UNCHANGED <<Rest, marker, report, manifest, evidence, proposal, registry>>

\* _verify_index_completeness: every file is indexed with the mtime it has now.
Verify(p) ==
    /\ job[p].pc = "verify"
    /\ db # NoFile
    /\ db.fresh /\ db.src = src
    /\ Spawn(p, "embed")
    /\ UNCHANGED <<Rest, artifacts, proposal, registry>>

\* _reset_report_directory.
Analyze(p, tier, pc) ==
    /\ job[p].pc = pc
    /\ report' = [report EXCEPT ![tier] = NoFile]
    /\ Spawn(p, tier)
    /\ UNCHANGED <<Rest, db, marker, manifest, evidence, proposal, registry>>

\* _run_collect_manifest: the clusters of the database and the reports, under the
\* identity that the sources have by now.
Collect(p) ==
    /\ job[p].pc = "collect"
    /\ db # NoFile /\ report.main # NoFile /\ report.loose # NoFile
    /\ manifest' = [profile |-> job[p].contract, id |-> Identity,
                    clusters |-> Found("exact") \cup report.main \cup report.loose]
    /\ Goto(p, "source")
    /\ UNCHANGED <<Rest, child, db, marker, report, evidence, proposal, registry>>

\* Mutated form: the sources may have changed.
AnySource(p) ==
    /\ job[p].pc = "source"
    /\ Goto(p, "mark")
    /\ UNCHANGED <<Rest, child, artifacts, proposal, registry>>

\* Otherwise source_changed_during_scan.
SourceAfter(p) ==
    /\ job[p].pc = "source"
    /\ manifest # NoFile
    /\ manifest.id = job[p].before
    /\ Goto(p, "mark")
    /\ UNCHANGED <<Rest, child, artifacts, proposal, registry>>

WriteMarker(p) ==
    /\ job[p].pc = "mark"
    /\ marker' = job[p].contract
    /\ Goto(p, "report")
    /\ UNCHANGED <<Rest, child, db, report, manifest, evidence, proposal, registry>>

-----------------------------------------------------------------------------
(* _run_snapshot and _run_gate.                                            *)

LoadRegistry(p) ==
    /\ job[p].pc = "registry"
    /\ registry # NoFile /\ SameDecision(registry.review)
    /\ registry.profile = pins
    /\ job' = [job EXCEPT ![p].accepted = registry, ![p].pc = "preflight"]
    /\ UNCHANGED <<Rest, child, artifacts, proposal, registry>>

ReportSnapshot(p) ==
    /\ job[p].pc = "report" /\ job[p].cmd = "snapshot"
    /\ evidence' = Evidence("snapshot")
    /\ End(p)
    /\ UNCHANGED <<environment, runs, orphans, db, marker, report, manifest,
                   proposal, registry, decided, disturbed>>

\* _compare: green for the clusters of the registry, in its profile.
ReportVerdict(p) ==
    LET accepted == job[p].accepted
    IN  /\ job[p].pc = "report" /\ job[p].cmd = "gate"
        /\ manifest # NoFile
        /\ evidence' =
            [verdict |-> IF /\ manifest.profile = accepted.profile
                            /\ manifest.clusters = DOMAIN accepted.review
                         THEN "green" ELSE "blocked",
             src |-> manifest.id.src,
             profile |-> manifest.profile,
             accepted |-> DOMAIN accepted.review]
        /\ End(p)
        /\ UNCHANGED <<environment, runs, orphans, db, marker, report, manifest,
                       proposal, registry, decided, disturbed>>

-----------------------------------------------------------------------------
(* propose-baseline, the person who reviews, and update-baseline.          *)

Group(k) == {c \in manifest.clusters : CandidateOf(c) = k}

\* Mutated form: a review of another profile is kept too.
KeptFromAnyProfile(k) ==
    /\ registry # NoFile
    /\ Group(k) \subseteq DOMAIN registry.review
    /\ Cardinality({registry.review[c] : c \in Group(k)}) = 1

\* _proposal_review_projection: the group is in the registry as it is, under the same
\* profile and with one decision.
Kept(k) ==
    /\ registry # NoFile
    /\ registry.profile = manifest.profile
    /\ Group(k) \subseteq DOMAIN registry.review
    /\ Cardinality({registry.review[c] : c \in Group(k)}) = 1

Decision(k) == CHOOSE class \in {registry.review[c] : c \in Group(k)} : TRUE

Propose(p) ==
    /\ job[p].pc = "propose"
    /\ manifest # NoFile
    /\ registry # NoFile => SameDecision(registry.review)
    /\ proposal' = [profile |-> manifest.profile, id |-> manifest.id,
                    clusters |-> manifest.clusters,
                    review |-> [k \in Candidates(manifest.clusters) |->
                                    IF Kept(k) THEN Decision(k) ELSE Unclassified]]
    /\ End(p)
    /\ UNCHANGED <<environment, runs, orphans, artifacts, registry, decided, disturbed>>

\* A person classifies a candidate in the file.
Review ==
    /\ proposal # NoFile
    /\ \E k \in DOMAIN proposal.review, class \in Classes :
        /\ proposal.review[k] = Unclassified
        /\ proposal' = [proposal EXCEPT !.review[k] = class]
        /\ decided' = decided \cup {[profile |-> proposal.profile, candidate |-> k, class |-> class]}
    /\ UNCHANGED <<environment, runs, lock, job, child, orphans, artifacts, registry, disturbed>>

\* _materialize_reviewed_proposal: every candidate is classified.
Load(p) ==
    /\ job[p].pc = "load"
    /\ manifest # NoFile /\ proposal # NoFile
    /\ \A k \in DOMAIN proposal.review : proposal.review[k] \in Classes
    /\ job' = [job EXCEPT ![p].manifest = manifest, ![p].proposal = proposal, ![p].pc = "identity"]
    /\ UNCHANGED <<Rest, child, artifacts, proposal, registry>>

CheckIdentity(p) ==
    /\ job[p].pc = "identity"
    /\ job[p].manifest.id = job[p].proposal.id
    /\ job[p].manifest.id = Identity
    /\ Goto(p, "pins")
    /\ UNCHANGED <<Rest, child, artifacts, proposal, registry>>

\* _pinned_update_scope_paths; --confirm-profile names the profile of the manifest.
CheckPins(p) ==
    /\ job[p].pc = "pins"
    /\ job[p].manifest.profile = pins
    /\ Goto(p, "install")
    /\ UNCHANGED <<Rest, child, artifacts, proposal, registry>>

\* The registry has a record for each cluster, with the decision on its candidate.
Install(p) ==
    LET manifest_ == job[p].manifest  proposal_ == job[p].proposal
    IN  /\ job[p].pc = "install"
        /\ manifest_.profile = proposal_.profile
        /\ manifest_.clusters = proposal_.clusters
        /\ registry' = [profile |-> proposal_.profile, id |-> proposal_.id,
                        review |-> [c \in proposal_.clusters |-> proposal_.review[CandidateOf(c)]]]
        /\ End(p)
        /\ UNCHANGED <<environment, runs, orphans, artifacts, proposal, decided, disturbed>>

-----------------------------------------------------------------------------
EditSources ==
    /\ src < MaxEdits
    /\ src' = src + 1
    /\ UNCHANGED <<pins, pinEdits, runs, lock, job, child, orphans, artifacts,
                   proposal, registry, decided, disturbed>>

EditPins ==
    /\ pinEdits < MaxPins
    /\ \E k \in Contracts \ {pins} : pins' = k
    /\ pinEdits' = pinEdits + 1
    /\ disturbed' = (disturbed \/ \E p \in Procs : Scanning(p))
    /\ UNCHANGED <<src, runs, lock, job, child, orphans, artifacts, proposal, registry, decided>>

ScanStep(p) ==
    \/ Preflight(p) \/ SourceBefore(p) \/ KeepCache(p) \/ DropDatabase(p) \/ DropMarker(p)
    \/ Reparse(p) \/ Verify(p)
    \/ Analyze(p, "main", "resetMain") \/ Analyze(p, "loose", "resetLoose")
    \/ Collect(p) \/ SourceAfter(p) \/ WriteMarker(p)

CommandStep(p) ==
    \/ ScanStep(p)
    \/ LoadRegistry(p) \/ ReportSnapshot(p) \/ ReportVerdict(p)
    \/ Propose(p)
    \/ Load(p) \/ CheckIdentity(p) \/ CheckPins(p) \/ Install(p)

Next ==
    \/ \E p \in Procs :
        Start(p) \/ CommandStep(p) \/ Fail(p) \/ Die(p) \/ NativeEnds(p) \/ NativeFails(p)
    \/ OrphanEnds \/ Review \/ EditSources \/ EditPins

Spec == Init /\ [][Next]_vars

-----------------------------------------------------------------------------
(* Properties.                                                             *)

Registry == [profile : Contracts, id : Identities, review : Reviews(Classes)]
Proposal ==
    [profile : Contracts, id : Identities, clusters : SUBSET Clusters,
     review : UNION {[ks -> Classes \cup {Unclassified}] : ks \in SUBSET Candidates(Clusters)}]
Database == [src : Sources, fresh : BOOLEAN, by : SUBSET Contracts]
Job ==
    [pc : Pc, cmd : {"snapshot", "gate", "propose", "update", NoFile},
     contract : Contracts \cup {NoFile}, before : Identities \cup {NoFile},
     accepted : Registry \cup {NoFile}, manifest : Document \cup {NoFile},
     proposal : Proposal \cup {NoFile}]
Report == (SUBSET Clusters) \cup {NoFile}

TypeOK ==
    /\ src \in Sources /\ pins \in Contracts
    /\ pinEdits \in 0 .. MaxPins /\ runs \in 0 .. MaxRuns
    /\ lock \in Procs \cup {NoProc}
    /\ job \in [Procs -> Job]
    /\ child \in [Procs -> Command \cup {NoFile}]
    /\ \A p \in Procs :
        /\ child[p] # NoFile <=> job[p].pc \in Native
        /\ child[p] # NoFile => child[p].command = job[p].pc
    /\ orphans \subseteq Command
    /\ db \in Database \cup {NoFile} /\ marker \in Contracts \cup {NoFile}
    /\ report \in [main : Report, loose : Report]
    /\ manifest \in Document \cup {NoFile} /\ proposal \in Proposal \cup {NoFile}
    /\ registry \in Registry \cup {NoFile}
    /\ disturbed \in BOOLEAN

\* The lock makes every command the only one: what a gate and an update have read is
\* still what the files say when they act on it.
InputsHold ==
    \A p \in Procs :
        /\ job[p].pc # "idle" => lock = p
        /\ job[p].accepted # NoFile => job[p].accepted = registry
        /\ job[p].manifest # NoFile => job[p].manifest = manifest

\* The cache marker never claims a contract for a database that another contract has
\* a part in, wherever a scan was stopped; but the pinned files must keep still while a
\* scan runs, and a native command must not outlive it.
MarkerHonest ==
    ~ disturbed /\ marker # NoFile /\ db # NoFile => db.by = {marker}

Verdict(verdict) == evidence # NoFile /\ evidence.verdict = verdict

\* A verdict is that of the sources that the evidence names: sources that changed
\* under the scan never get one.
VerdictOfSources ==
    ~ disturbed =>
        /\ Verdict("green") => evidence.accepted = ClustersOf[evidence.profile][evidence.src]
        /\ Verdict("blocked") => evidence.accepted # ClustersOf[evidence.profile][evidence.src]

\* Behind a green verdict, a person has classified every cluster it accepts, under the
\* profile that found it.
GreenReviewed ==
    Verdict("green") => \A c \in evidence.accepted : \E class \in Classes :
        [profile |-> evidence.profile, candidate |-> CandidateOf(c), class |-> class] \in decided

\* The verdict of a gate is true: green only of sources each of whose clusters a person
\* has classified, through whatever scans, proposals, reviews and updates came before.
VerdictTrue == VerdictOfSources /\ GreenReviewed

\* A person has classified every member set in the registry, under its profile.
\* Reviews are kept from proposal to proposal, but never for something else; and no
\* later command refuses the decisions that an update wrote.
RegistryReviewed ==
    registry # NoFile =>
        /\ SameDecision(registry.review)
        /\ \A c \in DOMAIN registry.review :
            [profile |-> registry.profile, candidate |-> CandidateOf(c),
             class |-> registry.review[c]] \in decided

\* The registry lists the clusters of the sources that it names.
RegistryTrue ==
    registry # NoFile /\ ~ disturbed =>
        DOMAIN registry.review = ClustersOf[registry.profile][registry.id.src]
=============================================================================
