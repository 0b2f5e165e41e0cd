---------------------------- MODULE RatchetProofs ----------------------------
(***************************************************************************)
(* What the commands of the ratchet keep, for any number of processes,     *)
(* commands, edits and contracts.                                          *)
(***************************************************************************)
EXTENDS Ratchet, TLAPS

UpdatePc == {"identity", "pins", "install"}

\* The lock makes a command the only one; a command that is not under way knows
\* nothing, and one that is knows what it has read.
JobInv ==
    \A p \in Procs :
        /\ job[p].pc # "idle" => lock = p
        /\ job[p].pc = "idle" => job[p] = IdleJob
        /\ job[p].accepted # NoFile => job[p].accepted = registry
        /\ job[p].manifest # NoFile => job[p].manifest = manifest
        /\ job[p].manifest # NoFile \/ job[p].proposal # NoFile => job[p].pc \in UpdatePc
        /\ job[p].pc \in UpdatePc => job[p].manifest # NoFile /\ job[p].proposal # NoFile
        /\ job[p].pc \in ScanPc \ {"preflight"} => job[p].contract \in Contracts
        /\ job[p].pc \in ScanPc /\ job[p].cmd = "gate" => job[p].accepted # NoFile

\* What a proposal says of a candidate, a person has said under its profile.
Reviewed(d) ==
    /\ DOMAIN d.review = Candidates(d.clusters)
    /\ \A k \in DOMAIN d.review : d.review[k] # Unclassified =>
        [profile |-> d.profile, candidate |-> k, class |-> d.review[k]] \in decided

ReviewInv ==
    /\ RegistryReviewed
    /\ proposal # NoFile => Reviewed(proposal)
    /\ \A p \in Procs : job[p].proposal # NoFile =>
        /\ Reviewed(job[p].proposal)
        /\ \A k \in DOMAIN job[p].proposal.review : job[p].proposal.review[k] \in Classes

-----------------------------------------------------------------------------
LEMMA TypeInit == Init => TypeOK
<1> SUFFICES ASSUME Init PROVE TypeOK
    OBVIOUS
<1>1. Identity \in Identities
    BY RatchetAssumption DEF Init, Identity, Identities, Sources
<1>2. ClustersOf[Committed][0] \subseteq Clusters
    BY RatchetAssumption DEF Sources
<1>3. Baseline \in Reviews(Classes)
    BY <1>2, RatchetAssumption DEF Reviews
<1>4. registry \in Registry \cup {NoFile}
    BY <1>1, <1>3, RatchetAssumption DEF Init, Registry
<1>5. job \in [Procs -> Job]
    BY DEF Init, IdleJob, Job, Pc
<1>6. NoFile \in Report
    BY DEF Report
<1>7. \A p \in Procs : child[p] = NoFile /\ job[p].pc \notin Native
    BY DEF Init, IdleJob, Native
<1>8. child \in [Procs -> Command \cup {NoFile}]
    BY DEF Init
<1>9. report \in [main : Report, loose : Report]
    BY <1>6 DEF Init
<1>10. /\ src \in Sources /\ pins \in Contracts
       /\ pinEdits \in 0 .. MaxPins /\ runs \in 0 .. MaxRuns
    BY RatchetAssumption DEF Init, Sources
<1> QED
    BY <1>4, <1>5, <1>7, <1>8, <1>9, <1>10 DEF Init, TypeOK

LEMMA EndTypes ==
    ASSUME TypeOK, NEW p \in Procs, End(p)
    PROVE  /\ lock' \in Procs \cup {NoProc}
           /\ job' \in [Procs -> Job]
           /\ child' \in [Procs -> Command \cup {NoFile}]
           /\ \A q \in Procs :
                /\ child'[q] # NoFile <=> job'[q].pc \in Native
                /\ child'[q] # NoFile => child'[q].command = job'[q].pc
<1>1. IdleJob \in Job
    BY DEF IdleJob, Job, Pc
<1>2. IdleJob.pc \notin Native
    BY DEF IdleJob, Native
<1> QED BY <1>1, <1>2 DEF TypeOK, End

\* A command goes on without a native command before and after.
LEMMA GoTypes ==
    ASSUME TypeOK, NEW p \in Procs, NEW j \in Job, j.pc \notin Native, job[p].pc \notin Native,
           job' = [job EXCEPT ![p] = j], child' = child
    PROVE  /\ job' \in [Procs -> Job]
           /\ child' \in [Procs -> Command \cup {NoFile}]
           /\ \A q \in Procs :
                /\ child'[q] # NoFile <=> job'[q].pc \in Native
                /\ child'[q] # NoFile => child'[q].command = job'[q].pc
BY DEF TypeOK

LEMMA SpawnTypes ==
    ASSUME TypeOK, NEW p \in Procs, NEW command \in Native, Spawn(p, command)
    PROVE  /\ job' \in [Procs -> Job]
           /\ child' \in [Procs -> Command \cup {NoFile}]
           /\ \A q \in Procs :
                /\ child'[q] # NoFile <=> job'[q].pc \in Native
                /\ child'[q] # NoFile => child'[q].command = job'[q].pc
<1> DEFINE c == [command |-> command, contract |-> pins, src |-> src]
<1>1. c \in Command
    BY DEF Command, TypeOK
<1>2. c # NoFile
    BY <1>1, RatchetAssumption DEF Command
<1>3. [job[p] EXCEPT !.pc = command] \in Job
    BY DEF TypeOK, Job, Pc, ScanPc
<1>4. job' = [job EXCEPT ![p] = [job[p] EXCEPT !.pc = command]]
    BY DEF Spawn, Goto
<1>5. child' = [child EXCEPT ![p] = c]
    BY DEF Spawn
<1>6. c.command = command /\ [job[p] EXCEPT !.pc = command].pc = command
    BY DEF TypeOK, Job
<1> HIDE DEF c
<1> QED BY <1>1, <1>2, <1>3, <1>4, <1>5, <1>6 DEF TypeOK
-----------------------------------------------------------------------------
LEMMA FoundTypes ==
    ASSUME TypeOK, db # NoFile, NEW tier
    PROVE  Found(tier) \subseteq Clusters
BY RatchetAssumption DEF Found, TypeOK, Database

LEMMA WritesTypes ==
    ASSUME TypeOK, NEW c \in Command, Writes(c)
    PROVE  db' \in Database \cup {NoFile} /\ report' \in [main : Report, loose : Report]
<1>1. CASE c.command \in {"show", "embed"} /\ UNCHANGED <<db, report>>
    BY <1>1 DEF TypeOK
<1>2. CASE /\ \E s \in c.src .. src : db' = [src |-> s, fresh |-> TRUE, by |-> IndexedBy(c.contract)]
           /\ UNCHANGED report
    <2>1. PICK s \in c.src .. src : db' = [src |-> s, fresh |-> TRUE, by |-> IndexedBy(c.contract)]
        BY <1>2
    <2>2. s \in Sources
        BY RatchetAssumption DEF TypeOK, Command, Sources
    <2>3. IndexedBy(c.contract) \subseteq Contracts
        BY DEF TypeOK, Command, IndexedBy, Database
    <2> QED BY <1>2, <2>1, <2>2, <2>3 DEF TypeOK, Database
<1>3. CASE /\ c.command \in {"main", "loose"}
           /\ db # NoFile
           /\ report' = [report EXCEPT ![c.command] = Found(c.command)]
           /\ UNCHANGED db
    <2>1. Found(c.command) \in Report
        BY <1>3, FoundTypes DEF Report
    <2> QED BY <1>3, <2>1 DEF TypeOK
<1> QED BY <1>1, <1>2, <1>3 DEF Writes

LEMMA CutTypes ==
    ASSUME TypeOK, NEW c \in Command, CutShort(c)
    PROVE  db' \in Database \cup {NoFile}
<1>1. IndexedBy(c.contract) \subseteq Contracts
    BY DEF TypeOK, Command, IndexedBy, Database
<1>2. CASE db' = db
    BY <1>2 DEF TypeOK
<1>3. CASE db' = [src |-> c.src, fresh |-> FALSE, by |-> IndexedBy(c.contract)]
    <2>1. c.src \in Sources
        BY DEF Command
    <2> QED BY <1>1, <1>3, <2>1 DEF Database
<1> QED BY <1>2, <1>3 DEF CutShort

LEMMA IdentityTypes == TypeOK => Identity \in Identities
BY DEF TypeOK, Identity, Identities

\* One step changes the place of a command, and perhaps what it has read.
LEMMA MoveTypes ==
    ASSUME TypeOK, NEW p \in Procs, NEW pc \in Pc \ Native, Goto(p, pc), child' = child,
           job[p].pc \notin Native
    PROVE  /\ job' \in [Procs -> Job]
           /\ child' \in [Procs -> Command \cup {NoFile}]
           /\ \A q \in Procs :
                /\ child'[q] # NoFile <=> job'[q].pc \in Native
                /\ child'[q] # NoFile => child'[q].command = job'[q].pc
<1> DEFINE j == [job[p] EXCEPT !.pc = pc]
<1>1. j \in Job /\ j.pc = pc
    BY DEF TypeOK, Job
<1>2. job' = [job EXCEPT ![p] = j]
    BY DEF Goto
<1> HIDE DEF j
<1> QED BY <1>1, <1>2, GoTypes

LEMMA TypeStep == TypeOK /\ JobInv /\ ReviewInv /\ [Next]_vars => TypeOK'
<1> SUFFICES ASSUME TypeOK, JobInv, ReviewInv, [Next]_vars PROVE TypeOK'
    OBVIOUS
<1> USE DEF Rest, environment, artifacts
<1>1. ASSUME NEW p \in Procs, Start(p) PROVE TypeOK'
    <2>1. PICK first \in {<<"snapshot", "preflight">>, <<"gate", "registry">>,
                          <<"propose", "propose">>, <<"update", "load">>} :
            job' = [job EXCEPT ![p].cmd = first[1], ![p].pc = first[2]]
        BY <1>1 DEF Start
    <2> DEFINE j == [job[p] EXCEPT !.cmd = first[1], !.pc = first[2]]
    <2>2. j \in Job /\ j.pc \notin Native
        <3>1. /\ first[1] \in {"snapshot", "gate", "propose", "update", NoFile}
              /\ first[2] \in Pc /\ first[2] \notin Native
            BY DEF Pc, ScanPc, Native
        <3>2. job[p] \in Job
            BY DEF TypeOK
        <3> QED BY <3>1, <3>2 DEF Job
    <2>3. job' = [job EXCEPT ![p] = j]
        BY <2>1 DEF TypeOK, Job
    <2>4. job[p].pc \notin Native
        BY <1>1 DEF Start, CanStart, Native
    <2> HIDE DEF j
    <2>5. runs' \in 0 .. MaxRuns /\ lock' \in Procs \cup {NoProc}
        BY <1>1, RatchetAssumption DEF Start, TypeOK
    <2> QED BY <1>1, <2>2, <2>3, <2>4, <2>5, GoTypes DEF Start, TypeOK
<1>2. ASSUME NEW p \in Procs, ScanStep(p) PROVE TypeOK'
    <2>1. CASE Preflight(p)
        <3> DEFINE j == [job[p] EXCEPT !.contract = pins, !.pc = "before"]
        <3>1. j \in Job /\ j.pc \notin Native
            <4>1. "before" \in Pc /\ "before" \notin Native
                BY DEF Pc, ScanPc, Native
            <4>2. job[p] \in Job /\ pins \in Contracts
                BY DEF TypeOK
            <4> QED BY <4>1, <4>2 DEF Job
        <3>2. job' = [job EXCEPT ![p] = j] /\ job[p].pc \notin Native
            BY <2>1 DEF Preflight, TypeOK, Job, Native
        <3> HIDE DEF j
        <3> QED BY <2>1, <3>1, <3>2, GoTypes DEF Preflight, TypeOK
    <2>2. CASE SourceBefore(p)
        <3> DEFINE j == [job[p] EXCEPT !.before = Identity, !.pc = "show"]
                   c == [command |-> "show", contract |-> pins, src |-> src]
        <3>1. j \in Job /\ j.pc = "show"
            <4>1. "show" \in Pc
                BY DEF Pc, ScanPc, Native
            <4>2. job[p] \in Job /\ Identity \in Identities
                BY IdentityTypes DEF TypeOK
            <4> QED BY <4>1, <4>2 DEF Job
        <3>2. job' = [job EXCEPT ![p] = j]
            BY <2>2 DEF SourceBefore, TypeOK, Job
        <3>3. c \in Command /\ c.command = "show"
            BY DEF TypeOK, Command, Native
        <3>4. c # NoFile
            BY <3>3, RatchetAssumption DEF Command
        <3>5. child' = [child EXCEPT ![p] = c]
            BY <2>2 DEF SourceBefore
        <3> HIDE DEF j, c
        <3>6. /\ job' \in [Procs -> Job]
              /\ child' \in [Procs -> Command \cup {NoFile}]
            BY <3>1, <3>2, <3>3, <3>5 DEF TypeOK
        <3>7. "show" \in Native
            BY DEF Native
        <3>8. \A q \in Procs :
                /\ child'[q] # NoFile <=> job'[q].pc \in Native
                /\ child'[q] # NoFile => child'[q].command = job'[q].pc
            BY <3>1, <3>2, <3>3, <3>4, <3>5, <3>7 DEF TypeOK
        <3> QED BY <2>2, <3>6, <3>8 DEF SourceBefore, TypeOK
    <2>3. CASE KeepCache(p)
        BY <2>3, MoveTypes DEF KeepCache, TypeOK, Native, Pc, ScanPc
    <2>4. CASE DropDatabase(p)
        BY <2>4, MoveTypes DEF DropDatabase, TypeOK, Native, Pc, ScanPc
    <2>5. CASE DropMarker(p)
        BY <2>5, MoveTypes DEF DropMarker, TypeOK, Native, Pc, ScanPc
    <2>6. CASE Reparse(p)
        <3>1. db' \in Database \cup {NoFile}
            BY <2>6 DEF Reparse, TypeOK, Database
        <3> QED BY <2>6, <3>1, SpawnTypes DEF Reparse, TypeOK, Native
    <2>7. CASE Verify(p)
        BY <2>7, SpawnTypes DEF Verify, TypeOK, Native
    <2>8. ASSUME NEW tier \in {"main", "loose"}, NEW at, Analyze(p, tier, at) PROVE TypeOK'
        <3>1. report' \in [main : Report, loose : Report]
            BY <2>8 DEF Analyze, TypeOK, Report
        <3> QED BY <2>8, <3>1, SpawnTypes DEF Analyze, TypeOK, Native
    <2>9. CASE Collect(p)
        <3>1. /\ Found("exact") \subseteq Clusters
              /\ report.main \subseteq Clusters /\ report.loose \subseteq Clusters
            BY <2>9, FoundTypes DEF Collect, TypeOK, Report
        <3>2. job[p].contract \in Contracts
            BY <2>9 DEF JobInv, Collect, ScanPc
        <3>3. manifest' \in Document
            BY <2>9, <3>1, <3>2, IdentityTypes DEF Collect, Document
        <3> QED BY <2>9, <3>3, MoveTypes DEF Collect, TypeOK, Native, Pc, ScanPc
    <2>10. CASE SourceAfter(p)
        BY <2>10, MoveTypes DEF SourceAfter, TypeOK, Native, Pc, ScanPc
    <2>11. CASE WriteMarker(p)
        BY <2>11, MoveTypes DEF WriteMarker, TypeOK, Native, Pc, ScanPc, Job
    <2> QED BY <1>2, <2>1, <2>2, <2>3, <2>4, <2>5, <2>6, <2>7, <2>8, <2>9, <2>10, <2>11 DEF ScanStep
<1>3. ASSUME NEW p \in Procs, LoadRegistry(p) \/ Load(p) PROVE TypeOK'
    <2>1. /\ job[p] \in Job /\ job[p].pc \notin Native
          /\ {"preflight", "identity"} \subseteq Pc \ Native
        BY <1>3 DEF LoadRegistry, Load, TypeOK, Pc, ScanPc, Native
    <2>2. CASE LoadRegistry(p)
        <3> DEFINE j == [job[p] EXCEPT !.accepted = registry, !.pc = "preflight"]
        <3>1. registry \in Registry
            BY <2>2 DEF LoadRegistry, TypeOK
        <3>2. j \in Job /\ j.pc = "preflight"
            BY <2>1, <3>1 DEF Job
        <3>3. job' = [job EXCEPT ![p] = j]
            BY <2>2 DEF LoadRegistry, TypeOK, Job
        <3> HIDE DEF j
        <3> QED BY <2>1, <2>2, <3>2, <3>3, GoTypes DEF LoadRegistry, TypeOK
    <2>3. CASE Load(p)
        <3> DEFINE j == [job[p] EXCEPT !.manifest = manifest, !.proposal = proposal,
                                       !.pc = "identity"]
        <3>1. manifest \in Document /\ proposal \in Proposal
            BY <2>3 DEF Load, TypeOK
        <3>2. j \in Job /\ j.pc = "identity"
            BY <2>1, <3>1 DEF Job
        <3>3. job' = [job EXCEPT ![p] = j]
            BY <2>3 DEF Load, TypeOK, Job
        <3> HIDE DEF j
        <3> QED BY <2>1, <2>3, <3>2, <3>3, GoTypes DEF Load, TypeOK
    <2> QED BY <1>3, <2>2, <2>3
<1>4. ASSUME NEW p \in Procs, CheckIdentity(p) \/ CheckPins(p) PROVE TypeOK'
    BY <1>4, MoveTypes DEF CheckIdentity, CheckPins, TypeOK, Native, Pc
<1>5. ASSUME NEW p \in Procs, ReportSnapshot(p) \/ ReportVerdict(p) PROVE TypeOK'
    BY <1>5, EndTypes DEF ReportSnapshot, ReportVerdict, TypeOK
<1>6. ASSUME NEW p \in Procs, Propose(p) PROVE TypeOK'
    <2>1. manifest \in Document /\ manifest.clusters \subseteq Clusters
        BY <1>6 DEF Propose, TypeOK, Document
    <2>2. ASSUME NEW k \in Candidates(manifest.clusters), Kept(k) PROVE Decision(k) \in Classes
        <3>1. PICK c \in manifest.clusters : CandidateOf(c) = k
            BY <2>2 DEF Candidates
        <3>2. c \in Group(k) /\ Group(k) \subseteq DOMAIN registry.review
            BY <2>2, <3>1 DEF Group, Kept
        <3>3. registry \in Registry
            BY <2>2 DEF Kept, TypeOK
        <3>4. \A d \in Group(k) : registry.review[d] \in Classes
            BY <3>2, <3>3 DEF Registry, Reviews
        <3> QED BY <3>2, <3>4 DEF Decision
    <2> DEFINE review == [k \in Candidates(manifest.clusters) |->
                            IF Kept(k) THEN Decision(k) ELSE Unclassified]
    <2>3. Candidates(manifest.clusters) \in SUBSET Candidates(Clusters)
        BY <2>1 DEF Candidates
    <2>4. review \in [Candidates(manifest.clusters) -> Classes \cup {Unclassified}]
        BY <2>2
    <2>5. proposal' = [profile |-> manifest.profile, id |-> manifest.id,
                       clusters |-> manifest.clusters, review |-> review]
        BY <1>6 DEF Propose
    <2> HIDE DEF review
    <2>6. proposal' \in Proposal
        BY <2>1, <2>3, <2>4, <2>5 DEF Proposal, Document
    <2> QED BY <1>6, <2>6, EndTypes DEF Propose, TypeOK
<1>7. ASSUME NEW p \in Procs, Install(p) PROVE TypeOK'
    <2> DEFINE d == job[p].proposal
    <2>1. d \in Proposal /\ d # NoFile
        BY <1>7 DEF Install, JobInv, UpdatePc, TypeOK, Job
    <2>2. \A c \in d.clusters : d.review[CandidateOf(c)] \in Classes
        BY <2>1 DEF ReviewInv, Reviewed, Candidates
    <2> DEFINE review == [c \in d.clusters |-> d.review[CandidateOf(c)]]
    <2>3. review \in Reviews(Classes)
        BY <2>1, <2>2 DEF Proposal, Reviews
    <2>4. registry' = [profile |-> d.profile, id |-> d.id, review |-> review]
        BY <1>7 DEF Install
    <2> HIDE DEF review
    <2>5. registry' \in Registry
        BY <2>1, <2>3, <2>4 DEF Proposal, Registry
    <2> QED BY <1>7, <2>5, EndTypes DEF Install, TypeOK
<1>8. ASSUME NEW p \in Procs, Fail(p) \/ Die(p) \/ NativeFails(p) PROVE TypeOK'
    <2>1. End(p)
        BY <1>8 DEF Fail, Die, Abandon, NativeFails
    <2>2. child[p] # NoFile => child[p] \in Command
        BY DEF TypeOK
    <2>3. db' \in Database \cup {NoFile} /\ orphans' \subseteq Command /\ disturbed' \in BOOLEAN
        BY <1>8, <2>2, CutTypes DEF Fail, Die, Abandon, NativeFails, TypeOK
    <2> QED BY <1>8, <2>1, <2>3, EndTypes DEF Fail, Die, Abandon, NativeFails, TypeOK
<1>9. ASSUME NEW p \in Procs, NativeEnds(p) PROVE TypeOK'
    <2>1. child[p] \in Command /\ child[p].command \in Native
        BY <1>9 DEF NativeEnds, TypeOK, Command
    <2>2. db' \in Database \cup {NoFile} /\ report' \in [main : Report, loose : Report]
        BY <1>9, <2>1, WritesTypes DEF NativeEnds
    <2> DEFINE pc == NextPc(child[p].command)  j == [job[p] EXCEPT !.pc = pc]
    <2>3. pc \in Pc \ Native
        BY <2>1 DEF NextPc, Native, Pc, ScanPc
    <2> HIDE DEF pc
    <2>4. j \in Job /\ j.pc = pc
        BY <2>3 DEF TypeOK, Job
    <2>5. job' = [job EXCEPT ![p] = j] /\ child' = [child EXCEPT ![p] = NoFile]
        BY <1>9 DEF NativeEnds, Goto, pc
    <2> HIDE DEF j
    <2> QED BY <1>9, <2>2, <2>3, <2>4, <2>5 DEF NativeEnds, TypeOK
<1>10. CASE OrphanEnds
    <2>1. PICK c \in orphans : Writes(c) \/ (CutShort(c) /\ UNCHANGED report)
        BY <1>10 DEF OrphanEnds
    <2>2. c \in Command
        BY DEF TypeOK
    <2>3. db' \in Database \cup {NoFile} /\ report' \in [main : Report, loose : Report]
        BY <2>1, <2>2, WritesTypes, CutTypes DEF TypeOK
    <2> QED BY <1>10, <2>3 DEF OrphanEnds, TypeOK
<1>11. CASE Review
    <2>1. PICK k \in DOMAIN proposal.review, class \in Classes :
            proposal' = [proposal EXCEPT !.review[k] = class]
        BY <1>11 DEF Review
    <2>2. proposal \in Proposal
        BY <1>11 DEF Review, TypeOK
    <2>3. PICK ks \in SUBSET Candidates(Clusters) :
            proposal.review \in [ks -> Classes \cup {Unclassified}]
        BY <2>2 DEF Proposal
    <2>4. [proposal.review EXCEPT ![k] = class] \in [ks -> Classes \cup {Unclassified}]
        BY <2>1, <2>3
    <2>5. proposal' \in Proposal
        BY <2>1, <2>2, <2>4 DEF Proposal
    <2> QED BY <1>11, <2>5 DEF Review, TypeOK
<1>12. CASE EditSources
    BY <1>12, RatchetAssumption DEF EditSources, TypeOK, Sources
<1>13. CASE EditPins
    BY <1>13, RatchetAssumption DEF EditPins, TypeOK
<1>14. CASE UNCHANGED vars
    BY <1>14 DEF vars, TypeOK
<1> QED BY <1>1, <1>2, <1>3, <1>4, <1>5, <1>6, <1>7, <1>8, <1>9, <1>10, <1>11, <1>12, <1>13,
           <1>14 DEF Next, CommandStep

-----------------------------------------------------------------------------
(* The lock.                                                               *)

LEMMA JobInit == Init => JobInv
BY DEF Init, JobInv, IdleJob, ScanPc, UpdatePc, Native

\* While a command is under way all the others are idle.
LEMMA Alone ==
    ASSUME TypeOK, JobInv, NEW p \in Procs, job[p].pc # "idle"
    PROVE  lock = p /\ \A q \in Procs : q # p => job[q] = IdleJob
BY DEF JobInv

LEMMA EndKeepsJobs ==
    ASSUME TypeOK, JobInv, NEW p \in Procs, job[p].pc # "idle", End(p)
    PROVE  JobInv'
<1>1. \A q \in Procs : job'[q] = IdleJob
    BY Alone DEF End, TypeOK
<1> QED BY <1>1 DEF JobInv, IdleJob, ScanPc, UpdatePc, Native

LEMMA MoveKeepsJobs ==
    ASSUME TypeOK, JobInv, NEW p \in Procs, job[p].pc # "idle", NEW j,
           job' = [job EXCEPT ![p] = j], lock' = lock, j.pc # "idle",
           j.accepted # NoFile => j.accepted = registry',
           j.manifest # NoFile => j.manifest = manifest',
           j.manifest # NoFile \/ j.proposal # NoFile => j.pc \in UpdatePc,
           j.pc \in UpdatePc => j.manifest # NoFile /\ j.proposal # NoFile,
           j.pc \in ScanPc \ {"preflight"} => j.contract \in Contracts,
           j.pc \in ScanPc /\ j.cmd = "gate" => j.accepted # NoFile
    PROVE  JobInv'
<1>1. lock' = p /\ job'[p] = j
    BY Alone DEF TypeOK
<1>2. \A q \in Procs : q # p => job'[q] = IdleJob
    BY Alone DEF TypeOK
<1>3. /\ IdleJob.pc = "idle" /\ IdleJob.accepted = NoFile /\ IdleJob.manifest = NoFile
      /\ IdleJob.proposal = NoFile
    BY DEF IdleJob
<1>4. "idle" \notin ScanPc /\ "idle" \notin UpdatePc
    BY DEF ScanPc, UpdatePc, Native
<1> QED BY <1>1, <1>2, <1>3, <1>4 DEF JobInv

\* A scan that goes on to its next stage.
LEMMA ScanKeepsJobs ==
    ASSUME TypeOK, JobInv, NEW p \in Procs, job[p].pc \in ScanPc \ {"preflight"},
           NEW pc \in ScanPc, Goto(p, pc), lock' = lock, registry' = registry
    PROVE  JobInv'
<1> DEFINE j == [job[p] EXCEPT !.pc = pc]
<1>1. /\ j.pc = pc /\ j.cmd = job[p].cmd /\ j.contract = job[p].contract
      /\ j.accepted = job[p].accepted /\ j.manifest = job[p].manifest
      /\ j.proposal = job[p].proposal
    BY DEF TypeOK, Job
<1>2. job' = [job EXCEPT ![p] = j]
    BY DEF Goto
<1>3. job[p].pc # "idle" /\ job[p].pc \notin UpdatePc /\ pc # "idle" /\ pc \notin UpdatePc
    BY DEF ScanPc, UpdatePc, Native
<1> HIDE DEF j
<1>4. j.manifest = NoFile /\ j.proposal = NoFile
    BY <1>1, <1>3 DEF JobInv
<1>5. j.accepted # NoFile => j.accepted = registry'
    BY <1>1 DEF JobInv
<1>6. j.contract \in Contracts /\ (j.cmd = "gate" => j.accepted # NoFile)
    BY <1>1 DEF JobInv
<1> QED BY <1>1, <1>2, <1>3, <1>4, <1>5, <1>6, MoveKeepsJobs

LEMMA JobStep == TypeOK /\ JobInv /\ [Next]_vars => JobInv'
<1> SUFFICES ASSUME TypeOK, JobInv, [Next]_vars PROVE JobInv'
    OBVIOUS
<1> USE DEF Rest, environment, artifacts
<1>1. ASSUME NEW p \in Procs, Start(p) PROVE JobInv'
    <2>1. PICK first \in {<<"snapshot", "preflight">>, <<"gate", "registry">>,
                          <<"propose", "propose">>, <<"update", "load">>} :
            job' = [job EXCEPT ![p].cmd = first[1], ![p].pc = first[2]]
        BY <1>1 DEF Start
    <2>2. \A q \in Procs : job[q] = IdleJob
        BY <1>1, RatchetAssumption DEF Start, CanStart, JobInv
    <2> DEFINE j == [IdleJob EXCEPT !.cmd = first[1], !.pc = first[2]]
    <2>3. job'[p] = j /\ \A q \in Procs : q # p => job'[q] = IdleJob
        BY <2>1, <2>2 DEF TypeOK, IdleJob
    <2>4. /\ j.accepted = NoFile /\ j.manifest = NoFile /\ j.proposal = NoFile
          /\ j.pc \in {"preflight", "registry", "propose", "load"}
          /\ j.pc = "preflight" => j.cmd = "snapshot"
        BY DEF IdleJob
    <2>5. lock' = p
        BY <1>1 DEF Start
    <2> HIDE DEF j
    <2>6. IdleJob.pc = "idle" /\ IdleJob.accepted = NoFile /\ IdleJob.manifest = NoFile
          /\ IdleJob.proposal = NoFile
        BY DEF IdleJob
    <2> QED BY <2>3, <2>4, <2>5, <2>6 DEF JobInv, ScanPc, UpdatePc, Native
<1>2. ASSUME NEW p \in Procs, ScanStep(p) PROVE JobInv'
    <2>1. CASE Preflight(p)
        <3> DEFINE j == [job[p] EXCEPT !.contract = pins, !.pc = "before"]
        <3>1. /\ j.pc = "before" /\ j.cmd = job[p].cmd /\ j.contract = pins
              /\ j.accepted = job[p].accepted /\ j.manifest = job[p].manifest
              /\ j.proposal = job[p].proposal
            BY DEF TypeOK, Job
        <3>2. job' = [job EXCEPT ![p] = j]
            BY <2>1 DEF Preflight, TypeOK, Job
        <3> HIDE DEF j
        <3>3. job[p].manifest = NoFile /\ job[p].proposal = NoFile
            BY <2>1 DEF Preflight, JobInv, UpdatePc
        <3>4. job[p].pc \in ScanPc /\ pins \in Contracts
            BY <2>1 DEF Preflight, ScanPc, TypeOK
        <3>5. /\ j.accepted # NoFile => j.accepted = registry
              /\ j.cmd = "gate" => j.accepted # NoFile
            BY <3>1, <3>4 DEF JobInv
        <3>6. job[p].pc # "idle" /\ "before" \notin UpdatePc /\ lock' = lock /\ registry' = registry
            BY <2>1 DEF Preflight, UpdatePc
        <3> QED BY <3>1, <3>2, <3>3, <3>4, <3>5, <3>6, MoveKeepsJobs
    <2>2. CASE SourceBefore(p)
        <3> DEFINE j == [job[p] EXCEPT !.before = Identity, !.pc = "show"]
        <3>1. /\ j.pc = "show" /\ j.cmd = job[p].cmd /\ j.contract = job[p].contract
              /\ j.accepted = job[p].accepted /\ j.manifest = job[p].manifest
              /\ j.proposal = job[p].proposal
            BY DEF TypeOK, Job
        <3>2. job' = [job EXCEPT ![p] = j]
            BY <2>2 DEF SourceBefore, TypeOK, Job
        <3> HIDE DEF j
        <3>3. job[p].manifest = NoFile /\ job[p].proposal = NoFile
            BY <2>2 DEF SourceBefore, JobInv, UpdatePc
        <3>4. job[p].pc \in ScanPc \ {"preflight"}
            BY <2>2 DEF SourceBefore, ScanPc
        <3>5. /\ j.accepted # NoFile => j.accepted = registry
              /\ j.cmd = "gate" => j.accepted # NoFile
              /\ j.contract \in Contracts
            BY <3>1, <3>4 DEF JobInv
        <3>6. job[p].pc # "idle" /\ "show" \notin UpdatePc /\ lock' = lock /\ registry' = registry
            BY <2>2 DEF SourceBefore, UpdatePc
        <3> QED BY <3>1, <3>2, <3>3, <3>5, <3>6, MoveKeepsJobs
    <2>3. CASE KeepCache(p) \/ DropDatabase(p) \/ DropMarker(p) \/ SourceAfter(p) \/ WriteMarker(p)
               \/ Collect(p)
        BY <2>3, ScanKeepsJobs
           DEF KeepCache, DropDatabase, DropMarker, SourceAfter, WriteMarker, Collect, ScanPc
    <2>4. CASE Reparse(p) \/ Verify(p) \/ Analyze(p, "main", "resetMain")
               \/ Analyze(p, "loose", "resetLoose")
        BY <2>4, ScanKeepsJobs DEF Reparse, Verify, Analyze, Spawn, ScanPc, Native
    <2> QED BY <1>2, <2>1, <2>2, <2>3, <2>4 DEF ScanStep
<1>3. ASSUME NEW p \in Procs, LoadRegistry(p) PROVE JobInv'
    <2> DEFINE j == [job[p] EXCEPT !.accepted = registry, !.pc = "preflight"]
    <2>1. /\ j.pc = "preflight" /\ j.accepted = registry /\ j.manifest = job[p].manifest
          /\ j.proposal = job[p].proposal
        BY DEF TypeOK, Job
    <2>2. job' = [job EXCEPT ![p] = j]
        BY <1>3 DEF LoadRegistry, TypeOK, Job
    <2> HIDE DEF j
    <2>3. job[p].manifest = NoFile /\ job[p].proposal = NoFile
        BY <1>3 DEF LoadRegistry, JobInv, UpdatePc
    <2> QED BY <1>3, <2>1, <2>2, <2>3, MoveKeepsJobs DEF LoadRegistry, UpdatePc
<1>4. ASSUME NEW p \in Procs, Load(p) PROVE JobInv'
    <2> DEFINE j == [job[p] EXCEPT !.manifest = manifest, !.proposal = proposal, !.pc = "identity"]
    <2>1. /\ j.pc = "identity" /\ j.accepted = job[p].accepted /\ j.manifest = manifest
          /\ j.proposal = proposal
        BY DEF TypeOK, Job
    <2>2. job' = [job EXCEPT ![p] = j]
        BY <1>4 DEF Load, TypeOK, Job
    <2> HIDE DEF j
    <2>3. "identity" \notin ScanPc
        BY DEF ScanPc, Native
    <2>4. job[p].accepted # NoFile => job[p].accepted = registry
        BY DEF JobInv
    <2> QED BY <1>4, <2>1, <2>2, <2>3, <2>4, MoveKeepsJobs DEF Load, UpdatePc
<1>5. ASSUME NEW p \in Procs, NEW pc \in {"pins", "install"}, Goto(p, pc), job[p].pc \in UpdatePc,
             UNCHANGED <<lock, registry, manifest>>
      PROVE  JobInv'
    <2> DEFINE j == [job[p] EXCEPT !.pc = pc]
    <2>1. /\ j.pc = pc /\ j.accepted = job[p].accepted /\ j.manifest = job[p].manifest
          /\ j.proposal = job[p].proposal
        BY DEF TypeOK, Job
    <2>2. job' = [job EXCEPT ![p] = j]
        BY <1>5 DEF Goto
    <2> HIDE DEF j
    <2>3. pc \notin ScanPc /\ pc \in UpdatePc /\ job[p].pc # "idle" /\ pc # "idle"
        BY <1>5 DEF ScanPc, Native, UpdatePc
    <2>4. /\ job[p].manifest # NoFile /\ job[p].proposal # NoFile
          /\ job[p].manifest = manifest
          /\ job[p].accepted # NoFile => job[p].accepted = registry
        BY <1>5 DEF JobInv
    <2> QED BY <1>5, <2>1, <2>2, <2>3, <2>4, MoveKeepsJobs
<1>6. ASSUME NEW p \in Procs, CheckIdentity(p) \/ CheckPins(p) PROVE JobInv'
    BY <1>5, <1>6 DEF CheckIdentity, CheckPins, UpdatePc
<1>7. ASSUME NEW p \in Procs,
             ReportSnapshot(p) \/ ReportVerdict(p) \/ Propose(p) \/ Install(p) \/ Fail(p) \/ Die(p)
      PROVE  JobInv'
    BY <1>7, EndKeepsJobs DEF ReportSnapshot, ReportVerdict, Propose, Install, Fail, Die
<1>8. ASSUME NEW p \in Procs, NativeEnds(p) \/ NativeFails(p) PROVE JobInv'
    <2>1. job[p].pc \in Native /\ child[p].command \in Native
        BY <1>8 DEF NativeEnds, NativeFails, TypeOK
    <2>2. job[p].pc # "idle" /\ job[p].pc \in ScanPc \ {"preflight"}
        BY <2>1 DEF Native, ScanPc
    <2>3. NextPc(child[p].command) \in ScanPc
        BY <2>1 DEF Native, ScanPc, NextPc
    <2> QED BY <1>8, <2>2, <2>3, ScanKeepsJobs, EndKeepsJobs DEF NativeEnds, NativeFails
<1>9. CASE OrphanEnds \/ Review \/ EditSources \/ EditPins \/ UNCHANGED vars
    BY <1>9 DEF OrphanEnds, Review, EditSources, EditPins, vars, JobInv
<1> QED BY <1>1, <1>2, <1>3, <1>4, <1>6, <1>7, <1>8, <1>9 DEF Next, CommandStep

-----------------------------------------------------------------------------
(* The reviews.                                                            *)

LEMMA ReviewInit == Init => ReviewInv
<1> SUFFICES ASSUME Init PROVE ReviewInv
    OBVIOUS
<1>1. RegistryReviewed
    BY RatchetAssumption DEF Init, RegistryReviewed
<1>2. proposal = NoFile /\ \A p \in Procs : job[p].proposal = NoFile
    BY DEF Init, IdleJob
<1> QED BY <1>1, <1>2 DEF ReviewInv

\* A step that leaves registry and proposal alone and gives no command a proposal.
LEMMA SameReviews ==
    ASSUME ReviewInv, UNCHANGED <<registry, proposal, decided>>,
           \A p \in Procs : job'[p].proposal \in {job[p].proposal, NoFile}
    PROVE  ReviewInv'
BY DEF ReviewInv, Reviewed, RegistryReviewed

LEMMA EndProposals ==
    ASSUME TypeOK, NEW p \in Procs, End(p)
    PROVE  \A q \in Procs : job'[q].proposal \in {job[q].proposal, NoFile}
BY DEF TypeOK, End, IdleJob

LEMMA GoProposals ==
    ASSUME TypeOK, NEW p \in Procs, NEW pc, Goto(p, pc)
    PROVE  \A q \in Procs : job'[q].proposal = job[q].proposal
BY DEF TypeOK, Goto, Job

LEMMA ReviewStep == TypeOK /\ JobInv /\ ReviewInv /\ [Next]_vars => ReviewInv'
<1> SUFFICES ASSUME TypeOK, JobInv, ReviewInv, [Next]_vars PROVE ReviewInv'
    OBVIOUS
<1> USE DEF Rest, environment, artifacts
<1>1. ASSUME NEW p \in Procs,
             Start(p) \/ Preflight(p) \/ SourceBefore(p) \/ LoadRegistry(p)
      PROVE  ReviewInv'
    <2>1. \A q \in Procs : job'[q].proposal = job[q].proposal
        BY <1>1 DEF Start, Preflight, SourceBefore, LoadRegistry, TypeOK, Job
    <2> QED BY <1>1, <2>1, SameReviews DEF Start, Preflight, SourceBefore, LoadRegistry
<1>2. ASSUME NEW p \in Procs, NEW pc, Goto(p, pc), UNCHANGED <<registry, proposal, decided>>
      PROVE  ReviewInv'
    BY <1>2, GoProposals, SameReviews
<1>3. ASSUME NEW p \in Procs, ScanStep(p) PROVE ReviewInv'
    BY <1>1, <1>2, <1>3
       DEF ScanStep, KeepCache, DropDatabase, DropMarker, Reparse, Verify, Analyze, Collect,
           SourceAfter, WriteMarker, Spawn
<1>4. ASSUME NEW p \in Procs, CheckIdentity(p) \/ CheckPins(p) \/ NativeEnds(p) PROVE ReviewInv'
    BY <1>2, <1>4 DEF CheckIdentity, CheckPins, NativeEnds
<1>5. ASSUME NEW p \in Procs,
             ReportSnapshot(p) \/ ReportVerdict(p) \/ Fail(p) \/ Die(p) \/ NativeFails(p)
      PROVE  ReviewInv'
    BY <1>5, EndProposals, SameReviews DEF ReportSnapshot, ReportVerdict, Fail, Die, NativeFails
<1>6. ASSUME NEW p \in Procs, Propose(p) PROVE ReviewInv'
    <2> DEFINE review == [k \in Candidates(manifest.clusters) |->
                            IF Kept(k) THEN Decision(k) ELSE Unclassified]
    <2>1. proposal' = [profile |-> manifest.profile, id |-> manifest.id,
                       clusters |-> manifest.clusters, review |-> review]
        BY <1>6 DEF Propose
    <2>2. ASSUME NEW k \in Candidates(manifest.clusters), Kept(k)
          PROVE  [profile |-> manifest.profile, candidate |-> k, class |-> Decision(k)] \in decided
        <3>1. PICK c \in manifest.clusters : CandidateOf(c) = k
            BY <2>2 DEF Candidates
        <3>2. c \in Group(k)
            BY <3>1 DEF Group
        <3>3. PICK d \in Group(k) : Decision(k) = registry.review[d]
            BY <3>2 DEF Decision
        <3>4. CandidateOf(d) = k /\ d \in DOMAIN registry.review
            BY <2>2, <3>3 DEF Group, Kept
        <3> QED BY <2>2, <3>3, <3>4 DEF Kept, ReviewInv, RegistryReviewed
    <2>3. Reviewed(proposal)'
        <3>1. DOMAIN review = Candidates(manifest.clusters) /\ decided' = decided
            BY <1>6 DEF Propose
        <3>2. \A k \in Candidates(manifest.clusters) : review[k] # Unclassified =>
                [profile |-> manifest.profile, candidate |-> k, class |-> review[k]] \in decided
            BY <2>2
        <3> HIDE DEF review
        <3> QED BY <2>1, <3>1, <3>2 DEF Reviewed
    <2>4. \A q \in Procs : job'[q].proposal \in {job[q].proposal, NoFile}
        BY <1>6, EndProposals DEF Propose
    <2>5. RegistryReviewed'
        BY <1>6 DEF Propose, ReviewInv, RegistryReviewed
    <2>6. (\A q \in Procs : job[q].proposal # NoFile =>
            /\ Reviewed(job[q].proposal)
            /\ \A k \in DOMAIN job[q].proposal.review : job[q].proposal.review[k] \in Classes)'
        BY <1>6, <2>4 DEF Propose, ReviewInv, Reviewed
    <2> QED BY <2>3, <2>5, <2>6 DEF ReviewInv
<1>7. CASE Review
    <2>1. PICK k \in DOMAIN proposal.review, class \in Classes :
            /\ proposal' = [proposal EXCEPT !.review[k] = class]
            /\ decided' = decided \cup {[profile |-> proposal.profile, candidate |-> k, class |-> class]}
        BY <1>7 DEF Review
    <2>2. proposal \in Proposal /\ proposal # NoFile
        BY <1>7 DEF Review, TypeOK
    <2>3. PICK ks \in SUBSET Candidates(Clusters) :
            proposal.review \in [ks -> Classes \cup {Unclassified}]
        BY <2>2 DEF Proposal
    <2>4. /\ proposal'.profile = proposal.profile /\ proposal'.clusters = proposal.clusters
          /\ proposal'.review = [proposal.review EXCEPT ![k] = class]
        BY <2>1, <2>2 DEF Proposal
    <2>5. /\ DOMAIN proposal'.review = DOMAIN proposal.review
          /\ proposal'.review[k] = class
          /\ \A l \in DOMAIN proposal.review : l # k => proposal'.review[l] = proposal.review[l]
        BY <2>1, <2>3, <2>4
    <2>6. Reviewed(proposal)'
        BY <2>1, <2>2, <2>4, <2>5 DEF ReviewInv, Reviewed
    <2>7. RegistryReviewed' /\ job' = job
        BY <1>7, <2>1 DEF Review, ReviewInv, RegistryReviewed
    <2> QED BY <2>1, <2>6, <2>7 DEF ReviewInv, Reviewed
<1>8. ASSUME NEW p \in Procs, Load(p) PROVE ReviewInv'
    <2>1. \A q \in Procs : job'[q].proposal = IF q = p THEN proposal ELSE job[q].proposal
        BY <1>8 DEF Load, TypeOK, Job
    <2>2. \A k \in DOMAIN proposal.review : proposal.review[k] \in Classes
        BY <1>8 DEF Load
    <2>3. UNCHANGED <<registry, proposal, decided>>
        BY <1>8 DEF Load
    <2> QED BY <2>1, <2>2, <2>3 DEF ReviewInv, Reviewed, RegistryReviewed
<1>9. ASSUME NEW p \in Procs, Install(p) PROVE ReviewInv'
    <2> DEFINE d == job[p].proposal
    <2>1. d \in Proposal /\ d # NoFile
        BY <1>9 DEF Install, JobInv, UpdatePc, TypeOK, Job
    <2> DEFINE review == [c \in d.clusters |-> d.review[CandidateOf(c)]]
    <2>2. registry' = [profile |-> d.profile, id |-> d.id, review |-> review]
        BY <1>9 DEF Install
    <2>3. \A c \in d.clusters : CandidateOf(c) \in DOMAIN d.review
        BY <2>1 DEF ReviewInv, Reviewed, Candidates
    <2>4. \A c \in d.clusters :
            [profile |-> d.profile, candidate |-> CandidateOf(c), class |-> review[c]] \in decided
        BY <2>1, <2>3, RatchetAssumption DEF ReviewInv, Reviewed
    <2>5. DOMAIN review = d.clusters /\ decided' = decided /\ SameDecision(review)
        BY <1>9 DEF Install, SameDecision
    <2> HIDE DEF review
    <2>6. RegistryReviewed'
        BY <2>2, <2>4, <2>5 DEF RegistryReviewed
    <2>7. \A q \in Procs : job'[q].proposal \in {job[q].proposal, NoFile}
        BY <1>9, EndProposals DEF Install
    <2>8. UNCHANGED <<proposal, decided>>
        BY <1>9 DEF Install
    <2> QED BY <2>6, <2>7, <2>8 DEF ReviewInv, Reviewed
<1>10. CASE OrphanEnds \/ EditSources \/ EditPins \/ UNCHANGED vars
    <2>1. UNCHANGED <<job, registry, proposal, decided>>
        BY <1>10 DEF OrphanEnds, EditSources, EditPins, vars
    <2> QED BY <2>1, SameReviews
<1> QED BY <1>1, <1>3, <1>4, <1>5, <1>6, <1>7, <1>8, <1>9, <1>10 DEF Next, CommandStep

-----------------------------------------------------------------------------
(* The cache and the verdict, while no scan is disturbed.                  *)

AfterVerify ==
    {"embed", "resetMain", "main", "resetLoose", "loose", "collect", "source", "mark", "report"}
AfterCache == AfterVerify \cup {"reparse", "index", "verify"}

\* From the cache check on, the database is of the pinned contract alone and the
\* marker says nothing else.
CacheOk(p) ==
    /\ job[p].pc \in ScanPc \ {"preflight"} => job[p].contract = pins
    /\ child[p] # NoFile => child[p].contract = pins
    /\ job[p].pc = "marker" => db = NoFile
    /\ job[p].pc \in AfterCache =>
        /\ marker \in {NoFile, pins}
        /\ db # NoFile => db.by = {pins}

TierOf(tier) == {c \in ClustersOf[pins][db.src] : c.tier = tier}

\* A scan indexes the sources of a time between its two looks at them, and the
\* reports and the manifest are of what it has indexed.
ScanOk(p) ==
    /\ job[p].pc \in ScanPc \ {"preflight", "before"} =>
        job[p].before \in Identities /\ job[p].before.src =< src
    /\ job[p].pc \in AfterVerify =>
        db # NoFile /\ job[p].before.src =< db.src /\ db.src =< src
    /\ job[p].pc \in {"resetLoose", "loose", "collect"} => report.main = TierOf("main")
    /\ job[p].pc = "collect" => report.loose = TierOf("loose")
    /\ job[p].pc \in {"source", "mark", "report"} =>
        /\ manifest # NoFile
        /\ manifest.profile = pins
        /\ manifest.clusters = ClustersOf[pins][db.src]
        /\ db.src =< manifest.id.src
    /\ job[p].pc \in {"mark", "report"} => manifest.id = job[p].before
    /\ job[p].accepted # NoFile => job[p].pc \in ScanPc /\ job[p].accepted.profile = pins

CacheInv ==
    ~ disturbed =>
        /\ orphans = {}
        /\ marker # NoFile /\ db # NoFile => db.by = {marker}
        /\ \A p \in Procs : CacheOk(p)

ScanInv ==
    /\ ~ disturbed => \A p \in Procs : ScanOk(p)
    /\ VerdictOfSources

LEMMA CacheInit == Init => CacheInv
BY DEF Init, CacheInv, CacheOk, IdleJob, ScanPc, Native, AfterCache, AfterVerify

LEMMA ScanInit == Init => ScanInv
BY DEF Init, ScanInv, VerdictOfSources, Verdict, ScanOk, IdleJob, ScanPc, Native, AfterVerify

LEMMA DisturbedStays == TypeOK /\ [Next]_vars /\ ~ disturbed' => ~ disturbed
<1> SUFFICES ASSUME TypeOK, [Next]_vars, disturbed PROVE disturbed'
  OBVIOUS
<1> USE DEF Rest, environment, artifacts
<1>1. ASSUME NEW p \in Procs, ScanStep(p) PROVE disturbed'
  BY <1>1 DEF ScanStep, Preflight, SourceBefore, KeepCache, DropDatabase, DropMarker, Reparse,
              Verify, Analyze, Collect, SourceAfter, WriteMarker
<1>2. ASSUME NEW p \in Procs, CommandStep(p) PROVE disturbed'
  BY <1>1, <1>2 DEF CommandStep, LoadRegistry, ReportSnapshot, ReportVerdict, Propose, Load,
                    CheckIdentity, CheckPins, Install
<1>3. ASSUME NEW p \in Procs, Start(p) \/ Fail(p) \/ NativeEnds(p) PROVE disturbed'
  BY <1>3 DEF Start, Fail, NativeEnds
<1>4. ASSUME NEW p \in Procs, Die(p) \/ NativeFails(p) PROVE disturbed'
  BY <1>4 DEF Die, NativeFails, Abandon
<1>5. CASE OrphanEnds \/ Review \/ EditSources
  BY <1>5 DEF OrphanEnds, Review, EditSources
<1>6. CASE EditPins
  BY <1>6 DEF EditPins
<1>7. CASE UNCHANGED vars
  BY <1>7 DEF vars
<1> QED
  BY <1>2, <1>3, <1>4, <1>5, <1>6, <1>7 DEF Next

\* An idle process is of no interest here.
LEMMA IdleOk ==
    ASSUME TypeOK', NEW p \in Procs, job'[p] = IdleJob
    PROVE  CacheOk(p)' /\ ScanOk(p)'
<1>1. job'[p].pc = "idle" /\ job'[p].accepted = NoFile
    BY DEF IdleJob
<1>2. child'[p] = NoFile
    BY <1>1 DEF TypeOK, Native
<1> QED BY <1>1, <1>2 DEF CacheOk, ScanOk, ScanPc, Native, AfterCache, AfterVerify

\* So only the process that takes a step matters.
LEMMA OthersOk ==
    ASSUME TypeOK, TypeOK', JobInv, NEW p \in Procs, NEW j, job[p].pc # "idle",
           job' = [job EXCEPT ![p] = j]
    PROVE  /\ job'[p] = j
           /\ \A q \in Procs : q # p => job'[q] = IdleJob /\ CacheOk(q)' /\ ScanOk(q)'
<1>1. \A q \in Procs : q # p => job'[q] = IdleJob
    BY Alone DEF TypeOK
<1> QED BY <1>1, IdleOk DEF TypeOK

LEMMA EndOk ==
    ASSUME TypeOK, TypeOK', JobInv, NEW p \in Procs, job[p].pc # "idle", End(p)
    PROVE  \A q \in Procs : CacheOk(q)' /\ ScanOk(q)'
<1>1. job'[p] = IdleJob
    BY DEF End, TypeOK
<1> QED BY <1>1, OthersOk, IdleOk DEF End

LEMMA GotoFacts ==
    ASSUME TypeOK, TypeOK', JobInv, NEW p \in Procs, NEW pc, job[p].pc # "idle", Goto(p, pc)
    PROVE  /\ job'[p].pc = pc /\ job'[p].contract = job[p].contract
           /\ job'[p].before = job[p].before /\ job'[p].accepted = job[p].accepted
           /\ job'[p].cmd = job[p].cmd
           /\ \A q \in Procs : q # p => CacheOk(q)' /\ ScanOk(q)'
<1> DEFINE j == [job[p] EXCEPT !.pc = pc]
<1>1. job' = [job EXCEPT ![p] = j]
    BY DEF Goto
<1>2. /\ j.pc = pc /\ j.contract = job[p].contract /\ j.before = job[p].before
      /\ j.accepted = job[p].accepted /\ j.cmd = job[p].cmd
    BY DEF TypeOK, Job
<1> HIDE DEF j
<1> QED BY <1>1, <1>2, OthersOk

LEMMA CacheStep == TypeOK /\ TypeOK' /\ JobInv /\ CacheInv /\ [Next]_vars => CacheInv'
<1> SUFFICES ASSUME TypeOK, TypeOK', JobInv, CacheInv, [Next]_vars, ~ disturbed'
             PROVE  /\ orphans' = {}
                    /\ marker' # NoFile /\ db' # NoFile => db'.by = {marker'}
                    /\ \A p \in Procs : CacheOk(p)'
    BY DEF CacheInv
<1> USE DEF Rest, environment, artifacts
<1>0. /\ orphans = {}
      /\ marker # NoFile /\ db # NoFile => db.by = {marker}
      /\ \A p \in Procs : CacheOk(p)
    BY DisturbedStays DEF CacheInv
<1> DEFINE Goal == /\ orphans' = {}
                   /\ marker' # NoFile /\ db' # NoFile => db'.by = {marker'}
                   /\ \A p \in Procs : CacheOk(p)'
<1>1. ASSUME NEW p \in Procs, Start(p) PROVE Goal
    <2>1. \A q \in Procs : job'[q].pc \in Pc \ ScanPc \/ job'[q].pc = "preflight"
        <3>1. \A q \in Procs : job[q] = IdleJob
            BY <1>1, RatchetAssumption DEF Start, CanStart, JobInv
        <3> QED BY <1>1, <3>1 DEF Start, TypeOK, Job, IdleJob, Pc, ScanPc, Native
    <2>2. \A q \in Procs : child'[q] = NoFile
        BY <2>1 DEF TypeOK, Native, ScanPc
    <2>3. \A q \in Procs : CacheOk(q)'
        BY <2>1, <2>2 DEF CacheOk, ScanPc, Native, AfterCache, AfterVerify
    <2> QED BY <1>0, <1>1, <2>3 DEF Start
<1>2. ASSUME NEW p \in Procs, job[p].pc = "index", child[p] # NoFile
      PROVE  IndexedBy(child[p].contract) = {pins}
    BY <1>0, <1>2 DEF CacheOk, AfterCache, IndexedBy
<1>3. ASSUME NEW p \in Procs, job[p].pc # "idle", End(p), orphans' = orphans, marker' = marker,
             db' = db \/ (job[p].pc = "index" /\ db'.by = {pins})
      PROVE  Goal
    <2>1. \A q \in Procs : CacheOk(q)'
        BY <1>3, EndOk
    <2>2. job[p].pc = "index" => marker \in {NoFile, pins}
        BY <1>0 DEF CacheOk, AfterCache
    <2> QED BY <1>0, <1>3, <2>1, <2>2
<1>4. ASSUME NEW p \in Procs,
             ReportSnapshot(p) \/ ReportVerdict(p) \/ Propose(p) \/ Install(p) \/ Fail(p)
      PROVE  Goal
    BY <1>3, <1>4 DEF ReportSnapshot, ReportVerdict, Propose, Install, Fail
<1>5. ASSUME NEW p \in Procs, Die(p) \/ NativeFails(p) PROVE Goal
    <2>1. job[p].pc # "idle" /\ End(p) /\ marker' = marker
        BY <1>5 DEF Die, Abandon, NativeFails, TypeOK, Native
    <2>2. orphans' = orphans
        BY <1>5 DEF Die, Abandon, NativeFails, TypeOK
    <2>3. db' = db \/ (child[p] # NoFile /\ CutShort(child[p]))
        BY <1>5 DEF Die, Abandon, NativeFails
    <2>4. ASSUME child[p] # NoFile, child[p].command = "index",
                 db' = [src |-> child[p].src, fresh |-> FALSE, by |-> IndexedBy(child[p].contract)]
          PROVE  job[p].pc = "index" /\ db'.by = {pins}
        BY <1>2, <2>4 DEF TypeOK
    <2>5. db' = db \/ (job[p].pc = "index" /\ db'.by = {pins})
        BY <2>3, <2>4 DEF CutShort
    <2> QED BY <1>3, <2>1, <2>2, <2>5
<1>6. ASSUME NEW p \in Procs, Preflight(p) \/ LoadRegistry(p) PROVE Goal
    <2> DEFINE j == IF Preflight(p) THEN [job[p] EXCEPT !.contract = pins, !.pc = "before"]
                    ELSE [job[p] EXCEPT !.accepted = registry, !.pc = "preflight"]
    <2>1. job' = [job EXCEPT ![p] = j] /\ job[p].pc # "idle"
        BY <1>6 DEF Preflight, LoadRegistry, TypeOK, Job
    <2>2. j.pc = "preflight" \/ (j.pc = "before" /\ j.contract = pins)
        BY DEF TypeOK, Job
    <2> HIDE DEF j
    <2>3. child'[p] = NoFile
        BY <2>1, <2>2, OthersOk DEF TypeOK, Native
    <2>4. CacheOk(p)'
        BY <1>6, <2>1, <2>2, <2>3, OthersOk
           DEF CacheOk, Preflight, LoadRegistry, AfterCache, AfterVerify
    <2> QED BY <1>0, <1>6, <2>1, <2>4, OthersOk DEF Preflight, LoadRegistry
<1>7. ASSUME NEW p \in Procs, SourceBefore(p) PROVE Goal
    <2> DEFINE j == [job[p] EXCEPT !.before = Identity, !.pc = "show"]
    <2>1. job' = [job EXCEPT ![p] = j] /\ job[p].pc # "idle" /\ job[p].contract = pins
        BY <1>0, <1>7 DEF SourceBefore, TypeOK, Job, CacheOk, ScanPc
    <2>2. j.pc = "show" /\ j.contract = job[p].contract
        BY DEF TypeOK, Job
    <2> HIDE DEF j
    <2>3. child'[p].contract = pins
        BY <1>7 DEF SourceBefore, TypeOK
    <2>4. CacheOk(p)'
        BY <1>7, <2>1, <2>2, <2>3, OthersOk DEF CacheOk, SourceBefore, AfterCache, AfterVerify
    <2> QED BY <1>0, <1>7, <2>1, <2>4, OthersOk DEF SourceBefore
<1>8. ASSUME NEW p \in Procs, NEW pc \in ScanPc \ Native, job[p].pc \in ScanPc \ {"preflight"},
             Goto(p, pc), pins' = pins, orphans' = orphans,
             marker' # NoFile /\ db' # NoFile => db'.by = {marker'},
             pc = "marker" => db' = NoFile,
             pc \in AfterCache => marker' \in {NoFile, pins} /\ (db' # NoFile => db'.by = {pins})
      PROVE  Goal
    <2>1. job[p].pc # "idle" /\ job[p].contract = pins
        BY <1>0, <1>8 DEF CacheOk, ScanPc, Native
    <2>2. job'[p].pc = pc /\ job'[p].contract = pins
        BY <1>8, <2>1, GotoFacts
    <2>3. child'[p] = NoFile
        BY <1>8, <2>2 DEF TypeOK
    <2>4. CacheOk(p)'
        BY <1>8, <2>2, <2>3 DEF CacheOk
    <2> QED BY <1>0, <1>8, <2>1, <2>4, GotoFacts
<1>9. ASSUME NEW p \in Procs, NEW pc \in Native, job[p].pc \in ScanPc \ {"preflight"},
             Spawn(p, pc), pins' = pins, orphans' = orphans, marker' = marker,
             db' = NoFile \/ db'.by = db.by, db = NoFile => db' = NoFile,
             job[p].pc \in AfterCache
      PROVE  Goal
    <2>1. job[p].pc # "idle" /\ job[p].contract = pins
        BY <1>0, <1>9 DEF CacheOk, ScanPc, Native
    <2>2. job'[p].pc = pc /\ job'[p].contract = pins
        BY <1>9, <2>1, GotoFacts DEF Spawn
    <2>3. child'[p].contract = pins
        BY <1>9 DEF Spawn, TypeOK
    <2>4. marker \in {NoFile, pins} /\ (db # NoFile => db.by = {pins})
        BY <1>0, <1>9 DEF CacheOk
    <2>5. CacheOk(p)'
        BY <1>9, <2>2, <2>3, <2>4 DEF CacheOk, Native
    <2>6. \A q \in Procs : CacheOk(q)'
        BY <1>9, <2>1, <2>5, GotoFacts DEF Spawn
    <2>7. marker' # NoFile /\ db' # NoFile => db'.by = {marker'}
        BY <1>9, <2>4
    <2> QED BY <1>0, <1>9, <2>6, <2>7
<1>10. ASSUME NEW p \in Procs, ScanStep(p) PROVE Goal
    <2> USE <1>10
    <2>1. CASE KeepCache(p)
        <3>1. job[p].contract = pins
            BY <1>0, <2>1 DEF KeepCache, CacheOk, ScanPc
        <3>2. marker = pins /\ db # NoFile /\ UNCHANGED <<pins, orphans, marker, db>>
            BY <2>1, <3>1 DEF KeepCache
        <3>3. db.by = {pins}
            BY <1>0, <3>2, RatchetAssumption DEF TypeOK
        <3>4. Goto(p, "reparse") /\ job[p].pc \in ScanPc \ {"preflight"} /\ "reparse" \in ScanPc \ Native
            BY <2>1 DEF KeepCache, ScanPc, Native
        <3> QED BY <1>8, <3>2, <3>3, <3>4
    <2>2. CASE DropDatabase(p)
        BY <1>0, <1>8, <2>2 DEF DropDatabase, ScanPc, Native, AfterCache, AfterVerify
    <2>3. CASE DropMarker(p)
        <3>1. db = NoFile
            BY <1>0, <2>3 DEF DropMarker, CacheOk
        <3> QED BY <1>8, <2>3, <3>1 DEF DropMarker, ScanPc, Native
    <2>4. CASE Reparse(p)
        <3>1. db' = NoFile \/ db'.by = db.by
            BY <2>4 DEF Reparse, TypeOK, Database
        <3>2. job[p].pc \in ScanPc \ {"preflight"} /\ job[p].pc \in AfterCache /\ "index" \in Native
            BY <2>4 DEF Reparse, ScanPc, Native, AfterCache
        <3>3. db = NoFile => db' = NoFile
            BY <2>4 DEF Reparse
        <3>4. Spawn(p, "index") /\ pins' = pins /\ orphans' = orphans /\ marker' = marker
            BY <2>4 DEF Reparse
        <3> QED BY <1>9, <3>1, <3>2, <3>3, <3>4
    <2>5. CASE Verify(p) \/ Analyze(p, "main", "resetMain") \/ Analyze(p, "loose", "resetLoose")
        BY <1>9, <2>5 DEF Verify, Analyze, ScanPc, Native, AfterCache, AfterVerify
    <2>6. CASE Collect(p) \/ SourceAfter(p)
        <3>1. marker \in {NoFile, pins} /\ (db # NoFile => db.by = {pins})
            BY <1>0, <2>6 DEF CacheOk, Collect, SourceAfter, AfterCache, AfterVerify
        <3> QED BY <1>0, <1>8, <2>6, <3>1 DEF Collect, SourceAfter, ScanPc, Native
    <2>7. CASE WriteMarker(p)
        <3>1. job[p].contract = pins /\ (db # NoFile => db.by = {pins})
            BY <1>0, <2>7 DEF CacheOk, WriteMarker, AfterCache, AfterVerify, ScanPc
        <3> QED BY <1>8, <2>7, <3>1 DEF WriteMarker, ScanPc, Native
    <2> QED BY <1>6, <1>7, <2>1, <2>2, <2>3, <2>4, <2>5, <2>6, <2>7 DEF ScanStep
<1>11. ASSUME NEW p \in Procs, Load(p) \/ CheckIdentity(p) \/ CheckPins(p) PROVE Goal
    <2>1. job'[p].pc \in UpdatePc
        BY <1>11 DEF Load, CheckIdentity, CheckPins, Goto, TypeOK, Job, UpdatePc
    <2>2. job' = [job EXCEPT ![p] = job'[p]] /\ job[p].pc # "idle"
        BY <1>11 DEF Load, CheckIdentity, CheckPins, Goto, TypeOK, Job
    <2>3. child'[p] = NoFile
        BY <2>1 DEF TypeOK, UpdatePc, Native
    <2>4. CacheOk(p)'
        BY <2>1, <2>3 DEF CacheOk, UpdatePc, ScanPc, Native, AfterCache, AfterVerify
    <2> QED BY <1>0, <1>11, <2>2, <2>4, OthersOk DEF Load, CheckIdentity, CheckPins
<1>12. ASSUME NEW p \in Procs, NativeEnds(p) PROVE Goal
    <2> DEFINE c == child[p]
    <2>1. /\ c # NoFile /\ c.command = job[p].pc /\ job[p].pc \in Native
          /\ Writes(c) /\ Goto(p, NextPc(job[p].pc))
          /\ UNCHANGED <<orphans, marker, pins>>
        BY <1>12 DEF NativeEnds, TypeOK
    <2>2. NextPc(job[p].pc) \in ScanPc \ Native /\ NextPc(job[p].pc) # "marker"
        BY <2>1 DEF NextPc, Native, ScanPc
    <2>3. job[p].pc \in ScanPc \ {"preflight"}
        BY <2>1 DEF Native, ScanPc
    <2>4. NextPc(job[p].pc) \in AfterCache => job[p].pc \in AfterCache
        BY <2>1 DEF NextPc, Native, AfterCache, AfterVerify
    <2>5. db' = db \/ (job[p].pc = "index" /\ db'.by = {pins})
        BY <1>2, <2>1 DEF Writes
    <2>6. job[p].pc \in AfterCache => marker \in {NoFile, pins} /\ (db # NoFile => db.by = {pins})
        BY <1>0 DEF CacheOk
    <2>7. "index" \in AfterCache
        BY DEF AfterCache
    <2> HIDE DEF c
    <2> QED BY <1>0, <1>8, <2>1, <2>2, <2>3, <2>4, <2>5, <2>6, <2>7
<1>13. CASE OrphanEnds
    BY <1>0, <1>13 DEF OrphanEnds
<1>14. CASE Review \/ EditSources \/ UNCHANGED vars
    BY <1>0, <1>14 DEF Review, EditSources, vars, CacheOk
<1>15. CASE EditPins
    <2>1. \A p \in Procs : job[p].pc \notin ScanPc
        BY <1>15 DEF EditPins, Scanning
    <2>2. \A p \in Procs : child[p] = NoFile
        BY <2>1 DEF TypeOK, ScanPc
    <2> QED BY <1>0, <1>15, <2>1, <2>2
            DEF EditPins, CacheOk, ScanPc, Native, AfterCache, AfterVerify
<1> QED BY <1>1, <1>4, <1>5, <1>6, <1>7, <1>10, <1>11, <1>12, <1>13, <1>14, <1>15
        DEF Next, CommandStep

\* In a cache of the pinned contract an analysis finds the clusters of the sources
\* that were indexed.
LEMMA FoundIsTier ==
    ASSUME db.by = {pins}, NEW tier
    PROVE  Found(tier) = TierOf(tier)
BY DEF Found, TierOf

LEMMA TiersAreAll ==
    ASSUME TypeOK, db # NoFile
    PROVE  ClustersOf[pins][db.src] = TierOf("exact") \cup TierOf("main") \cup TierOf("loose")
<1>1. ClustersOf[pins][db.src] \subseteq Clusters
    BY RatchetAssumption DEF TypeOK, Database
<1> QED BY <1>1, RatchetAssumption DEF TierOf

LEMMA ScanStepKeeps ==
    TypeOK /\ TypeOK' /\ JobInv /\ CacheInv /\ ScanInv /\ [Next]_vars => ScanInv'
<1> SUFFICES ASSUME TypeOK, TypeOK', JobInv, CacheInv, ScanInv, [Next]_vars, ~ disturbed'
             PROVE  VerdictOfSources' /\ \A q \in Procs : ScanOk(q)'
    BY DEF ScanInv, VerdictOfSources
<1> USE DEF Rest, environment, artifacts
<1>0. /\ ~ disturbed /\ orphans = {}
      /\ \A p \in Procs : CacheOk(p) /\ ScanOk(p)
    BY DisturbedStays DEF CacheInv, ScanInv
<1> DEFINE Goal == \A q \in Procs : ScanOk(q)'
<1>1. ASSUME evidence' = evidence PROVE VerdictOfSources'
    BY <1>0, <1>1 DEF ScanInv, VerdictOfSources, Verdict
<1>2. ASSUME NEW verdict \in {"error", "snapshot"}, evidence' = Evidence(verdict) PROVE VerdictOfSources'
    BY <1>2 DEF VerdictOfSources, Verdict, Evidence
<1>3. ASSUME NEW p \in Procs, Start(p) PROVE VerdictOfSources' /\ Goal
    <2>1. \A q \in Procs : job[q] = IdleJob
        BY <1>3, RatchetAssumption DEF Start, CanStart, JobInv
    <2>2. \A q \in Procs : job'[q].accepted = NoFile /\ job'[q].pc \notin ScanPc \ {"preflight"}
        BY <1>3, <2>1 DEF Start, TypeOK, IdleJob, ScanPc, Native
    <2>3. Goal
        BY <2>2 DEF ScanOk, ScanPc, Native, AfterVerify
    <2> QED BY <1>1, <1>3, <2>3 DEF Start
<1>4. ASSUME NEW p \in Procs, Preflight(p) \/ LoadRegistry(p) PROVE VerdictOfSources' /\ Goal
    <2> DEFINE j == IF Preflight(p) THEN [job[p] EXCEPT !.contract = pins, !.pc = "before"]
                    ELSE [job[p] EXCEPT !.accepted = registry, !.pc = "preflight"]
    <2>1. job' = [job EXCEPT ![p] = j] /\ job[p].pc # "idle"
        BY <1>4 DEF Preflight, LoadRegistry, TypeOK, Job
    <2>2. /\ j.pc \in {"preflight", "before"}
          /\ j.accepted = job[p].accepted \/ (LoadRegistry(p) /\ j.accepted = registry)
        BY <1>4 DEF TypeOK, Job
    <2> HIDE DEF j
    <2>3. j.accepted # NoFile => j.accepted.profile = pins
        BY <1>0, <2>2 DEF ScanOk, LoadRegistry
    <2>4. pins' = pins /\ evidence' = evidence
        BY <1>4 DEF Preflight, LoadRegistry
    <2>5. job'[p] = j /\ \A q \in Procs : q # p => ScanOk(q)'
        BY <2>1, OthersOk
    <2>6. ScanOk(p)'
        BY <2>2, <2>3, <2>4, <2>5 DEF ScanOk, ScanPc, AfterVerify
    <2> QED BY <1>1, <2>4, <2>5, <2>6
<1>5. ASSUME NEW p \in Procs, SourceBefore(p) PROVE VerdictOfSources' /\ Goal
    <2> DEFINE j == [job[p] EXCEPT !.before = Identity, !.pc = "show"]
    <2>1. job' = [job EXCEPT ![p] = j] /\ job[p].pc # "idle"
        BY <1>5 DEF SourceBefore, TypeOK, Job
    <2>2. j.pc = "show" /\ j.before = Identity /\ j.accepted = job[p].accepted
        BY DEF TypeOK, Job
    <2> HIDE DEF j
    <2>3. Identity \in Identities /\ Identity.src =< src
        BY IdentityTypes DEF Identity, TypeOK, Sources
    <2>4. UNCHANGED <<src, pins, evidence>>
        BY <1>5 DEF SourceBefore
    <2>5. job'[p] = j /\ \A q \in Procs : q # p => ScanOk(q)'
        BY <2>1, OthersOk
    <2>6. j.accepted # NoFile => j.accepted.profile = pins
        BY <1>0, <2>2 DEF ScanOk
    <2>7. ScanOk(p)'
        BY <2>2, <2>3, <2>4, <2>5, <2>6 DEF ScanOk, ScanPc, Native, AfterVerify
    <2> QED BY <1>1, <2>4, <2>5, <2>7
<1>6. ASSUME NEW p \in Procs, NEW pc \in ScanPc, Goto(p, pc),
             job[p].pc \in ScanPc \ {"preflight", "before"}, UNCHANGED <<src, pins, evidence>>,
             pc \in AfterVerify =>
                /\ db' # NoFile /\ job[p].before.src =< db'.src /\ db'.src =< src,
             pc \in {"resetLoose", "loose", "collect"} => report'.main = TierOf("main")',
             pc = "collect" => report'.loose = TierOf("loose")',
             pc \in {"source", "mark", "report"} =>
                /\ manifest' # NoFile /\ manifest'.profile = pins
                /\ manifest'.clusters = ClustersOf[pins][db'.src]
                /\ db'.src =< manifest'.id.src,
             pc \in {"mark", "report"} => manifest'.id = job[p].before
      PROVE  VerdictOfSources' /\ Goal
    <2>1. job[p].pc # "idle"
        BY <1>6 DEF ScanPc, Native
    <2>2. /\ job'[p].pc = pc /\ job'[p].before = job[p].before /\ job'[p].accepted = job[p].accepted
          /\ \A q \in Procs : q # p => ScanOk(q)'
        BY <1>6, <2>1, GotoFacts
    <2>3. /\ job[p].before \in Identities /\ job[p].before.src =< src
          /\ job[p].accepted # NoFile => job[p].accepted.profile = pins
        BY <1>0, <1>6 DEF ScanOk
    <2>4. ScanOk(p)'
        BY <1>6, <2>2, <2>3 DEF ScanOk
    <2> QED BY <1>1, <1>6, <2>2, <2>4
<1>7. ASSUME NEW p \in Procs, job[p].pc \in AfterVerify
      PROVE  /\ db # NoFile /\ job[p].before.src =< db.src /\ db.src =< src
             /\ db.by = {pins} /\ job[p].contract = pins
             /\ job[p].pc \in ScanPc \ {"preflight", "before"}
    <2>1. job[p].pc \in ScanPc \ {"preflight", "before"} /\ job[p].pc \in AfterCache
        BY <1>7 DEF AfterVerify, AfterCache, ScanPc, Native
    <2> QED BY <1>0, <1>7, <2>1 DEF ScanOk, CacheOk
<1>8. ASSUME NEW p \in Procs, KeepCache(p) \/ DropDatabase(p) \/ DropMarker(p) \/ Reparse(p)
      PROVE  VerdictOfSources' /\ Goal
    <2>1. PICK pc \in {"reparse", "marker", "index"} : Goto(p, pc)
        BY <1>8 DEF KeepCache, DropDatabase, DropMarker, Reparse, Spawn
    <2>2. /\ job[p].pc \in ScanPc \ {"preflight", "before"}
          /\ UNCHANGED <<src, pins, evidence>>
        BY <1>8 DEF KeepCache, DropDatabase, DropMarker, Reparse, ScanPc
    <2>3. pc \in ScanPc /\ pc \notin AfterVerify /\ pc \notin {"resetLoose", "loose", "collect"}
          /\ pc \notin {"source", "mark", "report"}
        BY DEF ScanPc, Native, AfterVerify
    <2> QED BY <1>6, <2>1, <2>2, <2>3
<1>9. ASSUME NEW p \in Procs, Verify(p) PROVE VerdictOfSources' /\ Goal
    <2>1. Goto(p, "embed") /\ UNCHANGED <<src, pins, evidence, db>> /\ db # NoFile /\ db.src = src
        BY <1>9 DEF Verify, Spawn
    <2>2. job[p].pc \in ScanPc \ {"preflight", "before"} /\ "embed" \in ScanPc
        BY <1>9 DEF Verify, ScanPc, Native
    <2>3. job[p].before.src =< src /\ src =< src
        BY <1>0, <2>2 DEF ScanOk, TypeOK, Sources
    <2> QED BY <1>6, <2>1, <2>2, <2>3
<1>10. ASSUME NEW p \in Procs, Analyze(p, "main", "resetMain") \/ Analyze(p, "loose", "resetLoose")
       PROVE  VerdictOfSources' /\ Goal
    <2>1. job[p].pc \in AfterVerify /\ UNCHANGED <<src, pins, evidence, db, manifest>>
        BY <1>10 DEF Analyze, AfterVerify
    <2>2. "main" \in ScanPc /\ "loose" \in ScanPc
        BY DEF ScanPc, Native
    <2>3. CASE Analyze(p, "main", "resetMain")
        <3>1. Goto(p, "main")
            BY <2>3 DEF Analyze, Spawn
        <3> QED BY <1>6, <1>7, <2>1, <2>2, <3>1
    <2>4. CASE Analyze(p, "loose", "resetLoose")
        <3>1. Goto(p, "loose")
            BY <2>4 DEF Analyze, Spawn
        <3>2. report'.main = report.main
            BY <2>4 DEF Analyze, TypeOK
        <3>3. report.main = TierOf("main")
            BY <1>0, <2>4 DEF Analyze, ScanOk
        <3>4. TierOf("main")' = TierOf("main")
            BY <2>1 DEF TierOf
        <3> QED BY <1>6, <1>7, <2>1, <2>2, <3>1, <3>2, <3>3, <3>4
    <2> QED BY <1>10, <2>3, <2>4
<1>11. ASSUME NEW p \in Procs, Collect(p) PROVE VerdictOfSources' /\ Goal
    <2>1. /\ job[p].pc = "collect" /\ Goto(p, "source") /\ UNCHANGED <<src, pins, evidence, db>>
          /\ manifest' = [profile |-> job[p].contract, id |-> Identity,
                          clusters |-> Found("exact") \cup report.main \cup report.loose]
        BY <1>11 DEF Collect
    <2>2. /\ db # NoFile /\ job[p].before.src =< db.src /\ db.src =< src
          /\ db.by = {pins} /\ job[p].contract = pins
          /\ job[p].pc \in ScanPc \ {"preflight", "before"}
        BY <1>7, <2>1 DEF AfterVerify
    <2>3. report.main = TierOf("main") /\ report.loose = TierOf("loose")
        BY <1>0, <2>1 DEF ScanOk
    <2>4. manifest'.clusters = ClustersOf[pins][db.src]
        BY <2>1, <2>2, <2>3, FoundIsTier, TiersAreAll
    <2>5. manifest' # NoFile
        <3>1. manifest' \in Document
            BY <2>1, <2>2, <2>4, IdentityTypes, FoundTypes, TiersAreAll, RatchetAssumption
               DEF Document, TypeOK, Database
        <3> QED BY <3>1, RatchetAssumption
    <2>6. manifest'.profile = pins /\ manifest'.id.src = src
        BY <2>1, <2>2 DEF Identity
    <2>7. "source" \in ScanPc
        BY DEF ScanPc
    <2> QED BY <1>6, <2>1, <2>2, <2>4, <2>5, <2>6, <2>7
<1>12. ASSUME NEW p \in Procs, SourceAfter(p) \/ WriteMarker(p) PROVE VerdictOfSources' /\ Goal
    <2>1. PICK pc \in {"mark", "report"} : Goto(p, pc)
        BY <1>12 DEF SourceAfter, WriteMarker
    <2>2. /\ job[p].pc \in {"source", "mark"} /\ UNCHANGED <<src, pins, evidence, db, manifest>>
        BY <1>12 DEF SourceAfter, WriteMarker
    <2>3. manifest.id = job[p].before
        BY <1>0, <1>12 DEF SourceAfter, WriteMarker, ScanOk
    <2>4. /\ manifest # NoFile /\ manifest.profile = pins
          /\ manifest.clusters = ClustersOf[pins][db.src]
          /\ db.src =< manifest.id.src
        BY <1>0, <2>2 DEF ScanOk
    <2>5. job[p].pc \in AfterVerify /\ pc \in ScanPc
        BY <2>2 DEF AfterVerify, ScanPc
    <2> QED BY <1>6, <1>7, <2>1, <2>2, <2>3, <2>4, <2>5
<1>13. ASSUME NEW p \in Procs, NativeEnds(p) PROVE VerdictOfSources' /\ Goal
    <2> DEFINE c == child[p]
    <2>1. /\ c # NoFile /\ c.command = job[p].pc /\ job[p].pc \in Native
          /\ Writes(c) /\ Goto(p, NextPc(job[p].pc))
          /\ UNCHANGED <<src, pins, evidence, manifest>>
        BY <1>13 DEF NativeEnds, TypeOK
    <2> HIDE DEF c
    <2>2. job[p].pc \in ScanPc \ {"preflight", "before"}
        BY <2>1 DEF Native, ScanPc
    <2>3. CASE job[p].pc \in {"show", "index"}
        <3>1. PICK pc \in {"cache", "verify"} : Goto(p, pc)
            BY <2>1, <2>3 DEF NextPc
        <3>2. pc \in ScanPc /\ pc \notin AfterVerify
            BY DEF ScanPc, AfterVerify
        <3> QED BY <1>6, <2>1, <2>2, <3>1, <3>2
    <2>4. CASE job[p].pc = "embed"
        <3>1. Goto(p, "resetMain") /\ db' = db
            BY <2>1, <2>4 DEF NextPc, Writes
        <3>2. "resetMain" \in ScanPc /\ job[p].pc \in AfterVerify
            BY <2>4 DEF ScanPc, AfterVerify
        <3> QED BY <1>6, <1>7, <2>1, <2>2, <3>1, <3>2
    <2>5. CASE job[p].pc \in {"main", "loose"}
        <3>1. db' = db /\ report' = [report EXCEPT ![c.command] = Found(c.command)]
            BY <2>1, <2>5 DEF Writes
        <3>2. job[p].pc \in AfterVerify
            BY <2>5 DEF AfterVerify
        <3>3. Found(c.command) = TierOf(c.command)
            BY <1>7, <3>2, FoundIsTier
        <3>4. \A tier : TierOf(tier)' = TierOf(tier)
            BY <2>1, <3>1 DEF TierOf
        <3>5. report'[job[p].pc] = TierOf(job[p].pc)
            BY <2>1, <2>5, <3>1, <3>3 DEF TypeOK
        <3>6. CASE job[p].pc = "main"
            <4>1. Goto(p, "resetLoose") /\ "resetLoose" \in ScanPc
                BY <2>1, <3>6 DEF NextPc, ScanPc
            <4> QED BY <1>6, <1>7, <2>1, <2>2, <3>1, <3>2, <3>4, <3>5, <3>6, <4>1
        <3>7. CASE job[p].pc = "loose"
            <4>1. Goto(p, "collect") /\ "collect" \in ScanPc
                BY <2>1, <3>7 DEF NextPc, ScanPc
            <4>2. report'.main = report.main
                BY <2>1, <3>1, <3>7 DEF TypeOK
            <4>3. report.main = TierOf("main")
                BY <1>0, <3>7 DEF ScanOk
            <4> QED BY <1>6, <1>7, <2>1, <2>2, <3>1, <3>2, <3>4, <3>5, <3>7, <4>1, <4>2, <4>3
        <3> QED BY <2>5, <3>6, <3>7
    <2> QED BY <2>1, <2>3, <2>4, <2>5 DEF Native
<1>14. ASSUME NEW p \in Procs, ReportVerdict(p) PROVE VerdictOfSources' /\ Goal
    <2> DEFINE accepted == job[p].accepted
    <2>1. /\ job[p].pc = "report" /\ job[p].cmd = "gate" /\ End(p) /\ UNCHANGED <<pins, manifest>>
          /\ evidence'.verdict = IF /\ manifest.profile = accepted.profile
                                    /\ manifest.clusters = DOMAIN accepted.review
                                 THEN "green" ELSE "blocked"
          /\ evidence'.src = manifest.id.src /\ evidence'.profile = manifest.profile
          /\ evidence'.accepted = DOMAIN accepted.review
        BY <1>14 DEF ReportVerdict
    <2>2. accepted # NoFile /\ accepted.profile = pins
        BY <1>0, <2>1 DEF JobInv, ScanOk, ScanPc
    <2>3. /\ manifest # NoFile /\ manifest.profile = pins /\ manifest.id = job[p].before
          /\ manifest.clusters = ClustersOf[pins][db.src]
          /\ db.src =< manifest.id.src
        BY <1>0, <2>1 DEF ScanOk
    <2>4. db # NoFile /\ job[p].before.src =< db.src
        BY <1>7, <2>1 DEF AfterVerify
    <2>5. db.src \in Sources /\ manifest.id.src \in Sources
        BY <2>3, <2>4 DEF TypeOK, Database, Document, Identities
    <2>6. db.src = manifest.id.src
        BY <2>3, <2>4, <2>5 DEF Sources
    <2>7. VerdictOfSources'
        BY <2>1, <2>2, <2>3, <2>6 DEF VerdictOfSources, Verdict
    <2> QED BY <2>1, <2>7, EndOk
<1>15. ASSUME NEW p \in Procs,
              ReportSnapshot(p) \/ Propose(p) \/ Install(p) \/ Fail(p) \/ Die(p) \/ NativeFails(p)
       PROVE  VerdictOfSources' /\ Goal
    <2>1. End(p) /\ job[p].pc # "idle"
        BY <1>15 DEF ReportSnapshot, Propose, Install, Fail, Die, Abandon, NativeFails, TypeOK, Native
    <2>2. evidence' \in {evidence, Evidence("error"), Evidence("snapshot")}
        BY <1>15 DEF ReportSnapshot, Propose, Install, Fail, Die, Abandon, NativeFails
    <2> QED BY <1>1, <1>2, <2>1, <2>2, EndOk
<1>16. ASSUME NEW p \in Procs, Load(p) \/ CheckIdentity(p) \/ CheckPins(p) PROVE VerdictOfSources' /\ Goal
    <2>1. /\ job'[p].pc \in UpdatePc /\ job'[p].accepted = job[p].accepted
          /\ job[p].pc \notin ScanPc
        BY <1>16 DEF Load, CheckIdentity, CheckPins, Goto, TypeOK, Job, UpdatePc, ScanPc, Native
    <2>2. job' = [job EXCEPT ![p] = job'[p]] /\ job[p].pc # "idle"
        BY <1>16 DEF Load, CheckIdentity, CheckPins, Goto, TypeOK, Job
    <2>3. job'[p].accepted = NoFile
        BY <1>0, <2>1 DEF ScanOk
    <2>4. ScanOk(p)'
        BY <2>1, <2>3 DEF ScanOk, UpdatePc, ScanPc, Native, AfterVerify
    <2>5. Goal
        BY <2>2, <2>4, OthersOk
    <2> QED BY <1>1, <1>16, <2>5 DEF Load, CheckIdentity, CheckPins
<1>17. CASE OrphanEnds
    BY <1>0, <1>17 DEF OrphanEnds
<1>18. CASE Review \/ UNCHANGED vars
    <2>1. UNCHANGED <<src, pins, job, db, report, manifest, evidence>>
        BY <1>18 DEF Review, vars
    <2> QED BY <1>0, <1>1, <2>1 DEF ScanOk, TierOf
<1>19. CASE EditSources
    <2>1. UNCHANGED <<pins, job, db, report, manifest, evidence>> /\ src' = src + 1 /\ src \in Int
        BY <1>19 DEF EditSources, TypeOK, Sources
    <2>2. ASSUME NEW p \in Procs PROVE ScanOk(p)'
        <3>1. ScanOk(p)
            BY <1>0
        <3>2. job[p].before \in Identities => job[p].before.src \in Int
            BY DEF Identities, Sources
        <3>3. db # NoFile => db.src \in Int
            BY DEF TypeOK, Database, Sources
        <3>4. \A tier : TierOf(tier)' = TierOf(tier)
            BY <2>1 DEF TierOf
        <3> QED BY <2>1, <3>1, <3>2, <3>3, <3>4 DEF ScanOk
    <2> QED BY <1>1, <2>1, <2>2
<1>20. CASE EditPins
    <2>1. \A p \in Procs : job[p].pc \notin ScanPc
        BY <1>20 DEF EditPins, Scanning
    <2>2. UNCHANGED <<job, evidence>>
        BY <1>20 DEF EditPins
    <2> QED BY <1>0, <1>1, <2>1, <2>2 DEF ScanOk, ScanPc, Native, AfterVerify
<1>21. ASSUME NEW p \in Procs, ScanStep(p) PROVE VerdictOfSources' /\ Goal
    BY <1>4, <1>5, <1>8, <1>9, <1>10, <1>11, <1>12, <1>21 DEF ScanStep
<1> QED BY <1>3, <1>4, <1>13, <1>14, <1>15, <1>16, <1>17, <1>18, <1>19, <1>20, <1>21
        DEF Next, CommandStep

-----------------------------------------------------------------------------
(* What a green verdict rests on.                                          *)

\* What a person has said stays said.
LEMMA DecidedGrows == [Next]_vars => decided \subseteq decided'
<1> SUFFICES ASSUME [Next]_vars PROVE decided \subseteq decided'
    OBVIOUS
<1> USE DEF Rest, environment, artifacts
<1>1. ASSUME NEW p \in Procs, ScanStep(p) PROVE decided' = decided
    BY <1>1 DEF ScanStep, Preflight, SourceBefore, KeepCache, DropDatabase, DropMarker, Reparse,
                Verify, Analyze, Collect, SourceAfter, WriteMarker
<1>2. ASSUME NEW p \in Procs, CommandStep(p) PROVE decided' = decided
    BY <1>1, <1>2 DEF CommandStep, LoadRegistry, ReportSnapshot, ReportVerdict, Propose, Load,
                      CheckIdentity, CheckPins, Install
<1>3. ASSUME NEW p \in Procs, Start(p) \/ Fail(p) \/ NativeEnds(p) PROVE decided' = decided
    BY <1>3 DEF Start, Fail, NativeEnds
<1>4. ASSUME NEW p \in Procs, Die(p) \/ NativeFails(p) PROVE decided' = decided
    BY <1>4 DEF Die, NativeFails
<1>5. CASE OrphanEnds \/ EditSources \/ EditPins
    BY <1>5 DEF OrphanEnds, EditSources, EditPins
<1>6. CASE Review
    BY <1>6 DEF Review
<1>7. CASE UNCHANGED vars
    BY <1>7 DEF vars
<1> QED
    BY <1>2, <1>3, <1>4, <1>5, <1>6, <1>7 DEF Next

\* Only a gate that reports writes a verdict.
LEMMA EvidenceSteps ==
    ASSUME [Next]_vars
    PROVE  \/ evidence' \in {evidence, Evidence("error"), Evidence("snapshot")}
           \/ \E p \in Procs : ReportVerdict(p)
<1> USE DEF Rest, environment, artifacts
<1>1. ASSUME NEW p \in Procs, ScanStep(p) PROVE evidence' = evidence
    BY <1>1 DEF ScanStep, Preflight, SourceBefore, KeepCache, DropDatabase, DropMarker, Reparse,
                Verify, Analyze, Collect, SourceAfter, WriteMarker
<1>2. ASSUME NEW p \in Procs, CommandStep(p), ~ ReportVerdict(p)
      PROVE  evidence' \in {evidence, Evidence("snapshot")}
    BY <1>1, <1>2 DEF CommandStep, LoadRegistry, ReportSnapshot, Propose, Load,
                      CheckIdentity, CheckPins, Install
<1>3. ASSUME NEW p \in Procs, Start(p) \/ Fail(p) \/ NativeEnds(p)
      PROVE  evidence' \in {evidence, Evidence("error")}
    BY <1>3 DEF Start, Fail, NativeEnds
<1>4. ASSUME NEW p \in Procs, Die(p) \/ NativeFails(p)
      PROVE  evidence' \in {evidence, Evidence("error")}
    BY <1>4 DEF Die, NativeFails
<1>5. CASE OrphanEnds \/ EditSources \/ EditPins \/ Review
    BY <1>5 DEF OrphanEnds, EditSources, EditPins, Review
<1>6. CASE UNCHANGED vars
    BY <1>6 DEF vars
<1> QED
    BY <1>2, <1>3, <1>4, <1>5, <1>6 DEF Next

\* A green verdict is of a registry that is still there and was reviewed.
LEMMA GreenStep ==
    ASSUME TypeOK, JobInv, ScanInv, RegistryReviewed, GreenReviewed, [Next]_vars
    PROVE  GreenReviewed'
<1>1. CASE evidence' \in {evidence, Evidence("error"), Evidence("snapshot")}
    <2>1. Verdict("green")' => evidence' = evidence /\ Verdict("green")
        BY <1>1 DEF Verdict, Evidence
    <2> QED BY <2>1, DecidedGrows DEF GreenReviewed
<1>2. ASSUME NEW p \in Procs, ReportVerdict(p), Verdict("green")'
      PROVE  GreenReviewed'
    <2> DEFINE accepted == job[p].accepted
    <2>1. /\ job[p].pc = "report" /\ job[p].cmd = "gate" /\ decided' = decided
          /\ evidence'.verdict = IF /\ manifest.profile = accepted.profile
                                    /\ manifest.clusters = DOMAIN accepted.review
                                 THEN "green" ELSE "blocked"
          /\ evidence'.profile = manifest.profile
          /\ evidence'.accepted = DOMAIN accepted.review
        BY <1>2 DEF ReportVerdict
    <2>2. accepted = registry /\ registry # NoFile
        BY <2>1 DEF JobInv, ScanPc
    <2>3. evidence'.profile = registry.profile
        BY <1>2, <2>1, <2>2 DEF Verdict
    <2>4. \A c \in DOMAIN registry.review : registry.review[c] \in Classes
        BY <2>2 DEF TypeOK, Registry, Reviews
    <2>5. \A c \in evidence'.accepted :
            [profile |-> evidence'.profile, candidate |-> CandidateOf(c),
             class |-> registry.review[c]] \in decided
        BY <2>1, <2>2, <2>3 DEF RegistryReviewed
    <2> HIDE DEF accepted
    <2> QED BY <2>1, <2>2, <2>4, <2>5 DEF GreenReviewed
<1> QED BY <1>1, <1>2, EvidenceSteps DEF GreenReviewed

-----------------------------------------------------------------------------
IInv == TypeOK /\ JobInv /\ ReviewInv /\ CacheInv /\ ScanInv /\ GreenReviewed

LEMMA Invariance == Spec => []IInv
<1>1. Init => IInv
    <2>1. Init => GreenReviewed
        BY DEF Init, GreenReviewed, Verdict
    <2> QED BY <2>1, TypeInit, JobInit, ReviewInit, CacheInit, ScanInit DEF IInv
<1>2. IInv /\ [Next]_vars => IInv'
    <2>1. IInv /\ [Next]_vars => GreenReviewed'
        BY GreenStep DEF IInv, ReviewInv
    <2> QED BY <2>1, TypeStep, JobStep, ReviewStep, CacheStep, ScanStepKeeps DEF IInv
<1> QED BY <1>1, <1>2, PTL DEF Spec

\* Every file holds what its readers take it to hold, and a process waits for a native
\* command exactly in the stages of a scan that run one.
THEOREM RatchetTypeCorrect == Spec => []TypeOK
<1>1. IInv => TypeOK
    BY DEF IInv
<1> QED BY <1>1, Invariance, PTL

\* However many commands are started, and wherever they fail or are killed, at most one
\* is under way, and the registry and the manifest it has read are still the files'.
THEOREM CommandsAlone == Spec => []InputsHold
<1>1. IInv => InputsHold
    BY DEF IInv, JobInv, InputsHold
<1> QED BY <1>1, Invariance, PTL

\* propose-baseline keeps a review only for the group it was given for, and
\* update-baseline installs no other: a person has classified all that is accepted.
THEOREM OnlyReviewed == Spec => []RegistryReviewed
<1>1. IInv => RegistryReviewed
    BY DEF IInv, ReviewInv
<1> QED BY <1>1, Invariance, PTL

\* The marker is removed before a database is built anew and written after it is
\* verified, so a kill in between leaves no marker that claims too much.
THEOREM MarkerTrusted == Spec => []MarkerHonest
<1>1. IInv => MarkerHonest
    BY DEF IInv, CacheInv, MarkerHonest
<1> QED BY <1>1, Invariance, PTL

\* A scan that sees the same sources before and after has indexed those: the verdict of
\* a gate is the comparison of their clusters with the registry, and a green one says
\* that a person has classified each of these.
THEOREM VerdictsTrue == Spec => []VerdictTrue
<1>1. IInv => VerdictTrue
    BY DEF IInv, ScanInv, VerdictTrue
<1> QED BY <1>1, Invariance, PTL
=============================================================================
