# Verification of shrtlnk

shrtlnk is a Telegram bot that shortens links and an HTTP server that redirects
the short codes, in one Go process over one SQLite file. A Python tool that
keeps code duplication from growing (`tools/slopo_harness`) lives beside it.
This directory holds a TLA+ model of the program, the TLC configurations that
check it, and TLAPS proofs of what matters most.

## Inventory

| component | source | state | operations | modelled in |
|---|---|---|---|---|
| store | `internal/shortener/store.go` | table `links`, `user_version`, the handle | `FindUserURL`, `Resolve`, `CodeExists`, `ByUser`, `Insert`, `SetTitleIfEmpty`, `Close`; `OpenStore`, `migrate` | `LinkStore`, `Migration` |
| service | `internal/shortener/service.go` | `writeMu`, `fetchSem`, `fetchWG`, `fetchDone`, `closed` | `Shorten`, `Links`, `Resolve`, `startTitleFetch`, `Wait` | `TitleFetches`, `Shortener` |
| links | `internal/shortener/link.go` | none | `ValidateURL`, `GenerateCode`, `TitleFor`, `DisplayTitle` | abstracted in `LinkStore`, `Shortener` |
| process | `main.go` | the context, the first error, the deferred calls | `run` | `App` |
| redirect | `internal/redirect/server.go` | the listener and its connections | `NewHandler`, `Run` | `Redirect`, `App` |
| bot | `internal/telegram/*.go` | the messages in the chats, one goroutine per update | `Run`, `handleLinks`, `handleLinksCallback`, `handleDefault`, `handleStart` | `LinksList`, `App` |
| page titles | `internal/pagetitle/*.go` | none | `Title`, `extractTitle`, the pinned transport | environment of `TitleFetches` |
| configuration | `config/config.go` | none | `NewConfig` | not yet |
| ratchet | `tools/slopo_harness/ratchet.py` | lock, index cache and marker, manifest, proposal, registry; a native command with its pipe | `gate`, `snapshot`, `propose-baseline`, `update-baseline`, `_run_bounded_process` | `Ratchet`, `BoundedProcess`, `ClusterCompare` |

The bot runs one goroutine per update and calls `Shorten` and `Links`; the
redirect server calls `Resolve` from one goroutine per connection; `Shorten`
starts a goroutine that fetches the page title and writes it with an `UPDATE`.
They meet in the store, whose pool of four connections lets their statements
interleave, in `writeMu`, which makes find-then-insert one critical section,
and in the semaphore and WaitGroup of the fetches. `main` starts bot and server
on one context, cancels it when either fails, waits for both, then runs its
deferred `svc.Wait` and `store.Close`.

What is hard: find-then-insert against the UNIQUE constraints; an insert that
commits and still reports an error; the process dying anywhere; the hand-off of
a fetch slot and the close of the service racing with both ends of it; `Add`
racing with `Wait`; handler goroutines that outlive the bot; a shutdown with
requests under way; a migration whose statements are separate transactions;
buttons pressed against a list that has changed; a scan of minutes over sources
and settings that people edit, in a tool that is killed; native commands that print
too much, never end, or leave children behind. `PROJECT.json` lists them under
`hazards`, each with its line and the properties that cover it.

## Modules

```
LinkRegistry                 what the service promises
LinkStore                    the table and its statements
  TitleFetches               + the pool of title fetches, Wait
    Shortener                + Shorten, the life of the process; implements LinkRegistry
      Redirect               + the answers of the HTTP routes
        App                  + main, the bot, the server; implements Shortener
Migration                    OpenStore and migrate, before the service exists
LinksList                    the /links messages and their buttons
Ratchet                      the commands of the duplication ratchet and their files
NativeCommand                what a scan may rely on when it runs slopo
  BoundedProcess             how it runs a native command and stops it; implements NativeCommand
ClusterCompare               how it compares clusters with the registry
*Proofs                      the theorems about each; MC* the instances for TLC
```

**LinkStore.** `links` is the table in order of id, `storeOpen` the handle. One
statement is one atomic step. `Insert` appends unless a UNIQUE constraint is
violated; `SetTitleIfEmpty` is the `UPDATE ... WHERE code = ? AND title = ''`.
URLs, users and codes are model values; a title is the pair of page and page
title that `TitleFor` computes it from. `created_at` decides nothing and is left
out.

**TitleFetches.** `fetch` is the goroutine of each code and how far it is;
`fetchSem` the values in the buffered channel, `semQueue` the goroutines parked
in the `select`; `fetchWG`, `closed` and `wait` are the WaitGroup, the flag with
its channel, and the callers of `Wait`. Receiving from a full buffer hands the
slot to the first parked sender in the same step, as a Go channel does; closing
`fetchDone` wakes all parked goroutines; a `select` with both cases ready takes
either. The critical sections of `fetchMu` do not block and are one step each.

**Shortener.** `call` is the call each handler goroutine is in: `Shorten`
(validation), `Lock`, `Find`, `Generate` (one turn of the attempt loop up to
`CodeExists`), `InsertLink`, `StartFetch`; every statement may fail
(`StatementFails`), and an insert may fail after its commit
(`InsertInterrupted`). `issued` is history: what `Shorten` returned. `Crash`
drops everything but the table; `Restart` opens the file again. Handlers run in
any state of the process, also while and after `main` closes the store, because
the bot library does not wait for them.

**Redirect.** `Get(path)` is the set of answers of the HTTP handler in a state.

**App.** `telegram`, `redirect`, `listener`, `conn`, `inShutdown`, `firstErr` and
`ctxDone` are the variables of `main.run`, `telegram.Run` and `redirect.Run`; the
actions of `Shortener` are taken under their guards (`MainWaits` needs both parts
ended). net/http and the bot library are modelled from how the code uses them:
`Shutdown` closes idle connections and waits for the active ones for 10 s, a
listener that fails closes nothing, updates run in goroutines nobody waits for.

**Migration.** `version` and `table` are the file, `pc` how far each starting
process is. Each statement is a transaction; a start stops between any two
(`Stop`), and two processes may start on one file.

**LinksList.** `total` is the number of links of each user, `message` what the
chats show, `handler` the goroutine of each update. A snapshot of `ByUser` is
its length, for the list only grows and is read in order of id. A Bot API call
takes effect or not. Presses are handled late, twice and out of order.

**Ratchet.** `job` is the command each process runs and how far it is, `child`
the native slopo command it waits for, `lock` the flock. `db`, `marker`,
`report`, `manifest`, `evidence` and `proposal` are the files of `.slopo/local`,
`registry` the versioned one. `src` numbers the contents of the sources, `pins`
is the contract (profile and slopo revision) that the pinned files say; people
edit both at any time (`EditSources`, `EditPins`) and classify candidates
(`Review`). Each action is the part of a handler between two effects that others
can see. Every step can raise (`Fail`, which leaves an error as evidence) or be
cut off (`Die`); a native command fails or reaches its deadline (`NativeFails`).
Either way a process of the command may go on (`Abandon`, `OrphanEnds`): after a kill
of the scan the command itself, otherwise a child of it, as `BoundedProcess` shows.
`SameDecision` is the check that clusters of one kind and member set, of whichever
profile, have one decision; both readers of the registry make it. What slopo finds is
the constant `ClustersOf`; a database that two contracts wrote finds the clusters
of both. `decided` and `disturbed` are history.

**BoundedProcess.** One call of `_run_bounded_process`. `pc` is how far it is, with
the loop over the output, `_terminate_process_group` and the finally clause as
stages; `timedOut`, `overflow`, `size` and `kept` are its local variables,
`reaped` says that the leader was waited for. `proc`, `writers`, `pipe` and
`written` are the group of the command, who has the write end of the pipe, and
what was printed, in chunks. Processes print, fork, close their output, ignore
SIGTERM and exit as they like, but die of SIGKILL, some time later; the deadline passes
(`Expire`) and a KeyboardInterrupt comes (`Interrupt`) at any time.

**NativeCommand** is what a scan sees of such a call: a command that runs, forks and
prints until the call has an outcome. It has ended before an outcome other than an
exception; accepted output is all that was and will be printed; a killed group neither
forks nor prints; a child may go on. `NativeEnds` of `Ratchet` is its `Accept`,
`NativeFails` and `Abandon` are its `Reject` and `Raise` with nobody or somebody left.
`Outcome`, `Alive` and `Started` are the refinement mapping of `BoundedProcess`.

**ClusterCompare.** `_match_clusters` as its two loops, the second in any order;
`Findings`, `MemberLineage`, `ReviewCandidates` and `RequiresReview` are what
`_compare`, `_member_lineage`, `_review_candidates_from_findings` (with
`_cluster_lineage` and `_merge_lineages`) and `_proposal_review_projection`
compute from the pairs. A member is its fingerprint and has a body; a cluster is
its tier and members.
`Ratchet` uses what is shown here: green means equal cluster sets, and a review
is kept for groups the registry has unchanged.

Code that is not under `src/` (the operating system, the Go runtime, net/http,
the bot library, Telegram, slopo) is modelled from how the code uses it and
marked external in the map.

## Runs

| run | instance | shows |
|---|---|---|
| `shorten_safety` | 2 callers, 2 users, 2 URLs, 2 codes, 2 attempts, 1 fetch slot, 2 callers of `Wait` | `NoInsertConflict`, `IssuedStored`, `IssuedConsistent`, `OneFetchPerLink`, `SlotsMatchHolders`, `ParkedForAReason`, `FetchesDrained`, `ImplementsRegistry` |
| `shorten_liveness` | 2 callers, 2 URLs, 2 codes, 1 slot | `CallsReturn`, `FetchesEnd`, `ShutdownCompletes` |
| `close_race` | 1 caller, 1 code | violation of `NoFetchStartsAfterClose` |
| `redirect_healthz` | the code `healthz` | violation of `EveryIssuedRedirects` |
| `app` | 1 handler, 2 URLs, 2 codes, one of them `healthz`, 1 connection | `IssuedRedirects`, `RequestsBeforeClose`, `CleanExitAfterSignal`, `ImplementsShortener`, `StopsTogether` |
| `migration` | 3 processes | `ServingOnCurrentSchema`, `NewDatabaseServes` |
| `migration_interrupted` | 1 process | violation of `Version1Serves` |
| `cluster_compare` | 4 members of 3 bodies, 3 tiers, 2 profiles, documents of up to 2 clusters | `EachClusterOnce`, `GreenIffAccepted`, `LineageBalances`, `KeptOnlyIfAccepted` |
| `ratchet` | 2 processes, 3 commands, 2 contracts, 2 classes, 1 edit of the sources, 1 of the pinned files | `InputsHold`, `MarkerHonest`, `VerdictTrue`, `RegistryReviewed` |
| `bounded_process` | a command with 2 children, 2 chunks of output allowed, 2 in the pipe | `ImplementsNativeCommand`, `SignalsOwnGroup`, `CommandStopped`, `CallReturns` |
| `ratchet_leftover` | 1 process, 3 commands, 1 edit of the sources | violation of `RegistryTrue` |
| `links_list` | 2 users, 5 links, pages of 2, 2 handlers, 1 message | `PagingIsWhole`, `ChatShowsOwnLinks`, `OwnPressAnswered` |

The bounds are the smallest that reach the interesting cases: two callers race
for one user and URL, or draw one code; two codes exhaust two attempts; two
fetches over one slot make one of them park until the other hands its slot over;
three starts of a migration overlap a read, a change and a stop; five links in
pages of two give a first, a middle and an incomplete last page; two clusters
against two merge, split and overlap ambiguously, and a pair may move one of two
occurrences of a body; one child outlives the leader while another holds the pipe, and
one chunk more than the limit is cut; three commands are a snapshot, a proposal and an update,
or a gate under one contract, one under another and one that meets what they
left. One connection is enough in `app`: connections meet only in the store and in
the shutdown, which waits for each, and `RequestsServed` is proved for any number
of them. The code's own constants are larger (5 attempts, 4 slots, 10 links a page)
and no case depends on more than one, two or several. Symmetry is used only in runs without liveness
properties. `MaxLinks`, `Messages`, `MaxEdits`, `MaxPins`, `MaxRuns` and the finite
sets are the only bounds; no run needs a state constraint. A comparison and a
call of `BoundedProcess` end and the commands of `Ratchet` are bounded, so these runs
do not check for deadlock.

`Generate` joins `GenerateCode` with the statement after it, since the former
touches no shared state. In the other direction nothing is joined that the code
does not do under a lock or in one statement.

## Fairness

- A call under way and a fetch under way make progress: statements return
  because of `busy_timeout(5000)` and their contexts, and `Title` must respect
  the 5 s of its context.
- `sync.Mutex` hands the lock to a waiter that has starved for 1 ms, so `Lock` is
  strongly fair; the rest of a call is weakly fair.
- `Wait`, `CloseStore` and `Exit` are weakly fair: `main` runs on.
- In `App` also: `tgbot.New` has a timeout, a `select` with a ready case takes
  one, `Shutdown` closes idle connections and returns within its 10 s, `launch`
  records an error and cancels.
- In `Migration` a process that ended is started again (`restart:
  unless-stopped`), and a statement tried again for ever succeeds once.
- In `BoundedProcess` the ratchet runs on and the clock does (`select` waits 0.1 s at
  most, `wait` has a timeout); nothing makes the command or a child print, close its
  output or exit, not even of SIGKILL, so `CallReturns` does not lean on them.
- Nothing makes users, clients, signals, failures, crashes or restarts of a
  serving process happen.

## What the checks found

- `migration_interrupted`: `ALTER TABLE` and `PRAGMA user_version = 2` are two
  transactions. A start that stops between them leaves a version 1 file with the
  column, and each later start fails on the duplicate column. A new file has no
  such trap (`NewDatabaseServes`): its statements say `IF NOT EXISTS`.
- `close_race`: a goroutine that was counted but has not reached its `select`
  when `Wait` closes the service may still take a slot and download. `Wait` waits
  for it, so no write is lost (`FetchesDrained`), but the comment on `Wait` says
  that new fetches are forbidden.
- `ratchet_leftover`: a scan installs its manifest, under the identity the sources
  have by then, before it compares the identities, and leaves it there when they
  differ. The scan fails, but `propose-baseline` and `update-baseline` accept the
  manifest, and the registry then lists the clusters of the old sources as those
  of the new. The next gate sees it, for it scans again.
- `redirect_healthz`: `healthz` is a code `GenerateCode` can draw, and the health
  check answers in place of its redirect.

Known and not against any document: a title lost to a failure or a crash is
never fetched again; a listener error that arrives together with a cancelled
context may be dropped with status 0; a listener that fails on its own leaves
open connections to a closed store; edits of one list message can arrive out of
order. `MarkerHonest` and `VerdictTrue` say nothing of a scan during which the
pinned files were edited, or after which a native command, or a child of one,
still ran (`disturbed`): then one contract can write a database that is marked with
another.

Against a comment, but without a run of its own: `_terminate_process_group` says
(ratchet.py:2055) that terminating the group "prevents a child from continuing to
run". It returns as soon as the leader has ended, so a child that ignores SIGTERM
gets no SIGKILL when the leader does not ignore it. `CommandStopped` therefore
promises the end of the whole group only where SIGKILL was sent, and `Ratchet` lets
such a child write on.

## Proofs

All theorems hold for every value of the constants, under the assumptions named
in the modules: finitely many codes, at least one slot and one attempt, sentinel
values distinct from real ones, and finitely many members of clusters (a fingerprint
is a digest of a fixed length). They do not assume finitely many users, URLs,
callers, connections, processes or children. Every safety property that a passing
run checks is proved.

*Shortener* (`TitleFetchesProofs`, `ShortenerProofs`). The
inductive invariant `IInv` is the conjunction of `TypeOK`; `PoolInv` (the
semaphore counts the holders, the queue holds exactly the parked, the WaitGroup
counts the live, a returned `Wait` means none); `MutexInv` (who is past `Lock`
owns `writeMu`); `CallInv` (what a call has established at each point: no row
for its user and URL, no row with its code, its row); `FetchRowInv` (a fetch
belongs to a row with its URL); `TableInv` (uniqueness, titles from their own
page); `IssuedStored`; and `LifeInv` (the store of a running process is closed
only after `main`'s `Wait`). None of the checked invariants is inductive alone:
`NoInsertConflict` needs that nobody else is past `Lock`, `FetchesDrained` needs
that the WaitGroup counts the goroutines, `OneFetchPerLink` needs that fetches
belong to rows. From `Invariance` follow `TypeCorrect`, `InsertNeverConflicts`,
`IssuedDurable`, `Idempotent`, `FetchStartsOnce`, `SlotsExact`, `NoLostWakeup` and
`WaitDrains`; `Refinement` proves that the service implements `LinkRegistry`
under the mapping `Registered`, `Named`. `TableOnlyGrows` is its action property: a
step appends a row, fills an empty title, or leaves the table alone.

*App* (`AppProofs`): every step of the process is a step of `Shortener` or leaves
it unchanged (`AppRefinement`), so all of the above holds in the process, among it
`AppImplementsRegistry` and, with the types of the parts (`PartsTypeOK` is inductive
by itself), `AppTypeCorrect`. `RedirectsIssued` follows from `IssuedStored` and
`TableInv`; `RequestsServed` and `CleanExit` follow from `StopInv` and `ExitInv`, which
order the shutdown.

*ClusterCompare* (`ClusterCompareProofs`): `PairInv`, `CurrentInv` and `ClaimInv` say
where each cluster of either document is after any prefix of the loop, and that
nothing is there twice; from it follow `MatchedOnce`, `GreenMeansAccepted` and
`KeptMeansAccepted`, for documents of any size. `EvidenceBalances` builds on them in
three steps. `PairsBalance`: `_member_lineage` pairs the members of one body by zipping
two sorted lists, each a bijection with its finite set (`SetToSeqLists`), so
it names each member once and moves as many occurrences as both sides have.
`LineagesCover`, `LineagesName`: the lineages of a finding name its own clusters and
no others. `MergeKeeps`: merging the findings of one candidate loses none. Then no
cluster is in two findings (`MatchedOnce`), so none is in two candidates.

*Migration* (`MigrationProofs`): `MigrationSafe`, from `SchemaInv`: the version is
written last, and what a start has run or found is on the file. What the run
`migration_interrupted` shows of one process is proved of any number: on a version 1
file only the process that added the column goes on to write the version (`UpgradeInv`),
so its end in between leaves the file in `Trapped` (`InterruptedIsTrapped`), which no
step leaves (`TrappedForEver`). A new file never gets there (`NewFileSafe`).

*LinksList* (`LinksListProofs`), for any number of users, handlers and messages and
any page size. First the arithmetic: `PageCount` (the last page has a link and
reaches the end of the list), `PageCountMonotone`, `PageLines` (which numbers a page
has) and `NeighbouringPages`. The inductive invariant says of a message that it is
one page of a list its user has had (`ShowsAPage`), and of a handler what it has
established (`Knows`): the press of a button of the bot comes from the chat of its
message, for a page that the list has by now, for lists only grow
(`StillKnows`). From it follow `OwnChat`, `PressAnswered` and `PagesJoin`.

*BoundedProcess* (`BoundedProcessProofs`), for any set of children, limit and
capacity of the pipe. The invariant balances the output (`size` and what is in the
pipe is what was written; `kept` is `size` up to the limit; nobody writes once the
end was read), ties `reaped` to the end of the leader and to the stages where the
group is not signalled any more, and says that after SIGKILL none of the group
runs, so none forks. From it follow `OutputComplete`, `OwnGroupSignalled`, `CommandEnds`
and the step simulation of `NativeRefinement`: a step of the call is a launch, a kill, an
outcome, or nothing that the scan can see.

*Ratchet* (`RatchetProofs`), for any number of processes, commands, edits and
contracts, and whatever an analysis finds (`ClustersOf` is any function). `JobInv`:
a process that is not idle has the lock, so all others are idle, and what it has
read is what the files say (`CommandsAlone`). `ReviewInv`: each decision in the
proposal, in the copy that an update has read and in the registry has been given by
a person (`OnlyReviewed`). `CacheInv`: from the check of the cache on, the database is of
the pinned contract alone and the marker says nothing else (`MarkerTrusted`).
`ScanInv`: after the verification, the sources of the database are those of a time
between the first look at them and now; when the second look agrees with the first,
that time has no choice left, so a verdict is that of the sources it names
(`VerdictOfSources`). `GreenReviewed`: a gate is green for the clusters and the profile of
the registry that it has read, which is still the registry (`JobInv`), all of it
reviewed (`ReviewInv`), and what a person has decided stays decided (`DecidedGrows`);
so it outlives the registry it was given for. Both together are `VerdictsTrue`.

*Progress.* Liveness itself is out of the prover's reach (fairness and ENABLED), but what it
rests on is not: that whoever waits has somebody to wait for, and that nothing goes in
circles. Both are proved, as an invariant and as variants that only fall:

| liveness | nobody waits for nobody | the variant |
|---|---|---|
| `CallsReturn`, `FetchesEnd` | `NoDeadlock` (lock, slot, WaitGroup) | `CallsBounded`: the attempts left and the stage; `FetchesBounded`: the stage of a goroutine, which is never started twice; `FetchesInOrder`: the place in the queue |
| `ShutdownCompletes`, `StopsTogether` | `AppNoDeadlock`, `ShutdownNeverStuck`, from `CancelInv`: a part of the server that is on its way out has cancelled the context of both | `ShutdownBounded`: the stages of the parts, of `Wait`, and of each connection |
| `CallReturns` | each stage has a step that needs nothing of the command | `DeadlineBoundsCall`: the stages left, at most 19, none of them given back by output, forks or interrupts |
| `NewDatabaseServes` | `NewFileSafe`: no statement of a start on a new file fails for what earlier starts left (`StatementsSucceed`) | none: a start can be stopped any number of times |

The runs then check, with the fairness, that the steps that can be taken are taken.

Model-checked only: every liveness property, and the violations. Nothing is proved by
induction over data, and no module with theorems uses a recursive
operator: recursion in what is to be proved about is written as a function.

## Not modelled

- Texts and formatting of messages, `handleStart` and `buildLogger`: no state, and
  no property is about a wording.
- `NewConfig`: a pure function of a file and the environment, read once.
- The algorithms of `ValidateURL`, `GenerateCode` and `DisplayTitle`, and the limits
  of a title fetch in `internal/pagetitle`: sequential code on strings and network
  answers. The service sees of it a title, nothing or an error, after at most 5 s.
- In the ratchet: parsing and validation of documents, paths and settings, the atomic
  replacement of a file (one step in the model, as `os.replace` makes it), a lock
  file that a person replaces while a command runs, the `check` command, which the
  launcher does not call.
- The scripts, CI and container files; `synchronous(NORMAL)`, which can lose the
  last commits on a power loss; deadlines as durations (a timeout is a step that may
  happen).

## Plan

Next, in this order: `PageTitle` (limits on body, redirects and addresses of a
title fetch, as a fault model of the answers); `CodeGen` (rejection sampling),
`TitleText` (truncation, `DisplayTitle`), `UrlSyntax` (`ValidateURL`, IPv4 and IPv6
literals) and `Config` (priority of sources) as operators checked against reference
definitions on small inputs. In the proofs: an abstract specification of the accepted
baseline (what a person has reviewed, what the registry lists, what a green gate says)
that `Ratchet` implements.
