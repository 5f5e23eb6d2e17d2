# TLA+ models of the scripture search engine

The repository holds a deterministic scripture search engine and the localhost
workbench with which reviewers change what it answers. The engine is pure; the
workbench is where things can go wrong in ways tests hardly reach: it mutates a
git repository from several asynchronous activities, survives being killed,
hands long-running work to processes it has to stop, and lets people edit the
same files by hand. These modules model the protocols of the workbench, from the
atomic multi-file write up to the draft pull request of a train and the
monitoring of what it shipped, and two computations that decide what is
shipped: one search of the engine, and the battery row of the gauntlet.

Paths below are relative to the repository; `W/` stands for `workbench/src/`.

## 1. Inventory

| Component | State it keeps | Operations | Hard behaviour | What makes it correct | Modelled |
|---|---|---|---|---|---|
| Apply journal (`W/applyJournal.ts`) | repository files; `workbench/.state/journals/*`: journal file, `staging/` and `backups/` directories, target temporaries | `createMutationPlan`, `applyMutationPlan` and its two variants, `recoverMutationJournals`, locked readers | a call may die or throw between any two writes, recovery included; people edit files by hand | all files of a plan change or none; readers see whole states; recovery always finishes unless somebody tampered; foreign bytes are written over only if they came after the last look | partly |
| Repository lock and reclaim guard (`W/applyJournal.ts`) | `mutation-apply.lock`, reclaim guards under four kinds of names, the in-process set of held owner ids | acquire, release, reclaim of a stale or malformed lock | the owner may be dead, alive, or not yet registered; guards of dead reclaimers; renames under somebody's feet | one holder; a reclaimer leaves a live holder's file alone; the lock of a dead owner is reclaimed | yes |
| Job runner (`W/jobRunner.ts`) | one state file per run, the active run, a child process, timers | enqueue, cancel, timeout, close, kill, publish, prune, shutdown, start-up recovery | callbacks between awaits; kill or sync failures; restart with a live orphan | a live process keeps admission and lock; files stay restorable; every run ends; a timeout is never "passed" | yes |
| Server composition (`W/server.ts`, `W/startupPreflight.ts`) | `activeRepositoryMutation`, `trainStageChainHalted`, `trainStagesAdvancing`, promise tails, degraded mode | HTTP routes; `advanceDataTrainStages` | routes that take the slot next to routes that do not; work nobody awaits | operations that may not overlap do not; the unattended chain resumes; every request is answered | partly |
| Data-update trains (`W/trainRunner.ts`, `W/trainStages.ts`, `W/trainStageCli.ts`) | evidence registry; everything else is derived from artifacts | seal, read, sign, record a stop, stages build, measure, gauntlet | server, stage process, reviewer and GitHub act at the same time on unlocked files | one train at a time; evidence precedes and outlives the train; nothing without effect is published | partly |
| Updates log and board (`W/updatesStore.ts`, `W/updatesOperations.ts`, `W/deriveUpdates.ts`) | `updates.jsonl`, append only | decide, append, parse, fold, derive | validated and written in two steps by several stores | a card rides one train; a stopped train releases it | partly |
| Judgment log and fixture compiler (`W/judgments.ts`, `W/effectiveJudgments.ts`, `W/compileJudgments.ts`) | `judgments.jsonl`, compiled fixtures | append, correct, retract, preview, apply | long chains of corrections; inputs that move between preview and apply; a line that is torn | one effective judgment per subject; what is compiled is what was reviewed | partly |
| Case log and review sessions (`W/cases.ts`, `W/reviewCases.ts`, `W/reviewSessions.ts`, `W/blindComparison.ts`) | event chains, snapshots by token | append, fold, select, resume, judge blind | several windows and servers; a request sent again | the fold of a log is a legal state; an event is taken for the present revision only | partly |
| Proposals, studio and signing (`W/proposals.ts`, `W/studioOperations.ts`, `W/signingOperations.ts`, ...) | concept files, the file of studio sessions, baselines with their approvals | validate, apply, record, sign | two implementations of one application; overlapping requests; three files written one after the other | both applications agree; what was answered is recorded; an approval is of what was derived | partly |
| Comparison runner (`W/comparisonRunner.ts`) | four immutable report files closed by a commit marker | run, publish, load | death between files, another publisher | a publication is whole or ignored, and never replaced | yes |
| Candidates, admission and publication (`W/candidateBuilder.ts`, `W/admission.ts`, `W/admissionPublishOperations.ts`, `W/publishPreparation.ts`, `W/worktreeProvision.ts`) | candidate cache, admission manifests, publish journals, worktrees, branches, pull requests | build, preview, admit, prepare, push, open draft | long git protocol, main moving, GitHub failing, resumption | what was admitted is what is published, once | partly |
| Post-merge monitoring (`W/postMergeMonitoring.ts`) | event chains of cases, evidence handed to the caller | detect a merge, verify main, report, advise recovery | main moves on or is rewritten between the calls | a chain follows the merge and the checks that warrant it | yes |
| Telemetry audit (`W/telemetryAudit.ts`) | staged distillates, receipts, the case log | preview, apply, close | crash between its writes; events appended beside it | an audit is merged once; a closed one stays deleted | yes |
| Fixture promotion and machine reports (`W/fixturePromotion.ts`, `eval/src/gauntletMachineReport.ts`) | one report file | publish, verify freshness, promote | the tree edited while it is measured | an accepted report was measured on what is there | partly |
| Health, inbox, dashboard and diagnostics | none of their own | projections of logs and reports | stale inputs | read-only | the health of the gauntlet only |
| Workbench pages and snapshots | none | rendering | - | - | no |
| Query engine (`engine/src`) | none | ladder of evidence, budgets, ranking, thinning, collapse | numeric edges of the budgets | deterministic total order; budgets respected | partly |
| Engine's text handling (`engine/src`) | none | SQL, spelling, grammar of references | - | - | no |
| Artifact client (`artifact-client/src`) | a downloaded content database | download, verify, rename | interrupted download | only a verified file is installed | no |
| Evaluation gauntlet (`eval/src/gauntlet.ts`, `eval/src/gates/rankMetrics.ts`) | markers and reports | run, gates, battery row | concurrent runs and edits | a verdict rests on what was measured | partly |
| Other gates and reports (`eval/src`) | none | functions of files to a verdict | - | - | what they demand of approvals |
| Build pipeline (`pipeline/src`) | content database, candidate cache | import, build, apply a proposal | builders of one path; dead ones | one builder at a time; what is published is whole | the cache and `applyProposal` |
| Query sweep; conformance and curation tools; CI scripts | none | sequential scripts | - | - | no |
| Ontology, fixtures, descriptors, docs | data | - | - | - | no |

How they interact. Every durable multi-file write of the workbench goes through
the apply journal (`compileJudgments`, `fixturePromotion`, `studioOperations`,
`telemetryAudit`, `blindComparison`, `comparisonRunner`, `publishPreparation`,
`admission`, and the job runner's own recovery), and the journal takes the
repository lock. The job runner holds the same lock while a check's process is
alive; the server recovers journals at start-up (`W/server.ts:439`). Some files
are exceptions: `updates.jsonl`, `judgments.jsonl` and `cases.jsonl` are
extended with `appendFile`, the evidence registry and the files of a signing are
rewritten with `writeFile`; their readers validate instead. The server keeps
repository operations apart with one variable, `activeRepositoryMutation`, and
with `jobRunner.getActive()`; card decisions, reads of a train, cases, judgments
and audits take neither.

## 2. Modules

| Module | Models | State and actions |
|---|---|---|
| `AtomicApply` | the promise of the journal, an abstract specification: compare-and-swap of several files | `store`, `plan`, `fate`, `seen`; `Create`, `Commit`, `Reject`, `Edit`, `Read` |
| `ApplyJournal` | `W/applyJournal.ts`, the journal | one action per durable write: directories, journal states, staged bytes, backups, temporaries, renames, deletions, cleanup; `Interrupt*` are deaths and thrown errors between and inside them; recovery preflight, redo and cleanup are actions of the call that does them |
| `RepositoryLock` | `W/applyJournal.ts`, the lock | one action per file-system call of `acquireRepositoryLock`, `releaseRepositoryLock`, `reclaimStaleLock`, `reclaimInvalidLock` and the guard; tasks are placed in processes by `ProcOf` |
| `JobRunner` | `W/jobRunner.ts` | `at[j]` is where `start()` of run j awaits; each action is the code up to the next await; callbacks (cancel, timeout, close, confirmation, kill) are actions of their own |
| `CandidateCache` | the lock directory and the publication of a candidate path (`pipeline/src/buildCandidate.ts`, `W/candidateBuilder.ts`) | `mkdir` and the owner record are two actions; reclaiming is rename, second look, removal or return; `BeingMade`, `claimed` and `robbed` are history for the properties |
| `UpdatesLog` | `W/updatesStore.ts` | operators: validation (`Legal`, `Readable`) and the fold (`StateOf`, `Frozen`, `Decision`, ...) of a sequence of events |
| `DataUpdateTrain` | `W/trainRunner.ts`, `W/trainStages.ts`, `W/updatesOperations.ts`, the routes of `W/server.ts` that use them | five activities with their own control state (`decide`, `view`, `op`, `stopper`, `job`) over the log, the registry and `main`; an action is the code up to the next await that another activity can notice |
| `WriteOnce` | the promise of a comparison's publication: a register that is written once | `report`, `wanted`, `told`; `Call`, `Write`, `Tell`, `Spoil` |
| `ComparisonPublication` | `publishCandidateComparison` of `W/comparisonRunner.ts` | publishers at the grain of the journal record, its mark, each installed file and its removal; validation before and under the lock; a stranger who meddles |
| `DraftPublication` | `prepareDraftPublication` of `W/publishPreparation.ts` | one call at a time over worktree, branch, remote, pull request and the journal of phases; presses again after deaths and failures; others move main, the branch and the remote at any time |
| `Admission` | `runAdmission` of `W/admission.ts` | calls that overlap: preview, worktree, rebuild, verification, hash, audit, manifest, clean-up |
| `ReviewLogs` | case and judgment routes of `W/server.ts`, `W/reviewCases.ts`, `W/judgments.ts` and their readers | two files of lines that may end without a newline, two tails of requests, the store of snapshots; `Torn` is what an append that failed leaves |
| `PostMergeMonitoring` | `W/postMergeMonitoring.ts` | `main` as a history of commits, evidence the caller holds, chains of cases; detect, verify, report, advise |
| `TelemetryAudit` | `W/telemetryAudit.ts` behind `W/studioOperations.ts` | preview, apply and close as callers that read and write under the lock in two sections; the journal with its steps; appends to the case log beside them |
| `ReviewSessions` | `W/reviewSessions.ts` | the selection as one computation; the log of a session written from several windows |
| `BlindComparison` | `BlindComparisonStore` of `W/blindComparison.ts` | transactions of several servers over one journalled log; requests sent again with another opinion |
| `BaselineSigning` | `W/signingOperations.ts` | versions of the code, working tree and HEAD, the form, the three writes of a signing |
| `ProposalApplication` | `W/proposals.ts`, `W/structuredYaml.ts` and `applyProposal` of `pipeline/src/buildCandidate.ts` | operations declared one by one, applied in any order to the candidate and to the files |
| `FixtureCompiler` | `W/compileJudgments.ts`, `W/effectiveJudgments.ts` | a plan made input by input while people vote and edit; preview, review, apply |
| `StudioSessions` | the sessions of `W/studioOperations.ts` | one file read, changed and written as a whole by overlapping requests |
| `QueryRanking` | one search: `createEngine.ts`, `ranking/budgets.ts`, `ranking/rank.ts` of `engine/src` | the ladder rung by rung with any answers of the corpus, then budgets, order, thinning, collapse |
| `Gauntlet` | `eval/src/gauntlet.ts`, `gauntletMachineReport.ts`, `W/fixturePromotion.ts`, `W/health.ts` | runs that read file by file, markers, report, reader, promotion, edits at any point |
| `RankMetrics` | `eval/src/gates/rankMetrics.ts` | what the battery measures, baseline, approval, thresholds, the row, in exact arithmetic |
| `Sorting` | the sorts of `rank` and of `idcgMicroOf` | a finite set in the order of a comparator that is never zero |
| `MCApplyJournal`, `MCRepositoryLock`, `MCJobRunner`, `MCDataUpdateTrain`, `MCTelemetryAudit` | one component each for TLC | model values, plans, initial states |
| `MCCoordination`, `MCAnswers`, `MCRecords`, `MCWorkbench` | several components that do not share state, in one state graph | `which`, chosen in the initial state, says which component runs; the others rest, fairness is that of the one that runs |
| `*_proofs` | theorems, section 5 | |

`DataUpdateTrain` composes the log with the server's admission of operations.
Its stage jobs are what `JobRunner` runs, taken here with the part of its
interface that the trains see: at most one at a time, a result, and a process
that may survive the server. That one is alive at most is
`JobRunner!AdmissionCovers`, checked and proved there. It takes an admission and
a publication as one step each with the outcomes their callers distinguish;
`Admission` and `DraftPublication` are what happens inside. `ApplyJournal` takes
"one call at a time holds the lock" from `RepositoryLock!MutualExclusion`, and
`StudioSessions`, `BlindComparison`, `FixtureCompiler` take an apply as one step,
which is `AtomicApply`.

Operators named `X_Something` after a comment "Mutant:" are deliberate faults:
the same definition with a guard dropped, an order swapped or a reset missing.
They are not part of any specification; each property is shown to be able to
fail by putting one in the place of `X`.

## 3. What the runs check

| Run | Instance | Shows |
|---|---|---|
| `journal_crash` | two plans over two files with two contents, one reader, two deaths, no edits (those are in `workbench`) | `AtomicSpec` (the journal refines `AtomicApply`), `JournalSafe` (at most one journal, and a marked one is prepared), `CleanedOnlyWhenWhole`, `EventuallyClean`, `TypeOK` |
| `workbench` | the journal with one death and one foreign edit, at any step; two requests on the file of two studio sessions; every search over four verses; two runs of the gauntlet with two edits; the battery row over batteries, answers, thresholds, baselines | `RefusedOnlyIfTampered`, `OnlyRollForward`; `StudioHolds`; `GauntletHolds`; `EngineHolds` (the search and the battery row) |
| `coordination_safe` | three calls of the lock in three live processes that die or end; three checks with one death and one failed kill; three builders of one candidate path and the lock of a dead one | `GuardExclusive`, `ReclaimSpares`; `AdmissionCovers`, `HistoryHolds`; `CacheHolds`; `CoordinationTypeOK` |
| `coordination_live` | two calls in processes of their own and the lock of a dead third; two checks whose processes need not end, one death, one failed directory sync | `ReclaimedEventually`; `EventuallySettled` |
| `lock_process` | two calls in one process | a disagreement, section 4 |
| `jobs_spawn` | two checks, spawn with a helper to wait for | a disagreement |
| `answers` | a draft with six commits, two deaths, two failures, one interference between calls or during one; two admissions over twelve kinds of evidence; three publishers of two reports; two requests at a time on the two review logs | `PublishedIsProven`, `NeverReplaced`, `CommittedIsOpened`; `AdmissionHolds`; `MarkerCommitsWhole`, `PublishedOnce` (a refinement of `WriteOnce`); `ReviewsHold`, `TornIsLast`, `EveryoneAnswered`; `EndsAsAnswered`, `AnswersTypeOK` |
| `records` | two audits by two callers with an append and a death; a merged draft whose `main` moves twice; an interrupted operation of every kind, attempted or not; selections from four cases and a session in two windows; a blind review on two servers; two signings over three versions; proposals of up to three operations; up to two judgments compiled with an edit by hand | `AuditsWhole`, `ClosedStaysDeleted`; `MonitoringHolds`; `BlindHolds`; `SigningHolds`; `WrittenAsReviewed` (sessions, proposals, fixtures); `RecordsTypeOK` |
| `cases_lost` | one audit, one append to the case log | a disagreement |
| `trains_safe` | two trains, two cards, three requests of the reviewer, one commit on `main`, one death | `TrainsKeepOrder` (`SingleFlight`, `EvidencePrecedesTrain`, `ConsumedOnce`, `NoEffectNeverPublished`), `EvidenceGrows`, `DataTrainSettles`, `TypeOK` |
| `trains_landed` | one train, no deaths | a disagreement |
| `trains_noeffect` | two trains, four requests | a disagreement |

A run over several components has one state graph in which each behaviour is one
of one component; nothing is interleaved that does not share state, and every
property is still checked in every state.

### Bounds, and why they are enough

*Journal.* Two operations give a call that recovers another one's journal and a
plan that became stale; two files give a commit that is half done; two deaths
give a death in the recovery from a death. A plan may create, change or delete
each file. One edit may fall between any two steps, the last look at a file and
its rename included; a second would be to another file, or to bytes that are
foreign already. A third operation would only repeat the second: recovery leaves no
journal behind before the next plan starts (`AtMostOneJournal`, proved for any
number of operations).

*Lock.* One call whose file is taken away, one that judged it, and one that
creates it anew: three calls in three live processes are what the rename, the
restore and the re-creation of the lock file need (`W/applyJournal.ts:1469`), and
any of them may die, or end, in between. The protocol fails there (section 4);
what it still keeps is `ReclaimSpares`, proved for any number. For the liveness
two live calls and the lock of a dead one do.

*Jobs.* Admission is for one run, so two give a run and its successor; a third
fills the history and makes pruning choose.

*Candidates.* A builder, one that reclaims from it, and one that meets both; the
left-over lock is the fourth owner. Four live builders reach a state that three
do not (section 4); what holds for any number is proved.

*Drafts.* A commit is new for every attempt to build one; with six, no behaviour
of two deaths and two failures runs out of them. *Admissions.* Two that overlap,
under the same or different decisions; one worktree is never another's.
*Comparisons.* Two publishers of one report and one of another. *Reviews.* Two
requests in flight give every race between the look-up of a snapshot and its put;
three requests give an append, a correction and a correction of the same; the
store holds two snapshots, so that a third evicts one.

*Audits.* Two, because a close of one goes through the record of both. *Main*
moves twice: once past the merge, once away from it. *Signing.* Three versions
of which two share an identity or a list, so that equal outputs of different
code are met; one write that is cut short. *Proposals.* Three operations give
two that do not commute and a third between them. *Fixtures.* Two judgments
give one that corrects and one that contradicts.

*Search.* Four verses in two chapters, three of them adjacent, give a passage, a
gap and a second group; spans overlap; the limits are the smallest that bind.
*Gauntlet.* Two runs and two edits: away and back, and between two reads; three
databases, two of one engine.
*Metrics.* Three queries of the three kinds the code tells apart; the
thresholds are off, low and high; two results lie in one judged range, so that
the first claims it and the second finds nothing left; a harmful verse comes
first, later, or not at all.

*Trains.* Single flight leaves one running train, so two give every relation of
a train to an earlier one: its stop, its landed rows, its registry entry. One
card moves the engine and must be approved, the other only pins what the replay
shows and needs no decision: the two ways to board. A commit on `main` is
somebody else's or the merge of the train. `MaxRequests` counts decisions and
POST requests; three are a seal, and two of decide, sign, admit, prepare, a
check by hand and a second seal. Reads are not counted. Four are needed for
`NoEffectParked`: approve, seal, nothing, seal again.

`CHECK_DEADLOCK FALSE` is set wherever the bounded supply of jobs, requests,
calls or edits may be used up, or all processes may be dead: the system then
rests. `coordination_safe` and `workbench` use symmetry, in the jobs and in the
operations of the journal, and check no liveness.

### Fairness, and why the code justifies it

*Journal*: weak fairness of the steps of the call that holds the lock, and of a
call that recovers and reads. The server recovers at start-up and every locked
reader recovers first.
*Lock*: some task goes on as long as one waits (`withRepositoryLockWaiting`
polls); a scan that meets a dead barrier again and again deletes it, and a
malformed file grows older than five minutes: strong fairness, because another
task's rename may interrupt either.
*Jobs*: awaited calls return, armed timers fire, signals arrive, events are
delivered. No process is assumed to end by itself.
*Drafts*: a call that has begun goes on; the reviewer presses the button to push
and open again after whatever answer he got, strongly fair because it cannot be
pressed while a call is under way. `CommittedIsOpened` speaks of nothing else a
reviewer would have to do.
*Reviews*: awaited file operations of a request return, with success or not.
*Trains*: a request or a stage that has begun goes on; a scheduled advance
runs; the page reads the train again while it is on the screen
(`workbench/static/index.html` polls every four seconds). A read is a request of its own,
so one that is slow does not hold up the next; the model has one read at a time
and therefore strong fairness for it. Nothing makes the reviewer act, and
nothing makes a stage succeed.

## 4. Where code and documents disagree

* `lock_process`: a lock file is created and written before its owner id is
  registered in the process (`W/applyJournal.ts:1488-1505`). Another call of
  the same process sees its own pid with no registered owner and reclaims it.
* `jobs_spawn`: on Windows the first spawn waits for a helper; a cancellation
  meanwhile finds no child, resolves the result at once, and the process that
  is spawned afterwards runs without lock, admission or timeout
  (`W/jobRunner.ts:948`).
* `cases_lost`: a case event appended while the journal of an audit commits is
  overwritten by the file that is installed: the append takes no lock
  (`W/reviewCases.ts:172`), and the audit routes are not admitted as repository
  mutations (`W/server.ts:1121-1144`).
* `trains_landed`: liveness of a train is taken from a derivation, `main` is
  read later. A merge fetched in between is taken for somebody else's commit
  and the landed train is stopped (`W/trainRunner.ts:530-550`), although the
  comment at 538-539 excludes this.
* `trains_noeffect`: the stop for no measurable effect pins the digest of the
  comparison (`W/trainStages.ts:430`), the join that reads it compares with the
  gauntlet's report file (`W/deriveUpdates.ts:1352`). The cards of such a train
  are never parked and board the next seal, contrary to
  `W/deriveUpdates.ts:1535-1539`.

More behaviours are reachable in the models and are kept out of the passing runs
by their constants or by a named exception in the property:

* `RepositoryLock` with three tasks in three live processes and no left-over
  lock violates `MutualExclusion`: `reclaimInvalidLock` (`W/applyJournal.ts:1469`)
  renames the lock file it finds, not the malformed one it judged.
  In the meantime that one was withdrawn and another call has created its own, but
  not yet looked for barriers a second time; its file is taken away, the barrier is
  dropped, it sees none and holds the lock without a file, and the next call creates
  one. `HolderHasFile` fails the same way. That such a rename is the only way is
  proved (`HolderKeepsFile`). What remains true with
  any number of processes is `ReclaimSpares`: once a live call is past its second
  look for barriers, no reclaimer of another process takes its file or
  writes over it.
* `JobRunner` with `MaxDiskErrors = 1` violates `AdmissionCovers`: when the
  record that binds the process cannot be synced, `start()` publishes a failure
  while the process runs (`W/jobRunner.ts:996`).
* `JobRunner` with `MaxDiskErrors = 1` violates `RestartAccepted`: a run whose
  first record was renamed into place but not synced is forgotten while its
  file stays (`W/jobRunner.ts:1114-1119`); with the next run, two unfinished
  files make every later start fail at 1060.
* `CandidateCache` with four builders: a rename of a claimed lock directory back
  to its place succeeds onto an empty directory that another builder has just
  made; that builder's owner record then fails to be created, and it removes the
  lock, which is a live owner's. TLC needs 39 steps; the attempt to prove that a
  lock has one owner met it first. A lock without an owner that is a minute old
  is likewise reclaimed under a new owner's feet, contrary to the comment at
  `pipeline/src/buildCandidate.ts:1782-1784`. `CacheHolds` excepts a builder that
  was `robbed`.

Seen while translating, and covered by no run:

* *Candidates.* A reclaimer that dies leaves a claim nobody removes, and the path
  is refused until it times out; a death after the operation record was removed
  leaves the staging directory; the digest of the sources is not part of the key.
* *Drafts and admission.* The branch is pushed by its name
  (`W/publishPreparation.ts:1534`), so a branch that somebody moves between the
  proof and the push is pushed as it is. The call notices afterwards and refuses,
  the journal stays at `committed`, and the foreign commit stays on the remote. A death between adding the worktree and the first
  record makes every later press refuse. Each press signs the decisions anew, so
  a second manifest may be written for the same evidence.
* *Audits.* Any event appended to the case log after an audit was applied makes
  its preview and close refuse (`W/telemetryAudit.ts:349`). A newline that was
  cut off, followed by an append, spoils two lines.
* *Signing.* Approvals are read from the working tree, although
  `W/signingOperations.ts:30-33` and `docs/workbench-baseline-signing.md` say
  committed; `write()` writes three files without the journal, and after one cut
  short the page may say "current" of what the gates reject.
* *Monitoring.* A stabilization report does not bind `release.mergeDigest` to the
  merge it is of.
* *Blind comparison* reads `<candidate>/comparison/comparison.json`
  (`W/blindComparison.ts:342`), the runner publishes `<candidate>/comparison.json`.
* *Studio.* After a change was committed the answer may be 409
  `session_case_missing`; a request sent again while the first is in flight may
  be told `session_conflict` although the first records it.
* *Compiler.* Ownership and status are looked at before the bytes to be replaced
  are read, and golden files are not observed again: only the second plan, which
  must reproduce the digest, catches an edit. One contradiction in the judgments
  stops the compilation of every query.
* *Journal.* Between the last look at a file and its rename a foreign edit is
  written over: the last look at a file that is to be replaced is at the mark
  (`W/applyJournal.ts:1654`), and recovery looks only in its preflight, before its
  renames (1098-1106). `OnlyRollForward` says that this is the only window.
* *Battery.* The guard against harm sees of each result the verse its `targetId`
  names (`eval/src/gates/rankMetrics.ts:513-530`). A grouped row has the id of its
  head, so a ratified harm to a later verse of the passage does not reject.
* *Gauntlet.* Identity is compared at start and end, so an edit away and back is
  not seen; the database is resolved once; the inventory of the lexicon is read
  and not in the roster of inputs; the report of a run with an explicit target
  is accepted for a promotion; markers of killed runs stay, and a reused pid
  makes one look alive. A change that regenerates the rank baseline in its own
  tree is never found to have no effect. `eval/src/batteryJobCheck.ts:5-6` says
  red unless pass; `checkBatteryJobReport` tolerates a warning.
* *Ranking.* The sums of `applyBudgets` are floats, so their last bit depends on
  the order of the evidence, although `ranking/rank.ts:7-9` says nothing does.

## 5. What is proved

For every value of the constants, under the named assumptions of the modules
(null values lie outside the sets they are told apart from, plans and
repositories are functions on their paths, bounds are natural numbers; each is
evaluated by TLC in some run):

| Theorem | Module | Statement |
|---|---|---|
| `Inductive` | `ApplyJournal_proofs` | `Spec => []IInv` |
| `TypeCorrect` | `ApplyJournal_proofs` | `Spec => []TypeOK` |
| `OneJournal` | `ApplyJournal_proofs` | `Spec => []AtMostOneJournal` |
| `MarkedIsPrepared` | `ApplyJournal_proofs` | `Spec => []CommitIsPrepared` |
| `JournalIsSafe` | `ApplyJournal_proofs` | `Spec => []JournalSafe` |
| `StepInductive` | `ApplyJournal_proofs` | `Spec => []StepInv` |
| `RollForwardOnly` | `ApplyJournal_proofs` | `Spec => OnlyRollForward` |
| `WholeWhenCleaned` | `ApplyJournal_proofs` | `Spec => CleanedOnlyWhenWhole` |
| `JournalIsAtomic` | `ApplyJournal_proofs` | `Spec => AtomicSpec` |
| `RefusedIfTampered` | `ApplyJournal_proofs` | `Spec => []RefusedOnlyIfTampered` |
| `LockTypeCorrect` | `Coordination_proofs` | the types of `RepositoryLock` |
| `GuardIsExclusive` | `Coordination_proofs` | `GuardExclusive` of the lock |
| `HolderKeepsFile` | `Coordination_proofs` | `LockSpec /\ [][TakesTheDead]_lockVars => [](HolderHasFile /\ MutualExclusion)` |
| `ReclaimersSpare` | `Coordination_proofs` | `LockSpec => ReclaimSpares`, without any hypothesis |
| `CacheIsHeld` | `Coordination_proofs` | `CacheHolds` of `CandidateCache` |
| `AdmissionIsCovering` | `Coordination_proofs` | finitely many jobs, no `SlowSpawn`: `[](diskErrors = 0 => AdmissionCovers)` of `JobRunner` |
| `HistoryIsKept` | `Coordination_proofs` | finitely many jobs: `[](diskErrors = 0 => HistoryHolds)` of `JobRunner` |
| `CoordinationIsTyped` | `Coordination_proofs` | finitely many jobs: `MCSpec => []CoordinationTypeOK`, for the composition |
| `DraftTypeCorrect` | `Publication_proofs` | the types of `DraftPublication` |
| `DraftPublishedIsProven` | `Publication_proofs` | `PublishedIsProven` |
| `DraftNeverReplaced` | `Publication_proofs` | `NeverReplaced` |
| `DraftAnswersBacked` | `Publication_proofs` | every answer of a call is backed by what was recorded |
| `AdmissionsAreWarranted` | `Publication_proofs` | what an admission leaves was warranted by its own evidence |
| `AdmissionIsOnce` | `Publication_proofs` | one admission for one evidence |
| `SitesAreAccounted` | `Publication_proofs` | every worktree belongs to a call or is a named leftover |
| `AdmissionsHold` | `Publication_proofs` | `AdmissionHolds` |
| `MarkerCommits` | `Answers_proofs` | `MarkerCommitsWhole` of `ComparisonPublication` |
| `PublishingIsOnce` | `Answers_proofs` | `PublishedOnce`: it implements `WriteOnce` |
| `TornLineIsLast` | `Answers_proofs` | `TornIsLast` of `ReviewLogs` |
| `ReviewsAreKept` | `Answers_proofs` | `ReviewSpec => []ReviewsHold` |
| `ReviewTypeCorrect` | `Answers_proofs` | the types of `ReviewLogs` |
| `AnswersAreTyped` | `Answers_proofs` | `MCSpec => []AnswersTypeOK`, for the composition |
| `AnswersAreKept` | `Answers_proofs` | `MCSpec => []EndsAsAnswered`, for the composition |
| `MonitoringIsWarrantedAlways` | `Records_proofs` | `MonitoringHolds` |
| `SigningIsChained` | `Records_proofs` | `SigningHolds` |
| `AuditsAreWhole` | `Records_proofs` | `AuditsWhole` |
| `ClosedIsFinal` | `Records_proofs` | `ClosedStaysDeleted` |
| `BlindVerdictsStand` | `Records_proofs` | `BlindHolds` of `BlindComparison` |
| `BlindTypeCorrect` | `Records_proofs` | the types of `BlindComparison` |
| `SelectionFair` | `Written_proofs` | what `SelectionIsFair` says, of the selection from any pool |
| `SessionsKeepTheirWord` | `Written_proofs` | `SessSpec => []SessionsHold` of `ReviewSessions` |
| `ProposalsApplyAsReviewed` | `Written_proofs` | `PropSpec => []AppliedAsReviewed` of `ProposalApplication` |
| `JudgmentsCompileAsJudged` | `Written_proofs` | `CompilerSpec => []CompiledAsJudged` of `FixtureCompiler` |
| `ReviewsAreWritten` | `Written_proofs` | `MCSpec => []WrittenAsReviewed`, for the composition |
| `RecordsAreTyped` | `Written_proofs` | `MCSpec => []RecordsTypeOK`, for the composition |
| `StudioKeepsItsWord` | `Workbench_proofs` | `StudioHolds` of `StudioSessions` |
| `GauntletBelieved` | `Workbench_proofs` | `GauntletHolds` of `Gauntlet` |
| `RankingIsSound` | `Workbench_proofs` | `RankSpec => []RankingHolds` of `QueryRanking` |
| `MetricsAreSound` | `Workbench_proofs` | `RankMetricsSpec => []MetricsHold` of `RankMetrics` |
| `EngineIsSound` | `Workbench_proofs` | `MCSpec => []EngineHolds`, for the composition |
| `TrainsAreTyped` | `Trains_proofs` | `TypeOK` of `DataUpdateTrain` |
| `TrainsFollowEachOther` | `Trains_proofs` | `TrainsKeepOrder` |
| `EvidenceIsKept` | `Trains_proofs` | `EvidenceGrows` |

### The journal

*The states.* Neither safety invariant is inductive: that a second journal is
not written depends on the call having recovered first, and that everything is
prepared when the mark is set depends on what the earlier phases wrote.
`IInv` adds two conjuncts. `ControlInv` ties the program counter of the call to
the journals it answers for: no journal is live between recovery and the
call's own, and the live ones are exactly its work while it repairs or
installs. `ArtifactInv` says what is in the artifact directories in each phase:
nothing after recovery, only expected artifacts while they are written, all
staged bytes once backups begin. `CommitMark` then establishes
`CommitIsPrepared` from `ArtifactInv` and its own guard, and no later action of
the call removes an artifact before the journal says committed. The proof takes
the conjuncts one at a time, each with one lemma per group of actions.

*The steps.* `StepInv` adds what a step relies on. `TodoInv`: the work list of a
repair or an install holds only entries of a plan past its mark, whose targets
are before, after or absent; this is what the preflight of recovery checked and
what the guard of the mark ensured. `WholeInv`: from the last look to the
removal of the journal the files agree with its outcome. `FateInv`: a caller's
fate and the mark in the journal change together. Both hold of the files that
nobody edited since the call last looked at them: `edited` is the set of the
others, which a look at a file empties. That set is what makes the two
action properties true and sharp: `OnlyRollForward` lets a call write over bytes that
are neither before nor after only in `edited`, `CleanedOnlyWhenWhole` excepts only
`edited`. They follow from the four actions that change a file and the one that
removes a journal, and for a file that is to be deleted from the comparison right
before its rename (`CheckTarget`).

*The refinement.* `Store` is what the files will contain once every marked
journal is brought home. Because at most one journal exists, its `CHOOSE` has
one value (`StoreIs`). `CommitMark` is the abstract `Commit` (`MarkIsCommit`): no
plan was in force, so the store was the disk, which agreed with the plan.
Installing or deleting a file changes the disk and not the store (`EntryStep`);
removing a journal drops a plan whose files already have their contents
(`CleanupStep`), and one that was edited after the last look then shows the edit;
an edit of a file in a marked plan is not seen before, any other is the
abstract `Edit` (`EditStep`); a call that ends or dies before its mark is
`Reject`, after it nothing; a reader reads when no journal is left, so it sees the
store.

*Refusals.* The refinement allows a recovery that refuses for ever;
`RefusedIfTampered` excludes it unless somebody edited a file or an artifact.
The edit may come at any step, so the invariant `CalmInv` speaks of the files that
are not in `edited`: each is as its journal says (`FilesInv`), what a recovery has
passed is home (`RedoInv`), and where a recovery has refused there is a journal with a
file in `edited` or with foreign bytes put aside (`BlockedInv`). `LeftoversInv` says
what a death may leave behind in every phase.

### Lock, cache, jobs

*Lock.* `GuardExclusive` follows from `GuardInv`: whoever is between taking and
dropping a reclaim guard has it on disk under its own name (`GuardPresent`), and
a guard is removed by its owner or when the owner is dead.

`HolderHasFile`, and with it mutual exclusion, needs a hypothesis, because a
reclaimer renames whatever file it finds (section 4). `TakesTheDead` says of
`ClaimLock`, the one step that renames the lock file away, that the file is one
that the call judged, and that its owner is not alive. Every other step keeps
`FilesInPlace`: a call that created its file and has not removed it finds it
there. So the two files of the protocol are enough, and everything that can go
wrong with it goes wrong in that rename. The behaviours in which it takes a living
call's file are: a call that is not registered yet or is releasing, judged gone by
another call of its process, and a file that was replaced between the judgment
and the rename.

`ReclaimSpares` needs no hypothesis. A call looks for reclaim guards a second time
after it has created its file, and a guard that it does not see was taken later,
so whoever holds it reads the lock file after the call had recorded itself.
`SparedInv` says it of every step: a call that is past this look is recorded as the
owner in its process (`Recorded`), and a reclaimer of another process has then
not judged the file or is about to judge it by this very call, whom it finds alive
(`Spared`). `GuardInv` supplies that the reclaimer has its guard on disk.

*Cache.* `CacheInv` adds to `CacheHolds` what the builders remember: the names
under which a lock directory may stand (`LockNames`), that whoever claims a lock
saw a dead or missing owner (`ClaimsTheDead`), that a candidate is sealed before
it is served (`SealedFirst`, `Served`), and that what was looked at was the lock
of an earlier owner (`OfEarlier`). The first attempt left out `robbed` and did not
go through; the obligation that failed is the behaviour of four builders in
section 4, which TLC then found.

*Jobs.* `AdmissionInv` adds types (`JobTyped`), that at most one run is between
admission and release (`OneRun`), and that whoever has a live process is a run
whose end is still awaited (`ProcessAwaited`). The two hypotheses of
`AdmissionIsCovering` are the boundaries of what the code keeps: `jobs_spawn` and
`MaxDiskErrors = 1` in section 4 violate the property without them.

`HistoryIsKept` is about what is left when a server dies. `JobsInv` ties the record
of each run to where its `start()` is (`Admitted`), `FilesAgree` the files in the
state directory to those records, and `KeptLatest` the runs that are remembered
to the order in which they were admitted: a run that is gone is older
than every run that is kept. `PrunedOldest` is the lemma about
`pruneHistory`; that a set of more than n runs has an oldest one (`OneIsOldest`)
is by well-foundedness of strict inclusion. With a failed sync the property is
false (section 4), so `diskErrors = 0` is its boundary.

### Drafts, admissions, answers

*Drafts.* `JournalBound` ties every recorded phase to the commit, branch and pull
request it records, `CallBound` what a call holds in memory to what it read, and
`StatusBound` what the reviewer was last told to the journal.

*Admissions.* `CallWarrants` says which of its inputs a call has verified at each
point, `CallOwns` and `SitesOwned` whose every worktree is; together they give
`AdmissionHolds`, although two calls interleave freely.

*Comparisons.* `CompInv` ties the three stages of the journal (recorded, marked,
installed) to the files on disk. The mark is the `Write` of `WriteOnce`, every
answer is `Tell`, whatever a stranger does is `Spoil`.

*Review logs.* A line that is torn can only be the last one, because whoever
writes has had the turn of its file's tail since it read the file (`TurnInv`).
That every log, together with what the page was told, agrees with the cases
that were recorded (`ReviewsHold`) takes five more parts. `RequestInv`: requests
in flight have distinct numbers and distinct created cases. `CaseLogInv` and
`JudgeLogInv`: the line of whoever has the turn fits what the log holds when it
is its turn (`CreatedFits`, `StateFits`, `CorrectionFits`), and an append adds its
line, nothing, or something that makes the log unreadable (`TornIs`, `TornAdds`).
`TailInv`: known cases stay known (`KnownGrows`). `StoreInv`: the two maps of the
idempotency store are inverse to each other, and a token is the number of a
request that is over (`PutKeeps`, `TouchKeeps`).

*The composition.* `PartsOfAnswers`: a behaviour of `MCAnswers` is, seen through
the variables of each component, a behaviour of that component. So a theorem of
a component holds of the composition, and `EndsAsAnswered` is their conjunction.

### Records and trains

*Monitoring, signing, audits.* `MonInv` ties each event of a chain to the
evidence the caller held and to a commit `main` had, and what is advised about an
interrupted operation to the world of its checkpoint (a push is never resumed by the
program, attempted or not); `SignInv` each of the three
files of a signing to the derivation it came from. `TelInv` has three parts:
what is on disk (`DiskTyped`), what a caller read before it took the lock and may
no longer be true (`CallersInv`), and that installing what the journal plans,
from any step of it, leaves every audit whole (`JournalInv`).

*Trains.* `TrainsInv` is the types (`TrainsTyped`), the control state of the five
activities (`ActInv`), the registry against the log (`EvidenceInv`), the order of
events (`OrderInv`) and what a seal under way may rely on (`SealInv`). The log is
appended to by several activities that validated an older one: `CalmGrowth` and
`SealGrowth` say which facts about a log survive the append of any legal event.
`Greatest` (a set of stamps that is not empty has a greatest element) is the one
induction; it is by well-foundedness of strict inclusion on finite sets, so
needs no induction theorem with an operator as parameter.

*Blind comparisons.* `BlindInv` adds to the log and the replies that what is logged
is what its request still asks for, but for the opinion (`AskedAsLogged`), and
that a plan whose base is still the log fits behind it (`PlansFit`, `FitsNext`).
A request that is sent again finds its own event or is planned anew, and only the
server that serves it plans for it (`BlindTyped`).

### What is written

*Selections.* `selectBalanced` is a recursive function of the number of cases it
has taken. `Taking` shows that there is one (the steps from 0 to the count can be
made), and `Reaches` is the induction along it: what holds of 0 and, with each
number, of the next holds up to any bound, because a finite set of numbers has a
least one (`Smallest`, by well-foundedness of strict inclusion). `Balanced` says
of every call what the cases taken and those taken before come to (`Fits`), and
`SelectionFair` puts the four calls together: the representatives are one of each
cluster, so they never exceed a share (`FirstRepresents`), and the first of them
is the best case of all (`BestFirst`).

*The log of a session* (`SessInv`). What is in the log is of the cases of the
session, no case twice, and the close comes last and only when all have been
seen. A window that is behind is refused, so the fold of every window that
appends is the fold of the log.

*Proposals.* That the two appliers agree in every order rests on two facts about
the operations that were let pass: each finds in the sources what it expects
(`Sound`), and no two are about the same phrase, place or relation of one concept
(`Distinct`). Then what has been applied so far can be stated without an order
(`Declared(Applied, c)`), and each of the operations that are left is acceptable
to both programs and adds to it what it declares (`AppliesPhrase`,
`AppliesRelation`, `AppliesAnchor`, `AppliesDraft`). `PropInv` says that both are at
this point and nothing was refused.

*Judgments.* A plan says what the whole log compiles to, as long as the log has
not grown since it was read (`PlanFromLog`; the apply compares the length), and
what it would write comes from a look at the file that is replaced, unless
somebody edited that file in between (`PlanLooked`; the apply compares the
bytes). A promotion is of what the file asserts (`PromotionsStand`), which is why
a plan that leaves the assertions leaves the promotion. `ConsistentAgrees`
turns the test of the compiler into the absence of contradictions. The edit
that slips in between the look and the bytes (`plan.edited`), of both plans, is
excepted by name in the property (section 4).

### Studio and gauntlet

*Studio.* `StudioInv` says that every log reads as it was made (`GoodLog`), that
a request on its way to the file was decided on what it read (`Decided`), and
that the file states what was or is about to be answered (`Stands`). The file
is compared before it is written, so what a request decided on is what is
there. A session can be closed only when there are as many events as items:
distinct items for distinct events, and none missing, because a finite set has
no proper subset of its size (`AllItemsDone`).

*Gauntlet.* What a report says is what its run read (`ReportTells`), and that is
the identity the run recorded, unless the inputs turned more than once
(`RunMeasures`): one change after the start either shows in the comparison of
identities or is of the database, whose engine is compared. `BaselineKept` and
`BaselineReplaced` follow the one input that a run itself may rewrite.
`MarkersBear` says which marker a run at work has on disk. What the gates decide is
left to four constants; `CandidateHolds` and `SuccessSays` are the two lemmas that
turn a row of the report or an exit code back into facts about the tree.
`EngineAssumption` is used once: that a fixture which holds on one database holds
on any other of the same engine identity (`eval/src/gates/orderingSnapshot.ts:9-25`
calls anything else a defect).

### The engine and its battery

*Ranking* (`RankInv`). Each rung adds evidence of the form its family allows
(`Added`, `Carried`), so that at the end `Sound` holds of what was found. The rest
is about four computations, each a lemma on its operator. `Sorted`: sorting a
finite set by a relation that puts it in one line (`Lines`) lists each element
once; a verse's place is the number of those before it. `CappedOf`: whatever the
reasons, the caps of the families and of the weak signals hold, a phrase keeps
its points, and the wording of a translation alone stays at the cap that words of the
verse itself exceed. `RankedOf`: the pass that defers results of a full group, and takes
them again while there is room, keeps the order among the rest and drops a direct
result only from a full list (`Emitted`, an invariant of the pass). `RowsOf`: being
in one passage (`Together`) is an equivalence on what surfaced (`Equivalence`), and
verses of a section that are chained are a run without a gap (`Walked`, an
intermediate-value argument on the ranks).

*Metrics* (`MetricsInv`). That no ranking beats the ideal one (`NoBetter`) is in two
steps. What the first n results claim are at most n different judgments, and no n of
them are worth more than the first n in the ideal order (`First`; the order is one
line because ranges that do not overlap have different first verses). And sums that
are no greater at any rank are no greater when weighed with discounts that fall
(`Abel`). A judgment is claimed once (`LeftFalls`), so the claims inject into the
judgments (`RecallOf`). `Swapped` is the reason a promotion never hurts: if the lower
of two neighbours gains more, it claims the same judgment in front of the other
one, and so does the other behind it. To say this of any result that is worth more on
its own would be false: of the results 1, 3, 2, with a judgment of grade 3 on the
range 1-2 and one of grade 1 on 3, the third is worth 3 alone and nothing where it
stands, because the first has claimed it. So the property compares gains. The two facts
about the row need no more than that every change of what is measured clears it.

*Recursion over sequences.* `Recursion` shows that a function computed step by step
exists; it is what makes the recursive functions of the two modules (`pass`, `left`,
`sum`) more than a `CHOOSE`. The induction is `Reaches`, as above.

### What is only model-checked

* Liveness (`EventuallyClean`, `ReclaimedEventually`, `EventuallySettled`,
  `CommittedIsOpened`, `EveryoneAnswered`, `DataTrainSettles`): `ENABLED` and
  fairness are beyond the prover.
* `HolderHasFile` and `HistoryHolds` without the hypotheses of their theorems are
  false (section 4); TLC checks `HistoryHolds` on an instance where they hold.
* The means over queries (`Mean`) and the thresholds that are compared with them: no
  property is about their values.

## 6. Assumptions and abstractions

*Journal.* A write followed by `fsync` of file and directory is durable; a
directory listing is a snapshot. A check of all files of a plan reads them one
after another in the code and is one look in the model; an edit may fall between
any two looks, renames and deletions. Temporaries of the journal file itself, path and
symlink validation, and the hash chain against edited journals are left out.

*Lock.* Pids are not reused. A lock record older than five minutes that is
still malformed has a dead creator. A malformed guard is a barrier for ever, as
`docs/workbench-recovery.md` says.

*Jobs.* The launcher of an orphaned process notices that its parent is gone and
exits (`W/jobRunner.ts:589`). Output files and command lines are left out.

*Candidates.* One path; the contents of a candidate are who built it.

*Drafts and admission.* Calls of one draft follow one another, as the server
admits them; the worktree's contents are the commit they were built from, and a
local branch that others move takes the worktree along. One proposal; audits and rebuilds have the outcomes their callers tell apart.

*Comparison.* The reports are opaque; a stranger may write any of the files.

*Reviews.* The clock may give any value; a snapshot is what the page was shown;
an append that fails may leave part of a line; there is at least one case id
and one displayed passage.

*Audits.* Recovery of the journal is one step. *Signing.* `Accepted` leaves out
the triples that only the engine observed.

*Proposals.* Of the sources it is assumed that a concept names a place by one
anchor (`OntologyAssumption`). Merging concept drafts is taken as creating one; operations on
golden fixtures and on the corpus are left out. *Compiler.* Two of the five
inputs move; every query that is judged has a slug, and the log begins as one of
the given histories (`VotesAssumption`).

*Gauntlet.* A report that is too old is refused as an absent one is. A run that
two changes turned away and back since its identity was captured is excepted by
name in the property. *Metrics.* One list stands for the top ten and the
top fifty; judgments derived from golden fixtures, malformed baselines and
orphaned approvals are left out; a change of the inputs clears the report.
Of the rows of a battery that overlap the first is judged by (`BatteryAssumption`;
the row fails in any case); judged ranges are not empty, a result is the one
verse of its target id, as in the code, and the discounts do not rise (`RankAssumption`).
*Ranking.* Exact arithmetic; corrections, related concepts and aliases are
left out. Verses are numbers, the corpus and its spans are finite
(`CorpusAssumption`).

*Trains.*
* Stamps never decrease, as with one clock that is not set back; equal stamps
  are legal in the code and behave like increasing ones. Appends that are
  validated before another one is written may still end up out of order, as
  in the code.
* Reading, stamping and validating an append is one step, writing it another.
* A parked decision is a declined one: neither boards.
* The identity of the replay does not change, a reviewer seals from a fresh
  panel (a stale one is refused), and the signing hold and the unpaid-marker
  debt are clear.
* A data change has an effect or not, whatever train it rides; a changed
  top ten is what has to be reviewed.
* Admission and publication are one step each with the outcomes their callers
  distinguish; what happens inside is in `Admission` and `DraftPublication`.
* `origin/main` and local `main` do not lag behind each other.
* After the log has become unreadable or the registry was torn nothing is
  promised: the code refuses to go on and offers no repair.

## 7. Not modelled, and what is next

Left out for good: rendering, statistics in the gates, importers and generated
tables, sweeps and command-line tools (no state, or numeric data outside TLC's
reach), the inbox and dashboard (projections without state). Not yet modelled:
`W/comparison.ts`, the install protocol of
`artifact-client/src/download.ts`, text handling of the engine.
