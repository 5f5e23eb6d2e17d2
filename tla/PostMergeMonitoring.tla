------------------------ MODULE PostMergeMonitoring ------------------------
(***************************************************************************)
(* postMergeMonitoring.ts: what is said after a draft was merged.  A       *)
(* detection inspects main for the prepared commit, a verification checks  *)
(* what was shipped, and both return case events that the caller appends   *)
(* later; meanwhile main goes on, is rewritten, and the same evidence is   *)
(* asked for again.  A report binds the documents of one refinement, and   *)
(* an operation that was interrupted is told how it may go on.             *)
(*                                                                         *)
(* A digest is what it is taken of.  A document given to the report is of  *)
(* this refinement or of another one, foreign to it.                       *)
(***************************************************************************)
EXTENDS Integers, FiniteSets, Sequences

CONSTANTS
  Linked,    \* the cases the audit generated and the draft carries
  MaxMoves   \* bound on the moves of main

ASSUME MonitoringAssumption == Linked # {} /\ MaxMoves \in Nat

VARIABLES
  main,      \* the commit main is at: commit 0 is the one the draft starts from
  carries,   \* whether a commit contains the prepared commit
  below,     \* the commits a commit descends from, itself among them
  verified,  \* the verified-main evidence the caller holds: a commit
  merges,    \* the merge evidence given out
  releases,  \* the release monitoring results given out
  returned,  \* events given out that nobody has tried to append yet
  chains,    \* the events of each linked case after pr-prepared
  report,    \* the last stabilization report
  work,      \* the checkpoint of an operation under way
  remote,    \* what the remote branch and the draft's head are: "none", "exact", "other"
  outcome    \* the last answer about an interrupted operation

monVars == <<main, carries, below, verified, merges, releases, returned, chains,
             report, work, remote, outcome>>

Commits == 0..MaxMoves
States == <<"merged", "monitored">>
Documents == {"receipt", "roster", "draft", "admission", "dump", "calibration",
              "holdout", "dashboard", "telemetry", "release", "merge"}
Operations == {"audit-import", "candidate-build", "source-apply-admission",
               "worktree-preparation", "push", "server-restart"}
NoReport == [ready |-> FALSE, merge |-> [main |-> 0, merged |-> FALSE], foreign |-> {},
             release |-> [commit |-> 0, merge |-> 0, monitored |-> FALSE]]
NoWork == [kind |-> "none", main |-> 0, attempted |-> FALSE]
NoOutcome == [action |-> "none", of |-> NoWork, main |-> 0, fresh |-> FALSE, remote |-> "none"]

MonInit ==
  /\ main = 0 /\ carries = [c \in Commits |-> FALSE] /\ below = [c \in Commits |-> {c}]
  /\ verified = 0 /\ merges = {} /\ releases = {} /\ returned = {}
  /\ chains = [c \in Linked |-> <<>>]
  /\ report = NoReport /\ work = NoWork /\ remote = "none" /\ outcome = NoOutcome

-----------------------------------------------------------------------------
(* Main moves by itself: a commit on top of it, a merge of the draft, or a *)
(* rewrite that leaves both out.                                           *)
MoveMain(how) ==
  LET new == main + 1 IN
  /\ new \in Commits
  /\ main' = new
  /\ below' = [below EXCEPT ![new] = {new} \cup (IF how = "rewrite" THEN {0} ELSE below[main])]
  /\ carries' = [carries EXCEPT ![new] = how = "merge" \/ (how = "push" /\ carries[main])]
  /\ UNCHANGED <<verified, merges, releases, returned, chains, report, work, remote, outcome>>

VerifyMain ==
  /\ verified' = main
  /\ UNCHANGED <<main, carries, below, merges, releases, returned, chains, report, work, remote, outcome>>

-----------------------------------------------------------------------------
Rank(state) == CHOOSE n \in DOMAIN States : States[n] = state

\* The case snapshots a caller supplies: the log as it is, or was.
Snapshots == {held \in [Linked -> 0..Len(States)] : \A c \in Linked : held[c] <= Len(chains[c])}

\* caseTransitionEvents throws for a case that is not in the state before the target.
Eligible(held, target) == \A c \in Linked : held[c] + 1 >= Rank(target)

\* It gives no event for a case that is there already or further on.
TransitionEvents(held, target, why) ==
  {[case |-> c, state |-> target, parent |-> held[c], why |-> why] :
    c \in {d \in Linked : held[d] < Rank(target)}}

\* Mutant: the verified evidence is taken for main, though main has moved.
StillMain_Any == TRUE
\* A detection stands only while main is the commit that was verified.
StillMain == verified = main

Detect ==
  \E held \in Snapshots :
    /\ StillMain
    /\ carries[main] => Eligible(held, "merged")
    /\ merges' = merges \cup {[main |-> verified, merged |-> carries[main]]}
    /\ returned' = returned \cup (IF carries[main] THEN TransitionEvents(held, "merged", verified) ELSE {})
    /\ UNCHANGED <<main, carries, below, verified, releases, chains, report, work, remote, outcome>>

\* The release commit descends from the main of the merge evidence and contains the
\* prepared commit.
Descends(r, m) == m.main \in below[r] /\ carries[r]

VerifyRelease ==
  \E m \in merges, r \in 0..main, held \in Snapshots :
    /\ m.merged /\ Descends(r, m) /\ Eligible(held, "monitored")
    /\ releases' = releases \cup {[commit |-> r, merge |-> m.main, monitored |-> TRUE]}
    /\ returned' = returned \cup TransitionEvents(held, "monitored", r)
    /\ UNCHANGED <<main, carries, below, verified, merges, chains, report, work, remote, outcome>>

\* A release that was not run or is blocked carries no claims and moves no case.
ReleaseUnavailable ==
  \E m \in merges :
    /\ m.merged
    /\ releases' = releases \cup {[commit |-> 0, merge |-> m.main, monitored |-> FALSE]}
    /\ UNCHANGED <<main, carries, below, verified, merges, returned, chains, report, work, remote, outcome>>

\* The log takes an event only at the end of its case's chain.
AppendReturned ==
  \E e \in returned :
    /\ returned' = returned \ {e}
    /\ chains' = IF e.parent = Len(chains[e.case])
                   THEN [chains EXCEPT ![e.case] = Append(@, [state |-> e.state, why |-> e.why])]
                   ELSE chains
    /\ UNCHANGED <<main, carries, below, verified, merges, releases, report, work, remote, outcome>>

-----------------------------------------------------------------------------
\* The documents whose digests buildStabilizationReport compares with each other.
Bound(monitored, compared) ==
  { {"roster", "receipt"}, {"merge", "receipt"}, {"merge", "roster"}, {"merge", "draft"},
    {"admission", "draft"}, {"admission", "release"}, {"admission", "receipt"}, {"admission", "merge"},
    {"roster", "admission"}, {"dump", "receipt"},
    {"calibration", "merge"}, {"calibration", "dashboard"}, {"holdout", "merge"}, {"holdout", "dashboard"} }
  \cup (IF monitored THEN {{"dashboard", "release"}} ELSE {})
  \cup (IF compared THEN {{"telemetry", "receipt"}, {"telemetry", "roster"}} ELSE {})
  \cup (IF monitored /\ compared THEN {{"telemetry", "release"}} ELSE {})
\* Mutant: the proof that the dumps were deleted is not compared with the audit.
OfOneRefinement_NoDump(foreign, monitored, compared) ==
  \A pair \in Bound(monitored, compared) :
    "dump" \in pair \/ pair \subseteq foreign \/ pair \cap foreign = {}
\* The comparisons, each of which must find both documents of one refinement.
OfOneRefinement(foreign, monitored, compared) ==
  \A pair \in Bound(monitored, compared) : pair \subseteq foreign \/ pair \cap foreign = {}

\* What may be bound: the documents that are foreign when all comparisons hold, with
\* a monitored release or without, and with a telemetry comparison or without.
Bindable ==
  {[monitored |-> b[1], compared |-> b[2], foreign |-> b[3]] :
    b \in {d \in BOOLEAN \X BOOLEAN \X SUBSET (Documents \ {"merge"}) :
           OfOneRefinement(d[3], d[1], d[2]) /\ ("telemetry" \in d[3] => d[2])}}

\* The external gates are reported, passed or not.
BuildReport ==
  /\ releases # {}
  /\ \E b \in Bindable, m \in merges, r \in releases, passed \in BOOLEAN :
      /\ b.monitored = r.monitored
      /\ report' = [ready |-> m.merged /\ r.monitored /\ b.compared /\ passed,
                    merge |-> m, release |-> r, foreign |-> b.foreign]
  /\ UNCHANGED <<main, carries, below, verified, merges, releases, returned, chains, work, remote, outcome>>

-----------------------------------------------------------------------------
\* An operation writes a checkpoint, may try what cannot be undone, and is cut off.
StartWork(kind) ==
  /\ work = NoWork
  /\ work' = [kind |-> kind, main |-> main, attempted |-> FALSE] /\ outcome' = NoOutcome
  /\ UNCHANGED <<main, carries, below, verified, merges, releases, returned, chains, report, remote>>

\* Only a push touches the remote.
Attempt ==
  /\ work # NoWork /\ ~work.attempted
  /\ work' = [work EXCEPT !.attempted = TRUE]
  /\ remote' \in IF work.kind = "push" THEN {remote, "branch", "draft"} ELSE {remote}
  /\ UNCHANGED <<main, carries, below, verified, merges, releases, returned, chains, report, outcome>>

OthersPush ==
  /\ remote # "other" /\ remote' = "other"
  /\ UNCHANGED <<main, carries, below, verified, merges, releases, returned, chains, report, work, outcome>>

\* Mutant: what is found on the remote is believed before main is looked at.
Recovery_RemoteFirst(checkpoint, now, fresh, there, needsDraft, journal, descriptor) ==
  IF checkpoint.kind = "push" /\ there \in {"branch", "draft"} THEN "ALREADY_COMPLETE"
  ELSE IF checkpoint.main # now \/ ~fresh THEN "REBUILD_REVIEW_REQUIRED"
  ELSE IF checkpoint.kind = "push" THEN "HUMAN_CONFIRMATION_REQUIRED" ELSE "RESUME"
\* recoverInterruptedOperation: moved or stale outranks every claim of completion.
Recovery(checkpoint, now, fresh, there, needsDraft, journal, descriptor) ==
  IF checkpoint.main # now \/ ~fresh THEN "REBUILD_REVIEW_REQUIRED"
  ELSE CASE checkpoint.kind = "push" ->
              IF there = "draft" \/ (there = "branch" /\ ~needsDraft)
                THEN "ALREADY_COMPLETE" ELSE "HUMAN_CONFIRMATION_REQUIRED"
         [] checkpoint.kind \in {"source-apply-admission", "audit-import"} /\ journal -> "RECOVER_JOURNAL"
         [] checkpoint.kind = "server-restart" /\ ~descriptor -> "RESTART_DEGRADED"
         [] OTHER -> "RESUME"

RecoverInterruptedOperation ==
  \E fresh, needsDraft, journal, descriptor \in BOOLEAN :
    /\ work # NoWork
    /\ outcome' = [action |-> Recovery(work, main, fresh, remote, needsDraft, journal, descriptor),
                   of |-> work, main |-> main, fresh |-> fresh, remote |-> remote]
    /\ work' = NoWork
    /\ UNCHANGED <<main, carries, below, verified, merges, releases, returned, chains, report, remote>>

EvidenceNext ==
  \/ \E how \in {"push", "merge", "rewrite"} : MoveMain(how)
  \/ VerifyMain \/ Detect \/ VerifyRelease \/ ReleaseUnavailable \/ AppendReturned \/ BuildReport

RecoveryNext ==
  \/ MoveMain("push")
  \/ (\E kind \in Operations : StartWork(kind)) \/ Attempt \/ OthersPush
  \/ RecoverInterruptedOperation

MonSpec == MonInit /\ [][EvidenceNext \/ RecoveryNext]_monVars

-----------------------------------------------------------------------------
\* The types of the state (the interfaces of postMergeMonitoring.ts).
MonTypeOK ==
  /\ main \in Commits /\ verified \in 0..main
  /\ carries \in [Commits -> BOOLEAN] /\ below \in [Commits -> SUBSET Commits]
  /\ merges \subseteq [main : Commits, merged : BOOLEAN]
  /\ \A c \in Linked : Len(chains[c]) <= Len(States)
  /\ remote \in {"none", "branch", "draft", "other"}

\* A case is merged, and then monitored, once each and in this order however often
\* the same is detected and its events are appended; it is merged by a main that
\* carried the prepared commit, and monitored by a release that carries it and
\* descends from a main on which it was found (detectPreparedCommitOnMain,
\* verifyReleasedArtifact, caseTransitionEvents).
CasesFollow ==
  \A c \in Linked : \A n \in DOMAIN chains[c] :
    LET e == chains[c][n] IN
    /\ e.state = States[n] /\ carries[e.why]
    /\ e.state = "monitored" => \E m \in merges : m.merged /\ m.main \in below[e.why]

\* A report that is ready for release stands on a main that carried the commit and
\* on a release that carries it, and every document it binds is of this refinement
\* (buildStabilizationReport).
ReportStands ==
  report.ready => /\ report.merge \in merges /\ carries[report.merge.main]
                  /\ report.release \in releases /\ carries[report.release.commit]
                  /\ report.foreign = {}

MonitoringIsWarranted == CasesFollow /\ ReportStands

\* An interrupted operation goes on or counts as complete only in the world of its
\* checkpoint; a push only counts as complete when the remote shows its commit, and
\* otherwise a human decides, attempted or not: it is never resumed by the program
\* (recoverInterruptedOperation: no completion claim outranks revalidation).
RecoveryKeepsCourse ==
  LET o == outcome IN
  /\ o.action \in {"RESUME", "RECOVER_JOURNAL", "RESTART_DEGRADED", "ALREADY_COMPLETE"} => o.main = o.of.main /\ o.fresh
  /\ o.action = "ALREADY_COMPLETE" => o.remote \in {"branch", "draft"}
  /\ o.of.kind = "push" =>
       o.action \in {"ALREADY_COMPLETE", "HUMAN_CONFIRMATION_REQUIRED", "REBUILD_REVIEW_REQUIRED"}

\* What is said of a merge, and what an interrupted operation is told.
MonitoringHolds == MonitoringIsWarranted /\ RecoveryKeepsCourse
=============================================================================
