------------------------- MODULE DraftPublication --------------------------
(***************************************************************************)
(* The last machine stage of an admission: prepareDraftPublication of       *)
(* publishPreparation.ts.  A call makes an isolated worktree of main,       *)
(* applies the admitted bytes, verifies them, commits them, verifies the    *)
(* commit, pushes the branch and opens a draft pull request, recording each *)
(* finished phase in a journal on disk.  The reviewer presses the same      *)
(* button again after a death, a refusal or a failure of GitHub, and the    *)
(* next call goes on from the journal, the worktree and the remote it finds.*)
(*                                                                         *)
(* One admission of one proposal.  Calls follow one another: the server     *)
(* admits one repository mutation at a time.                                *)
(***************************************************************************)
EXTENDS Integers, FiniteSets

CONSTANTS
  Commits,     \* the commits calls may make, numbered in the order they are made
  Base,        \* the commit main had when the proposal was admitted
  Foreign,     \* a commit somebody else makes
  None,
  MaxDeaths,   \* deaths of the server during a call
  MaxFaults,   \* failures of git, of the verification suites or of GitHub
  MaxForeign   \* things done by others: to main, the branch or the worktree

ASSUME DraftAssumption ==
  /\ Commits \subseteq Nat
  /\ Base \notin Commits /\ Foreign \notin Commits /\ None \notin Commits
  /\ Base # Foreign /\ None # Base /\ None # Foreign
  /\ MaxDeaths \in Nat /\ MaxFaults \in Nat /\ MaxForeign \in Nat

VARIABLES
  mainMoved,   \* main (local or on the remote) is no longer Base
  tree,        \* the publish worktree: absent, detached or on its branch
  head,        \* the commit checked out there
  files,       \* the admitted files there: before, mixed or after
  provisioned, \* the shared inputs of the suites have been linked into it
  branch,      \* the local refinement branch, None when there is none
  remote,      \* the same branch on the remote
  pull,        \* a pull request of that branch is open
  checked,     \* history: how often each commit's tree passed the suites
  journal,     \* the publish journal on disk
  call,        \* the call in progress
  answer,      \* what the last call told the reviewer
  deaths, faults, foreign

draftVars == <<mainMoved, tree, head, files, provisioned, branch, remote, pull,
               checked, journal, call, answer, deaths, faults, foreign>>

world == <<mainMoved, remote, pull>>
local == <<tree, head, files, provisioned, branch, checked>>
spent == <<deaths, faults, foreign>>

Phases == {"none", "worktree-created", "files-applied", "verified", "committed",
           "pushed", "draft-pr-opened"}
Published == {"pushed", "draft-pr-opened"}
NoJournal == [phase |-> "none", commit |-> None, evidence |-> "none"]

\* evidence: none, the run before the commit, or both runs bound to the commit
Journals == [phase : Phases, commit : Commits \cup {None},
             evidence : {"none", "run", "both"}]

Steps == {"idle", "start", "remove", "add", "name", "created", "provision",
          "apply", "applying", "applied", "verify", "commit", "prove",
          "push", "pushing", "pushed", "view", "create", "opened", "final"}
Refusals == {"main_moved", "branch_conflict", "worktree_conflict",
             "journal_conflict", "recovery_review_required", "digest_mismatch",
             "verify_failed", "commit_proof_failed", "remote_branch_moved",
             "failed"}
Statuses == {"LOCAL_READY", "PUSHED", "DRAFT_PR_OPENED", "ALREADY_PREPARED"}

Calls == [pc : Steps, push : BOOLEAN, open : BOOLEAN, status : Statuses \cup {"none"}]
Idle == [pc |-> "idle", push |-> FALSE, open |-> FALSE, status |-> "none"]

DraftInit ==
  /\ mainMoved = FALSE /\ tree = "absent" /\ head = None /\ files = "before"
  /\ provisioned = FALSE /\ branch = None /\ remote = None /\ pull = FALSE
  /\ checked = [c \in Commits |-> 0] /\ journal = NoJournal
  /\ call = Idle /\ answer = "none" /\ deaths = 0 /\ faults = 0 /\ foreign = 0

At(pc) == call.pc = pc
Goto(pc) == call' = [call EXCEPT !.pc = pc]
Refuse(code) == call' = Idle /\ answer' = code
Keep == UNCHANGED answer
Fault == faults < MaxFaults /\ faults' = faults + 1 /\ UNCHANGED <<deaths, foreign>>

(* The journal is replaced by a synced temporary file and a rename, under  *)
(* the repository lock.                                                    *)
Record(phase, commit, evidence) ==
  journal' = [phase |-> phase, commit |-> commit, evidence |-> evidence]

(* The independent proof that a commit is the admitted one: both runs are  *)
(* recorded for it, and it is what the branch and the worktree hold.  The  *)
(* commits of Commits have the admitted tree, parent, paths and message.   *)
Proven(c) ==
  /\ c \in Commits /\ journal.evidence = "both" /\ journal.commit = c
  /\ branch = c /\ head = c

Press(push, open) ==
  /\ At("idle") /\ (open => push)
  /\ call' = [pc |-> "start", push |-> push, open |-> open, status |-> "none"]
  /\ answer' = "none" /\ UNCHANGED <<world, local, journal, spent>>

-----------------------------------------------------------------------------
(* The beginning of a call: nothing is written before the journal, the     *)
(* branch, the remote branch and the worktree have been compared.          *)

Begin ==
  /\ At("start") /\ ~mainMoved /\ journal = NoJournal
  /\ branch = None /\ remote = None /\ tree = "absent"
  /\ Goto("add")
  /\ Keep /\ UNCHANGED <<world, local, journal, spent>>

ResumeBuilding ==
  /\ At("start") /\ ~mainMoved /\ journal # NoJournal /\ tree = "branch"
  /\ journal.commit = None /\ head = Base
  /\ Goto("apply")
  /\ Keep /\ UNCHANGED <<world, local, journal, spent>>

ResumeCommitted ==
  /\ At("start") /\ ~mainMoved /\ tree = "branch"
  /\ journal.commit # None /\ Proven(journal.commit)
  /\ journal.phase \in Published => remote = journal.commit
  /\ Goto("push")
  /\ Keep /\ UNCHANGED <<world, local, journal, spent>>

\* Mutant: a commit left by a death is adopted instead of proven again.
ResumeUnproven_Adopts ==
  /\ At("start") /\ ~mainMoved /\ journal # NoJournal /\ tree = "branch"
  /\ journal.commit # None \/ head # Base
  /\ ~Proven(head) \/ journal.commit # head
  /\ journal.phase \notin Published
  /\ IF head \in Commits THEN Record("committed", head, "both") /\ Goto("push")
     ELSE Goto("remove") /\ UNCHANGED journal
  /\ Keep /\ UNCHANGED <<world, local, spent>>

(* A commit nobody can prove is thrown away with its worktree and branch,  *)
(* unless it has been published.                                           *)
ResumeUnproven ==
  /\ At("start") /\ ~mainMoved /\ journal # NoJournal /\ tree = "branch"
  /\ journal.commit # None \/ head # Base
  /\ ~Proven(head) \/ journal.commit # head
  /\ journal.phase \notin Published
  /\ Goto("remove")
  /\ Keep /\ UNCHANGED <<world, local, journal, spent>>

StartRefused ==
  /\ At("start")
  /\ \/ mainMoved /\ Refuse("main_moved")
     \/ /\ ~mainMoved /\ journal = NoJournal
        /\ \/ branch # None \/ remote # None
           \/ tree # "absent"
        /\ Refuse(IF branch # None \/ remote # None THEN "branch_conflict"
                  ELSE "worktree_conflict")
     \/ /\ ~mainMoved /\ journal # NoJournal /\ tree # "branch"
        /\ Refuse(IF tree = "absent" THEN "journal_conflict" ELSE "branch_conflict")
     \/ /\ ~mainMoved /\ tree = "branch" /\ journal.phase \in Published
        /\ \/ ~Proven(journal.commit) /\ Refuse("recovery_review_required")
           \/ /\ Proven(journal.commit) /\ remote # journal.commit
              /\ Refuse("remote_branch_moved")
  /\ UNCHANGED <<world, local, journal, spent>>

-----------------------------------------------------------------------------
(* The worktree: four effects on the repository before the journal names it *)

RemoveWorktree ==
  /\ At("remove") /\ tree' = "absent" /\ head' = None /\ files' = "before"
  /\ provisioned' = FALSE /\ Goto("add")
  /\ Keep /\ UNCHANGED <<world, branch, checked, journal, spent>>

(* The old branch is deleted first when there is one.                      *)
AddWorktree ==
  /\ At("add") /\ branch' = None /\ tree' = "detached" /\ head' = Base
  /\ files' = "before" /\ Goto("name")
  /\ Keep /\ UNCHANGED <<world, provisioned, checked, journal, spent>>

NameBranch ==
  /\ At("name") /\ tree' = "branch" /\ branch' = head /\ Goto("created")
  /\ Keep /\ UNCHANGED <<world, head, files, provisioned, checked, journal, spent>>

\* Mutant: the commit the worktree starts from is recorded as the candidate.
RecordCreated_Head ==
  /\ At("created") /\ Record("worktree-created", head, "none") /\ Goto("provision")
  /\ Keep /\ UNCHANGED <<world, local, spent>>

RecordCreated ==
  /\ At("created") /\ Record("worktree-created", None, "none") /\ Goto("provision")
  /\ Keep /\ UNCHANGED <<world, local, spent>>

(* The callback of the phase, after its journal record.                    *)
Provision ==
  /\ At("provision") /\ provisioned' = TRUE /\ Goto("apply")
  /\ Keep /\ UNCHANGED <<world, tree, head, files, branch, checked, journal, spent>>

-----------------------------------------------------------------------------
(* The admitted bytes                                                       *)

Apply ==
  /\ At("apply")
  /\ \/ mainMoved /\ Refuse("main_moved") /\ UNCHANGED files
     \/ ~mainMoved /\ files = "mixed" /\ Refuse("digest_mismatch") /\ UNCHANGED files
     \/ ~mainMoved /\ files = "after" /\ Goto("applied") /\ Keep /\ UNCHANGED files
     \/ ~mainMoved /\ files = "before" /\ files' = "mixed" /\ Goto("applying") /\ Keep
  /\ UNCHANGED <<world, tree, head, provisioned, branch, checked, journal, spent>>

ApplyRest ==
  /\ At("applying") /\ files' = "after" /\ Goto("applied")
  /\ Keep /\ UNCHANGED <<world, tree, head, provisioned, branch, checked, journal, spent>>

RecordApplied ==
  /\ At("applied") /\ Record("files-applied", None, "none") /\ Goto("verify")
  /\ Keep /\ UNCHANGED <<world, local, spent>>

(* The suites need the linked inputs; a red suite refuses, and so does an  *)
(* index that differs from a moved branch in more than the admitted paths. *)
Verify ==
  /\ At("verify") /\ ~mainMoved /\ provisioned
  /\ Record("verified", None, "run") /\ Goto("commit")
  /\ Keep /\ UNCHANGED <<world, local, spent>>

VerifyRefused ==
  /\ \/ /\ At("verify") \/ At("commit")
        /\ mainMoved /\ Refuse("main_moved") /\ UNCHANGED spent
     \/ /\ At("verify") /\ ~mainMoved
        /\ \/ (~provisioned \/ head # Base) /\ UNCHANGED spent
           \/ provisioned /\ Fault
        /\ Refuse("verify_failed")
  /\ UNCHANGED <<world, local, journal>>

Commit(c) ==
  /\ At("commit") /\ ~mainMoved /\ head = Base
  /\ checked[c] = 0 /\ \A d \in Commits : d < c => checked[d] > 0
  /\ head' = c /\ branch' = c /\ checked' = [checked EXCEPT ![c] = 1]
  /\ Goto("prove")
  /\ Keep /\ UNCHANGED <<world, tree, files, provisioned, journal, spent>>

(* On a branch somebody has moved the commit is refused, or lands and has  *)
(* the wrong parent: it is then no commit of ours.                         *)
CommitAstray ==
  /\ At("commit") /\ ~mainMoved /\ head # Base
  /\ Refuse("failed") \/ (Goto("prove") /\ Keep)
  /\ UNCHANGED <<world, local, journal, spent>>

(* The suites again, on the commit; then the proof that branch and worktree *)
(* hold a commit of ours, a last look at main and the record that makes the *)
(* commit publishable.                                                      *)
ProveCommit ==
  /\ At("prove")
  /\ \/ /\ head \notin Commits /\ Refuse("commit_proof_failed")
        /\ UNCHANGED <<checked, journal>>
     \/ /\ head \in Commits /\ checked' = [checked EXCEPT ![head] = 2]
        /\ \/ mainMoved /\ Refuse("main_moved") /\ UNCHANGED journal
           \/ ~mainMoved /\ Record("committed", head, "both") /\ Goto("push") /\ Keep
  /\ UNCHANGED <<world, tree, head, files, provisioned, branch, spent>>

ProveRefused ==
  /\ At("prove") /\ Fault /\ Refuse("verify_failed")
  /\ UNCHANGED <<world, local, journal>>

-----------------------------------------------------------------------------
(* The push: the branch must not exist on the remote, at the look and again *)
(* in the lease of the push itself.                                         *)

StatusOf(phase) ==
  CASE phase = "committed" -> "LOCAL_READY"
    [] phase = "pushed" -> "PUSHED"
    [] OTHER -> "ALREADY_PREPARED"

\* Mutant: a branch of the same name is a conflict even when it is our own commit.
LookBeforePush_Strict ==
  /\ At("push")
  /\ LET status == StatusOf(journal.phase)
         to(pc) == call' = [call EXCEPT !.pc = pc, !.status = status] /\ Keep
     IN \/ (~call.push \/ journal.phase # "committed") /\ to("view")
        \/ /\ call.push /\ journal.phase = "committed"
           /\ \/ mainMoved /\ Refuse("main_moved")
              \/ ~mainMoved /\ remote = None /\ to("pushing")
              \/ ~mainMoved /\ remote # None /\ Refuse("branch_conflict")
  /\ UNCHANGED <<world, local, journal, spent>>

LookBeforePush ==
  /\ At("push")
  /\ LET status == StatusOf(journal.phase)
         to(pc) == call' = [call EXCEPT !.pc = pc, !.status = status] /\ Keep
     IN \/ (~call.push \/ journal.phase # "committed") /\ to("view")
        \/ /\ call.push /\ journal.phase = "committed"
           /\ \/ mainMoved /\ Refuse("main_moved")
              \/ ~mainMoved /\ remote = None /\ to("pushing")
              \/ ~mainMoved /\ remote = journal.commit /\ to("pushed")
              \/ ~mainMoved /\ remote \notin {None, journal.commit}
                 /\ Refuse("branch_conflict")
  /\ UNCHANGED <<world, local, journal, spent>>

\* Mutant: the push has no lease.
Push_Forced ==
  /\ At("pushing") /\ Keep
  /\ \/ remote' = branch /\ Goto("pushed") /\ UNCHANGED spent
     \/ remote' = branch /\ Goto("view") /\ Fault
     \/ UNCHANGED remote /\ Goto("view") /\ Fault
  /\ UNCHANGED <<mainMoved, pull, local, journal>>

\* Mutant: a push whose answer is lost is reported as done.
Push_Claims ==
  /\ At("pushing") /\ Keep
  /\ \/ remote = None /\ remote' = branch /\ Goto("pushed") /\ UNCHANGED spent
     \/ remote = None /\ remote' = branch /\ Fault
        /\ call' = [call EXCEPT !.pc = "view", !.status = "PUSHED"]
     \/ remote = None /\ UNCHANGED remote /\ Goto("view") /\ Fault
     \/ remote # None /\ UNCHANGED <<remote, spent>> /\ Goto("view")
  /\ UNCHANGED <<mainMoved, pull, local, journal>>

(* The branch is pushed by its name, wherever it points by then.  A push    *)
(* that fails, or whose answer is lost, leaves the next command to the      *)
(* reviewer and the journal at the committed phase.                         *)
Push ==
  /\ At("pushing") /\ Keep
  /\ \/ remote = None /\ remote' = branch /\ Goto("pushed") /\ UNCHANGED spent
     \/ remote = None /\ remote' = branch /\ Goto("view") /\ Fault
     \/ remote = None /\ UNCHANGED remote /\ Goto("view") /\ Fault
     \/ remote # None /\ UNCHANGED <<remote, spent>> /\ Goto("view")
  /\ UNCHANGED <<mainMoved, pull, local, journal>>

RecordPushed ==
  /\ At("pushed")
  /\ \/ /\ remote = journal.commit
        /\ Record("pushed", journal.commit, journal.evidence)
        /\ call' = [call EXCEPT !.pc = "view", !.status = "PUSHED"] /\ Keep
     \/ remote # journal.commit /\ Refuse("remote_branch_moved") /\ UNCHANGED journal
  /\ UNCHANGED <<world, local, spent>>

-----------------------------------------------------------------------------
(* The draft pull request.  Its head is whatever the remote branch holds.   *)

ViewPull ==
  /\ At("view")
  /\ \/ /\ ~call.open \/ journal.phase \notin Published
        /\ Goto("final") /\ Keep /\ UNCHANGED spent
     \/ /\ call.open /\ journal.phase \in Published
        /\ \/ remote # journal.commit /\ Refuse("remote_branch_moved") /\ UNCHANGED spent
           \/ remote = journal.commit /\ Goto("final") /\ Keep /\ Fault  \* gh is not ready
           \/ remote = journal.commit /\ pull /\ Goto("opened") /\ Keep /\ UNCHANGED spent
           \/ remote = journal.commit /\ ~pull /\ Goto("create") /\ Keep /\ UNCHANGED spent
           \/ remote = journal.commit /\ pull /\ Goto("create") /\ Keep /\ Fault
  /\ UNCHANGED <<world, local, journal>>

(* GitHub refuses a second pull request of a branch.  When the creation    *)
(* fails, the address the journal already holds is recorded once more.     *)
CreatePull ==
  /\ At("create")
  /\ LET failed == Goto(IF journal.phase = "draft-pr-opened" THEN "opened" ELSE "final")
     IN \/ ~pull /\ pull' = TRUE /\ remote = journal.commit /\ Goto("opened")
           /\ Keep /\ UNCHANGED spent
        \/ ~pull /\ pull' = TRUE /\ remote # journal.commit
           /\ Refuse("failed") /\ UNCHANGED spent
        \/ ~pull /\ pull' = TRUE /\ Fault
           /\ \/ Refuse("failed")       \* it cannot be read back
              \/ failed /\ Keep         \* the answer is lost
        \/ ~pull /\ UNCHANGED pull /\ Fault /\ failed /\ Keep
        \/ pull /\ UNCHANGED <<pull, spent>> /\ failed /\ Keep
  /\ UNCHANGED <<mainMoved, remote, local, journal>>

RecordOpened ==
  /\ At("opened") /\ Record("draft-pr-opened", journal.commit, journal.evidence)
  /\ call' = [call EXCEPT !.pc = "final", !.status = "DRAFT_PR_OPENED"]
  /\ Keep /\ UNCHANGED <<world, local, spent>>

(* The last look at everything the answer is about.                        *)
Answer ==
  /\ At("final")
  /\ \/ mainMoved /\ Refuse("main_moved") /\ UNCHANGED spent
     \/ ~mainMoved /\ ~Proven(journal.commit)
        /\ Refuse("recovery_review_required") /\ UNCHANGED spent
     \/ /\ ~mainMoved /\ Proven(journal.commit)
        /\ journal.phase \in Published /\ remote # journal.commit
        /\ Refuse("remote_branch_moved") /\ UNCHANGED spent
     \/ ~mainMoved /\ Proven(journal.commit) /\ Fault /\ Refuse("failed")   \* the primary worktree changed
     \/ /\ ~mainMoved /\ Proven(journal.commit)
        /\ journal.phase \in Published => remote = journal.commit
        /\ call' = Idle /\ answer' = call.status /\ UNCHANGED spent
  /\ UNCHANGED <<world, local, journal>>

DraftStep ==
  \/ Begin \/ ResumeBuilding \/ ResumeCommitted \/ ResumeUnproven \/ StartRefused
  \/ RemoveWorktree \/ AddWorktree \/ NameBranch \/ RecordCreated \/ Provision
  \/ Apply \/ ApplyRest \/ RecordApplied \/ Verify \/ VerifyRefused
  \/ \E c \in Commits : Commit(c)
  \/ CommitAstray \/ ProveCommit \/ ProveRefused \/ LookBeforePush \/ Push \/ RecordPushed
  \/ ViewPull \/ CreatePull \/ RecordOpened \/ Answer

-----------------------------------------------------------------------------
(* Deaths, and what others do                                               *)

Die ==
  /\ ~At("idle") /\ deaths < MaxDeaths /\ deaths' = deaths + 1
  /\ call' = Idle /\ answer' = "none"
  /\ UNCHANGED <<world, local, journal, faults, foreign>>

(* Main, the remote branch and the local branch (with the worktree that is *)
(* on it) are moved at any time, while a call runs and between calls.      *)
Others ==
  /\ foreign < MaxForeign /\ foreign' = foreign + 1
  /\ \/ /\ ~mainMoved /\ mainMoved' = TRUE
        /\ UNCHANGED <<remote, pull, local>>
     \/ /\ remote # Foreign /\ remote' = Foreign
        /\ UNCHANGED <<mainMoved, pull, local>>
     \/ /\ tree = "branch" /\ head # Foreign /\ head' = Foreign /\ branch' = Foreign
        /\ UNCHANGED <<world, tree, files, provisioned, checked>>
  /\ UNCHANGED <<journal, call, answer, deaths, faults>>

DraftNext ==
  \/ \E push, open \in BOOLEAN : Press(push, open)
  \/ DraftStep \/ Die \/ Others

DraftSpec == DraftInit /\ [][DraftNext]_draftVars

(* A call that has begun goes on, and a reviewer who wants the draft does   *)
(* not stop pressing the button.                                           *)
DraftFairness ==
  WF_draftVars(DraftStep) /\ SF_draftVars(Press(TRUE, TRUE))

DraftFairSpec == DraftSpec /\ DraftFairness

-----------------------------------------------------------------------------
(* Properties                                                              *)

DraftTypeOK ==
  /\ mainMoved \in BOOLEAN /\ tree \in {"absent", "detached", "branch"}
  /\ head \in Commits \cup {Base, Foreign, None}
  /\ files \in {"before", "mixed", "after"} /\ provisioned \in BOOLEAN
  /\ branch \in Commits \cup {Base, Foreign, None}
  /\ remote \in Commits \cup {Foreign, None} /\ pull \in BOOLEAN
  /\ checked \in [Commits -> 0 .. 2] /\ journal \in Journals
  /\ call \in Calls
  /\ answer \in Statuses \cup Refusals \cup {"none"}
  /\ deaths \in 0 .. MaxDeaths /\ faults \in 0 .. MaxFaults /\ foreign \in 0 .. MaxForeign

(* Whatever dies and whatever is retried, a commit of ours on the remote    *)
(* has passed the suites as a tree and again as a commit, and the journal's *)
(* phase is true of the world: a committed phase names such a commit, a     *)
(* published one is on the remote unless somebody moved the branch, an      *)
(* opened one has its pull request.  A branch that is moved between the     *)
(* proof and the push is pushed as it is, and never recorded.               *)
PublishedIsProven ==
  /\ remote \in Commits => checked[remote] = 2
  /\ journal.phase \in {"committed"} \cup Published =>
       journal.commit \in Commits /\ checked[journal.commit] = 2
  /\ journal.phase \in Published => remote \in {journal.commit, Foreign}
  /\ journal.phase = "draft-pr-opened" => pull

(* What the reviewer was told stays backed by the journal until the next    *)
(* call: a prepared branch has its proven commit, a pushed or opened one    *)
(* its published phase.                                                     *)
AnswersBacked ==
  /\ answer \in Statuses => journal.commit \in Commits
  /\ answer = "PUSHED" => journal.phase = "pushed"
  /\ answer \in {"DRAFT_PR_OPENED", "ALREADY_PREPARED"} =>
       journal.phase = "draft-pr-opened"

(* No call ever replaces a branch that is on the remote, its own of an      *)
(* earlier attempt or somebody else's, and a published commit stays the     *)
(* journal's for good.                                                      *)
NeverReplaced ==
  [][/\ remote # None => remote' \in {remote, Foreign}
     /\ journal.phase \in Published =>
          /\ journal'.phase \in Published /\ journal'.commit = journal.commit
          /\ journal.phase = "draft-pr-opened" => journal'.phase = journal.phase]_draftVars

(* Once the committed phase is on disk, every death, lost answer and        *)
(* failure of GitHub is survived: pressing again ends in an open draft,     *)
(* unless others interfere.                                                 *)
CommittedIsOpened ==
  (journal.phase = "committed" /\ foreign = 0) ~>
    (journal.phase = "draft-pr-opened" \/ foreign > 0)
=============================================================================
