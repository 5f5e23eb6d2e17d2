------------------------ MODULE ComparisonPublication -----------------------
(***************************************************************************)
(* publishCandidateComparison of comparisonRunner.ts: the report of one     *)
(* candidate is published as four data files and a commit marker, all of    *)
(* them created, never replaced, by one transaction of the apply journal    *)
(* that has the candidate directory as its root.  Publishers may run at the *)
(* same time, in one process or several, with the same report or another;   *)
(* each may die at any point, and the candidate may change under them.      *)
(*                                                                         *)
(* The transaction is taken at the grain that can be seen here: the journal *)
(* record, the mark, every installed file and the removal of the journal.   *)
(***************************************************************************)
EXTENDS Sequences, SequencesExt

CONSTANTS
  Publishers,   \* calls, each made at most once
  Reports,      \* the reports they may bring; a rerun may measure another one
  Nothing,      \* no file, no journal, nobody
  Stranger,     \* bytes nobody published
  MaxStops,     \* deaths of a publisher
  MaxMeddling   \* changes of the candidate or of the files by others

ASSUME CompAssumption ==
  /\ Nothing # Stranger /\ Nothing \notin Publishers \cup Reports /\ Stranger \notin Reports
  /\ MaxStops \in Nat /\ MaxMeddling \in Nat

\* In the order the journal installs them; the marker comes last.
DataFiles == <<"commit", "report", "summary", "markdown">>

\* Mutant: the marker is installed before what it commits.
Order_MarkerFirst == <<"marker">> \o DataFiles
Order == Append(DataFiles, "marker")
FileNames == ToSet(Order)

VARIABLES
  candidate,   \* the descriptor and the database are the built ones
  published,   \* the files of the publication
  log,         \* the transaction's journal: its state and the report it carries
  owner,       \* the publisher that has the lock of the directory
  pub,         \* the publishers
  stops, meddling

compVars == <<candidate, published, log, owner, pub, stops, meddling>>

NoLog == [state |-> "none", report |-> Nothing]

CompInit ==
  /\ candidate = TRUE
  /\ published = [f \in FileNames |-> Nothing]
  /\ log = NoLog /\ owner = Nothing
  /\ pub = [p \in Publishers |-> [pc |-> "new", at |-> 1, report |-> Nothing,
                                 told |-> "nothing"]]
  /\ stops = 0 /\ meddling = 0

Stands(p, pc) == pub[p].pc = pc
Goes(p, pc) == pub' = [pub EXCEPT ![p].pc = pc]
Ends(p, answer) ==
  /\ pub' = [pub EXCEPT ![p].pc = "done", ![p].told = answer]
  /\ owner' = IF owner = p THEN Nothing ELSE owner
Mine(p) == pub[p].report

NoneExists == \A f \in FileNames : published[f] = Nothing
AllAre(r) == \A f \in FileNames : published[f] = r

\* Before the lock: the candidate is looked at and the five creations planned.
Bring(p, r) ==
  /\ Stands(p, "new") /\ candidate
  /\ pub' = [pub EXCEPT ![p].pc = "waiting", ![p].report = r]
  /\ UNCHANGED <<candidate, published, log, owner, stops, meddling>>

\* Whoever gets the lock recovers first; the wait for it is limited.
TakeLock(p) ==
  /\ Stands(p, "waiting")
  /\ \/ owner = Nothing /\ owner' = p /\ Goes(p, "recover")
     \/ owner # Nothing /\ Ends(p, "failed")
  /\ UNCHANGED <<candidate, published, log, stops, meddling>>

\* The preflight of recovery: what each state of a journal demands of the files.
CanRecover ==
  \/ log.state = "none"
  \/ log.state = "prepared" /\ NoneExists
  \/ log.state = "marked" /\ \A f \in FileNames : published[f] \in {Nothing, log.report}
  \/ log.state = "committed" /\ AllAre(log.report)

RecoverLog(p) ==
  /\ Stands(p, "recover")
  /\ \/ ~CanRecover /\ Ends(p, "failed") /\ UNCHANGED log
     \/ CanRecover /\ log.state = "marked" /\ Goes(p, "redo") /\ UNCHANGED <<log, owner>>
     \/ CanRecover /\ log.state # "marked" /\ log' = NoLog /\ Goes(p, "validate") /\ UNCHANGED owner
  /\ UNCHANGED <<candidate, published, stops, meddling>>

\* The files are installed in order, whatever is in their places by now; a
\* recovery passes over those that are in place already.
InstallFile(p) ==
  /\ pub[p].pc \in {"install", "redo"} /\ pub[p].at <= Len(Order)
  /\ published' = [published EXCEPT ![Order[pub[p].at]] = log.report]
  /\ pub' = [pub EXCEPT ![p].at = @ + 1]
  /\ UNCHANGED <<candidate, log, owner, stops, meddling>>

\* Every file is compared once more before the journal says committed.
Installed(p) ==
  /\ pub[p].pc \in {"install", "redo"} /\ pub[p].at > Len(Order)
  /\ \/ ~AllAre(log.report) /\ Ends(p, "failed") /\ UNCHANGED log
     \/ /\ AllAre(log.report) /\ UNCHANGED owner
        /\ IF Stands(p, "redo") THEN log' = NoLog /\ Goes(p, "validate")
           ELSE log' = [log EXCEPT !.state = "committed"] /\ Goes(p, "verify")
  /\ UNCHANGED <<candidate, published, stops, meddling>>

\* Mutant: the marker counts, whatever it commits.
ValidateLocked_MarkerOnly(p) ==
  /\ Stands(p, "validate")
  /\ \/ candidate /\ published["marker"] # Nothing /\ Ends(p, "ALREADY_PUBLISHED")
     \/ candidate /\ published["marker"] = Nothing /\ Goes(p, "apply") /\ UNCHANGED owner
     \/ ~candidate /\ Ends(p, "failed")
  /\ UNCHANGED <<candidate, published, log, stops, meddling>>

\* beforeApply: the candidate again; an existing marker must commit exactly this
\* report, and every file must be what the marker says.
ValidateLocked(p) ==
  /\ Stands(p, "validate")
  /\ \/ ~candidate /\ Ends(p, "failed")
     \/ candidate /\ published["marker"] = Nothing /\ Goes(p, "apply") /\ UNCHANGED owner
     \/ /\ candidate /\ published["marker"] # Nothing
        /\ Ends(p, IF AllAre(Mine(p)) THEN "ALREADY_PUBLISHED" ELSE "failed")
  /\ UNCHANGED <<candidate, published, log, stops, meddling>>

\* The last look at the candidate and at the places of the files, and the journal.
BeginApply(p) ==
  /\ Stands(p, "apply")
  /\ \/ candidate /\ NoneExists /\ Goes(p, "mark") /\ UNCHANGED owner
        /\ log' = [state |-> "prepared", report |-> Mine(p)]
     \/ ~(candidate /\ NoneExists) /\ Ends(p, "failed") /\ UNCHANGED log
  /\ UNCHANGED <<candidate, published, stops, meddling>>

MarkLog(p) ==
  /\ Stands(p, "mark")
  /\ \/ NoneExists /\ log' = [log EXCEPT !.state = "marked"] /\ Goes(p, "install") /\ UNCHANGED owner
     \/ ~NoneExists /\ Ends(p, "failed") /\ UNCHANGED log
  /\ UNCHANGED <<candidate, published, stops, meddling>>

\* Mutant: the answer is given without looking at what was committed.
VerifyCommitted_Trusts(p) ==
  /\ Stands(p, "verify") /\ log' = NoLog /\ Ends(p, "PUBLISHED")
  /\ UNCHANGED <<candidate, published, stops, meddling>>

\* afterCommit: candidate and publication are verified; a refusal leaves the
\* committed journal for the next publisher to clear away.
VerifyCommitted(p) ==
  /\ Stands(p, "verify")
  /\ IF candidate /\ AllAre(Mine(p)) THEN log' = NoLog /\ Ends(p, "PUBLISHED")
     ELSE Ends(p, "failed") /\ UNCHANGED log
  /\ UNCHANGED <<candidate, published, stops, meddling>>

\* A write that fails ends the call as a death does.
StopPublisher(p) ==
  /\ pub[p].pc \notin {"new", "done"} /\ stops < MaxStops /\ stops' = stops + 1
  /\ Ends(p, "failed")
  /\ UNCHANGED <<candidate, published, log, meddling>>

\* Others: the candidate is rebuilt or put back, a file is created or overwritten.
Meddle ==
  /\ meddling < MaxMeddling /\ meddling' = meddling + 1
  /\ \/ candidate' = ~candidate /\ UNCHANGED published
     \/ /\ \E f \in FileNames : published' = [published EXCEPT ![f] = Stranger]
        /\ UNCHANGED candidate
  /\ UNCHANGED <<log, owner, pub, stops>>

CompStep(p) ==
  \/ TakeLock(p) \/ RecoverLog(p) \/ InstallFile(p) \/ Installed(p)
  \/ ValidateLocked(p) \/ BeginApply(p) \/ MarkLog(p) \/ VerifyCommitted(p)

CompNext ==
  \/ \E p \in Publishers : CompStep(p) \/ StopPublisher(p) \/ \E r \in Reports : Bring(p, r)
  \/ Meddle

CompSpec == CompInit /\ [][CompNext]_compVars

-----------------------------------------------------------------------------
(* Properties                                                              *)

\* The report counts as written from the mark on, because recovery only goes
\* forward from there; without a journal it is what the files say.
ReportOf ==
  IF log.state = "marked" THEN log.report
  ELSE IF NoneExists THEN Nothing
  ELSE IF \E r \in Reports : AllAre(r) THEN published["marker"] ELSE Stranger

(* However publishers overlap and die, publishing implements a register     *)
(* that is written once: no answer without the report in place, one first   *)
(* publisher, never a second report.                                        *)
Once == INSTANCE WriteOnce WITH
  Unwritten <- Nothing, Spoilt <- Stranger, report <- ReportOf,
  wanted <- [p \in Publishers |-> pub[p].report],
  told <- [p \in Publishers |-> pub[p].told]
PublishedOnce == Once!Spec

(* A marker that nobody touched commits four files that are all of the same *)
(* report, in every state a reader without the lock can see.                *)
MarkerCommitsWhole ==
  published["marker"] \in Reports =>
    \A f \in FileNames : published[f] \in {published["marker"], Stranger}
=============================================================================
