------------------------------ MODULE Gauntlet ------------------------------
(***************************************************************************)
(* The admission gauntlet (eval/src/gauntlet.ts) and what trusts its       *)
(* machine report: a run resolves its target, records the identity of the  *)
(* repository, leaves a marker, reads the reviewed data file by file while *)
(* anybody may edit it, merges what the gates say, compares the identity   *)
(* again and publishes a report; a reader accepts the report only while    *)
(* everything it names is as it was (verifyMachineReportFreshness), and    *)
(* the promotion of a pending fixture rests on such a report               *)
(* (fixturePromotion.ts).                                                  *)
(*                                                                         *)
(* The repository is four things: the tree (code, ontology, budgets: all   *)
(* that Git sees), the status of one golden fixture that covers a concept, *)
(* the probe baseline, and the target database with its descriptor, which  *)
(* Git does not see.  A digest is the content it is of.  The gates are     *)
(* constants: what they say is a function of what they read.  The digests  *)
(* of the report over itself, its exact keys and the wording are left out. *)
(***************************************************************************)
EXTENDS Integers, FiniteSets

CONSTANTS
  Trees, Targets,
  Holding,     \* the pairs of a tree and a database on which the fixture's query holds
  Vacuous,     \* those on which a guard of the fixture names no verse
  Failing,     \* trees that another required gate rejects
  Warned,      \* trees that another gate warns of
  Unharmed,    \* targets on which the battery passes
  Effectless,     \* targets that move no anchor, although a layer changed
  Triple,      \* the engine identity inside a database
  AskedOf,       \* the options that are asked for
  MaxRuns, MaxInputEdits   \* bounds

Corpus == "fixture corpus"    \* the database a run without a target builds

ASSUME GauntletAssumption == MaxRuns \in Nat /\ MaxInputEdits \in Nat /\ Corpus \notin Targets
\* The engine identity is of the text, the curated layer and the code: databases that bear
\* the same one return the same, and one that does not is a defect (gates/orderingSnapshot.ts).
ASSUME EngineAssumption ==
  \A d, e \in Targets \cup {Corpus} : Triple[d] = Triple[e] =>
    \A t \in Trees : /\ <<t, d>> \in Holding <=> <<t, e>> \in Holding
                     /\ <<t, d>> \in Vacuous <=> <<t, e>> \in Vacuous

VARIABLES
  tree, fixture, baseline, target,   \* the repository
  run,        \* the run: [pc, pid, opts, start, target, ...]
  report,     \* the machine report at its path, or NoReport
  markers,    \* the markers in eval/.runs: [pid, identity]
  runs,       \* how often a run was started
  promotion,  \* the promotion under way: [pc, evidence, on]
  inputEdits,      \* how often the inputs were edited
  turns       \* changes since the run recorded the identity, at most two

gauntletVars == <<tree, fixture, baseline, target, run, report, markers, runs, promotion, inputEdits, turns>>

\* captureRepositoryIdentity: commit, dirty tree, descriptor, budgets and fixture inputs.
Identity == [tree |-> tree, fixture |-> fixture, baseline |-> baseline]

\* parseGauntletOptions: what may be asked together.
Options == {o \in [json : BOOLEAN, target : BOOLEAN, update : BOOLEAN, admit : BOOLEAN, debt : BOOLEAN, claim : BOOLEAN] :
              /\ o.debt => o.admit
              /\ o.update => ~o.admit /\ ~o.json /\ ~o.target}

NoReport == [digest |-> 0, verdict |-> "unavailable"]
NoRun == [pc |-> "idle"]
NoPromotion == [pc |-> "idle"]

GauntletInit ==
  /\ tree \in Trees /\ fixture \in {"pending", "active"} /\ baseline = "reviewed" /\ target \in Targets
  /\ run = NoRun /\ report = NoReport /\ markers = {} /\ runs = 0
  /\ promotion = NoPromotion /\ inputEdits = 0 /\ turns = 0

-----------------------------------------------------------------------------
\* What the gates say, as rows of the report.
GateRow(gate, status) ==
  [gate |-> gate, status |-> status, required |-> TRUE, findings |-> {}, candidate |-> FALSE]

\* A regression withholds the candidates; a concept that lacks a fixture does not.
Candidates(R) == (\E r \in R : r.candidate) /\ \A r \in R : r.status = "fail" => r.gate = "coverage"

\* mergeGateResults: the worst status, and not applicable only if all are.
Merged(gate, R) ==
  LET Some(status) == \E r \in R : r.status = status
  IN [gate |-> gate, required |-> TRUE, candidate |-> Candidates(R),
      findings |-> UNION {r.findings : r \in R},
      status |-> IF Some("fail") THEN "fail" ELSE IF Some("warn") THEN "warn"
                 ELSE IF {r.status : r \in R} = {"not-applicable"} THEN "not-applicable" ELSE "pass"]

\* conceptCoverageGate: only an active fixture demonstrates its concept.
CoverageGate(f) == GateRow("coverage", IF f = "active" THEN "pass" ELSE "fail")

\* corpusGoldenGate, on a tree and a database.  An active fixture must hold; a pending
\* one is a candidate if it holds and all its guards could fire, and a debt if it fails.
CorpusGate(f, t, db) ==
  LET holds == <<t, db>> \in Holding
      vacuous == <<t, db>> \in Vacuous
  IN [GateRow("corpus", CASE f = "active" /\ ~holds -> "fail"
                      [] (f = "pending" /\ ~holds) \/ (holds /\ vacuous) -> "warn"
                      [] OTHER -> "pass")
      EXCEPT !.candidate = f = "pending" /\ holds /\ ~vacuous,
             !.findings = {x \in {"debt", "vacuous"} : IF x = "debt" THEN f = "pending" /\ ~holds ELSE vacuous}]

\* noiseGate with the approval of its baseline.
NoiseGate(b) == GateRow("G8", IF b = "reviewed" THEN "pass" ELSE "fail")

\* batteryGate: it measures an explicit target, and is required only there.
BatteryGate(db) ==
  IF db = Corpus THEN [GateRow("G12", "not-applicable") EXCEPT !.required = FALSE]
  ELSE GateRow("G12", IF db \in Unharmed THEN "pass" ELSE "fail")

\* The other gates.
OtherGate(t) == GateRow("other", IF t \in Failing THEN "fail" ELSE IF t \in Warned THEN "warn" ELSE "pass")

\* The rows of a run, each of what was read for it.
GateRows(saw) ==
  {Merged("G3", {CoverageGate(saw.main.fixture), CorpusGate(saw.gates.fixture, saw.gates.tree, saw.db)}),
   NoiseGate(saw.baseline), BatteryGate(saw.db), OtherGate(saw.main.tree)}

\* decideVerdict.
Verdict(rows, effectless) ==
  IF \E r \in rows : r.status = "fail" \/ (r.status = "not-applicable" /\ r.required) THEN "REJECT"
  ELSE IF effectless THEN "NO_MEASURABLE_EFFECT"
  ELSE IF \E r \in rows : r.status = "warn" THEN "ADMIT_WITH_WARNINGS"
  ELSE "ADMIT"

\* pendingDebtOnly: all that is not well is a warning of G3 about pending fixtures.
PendingDebtOnly(rows) ==
  LET unwell == {r \in rows : r.status \notin {"pass", "not-applicable"}}
  IN unwell # {} /\ \A r \in unwell : r.status = "warn" /\ r.gate = "G3" /\ r.findings = {"debt"}

\* gauntletExitCode.
ExitCode(verdict, o, debtOnly) ==
  CASE verdict = "REJECT" -> 1
    [] verdict = "NO_MEASURABLE_EFFECT" -> IF o.admit /\ ~o.claim THEN 1 ELSE 0
    [] verdict = "ADMIT_WITH_WARNINGS" -> IF o.admit /\ ~(o.debt /\ debtOnly) THEN 1 ELSE 0
    [] verdict = "ADMIT" -> 0

-----------------------------------------------------------------------------
\* The run.
Running == run.pc # "idle"
Turn == turns' = IF Running /\ turns < 2 THEN turns + 1 ELSE turns
RunOnly == UNCHANGED <<tree, fixture, target, promotion, inputEdits>>
Seen == [tree |-> tree, fixture |-> fixture]

\* resolveGauntletTarget: the descriptor vouches for the bytes of the database.
Resolve ==
  /\ ~Running /\ runs < MaxRuns /\ runs' = runs + 1
  /\ \E o \in Options \cap AskedOf :
       run' = [pc |-> "resolved", pid |-> runs', opts |-> o, start |-> Identity,
               target |-> IF o.target THEN target ELSE Corpus,
               saw |-> [main |-> Seen, gates |-> Seen, baseline |-> baseline, db |-> Corpus]]
  /\ turns' = 0
  /\ RunOnly /\ UNCHANGED <<baseline, report, markers>>

\* The identity at the start, and the marker that bears it.
WriteMarker ==
  /\ run.pc = "resolved"
  /\ run' = [run EXCEPT !.pc = "marked", !.start = Identity]
  /\ markers' = markers \cup {[pid |-> run.pid, identity |-> Identity]}
  /\ turns' = 0
  /\ RunOnly /\ UNCHANGED <<baseline, report, runs>>

\* main reads the ontology, the fixtures and the budgets.
LoadInputs ==
  /\ run.pc = "marked"
  /\ run' = [run EXCEPT !.pc = "loaded", !.saw.main = Seen]
  /\ RunOnly /\ UNCHANGED <<baseline, report, markers, runs, turns>>

\* The end of main, by return or by exception: the marker goes.
End == run' = NoRun /\ markers' = {m \in markers : m.pid # run.pid}

\* The engine inside the database is the one the descriptor spoke of.
SameEngine(db) == Triple[db] = Triple[run.target]

\* runProbeGates opens the database and judges the baseline; only then it may replace it.
OpenDatabase ==
  /\ run.pc = "loaded"
  /\ LET db == IF run.opts.target THEN target ELSE Corpus IN
     IF SameEngine(db)
     THEN /\ run' = [run EXCEPT !.pc = "opened", !.saw.db = db, !.saw.baseline = baseline]
          /\ baseline' = IF run.opts.update THEN "rewritten" ELSE baseline
          /\ IF run.opts.update THEN Turn ELSE UNCHANGED turns
          /\ UNCHANGED markers
     ELSE End /\ UNCHANGED <<baseline, turns>>
  /\ RunOnly /\ UNCHANGED <<report, runs>>

\* The golden fixtures are read once more, and measured.
MeasureFixtures ==
  /\ run.pc = "opened"
  /\ run' = [run EXCEPT !.pc = "measured", !.saw.gates = Seen]
  /\ RunOnly /\ UNCHANGED <<baseline, report, markers, runs, turns>>

\* Mutant: the identity is not taken again.
SameIdentity_Any(start) == TRUE
\* repositoryIdentitiesMatch, of the start and the end.
SameIdentity(start) == start = Identity

\* A run under which the repository changed says nothing and fails.
CompareIdentity ==
  /\ run.pc = "measured"
  /\ IF SameIdentity(run.start)
     THEN run' = [run EXCEPT !.pc = "judged"] /\ UNCHANGED markers
     ELSE End
  /\ RunOnly /\ UNCHANGED <<baseline, report, runs, turns>>

NoEffect == run.opts.target /\ run.saw.db \in Effectless
Judgment == Verdict(GateRows(run.saw), NoEffect)

\* writeMachineReportAtomically: a renamed temporary file.
WriteReport ==
  /\ run.pc = "judged"
  /\ run' = [run EXCEPT !.pc = "reported"]
  /\ report' = IF run.opts.json
               THEN [digest |-> run.pid, identity |-> run.start, target |-> run.target,
                     rows |-> GateRows(run.saw), verdict |-> Judgment,
                     saw |-> run.saw, turned |-> turns > 1]
               ELSE report
  /\ RunOnly /\ UNCHANGED <<baseline, markers, runs, turns>>

\* What the process is about to say of the run.
Code == ExitCode(Judgment, run.opts, PendingDebtOnly(GateRows(run.saw)))

Exit ==
  /\ run.pc = "reported" /\ End
  /\ RunOnly /\ UNCHANGED <<baseline, report, runs, turns>>

\* A killed run leaves its marker.
Die ==
  /\ Running /\ run' = NoRun
  /\ RunOnly /\ UNCHANGED <<baseline, report, markers, runs, turns>>

-----------------------------------------------------------------------------
\* The readers.

\* verifyMachineReportFreshness.
Fresh(r) ==
  /\ r.digest # 0
  /\ r.identity = Identity
  /\ r.target # Corpus => r.target = target

\* readActiveMarker and readGauntletHealth.
Active == \E m \in markers : Running /\ m.pid = run.pid /\ m.identity = Identity
Health == IF Active THEN "running" ELSE IF Fresh(report) THEN report.verdict ELSE "unavailable"

\* A reader asks for it, at any time, and changes nothing.
ReadHealth == Health \in {"running", "unavailable", report.verdict} /\ UNCHANGED gauntletVars

\* A day passes: the report is refused from now on, as if it were not there.
Age ==
  /\ report.digest # 0 /\ report' = NoReport
  /\ UNCHANGED <<tree, fixture, baseline, target, run, markers, runs, promotion, inputEdits, turns>>

\* previewFixturePromotion: a pending fixture, proven by a fresh report.
Proven == fixture = "pending" /\ Fresh(report) /\ \E r \in report.rows : r.gate = "G3" /\ r.candidate
PromotionOnly == UNCHANGED <<tree, baseline, target, run, report, markers, runs, turns>>

PreviewPromotion ==
  /\ promotion.pc = "idle" /\ Proven
  /\ promotion' = [pc |-> "reviewed", evidence |-> report.digest, on |-> <<>>, turned |-> FALSE]
  /\ PromotionOnly /\ UNCHANGED <<fixture, inputEdits>>

\* The preview is made again, from the same report.
StillProven == Proven /\ report.digest = promotion.evidence

\* applyFixturePromotion, before the lock of the repository and, from the journal's
\* phase, under it.
ConfirmPromotion ==
  /\ promotion.pc \in {"reviewed", "requested"}
  /\ promotion' = IF ~StillProven THEN NoPromotion
                  ELSE IF promotion.pc = "reviewed" THEN [promotion EXCEPT !.pc = "requested"]
                  ELSE [promotion EXCEPT !.pc = "locked", !.on = <<tree, report.target>>,
                                         !.turned = report.turned]
  /\ PromotionOnly /\ UNCHANGED <<fixture, inputEdits>>

\* applyMutationPlan writes the fixture only over the bytes of the preview.
PromoteFixture ==
  /\ promotion.pc = "locked" /\ promotion' = NoPromotion
  /\ IF fixture = "pending" THEN fixture' = "active" /\ Turn ELSE UNCHANGED <<fixture, turns>>
  /\ UNCHANGED <<tree, baseline, target, run, report, markers, runs, inputEdits>>

\* Anybody edits the repository, or another database is put in place.
EditInputs ==
  /\ inputEdits < MaxInputEdits /\ inputEdits' = inputEdits + 1
  /\ Turn
  /\ \/ tree' \in Trees \ {tree} /\ UNCHANGED <<fixture, baseline, target>>
     \/ fixture' \in {"pending", "active"} \ {fixture} /\ UNCHANGED <<tree, baseline, target>>
     \/ target' \in Targets \ {target} /\ UNCHANGED <<tree, fixture, baseline>>
     \/ baseline = "rewritten" /\ baseline' = "reviewed" /\ UNCHANGED <<tree, fixture, target>>
  /\ UNCHANGED <<run, report, markers, runs, promotion>>

GauntletNext ==
  \/ Resolve \/ WriteMarker \/ LoadInputs \/ OpenDatabase \/ MeasureFixtures \/ CompareIdentity
  \/ WriteReport \/ Exit \/ Die \/ ReadHealth \/ Age
  \/ PreviewPromotion \/ ConfirmPromotion \/ PromoteFixture \/ EditInputs

GauntletSpec == GauntletInit /\ [][GauntletNext]_gauntletVars

-----------------------------------------------------------------------------
GauntletTypeOK ==
  /\ tree \in Trees /\ target \in Targets /\ fixture \in {"pending", "active"}
  /\ baseline \in {"reviewed", "rewritten"}
  /\ \A m \in markers : m.pid \in 1..MaxRuns
  /\ promotion.pc \in {"idle", "reviewed", "requested", "locked"}

\* A report that is accepted was measured on what is there now: no gate of it read a
\* fixture, a tree, a baseline or a database other than the present ones, unless the
\* repository was changed away and back while the run read it.
FreshIsMeasured ==
  Fresh(report) =>
    \/ report.turned
    \/ /\ report.saw.main = Seen /\ report.saw.gates = Seen /\ report.saw.baseline = baseline
       /\ report.target # Corpus => Triple[report.saw.db] = Triple[target]

\* A strict run that exits with success admits what it read: every gate on the same
\* repository, the fixture active and holding, the baseline reviewed, the battery well
\* where there is a target, and nothing to be warned of but the debt that was allowed.
StrictExitAdmits ==
  run.pc = "reported" /\ run.opts.admit /\ turns < 2 /\ Code = 0 =>
    LET t == run.start.tree db == run.saw.db effectless == run.opts.target /\ db \in Effectless IN
    /\ t \notin Failing /\ run.start.baseline = "reviewed"
    /\ run.start.fixture = "active" /\ <<t, db>> \in Holding
    /\ run.opts.target => db \in Unharmed
    /\ IF effectless THEN run.opts.claim ELSE t \notin Warned /\ <<t, db>> \notin Vacuous

\* No report is of a run that replaced its own baseline, and such a run does not succeed.
NothingVouchesForItself ==
  /\ report.digest # 0 => report.saw.baseline = report.identity.baseline
  /\ run.pc = "reported" /\ run.opts.update /\ turns < 2 => run.start.baseline # "reviewed"

\* A fixture is promoted only on the word of a run in which it held, guards and all, on
\* the tree that is there under the lock.
PromotedIsProven ==
  promotion.pc = "locked" =>
    promotion.turned \/ promotion.on \in Holding \ Vacuous

\* While a run is at work on the repository as it is, its readers are told so.
MarkersTell == run.pc \notin {"idle", "resolved"} /\ run.start = Identity => Health = "running"

\* What the gauntlet is trusted for.
GauntletHolds == GauntletTypeOK /\ FreshIsMeasured /\ StrictExitAdmits /\ NothingVouchesForItself
                 /\ PromotedIsProven /\ MarkersTell
=============================================================================
