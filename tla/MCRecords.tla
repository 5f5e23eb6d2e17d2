----------------------------- MODULE MCRecords -----------------------------
(***************************************************************************)
(* The records a reviewer works on for TLC, in one state graph: a run      *)
(* first chooses which of them it follows, and the others rest.            *)
(*   "audits"      telemetry audits over the case log                      *)
(*   "monitoring"  the evidence of a merged draft and what it says         *)
(*   "recovery"    what an interrupted operation is told                   *)
(*   "sessions"    the selection of a review session and its log           *)
(*   "blind"       the log of a blind comparison                           *)
(*   "signing"     the approvals of the baselines                          *)
(*   "proposals"   a proposal on the concepts, applied twice               *)
(*   "fixtures"    the judgments compiled to golden fixtures               *)
(***************************************************************************)
EXTENDS TelemetryAudit, PostMergeMonitoring, ReviewSessions, BlindComparison,
        BaselineSigning, ProposalApplication, FixtureCompiler, TLC

\* Two reviews of one day; the lists move with the engine and without it.
MCForms == {[date |-> 1, notes |-> "first"], [date |-> 1, notes |-> "second"]}
MCIdentity == (0 :> 1) @@ (1 :> 1) @@ (2 :> 2)
MCLists == (0 :> 1) @@ (1 :> 2) @@ (2 :> 2)

\* A concept that shares an anchor with an importer, or none, next to one that is
\* related to it and may hold its phrase.
OwnAnchor(place, owners) == [at |-> place, weight |-> 1, from |-> owners]
MCOntologies ==
  {("c" :> [lexicon |-> {"p"}, anchors |-> {OwnAnchor("j", {"editorial"}), OwnAnchor("k", owners)}, related |-> {}] @@
    "e" :> [lexicon |-> shared, anchors |-> {}, related |-> {"c"}]) :
     owners \in {{"editorial"}, {"editorial", "openbible"}}, shared \in {{}, {"p"}}}

\* Judgments of one passage that correct, contradict, repeat and overlap one another, of
\* two cases of one query, of a query apart and of one whose file name is taken.
Says(query, case, action, on, window, note) ==
  [v1 |-> FALSE, query |-> query, case |-> case, action |-> action, on |-> on, below |-> {},
   window |-> window, note |-> note, time |-> 0]
Prefers(first, second) == [Says("a", 1, "prefer", first, 5, "") EXCEPT !.below = second]
Said(action, on, note, time) == [Says("a", 0, action, on, 0, note) EXCEPT !.v1 = TRUE, !.time = time]
MCHistories == {<<>>, <<Said("pin", {1}, "theme", 2), Said("doesnt-fit", {1}, "off", 1)>>,
                <<Said("pin", {2}, "theme", 1), Said("fits", {2}, "", 1)>>}
MCVotes == {Says("a", 1, "essential", {1}, 3, ""), Says("a", 1, "helpful", {1}, 0, ""),
            Says("a", 1, "irrelevant", {1}, 0, "noise"), Says("a", 1, "missing", {1, 2}, 3, ""),
            Prefers({1}, {3}), Prefers({3}, {1}), Says("b", 2, "essential", {3}, 10, ""),
            Says("a", 3, "essential", {1}, 5, ""), Says("a!", 4, "essential", {1}, 5, "")}
           \cup UNION {{h[i] : i \in DOMAIN h} : h \in MCHistories}
MCSlugs == ("a" :> "a") @@ ("a!" :> "a") @@ ("b" :> "b")
MCChapter == (1 :> 1) @@ (2 :> 1) @@ (3 :> 2)

VARIABLE which
others == <<telVars, monVars, sessVars, blindVars, signVars, compileVars>>
all == <<which, others, propVars>>

MCInit ==
  /\ which \in {"audits", "monitoring", "recovery", "sessions", "blind", "signing",
              "proposals", "fixtures"}
  /\ TelInit /\ MonInit /\ SessInit /\ BlindInit /\ SignInit /\ PropInit /\ CompilerInit
  /\ which # "signing" => files.probesApproval.form.notes = "first"
  /\ which # "proposals" => base["c"].anchors = {OwnAnchor("j", {"editorial"}), OwnAnchor("k", {"editorial"})}
                           /\ base["e"].lexicon = {}
  /\ which # "fixtures" => log = <<>>

Of(m, A) == which = m /\ A /\ UNCHANGED which
OfAudits(A) == Of("audits", A) /\ UNCHANGED <<monVars, sessVars, blindVars, signVars, propVars, compileVars>>
OfMerges(m, A) == Of(m, A) /\ UNCHANGED <<telVars, sessVars, blindVars, signVars, propVars, compileVars>>
OfSessions(A) == Of("sessions", A) /\ UNCHANGED <<telVars, monVars, blindVars, signVars, propVars, compileVars>>
OfBlind(A) == Of("blind", A) /\ UNCHANGED <<telVars, monVars, sessVars, signVars, propVars, compileVars>>
OfSigning(A) == Of("signing", A) /\ UNCHANGED <<telVars, monVars, sessVars, blindVars, propVars, compileVars>>
OfProposals(A) == Of("proposals", A) /\ UNCHANGED others
OfFixtures(A) == Of("fixtures", A) /\ UNCHANGED <<telVars, monVars, sessVars, blindVars, signVars, propVars>>

MCNext == \/ OfAudits(TelNext)
          \/ OfMerges("monitoring", EvidenceNext) \/ OfMerges("recovery", RecoveryNext)
          \/ OfSessions(SessNext) \/ OfBlind(BlindNext) \/ OfSigning(SignNext)
          \/ OfProposals(PropNext) \/ OfFixtures(CompilerNext)

MCSpec == MCInit /\ [][MCNext]_all

\* The types of everything a reviewer works on; what rests keeps its initial state.
RecordsTypeOK ==
  /\ which = "audits" => TelTypeOK
  /\ which \in {"monitoring", "recovery"} => MonTypeOK
  /\ which = "sessions" => SessTypeOK
  /\ which = "blind" => BlindTypeOK
  /\ which = "signing" => SignTypeOK
  /\ which = "proposals" => PropTypeOK

\* What a review rests on and comes to: the selection is fair and reviewed once
\* (ReviewSessions), and what is written into the sources is what was reviewed, a proposal
\* (ProposalApplication) or the judgments (FixtureCompiler).
WrittenAsReviewed ==
  /\ which = "sessions" => SessionsHold
  /\ which = "proposals" => AppliedAsReviewed
  /\ which = "fixtures" => CompiledAsJudged
=============================================================================
