---------------------------- MODULE MCWorkbench ----------------------------
(***************************************************************************)
(* Parts of the workbench and of the engine it works on for TLC, in one    *)
(* state graph: a run first chooses which of them it follows, and the      *)
(* others rest.                                                            *)
(*   "journal"   the apply journal, with a death and a foreign edit        *)
(*   "studio"    the review sessions of the studio                         *)
(*   "ranking"   one search of the engine                                  *)
(*   "gauntlet"  the runs of the evaluation gauntlet and their readers     *)
(*   "metrics"   the battery row of those runs and what it is measured on  *)
(***************************************************************************)
EXTENDS MCApplyJournal, StudioSessions, QueryRanking, Gauntlet, RankMetrics

\* Calls of the journal differ in nothing but their plans, which are chosen later.
Symmetry == Permutations(Ops)

\* Two spans of one concept that overlap, and a third of another; two sections.
MCSpans == {[id |-> 1, concept |-> 1, lo |-> 11, hi |-> 12, half |-> 2],
            [id |-> 2, concept |-> 1, lo |-> 12, hi |-> 21, half |-> 1],
            [id |-> 3, concept |-> 2, lo |-> 12, hi |-> 13, half |-> 1]}
MCEdges == {<<11, 12>>, <<13, 21>>, <<12, 21>>}
MCPericopes == {[lo |-> 11, hi |-> 13], [lo |-> 21, hi |-> 22]}

\* A database the fixture holds on, another of the same engine and one of another engine;
\* a sound tree, one that warns and one that fails.
MCTriple == [d \in Targets \cup {Corpus} |-> IF d = "t2" THEN 2 ELSE IF d = Corpus THEN 0 ELSE 1]
MCHolding == {<<"sound", Corpus>>, <<"sound", "t1">>, <<"warns", Corpus>>, <<"warns", "t1">>,
              <<"warns", "t2">>, <<"fails", "t1">>,
              <<"sound", "t3">>, <<"warns", "t3">>, <<"fails", "t3">>}
MCVacuous == {<<"warns", Corpus>>, <<"fails", Corpus>>}
Plain == [json |-> FALSE, target |-> FALSE, update |-> FALSE, admit |-> FALSE, debt |-> FALSE, claim |-> FALSE]
MCAsked == {[Plain EXCEPT !.update = TRUE],
            [Plain EXCEPT !.json = TRUE, !.admit = TRUE, !.debt = TRUE],
            [Plain EXCEPT !.json = TRUE, !.target = TRUE, !.admit = TRUE],
            [Plain EXCEPT !.target = TRUE, !.admit = TRUE, !.claim = TRUE]}

\* A plain query, a misspelt one and one that reads like a reference.
MCCategory == [q \in Queries |-> CASE q = "psalm" -> "plain" [] q = "pslam" -> "misspelling"
                                   [] OTHER -> "reference-adjacent"]
Judged(verses, grade, provisional) == [verses |-> verses, grade |-> grade, provisional |-> provisional]
Harm(verse, provisional) == [verses |-> {verse}, provisional |-> provisional]
JudgedAs(judged, harmful) ==
  [retired |-> FALSE, judged |-> judged, harmful |-> harmful, empty |-> judged = {}, overlaps |-> FALSE]
ForEach(plain, misspelt, reference) ==
  [q \in Queries |-> CASE q = "psalm" -> plain [] q = "pslam" -> misspelt [] OTHER -> reference]

\* Ratified and provisional judgments and harms, a harm no verse of the corpus can do, a
\* query that cannot be scored, one that is retired with its whole category, and one whose
\* judged ranges overlap.
MCBatteries == <<
  ForEach(JudgedAs({Judged({1, 2}, 3, FALSE), Judged({3}, 1, FALSE)}, {Harm(4, FALSE)}),
          JudgedAs({Judged({3}, 2, FALSE)}, {}), JudgedAs({}, {})),
  ForEach(JudgedAs({Judged({1, 2}, 3, FALSE), Judged({3}, 2, TRUE)}, {Harm(9, FALSE)}),
          JudgedAs({Judged({3}, 0, FALSE)}, {}), JudgedAs({}, {})),
  ForEach(JudgedAs({Judged({1}, 1, FALSE)}, {Harm(4, TRUE)}),
          [JudgedAs({}, {}) EXCEPT !.retired = TRUE], JudgedAs({}, {})),
  ForEach([JudgedAs({Judged({1}, 1, FALSE)}, {}) EXCEPT !.overlaps = TRUE],
          JudgedAs({}, {}), JudgedAs({}, {}))>>

Found(top) == [kind |-> "discovery", top |-> top, label |-> "none"]
Resolved(label) == [kind |-> "reference", top |-> <<>>, label |-> label]
Invalid == [kind |-> "invalid-reference", top |-> <<>>, label |-> "none"]
\* A judged passage found once and twice, after another one and after a harm.
MCAnswers == <<
  ForEach(Found(<<1, 2, 3>>), Found(<<3>>), Resolved("John 3")),
  ForEach(Found(<<4, 3, 1>>), Found(<<>>), Resolved("John 3")),
  ForEach(Found(<<3, 2, 1>>), Found(<<1, 3>>), Resolved("John 4")),
  ForEach(Found(<<1, 3, 2>>), Invalid, Found(<<2>>))>>
MCProbed == [version \in DOMAIN Answers |-> Answers[version]["psalm"]]
MCPins == [q \in {"jn 3"} |-> "John 3"]
MCDiscount == <<4, 2, 1>>

VARIABLE which
all == <<which, vars, studioVars, rankVars, gauntletVars, metricVars>>

MCInit ==
  /\ which \in {"journal", "studio", "ranking", "gauntlet", "metrics"}
  /\ Init /\ StudioInit /\ RankInit /\ GauntletInit /\ RankMetricsInit
  /\ which # "journal" => disk = (p1 :> a) @@ (p2 :> Absent)
  /\ target = "t1" /\ (which # "gauntlet" => tree = "sound" /\ fixture = "active")
  /\ anchors.orderings = anchors.probes
  /\ which # "metrics" => /\ battery = 1 /\ answers = 1 /\ ~anchors.probes.made

Of(m, A) == which = m /\ A /\ UNCHANGED which

MCNext ==
  \/ Of("journal", Next) /\ UNCHANGED <<studioVars, rankVars, gauntletVars, metricVars>>
  \/ Of("studio", StudioNext) /\ UNCHANGED <<vars, rankVars, gauntletVars, metricVars>>
  \/ Of("ranking", RankNext) /\ UNCHANGED <<vars, studioVars, gauntletVars, metricVars>>
  \/ Of("gauntlet", GauntletNext) /\ UNCHANGED <<vars, studioVars, rankVars, metricVars>>
  \/ Of("metrics", RankMetricsNext) /\ UNCHANGED <<vars, studioVars, rankVars, gauntletVars>>

MCSpec == MCInit /\ [][MCNext]_all

\* What the engine answers and what is said of it: a search keeps its order and budgets
\* (QueryRanking), and the battery row of a run measures what it says (RankMetrics).
EngineHolds == RankingHolds /\ (which = "metrics" => MetricsHold)
=============================================================================
