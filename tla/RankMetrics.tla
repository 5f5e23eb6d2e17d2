---------------------------- MODULE RankMetrics ----------------------------
(***************************************************************************)
(* The pastoral battery and its rank metrics (eval/src/gates/              *)
(* rankMetrics.ts): the row G12 of the gauntlet, the thresholds that a row *)
(* may enforce, the baseline and the approval they must rest on, the       *)
(* detection of an addition without effect, and the job that looks at      *)
(* nothing but this row.                                                   *)
(*                                                                         *)
(* What the row is measured on changes between two runs: the battery, the  *)
(* engine's answers with the curated layers, the text, the thresholds, the *)
(* baseline and its approval.  A judged or harmful range is a set of       *)
(* verses; a result is the one verse its targetId names, whatever passage  *)
(* the engine groups under it.  A digest is the content it is of, and the  *)
(* table of discounts and the scale of the thresholds are constants;       *)
(* schemas, dates and wording are left out.                                *)
(***************************************************************************)
EXTENDS Integers, Sequences, FiniteSets, SequencesExt, FiniteSetsExt, Sorting

CONSTANTS
  Queries,     \* ids of the battery's queries
  Category,    \* the category of each
  Batteries,   \* of each version of the two battery files: query -> its entry, or retired
  Answers,     \* of each version of what the engine returns: query -> [kind, top, label],
               \* top the verses of the results' target ids, best first
  Probed,      \* of each answer, what the probes see of it
  Present,     \* verses of the corpus
  Pins,        \* the label a reference query must resolve to, of the queries that have one
  Discount,    \* DISCOUNT_MICRO: the weight of each rank
  Scale,       \* what a threshold is a multiple of
  Thresholds,  \* thresholds somebody may write for nDCG@10: numbers, 0 for null
  MaxChanges   \* bound on the changes of what is measured

ASSUME RankAssumption ==
  /\ \A i \in 1..(Len(Discount) - 1) : Discount[i] >= Discount[i + 1] /\ Discount[i + 1] > 0
  /\ Scale \in Nat \ {0} /\ MaxChanges \in Nat

\* rangesOverlap.
Disjoint(R) == \A r, s \in R : r = s \/ r.verses \cap s.verses = {}

ASSUME BatteryAssumption ==
  /\ \A b \in DOMAIN Batteries, q \in Queries :
       LET judged == Batteries[b][q].judged IN
       /\ IsFiniteSet(judged) /\ Disjoint(judged)
       /\ \A r \in judged : r.grade \in Nat /\ r.verses \in (SUBSET Nat) \ {{}} /\ IsFiniteSet(r.verses)
  /\ \A a \in DOMAIN Answers, q \in Queries : Answers[a][q].top \in Seq(Nat)
  /\ Discount \in Seq(Nat)

VARIABLES
  battery, answers, layer, text,   \* what is measured
  budget,     \* rankQuality in budgets.json: [ndcg, spelling, grammar]
  rankBase,   \* the baseline rank-metrics.json, or NoPaper
  approval,   \* its approval, or NoPaper
  anchors,    \* the pinned orderings and the probe baseline: what the probes saw, and on which text
  row,        \* the last G12 row with what the run found, or NoPaper
  changes

metricVars == <<battery, answers, layer, text, budget, rankBase, approval, anchors, row, changes>>

NoPaper == [made |-> FALSE]

-----------------------------------------------------------------------------
\* The battery.

ActiveQueries == {q \in Queries : ~Batteries[battery][q].retired}

\* validateRankQualityBlock: null, or a number in its range, or literally true.
SoundBudget == budget.ndcg \in 0..Scale /\ budget.spelling \in {0, 1} /\ budget.grammar \in {0, 1}

\* validateBattery: every active query is judged, or known to have no answer; no ranges
\* judged for one query overlap; and no category falls below its floor, which stands in
\* budgets.json and cannot be read when that is malformed.
SoundBattery ==
  /\ \A q \in ActiveQueries : /\ (Batteries[battery][q].judged = {}) = Batteries[battery][q].empty
                       /\ ~Batteries[battery][q].overlaps
  /\ SoundBudget /\ \A q \in Queries : \E p \in ActiveQueries : Category[p] = Category[q]

Ratified(R) == {r \in R : ~r.provisional}

-----------------------------------------------------------------------------
\* The metrics of one query.

\* The order of judged ranges: by grade, and then by the first verse.
Ahead(r, s) == r.grade > s.grade \/ (r.grade = s.grade /\ Min(r.verses) < Min(s.verses))

\* assignClaims: best first, each result claims the best judged range over its verse that
\* is not claimed yet, and is worth its grade.
Over(left, verse) == {r \in left : verse \in r.verses}
Best(R) == CHOOSE r \in R : \A s \in R \ {r} : Ahead(r, s)
Worth(left, verse) == IF Over(left, verse) = {} THEN 0 ELSE Best(Over(left, verse)).grade
Unclaimed(left, verse) == left \ (IF Over(left, verse) = {} THEN {} ELSE {Best(Over(left, verse))})
Claims(top, judged) ==
  LET left[n \in 0..Len(top)] == IF n = 0 THEN judged ELSE Unclaimed(left[n - 1], top[n])
  IN [n \in 1..Len(top) |-> Worth(left[n - 1], top[n])]

\* dcgMicroOf and idcgMicroOf: the discounted sum, of what was found and at best.
Discounted(gains) ==
  LET sum[n \in 0..Len(Discount)] ==
        IF n = 0 THEN 0 ELSE sum[n - 1] + (IF n \in DOMAIN gains THEN gains[n] * Discount[n] ELSE 0)
  IN sum[Len(Discount)]
Ideal(judged) ==
  LET rows == InOrder(judged, {x \in judged \X judged : Ahead(x[1], x[2])})
  IN Discounted([i \in DOMAIN rows |-> rows[i].grade])

\* addRational, reduceRational: exact sums.
gcd[a \in Nat, b \in Nat] == IF b = 0 THEN a ELSE gcd[b, a % b]
Reduced(x) == LET g == gcd[x.num, x.den] IN [num |-> x.num \div g, den |-> x.den \div g]
Plus(x, y) == Reduced([num |-> x.num * y.den + y.num * x.den, den |-> x.den * y.den])
Zero == [num |-> 0, den |-> 1]
Mean(f) ==
  LET sum == FoldFunction(Plus, Zero, f)
  IN Reduced([num |-> sum.num, den |-> sum.den * Cardinality(DOMAIN f)])

\* computeRankMetrics, of one query, of the ratified judgments only; one list stands for
\* the pages of ten and of fifty.
QueryMetrics(top, judged) ==
  LET gains == Claims(top, Ratified(judged))
      good == {i \in DOMAIN gains : gains[i] >= 2}
  IN [dcg |-> Discounted(gains), idcg |-> Ideal(Ratified(judged)),
      mrr |-> IF good = {} THEN Zero ELSE [num |-> 1, den |-> Min(good)],
      good |-> IF good \cap 1..3 = {} THEN Zero ELSE [num |-> 1, den |-> 1],
      recall |-> [num |-> Cardinality({i \in DOMAIN gains : gains[i] >= 1}),
                  den |-> Cardinality({r \in Ratified(judged) : r.grade >= 1})]]

\* finishBucket: means over the queries that can be scored.
Bucket(m, S) ==
  LET scoreable == {q \in S : m[q].idcg > 0} IN
  IF scoreable = {} THEN [measured |-> FALSE]
  ELSE [measured |-> TRUE,
        ndcg |-> Mean([q \in scoreable |-> [num |-> m[q].dcg, den |-> m[q].idcg]]),
        mrr |-> Mean([q \in scoreable |-> m[q].mrr]),
        good |-> Mean([q \in scoreable |-> m[q].good]),
        recall |-> Mean([q \in scoreable |-> m[q].recall])]

Metrics ==
  LET m == [q \in ActiveQueries |-> QueryMetrics(Answers[answers][q].top, Batteries[battery][q].judged)]
  IN [overall |-> Bucket(m, ActiveQueries),
      perCategory |-> [c \in {Category[q] : q \in ActiveQueries} |-> Bucket(m, {q \in ActiveQueries : Category[q] = c})]]

-----------------------------------------------------------------------------
\* Thresholds, and what they rest on.

\* parseThresholdMicro, parseAcceptanceBoolean: before there is a baseline with an approval
\* no number is enforced.
Enforced(value) == IF rankBase.made /\ approval.made THEN value ELSE 0
Premature == ~(rankBase.made /\ approval.made)
             /\ \E f \in {"ndcg", "spelling", "grammar"} : budget[f] # 0
\* Mutant: the approval need not be of this battery.
SoundBaseline_Unbound ==
  IF ~rankBase.made THEN ~approval.made ELSE approval.made /\ approval.baseline = rankBase
\* validateRankMetricsBaselineDocuments: neither, or both, and the approval binds this
\* baseline, this battery and the engine of the baseline.
SoundBaseline ==
  IF ~rankBase.made THEN ~approval.made
  ELSE approval.made /\ approval.baseline = rankBase /\ approval.battery = battery

\* evaluateOne: met, not met, unmeasurable, or no threshold at all.
Evaluated(value, threshold) ==
  CASE threshold = 0 -> "no-threshold"
    [] threshold # 0 /\ ~value.measured -> "unmeasurable"
    [] OTHER -> IF value.ndcg.num * Scale >= threshold * value.ndcg.den THEN "met" ELSE "not-met"

\* evaluateBatteryAcceptance: no misspelt query may come back empty, and every reference
\* must resolve, to the label it is pinned to.
OfCategory(c) == {q \in ActiveQueries : Category[q] = c}
SpellingHolds ==
  LET S == OfCategory("misspelling") IN
  IF \E q \in S : Answers[answers][q].kind = "discovery" /\ Answers[answers][q].top = <<>> THEN "no"
  ELSE IF S = {} \/ \E q \in S : Answers[answers][q].kind = "invalid-reference" THEN "unknown" ELSE "yes"
GrammarHolds ==
  LET S == OfCategory("reference-adjacent") IN
  IF \/ \E q \in S : Answers[answers][q].kind # "reference"
     \/ \E q \in DOMAIN Pins \cap ActiveQueries : Answers[answers][q].kind # "reference" \/ Answers[answers][q].label # Pins[q]
  THEN "no"
  ELSE IF S = {} \/ DOMAIN Pins \ ActiveQueries # {} THEN "unknown" ELSE "yes"
Accepted(holds, threshold) ==
  IF threshold = 0 THEN "no-threshold"
  ELSE CASE holds = "yes" -> "met" [] holds = "no" -> "not-met" [] OTHER -> "unmeasurable"

-----------------------------------------------------------------------------
\* detectNoMeasurableEffect: three anchors, each compared only on the same text.
Comparisons(metrics) ==
  [ranks |-> IF ~rankBase.made \/ rankBase.text # text THEN "skipped"
             ELSE IF rankBase.metrics = metrics THEN "still" ELSE "moved",
   orderings |-> IF ~anchors.orderings.made \/ anchors.orderings.text # text THEN "skipped"
                 ELSE IF anchors.orderings.saw = Probed[answers] THEN "still" ELSE "moved",
   probes |-> IF ~anchors.probes.made \/ anchors.probes.text # text THEN "skipped"
              ELSE IF anchors.probes.saw = Probed[answers] THEN "still" ELSE "moved"]
Fired(metrics) ==
  LET c == Comparisons(metrics) IN
  (\A a \in DOMAIN c : c[a] = "still") /\ rankBase.layer # layer

-----------------------------------------------------------------------------
\* batteryGate: a ratified harm whose verse is the first result's rejects, whatever the
\* metrics say; a guard that could not fire warns.  Of a grouped row only its head counts.
Harmed(q) == LET top == Answers[answers][q].top IN
  /\ Answers[answers][q].kind = "discovery" /\ top # <<>>
  /\ \E h \in Ratified(Batteries[battery][q].harmful) : Head(top) \in h.verses
Decoration(q) ==
  /\ Answers[answers][q].kind = "discovery"
  /\ \E h \in Batteries[battery][q].harmful : h.verses \cap (Range(Answers[answers][q].top) \cup Present) = {}
BatteryStatus ==
  IF \E q \in ActiveQueries : Harmed(q) THEN "fail"
  ELSE IF \E q \in ActiveQueries : Decoration(q) THEN "warn" ELSE "pass"

\* withRankEvidence: what is enforced and fails or cannot be measured fails the row.
Measured(explicit) ==
  LET metrics == Metrics
      ndcg == Evaluated(metrics.overall, Enforced(budget.ndcg))
      spelling == Accepted(SpellingHolds, Enforced(budget.spelling))
      grammar == Accepted(GrammarHolds, Enforced(budget.grammar))
      structural == SoundBattery /\ SoundBudget /\ ~Premature /\ SoundBaseline
      ran == explicit /\ SoundBattery
      status == CASE ~structural -> "fail"
                  [] structural /\ ~ran -> "not-applicable"
                  [] OTHER -> IF {ndcg, spelling, grammar} \cap {"not-met", "unmeasurable"} # {} THEN "fail"
                              ELSE BatteryStatus
  IN [made |-> TRUE, status |-> status, required |-> explicit, ran |-> ran,
      evaluations |-> IF ran /\ SoundBudget THEN {ndcg, spelling, grammar} ELSE {},
      fired |-> ran /\ Fired(metrics)]

\* checkBatteryJobReport: the row ran, was required, and passed or only warned.
JobGreen(r) == r.made /\ r.status \in {"pass", "warn"} /\ r.required /\ r.ran

-----------------------------------------------------------------------------
RankMetricsInit ==
  /\ battery \in DOMAIN Batteries /\ answers \in DOMAIN Answers /\ layer = 1 /\ text = 1
  /\ budget = [ndcg |-> 0, spelling |-> 0, grammar |-> 0]
  /\ rankBase = NoPaper /\ approval = NoPaper
  /\ anchors \in [{"orderings", "probes"} -> {NoPaper, [made |-> TRUE, saw |-> Probed[answers], text |-> 1]}]
  /\ row = NoPaper /\ changes = 0

Change == changes < MaxChanges /\ changes' = changes + 1 /\ row' = NoPaper

\* Judgments are added, ratified and withdrawn; queries are retired.
ReviseBattery ==
  /\ Change /\ battery' \in DOMAIN Batteries \ {battery}
  /\ UNCHANGED <<answers, layer, text, budget, rankBase, approval, anchors>>

\* Curated data change, and the answers with them, or not.
CurateLayer ==
  /\ Change /\ layer' = 3 - layer /\ answers' \in DOMAIN Answers
  /\ UNCHANGED <<battery, text, budget, rankBase, approval, anchors>>

\* The text of scripture is replaced.
ReplaceText ==
  /\ Change /\ text' = 3 - text
  /\ UNCHANGED <<battery, answers, layer, budget, rankBase, approval, anchors>>

WriteBudget ==
  /\ Change
  /\ \/ \E t \in Thresholds \ {budget.ndcg} : budget' = [budget EXCEPT !.ndcg = t]
     \/ \E f \in {"spelling", "grammar"} : budget' = [budget EXCEPT ![f] = 1 - @]
  /\ UNCHANGED <<battery, answers, layer, text, rankBase, approval, anchors>>

\* buildRankMetricsBaseline: the machine writes the baseline, of a run that measured one.
WriteBaseline ==
  /\ Change /\ SoundBattery
  /\ rankBase' = [made |-> TRUE, layer |-> layer, text |-> text, metrics |-> Metrics]
  /\ UNCHANGED <<battery, answers, layer, text, budget, approval, anchors>>

\* A reviewer writes the approval of what is there, or takes it back.
Approve ==
  /\ Change /\ rankBase.made
  /\ approval' \in {NoPaper, [made |-> TRUE, baseline |-> rankBase, battery |-> battery]}
  /\ UNCHANGED <<battery, answers, layer, text, budget, rankBase, anchors>>

\* A run on an explicit target, or on the fixtures.
Measure ==
  /\ \E explicit \in BOOLEAN : row' = Measured(explicit)
  /\ UNCHANGED <<battery, answers, layer, text, budget, rankBase, approval, anchors, changes>>

RankMetricsNext ==
  \/ ReviseBattery \/ CurateLayer \/ ReplaceText \/ WriteBudget \/ WriteBaseline \/ Approve \/ Measure

RankMetricsSpec == RankMetricsInit /\ [][RankMetricsNext]_metricVars

-----------------------------------------------------------------------------
\* Every score is a share: no ranking is better than the ideal one, though the results
\* take the ranges in an order of their own, and none finds more than there is.
ScoresAreShares ==
  \A q \in ActiveQueries :
    LET m == QueryMetrics(Answers[answers][q].top, Batteries[battery][q].judged) IN
    m.dcg <= m.idcg /\ m.recall.num <= m.recall.den

\* To put a result one rank higher never costs anything, if it is worth more where it
\* stands than the one above it, though what it is worth is only what the results above it
\* have left unclaimed.
PromotionNeverHurts ==
  \A q \in ActiveQueries : \A i \in 1..(Len(Answers[answers][q].top) - 1) :
    LET top == Answers[answers][q].top
        judged == Ratified(Batteries[battery][q].judged)
        gains == Claims(top, judged)
        promoted == [top EXCEPT ![i] = top[i + 1], ![i + 1] = top[i]]
    IN gains[i + 1] > gains[i] => Discounted(Claims(promoted, judged)) >= Discounted(gains)

\* A row that passes enforces a threshold only on the word of an approval of this very
\* baseline and battery, and the guard against harm is not outvoted by any metric.
EnforcedIsApproved ==
  row.made /\ row.status \in {"pass", "warn"} =>
    /\ row.evaluations # {"no-threshold"} =>
         approval.made /\ approval.baseline = rankBase /\ approval.battery = battery
    /\ ~\E q \in ActiveQueries : Harmed(q)

\* The job is green only of a battery that ran and was required; and a run that says an
\* addition is without effect compared metrics taken on the same text and judgments, if
\* the baseline is an approved one.
GreenOnlyIfRan ==
  /\ JobGreen(row) => row.required /\ SoundBattery
  /\ row.made /\ row.fired /\ row.status # "fail" =>
       /\ rankBase.layer # layer /\ rankBase.text = text /\ rankBase.metrics = Metrics
       /\ approval.battery = battery

\* What the row is trusted for.
MetricsHold == ScoresAreShares /\ PromotionNeverHurts /\ EnforcedIsApproved /\ GreenOnlyIfRan
=============================================================================
