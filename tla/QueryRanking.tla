---------------------------- MODULE QueryRanking ----------------------------
(***************************************************************************)
(* One search of the engine (discover of createEngine.ts): the steps of    *)
(* the ladder find evidence for verses, the budgets bound what a family of *)
(* signals may say (budgets.ts), rank orders and thins (rank.ts), and the  *)
(* verses of one passage are collapsed into one row (collapseRuns).        *)
(*                                                                         *)
(* What the corpus answers is any set of verses.  A hit has full strength, *)
(* an anchor half or full weight, and a phrase what phraseEvidence         *)
(* computes.  The correction of spellings, the one hop to related concepts *)
(* and the curated aliases, which add evidence of families that are here   *)
(* anyway, are left out.  A verse is a number, ten to the chapter.         *)
(***************************************************************************)
EXTENDS FiniteSetsExt, SequencesExt, Sorting

CONSTANTS
  Verses,
  Widths,       \* how many significant words a query may have
  Spans,        \* the curated anchors: [id, concept, lo, hi, half]
  Edges,        \* the cross-references between verses
  Pericopes,    \* the sections of the books: [lo, hi]
  Limit, Headroom, MaxPerGroup,
  MaxHits       \* bound on the verses the steps before the concepts find

ASSUME RankingAssumption == Limit \in Nat /\ Headroom \in Nat /\ MaxPerGroup \in Nat \ {0}

ASSUME CorpusAssumption ==
  /\ Verses \subseteq Nat /\ IsFiniteSet(Verses) /\ Widths \subseteq Nat \ {0}
  /\ IsFiniteSet(Spans) /\ \A s \in Spans : s.half \in {1, 2}
  /\ Edges \subseteq Verses \X Verses

VARIABLES
  rung,      \* the step of the ladder
  width,     \* the significant words of the query
  found,     \* the evidence so far
  complete,  \* the verses that hold the whole query
  named,     \* the curated spans each verse was found by
  scores,    \* what the budgets leave of it: [points, direct, curated], for each verse
  ranked,    \* the verses in the order of rank
  listing       \* the rows of the answer

rankVars == <<rung, width, found, complete, named, scores, ranked, listing>>

Rungs == <<"ask", "phrase", "tokens", "variants", "terms", "concepts", "score", "rank", "answered">>

RankInit ==
  /\ rung = "ask" /\ width = 0 /\ found = {} /\ complete = {} /\ ranked = <<>> /\ listing = <<>>
  /\ scores = <<>>
  /\ named = [v \in Verses |-> {}]

-----------------------------------------------------------------------------
\* DEFAULT_BUDGETS: what a family may say at most, and how often.
Budget(f) ==
  CASE f = "exact_phrase" -> [points |-> 60, reasons |-> 1]
    [] f = "concept_anchor" -> [points |-> 40, reasons |-> 3]
    [] f = "concept_lexicon" -> [points |-> 12, reasons |-> 2]
    [] f = "token_overlap" -> [points |-> 10, reasons |-> 1]
    [] f = "translation_variant" -> [points |-> 14, reasons |-> 1]
    [] f = "proximity" -> [points |-> 6, reasons |-> 1]
    [] f = "passage_terms" -> [points |-> 8, reasons |-> 2]
    [] f = "cross_reference" -> [points |-> 6, reasons |-> 2]
WeakAggregateCap == 30
CorrelationCap == 6
SoleEvidenceCap == 6

Authoritative == {"exact_phrase", "concept_anchor"}
\* Evidence of a family for a verse, from a concept, from a verse or from the text.
Evidence(v, f, from, half) ==
  [verse |-> v, family |-> f, from |-> from, points |-> (half * Budget(f).points) \div 2]

Smaller(a, b) == IF a <= b THEN a ELSE b

\* phraseEvidence: f of the q words occur, in full from three words on; less than two
\* words, or less than half the query, are an overlap of tokens.
PhraseEvidence(v, f, q) ==
  LET family == IF f < 2 \/ 2 * f < q THEN "token_overlap" ELSE "exact_phrase"
      most == Budget(family).points
  IN [verse |-> v, family |-> family, from |-> 0,
      points |-> IF f < 2 THEN most ELSE (most * f * Smaller(f, 3)) \div (3 * q)]

\* The verses a search of the corpus may find.
Hits == LET sofar == {e \in found : e.family # "proximity"}
        IN {S \in SUBSET Verses : Cardinality(S) <= MaxHits - Cardinality(sofar)}
To(next) == rung' = next
Quiet == UNCHANGED <<width, complete, named, scores, ranked, listing>>

Ask == rung = "ask" /\ To("phrase") /\ width' \in Widths
       /\ UNCHANGED <<found, complete, named, scores, ranked, listing>>

\* The engine keeps nothing of a search for the next.
AskAgain ==
  /\ rung = "answered" /\ To("ask") /\ width' = 0 /\ found' = {} /\ complete' = {}
  /\ scores' = <<>> /\ ranked' = <<>> /\ listing' = <<>> /\ named' = [v \in Verses |-> {}]

\* The whole query, or else its longest fragment of two words or more.
SearchPhrase ==
  /\ rung = "phrase" /\ To("tokens")
  /\ \E S \in Hits, f \in 2..width \cup {width} :
       /\ found' = {PhraseEvidence(v, f, width) : v \in S}
       /\ complete' = IF f = width /\ f >= 2 THEN S ELSE {}
  /\ UNCHANGED <<width, named, scores, ranked, listing>>

\* Shared words, all of a short verse or half as much, close together or not.
SearchTokens ==
  /\ rung = "tokens" /\ To("variants")
  /\ \E S \in Hits, near \in {width > 1, FALSE}, half \in {1, 2} :
       found' = found \cup {Evidence(v, "token_overlap", 1, half) : v \in S}
                \cup {Evidence(v, "proximity", 0, 2) : v \in IF near THEN S ELSE {}}
  /\ Quiet

SearchTranslationTokens ==
  /\ rung = "variants" /\ To("terms")
  /\ \E S \in Hits : found' = found \cup {Evidence(v, "translation_variant", 0, 2) :
                                            v \in IF width > 1 THEN S ELSE {}}
  /\ Quiet

SearchPassageTerms ==
  /\ rung = "terms" /\ To("concepts")
  /\ \E S \in Hits : found' = found \cup {Evidence(v, "passage_terms", 0, 2) : v \in S}
  /\ Quiet

Covered(s) == {v \in Verses : s.lo <= v /\ v <= s.hi}

\* dedupeConceptAnchors: a concept names a verse once, by its heaviest span.
Carriers(concepts) ==
  {s \in Spans \X Verses :
     /\ s[1].concept \in concepts /\ s[2] \in Covered(s[1])
     /\ \A t \in Spans : t.concept = s[1].concept /\ s[2] \in Covered(t) =>
          \/ t.half < s[1].half
          \/ t.half = s[1].half /\ t.lo >= s[1].lo}

\* The concepts of the query, thin cues among them.  Their anchors are named, and the
\* verses that anchors of the others refer to, unless one concept has both.
MatchConcepts ==
  /\ rung = "concepts" /\ To("score")
  /\ \E matched \in SUBSET {s.concept : s \in Spans} : \E thin \in SUBSET matched :
       LET anchors == Carriers(matched)
           strong == Carriers(matched \ thin)
           edges == {e \in Edges : /\ \E a \in strong : a[2] = e[1]
                                   /\ ~ \E a, b \in strong : a[2] = e[1] /\ b[2] = e[2]
                                                             /\ a[1].concept = b[1].concept}
       IN /\ found' = found
               \cup {Evidence(a[2], IF a[1].concept \in thin THEN "concept_lexicon" ELSE "concept_anchor",
                              a[1].concept, a[1].half) : a \in anchors}
               \cup {Evidence(e[2], "cross_reference", e[1], 2) : e \in edges}
          /\ named' = [v \in Verses |-> {a[1] : a \in {b \in anchors : b[2] = v}}]
  /\ UNCHANGED <<width, complete, scores, ranked, listing>>

-----------------------------------------------------------------------------
\* subsumeCompletePhraseRestatements, and the reasons a family may give: the strongest.
Weighed(v) == {e \in found : /\ e.verse = v
                             /\ v \in complete => e.family \notin {"token_overlap", "proximity"}}
Reasons(v) ==
  LET Of(f) == {e \in Weighed(v) : e.family = f}
  IN UNION {CHOOSE K \in kSubset(Smaller(Cardinality(Of(f)), Budget(f).reasons), Of(f)) :
              \A e \in K, d \in Of(f) \ K : e.points >= d.points : f \in {e.family : e \in Weighed(v)}}
Points(R) == MapThenSumSet(LAMBDA e : e.points, R)

\* Of reasons R: every cap of the weak ones, then that of a lone hint.
Capped(R) ==
  LET weak == {e \in R : e.family \notin Authoritative}
      correlated == {e \in weak : e.family = "cross_reference"}
      total == Points(R \ weak) + Smaller(WeakAggregateCap,
                                          Points(weak \ correlated) + Smaller(CorrelationCap, Points(correlated)))
  IN IF \A e \in R : e.family = "translation_variant" THEN Smaller(SoleEvidenceCap, total) ELSE total

\* What applyBudgets makes of reasons R.
Budgeted(R) == [points |-> Capped(R), direct |-> \E e \in R : e.family \in Authoritative,
                curated |-> \E e \in R : e.family = "concept_anchor"]

\* applyBudgets, for the verses with a reason.
ApplyBudgets ==
  /\ rung = "score" /\ To("rank")
  /\ scores' = [v \in {e.verse : e \in found} |-> Budgeted(Reasons(v))]
  /\ UNCHANGED <<width, found, complete, named, ranked, listing>>

\* compareResults.
Before(a, b) ==
  LET x == scores[a] y == scores[b] IN
  \/ x.points > y.points
  \/ x.points = y.points /\ x.direct /\ ~y.direct
  \/ x.points = y.points /\ x.direct = y.direct /\ x.curated /\ ~y.curated
  \/ x.points = y.points /\ x.direct = y.direct /\ x.curated = y.curated /\ a < b

Surviving == DOMAIN scores
Chapter(v) == v \div 10

\* Mutant: every group is thinned, whatever its evidence.
Thinned_All(v, out) ==
  Cardinality({u \in ToSet(out) : Chapter(u) = Chapter(v)}) >= MaxPerGroup
\* A verse without authority, of a chapter that has its share, is deferred.
Thinned(v, out) ==
  /\ ~scores[v].direct
  /\ Cardinality({u \in ToSet(out) : Chapter(u) = Chapter(v)}) >= MaxPerGroup

\* One more result is output or deferred, until the limit is reached.
Placed(p, v, limit) ==
  IF Len(p.out) >= limit THEN p
  ELSE IF Thinned(v, p.out) THEN [p EXCEPT !.deferred = Append(@, v)]
  ELSE [p EXCEPT !.out = Append(@, v)]

\* rank: in the order of compareResults, the deferred ones last.
Ranked(limit) ==
  LET order == InOrder(Surviving, {x \in Surviving \X Surviving : Before(x[1], x[2])})
      pass[n \in 0..Len(order)] ==
        IF n = 0 THEN [out |-> <<>>, deferred |-> <<>>] ELSE Placed(pass[n - 1], order[n], limit)
      end == pass[Len(order)]
  IN end.out \o SubSeq(end.deferred, 1, Smaller(Len(end.deferred), limit - Len(end.out)))

-----------------------------------------------------------------------------
\* collapseRuns, of the verses R in the order of their ranks.
Surfaced(s, R) == Cardinality({v \in ToSet(R) : s \in named[v]})
Governing(v, R) ==
  CHOOSE s \in named[v] : \A t \in named[v] \ {s} : \/ Surfaced(s, R) > Surfaced(t, R)
                                                    \/ Surfaced(s, R) = Surfaced(t, R) /\ s.id < t.id
Sections(v) == {p \in Pericopes : named[v] = {} /\ p.lo <= v /\ v <= p.hi}

\* The verses at i and i + 1 belong to one run of a section.
SameSection(R, i) == /\ Sections(R[i]) \cap Sections(R[i + 1]) # {}
                /\ R[i] - R[i + 1] \in {-1, 1}
Together(R, i, j) ==
  \/ i = j
  \/ named[R[i]] # {} /\ named[R[j]] # {} /\ Governing(R[i], R) = Governing(R[j], R)
  \/ \A k \in Smaller(i, j)..(i + j - Smaller(i, j) - 1) : SameSection(R, k)

Row(R, i) ==
  LET members == {R[j] : j \in {k \in DOMAIN R : Together(R, i, k)}}
  IN [head |-> R[i], members |-> members, score |-> Max({scores[v].points : v \in members})]
Rows(R) == LET heads == {i \in DOMAIN R : \A j \in 1..i - 1 : ~Together(R, i, j)}
               order == InOrder(heads, {x \in heads \X heads : x[1] < x[2]})
           IN [n \in DOMAIN order |-> Row(R, order[n])]

\* Rank with headroom, collapse, and only then cut.
Answer ==
  /\ rung = "rank" /\ To("answered")
  /\ ranked' = Ranked(Limit + Headroom)
  /\ listing' = SubSeq(Rows(ranked'), 1, Smaller(Limit, Len(Rows(ranked'))))
  /\ UNCHANGED <<width, found, complete, named, scores>>

RankNext == Ask \/ AskAgain \/ SearchPhrase \/ SearchTokens \/ SearchTranslationTokens \/ SearchPassageTerms
            \/ MatchConcepts \/ ApplyBudgets \/ Answer

RankSpec == RankInit /\ [][RankNext]_rankVars

-----------------------------------------------------------------------------
Answered == rung = "answered"

\* The types of the state (Evidence, DiscoveryResult).
RankTypeOK ==
  /\ rung \in ToSet(Rungs) /\ width \in Widths \cup {0}
  /\ \A e \in found : e.verse \in Verses /\ e.points \in 0..Budget(e.family).points
  /\ \A n \in DOMAIN listing : listing[n].members \subseteq Verses

\* A verse whose own text has words of the query, enough of them to say more than a lone
\* hint may; and one that is found in the wording of a translation and nowhere else.
HoldsWords(v) ==
  \E e \in found : /\ e.verse = v /\ e.family \in {"token_overlap", "exact_phrase"}
                  /\ e.points > SoleEvidenceCap
WordingAlone(v) == \A e \in found : e.verse = v => e.family = "translation_variant"

\* Guardrail G6: however many weak signals agree, a verse that holds the query word for
\* word comes before a verse without direct evidence; and a translation's wording alone,
\* though its family may say more than an overlap of words may, never puts a verse before
\* one that holds words of the query, whatever else is known of that one.  (Of an overlap
\* as faint as the cap, of few of the words or in a long verse, the code promises nothing.)
LoudnessBounded ==
  Answered => \A a, b \in Surviving :
    /\ a \in complete /\ ~scores[b].direct => Before(a, b)
    /\ HoldsWords(a) /\ WordingAlone(b) => Before(a, b)

\* The order is total, so that it does not depend on the order the evidence came in,
\* and a direct match is left out only of a list that is full of results before it;
\* diversity defers results and never drops one while there is room.
NeverThinned ==
  Answered =>
    /\ \A a, b \in Surviving : a # b => (Before(a, b) <=> ~Before(b, a))
    /\ \A v \in Surviving \ ToSet(ranked) :
         /\ Len(ranked) = Limit + Headroom
         /\ scores[v].direct => \A u \in ToSet(ranked) : Before(u, v)

\* A passage takes one row: the rows share no verse, all the surfaced verses of a span
\* are in the row of its best, and a row of a section is a run of verses none of which
\* a curator named; a row says no more than its loudest verse.
PassageIsOneRow ==
  \A m \in DOMAIN listing :
    LET row == listing[m] IN
    /\ \A n \in DOMAIN listing \ {m} : row.members \cap listing[n].members = {}
    /\ \A v \in row.members, u \in ToSet(ranked) :
         named[v] # {} /\ named[u] # {} /\ Governing(u, ranked) = Governing(v, ranked) => u \in row.members
    /\ \A v \in row.members : named[v] = {} =>
         /\ \A u \in row.members : named[u] = {}
         /\ Max(row.members) - Min(row.members) + 1 = Cardinality(row.members)
    /\ row.score \in {scores[v].points : v \in row.members}

\* What an answer of the engine keeps to.
RankingHolds == RankTypeOK /\ LoudnessBounded /\ NeverThinned /\ PassageIsOneRow
=============================================================================
