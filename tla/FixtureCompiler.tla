--------------------------- MODULE FixtureCompiler ---------------------------
(***************************************************************************)
(* The fixture compiler (workbench/src/compileJudgments.ts and             *)
(* effectiveJudgments.ts): the judgment log becomes one golden fixture per *)
(* query.  A preview is planned and reviewed; the request that applies it  *)
(* plans again, and writes only if the two plans are one and the same.     *)
(*                                                                         *)
(* Planning reads five inputs, the log, the fixtures and at last the bytes *)
(* it expects to replace, one after the other, while reviewers judge and   *)
(* people edit the fixtures.  The write itself is one step: the journal is *)
(* the subject of ApplyJournal, the appends to the log of ReviewLogs.      *)
(* A reference is a set of verses, a text is its content, and of the five  *)
(* inputs the two that move are kept: the log and the fixture corpus.      *)
(***************************************************************************)
EXTENDS Integers, Sequences, FiniteSets

CONSTANTS
  Votes,      \* what a reviewer may say: [v1, query, case, action, on, below, window, note, time]
  Histories,  \* legacy logs the repository may start from: sequences of v1 votes
  SlugOf,     \* slugOf: the file name of each query
  Chapter,    \* the chapter of each verse
  MaxVotes,   \* bound on the judgments appended
  MaxEdits,   \* bound on the edits by people
  NoPlan

ASSUME CompilerAssumption == MaxVotes \in Nat /\ MaxEdits \in Nat

Slugs == {SlugOf[q] : q \in DOMAIN SlugOf}
Chapters == {Chapter[v] : v \in DOMAIN Chapter}

VARIABLES
  log,       \* judgments.jsonl: [vote, supersedes], 0 for none
  golden,    \* the fixture at each slug
  sampled,   \* web-subset.json: the chapters the fixture corpus holds
  plan,      \* the plan that a preview or an apply request is making, or NoPlan
  reviewed,  \* the preview on the reviewer's screen, or NoPlan
  byHand,    \* history: slugs at which a person keeps a fixture of his own
  promoted,  \* history: of each slug, the assertions a person made active, or NoPlan
  raced,     \* history: slugs that were edited while both plans looked away
  fresh,     \* history: an apply succeeded and nothing changed since
  compileEdits

compileVars == <<log, golden, sampled, plan, reviewed, byHand, promoted, raced, fresh, compileEdits>>

NoFile == [kind |-> "none"]
Generated(a, active) == [kind |-> "generated", asserts |-> a, active |-> active]
HandWritten == [kind |-> "hand"]

-----------------------------------------------------------------------------
\* The judgments that count.

\* v2SupersessionKey: the target of a judgment.
TargetOf(v) ==
  CASE v.action = "missing" -> <<"reference", v.on>>
    [] v.action = "prefer" -> <<"pair", {v.on, v.below}>>
    [] OTHER -> <<"target", v.on>>

\* effectiveJudgments: of the legacy records of one query and target the latest, the later
\* line on a tie; of the others the leaves of the graph of corrections.
Effective(L) ==
  {L[i].vote : i \in {i \in DOMAIN L :
     IF L[i].vote.v1
     THEN ~\E j \in DOMAIN L : /\ L[j].vote.v1 /\ L[j].vote.query = L[i].vote.query /\ L[j].vote.on = L[i].vote.on
                               /\ \/ L[j].vote.time > L[i].vote.time
                                  \/ L[j].vote.time = L[i].vote.time /\ j > i
     ELSE ~\E j \in DOMAIN L : L[j].supersedes = i}}

-----------------------------------------------------------------------------
\* What a query's judgments compile to.

\* The routing table: helpful and a plain fit are for the history only.
Expecting(E) == {[on |-> v.on, window |-> v.window, family |-> v.note] :
                   v \in {v \in E : v.action \in {"essential", "missing", "pin"}}}
Banning(E) == {[on |-> v.on, why |-> v.note] : v \in {v \in E : v.action \in {"irrelevant", "doesnt-fit"}}}
Preferring(E) == {[above |-> v.on, below |-> v.below, window |-> v.window] : v \in {v \in E : v.action = "prefer"}}

Overlap(R, S) == R \cap S # {}
Apart(X) == \A x, y \in X : x.on = y.on \/ ~Overlap(x.on, y.on)
Window(x) == IF x.window = 0 THEN 10 ELSE x.window

\* Judgments of one passage agree, different passages do not overlap, nothing is both
\* expected and forbidden, and no pair is preferred both ways.
Consistent(E) ==
  LET X == Expecting(E) B == Banning(E) P == Preferring(E) IN
  /\ \A x, y \in X : x.on = y.on =>
       Window(x) = Window(y) /\ (x.family = y.family \/ "" \in {x.family, y.family})
  /\ \A x, y \in B : x.on = y.on => x.why = y.why
  /\ Apart(X) /\ Apart(B)
  /\ \A x \in X, b \in B : ~Overlap(x.on, b.on)
  /\ \A p \in P : ~Overlap(p.above, p.below)
  /\ \A p, r \in P : /\ ~(p.above = r.below /\ p.below = r.above)
                     /\ p.above = r.above /\ p.below = r.below => p.window = r.window

\* The fixture: judgments of one passage are merged.
Fixture(E) ==
  LET X == Expecting(E)
      At(on) == {x \in X : x.on = on}
  IN [expected |-> {[on |-> x.on,
                     window |-> IF \A y \in At(x.on) : y.window = 0 THEN 0 ELSE Window(x),
                     family |-> IF \A y \in At(x.on) : y.family = "" THEN ""
                                ELSE (CHOOSE y \in At(x.on) : y.family # "").family] : x \in X},
      banned |-> Banning(E), order |-> Preferring(E),
      legacy |-> \E v \in E : v.action = "pin" \/ (v.action = "missing" /\ v.v1)]
Empty(f) == f.expected = {} /\ f.banned = {} /\ f.order = {}
Mentioned(f) == UNION ({x.on : x \in f.expected} \cup {b.on : b \in f.banned}
                       \cup {p.above : p \in f.order} \cup {p.below : p \in f.order})

OfQuery(q, E) == {v \in E : v.query = q}
Asked(E) == {v.query : v \in E}
\* Two queries may not share a file name, and every query must be consistent.
Compiles(E) ==
  /\ \A q, r \in Asked(E) : SlugOf[q] = SlugOf[r] => q = r
  /\ \A q \in Asked(E) : Consistent(OfQuery(q, E))
\* The fixtures of a log, by slug; an empty one is to be removed.
Fixtures(E) == [s \in {SlugOf[q] : q \in Asked(E)} |->
                  Fixture(OfQuery(CHOOSE q \in Asked(E) : SlugOf[q] = s, E))]

\* Every query has a file name, and a fixture is no NoPlan.
ASSUME VotesAssumption ==
  /\ \A v \in Votes : v.query \in DOMAIN SlugOf
  /\ Histories \subseteq Seq(Votes)
  /\ \A E \in SUBSET Votes : Fixture(E) # NoPlan

-----------------------------------------------------------------------------
\* Planning, for a preview and again for the request that applies it.  Plans only read,
\* so two that overlap are as good as one after the other.

Inputs == [judgments |-> Len(log), sampled |-> sampled]

CompilerInit ==
  /\ \E h \in Histories : log = [i \in DOMAIN h |-> [vote |-> h[i], supersedes |-> 0]]
  /\ golden = [s \in Slugs |-> NoFile] /\ sampled = {}
  /\ plan = NoPlan /\ reviewed = NoPlan
  /\ byHand = {} /\ promoted = [s \in Slugs |-> NoPlan] /\ raced = {}
  /\ fresh = FALSE /\ compileEdits = 0

\* observeCompilationInputs.  A request to apply names the preview on the screen, and no
\* other repository operation runs (server.ts).
ObserveInputs ==
  /\ plan = NoPlan
  /\ \E for \in {"preview", "apply"} :
       /\ for = "apply" => reviewed # NoPlan
       /\ plan' = [at |-> "observed", for |-> for, inputs |-> Inputs]
  /\ UNCHANGED <<log, golden, sampled, reviewed, byHand, promoted, raced, fresh, compileEdits>>

\* A promotion by a person is kept as long as the assertions are the ones he promoted.
Status(file, f) == file.kind = "generated" /\ file.active /\ file.asserts = f

\* The log is read and compiled, and every target is looked at: a fixture without the
\* marker of the workbench stops the plan, an empty one is left if it is not ours.
Compile ==
  /\ plan # NoPlan /\ plan.at = "observed"
  /\ LET E == Effective(log)
         F == Fixtures(E)
         Owned(s) == golden[s].kind = "generated"
         after == [s \in {s \in DOMAIN F : ~Empty(F[s]) \/ Owned(s)} |->
                     IF Empty(F[s]) THEN NoFile ELSE Generated(F[s], Status(golden[s], F[s]))]
     IN plan' = IF Compiles(E) /\ \A s \in DOMAIN F : ~Empty(F[s]) => golden[s].kind # "hand"
                THEN [at |-> "compiled", for |-> plan.for, inputs |-> plan.inputs, after |-> after, edited |-> {}]
                ELSE NoPlan
  /\ UNCHANGED <<log, golden, sampled, reviewed, byHand, promoted, raced, fresh, compileEdits>>

\* The bytes that will be replaced and the chapters the corpus lacks are read last.
Planned ==
  LET written == {s \in DOMAIN plan.after : plan.after[s] # NoFile}
  IN [inputs |-> plan.inputs, after |-> plan.after, before |-> [s \in DOMAIN plan.after |-> golden[s]],
      sampled |-> sampled \cup {Chapter[v] : v \in UNION {Mentioned(plan.after[s].asserts) : s \in written}}]

\* Mutant: the request goes on with the plan it made, whatever was reviewed.
Digest_Trusting ==
  /\ plan # NoPlan /\ plan.at = "compiled"
  /\ \/ Inputs # plan.inputs /\ plan' = NoPlan /\ UNCHANGED reviewed
     \/ /\ Inputs = plan.inputs /\ plan.for = "preview"
        /\ plan' = NoPlan /\ reviewed' = [plan |-> Planned, edited |-> plan.edited]
     \/ /\ Inputs = plan.inputs /\ plan.for = "apply"
        /\ plan' = [at |-> "checked", for |-> "apply", ops |-> Planned, edited |-> plan.edited \cap reviewed.edited]
        /\ UNCHANGED reviewed
  /\ UNCHANGED <<log, golden, sampled, byHand, promoted, raced, fresh, compileEdits>>
\* The inputs are observed again.  A preview is shown; a request goes on only if it made
\* the very plan that was reviewed.
Digest ==
  /\ plan # NoPlan /\ plan.at = "compiled"
  /\ \/ /\ Inputs # plan.inputs \/ (plan.for = "apply" /\ Planned # reviewed.plan)
        /\ plan' = NoPlan /\ UNCHANGED reviewed
     \/ /\ Inputs = plan.inputs /\ plan.for = "preview"
        /\ plan' = NoPlan /\ reviewed' = [plan |-> Planned, edited |-> plan.edited]
     \/ /\ Inputs = plan.inputs /\ plan.for = "apply" /\ Planned = reviewed.plan
        /\ plan' = [at |-> "checked", for |-> "apply", ops |-> Planned, edited |-> plan.edited \cap reviewed.edited]
        /\ UNCHANGED reviewed
  /\ UNCHANGED <<log, golden, sampled, byHand, promoted, raced, fresh, compileEdits>>

\* applyJudgmentCompilationPlan: under the repository lock the inputs and the files to
\* replace are compared again; then all is written, or nothing.
ApplyPlan ==
  /\ plan # NoPlan /\ plan.at = "checked" /\ plan' = NoPlan
  /\ LET ops == plan.ops
         stale == Inputs # ops.inputs \/ \E s \in DOMAIN ops.before : golden[s] # ops.before[s]
     IN \/ stale /\ UNCHANGED <<golden, sampled, promoted, raced, fresh>>
        \/ /\ ~stale /\ sampled' = ops.sampled /\ fresh' = TRUE
           /\ golden' = [s \in Slugs |-> IF s \in DOMAIN ops.after THEN ops.after[s] ELSE golden[s]]
           /\ promoted' = [s \in Slugs |->
                 IF s \in DOMAIN ops.after /\ ops.after[s] \notin {Generated(promoted[s], b) : b \in BOOLEAN}
                 THEN NoPlan ELSE promoted[s]]
           /\ raced' = raced \cup plan.edited
  /\ UNCHANGED <<log, reviewed, byHand, compileEdits>>

-----------------------------------------------------------------------------
\* Reviewers and other people.

\* A judgment is appended; a correction names a leaf of the same query, case and target.
AppendJudgment ==
  /\ Cardinality({i \in DOMAIN log : ~log[i].vote.v1}) < MaxVotes
  /\ \E v \in {v \in Votes : ~v.v1}, i \in 0..Len(log) :
       /\ i # 0 => /\ ~log[i].vote.v1 /\ ~\E j \in DOMAIN log : log[j].supersedes = i
                   /\ log[i].vote.query = v.query /\ log[i].vote.case = v.case
                   /\ TargetOf(log[i].vote) = TargetOf(v)
       /\ log' = Append(log, [vote |-> v, supersedes |-> i])
  /\ fresh' = FALSE
  /\ UNCHANGED <<golden, sampled, plan, reviewed, byHand, promoted, raced, compileEdits>>

\* Somebody edits the fixtures in his editor, or by git.  A plan that has looked at the
\* file and not yet read its bytes will not notice.
Edited(s) == plan' = IF plan # NoPlan /\ plan.at = "compiled" THEN [plan EXCEPT !.edited = @ \cup {s}] ELSE plan
EditFixture(s) ==
  /\ compileEdits < MaxEdits /\ compileEdits' = compileEdits + 1
  /\ \/ golden[s].kind = "generated" /\ ~golden[s].active
        /\ golden' = [golden EXCEPT ![s].active = TRUE]
        /\ promoted' = [promoted EXCEPT ![s] = golden[s].asserts] /\ UNCHANGED byHand
     \/ golden[s].kind # "hand" /\ golden' = [golden EXCEPT ![s] = HandWritten]
        /\ byHand' = byHand \cup {s} /\ promoted' = [promoted EXCEPT ![s] = NoPlan]
     \/ golden[s].kind = "hand" /\ golden' = [golden EXCEPT ![s] = NoFile]
        /\ byHand' = byHand \ {s} /\ UNCHANGED promoted
  /\ Edited(s) /\ fresh' = FALSE
  /\ UNCHANGED <<log, sampled, reviewed, raced>>

EditCorpus ==
  /\ compileEdits < MaxEdits /\ compileEdits' = compileEdits + 1
  /\ sampled' \in {sampled \cup {c} : c \in Chapters} \cup {sampled \ {c} : c \in Chapters}
  /\ sampled' # sampled /\ fresh' = FALSE
  /\ UNCHANGED <<log, golden, plan, reviewed, byHand, promoted, raced>>

CompilerNext ==
  \/ ObserveInputs \/ Compile \/ Digest \/ ApplyPlan \/ AppendJudgment \/ EditCorpus \/ \E s \in Slugs : EditFixture(s)

CompilerSpec == CompilerInit /\ [][CompilerNext]_compileVars

-----------------------------------------------------------------------------
\* A fixture somebody wrote himself is never overwritten, and a promotion stands exactly
\* as long as the assertions that were promoted; only an edit that falls between the look
\* at the file and the reading of its bytes of both plans escapes.
PeopleRespected ==
  \A s \in Slugs \ raced :
    /\ s \in byHand => golden[s] = HandWritten
    /\ golden[s].kind = "generated" => golden[s].active = (promoted[s] = golden[s].asserts)

\* What is on disk after an apply is what the whole log compiles to: no plan mixes two
\* states of its inputs, another plan would change nothing, and every passage that a
\* fixture names is in the corpus it will be tested on.
CompiledWhole ==
  fresh =>
    LET E == Effective(log)
        F == Fixtures(E)
    IN /\ Compiles(E)
       /\ \A s \in DOMAIN F :
            IF Empty(F[s]) THEN golden[s].kind # "generated"
            ELSE golden[s] = Generated(F[s], Status(golden[s], F[s]))
       /\ {Chapter[v] : v \in UNION {Mentioned(F[s]) : s \in DOMAIN F}} \subseteq sampled

\* No fixture of the workbench contradicts itself.
NoContradiction ==
  \A s \in Slugs : golden[s].kind = "generated" =>
    LET a == golden[s].asserts IN
    /\ \A x \in a.expected, b \in a.banned : ~Overlap(x.on, b.on)
    /\ \A x, y \in a.expected : Overlap(x.on, y.on) => x = y
    /\ \A p, r \in a.order : ~(p.above = r.below /\ p.below = r.above)

CompiledAsJudged == PeopleRespected /\ CompiledWhole /\ NoContradiction
=============================================================================
