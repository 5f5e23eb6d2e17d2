----------------------------- MODULE MCAnswers -----------------------------
(***************************************************************************)
(* The components whose callers wait for an answer, for TLC in one state   *)
(* graph: a run first chooses which of them it follows, the others rest.   *)
(*   "draft"       the draft pull request of a train                       *)
(*   "admission"   the admission manifest of a candidate                   *)
(*   "comparison"  the report and manifest of a comparison                 *)
(*   "reviews"     the case log, the judgment log and the snapshot store   *)
(***************************************************************************)
EXTENDS DraftPublication, Admission, ComparisonPublication, ReviewLogs, TLC

full == [lane |-> "full", fixtures |-> FALSE, bound |-> TRUE, reds |-> {},
         reviewed |-> {"q"}, changed |-> {"q"}, improved |-> FALSE,
         marker |-> "none", probe |-> "still", ordering |-> "still"]

MCEvidence ==
  { full,
    [full EXCEPT !.lane = "fixture", !.fixtures = TRUE, !.reviewed = {}, !.changed = {}],
    [full EXCEPT !.marker = "matching", !.probe = "moved", !.ordering = "moved"],
    [full EXCEPT !.marker = "other", !.probe = "moved"],
    [full EXCEPT !.probe = "bound"], [full EXCEPT !.ordering = "orphaned"],
    [full EXCEPT !.reviewed = {}], [full EXCEPT !.reviewed = {}, !.changed = {}],
    [full EXCEPT !.reviewed = {}, !.changed = {}, !.improved = TRUE],
    [full EXCEPT !.bound = FALSE], [full EXCEPT !.reds = {"new"}],
    [full EXCEPT !.lane = "fixture", !.reviewed = {}, !.changed = {}] }

VARIABLE which
all == <<which, draftVars, admVars, compVars, revVars>>

MCInit ==
  /\ which \in {"draft", "admission", "comparison", "reviews"}
  /\ DraftInit /\ AdmInit /\ CompInit /\ ReviewInit
  /\ which # "admission" => evidence = full
  /\ which # "reviews" => caseFile.lines = <<>>

Of(m, A) == which = m /\ A /\ UNCHANGED which
OfDraft(A) == Of("draft", A) /\ UNCHANGED <<admVars, compVars, revVars>>
OfAdmission(A) == Of("admission", A) /\ UNCHANGED <<draftVars, compVars, revVars>>
OfComparison(A) == Of("comparison", A) /\ UNCHANGED <<draftVars, admVars, revVars>>
OfReviews(A) == Of("reviews", A) /\ UNCHANGED <<draftVars, admVars, compVars>>

MCNext == \/ OfDraft(DraftNext) \/ OfAdmission(AdmNext)
          \/ OfComparison(CompNext) \/ OfReviews(ReviewNext)

\* The fairness is that of DraftPublication and of ReviewLogs, where they run.
MCSpec ==
  /\ MCInit /\ [][MCNext]_all
  /\ WF_all(OfDraft(DraftStep)) /\ SF_all(OfDraft(Press(TRUE, TRUE)))
  /\ \A r \in Handlers : WF_all(OfReviews(ReviewStep(r)))

\* The types of the draft's remote and local state, and of the two logs.
AnswersTypeOK == DraftTypeOK /\ ReviewTypeOK

\* What a call says when it ends is so: of the remote (DraftPublication) and of the
\* worktree it used (Admission).
EndsAsAnswered == AnswersBacked /\ SitesAccounted
=============================================================================
