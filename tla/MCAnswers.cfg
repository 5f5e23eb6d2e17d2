SPECIFICATION MCSpec
CONSTANTS
  Commits = {1, 2, 3, 4, 5, 6}
  Base = Base
  Foreign = Foreign
  None = None
  MaxDeaths = 2
  MaxFaults = 2
  MaxForeign = 1
  Admissions = {a1, a2}
  Decisions = {d1, d2}
  Evidence <- MCEvidence
  Reds = {inherited, predicted, new}
  Inherited = {inherited}
  Predicted = {predicted}
  MaxKills = 1
  MaxTroubles = 1
  MaxMischief = 1
  Publishers = {p1, p2, p3}
  Reports = {s1, s2}
  Nothing = Nothing
  Stranger = Stranger
  MaxStops = 1
  MaxMeddling = 1
  Handlers = {r1, r2}
  Cases = {c1, c2}
  Targets = {t1, t2, t3}
  Displayed = {t1, t2}
  StoreLimit = 2
  MaxClock = 1
  MaxAsked = 3
  MaxFalls = 1
INVARIANTS AnswersTypeOK PublishedIsProven EndsAsAnswered AdmissionHolds MarkerCommitsWhole ReviewsHold
PROPERTIES NeverReplaced CommittedIsOpened PublishedOnce TornIsLast EveryoneAnswered
CHECK_DEADLOCK FALSE
