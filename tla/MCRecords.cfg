SPECIFICATION MCSpec
CONSTANTS
  Callers = {x, y}
  Audits = {a, b}
  MaxAppends = 1
  MaxCrashes = 1
  Linked = {c1}
  MaxMoves = 2
  PoolSize = 4
  Clusters = {1, 2}
  Sources = {1, 2}
  Windows = {w1, w2}
  Servers = {p1, p2}
  Requests = {q1, q2, q3}
  Queries = {k1}
  Opinions = {m1, m2}
  MaxRestarts = 1
  Identity <- MCIdentity
  Lists <- MCLists
  Forms <- MCForms
  NoForm = NoForm
  MaxSignings = 2
  MaxCuts = 1
  Concepts = {"c", "e"}
  Drafts = {"d"}
  Phrases = {"p", "q"}
  Places = {"j", "k", "l"}
  Weights = {1, 2}
  Owners = {"editorial", "openbible"}
  Ontologies <- MCOntologies
  MaxOps = 3
  Absent = Absent
  Votes <- MCVotes
  Histories <- MCHistories
  SlugOf <- MCSlugs
  Chapter <- MCChapter
  MaxVotes = 2
  MaxEdits = 1
  NoPlan = NoPlan
INVARIANTS RecordsTypeOK SigningHolds AuditsWhole MonitoringHolds BlindHolds WrittenAsReviewed
PROPERTIES ClosedStaysDeleted
CHECK_DEADLOCK FALSE
