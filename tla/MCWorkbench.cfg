SPECIFICATION MCSpec
CONSTANTS
  Ops = {o1, o2}
  p1 = p1
  p2 = p2
  a = a
  b = b
  Paths = {p1, p2}
  Bytes = {a, b}
  Absent = Absent
  Mutations <- MCMutations
  Initial <- MCInitial
  Nobody = Nobody
  Reader = Reader
  NoCall = NoCall
  NoEntry = NoEntry
  MaxCrashes = 1
  MaxEdits = 1
  Definitions = {s1, s2}
  Items = {i1}
  Calls = {e1, e2}
  Ids = {r1, r2}
  NoSession = NoSession
  MaxStudioDeaths = 1
  Verses = {11, 12, 13, 21}
  Widths = {1, 2, 4}
  Spans <- MCSpans
  Edges <- MCEdges
  Pericopes <- MCPericopes
  Limit = 2
  Headroom = 1
  MaxPerGroup = 1
  MaxHits = 3
  Trees = {"sound", "warns", "fails"}
  Targets = {"t1", "t2", "t3"}
  Holding <- MCHolding
  Vacuous <- MCVacuous
  Failing = {"fails"}
  Warned = {"warns"}
  Unharmed = {"t1"}
  Effectless = {"t2"}
  Triple <- MCTriple
  AskedOf <- MCAsked
  MaxRuns = 2
  MaxInputEdits = 2
  Queries = {"psalm", "pslam", "jn 3"}
  Category <- MCCategory
  Batteries <- MCBatteries
  Answers <- MCAnswers
  Probed <- MCProbed
  Present = {1, 2, 3, 4}
  Pins <- MCPins
  Discount <- MCDiscount
  Scale = 10
  Thresholds = {0, 6, 12}
  MaxChanges = 4
SYMMETRY Symmetry
INVARIANTS RefusedOnlyIfTampered StudioHolds GauntletHolds EngineHolds
PROPERTIES OnlyRollForward
