SPECIFICATION MCUneditedSpec
CONSTANTS
  Ops = {o1, o2}
  p1 = p1
  p2 = p2
  a = a
  b = b
  Paths = {p1, p2}
  Bytes = {a, b}
  Absent = Absent
  Mutations <- MCMutations
  Initial <- MCInitial
  Nobody = Nobody
  Reader = Reader
  NoCall = NoCall
  NoEntry = NoEntry
  MaxCrashes = 2
  MaxEdits = 0
INVARIANTS TypeOK JournalSafe
PROPERTIES AtomicSpec CleanedOnlyWhenWhole EventuallyClean
