SPECIFICATION FairSpec
CONSTANTS
  Cards = {anchor, pin}
  DataCards = {anchor}
  AutoResolved = {pin}
  MaxTrains = 2
  MaxRequests = 3
  MaxMain = 1
  MaxCrashes = 1
INVARIANTS TypeOK TrainsKeepOrder
PROPERTIES EvidenceGrows DataTrainSettles
CHECK_DEADLOCK FALSE
