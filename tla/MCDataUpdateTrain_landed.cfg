SPECIFICATION Spec
CONSTANTS
  Cards = {anchor, pin}
  DataCards = {anchor}
  AutoResolved = {pin}
  MaxTrains = 1
  MaxRequests = 3
  MaxMain = 1
  MaxCrashes = 0
PROPERTY ObservationSparesLanded
CHECK_DEADLOCK FALSE
