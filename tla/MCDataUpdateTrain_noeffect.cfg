SPECIFICATION Spec
CONSTANTS
  Cards = {anchor, pin}
  DataCards = {anchor}
  AutoResolved = {pin}
  MaxTrains = 2
  MaxRequests = 4
  MaxMain = 1
  MaxCrashes = 0
PROPERTY NoEffectParked
CHECK_DEADLOCK FALSE
