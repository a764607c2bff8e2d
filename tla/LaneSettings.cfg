CONSTANTS
  f1 = f1
  f2 = f2
  fast = fast
  deep = deep
  Flights <- MCFlights
  Selections <- MCSelections
  NoFlight = NoFlight
  NoSelection = NoSelection
  HasDraft = FALSE
  AnonymousTurns = 2
  MaxEvents = 3
  MaxKicks = 0
SPECIFICATION MCSpec
PROPERTIES SupersededNotFailed
CHECK_DEADLOCK FALSE
