CONSTANTS
  f1 = f1
  f2 = f2
  fast = fast
  deep = deep
  Flights <- MCFlights
  Selections <- MCSelections
  NoFlight = NoFlight
  NoSelection = NoSelection
  HasDraft = TRUE
  AnonymousTurns = 2
  MaxEvents = 3
SPECIFICATION LanesSpec
SYMMETRY NameSymmetry
INVARIANTS SingleFlight
PROPERTIES AnsweredOnce DispatchOwnsInput NothingStale
