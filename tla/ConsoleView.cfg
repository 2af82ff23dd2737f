\* Four states that take most branches of encode(), one of them the neutral one; ReportShowsState is about all.
CONSTANTS
  Report <- MCReport
  Neutral <- MCNeutral
  None = None
  States <- MCStates
  FaceByPosition = TRUE
SPECIFICATION ViewSpec
INVARIANTS ConsoleShowsHeld
PROPERTIES ImplementsFreshestReport
