\* Two pages, each with a poll and a start or stop in flight at once; two runs and one sample or
\* disturbance, or one run and three of them.
CONSTANTS
  None = None
  Pages = {p1, p2}
  Ticks = {tick}
  Clicks = {click}
  Disturbances = {"service", "pull", "sleep", "forget", "crash"}
  MaxTurns = 5
SPECIFICATION Spec
CHECK_DEADLOCK FALSE
INVARIANTS TypeOK SampleOfItsWrite
PROPERTIES  MeasurementEnds
