\* Eight numbers wrap many times; two datagrams may overtake one; one restart.
CONSTANTS
  Locked = TRUE
  Half = 4
  Window = 2
  Ports = {1, 2}
  StrayPort = 3
  MaxVersion = 2
  MaxRuns = 2
SPECIFICATION Spec
INVARIANT NumbersTellTheOrder
PROPERTIES NeverBackwards LossHeals RestartIsHeard
