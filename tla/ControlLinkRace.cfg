\* The C++ client, whose two threads copy and number without a lock.
CONSTANTS
  Locked = FALSE
  Half = 4
  Window = 2
  Ports = {1, 2}
  StrayPort = 3
  MaxVersion = 1
  MaxRuns = 1
SPECIFICATION Spec
PROPERTIES NeverBackwards
