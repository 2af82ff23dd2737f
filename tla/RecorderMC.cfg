\* Ring of two slots, six record() calls: the ring wraps three times and fills.
CONSTANTS
  Size = 2
  MaxRecords = 6
  MaxDiskErrors = 1
SPECIFICATION Spec
INVARIANTS NoSlotRace EveryCallAccounted
PROPERTIES AcceptedIsWritten StopReturns ImplementsCaptureLog
