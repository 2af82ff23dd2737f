\* One press, then SIGTERM.
CONSTANTS
  Report = {0, 1, 2}
  Neutral = 0
  None = None
  Kinds = {"evdev"}
  State <- MCState
  NoInput = 0
  Nothing = Nothing
  Partial = Partial
  Shape <- MCShape
  Encode <- MCEncode
  HeartbeatOn = FALSE
  MaxInputs = 1
  MaxLosses <- MCNoLosses
  MaxDetaches = 0
SPECIFICATION Safety
INVARIANTS NothingHeldAfterExit
