\* A pad that vanishes twice, or a client that leaves once; two inputs, and one pull of
\* the host's cable.
CONSTANTS
  Report = {0, 1, 2}
  Neutral = 0
  None = None
  Kinds = {"evdev", "socket"}
  State <- MCState
  NoInput = 0
  Nothing = Nothing
  Partial = Partial
  Shape <- MCShape
  Encode <- MCEncode
  HeartbeatOn = TRUE
  MaxInputs = 2
  MaxLosses <- MCLosses
  MaxDetaches = 1
SPECIFICATION Spec
INVARIANTS WaitsOnEverything ShapedOnce ReleasedWhileGone
PROPERTIES BridgeSendsTheFreshest LossReleasesHost HostCatchesUp SourceIsOpened StopEndsTheLoop
