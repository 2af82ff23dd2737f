\* A stick, a hat and an unbound button; a buffer that overflows, reads that cut packets.
CONSTANTS
  Control = {x, hat, dleft}
  Bound = {x, hat}
  Hat = hat
  DpadKey = dleft
  x = x
  hat = hat
  dleft = dleft
  Slots = 3
  Chunk = 1
  MaxMoves = 5
SPECIFICATION Spec
INVARIANTS Coherent NothingFromBefore
PROPERTIES PadIsFollowed
