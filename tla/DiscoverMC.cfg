\* A stick that has reported and one that has not, a button, a hat; three moves.
CONSTANTS
  Stick = {x, y}
  Button = {b}
  Hat = hat
  Mute = {y}
  Kinds <- MCKinds
  Modes = {FALSE, TRUE}
  None = None
  MaxMoves = 3
  MaxQueue = 2
SPECIFICATION Spec
CHECK_DEADLOCK FALSE
INVARIANTS OneControlOneTarget
PROPERTIES AnswerBeganAtRest DirectionIsThePush TerminalWaitsForTheHeld
