\* Two prompts, two clicks on Begin, five captures and skips, one closed tab.
CONSTANTS
  Steps = 2
  Codes = {a, b, hat}
  Hat = hat
  Handlers = {h1, h2}
  MaxGen = 5
  MaxLeave = 1
SPECIFICATION Spec
CHECK_DEADLOCK FALSE
INVARIANTS EachPromptIsSettled NoCodeTwice ClosedGivesBack
