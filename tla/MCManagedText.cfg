SPECIFICATION Spec
CONSTANTS
  Fields = {"fields 1"}
  Bodies <- MCBodies
  UserLines = {"user", "---", "managed:start", "managed:end"}
  FirstTexts <- MCFirstTexts
  MaxApplies = 2
  MaxEdits = 2
PROPERTIES
  WrittenIsReadBack
  AppliedTwiceIsOnce
  UserLinesKept
  UserMayWrite
CHECK_DEADLOCK FALSE
