CONSTANTS
  Keys <- MCKeys
  Texts <- MCTexts
  MaxText = 3

SPECIFICATION Spec
INVARIANT CursorInText
PROPERTY ImplementsText
CHECK_DEADLOCK FALSE
