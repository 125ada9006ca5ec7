CONSTANTS
  Keys <- MCKeys
  Texts <- MCTexts
  MaxText = 3

SPECIFICATION Spec

PROPERTY OpenedWhole
CHECK_DEADLOCK FALSE
