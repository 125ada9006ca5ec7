CONSTANTS
  Keys <- MCKeys
  Texts <- MCTexts
  MaxText = 3

SPECIFICATION Spec

PROPERTY EndsWithInput
CHECK_DEADLOCK FALSE
