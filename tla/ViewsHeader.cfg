\* A folder discovery that is given up: HeaderChoosesNoColumns does not hold.
SPECIFICATION Spec
CONSTANTS
  Columns = {"c", "d", "l"}
  Applies <- AppliesDef
  Ids = {"v", "w"}
  Names = {"n", "m"}
  MaxViews = 2
  MaxEdits = 4
PROPERTIES HeaderChoosesNoColumns
CHECK_DEADLOCK FALSE
