CONSTANTS
  MaxFiles = 1
  MaxEdits = 1
SPECIFICATION DialogsSpec
INVARIANT FunctionRowsAreOfTheIndex
