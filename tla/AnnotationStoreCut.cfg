\* One window, one annotation, one change.
CONSTANTS
  Windows = {w1}
  Items = {i1}
  NoStore = NoStore
  Cut = Cut
  MaxEdits = 1
SPECIFICATION Spec
INVARIANT FailureLeavesTheOldOne
