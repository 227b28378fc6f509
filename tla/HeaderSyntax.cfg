SPECIFICATION Spec
CONSTANTS
  Tools = {}
  MaxSets = 2
  MaxPics = 2
INVARIANT InStep
INVARIANT SameMeaning
INVARIANT Accepted
CHECK_DEADLOCK FALSE
