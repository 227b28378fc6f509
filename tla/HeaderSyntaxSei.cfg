SPECIFICATION Spec
CONSTANTS
  Tools = {"avc_sei_messages"}
  MaxSets = 2
  MaxPics = 2
INVARIANT SameMeaning
CHECK_DEADLOCK FALSE
