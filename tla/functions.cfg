SPECIFICATION Spec
CHECK_DEADLOCK FALSE
CONSTANTS
  Absent = Absent
  Unset = Unset
INVARIANTS Matching Signing Logging Settings Dialling 
