SPECIFICATION Spec
CONSTANTS
  Name = {n1, n2, n3}
  MaxEvents = 3
  MaxReads = 1
INVARIANTS TypeOK ViewComplete TimestampIsLast
PROPERTIES FieldsNeverGoBack RequestsGetOn
SYMMETRY NameSymmetry
CHECK_DEADLOCK FALSE
