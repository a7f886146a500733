SPECIFICATION Spec
CONSTANTS
  Name = {n1, n2}
  MaxEvents = 2
  MaxReads = 1
INVARIANTS ViewNeverFails
CHECK_DEADLOCK FALSE
