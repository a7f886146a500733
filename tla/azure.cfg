SPECIFICATION Spec
CONSTANTS
  Caller = {c1, c2}
  Target = {t1, t2}
  NoRecord = NoRecord
  Foreign = Foreign
  MaxCalls = 3
PROPERTY ImplementsContract
CHECK_DEADLOCK FALSE
