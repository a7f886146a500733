SPECIFICATION FairSpec
CONSTANTS
  Caller = {c1, c2}
  Target = {t1, t2}
  NoRecord = NoRecord
  Foreign = Foreign
  MaxCalls = 4
INVARIANT RecordSurvives
PROPERTIES RemovesOnlyOutdated ResultIsLive CallsEnd ImplementsContract
CHECK_DEADLOCK FALSE
