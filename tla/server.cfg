SPECIFICATION FairSpec
CONSTANTS
  Worker = {w1}
  k1 = k1
  k2 = k2
  alice = alice
  s1 = s1
  Key = {k1, k2}
  NoKey = NoKey
  Principal = {alice}
  Secret = {s1}
  NoSecret = NoSecret
  Undefined = Undefined
  Deployment <- MCDeployment
  MaxInstalls = 2
  MaxEvents = 1
  MaxCrashes = 2
  Hour = 1
  FallBack = 2
  MaxTime = 3
  MaxTokens = 1
INVARIANTS TypeOK HalfBuiltIsInert RestsOnlyWhenUp TokensLastAsTold RevocationTakesEffect
PROPERTIES  StartIsFinite PipelineComesUp
CHECK_DEADLOCK FALSE
