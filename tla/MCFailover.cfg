SPECIFICATION Spec
CONSTANTS
  Chains <- MCChains
  Primary = "ltc"
  NodeCount <- MCThreeNodes
  MaxLoops = 2
INVARIANTS TypeOK FailedSearchIsComplete OffPrimaryIsWatched
PROPERTY LoopReturnsToPrimary
