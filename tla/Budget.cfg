SPECIFICATION Spec
CONSTANTS
    Setups <- Mixed
    PromTimeout = 5
    ExecTimeout = 10
    CollectTimeout = 3
    MaxCollectTimeout = 30
    Delays = {0, 2}
INVARIANTS TypeOK OwnShare SumIsEnough QuickNotStarved OnTime
PROPERTY RoundsEnd
