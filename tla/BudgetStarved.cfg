SPECIFICATION Spec
CONSTANTS
    Setups <- OftenScraped
    PromTimeout = 5
    ExecTimeout = 10
    CollectTimeout = 3
    MaxCollectTimeout = 30
    Delays = {0, 2}
PROPERTY OneHangsOthersDoNot
