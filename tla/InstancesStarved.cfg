SPECIFICATION Spec
CONSTANTS
    a = a
    b = b
    Integrations = {"postgres"}
    Order <- Two
    Every <- RealEvery
    OpTimeout <- RealOpTimeout
    CollectTimeout = 3
    RetryEvery = 60
    Delays = {0, 2}
PROPERTY EveryInstanceHeard
