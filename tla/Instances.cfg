SPECIFICATION Spec
CONSTANTS
    a = a
    b = b
    Integrations = {"postgres", "mysql", "redis", "mongo", "rabbitmq"}
    Order <- Two
    Every <- RealEvery
    OpTimeout <- RealOpTimeout
    CollectTimeout = 3
    RetryEvery = 60
    Delays = {0, 2}
INVARIANTS TypeOK Owned CleanConn InTime
PROPERTY DeadCostLittle
