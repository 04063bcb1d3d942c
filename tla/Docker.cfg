SPECIFICATION Spec
CONSTANTS
    a = a
    b = b
    c = c
    Containers = {a, b, c}
    Service <- OwnService
    Unlimited = {b}
    Networked = {c}
    Hang = {a}
    Workers = 2
    Limit = 3
    MaxUsed <- OwnUse
    MaxEvents = 2
INVARIANTS TypeOK NothingInvented RoundIsWhole HungCostsItself
PROPERTIES RoundsEnd CrashReported FalseLimitsCease
