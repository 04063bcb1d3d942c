SPECIFICATION Spec
CONSTANTS
    a = a
    b = b
    c = c
    Containers = {a, b}
    Service <- Replicas
    Unlimited = {}
    Networked = {a, b}
    Hang = {}
    Workers = 1
    Limit = 2
    MaxUsed <- ReplicasUse
    MaxEvents = 1
INVARIANT CountsTraffic
