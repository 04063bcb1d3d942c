SPECIFICATION Spec
CONSTANTS
    host = host
    disk = disk
    db = db
    scrape = scrape
    Core <- MCCore
    Probes <- MCProbes
    Closers <- MCClosers
    Slow <- MCSlow
    Deaf <- MCDeaf
    Every <- MCEvery
    Asked <- MCAsked
    MaxConcurrency = 3
    CollectTimeout = 1
    MaxCollectTimeout = 3
    CoreFastEvery = 2
INVARIANTS TypeOK SlotsAccounted NoUseAfterClose NoTickMissed NoTurnSkipped
PROPERTIES EveryCollectorHeard ShutdownCompletes PromiseKept
