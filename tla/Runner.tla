------------------------------- MODULE Runner -------------------------------
(***************************************************************************)
(* The agent's scheduler: src/internal/agent/runner.go, its constants in   *)
(* settings.go and what main.go does around it.  One goroutine per         *)
(* collector waits on its ticker, takes one of MaxConcurrency slots under  *)
(* a deadline, collects, gives the slot back and waits again, until a      *)
(* signal cancels the context; then the collectors are closed one after    *)
(* another and the client is flushed.                                      *)
(*                                                                         *)
(* Time is the countdown of the timers the code creates (ticker, context   *)
(* deadline); Elapse is one unit of it.  Time stands still while a         *)
(* goroutine has something to do at once (Ready): scheduling is fast       *)
(* compared with the unit.  The safety properties of slots and shutdown do *)
(* not depend on that, those about missed ticks and skipped turns do.      *)
(***************************************************************************)
EXTENDS Integers, FiniteSets

CONSTANTS
    Core,               \* collectors main.go passes in as core
    Probes,             \* collectors that exist once their probe detects them
    Closers,            \* collectors that implement CollectorCloser
    Slow,               \* Collect takes time, but returns once its context is done
    Deaf,               \* Collect ignores its context: it returns when it returns
    Every,              \* Every[c]: c.Every(); 0 stands for any value <= 0
    Asked,              \* Asked[c]: c.Timeout(); 0 when c does not ask
    MaxConcurrency,     \* slots of Runner.sem
    CollectTimeout,     \* default deadline of one collection
    MaxCollectTimeout,  \* most that a collector may be granted
    CoreFastEvery       \* the interval of a collector that names none

Collectors == Core \cup Probes

ASSUME SetsAssumption ==
    /\ IsFiniteSet(Core) /\ IsFiniteSet(Probes) /\ Core \cap Probes = {}
    /\ Closers \subseteq Collectors
    /\ Slow \subseteq Collectors /\ Deaf \subseteq Collectors
    /\ Slow \cap Deaf = {}

ASSUME TimeAssumption ==
    /\ Every \in [Collectors -> Nat]
    /\ Asked \in [Collectors -> Nat]
    /\ CollectTimeout \in Nat \ {0}
    /\ MaxCollectTimeout \in Nat \ {0}
    /\ CoreFastEvery \in Nat \ {0}

ASSUME SlotsAssumption == MaxConcurrency \in Nat \ {0}

VARIABLES
    phase,      \* main goroutine: probing, running, closing, flushing, exited
    toProbe,    \* probes Run has not reached yet
    active,     \* the collectors slice
    pc,         \* where each collector's goroutine is
    sem,        \* length of the channel Runner.sem
    cancelled,  \* ctx.Done() is closed: a signal arrived
    ticker,     \* time until the ticker fires again; 0: not created yet
    tick,       \* a tick waits in ticker.C, which holds one
    left,       \* time left on the context of the current collectOnce
    closed,     \* collectors whose Close was called
    missed,     \* history: collectors whose ticker dropped a tick
    skipped     \* history: collectors that gave up waiting for a slot

vars == <<phase, toProbe, active, pc, sem, cancelled, ticker, tick, left,
          closed, missed, skipped>>
timers == <<ticker, tick, left>>
history == <<missed, skipped>>
-----------------------------------------------------------------------------
Smaller(a, b) == IF a < b THEN a ELSE b
Larger(a, b) == IF a > b THEN a ELSE b

Interval(c) == IF Every[c] <= 0 THEN CoreFastEvery ELSE Every[c]

(* Mutant: the interval does not bound what a collector may ask for. *)
GrantedUncapped(c) == Smaller(Larger(CollectTimeout, Asked[c]), MaxCollectTimeout)

(* collectorTimeout *)
Granted(c) ==
    LET wanted == Larger(CollectTimeout, Asked[c])
        capped == IF Every[c] > 0 THEN Smaller(wanted, Every[c]) ELSE wanted
    IN  Smaller(capped, MaxCollectTimeout)

CtxDone(c) == cancelled \/ left[c] = 0

Phases == {"probing", "running", "closing", "flushing", "exited"}
Places == {"off", "start", "select", "waiting", "collecting", "done"}

TypeOK ==
    /\ phase \in Phases
    /\ toProbe \subseteq Probes
    /\ active \subseteq Collectors
    /\ pc \in [Collectors -> Places]
    /\ sem \in 0..MaxConcurrency
    /\ cancelled \in BOOLEAN
    /\ ticker \in [Collectors -> Nat]
    /\ tick \in [Collectors -> BOOLEAN]
    /\ left \in [Collectors -> Nat]
    /\ closed \subseteq Collectors
    /\ missed \subseteq Collectors
    /\ skipped \subseteq Collectors

Init ==
    /\ phase = "probing"
    /\ toProbe = Probes
    /\ active = Core
    /\ pc = [c \in Collectors |-> "off"]
    /\ sem = 0
    /\ cancelled = FALSE
    /\ ticker = [c \in Collectors |-> 0]
    /\ tick = [c \in Collectors |-> FALSE]
    /\ left = [c \in Collectors |-> 0]
    /\ closed = {}
    /\ missed = {}
    /\ skipped = {}
-----------------------------------------------------------------------------
(* Run, for one probe.  A Detect or New that panics counts as "not there". *)
Probe(p) ==
    /\ phase = "probing"
    /\ p \in toProbe
    /\ toProbe' = toProbe \ {p}
    /\ \/ active' = active \cup {p}
       \/ UNCHANGED active
    /\ UNCHANGED <<phase, pc, sem, cancelled, timers, closed, history>>

(* run starts a goroutine per collector, even if ctx is done by now. *)
Spawn ==
    /\ phase = "probing"
    /\ toProbe = {}
    /\ phase' = "running"
    /\ pc' = [c \in Collectors |-> IF c \in active THEN "start" ELSE "off"]
    /\ UNCHANGED <<toProbe, active, sem, cancelled, timers, closed, history>>

(* collectOnce creates the context before it asks for a slot. *)
Enter(c) ==
    /\ pc' = [pc EXCEPT ![c] = "waiting"]
    /\ left' = [left EXCEPT ![c] = Granted(c)]

(* Mutant: the ticker is never created. *)
LeaveWithoutTicker(c) ==
    /\ pc' = [pc EXCEPT ![c] = "select"]
    /\ left' = [left EXCEPT ![c] = 0]
    /\ UNCHANGED ticker

(* collectOnce returns and drops its context; after the first one          *)
(* runCollector makes the ticker.                                          *)
Leave(c) ==
    /\ pc' = [pc EXCEPT ![c] = "select"]
    /\ left' = [left EXCEPT ![c] = 0]
    /\ ticker' = [ticker EXCEPT ![c] = IF @ = 0 THEN Interval(c) ELSE @]

(* runCollector collects once before it creates its ticker. *)
First(c) ==
    /\ pc[c] = "start"
    /\ \/ /\ ~cancelled
          /\ Enter(c)
          /\ UNCHANGED ticker
       \/ /\ cancelled
          /\ Leave(c)
    /\ UNCHANGED <<phase, toProbe, active, sem, cancelled, tick, closed, history>>

(* The select of runCollector picks at random when both cases are ready,   *)
(* so a tick may win over ctx.Done().                                      *)
Receive(c) ==
    /\ pc[c] = "select"
    /\ tick[c]
    /\ tick' = [tick EXCEPT ![c] = FALSE]
    /\ Enter(c)
    /\ UNCHANGED <<phase, toProbe, active, sem, cancelled, ticker, closed, history>>

Stop(c) ==
    /\ pc[c] = "select"
    /\ cancelled
    /\ pc' = [pc EXCEPT ![c] = "done"]
    /\ UNCHANGED <<phase, toProbe, active, sem, cancelled, timers, closed, history>>

(* Mutant: the channel has no capacity limit. *)
AcquireUnbounded(c) ==
    /\ pc[c] = "waiting"
    /\ sem' = sem + 1
    /\ pc' = [pc EXCEPT ![c] = "collecting"]
    /\ UNCHANGED <<phase, toProbe, active, cancelled, timers, closed, history>>

(* The select of collectOnce: a free slot, or a context that is done.      *)
(* Either may win when both are ready.                                     *)
Acquire(c) ==
    /\ pc[c] = "waiting"
    /\ sem < MaxConcurrency
    /\ sem' = sem + 1
    /\ pc' = [pc EXCEPT ![c] = "collecting"]
    /\ UNCHANGED <<phase, toProbe, active, cancelled, timers, closed, history>>

(* Mutant: the deferred release runs although no slot was taken. *)
GiveUpReleasing(c) ==
    /\ pc[c] = "waiting"
    /\ CtxDone(c)
    /\ Leave(c)
    /\ sem' = IF sem > 0 THEN sem - 1 ELSE sem
    /\ skipped' = IF cancelled THEN skipped ELSE skipped \cup {c}
    /\ UNCHANGED <<phase, toProbe, active, cancelled, tick, closed, missed>>

GiveUp(c) ==
    /\ pc[c] = "waiting"
    /\ CtxDone(c)
    /\ Leave(c)
    /\ skipped' = IF cancelled THEN skipped ELSE skipped \cup {c}
    /\ UNCHANGED <<phase, toProbe, active, sem, cancelled, tick, closed, missed>>

(* Mutant: the slot is not released when the collection fails. *)
FinishLeaking(c) ==
    /\ pc[c] = "collecting"
    /\ sem' \in {sem - 1, sem}
    /\ Leave(c)
    /\ UNCHANGED <<phase, toProbe, active, cancelled, tick, closed, history>>

(* safeCollect returns: a value, an error or a recovered panic, which      *)
(* differ only in what is logged.  The slot is given back in each case.    *)
Finish(c) ==
    /\ pc[c] = "collecting"
    /\ sem' = sem - 1
    /\ Leave(c)
    /\ UNCHANGED <<phase, toProbe, active, cancelled, tick, closed, history>>

(* SIGINT or SIGTERM, at any time. *)
Cancel ==
    /\ ~cancelled
    /\ phase \in {"probing", "running"}
    /\ cancelled' = TRUE
    /\ UNCHANGED <<phase, toProbe, active, pc, sem, timers, closed, history>>

(* Mutants: wg.Wait is forgotten; wg.Add also counts what no probe found. *)
DrainedAtOnce ==
    /\ phase = "running"
    /\ cancelled
    /\ phase' = "closing"
    /\ UNCHANGED <<toProbe, active, pc, sem, cancelled, timers, closed, history>>

DrainedMiscounted ==
    /\ phase = "running"
    /\ cancelled
    /\ \A c \in Collectors : pc[c] = "done"
    /\ phase' = "closing"
    /\ UNCHANGED <<toProbe, active, pc, sem, cancelled, timers, closed, history>>

(* run: <-ctx.Done(), then wg.Wait(). *)
Drained ==
    /\ phase = "running"
    /\ cancelled
    /\ \A c \in active : pc[c] = "done"
    /\ phase' = "closing"
    /\ UNCHANGED <<toProbe, active, pc, sem, cancelled, timers, closed, history>>

(* closeCollectors, for one collector.  An error or a panic of Close ends  *)
(* that call and not the loop.                                             *)
Close(c) ==
    /\ phase = "closing"
    /\ c \in (active \cap Closers) \ closed
    /\ closed' = closed \cup {c}
    /\ UNCHANGED <<phase, toProbe, active, pc, sem, cancelled, timers, history>>

(* Mutant: a Close that panics ends the loop over the collectors. *)
ReturnEarly ==
    /\ phase = "closing"
    /\ phase' = "flushing"
    /\ UNCHANGED <<toProbe, active, pc, sem, cancelled, timers, closed, history>>

Return ==
    /\ phase = "closing"
    /\ active \cap Closers \subseteq closed
    /\ phase' = "flushing"
    /\ UNCHANGED <<toProbe, active, pc, sem, cancelled, timers, closed, history>>

(* main: flushAndClose, bounded by two seconds, and the process ends. *)
Flush ==
    /\ phase = "flushing"
    /\ phase' = "exited"
    /\ UNCHANGED <<toProbe, active, pc, sem, cancelled, timers, closed, history>>
-----------------------------------------------------------------------------
(* c's goroutine has a step to take before any time passes. *)
Ready(c) ==
    \/ pc[c] = "start"
    \/ pc[c] = "select" /\ (tick[c] \/ cancelled)
    \/ pc[c] = "waiting" /\ (sem < MaxConcurrency \/ CtxDone(c))
    \/ pc[c] = "collecting" /\ c \notin Deaf /\ (c \notin Slow \/ CtxDone(c))

Ticking(c) == ticker[c] > 0 /\ pc[c] # "done"

Fires(c) == ticker[c] = 1 /\ pc[c] # "done"

(* One unit of time.  A ticker that fires into a full channel drops the    *)
(* tick.                                                                   *)
Elapse ==
    /\ phase = "running"
    /\ \A c \in Collectors : ~Ready(c)
    /\ ticker' = [c \in Collectors |->
                    IF Fires(c) THEN Interval(c)
                    ELSE IF Ticking(c) THEN ticker[c] - 1 ELSE ticker[c]]
    /\ tick' = [c \in Collectors |-> tick[c] \/ Fires(c)]
    /\ missed' = missed \cup {c \in Collectors : Fires(c) /\ tick[c]}
    /\ left' = [c \in Collectors |->
                    IF pc[c] \in {"waiting", "collecting"} /\ left[c] > 0
                    THEN left[c] - 1 ELSE left[c]]
    /\ UNCHANGED <<phase, toProbe, active, pc, sem, cancelled, closed, skipped>>

(* The process is gone. *)
Exited == phase = "exited" /\ UNCHANGED vars

Step(c) == First(c) \/ Receive(c) \/ Stop(c) \/ Acquire(c) \/ GiveUp(c)

Next ==
    \/ \E p \in Probes : Probe(p)
    \/ Spawn
    \/ \E c \in Collectors : Step(c) \/ Finish(c) \/ Close(c)
    \/ Cancel
    \/ Drained \/ Return \/ Flush
    \/ Elapse
    \/ Exited

(* Goroutines are scheduled, the main goroutine goes on, time passes, and  *)
(* a collection that heeds its context comes to an end.  A signal need not *)
(* come and a deaf collection need not return.                             *)
Fairness ==
    /\ \A p \in Probes : WF_vars(Probe(p))
    /\ WF_vars(Spawn)
    /\ \A c \in Collectors : WF_vars(Step(c)) /\ WF_vars(Close(c))
    /\ \A c \in Collectors \ Deaf : WF_vars(Finish(c))
    /\ WF_vars(Drained) /\ WF_vars(Return) /\ WF_vars(Flush)
    /\ WF_vars(Elapse)

Spec == Init /\ [][Next]_vars /\ Fairness
-----------------------------------------------------------------------------
Busy == {c \in Collectors : pc[c] = "collecting"}

(* The channel counts exactly the collections that run, whatever mix of    *)
(* expired waits, errors and panics came before: no slot leaks and none is *)
(* given back twice, so at most MaxConcurrency collect (runner.go:120-125).*)
SlotsAccounted == sem = Cardinality(Busy)

(* Once one collector has been closed, no goroutine collects or can start  *)
(* to: run waits for all of them, also for one that a tick woke after the  *)
(* signal (runner.go:87-89, 106-112).                                      *)
NoUseAfterClose ==
    closed # {} => \A c \in Collectors : pc[c] \in {"off", "done"}

(* A collector that heeds its context has received every tick before the   *)
(* next one fires, time spent waiting for a slot included: what the cap by *)
(* the interval in collectorTimeout is for (runner.go:140-142).            *)
NoTickMissed ==
    \A c \in Collectors \ Deaf : Every[c] > 0 => c \notin missed

(* A collector is never turned away for want of a slot as long as fewer    *)
(* than MaxConcurrency others take time, even if some never return         *)
(* (settings.go:8-12).                                                     *)
NoTurnSkipped ==
    \A c \in Collectors :
        Cardinality((Slow \cup Deaf) \ {c}) < MaxConcurrency => c \notin skipped

(* With that much room every collector collects again and again until the  *)
(* signal, whatever the others do (runner.go:98-113).                      *)
EveryCollectorHeard ==
    Cardinality(Slow \cup Deaf) < MaxConcurrency =>
        \A c \in Collectors :
            (phase = "running" /\ c \in active) ~> (cancelled \/ pc[c] = "collecting")

(* After a signal the agent closes its collectors, flushes and exits; only *)
(* a collection that ignores its context can hold it up (runner.go:87-89,  *)
(* main.go:123-124).                                                       *)
ShutdownCompletes ==
    cancelled ~> (phase = "exited" \/ \E d \in Deaf : pc[d] = "collecting")

(* The scheduler keeps what AgentPromise states. *)
Stage == CASE phase = "probing" -> "setup"
           [] phase = "running" -> "serving"
           [] phase = "closing" -> "closing"
           [] phase = "flushing" -> "flushing"
           [] phase = "exited" -> "gone"

Promise == INSTANCE AgentPromise
             WITH Slots <- MaxConcurrency, stage <- Stage, enlisted <- active,
                  busy <- Busy, closed <- closed

(* agent.Run implements AgentPromise (runner.go:16-50, 74-90, 197-219).    *)
PromiseKept == Promise!Spec
=============================================================================
