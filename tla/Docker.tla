------------------------------- MODULE Docker -------------------------------
(***************************************************************************)
(* The Docker collector, src/internal/collectors/docker/cpu.go: in every   *)
(* round the main goroutine lists the containers, hands the running ones   *)
(* to a pool of workers over an unbuffered channel, waits for the workers  *)
(* and forgets the containers that are gone.  A worker asks for one        *)
(* container's statistics, asks to inspect it, and publishes the           *)
(* difference to the reading remembered under the collector's lock.        *)
(*                                                                         *)
(* A container's cumulative counters (CPU time, network bytes) are one     *)
(* number, which starts again when the container does; it is zero in the   *)
(* statistics of a container that does not run.  The deadline of the round *)
(* may pass between any two steps.                                         *)
(***************************************************************************)
EXTENDS Integers, FiniteSets, Functions

CONSTANTS
    Containers,     \* every container there will ever be
    Service,        \* Service[c]: the label its series carry
    Unlimited,      \* the containers without a memory limit
    Networked,      \* the containers with a network of their own
    Hang,           \* the containers whose statistics never come
    Workers,        \* c.concurrency
    Limit,          \* c.maxContainers
    MaxUsed,        \* bound: MaxUsed[c], what it uses in a behaviour
    MaxEvents       \* bound: containers and daemon change this often

ASSUME DockerAssumption ==
    /\ IsFiniteSet(Containers)
    /\ Service \in [Containers -> STRING]
    /\ Unlimited \subseteq Containers /\ Networked \subseteq Containers
    /\ Hang \subseteq Containers
    /\ Workers \in Nat \ {0} /\ Limit \in Nat \ {0}
    /\ MaxUsed \in [Containers -> Nat] /\ MaxEvents \in Nat

VARIABLES
    life,       \* what the daemon knows of each container
    usage,      \* its counter, which starts again with it
    used,       \* history: what it really used so far
    daemon,     \* whether the daemon answers
    events,     \* how often it and the containers changed
    phase,      \* where Collect is
    expired,    \* its context is done
    memKnown,   \* c.hostMemTotal > 0
    active,     \* the running containers of the last listing
    step,       \* per container, what this round still has to do for it
    free,       \* the workers that wait at the channel
    got,        \* per container, the statistics its worker received
    prev,       \* c.prev, zero for a container without an entry
    seen,       \* history: `used' when prev was read
    reported,   \* history: the CPU time published so far
    total,      \* per label, the last cumulative total published
    sent,       \* history: the differences between those totals
    told,       \* per container, what docker.container.up last said
    falseLimit  \* history: this round published a limit nobody set

world == <<life, usage, used, daemon, events>>
readings == <<prev, seen, reported, total, sent>>
pool == <<step, free, got>>
vars == <<world, phase, expired, memKnown, active, pool, readings, told,
          falseLimit>>
-----------------------------------------------------------------------------
Labels == {Service[c] : c \in Containers}
Present == {c \in Containers : life[c] \in {"running", "stopped"}}
Remembered == {c \in Containers : prev[c] > 0}
Waiting == {c \in Containers : step[c] = "todo"}
Busy == {c \in Containers : step[c] \in {"stats", "inspect"}}
WorkersGone == free = 0 /\ Busy = {}
Smaller(m, n) == IF m < n THEN m ELSE n

Reading == [value : Nat, used : Nat]
Zeros == [value |-> 0, used |-> 0]

TypeOK ==
    /\ life \in [Containers -> {"unborn", "running", "stopped", "removed"}]
    /\ usage \in [Containers -> Nat] /\ used \in [Containers -> Nat]
    /\ daemon \in {"up", "silent", "down"} /\ events \in Nat
    /\ phase \in {"idle", "info", "list", "send", "drain"}
    /\ expired \in BOOLEAN /\ memKnown \in BOOLEAN /\ falseLimit \in BOOLEAN
    /\ active \subseteq Containers
    /\ step \in [Containers -> {"none", "todo", "stats", "inspect"}]
    /\ free \in 0..Workers
    /\ got \in [Containers -> Reading]
    /\ prev \in [Containers -> Nat] /\ seen \in [Containers -> Nat]
    /\ reported \in [Containers -> Nat]
    /\ total \in [Labels -> Nat] /\ sent \in [Labels -> Nat]
    /\ told \in [Containers -> {"nothing", "up", "down"}]

Init ==
    /\ life \in [Containers -> {"unborn", "running"}]
    /\ usage = [c \in Containers |-> IF life[c] = "running" THEN 1 ELSE 0]
    /\ used = usage
    /\ daemon = "up" /\ events = 0
    /\ phase = "idle" /\ expired = FALSE /\ memKnown = FALSE
    /\ active = {} /\ free = 0
    /\ step = [c \in Containers |-> "none"]
    /\ got = [c \in Containers |-> Zeros]
    /\ prev = [c \in Containers |-> 0]
    /\ seen = prev /\ reported = prev
    /\ total = [s \in Labels |-> 0]
    /\ sent = total
    /\ told = [c \in Containers |-> "nothing"]
    /\ falseLimit = FALSE
-----------------------------------------------------------------------------
(* The daemon and its containers. *)
Change ==
    /\ events < MaxEvents
    /\ events' = events + 1
    /\ UNCHANGED <<phase, expired, memKnown, active, pool, readings, told,
                   falseLimit>>

Start(c) ==
    /\ life[c] \in {"unborn", "stopped"}
    /\ used[c] < MaxUsed[c]
    /\ life' = [life EXCEPT ![c] = "running"]
    /\ usage' = [usage EXCEPT ![c] = 1]
    /\ used' = [used EXCEPT ![c] = @ + 1]
    /\ Change /\ UNCHANGED daemon

Halt(c) ==
    /\ life[c] = "running"
    /\ life' = [life EXCEPT ![c] = "stopped"]
    /\ Change /\ UNCHANGED <<usage, used, daemon>>

Remove(c) ==
    /\ life[c] = "stopped"
    /\ life' = [life EXCEPT ![c] = "removed"]
    /\ Change /\ UNCHANGED <<usage, used, daemon>>

Use(c) ==
    /\ life[c] = "running"
    /\ used[c] < MaxUsed[c]
    /\ usage' = [usage EXCEPT ![c] = @ + 1]
    /\ used' = [used EXCEPT ![c] = @ + 1]
    /\ UNCHANGED <<life, daemon, events, phase, expired, memKnown, active, pool,
                   readings, told, falseLimit>>

Turn ==
    /\ daemon' \in {"up", "silent", "down"} \ {daemon}
    /\ Change /\ UNCHANGED <<life, usage, used>>
-----------------------------------------------------------------------------
(* The main goroutine. *)
Fails == expired \/ daemon = "down"

(* Mutant: the host's memory is asked for in the first round only. *)
AskOnce == ~memKnown /\ \A c \in Containers : told[c] = "nothing"

(* ensureHostMemTotal asks until it was told. *)
Ask == ~memKnown

(* Collect returns, and its context with it. *)
Over == phase' = "idle" /\ expired' = FALSE /\ falseLimit' = FALSE

Begin ==
    /\ phase = "idle"
    /\ phase' = IF Ask THEN "info" ELSE "list"
    /\ UNCHANGED <<world, expired, memKnown, active, pool, readings, told,
                   falseLimit>>

Expire ==
    /\ phase # "idle" /\ ~expired
    /\ expired' = TRUE
    /\ UNCHANGED <<world, phase, memKnown, active, pool, readings, told, falseLimit>>

Info ==
    /\ phase = "info"
    /\ \/ daemon = "up" /\ memKnown' = TRUE
       \/ Fails /\ UNCHANGED memKnown
    /\ phase' = "list"
    /\ UNCHANGED <<world, expired, active, pool, readings, told, falseLimit>>

(* Mutant: only running containers are asked for, all=0. *)
UpOfRunning(all) ==
    [c \in Containers |->
        IF c \in all /\ life[c] = "running" THEN "up" ELSE told[c]]

(* publishContainerStates reports every container of the listing. *)
Up(all) ==
    [c \in Containers |->
        IF c \notin all THEN told[c]
        ELSE IF life[c] = "running" THEN "up" ELSE "down"]

(* The readings of the containers in S are kept, the others deleted. *)
Keep(S) == prev' = [c \in Containers |-> IF c \in S THEN prev[c] ELSE 0]

(* The listing; without a running container the readings are forgotten and *)
(* the round is over, otherwise the workers start.                         *)
Listed ==
    /\ phase = "list" /\ daemon = "up"
    /\ \E all \in SUBSET Present :
        /\ Cardinality(all) = Smaller(Limit, Cardinality(Present))
        /\ told' = Up(all)
        /\ active' = {c \in all : life[c] = "running"}
        /\ step' = [c \in Containers |-> IF c \in active' THEN "todo" ELSE "none"]
        /\ free' = Smaller(Workers, Cardinality(active'))
        /\ \/ active' = {} /\ Keep({}) /\ Over
           \/ /\ active' # {} /\ phase' = "send"
              /\ UNCHANGED <<prev, expired, falseLimit>>
    /\ UNCHANGED <<world, memKnown, got, seen, reported, total, sent>>

ListFails ==
    /\ phase = "list" /\ Fails
    /\ Over
    /\ UNCHANGED <<world, memKnown, active, pool, readings, told>>

(* The producer hands a container to a worker that waits at the channel.   *)
(* When the context is done as well, select takes either branch.           *)
Send(c) ==
    /\ phase = "send" /\ free > 0
    /\ step[c] = "todo"
    /\ step' = [step EXCEPT ![c] = "stats"]
    /\ free' = free - 1
    /\ UNCHANGED <<world, phase, expired, memKnown, active, got, readings, told,
                   falseLimit>>

CloseChannel ==
    /\ phase = "send"
    /\ Waiting = {} \/ expired
    /\ step' = [c \in Containers |-> IF step[c] = "todo" THEN "none" ELSE step[c]]
    /\ phase' = "drain"
    /\ UNCHANGED <<world, expired, memKnown, active, free, got, readings, told,
                   falseLimit>>

(* Mutant: the round ends with its context, whatever the workers do. *)
ReturnEarly ==
    /\ phase = "drain"
    /\ expired \/ WorkersGone
    /\ Keep(active)
    /\ Over
    /\ UNCHANGED <<world, memKnown, active, pool, seen, reported, total, sent, told>>

(* wg.Wait has returned: forget the containers that were not listed. *)
Return ==
    /\ phase = "drain"
    /\ WorkersGone
    /\ Keep(active)
    /\ Over
    /\ UNCHANGED <<world, memKnown, active, pool, seen, reported, total, sent, told>>
-----------------------------------------------------------------------------
(* A worker: collectContainer. *)
Stats(c) ==
    /\ step[c] = "stats" /\ daemon = "up"
    /\ c \in Present \ Hang
    /\ step' = [step EXCEPT ![c] = "inspect"]
    /\ got' = [got EXCEPT ![c] =
                  IF life[c] = "running"
                  THEN [value |-> usage[c], used |-> used[c]] ELSE Zeros]
    /\ UNCHANGED <<world, phase, expired, memKnown, active, free, readings, told,
                   falseLimit>>

(* The worker is done with c and takes its place at the channel again. *)
Done(c) ==
    /\ step' = [step EXCEPT ![c] = "none"]
    /\ got' = [got EXCEPT ![c] = Zeros]
    /\ free' = free + 1
    /\ UNCHANGED <<world, phase, expired, memKnown, active, told>>

(* Mutant: an error ends the worker, not only this container. *)
StatsFailQuits(c) ==
    /\ step[c] = "stats"
    /\ Fails \/ (daemon = "up" /\ c \notin Present)
    /\ step' = [step EXCEPT ![c] = "none"]
    /\ UNCHANGED <<world, phase, expired, memKnown, active, free, got, readings,
                   told, falseLimit>>

StatsFail(c) ==
    /\ step[c] = "stats"
    /\ Fails \/ (daemon = "up" /\ c \notin Present)
    /\ Done(c)
    /\ UNCHANGED <<readings, falseLimit>>

(* An inspection that fails costs only what it would have told. *)
Inspected(c) == step[c] = "inspect" /\ (daemon = "up" \/ Fails)

NothingToTell(c) ==
    /\ Inspected(c) /\ got[c].value = 0
    /\ Done(c)
    /\ UNCHANGED <<readings, falseLimit>>

(* Mutant: a counter that went backwards is not noticed. *)
Minus(from, to) == to - from

diffUint(from, to) == IF to >= from THEN to - from ELSE 0

(* What the client makes of a cumulative total: the difference to the one  *)
(* before; the first is where it starts from.                              *)
Total(s, v) ==
    /\ total' = [total EXCEPT ![s] = v]
    /\ sent' = [sent EXCEPT ![s] =
                   IF total[s] = 0 THEN @ ELSE @ + diffUint(total[s], v)]

(* Mutant: the first reading stays the one to compare with. *)
ExchangeOnce(c, r) ==
    /\ prev' = [prev EXCEPT ![c] = IF @ = 0 THEN r.value ELSE @]
    /\ seen' = [seen EXCEPT ![c] = r.used]
    /\ reported' = [reported EXCEPT ![c] =
                       IF prev[c] = 0 THEN @ ELSE @ + diffUint(prev[c], r.value)]

(* The reading is exchanged for the one before it; the first publishes no  *)
(* difference.                                                             *)
Exchange(c, r) ==
    /\ prev' = [prev EXCEPT ![c] = r.value]
    /\ seen' = [seen EXCEPT ![c] = r.used]
    /\ reported' = [reported EXCEPT ![c] =
                       IF prev[c] = 0 THEN @ ELSE @ + diffUint(prev[c], r.value)]

isRealMemoryLimit(c) == ~memKnown \/ c \notin Unlimited

Publish(c) ==
    /\ Inspected(c) /\ got[c].value > 0
    /\ IF c \in Networked THEN Total(Service[c], got[c].value)
       ELSE UNCHANGED <<total, sent>>
    /\ Exchange(c, got[c])
    /\ falseLimit' = (falseLimit \/ (c \in Unlimited /\ isRealMemoryLimit(c)))
    /\ Done(c)

(* Mutant: the loop goes on receiving from the closed channel, and takes   *)
(* the empty container it receives for one it has dealt with.              *)
LeaveNot ==
    /\ phase = "drain" /\ free > 0
    /\ UNCHANGED vars

(* The channel is closed and empty: the loop of a worker ends. *)
Leave ==
    /\ phase = "drain" /\ free > 0
    /\ free' = free - 1
    /\ UNCHANGED <<world, phase, expired, memKnown, active, step, got, readings,
                   told, falseLimit>>
-----------------------------------------------------------------------------
Outside ==
    \/ Turn
    \/ \E c \in Containers : Start(c) \/ Halt(c) \/ Remove(c) \/ Use(c)

Worker(c) == Send(c) \/ Stats(c) \/ StatsFail(c) \/ NothingToTell(c) \/ Publish(c)

Collect ==
    \/ Begin \/ Info \/ Listed \/ ListFails \/ CloseChannel \/ Leave \/ Return
    \/ \E c \in Containers : Worker(c)

Next == Outside \/ Collect \/ Expire

(* Goroutines that can go on do, the timer of the context fires, and a     *)
(* daemon that is up answers in time now and then.                         *)
Fairness ==
    /\ WF_vars(Collect) /\ WF_vars(Expire)
    /\ SF_vars(Info /\ memKnown') /\ SF_vars(Listed)

Spec == Init /\ [][Next]_vars /\ Fairness
-----------------------------------------------------------------------------
(* The CPU time published for a container never exceeds what it used:      *)
(* rounds cut short, restarts and workers that finish in any order count   *)
(* nothing twice and make nothing up.                                      *)
NothingInvented == \A c \in Containers : reported[c] <= used[c]

(* Between rounds no worker is left that could touch the readings, and     *)
(* none is kept for a container that the last listing did not show         *)
(* running.                                                                *)
RoundIsWhole ==
    phase \in {"idle", "info", "list"} =>
        /\ WorkersGone
        /\ Remembered \subseteq active

(* Containers whose statistics never come hold up a worker each until the  *)
(* deadline, and nobody else: when nothing but them is left to wait for,   *)
(* and a worker was left over, every other container was dealt with.       *)
HungCostsItself ==
    LET Stuck == {c \in Hang \cap Present : step[c] = "stats"} IN
    /\ phase \in {"send", "drain"} /\ daemon = "up" /\ ~expired
    /\ free = 0 /\ Busy = Stuck
    /\ Cardinality(Stuck) < Smaller(Workers, Cardinality(active))
    => \A c \in active \ Hang : step[c] = "none"

(* Whatever the daemon does, and also when it says nothing at all, a round *)
(* comes to its end.                                                       *)
RoundsEnd == phase # "idle" ~> phase = "idle"

(* A container that crashed and stays down is reported as down, and goes   *)
(* on being reported so, even if the statistics of others never come; the  *)
(* listing must have room for all of them (Limit).                         *)
CrashReported ==
    \A c \in Containers :
        <>[](daemon = "up") /\ <>[](life[c] = "stopped") => <>[](told[c] = "down")

(* Once the daemon answers, whatever the first attempts came to, no limit  *)
(* is reported any more for a container that has none.                     *)
FalseLimitsCease == <>[](daemon = "up") => <>[]~falseLimit

(* Only what moved is counted: the network traffic published under a label *)
(* is no more than what its containers had.                                *)
CountsTraffic ==
    \A s \in Labels :
        sent[s] <= SumFunctionOnSet(used, {c \in Containers : Service[c] = s})
=============================================================================
