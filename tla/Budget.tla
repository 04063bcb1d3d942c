------------------------------- MODULE Budget -------------------------------
(***************************************************************************)
(* The two collectors an operator fills with jobs of his own: commands     *)
(* (src/internal/collectors/exec/collector.go) and Prometheus targets      *)
(* (src/internal/collectors/prom/collector.go).  Both run their jobs one   *)
(* after another, each with a timeout of its own, under one deadline that  *)
(* they ask the runner for and that the runner caps (collectorTimeout).    *)
(*                                                                         *)
(* A behaviour is about one configuration, `setup', and one behaviour of   *)
(* its jobs, `manner'.  Time passes only while a job runs.                 *)
(***************************************************************************)
EXTENDS Integers, Sequences, FiniteSets

CONSTANTS
    Setups,             \* configurations: [kind, every, timeout]
    PromTimeout,        \* defaultTimeout of prom/collector.go
    ExecTimeout,        \* defaultTimeout of exec/collector.go
    CollectTimeout,     \* what the runner grants unasked
    MaxCollectTimeout,  \* what it grants at most
    Delays              \* how long a round may wait for its slot

(* setup.timeout[n] is what the operator gave command n, 0 for nothing;    *)
(* targets have no timeout of their own.                                   *)
ASSUME SetupsAssumption ==
    \A s \in Setups :
        /\ s.kind \in {"exec", "prom"}
        /\ s.every \in Nat \ {0}
        /\ s.timeout \in Seq(Nat)
        /\ s.kind = "prom" => \A n \in DOMAIN s.timeout : s.timeout[n] = 0

ASSUME TimesAssumption ==
    /\ PromTimeout \in Nat \ {0}
    /\ ExecTimeout \in Nat \ {0}
    /\ CollectTimeout \in Nat \ {0}
    /\ MaxCollectTimeout \in Nat \ {0}
    /\ 0 \in Delays
    /\ Delays \subseteq Nat

VARIABLES
    setup,      \* the configuration
    manner,     \* how each job behaves
    pc,         \* what Collect is doing
    pos,        \* index of the job it has reached
    start,      \* what was left of the deadline when Collect was called
    left,       \* what is left of it now
    op,         \* what is left of the timeout of the job that runs
    whole,      \* ... which was all of its own when the job began
    fate,       \* what became of each job in this round
    overran,    \* Collect has outlived its deadline
    cancelled   \* the agent is shutting down

vars == <<setup, manner, pc, pos, start, left, op, whole, fate, overran,
          cancelled>>
given == <<setup, manner>>
-----------------------------------------------------------------------------
Smaller(a, b) == IF a < b THEN a ELSE b
Larger(a, b) == IF a > b THEN a ELSE b

Jobs == DOMAIN setup.timeout
Here == pos \in Jobs
Lingers(n) == manner[n] = "lingering"

(* A quick job answers at once and a slow one when it likes; a hung one    *)
(* has to be stopped; a lingering one is stopped, but has left a child     *)
(* behind that keeps its output open, and cmd.Run waits for the child.     *)
MannersOf(kind) ==
    {"quick", "slow", "hung"} \cup IF kind = "exec" THEN {"lingering"} ELSE {}

(* done: came to an end by itself; expired: had all of its own timeout;    *)
(* cut: stopped by the deadline of the round before that; unseen: not      *)
(* started (yet).                                                          *)
Fates == {"unseen", "done", "expired", "cut"}

(* Job n's own timeout: the operator's, or the default of its kind.        *)
Own(n) ==
    IF setup.timeout[n] > 0 THEN setup.timeout[n]
    ELSE IF setup.kind = "exec" THEN ExecTimeout ELSE PromTimeout

(* The costs of the first n jobs together. *)
Sums(cost) ==
    LET total[n \in 0 .. Len(cost)] ==
            IF n = 0 THEN 0 ELSE total[n - 1] + cost[n]
    IN  total

(* The own timeouts of the first n jobs. *)
UpTo == Sums([n \in Jobs |-> Own(n)])

(* Mutant: NewCollector takes the largest of the timeouts, not their sum.  *)
AskedForLargest ==
    LET largest[n \in 0 .. Len(setup.timeout)] ==
            IF n = 0 THEN ExecTimeout ELSE Larger(largest[n - 1], Own(n))
    IN  largest[Len(setup.timeout)]

(* Timeout() of the two collectors. *)
Asked ==
    IF setup.kind = "exec"
    THEN Larger(ExecTimeout, UpTo[Len(setup.timeout)])
    ELSE Larger(1, Len(setup.timeout)) * PromTimeout

(* collectorTimeout *)
Granted ==
    Smaller(Smaller(setup.every, MaxCollectTimeout),
            Larger(CollectTimeout, Asked))

TypeOK ==
    /\ setup \in Setups
    /\ manner \in [Jobs -> MannersOf(setup.kind)]
    /\ pc \in {"idle", "loop", "running"}
    /\ pos \in 1 .. Len(setup.timeout) + 1
    /\ start \in 1 .. Granted
    /\ left \in 0 .. start
    /\ op \in 0 .. left
    /\ whole \in BOOLEAN
    /\ fate \in [Jobs -> Fates]
    /\ overran \in BOOLEAN
    /\ cancelled \in BOOLEAN

(* What a round may find left of its deadline once it has its slot. *)
Starts == {Granted - d : d \in {d \in Delays : d < Granted}}

Init ==
    /\ setup \in Setups
    /\ manner \in [Jobs -> MannersOf(setup.kind)]
    /\ pc = "loop"
    /\ pos = 1
    /\ start \in Starts
    /\ left = start
    /\ op = 0
    /\ whole = FALSE
    /\ fate = [n \in Jobs |-> "unseen"]
    /\ overran = FALSE
    /\ cancelled = FALSE
-----------------------------------------------------------------------------
(* The runner calls Collect again. *)
Round ==
    /\ pc = "idle"
    /\ ~cancelled
    /\ start' \in Starts
    /\ left' = start'
    /\ pos' = 1
    /\ fate' = [n \in Jobs |-> "unseen"]
    /\ pc' = "loop"
    /\ UNCHANGED <<given, op, whole, overran, cancelled>>

(* The end of the list, or of the deadline. *)
Return ==
    /\ pc = "loop"
    /\ ~Here \/ left = 0
    /\ pc' = "idle"
    /\ UNCHANGED <<given, pos, start, left, op, whole, fate, overran,
                   cancelled>>

Start(limit) ==
    /\ pc = "loop"
    /\ Here
    /\ left > 0
    /\ op' = limit
    /\ whole' = (limit = Own(pos))
    /\ pc' = "running"
    /\ UNCHANGED <<given, pos, start, left, fate, overran, cancelled>>

(* Mutants: the job has the deadline of the round only, or its own only.   *)
BeginUnbounded == Start(left)
BeginDetached == Start(Own(pos))

(* runCommand and scrape: a context with the job's own timeout, inside     *)
(* that of the round.                                                      *)
Begin == Start(Smaller(Own(pos), left))

(* Mutant: the first error ends the round. *)
SettleOrGiveUp(outcome) ==
    /\ fate' = [fate EXCEPT ![pos] = outcome]
    /\ pos' = pos + 1
    /\ op' = 0
    /\ pc' = IF outcome = "done" THEN "loop" ELSE "idle"
    /\ UNCHANGED <<given, start, left, whole, overran, cancelled>>

(* On to the next job, whatever became of this one: an error is logged.    *)
Settle(outcome) ==
    /\ fate' = [fate EXCEPT ![pos] = outcome]
    /\ pos' = pos + 1
    /\ op' = 0
    /\ pc' = "loop"
    /\ UNCHANGED <<given, start, left, whole, overran, cancelled>>

Finish ==
    /\ pc = "running"
    /\ manner[pos] \in {"quick", "slow"}
    /\ Settle("done")

Stopping == Settle(IF whole /\ ~cancelled THEN "expired" ELSE "cut")

(* The job's context is done. *)
Stop ==
    /\ pc = "running"
    /\ op = 0
    /\ manner[pos] \in {"slow", "hung"}
    /\ Stopping

(* The child lets go at last, if ever. *)
LetGo ==
    /\ pc = "running"
    /\ op = 0
    /\ Lingers(pos)
    /\ Stopping

(* Mutant: the contexts can be cancelled, but have no deadline. *)
ElapseUndated ==
    /\ pc = "running"
    /\ manner[pos] # "quick"
    /\ op > 0 \/ Lingers(pos)
    /\ left' = Larger(0, left - 1)
    /\ overran' = (overran \/ left = 0)
    /\ UNCHANGED <<given, pc, pos, start, op, whole, fate, cancelled>>

(* Time passes while a job runs; for one that lingers also when its time   *)
(* is up.                                                                  *)
Elapse ==
    /\ pc = "running"
    /\ manner[pos] # "quick"
    /\ op > 0 \/ Lingers(pos)
    /\ left' = Larger(0, left - 1)
    /\ op' = Larger(0, op - 1)
    /\ overran' = (overran \/ left = 0)
    /\ UNCHANGED <<given, pc, pos, start, whole, fate, cancelled>>

Cancel ==
    /\ ~cancelled
    /\ cancelled' = TRUE
    /\ left' = 0
    /\ op' = 0
    /\ UNCHANGED <<given, pc, pos, start, whole, fate, overran>>

Stopped == pc = "idle" /\ cancelled /\ UNCHANGED vars

Collect == Round \/ Return \/ Begin \/ Finish \/ Stop \/ Elapse
Next == Collect \/ LetGo \/ Cancel \/ Stopped

(* The goroutine runs, time passes and ticks come; a child need not let go *)
(* and nobody has to stop the agent.                                       *)
Spec == Init /\ [][Next]_vars /\ WF_vars(Collect)
-----------------------------------------------------------------------------
Lost(n) == fate[n] = "cut" \/ (fate[n] = "unseen" /\ pc = "idle")
NoneLingers == \A n \in Jobs : ~Lingers(n)

(* No job takes more than its own timeout from those behind it: a job is   *)
(* cut short or left out only if the round was too short for it and those  *)
(* before it, or one of those lingered (exec/collector.go:85-91,           *)
(* prom/collector.go:94-97).                                               *)
OwnShare ==
    \A n \in Jobs :
        Lost(n) /\ ~cancelled =>
            \/ UpTo[n] > start
            \/ \E m \in 1 .. n - 1 : Lingers(m)

(* When the sum of the timeouts fits the interval and the runner's limit,  *)
(* and there was no waiting for a slot, every job has its own time         *)
(* (exec/collector.go:48-51, the test TestCollectorTimeoutCoversEvery-     *)
(* Command, prom/collector.go:70-73).                                      *)
SumIsEnough ==
    /\ UpTo[Len(setup.timeout)] <= Smaller(setup.every, MaxCollectTimeout)
    /\ start = Granted
    /\ NoneLingers
    /\ ~cancelled
    => \A n \in Jobs : ~Lost(n)

(* The own timeouts of those of the first n jobs that do not answer.       *)
SilentUpTo == Sums([n \in Jobs |-> IF manner[n] = "quick" THEN 0 ELSE Own(n)])

(* A job that answers at once is never left out while those ahead that do  *)
(* not answer leave some of the deadline, even when they all fail and the  *)
(* sum does not fit (exec/collector.go:78-80, prom/collector.go:86-88).    *)
QuickNotStarved ==
    \A n \in Jobs :
        /\ pc = "idle" /\ ~cancelled
        /\ manner[n] = "quick"
        /\ SilentUpTo[n] < start
        /\ \A m \in 1 .. n - 1 : ~Lingers(m)
        => fate[n] = "done"

(* Without a lingering child no round outlives its deadline, and that lies *)
(* within the interval: what Runner assumes of a collector that is not     *)
(* deaf (runner.go:140-142).                                               *)
OnTime == NoneLingers => ~overran /\ start <= setup.every

(* Without a lingering child every round comes to an end, so the slot is   *)
(* given back (settings.go:8-9).                                           *)
RoundsEnd == NoneLingers => []<>(pc = "idle")

OneHangs ==
    \E h \in Jobs :
        \A n \in Jobs : manner[n] = IF n = h THEN "hung" ELSE "quick"
Positions == UNION {DOMAIN s.timeout : s \in Setups}

(* "one endpoint that hangs cannot starve the others"                      *)
(* (cmd/prostometrics-agent/README.md:297, prom/collector.go:94-95): the   *)
(* others are scraped again and again.                                     *)
OneHangsOthersDoNot ==
    setup.kind = "prom" /\ OneHangs /\ [](~cancelled) =>
        \A n \in Positions :
            n \in Jobs /\ manner[n] = "quick" => []<>(fate[n] = "done")
=============================================================================
