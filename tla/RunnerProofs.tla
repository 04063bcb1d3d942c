---------------------------- MODULE RunnerProofs ----------------------------
(***************************************************************************)
(* Proofs about Runner for every set of collectors and every timing.       *)
(*   SlotsInv   slots and types: TypeOK, SlotsAccounted                    *)
(*   LifeInv    the phases of a run: NoUseAfterClose, PromiseKept          *)
(*   ClockInv   tickers against deadlines: NoTickMissed                    *)
(*   TurnInv    slots against deadlines: NoTurnSkipped                     *)
(***************************************************************************)
EXTENDS Runner, FiniteSetTheorems, TLAPS

(* No goroutine exists before the probes are through. *)
NotStarted == phase = "probing" => \A c \in Collectors : pc[c] = "off"

(* Types alone do not survive Finish: that sem stays above 0 needs the     *)
(* accounting of slots, which survives Spawn because nobody holds one.     *)
SlotsInv == TypeOK /\ SlotsAccounted /\ NotStarted

(* Goroutines exist only while the agent runs, and only for collectors it  *)
(* took on; closing comes after them.                                      *)
LifeInv ==
    /\ phase \in {"closing", "flushing", "exited"} =>
           \A c \in Collectors : pc[c] \in {"off", "done"}
    /\ phase # "probing" => \A c \in Collectors : pc[c] # "off" => c \in active
    /\ closed # {} => phase \in {"closing", "flushing", "exited"}

(* Between two ticks the deadline of a collection never lies behind the    *)
(* next tick, so a tick that arrives finds the collection at its end.      *)
OnTime(c) ==
    /\ pc[c] \in {"off", "start"} => ticker[c] = 0
    /\ ticker[c] = 0 => ~tick[c]
    /\ c \notin Deaf /\ Every[c] > 0 =>
          /\ c \notin missed
          /\ tick[c] /\ pc[c] # "done" => ticker[c] = Interval(c)
          /\ pc[c] \in {"waiting", "collecting"} /\ ticker[c] > 0 =>
                IF tick[c] THEN left[c] = 0 ELSE left[c] <= ticker[c]

ClockInv == \A c \in Collectors : OnTime(c)

(* While slots suffice, time never passes for a collector that waits, so   *)
(* its deadline stays ahead of it.                                         *)
TurnInv ==
    \A c \in Collectors :
        Cardinality((Slow \cup Deaf) \ {c}) < MaxConcurrency =>
            /\ c \notin skipped
            /\ pc[c] = "waiting" => left[c] > 0
-----------------------------------------------------------------------------
LEMMA CollectorsFinite == IsFiniteSet(Collectors)
  BY SetsAssumption, FS_Union DEF Collectors

LEMMA BusyFinite == IsFiniteSet(Busy) /\ Cardinality(Busy) \in Nat
  <1>1. Busy \in SUBSET Collectors
    BY DEF Busy
  <1>2. IsFiniteSet(Busy)
    BY <1>1, CollectorsFinite, FS_Subset
  <1> QED
    BY <1>2, FS_CardinalityType

(* An interval is at least one unit of time, and so is what collectorTimeout *)
(* grants; a collector with an interval of its own is granted no more.      *)
LEMMA TimeBounds ==
  ASSUME NEW c \in Collectors
  PROVE  /\ Interval(c) \in Nat \ {0}
         /\ Granted(c) \in Nat \ {0}
         /\ Every[c] > 0 => Granted(c) <= Interval(c)
  BY TimeAssumption DEF Interval, Granted, Smaller, Larger

(* A collector that starts to collect is one more that is busy. *)
LEMMA BusyGrows ==
  ASSUME NEW c \in Collectors, pc \in [Collectors -> Places],
         pc[c] # "collecting", pc' = [pc EXCEPT ![c] = "collecting"]
  PROVE  Busy' = Busy \cup {c} /\ Cardinality(Busy') = Cardinality(Busy) + 1
  <1>1. Busy' = Busy \cup {c} /\ c \notin Busy
    BY DEF Busy
  <1>2. Cardinality(Busy \cup {c}) = Cardinality(Busy) + 1
    BY <1>1, BusyFinite, FS_AddElement
  <1> QED
    BY <1>1, <1>2

(* A collector that leaves "collecting" is one less that is busy. *)
LEMMA BusyShrinks ==
  ASSUME NEW c \in Collectors, pc \in [Collectors -> Places],
         pc[c] = "collecting", pc' = [pc EXCEPT ![c] = "select"]
  PROVE  /\ Busy' = Busy \ {c}
         /\ Cardinality(Busy') = Cardinality(Busy) - 1
         /\ Cardinality(Busy) > 0
  <1>1. Busy' = Busy \ {c} /\ c \in Busy
    BY DEF Busy
  <1>2. Cardinality(Busy) # 0
    BY <1>1, BusyFinite, FS_EmptySet
  <1>3. Cardinality(Busy \ {c}) = Cardinality(Busy) - 1
    BY <1>1, BusyFinite, FS_RemoveElement
  <1> QED
    BY <1>1, <1>2, <1>3, BusyFinite

(* Every other step of a goroutine leaves the busy collectors as they are. *)
LEMMA BusyStays ==
  ASSUME NEW c \in Collectors, pc \in [Collectors -> Places], NEW place,
         pc[c] # "collecting", place # "collecting",
         pc' = [pc EXCEPT ![c] = place]
  PROVE  Busy' = Busy
  BY DEF Busy
-----------------------------------------------------------------------------
LEMMA SlotsInit == Init => SlotsInv
  <1> SUFFICES ASSUME Init PROVE SlotsInv
    OBVIOUS
  <1>a. Core \subseteq Collectors
    BY DEF Collectors
  <1>1. TypeOK
    <2>1. 0 \in 0..MaxConcurrency
      BY SlotsAssumption
    <2>2. tick \in [Collectors -> BOOLEAN]
      BY Zenon DEF Init
    <2>3. pc \in [Collectors -> Places]
      BY DEF Init, Places
    <2> QED
      BY <1>a, <2>1, <2>2, <2>3 DEF Init, TypeOK, Phases
  <1>2. Busy = {}
    BY DEF Init, Busy
  <1>3. SlotsAccounted
    BY <1>2, FS_EmptySet DEF Init, SlotsAccounted
  <1>4. NotStarted
    BY DEF Init, NotStarted
  <1> QED
    BY <1>1, <1>3, <1>4 DEF SlotsInv

LEMMA SlotsStep == SlotsInv /\ [Next]_vars => SlotsInv'
  <1> SUFFICES ASSUME SlotsInv, [Next]_vars PROVE SlotsInv'
    OBVIOUS
  <1> USE SlotsAssumption, TimeAssumption DEF timers, history
  <1>types. TypeOK /\ SlotsAccounted /\ NotStarted
    BY DEF SlotsInv
  <1>1. ASSUME NEW p \in Probes, Probe(p) PROVE SlotsInv'
    <2>1. p \in Collectors
      BY DEF Collectors
    <2>2. TypeOK'
      BY <1>1, <2>1, <1>types DEF Probe, TypeOK
    <2>3. Busy' = Busy
      BY <1>1 DEF Probe, Busy
    <2> QED
      BY <1>1, <1>types, <2>2, <2>3 DEF Probe, SlotsInv, SlotsAccounted, NotStarted
  <1>2. CASE Spawn
    <2>1. TypeOK'
      BY <1>2, <1>types DEF Spawn, TypeOK, Phases, Places
    <2>2. SlotsAccounted'
      <3>1. Busy = {}
        BY <1>2, <1>types DEF Spawn, NotStarted, Busy
      <3>2. Busy' = {}
        BY <1>2 DEF Spawn, Busy
      <3> QED
        BY <1>2, <1>types, <3>1, <3>2 DEF Spawn, SlotsAccounted
    <2> QED
      BY <1>2, <2>1, <2>2 DEF Spawn, SlotsInv, NotStarted
  <1>3. ASSUME NEW c \in Collectors, First(c) PROVE SlotsInv'
    <2>1. TypeOK'
      BY <1>3, <1>types, TimeBounds DEF First, Enter, Leave, TypeOK, Places
    <2>2. Busy' = Busy
      BY <1>3, <1>types DEF First, Enter, Leave, TypeOK, Busy
    <2> QED
      BY <1>3, <1>types, <2>1, <2>2 DEF First, SlotsInv, SlotsAccounted, NotStarted
  <1>4. ASSUME NEW c \in Collectors, Receive(c) PROVE SlotsInv'
    <2>1. TypeOK'
      BY <1>4, <1>types, TimeBounds DEF Receive, Enter, TypeOK, Places
    <2>2. Busy' = Busy
      BY <1>4, <1>types DEF Receive, Enter, TypeOK, Busy
    <2> QED
      BY <1>4, <1>types, <2>1, <2>2 DEF Receive, SlotsInv, SlotsAccounted, NotStarted
  <1>5. ASSUME NEW c \in Collectors, Stop(c) PROVE SlotsInv'
    <2>1. TypeOK'
      BY <1>5, <1>types DEF Stop, TypeOK, Places
    <2>2. Busy' = Busy
      BY <1>5, <1>types DEF Stop, TypeOK, Busy
    <2> QED
      BY <1>5, <1>types, <2>1, <2>2 DEF Stop, SlotsInv, SlotsAccounted, NotStarted
  <1>6. ASSUME NEW c \in Collectors, Acquire(c) PROVE SlotsInv'
    <2>1. TypeOK'
      BY <1>6, <1>types DEF Acquire, TypeOK, Places
    <2>2. Cardinality(Busy') = Cardinality(Busy) + 1
      BY <1>6, <1>types, BusyGrows DEF Acquire, TypeOK
    <2> QED
      BY <1>6, <1>types, <2>1, <2>2 DEF Acquire, SlotsInv, SlotsAccounted, NotStarted
  <1>7. ASSUME NEW c \in Collectors, GiveUp(c) PROVE SlotsInv'
    <2>1. TypeOK'
      BY <1>7, <1>types, TimeBounds DEF GiveUp, Leave, TypeOK, Places
    <2>2. Busy' = Busy
      BY <1>7, <1>types DEF GiveUp, Leave, TypeOK, Busy
    <2> QED
      BY <1>7, <1>types, <2>1, <2>2 DEF GiveUp, SlotsInv, SlotsAccounted, NotStarted
  <1>8. ASSUME NEW c \in Collectors, Finish(c) PROVE SlotsInv'
    <2>1. Cardinality(Busy') = Cardinality(Busy) - 1 /\ Cardinality(Busy) > 0
      BY <1>8, <1>types, BusyShrinks DEF Finish, Leave, TypeOK
    <2>2. sem' \in 0..MaxConcurrency
      BY <1>8, <1>types, <2>1 DEF Finish, TypeOK, SlotsAccounted
    <2>3. TypeOK'
      BY <1>8, <1>types, <2>2, TimeBounds DEF Finish, Leave, TypeOK, Places
    <2> QED
      BY <1>8, <1>types, <2>1, <2>3 DEF Finish, SlotsInv, SlotsAccounted, NotStarted
  <1>9. ASSUME NEW c \in Collectors, Close(c) PROVE SlotsInv'
    BY <1>9, <1>types DEF Close, SlotsInv, TypeOK, SlotsAccounted, NotStarted, Busy
  <1>10. CASE Cancel \/ Drained \/ Return \/ Flush \/ Exited \/ UNCHANGED vars
    <2>1. TypeOK'
      BY <1>10, <1>types DEF Cancel, Drained, Return, Flush, Exited, vars, TypeOK, Phases
    <2>2. Busy' = Busy /\ sem' = sem
      BY <1>10 DEF Cancel, Drained, Return, Flush, Exited, vars, Busy
    <2> QED
      BY <1>10, <1>types, <2>1, <2>2
      DEF Cancel, Drained, Return, Flush, Exited, vars, SlotsInv, SlotsAccounted, NotStarted
  <1>11. CASE Elapse
    <2>1. ticker' \in [Collectors -> Nat]
      BY <1>11, <1>types, TimeBounds DEF Elapse, Ticking, TypeOK
    <2>2. left' \in [Collectors -> Nat]
      BY <1>11, <1>types DEF Elapse, TypeOK
    <2>3. TypeOK'
      BY <1>11, <1>types, <2>1, <2>2 DEF Elapse, Fires, TypeOK
    <2>4. Busy' = Busy
      BY <1>11 DEF Elapse, Busy
    <2> QED
      BY <1>11, <1>types, <2>3, <2>4 DEF Elapse, SlotsInv, SlotsAccounted, NotStarted
  <1> QED
    BY <1>1, <1>2, <1>3, <1>4, <1>5, <1>6, <1>7, <1>8, <1>9, <1>10, <1>11
    DEF Next, Step

(* Every variable keeps its type, the slot counter its range included. *)
THEOREM SlotsAlways == Spec => []SlotsInv
  BY SlotsInit, SlotsStep, PTL DEF Spec

(* Every variable of the scheduler keeps its type (runner.go:74-138). *)
THEOREM TypesHold == Spec => []TypeOK
  BY SlotsAlways, PTL DEF SlotsInv

(* The slot channel counts the collections that run, in every state        *)
(* (runner.go:120-125).                                                    *)
THEOREM SlotsHold == Spec => []SlotsAccounted
  BY SlotsAlways, PTL DEF SlotsInv
-----------------------------------------------------------------------------
LEMMA LifeInit == Init => LifeInv
  BY DEF Init, LifeInv

LEMMA LifeStep == SlotsInv /\ LifeInv /\ [Next]_vars => LifeInv'
  <1> SUFFICES ASSUME SlotsInv, LifeInv, [Next]_vars PROVE LifeInv'
    OBVIOUS
  <1>pc. pc \in [Collectors -> Places] /\ phase \in Phases /\ NotStarted
    BY DEF SlotsInv, TypeOK
  <1>1. ASSUME NEW p \in Probes, Probe(p) PROVE LifeInv'
    BY <1>1 DEF Probe, LifeInv
  <1>2. CASE Spawn
    BY <1>2 DEF Spawn, LifeInv
  <1>3. ASSUME NEW c \in Collectors, Step(c) \/ Finish(c) PROVE LifeInv'
    <2>1. pc[c] # "off" /\ pc[c] # "done" /\ phase = "running"
      BY <1>3, <1>pc DEF Step, First, Receive, Stop, Acquire, GiveUp, Finish,
                         LifeInv, NotStarted, Phases
    <2>2. /\ phase' = phase /\ active' = active /\ closed' = closed
          /\ \E place \in Places \ {"off"} : pc' = [pc EXCEPT ![c] = place]
      BY <1>3 DEF Step, First, Receive, Stop, Acquire, GiveUp, Finish,
                  Enter, Leave, Places
    <2> QED
      BY <1>pc, <2>1, <2>2 DEF LifeInv
  <1>4. ASSUME NEW c \in Collectors, Close(c) PROVE LifeInv'
    BY <1>4 DEF Close, LifeInv
  <1>5. CASE Drained
    BY <1>5 DEF Drained, LifeInv
  <1>6. CASE Cancel \/ Return \/ Flush \/ Elapse \/ Exited \/ UNCHANGED vars
    BY <1>6 DEF Cancel, Return, Flush, Elapse, Exited, vars, LifeInv
  <1> QED
    BY <1>1, <1>2, <1>3, <1>4, <1>5, <1>6 DEF Next

(* Goroutines belong to active collectors, all of them are over when the   *)
(* agent starts to close, and nothing is closed before (runner.go:74-90).  *)
THEOREM LifeAlways == Spec => [](SlotsInv /\ LifeInv)
  <1>1. Init => SlotsInv /\ LifeInv
    BY SlotsInit, LifeInit
  <1>2. SlotsInv /\ LifeInv /\ [Next]_vars => (SlotsInv /\ LifeInv)'
    BY SlotsStep, LifeStep
  <1> QED
    BY <1>1, <1>2, PTL DEF Spec

(* After the first Close no goroutine is left that could use a collector   *)
(* (runner.go:87-89).                                                      *)
THEOREM NoUseAfterCloseHolds == Spec => []NoUseAfterClose
  <1>1. LifeInv => NoUseAfterClose
    BY DEF LifeInv, NoUseAfterClose
  <1> QED
    BY <1>1, LifeAlways, PTL
-----------------------------------------------------------------------------
LEMMA ClockInit == Init => ClockInv
  BY DEF Init, ClockInv, OnTime

(* A tick that waits keeps time from passing: its receiver is at the       *)
(* select, or in a collection whose deadline is due.                       *)
LEMMA PendingTickIsUrgent ==
  ASSUME TypeOK, ClockInv, NEW c \in Collectors \ Deaf,
         Every[c] > 0, tick[c], pc[c] # "done"
  PROVE  Ready(c)
  BY DEF TypeOK, Places, ClockInv, OnTime, Ready, CtxDone

LEMMA ClockStep == SlotsInv /\ ClockInv /\ [Next]_vars => ClockInv'
  <1> SUFFICES ASSUME SlotsInv, ClockInv, [Next]_vars,
                      NEW d \in Collectors
               PROVE  OnTime(d)'
    BY DEF ClockInv
  <1> USE DEF timers, history
  <1>types. TypeOK /\ NotStarted
    BY DEF SlotsInv
  <1>1. ASSUME NEW p \in Probes, Probe(p) PROVE OnTime(d)'
    BY <1>1 DEF Probe, ClockInv, OnTime
  <1>2. CASE Spawn
    BY <1>2, <1>types DEF Spawn, NotStarted, ClockInv, OnTime
  <1>3. ASSUME NEW c \in Collectors, First(c) PROVE OnTime(d)'
    BY <1>3, <1>types, TimeBounds DEF First, Enter, Leave, TypeOK, ClockInv, OnTime
  <1>4. ASSUME NEW c \in Collectors, Receive(c) PROVE OnTime(d)'
    BY <1>4, <1>types, TimeBounds DEF Receive, Enter, TypeOK, ClockInv, OnTime
  <1>5. ASSUME NEW c \in Collectors, Stop(c) \/ Acquire(c) PROVE OnTime(d)'
    BY <1>5, <1>types DEF Stop, Acquire, TypeOK, ClockInv, OnTime
  <1>6. ASSUME NEW c \in Collectors, GiveUp(c) \/ Finish(c) PROVE OnTime(d)'
    BY <1>6, <1>types, TimeBounds DEF GiveUp, Finish, Leave, TypeOK, ClockInv, OnTime
  <1>7. ASSUME NEW c \in Collectors, Close(c) PROVE OnTime(d)'
    BY <1>7 DEF Close, ClockInv, OnTime
  <1>8. CASE Cancel \/ Drained \/ Return \/ Flush \/ Exited \/ UNCHANGED vars
    BY <1>8 DEF Cancel, Drained, Return, Flush, Exited, vars, ClockInv, OnTime
  <1>9. CASE Elapse
    <2>1. Interval(d) \in Nat \ {0}
      BY TimeBounds
    <2>2. /\ ~Ready(d)
          /\ ticker'[d] = IF Fires(d) THEN Interval(d)
                           ELSE IF Ticking(d) THEN ticker[d] - 1 ELSE ticker[d]
          /\ tick'[d] = (tick[d] \/ Fires(d))
          /\ left'[d] = IF pc[d] \in {"waiting", "collecting"} /\ left[d] > 0
                         THEN left[d] - 1 ELSE left[d]
          /\ pc' = pc
      BY <1>9 DEF Elapse
    <2>3. d \in missed' => d \in missed \/ (Fires(d) /\ tick[d])
      BY <1>9 DEF Elapse
    <2>4. OnTime(d) /\ ticker[d] \in Nat /\ left[d] \in Nat
      BY <1>types DEF TypeOK, ClockInv
    <2>5. d \notin Deaf /\ Every[d] > 0 /\ tick[d] => pc[d] = "done"
      BY <1>types, <2>2, PendingTickIsUrgent
    <2>6. CASE Fires(d)
      <3>1. /\ ticker[d] = 1 /\ pc[d] # "done" /\ pc'[d] = pc[d]
            /\ ticker'[d] = Interval(d) /\ tick'[d]
        BY <2>2, <2>6 DEF Fires
      <3>2. pc[d] \in {"waiting", "collecting"} /\ left[d] <= 1 => left'[d] = 0
        BY <2>2, <2>4
      <3> QED
        BY <2>1, <2>3, <2>4, <2>5, <3>1, <3>2 DEF OnTime
    <2>7. CASE ~Fires(d)
      <3>1. /\ ticker'[d] = IF Ticking(d) THEN ticker[d] - 1 ELSE ticker[d]
            /\ tick'[d] <=> tick[d]
            /\ pc'[d] = pc[d]
            /\ d \in missed' => d \in missed
        BY <2>2, <2>3, <2>7
      <3>2. ticker[d] = 1 => pc[d] = "done"
        BY <2>7 DEF Fires
      <3> QED
        BY <2>1, <2>2, <2>4, <2>5, <3>1, <3>2 DEF OnTime, Ticking
    <2> QED
      BY <2>6, <2>7
  <1> QED
    BY <1>1, <1>2, <1>3, <1>4, <1>5, <1>6, <1>7, <1>8, <1>9 DEF Next, Step

(* A collector that heeds its context never misses a tick of its own       *)
(* interval, whatever it asks for and however long it waits for a slot     *)
(* (runner.go:103-113, 140-157).                                           *)
THEOREM NoTickMissedHolds == Spec => []NoTickMissed
  <1>1. ClockInv => NoTickMissed
    BY DEF ClockInv, OnTime, NoTickMissed
  <1>2. Init => SlotsInv /\ ClockInv
    BY SlotsInit, ClockInit
  <1>3. SlotsInv /\ ClockInv /\ [Next]_vars => (SlotsInv /\ ClockInv)'
    BY SlotsStep, ClockStep
  <1> QED
    BY <1>1, <1>2, <1>3, PTL DEF Spec
-----------------------------------------------------------------------------
LEMMA TurnInit == Init => TurnInv
  BY DEF Init, TurnInv

(* If fewer than MaxConcurrency others take time, a slot is free whenever  *)
(* time passes: whoever could hold it is one of them.                      *)
LEMMA SlotFree ==
  ASSUME TypeOK, SlotsAccounted, NEW d \in Collectors, pc[d] = "waiting",
         Cardinality((Slow \cup Deaf) \ {d}) < MaxConcurrency,
         \A c \in Collectors : ~Ready(c)
  PROVE  FALSE
  <1> DEFINE Others == (Slow \cup Deaf) \ {d}
  <1>1. Busy \subseteq Others
    BY DEF Busy, Ready
  <1>2. IsFiniteSet(Others)
    <2>1. Others \in SUBSET Collectors
      BY SetsAssumption
    <2> QED
      BY <2>1, CollectorsFinite, FS_Subset
  <1>3. Cardinality(Busy) <= Cardinality(Others)
    BY <1>1, <1>2, FS_Subset
  <1>4. Cardinality(Others) \in Nat
    BY <1>2, FS_CardinalityType
  <1>5. sem < MaxConcurrency
    BY <1>3, <1>4, BusyFinite, SlotsAssumption DEF SlotsAccounted
  <1> QED
    BY <1>5 DEF Ready

LEMMA TurnStep == SlotsInv /\ TurnInv /\ [Next]_vars => TurnInv'
  <1> SUFFICES ASSUME SlotsInv, TurnInv, [Next]_vars,
                      NEW d \in Collectors,
                      Cardinality((Slow \cup Deaf) \ {d}) < MaxConcurrency
               PROVE  (d \notin skipped /\ (pc[d] = "waiting" => left[d] > 0))'
    BY DEF TurnInv
  <1> DEFINE Served == d \notin skipped /\ (pc[d] = "waiting" => left[d] > 0)
  <1> USE DEF timers, history
  <1>types. TypeOK /\ SlotsAccounted
    BY DEF SlotsInv
  <1>served. Served
    BY DEF TurnInv
  <1>1. ASSUME NEW p \in Probes, Probe(p) PROVE Served'
    BY <1>1, <1>served DEF Probe
  <1>2. CASE Spawn
    BY <1>2, <1>served DEF Spawn
  <1>3. ASSUME NEW c \in Collectors, First(c) \/ Receive(c) PROVE Served'
    BY <1>3, <1>types, <1>served, TimeBounds DEF First, Receive, Enter, Leave, TypeOK
  <1>4. ASSUME NEW c \in Collectors, Stop(c) \/ Acquire(c) PROVE Served'
    BY <1>4, <1>types, <1>served DEF Stop, Acquire, TypeOK
  <1>5. ASSUME NEW c \in Collectors, GiveUp(c) PROVE Served'
    BY <1>5, <1>types, <1>served DEF GiveUp, Leave, CtxDone, TypeOK
  <1>6. ASSUME NEW c \in Collectors, Finish(c) PROVE Served'
    BY <1>6, <1>types, <1>served DEF Finish, Leave, TypeOK
  <1>7. ASSUME NEW c \in Collectors, Close(c) PROVE Served'
    BY <1>7, <1>served DEF Close
  <1>8. CASE Cancel \/ Drained \/ Return \/ Flush \/ Exited \/ UNCHANGED vars
    BY <1>8, <1>served DEF Cancel, Drained, Return, Flush, Exited, vars
  <1>9. CASE Elapse
    <2>1. pc[d] # "waiting"
      BY <1>9, <1>types, SlotFree DEF Elapse
    <2> QED
      BY <1>9, <1>served, <2>1 DEF Elapse
  <1> QED
    BY <1>1, <1>2, <1>3, <1>4, <1>5, <1>6, <1>7, <1>8, <1>9 DEF Next, Step

(* No collector is turned away for want of a slot while fewer than         *)
(* MaxConcurrency others take time (settings.go:8-12).                     *)
THEOREM NoTurnSkippedHolds == Spec => []NoTurnSkipped
  <1>1. TurnInv => NoTurnSkipped
    BY DEF TurnInv, NoTurnSkipped
  <1>2. Init => SlotsInv /\ TurnInv
    BY SlotsInit, TurnInit
  <1>3. SlotsInv /\ TurnInv /\ [Next]_vars => (SlotsInv /\ TurnInv)'
    BY SlotsStep, TurnStep
  <1> QED
    BY <1>1, <1>2, <1>3, PTL DEF Spec
-----------------------------------------------------------------------------
LEMMA PromiseInit == Init => Promise!Init
  <1> SUFFICES ASSUME Init PROVE Promise!Init
    OBVIOUS
  <1>1. Stage = "setup" /\ Busy = {} /\ closed = {}
    BY DEF Init, Stage, Busy
  <1>2. active \in SUBSET Collectors
    BY DEF Init, Collectors
  <1> QED
    BY <1>1, <1>2 DEF Promise!Init

(* A step that changes neither the phase nor who is busy, enlisted or      *)
(* closed is a stutter of the abstract agent.                              *)
LEMMA Stutter ==
  ASSUME phase' = phase, active' = active, closed' = closed, Busy' = Busy
  PROVE  UNCHANGED Promise!vars
  BY DEF Promise!vars, Stage

(* AgentPromise counts as this module does. *)
LEMMA SameCardinality == Promise!Cardinality(Busy) = Cardinality(Busy)
  BY DEF Promise!Cardinality, Cardinality

LEMMA PromiseStep ==
  SlotsInv /\ LifeInv /\ [Next]_vars => [Promise!Next]_(Promise!vars)
  <1> SUFFICES ASSUME SlotsInv, LifeInv, [Next]_vars
               PROVE  Promise!Next \/ UNCHANGED Promise!vars
    BY DEF Promise!vars
  <1>types. TypeOK /\ SlotsAccounted /\ NotStarted
    BY DEF SlotsInv
  <1>1. ASSUME NEW p \in Probes, Probe(p)
        PROVE  Promise!Next \/ UNCHANGED Promise!vars
    <2>1. p \in Collectors /\ Busy' = Busy /\ Stage' = Stage /\ Stage = "setup"
      BY <1>1 DEF Probe, Busy, Stage, Collectors
    <2>2. CASE active' = active \cup {p}
      <3>1. Promise!Enlist(p)
        BY <1>1, <2>1, <2>2 DEF Probe, Promise!Enlist
      <3> QED
        BY <2>1, <3>1 DEF Promise!Next
    <2>3. CASE active' = active
      BY <1>1, <2>1, <2>3, Stutter DEF Probe
    <2> QED
      BY <1>1, <2>2, <2>3 DEF Probe
  <1>2. CASE Spawn
    <2>1. Busy = {} /\ Busy' = {}
      BY <1>2, <1>types DEF Spawn, NotStarted, Busy
    <2>2. Promise!Serve
      BY <1>2, <2>1 DEF Spawn, Stage, Promise!Serve
    <2> QED
      BY <2>2 DEF Promise!Next
  <1>3. ASSUME NEW c \in Collectors,
               First(c) \/ Receive(c) \/ Stop(c) \/ GiveUp(c)
        PROVE  UNCHANGED Promise!vars
    <2>1. Busy' = Busy
      BY <1>3, <1>types DEF First, Receive, Stop, GiveUp, Enter, Leave, TypeOK, Busy
    <2> QED
      BY <1>3, <2>1, Stutter DEF First, Receive, Stop, GiveUp
  <1>4. ASSUME NEW c \in Collectors, Acquire(c) PROVE Promise!Next
    <2>1. phase = "running" /\ c \in active /\ c \notin Busy
      BY <1>4, <1>types DEF Acquire, NotStarted, LifeInv, TypeOK, Phases, Busy
    <2>2. Cardinality(Busy) < MaxConcurrency
      BY <1>4, <1>types DEF Acquire, SlotsAccounted
    <2>3. Busy' = Busy \cup {c}
      BY <1>4, <1>types, BusyGrows DEF Acquire, TypeOK
    <2>4. Stage = "serving" /\ Stage' = Stage
      BY <1>4, <2>1 DEF Acquire, Stage
    <2>5. Promise!Begin(c)
      BY <1>4, <2>1, <2>2, <2>3, <2>4, SameCardinality DEF Acquire, Promise!Begin
    <2> QED
      BY <2>5 DEF Promise!Next
  <1>5. ASSUME NEW c \in Collectors, Finish(c) PROVE Promise!Next
    <2>1. c \in Busy /\ Busy' = Busy \ {c}
      BY <1>5, <1>types, BusyShrinks DEF Finish, Leave, TypeOK, Busy
    <2>2. Promise!End(c)
      BY <1>5, <2>1 DEF Finish, Stage, Promise!End
    <2> QED
      BY <2>2 DEF Promise!Next
  <1>6. ASSUME NEW c \in Collectors, Close(c) PROVE Promise!Next
    <2>1. Promise!Dispose(c)
      BY <1>6 DEF Close, Stage, Busy, Promise!Dispose
    <2> QED
      BY <2>1 DEF Promise!Next
  <1>7. CASE Drained
    <2>1. Busy = {} /\ Busy' = {}
      BY <1>7 DEF Drained, LifeInv, Busy
    <2>2. Promise!Quiesce
      BY <1>7, <2>1 DEF Drained, Stage, Promise!Quiesce
    <2> QED
      BY <2>2 DEF Promise!Next
  <1>8. CASE Return
    <2>1. Promise!Leave
      BY <1>8 DEF Return, Stage, Busy, Promise!Leave
    <2> QED
      BY <2>1 DEF Promise!Next
  <1>9. CASE Flush
    <2>1. Promise!Flush
      BY <1>9 DEF Flush, Stage, Busy, Promise!Flush
    <2> QED
      BY <2>1 DEF Promise!Next
  <1>10. CASE Cancel \/ Elapse \/ Exited \/ UNCHANGED vars
    <2>1. Busy' = Busy
      BY <1>10 DEF Cancel, Elapse, Exited, vars, Busy
    <2> QED
      BY <1>10, <2>1, Stutter DEF Cancel, Elapse, Exited, vars
  <1> QED
    BY <1>1, <1>2, <1>3, <1>4, <1>5, <1>6, <1>7, <1>8, <1>9, <1>10 DEF Next, Step

(* agent.Run keeps the promise of AgentPromise: bounded concurrency, no    *)
(* collection after the first Close, every closer closed before the flush. *)
THEOREM PromiseHolds == Spec => PromiseKept
  BY PromiseInit, PromiseStep, LifeAlways, PTL DEF Spec, PromiseKept, Promise!Spec
=============================================================================
