---------------------------- MODULE MemoryProofs ----------------------------
(***************************************************************************)
(* Proofs about what collectors remember between rounds: TopSeries and     *)
(* CounterDelta, which share no state (MCMemory checks them side by side). *)
(*                                                                         *)
(* TopSeries, for every finite set of units or queues, every bound on how  *)
(* many are named and every way to share names: that a zero means          *)
(* recovered, drained or crowded out needs no more of the state than its   *)
(* types; the work is in the head of the list.                             *)
(*                                                                         *)
(* CounterDelta, for every set of devices and however often they count,    *)
(* vanish and start again: what makes the difference true is a relation    *)
(* between a counter, the reading remembered and what was counted since:   *)
(* they add up as long as the counter did not start again, and afterwards  *)
(* the counter alone is below what was counted.                            *)
(***************************************************************************)
EXTENDS TopSeries, CounterDelta, FiniteSetTheorems, TLAPS

(* What is asked of the levels: a unit has failed or has not. *)
LevelTypes ==
    /\ kind \in {"systemd", "rabbitmq"}
    /\ level \in [Things -> 0..Highest]

(* A line goes to zero only for a name that too many others crowd out. *)
Crowded ==
    \A k \in Things :
        Called(NameOf(k)) = {k} /\ NameOf(k) \in last /\ level[k] > 0
        /\ line[NameOf(k)] > 0 /\ line'[NameOf(k)] = 0
        => Cardinality({j \in Things \ {k} : level[j] >= level[k]}) >= Top
-----------------------------------------------------------------------------
LEMMA HighestBounds == Highest \in Nat /\ Highest <= MaxLevel
  BY TopAssumption DEF Highest

(* What has a level and is listed, but not in the head, sees a full head   *)
(* before it, of which nothing is lower.                                   *)
LEMMA LeftOut ==
  ASSUME LevelTypes, NEW L \in SUBSET Things, NEW S \in SUBSET L,
         Listing(L), IsHead(S, L), NEW k \in L \ S
  PROVE  Cardinality({j \in Things \ {k} : level[j] >= level[k]}) >= Top
  <1> DEFINE H == {j \in Things \ {k} : level[j] >= level[k]}
  <1>1. IsFiniteSet(Things) /\ IsFiniteSet(L) /\ IsFiniteSet(S) /\ IsFiniteSet(H)
    <2>1. IsFiniteSet(Things)
      BY TopAssumption
    <2>2. L \subseteq Things /\ S \subseteq Things /\ H \subseteq Things
      OBVIOUS
    <2> QED
      BY <2>1, <2>2, FS_Subset
  <1>2. Cardinality(S) \in Nat /\ Cardinality(L) \in Nat /\ Cardinality(H) \in Nat
    BY <1>1, FS_CardinalityType
  <1>3. Cardinality(S) = Top
    <2>1. Cardinality(S) # Cardinality(L)
      BY <1>1, FS_Subset
    <2> QED
      BY <1>2, <2>1, TopAssumption DEF IsHead, Least
  <1>4. S \subseteq H
    <2> SUFFICES ASSUME NEW j \in S
                 PROVE  level[j] >= level[k]
      OBVIOUS
    <2>1. CASE kind = "rabbitmq"
      BY <2>1 DEF IsHead
    <2>2. CASE kind = "systemd"
      <3>1. level[j] \in 0..1 /\ level[k] \in 0..1
        BY <2>2 DEF LevelTypes, Highest
      <3>2. level[j] > 0
        BY <2>2 DEF Listing, listUnits
      <3> QED
        BY <3>1, <3>2
    <2> QED
      BY <2>1, <2>2 DEF LevelTypes
  <1> QED
    BY <1>1, <1>2, <1>3, <1>4, FS_Subset

(* One that has its name to itself is told its own level. *)
LEMMA ToldOwn ==
  ASSUME LevelTypes, NEW k \in Things, Called(NameOf(k)) = {k}, NEW S \in SUBSET Things, k \in S
  PROVE  Told(S, NameOf(k)) = level[k]
  <1>1. S \cap Called(NameOf(k)) = {k}
    OBVIOUS
  <1>2. level[k] \in 0..MaxLevel
    BY HighestBounds, TopAssumption DEF LevelTypes
  <1> DEFINE P(v) == /\ \E j \in S \cap Called(NameOf(k)) : level[j] = v
                     /\ \A j \in S \cap Called(NameOf(k)) : level[j] >= v
  <1>3. P(level[k]) /\ \A v \in 0..MaxLevel : P(v) => v = level[k]
    BY <1>1, <1>2
  <1> HIDE DEF P
  <1>4. (CHOOSE v \in 0..MaxLevel : P(v)) = level[k]
    BY <1>2, <1>3
  <1> QED
    BY <1>4 DEF Told, P

LEMMA TypesKept == LevelTypes /\ [TopNext]_topVars => LevelTypes'
  <1> SUFFICES ASSUME LevelTypes, [TopNext]_topVars
               PROVE  LevelTypes'
    OBVIOUS
  <1>1. CASE UNCHANGED <<kind, level>>
    BY <1>1 DEF LevelTypes, Highest
  <1>2. ASSUME NEW k \in Things, Change(k)
        PROVE  LevelTypes'
    BY <1>2 DEF Change, LevelTypes, Highest
  <1> QED
    BY <1>1, <1>2 DEF TopNext, Round, RoundFails, Restart, topVars

LEMMA StepCrowded == LevelTypes /\ [TopNext]_topVars => [Crowded]_topVars
  <1> SUFFICES ASSUME LevelTypes, TopNext
               PROVE  Crowded
    OBVIOUS
  <1> SUFFICES ASSUME NEW k \in Things,
                      Called(NameOf(k)) = {k}, NameOf(k) \in last, level[k] > 0,
                      line[NameOf(k)] > 0, line'[NameOf(k)] = 0
               PROVE  Cardinality({j \in Things \ {k} : level[j] >= level[k]}) >= Top
    BY DEF Crowded
  <1>1. Round
    <2>1. line' # line
      OBVIOUS
    <2> QED
      BY <2>1 DEF TopNext, RoundFails, Restart, Change, topVars
  <1>2. PICK L \in SUBSET Things : \E S \in SUBSET L :
            Listing(L) /\ IsHead(S, L) /\ Report(S)
    BY <1>1 DEF Round
  <1>3. PICK S \in SUBSET L : Listing(L) /\ IsHead(S, L) /\ Report(S)
    BY <1>2
  <1>4. k \in L
    BY <1>3 DEF Listing, listUnits, listQueues
  <1>5. k \notin S
    <2> SUFFICES ASSUME k \in S
                 PROVE  FALSE
      OBVIOUS
    <2>1. line'[NameOf(k)] = Told(S, NameOf(k))
      <3>1. NameOf(k) \in Things
        BY TopAssumption DEF NameOf
      <3>2. NameOf(k) \in {NameOf(j) : j \in S}
        OBVIOUS
      <3> QED
        BY <1>3, <3>1, <3>2 DEF Report
    <2>2. Told(S, NameOf(k)) = level[k]
      BY ToldOwn
    <2> QED
      BY <2>1, <2>2
  <1> QED
    BY <1>3, <1>4, <1>5, LeftOut

(* A zero for something that is still failed, or still has messages, comes *)
(* only of too many others that are no better off (systemd/collector.go:   *)
(* 59-75, rabbitmq/collector.go:167-206).                                  *)
THEOREM ZeroMeansCrowdedHolds == TopSpec => ZeroMeansCrowded
  <1>1. TopInit => LevelTypes
    BY DEF TopInit, LevelTypes
  <1>2. QED
    BY <1>1, TypesKept, StepCrowded, PTL DEF TopSpec, ZeroMeansCrowded, Crowded
-----------------------------------------------------------------------------
(* The remembered counters. *)
DeltaTypes ==
    /\ source \in {"cpu", "disk", "mongo"}
    /\ there \subseteq Devices /\ missing \subseteq Devices
    /\ counter \in [Devices -> Nat]
    /\ prev \in [Devices -> Nat \cup {None}]
    /\ truth \in [Devices -> Nat]
    /\ fresh \in [Devices -> BOOLEAN]
    /\ events \in Nat

(* The counter against the reading and what was counted since. *)
Balanced ==
    \A d \in Devices :
        /\ fresh[d] /\ prev[d] # None => counter[d] = prev[d] + truth[d]
        /\ ~fresh[d] => counter[d] <= truth[d]

(* A disk that a round did not find is not remembered. *)
Forgotten == source = "disk" => \A d \in missing : prev[d] = None

DeltaInv == DeltaTypes /\ Balanced /\ Forgotten /\ DifferencesTrue
-----------------------------------------------------------------------------
(* Where the balance holds, a difference has no fault. *)
LEMMA NoFault ==
  ASSUME DeltaTypes, Balanced, Forgotten, NEW d \in Devices
  PROVE  Faults(d) = {}
  <1>1. CASE d \notin there \/ prev[d] = None
    BY <1>1 DEF Faults
  <1>2. CASE d \in there /\ prev[d] # None
    <2>1. counter[d] \in Nat /\ prev[d] \in Nat /\ truth[d] \in Nat
      BY <1>2 DEF DeltaTypes
    <2>2. fresh[d] => diffUint(prev[d], counter[d]) = truth[d]
      BY <1>2, <2>1 DEF Balanced, diffUint
    <2>3. ~fresh[d] => diffUint(prev[d], counter[d]) <= truth[d]
      BY <2>1 DEF Balanced, diffUint
    <2>4. diffUint(prev[d], counter[d]) \in Nat
      BY <2>1 DEF diffUint
    <2>5. ~(diffUint(prev[d], counter[d]) > truth[d])
      BY <2>1, <2>2, <2>3, <2>4
    <2>6. ~(fresh[d] /\ diffUint(prev[d], counter[d]) < truth[d])
      BY <2>1, <2>2
    <2>7. ~(source = "disk" /\ d \in missing)
      BY <1>2 DEF Forgotten
    <2> QED
      BY <2>5, <2>6, <2>7, <1>2 DEF Faults
  <1> QED
    BY <1>1, <1>2

LEMMA InitBalanced == DeltaInit => DeltaInv
  BY DEF DeltaInit, DeltaInv, DeltaTypes, Balanced, Forgotten, DifferencesTrue, None

LEMMA StepBalanced == DeltaInv /\ [DeltaNext]_deltaVars => DeltaInv'
  <1> SUFFICES ASSUME DeltaInv, [DeltaNext]_deltaVars
               PROVE  DeltaInv'
    OBVIOUS
  <1> USE DEF DeltaInv
  <1>1. CASE UNCHANGED deltaVars
    <2>1. DeltaTypes'
      BY <1>1 DEF deltaVars, DeltaTypes
    <2>2. Balanced' /\ Forgotten' /\ DifferencesTrue'
      BY <1>1 DEF deltaVars, Balanced, Forgotten, DifferencesTrue
    <2> QED
      BY <2>1, <2>2
  <1>2. ASSUME NEW d \in Devices, Count(d)
        PROVE  DeltaInv'
    <2>1. DeltaTypes'
      <3>1. counter' \in [Devices -> Nat] /\ truth' \in [Devices -> Nat]
        BY <1>2 DEF Count, DeltaTypes
      <3>2. UNCHANGED <<source, there, prev, fresh, missing, wrong, events>>
        BY <1>2 DEF Count
      <3> QED
        BY <3>1, <3>2 DEF DeltaTypes
    <2>2. Balanced'
      <3> SUFFICES ASSUME NEW e \in Devices
                   PROVE  /\ fresh[e] /\ prev[e] # None => counter'[e] = prev[e] + truth'[e]
                          /\ ~fresh[e] => counter'[e] <= truth'[e]
        BY <1>2 DEF Count, Balanced
      <3>1. counter[e] \in Nat /\ truth[e] \in Nat /\ (prev[e] = None \/ prev[e] \in Nat)
        BY DEF DeltaTypes
      <3>2. counter'[e] = IF e = d THEN counter[e] + 1 ELSE counter[e]
        BY <1>2 DEF Count, DeltaTypes
      <3>3. truth'[e] = IF e = d THEN truth[e] + 1 ELSE truth[e]
        BY <1>2 DEF Count, DeltaTypes
      <3> QED
        BY <3>1, <3>2, <3>3 DEF Balanced
    <2> QED
      BY <2>1, <2>2, <1>2 DEF Count, Forgotten, DifferencesTrue
  <1>3. ASSUME NEW d \in Devices, Unplug(d)
        PROVE  DeltaInv'
    BY <1>3 DEF Unplug, Event, DeltaTypes, Balanced, Forgotten, DifferencesTrue
  <1>4. ASSUME NEW d \in Devices, PlugIn(d) \/ Replace(d)
        PROVE  DeltaInv'
    <2>1. \/ UNCHANGED <<counter, fresh>>
          \/ /\ counter' = [counter EXCEPT ![d] = 0]
             /\ fresh' = [fresh EXCEPT ![d] = FALSE]
      BY <1>4 DEF PlugIn, Replace
    <2>2. there' \subseteq Devices
      BY <1>4 DEF PlugIn, Replace, DeltaTypes
    <2>3. events' = events + 1 /\ UNCHANGED <<source, prev, truth, missing, wrong>>
      BY <1>4 DEF PlugIn, Replace, Event
    <2>4. \A e \in Devices :
             \/ counter'[e] = counter[e] /\ fresh'[e] = fresh[e]
             \/ counter'[e] = 0 /\ fresh'[e] = FALSE
      BY <2>1 DEF DeltaTypes
    <2>5. DeltaTypes'
      <3>1. counter' \in [Devices -> Nat]
        BY <2>1 DEF DeltaTypes
      <3>2. fresh' \in [Devices -> BOOLEAN]
        BY <2>1 DEF DeltaTypes
      <3>3. events' \in Nat
        BY <2>3 DEF DeltaTypes
      <3> QED
        BY <2>2, <2>3, <3>1, <3>2, <3>3 DEF DeltaTypes
    <2>6. Balanced'
      <3> SUFFICES ASSUME NEW e \in Devices
                   PROVE  /\ fresh'[e] /\ prev[e] # None => counter'[e] = prev[e] + truth[e]
                          /\ ~fresh'[e] => counter'[e] <= truth[e]
        BY <2>3 DEF Balanced
      <3>1. CASE counter'[e] = counter[e] /\ fresh'[e] = fresh[e]
        BY <3>1 DEF Balanced
      <3>2. CASE counter'[e] = 0 /\ fresh'[e] = FALSE
        <4>1. counter'[e] <= truth[e]
          BY <3>2 DEF DeltaTypes
        <4> QED
          BY <3>2, <4>1
      <3> QED
        BY <2>4, <3>1, <3>2
    <2> QED
      BY <2>3, <2>5, <2>6 DEF Forgotten, DifferencesTrue
  <1>5. CASE Read
    <2>1. wrong' = {}
      BY <1>5, NoFault DEF Read, DifferencesTrue
    <2>2. \A d \in Devices :
             /\ truth'[d] = IF d \in there THEN 0 ELSE truth[d]
             /\ prev'[d] = IF d \in there THEN counter[d]
                           ELSE IF Forget(d) THEN None ELSE prev[d]
             /\ fresh'[d] = (d \in there \/ fresh[d])
             /\ counter'[d] = counter[d]
      BY <1>5 DEF Read
    <2>3. DeltaTypes'
      <3>1. prev' \in [Devices -> Nat \cup {None}] /\ truth' \in [Devices -> Nat]
        BY <1>5 DEF Read, DeltaTypes
      <3>2. fresh' \in [Devices -> BOOLEAN]
        BY <1>5, Zenon DEF Read, DeltaTypes
      <3>3. missing' \subseteq Devices /\ UNCHANGED <<source, there, counter, events>>
        BY <1>5 DEF Read
      <3> QED
        BY <3>1, <3>2, <3>3 DEF DeltaTypes
    <2>4. Balanced'
      <3> SUFFICES ASSUME NEW d \in Devices
                   PROVE  /\ fresh'[d] /\ prev'[d] # None => counter'[d] = prev'[d] + truth'[d]
                          /\ ~fresh'[d] => counter'[d] <= truth'[d]
        BY DEF Balanced
      <3>1. counter[d] \in Nat
        BY DEF DeltaTypes
      <3>2. CASE d \in there
        <4>1. counter'[d] = counter[d] /\ prev'[d] = counter[d] /\ truth'[d] = 0
          BY <2>2, <3>2
        <4>2. fresh'[d]
          BY <2>2, <3>2, Zenon
        <4> QED
          BY <3>1, <4>1, <4>2
      <3>3. CASE d \notin there
        BY <2>2, <3>3 DEF Balanced
      <3> QED
        BY <3>2, <3>3
    <2>5. Forgotten'
      BY <1>5, <2>2 DEF Read, Forget, Forgotten
    <2> QED
      BY <2>1, <2>3, <2>4, <2>5 DEF DifferencesTrue
  <1>6. CASE ReadFails
    BY <1>6, <1>1 DEF ReadFails
  <1> QED
    BY <1>1, <1>2, <1>3, <1>4, <1>5, <1>6 DEF DeltaNext

(* However rounds fail and devices vanish or start again, a difference is  *)
(* what was counted since the reading it is a difference to, and never     *)
(* more (cpu_usage.go:32-76, diskio.go:36-109, mongo/collector.go:194-227).*)
THEOREM DifferencesTrueHolds == DeltaSpec => []DifferencesTrue
  <1>1. DeltaInv => DifferencesTrue
    BY DEF DeltaInv
  <1> QED
    BY <1>1, InitBalanced, StepBalanced, PTL DEF DeltaSpec
=============================================================================
