---------------------------- MODULE CounterDelta ----------------------------
(***************************************************************************)
(* Collectors that report what comes of the difference between two         *)
(* readings of a counter: the cores and disks of                           *)
(* src/internal/collectors/core and the servers of                         *)
(* src/internal/collectors/mongo/collector.go.  Counters start again with  *)
(* a server or a disk that is replaced, rounds fail, devices come and go.  *)
(* The several counters of a device are remembered and subtracted alike:   *)
(* one stands for each of them.                                            *)
(***************************************************************************)
EXTENDS Integers

CONSTANTS
    Devices,        \* cores, disks or servers
    MaxCount,       \* bound: what a counter counts in a behaviour
    MaxEvents       \* bound: devices that are unplugged, plugged in or replaced

ASSUME DeltaAssumption == MaxCount \in Nat /\ MaxEvents \in Nat

VARIABLES
    source,     \* what is read: "cpu", "disk" or "mongo"
    there,      \* the disks that are there, the servers that answer
    counter,    \* per device, its counter
    prev,       \* the reading remembered, or None
    truth,      \* history: what was counted since that reading
    fresh,      \* history: the counter did not start again since then
    missing,    \* history: a round since then did not find the device
    wrong,      \* history: how a difference that was reported was wrong
    events

deltaVars == <<source, there, counter, prev, truth, fresh, missing, wrong, events>>
-----------------------------------------------------------------------------
None == -1

DeltaInit ==
    /\ source \in {"cpu", "disk", "mongo"}
    /\ there = Devices
    /\ counter \in [Devices -> 0..1]
    /\ prev = [d \in Devices |-> None]
    /\ truth = [d \in Devices |-> 0]
    /\ fresh = [d \in Devices |-> TRUE] /\ missing = {}
    /\ wrong = {} /\ events = 0

Count(d) ==
    /\ d \in there /\ counter[d] < MaxCount
    /\ counter' = [counter EXCEPT ![d] = @ + 1]
    /\ truth' = [truth EXCEPT ![d] = @ + 1]
    /\ UNCHANGED <<source, there, prev, fresh, missing, wrong, events>>

Event ==
    /\ events < MaxEvents
    /\ events' = events + 1
    /\ UNCHANGED <<source, prev, truth, missing, wrong>>

Unplug(d) ==
    /\ d \in there /\ there' = there \ {d}
    /\ Event /\ UNCHANGED <<counter, fresh>>

(* The device is back; it may have gone on counting meanwhile. *)
PlugIn(d) ==
    /\ d \notin there /\ there' = there \cup {d}
    /\ \/ UNCHANGED <<counter, fresh>>
       \/ /\ counter' = [counter EXCEPT ![d] = 0]
          /\ fresh' = [fresh EXCEPT ![d] = FALSE]
    /\ Event

(* A server is restarted, a disk replaced, between two rounds. *)
Replace(d) ==
    /\ source # "cpu" /\ d \in there
    /\ counter' = [counter EXCEPT ![d] = 0]
    /\ fresh' = [fresh EXCEPT ![d] = FALSE]
    /\ Event /\ UNCHANGED there
-----------------------------------------------------------------------------
(* Mutant: unsigned subtraction, 2^w being MaxCount + 1 here. *)
Wrapping(a, b) == (b - a) % (MaxCount + 1)

diffUint(a, b) == IF b >= a THEN b - a ELSE 0

(* Mutant: readings are never forgotten. *)
ForgetNothing(d) == FALSE

(* A disk that is gone is forgotten; a core or a server is not. *)
Forget(d) == source = "disk" /\ d \notin there

Faults(d) ==
    LET delta == diffUint(prev[d], counter[d])
    IN  IF d \notin there \/ prev[d] = None THEN {}
        ELSE {f \in {"more than was counted", "less than was counted", "another disk"} :
                \/ f = "more than was counted" /\ delta > truth[d]
                \/ f = "less than was counted" /\ fresh[d] /\ delta < truth[d]
                \/ f = "another disk" /\ source = "disk" /\ d \in missing}

(* Every device that is there is read and its reading remembered, the      *)
(* difference to the one before being reported.                            *)
Read ==
    /\ wrong' = wrong \cup UNION {Faults(d) : d \in Devices}
    /\ prev' = [d \in Devices |->
                   IF d \in there THEN counter[d] ELSE IF Forget(d) THEN None ELSE prev[d]]
    /\ truth' = [d \in Devices |-> IF d \in there THEN 0 ELSE truth[d]]
    /\ fresh' = [d \in Devices |-> d \in there \/ fresh[d]]
    /\ missing' = Devices \ there
    /\ UNCHANGED <<source, there, counter, events>>

(* The source cannot be read: the readings stay as they are. *)
ReadFails == UNCHANGED deltaVars

DeltaNext ==
    \/ Read \/ ReadFails
    \/ \E d \in Devices : Count(d) \/ Unplug(d) \/ PlugIn(d) \/ Replace(d)

DeltaSpec == DeltaInit /\ [][DeltaNext]_deltaVars
-----------------------------------------------------------------------------
(* A difference that is reported is what was counted since the reading it  *)
(* is a difference to, however many rounds failed in between; never more   *)
(* when the counter started again; and a disk that was gone in a round is  *)
(* not compared with what was known by its name before.                    *)
DifferencesTrue == wrong = {}
=============================================================================
