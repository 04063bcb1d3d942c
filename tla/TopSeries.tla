----------------------------- MODULE TopSeries -----------------------------
(***************************************************************************)
(* Collectors that report a bounded number of named things and a zero for  *)
(* each that they no longer name: the failed units of                      *)
(* src/internal/collectors/systemd/collector.go and the deepest queues of  *)
(* src/internal/collectors/rabbitmq/collector.go.  A line keeps the last   *)
(* value it was given, so one that is never given a zero reads as a        *)
(* failure, or a backlog, for ever.                                        *)
(***************************************************************************)
EXTENDS Integers, FiniteSets

CONSTANTS
    Things,         \* units, or queues
    Name,           \* Name[k]: the queue whose name k has, its own or not:
                    \* queues of two vhosts may share theirs
    Top,            \* maxNamedFailedUnits, maxQueues
    MaxLevel,       \* bound: the depth of a queue
    MaxRestarts     \* bound: how often the agent is restarted

ASSUME TopAssumption ==
    /\ IsFiniteSet(Things)
    /\ Name \in [Things -> Things]
    /\ Top \in Nat \ {0} /\ MaxLevel \in Nat \ {0} /\ MaxRestarts \in Nat

VARIABLES
    kind,       \* which of the two collectors
    level,      \* a queue's depth; 1 for a failed unit, 0 for a sound one
    last,       \* lastFailed, lastQueues
    line,       \* per name, the last value reported
    orphans,    \* history: names an earlier process left at another value
    restarts

topVars == <<kind, level, last, line, orphans, restarts>>
-----------------------------------------------------------------------------
NameOf(k) == IF kind = "systemd" THEN k ELSE Name[k]
Called(n) == {k \in Things : NameOf(k) = n}
Least(a, b) == IF a < b THEN a ELSE b
Highest == IF kind = "systemd" THEN 1 ELSE MaxLevel

TopInit ==
    /\ kind \in {"systemd", "rabbitmq"}
    /\ level \in [Things -> 0..Highest]
    /\ last = {} /\ line = [n \in Things |-> 0]
    /\ orphans = {} /\ restarts = 0

(* A unit fails or recovers, a queue fills or drains. *)
Change(k) ==
    /\ \E v \in 0..Highest : level' = [level EXCEPT ![k] = v]
    /\ UNCHANGED <<kind, last, line, orphans, restarts>>

(* systemctl is asked for the failed units. *)
listUnits(L) == L = {k \in Things : level[k] > 0}

(* The broker lists empty queues too; one that was deleted is as empty as  *)
(* they are, and not listed.                                               *)
listQueues(L) == {k \in Things : level[k] > 0} \subseteq L

Listing(L) ==
    \/ kind = "systemd" /\ listUnits(L)
    \/ kind = "rabbitmq" /\ listQueues(L)

(* Mutant: the queues are taken as they come. *)
UnsortedHead(S, L) == S \subseteq L /\ Cardinality(S) = Least(Cardinality(L), Top)

(* The head of the list: queues are sorted by depth first, units are not. *)
IsHead(S, L) ==
    /\ S \subseteq L
    /\ Cardinality(S) = Least(Cardinality(L), Top)
    /\ kind = "rabbitmq" => \A j \in S, k \in L \ S : level[j] >= level[k]

(* Of two queues with one name, the shallower is reported last. *)
Told(S, n) ==
    CHOOSE v \in 0..MaxLevel :
        /\ \E k \in S \cap Called(n) : level[k] = v
        /\ \A k \in S \cap Called(n) : level[k] >= v

(* Mutant: nothing failed, so there is nothing to report. *)
ReportSome(S) ==
    LET current == {NameOf(k) : k \in S}
    IN  IF S = {} THEN UNCHANGED <<last, line, orphans>>
        ELSE /\ last' = current
             /\ line' = [n \in Things |->
                            IF n \in current THEN Told(S, n)
                            ELSE IF n \in last THEN 0 ELSE line[n]]
             /\ orphans' = orphans \ current

Report(S) ==
    LET current == {NameOf(k) : k \in S}
    IN  /\ last' = current
        /\ line' = [n \in Things |->
                       IF n \in current THEN Told(S, n)
                       ELSE IF n \in last THEN 0 ELSE line[n]]
        /\ orphans' = orphans \ current

(* The list is read; whether the other readings of the round succeed makes *)
(* no difference to it.                                                    *)
Round ==
    /\ \E L \in SUBSET Things : \E S \in SUBSET L :
        Listing(L) /\ IsHead(S, L) /\ Report(S)
    /\ UNCHANGED <<kind, level, restarts>>

(* The list cannot be read: what was remembered stays. *)
RoundFails == UNCHANGED topVars

(* The agent is restarted; the lines keep their values. *)
Restart ==
    /\ restarts < MaxRestarts
    /\ restarts' = restarts + 1
    /\ last' = {}
    /\ orphans' = orphans \cup {n \in Things : line[n] > 0}
    /\ UNCHANGED <<kind, level, line>>

TopNext == Round \/ RoundFails \/ Restart \/ \E k \in Things : Change(k)

TopSpec == TopInit /\ [][TopNext]_topVars
-----------------------------------------------------------------------------
(* A unit that recovers for good, or a queue that is drained for good, has *)
(* its line at zero in the end, unless an agent that was since restarted   *)
(* left it and nothing was heard of it again.                              *)
LinesSettle ==
    \A n \in Things :
        <>[](\A k \in Called(n) : level[k] = 0) => <>[](line[n] = 0 \/ n \in orphans)

(* A zero for something that is still failed, or still has messages, comes *)
(* only of too many others that are no better off; two queues that share a *)
(* name are beyond this claim.                                             *)
ZeroMeansCrowded ==
    [][\A k \in Things :
        Called(NameOf(k)) = {k} /\ NameOf(k) \in last /\ level[k] > 0
        /\ line[NameOf(k)] > 0 /\ line'[NameOf(k)] = 0
        => Cardinality({j \in Things \ {k} : level[j] >= level[k]}) >= Top]_topVars
=============================================================================
