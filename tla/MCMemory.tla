------------------------------ MODULE MCMemory ------------------------------
(***************************************************************************)
(* What collectors remember between rounds: instances of TopSeries and     *)
(* CounterDelta.  The two share no state: a behaviour is of the one or of  *)
(* the other, whose variables the other's leaves as they were.             *)
(***************************************************************************)
EXTENDS TopSeries, CounterDelta, TLC

CONSTANTS q1, q2, q3, q4, d1, d2

(* Two queues of different vhosts share a name. *)
QueueNames == q1 :> q1 @@ q2 :> q2 @@ q3 :> q3 @@ q4 :> q3

VARIABLE which

vars == <<topVars, deltaVars, which>>

Init ==
    /\ TopInit /\ DeltaInit
    /\ \/ which = "top" /\ source = "cpu" /\ \A d \in Devices : counter[d] = 0
       \/ which = "delta" /\ kind = "rabbitmq" /\ \A k \in Things : level[k] = 0

TopStep == which = "top" /\ UNCHANGED <<deltaVars, which>>

Next ==
    \/ TopStep /\ TopNext
    \/ which = "delta" /\ DeltaNext /\ UNCHANGED <<topVars, which>>

(* A list is read again in the end: not every round fails. *)
Spec == Init /\ [][Next]_vars /\ WF_vars(TopStep /\ Round)
=============================================================================
