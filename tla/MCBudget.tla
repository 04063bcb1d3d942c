------------------------------ MODULE MCBudget ------------------------------
(***************************************************************************)
(* Instances of Budget: the timeouts of the code in seconds, and           *)
(* configurations on both sides of each cap of collectorTimeout.           *)
(***************************************************************************)
EXTENDS Budget

Targets(every, n) ==
    [kind |-> "prom", every |-> every, timeout |-> [i \in 1 .. n |-> 0]]
Commands(every, timeout) ==
    [kind |-> "exec", every |-> every, timeout |-> timeout]

(* 30 s is the default interval of targets and 60 s that of commands.  The *)
(* sums are below, at and above the interval, the default and the limit.   *)
Mixed ==
    {Targets(30, 3), Targets(10, 3), Targets(10, 2), Targets(2, 1),
     Targets(30, 0)}
    \cup
    {Commands(60, <<2, 20, 0>>), Commands(60, <<10, 10, 5>>),
     Commands(12, <<3, 0>>), Commands(60, <<1>>), Commands(60, <<>>),
     Commands(60, <<25, 4, 4>>)}

OftenScraped == {Targets(5, 3)}
=============================================================================
