---------------------------- MODULE AgentPromise ----------------------------
(***************************************************************************)
(* What agent.Run promises its caller, with no clock, no tickers and no    *)
(* channels: collectors are enlisted first; then at most Slots of them     *)
(* collect at any time; once the agent starts to dispose of them none      *)
(* collects again; each that needs closing is closed once; and the process *)
(* flushes its client only after that.  Runner.tla implements it.          *)
(***************************************************************************)
EXTENDS Naturals, FiniteSets

CONSTANTS Collectors,   \* every collector the agent might run
          Closers,      \* those that implement CollectorCloser
          Slots         \* how many may collect at the same time

VARIABLES stage,        \* where the agent is in its life
          enlisted,     \* collectors the agent has taken on
          busy,         \* collectors whose Collect is executing
          closed        \* collectors whose Close has been called

vars == <<stage, enlisted, busy, closed>>

Init ==
    /\ stage = "setup"
    /\ enlisted \in SUBSET Collectors
    /\ busy = {}
    /\ closed = {}

Enlist(c) ==
    /\ stage = "setup"
    /\ enlisted' = enlisted \cup {c}
    /\ UNCHANGED <<stage, busy, closed>>

Serve ==
    /\ stage = "setup"
    /\ stage' = "serving"
    /\ UNCHANGED <<enlisted, busy, closed>>

Begin(c) ==
    /\ stage = "serving"
    /\ c \in enlisted \ busy
    /\ Cardinality(busy) < Slots
    /\ busy' = busy \cup {c}
    /\ UNCHANGED <<stage, enlisted, closed>>

End(c) ==
    /\ c \in busy
    /\ busy' = busy \ {c}
    /\ UNCHANGED <<stage, enlisted, closed>>

Quiesce ==
    /\ stage = "serving"
    /\ busy = {}
    /\ stage' = "closing"
    /\ UNCHANGED <<enlisted, busy, closed>>

Dispose(c) ==
    /\ stage = "closing"
    /\ c \in (enlisted \cap Closers) \ closed
    /\ closed' = closed \cup {c}
    /\ UNCHANGED <<stage, enlisted, busy>>

Leave ==
    /\ stage = "closing"
    /\ enlisted \cap Closers \subseteq closed
    /\ stage' = "flushing"
    /\ UNCHANGED <<enlisted, busy, closed>>

Flush ==
    /\ stage = "flushing"
    /\ stage' = "gone"
    /\ UNCHANGED <<enlisted, busy, closed>>

Next ==
    \/ Serve \/ Quiesce \/ Leave \/ Flush
    \/ \E c \in Collectors : Enlist(c) \/ Begin(c) \/ End(c) \/ Dispose(c)

Spec == Init /\ [][Next]_vars
=============================================================================
