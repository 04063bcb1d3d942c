---------------------------- MODULE MCInstances ----------------------------
(***************************************************************************)
(* Instances of Instances with the intervals, timeouts and the retry pause *)
(* of the code, in seconds (internal/agent/settings.go, the five           *)
(* defaultOpTimeout, integrationRetryInterval of config.go).               *)
(***************************************************************************)
EXTENDS Instances, TLC

CONSTANTS a, b

Two == <<a, b>>

RealEvery == [k \in AllIntegrations |-> IF k = "rabbitmq" THEN 30 ELSE 10]
RealOpTimeout ==
    [k \in AllIntegrations |-> IF k \in {"redis", "mongo"} THEN 2 ELSE 3]
=============================================================================
