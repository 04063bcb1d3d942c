----------------------------- MODULE MCDocker -----------------------------
(***************************************************************************)
(* Instances of Docker: services of one container each, and a service with *)
(* two replicas.                                                           *)
(***************************************************************************)
EXTENDS Docker, TLC

CONSTANTS a, b, c

OwnService == a :> "web" @@ b :> "db" @@ c :> "cache"
OwnUse == a :> 1 @@ b :> 3 @@ c :> 1
Replicas == a :> "web" @@ b :> "web"
ReplicasUse == a :> 2 @@ b :> 2
=============================================================================
