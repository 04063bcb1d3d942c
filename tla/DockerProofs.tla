---------------------------- MODULE DockerProofs ----------------------------
(***************************************************************************)
(* Proofs about Docker, for every finite set of containers, every number   *)
(* of workers and every way to share labels: types, RoundIsWhole,          *)
(* NothingInvented and HungCostsItself.  The workers that wait and those   *)
(* that are busy are never more than the pool, and while the channel is    *)
(* open exactly those that were started; and the tally of a container      *)
(* relates its counter, the reading remembered and the one under way to    *)
(* what it really used.                                                    *)
(***************************************************************************)
EXTENDS Docker, FiniteSetTheorems, TLAPS

PoolFits == free + Cardinality(Busy) <= Workers

(* No worker is lost before the channel is closed, and it is not closed    *)
(* with a container waiting unless time is up.                             *)
Started == Smaller(Workers, Cardinality(active))
Manned ==
    /\ phase = "send" => free + Cardinality(Busy) = Started
    /\ phase = "drain" /\ ~expired => Waiting = {}

(* The reading in the hand of c's worker. *)
InHand(c) == step[c] = "inspect" /\ got[c].value > 0

(* A counter grows no faster than what is used, from the reading           *)
(* remembered to the one in hand and from each of them to now.             *)
Tally(c) ==
    /\ reported[c] <= seen[c] /\ seen[c] <= used[c]
    /\ prev[c] > 0 => usage[c] + seen[c] <= used[c] + prev[c]
    /\ InHand(c) =>
          /\ seen[c] <= got[c].used /\ got[c].used <= used[c]
          /\ usage[c] + got[c].used <= used[c] + got[c].value
          /\ prev[c] > 0 => got[c].value + seen[c] <= got[c].used + prev[c]

Tallied == \A c \in Containers : Tally(c)

DockerInv == TypeOK /\ PoolFits /\ Manned /\ RoundIsWhole /\ Tallied
-----------------------------------------------------------------------------
(* The pool.                                                               *)
LEMMA BusyFinite ==
  /\ IsFiniteSet(Busy) /\ Cardinality(Busy) \in Nat
  /\ Busy = {} <=> Cardinality(Busy) = 0
  <1>1. Busy \subseteq Containers /\ IsFiniteSet(Containers)
    BY DockerAssumption DEF Busy
  <1> QED
    BY <1>1, FS_Subset, FS_CardinalityType, FS_EmptySet

LEMMA SmallerBounds ==
  ASSUME NEW m \in Nat, NEW n \in Nat
  PROVE  Smaller(m, n) \in 0..m /\ (n = 0 => Smaller(m, n) = 0)
  BY DEF Smaller

(* What the world does leaves the collector alone.                         *)
LEMMA OutsideOnly ==
  Outside => UNCHANGED <<phase, expired, memKnown, active, pool, readings, told, falseLimit>>
  BY DEF Outside, Turn, Start, Halt, Remove, Use, Change

(* A worker that takes c is one less at the channel and one more at work.  *)
LEMMA TakesUp ==
  ASSUME TypeOK, NEW c \in Containers, step[c] \notin {"stats", "inspect"},
         step' = [step EXCEPT ![c] = "stats"]
  PROVE  Cardinality(Busy') = Cardinality(Busy) + 1
  <1>1. c \notin Busy
    BY DEF Busy
  <1>2. Busy' = Busy \cup {c}
    BY DEF Busy, TypeOK
  <1> QED
    BY <1>1, <1>2, BusyFinite, FS_AddElement

LEMMA LaysDown ==
  ASSUME TypeOK, NEW c \in Containers, step[c] \in {"stats", "inspect"},
         step' = [step EXCEPT ![c] = "none"]
  PROVE  Cardinality(Busy') = Cardinality(Busy) - 1 /\ Cardinality(Busy) > 0
  <1>1. c \in Busy
    BY DEF Busy
  <1>2. Busy' = Busy \ {c}
    BY DEF Busy, TypeOK
  <1>3. Cardinality(Busy) # 0
    BY <1>1, BusyFinite
  <1> QED
    BY <1>1, <1>2, <1>3, BusyFinite, FS_RemoveElement

(* How the pool moves.                                                     *)
LEMMA PoolMoves ==
  ASSUME TypeOK, PoolFits, [Next]_vars
  PROVE  PoolFits' /\ free' \in 0..Workers
  <1> DEFINE G == PoolFits' /\ free' \in 0..Workers
  <1>0. Cardinality(Busy) \in Nat /\ free \in 0..Workers /\ Workers \in Nat
    BY BusyFinite, DockerAssumption DEF TypeOK
  <1>1. ASSUME UNCHANGED <<step, free>>
        PROVE  G
    <2>1. Busy' = Busy
      BY <1>1 DEF Busy
    <2> QED
      BY <1>0, <1>1, <2>1 DEF PoolFits
  <1>2. CASE Listed
    <2>1. PICK all \in SUBSET Present :
             /\ step' = [c \in Containers |-> IF c \in active' THEN "todo" ELSE "none"]
             /\ free' = Smaller(Workers, Cardinality(active'))
             /\ active' = {c \in all : life[c] = "running"}
      BY <1>2 DEF Listed
    <2>2. active' \subseteq Containers
      BY <2>1 DEF Present
    <2>3. Cardinality(active') \in Nat
      BY <2>2, DockerAssumption, FS_Subset, FS_CardinalityType
    <2>4. Busy' = {}
      BY <2>1 DEF Busy
    <2>5. Cardinality(Busy') = 0
      BY <2>4, FS_EmptySet
    <2> QED
      BY <1>0, <2>1, <2>3, <2>5, SmallerBounds DEF PoolFits
  <1>3. ASSUME NEW c \in Containers, Send(c)
        PROVE  G
    <2>1. Cardinality(Busy') = Cardinality(Busy) + 1
      BY <1>3, TakesUp DEF Send
    <2>2. free > 0 /\ free' = free - 1
      BY <1>3 DEF Send
    <2> QED
      BY <1>0, <2>1, <2>2 DEF PoolFits
  <1>4. CASE CloseChannel
    <2>1. Busy' = Busy
      BY <1>4 DEF CloseChannel, Busy, TypeOK
    <2> QED
      BY <1>0, <1>4, <2>1 DEF CloseChannel, PoolFits
  <1>5. ASSUME NEW c \in Containers, Stats(c)
        PROVE  G
    <2>1. Busy' = Busy
      BY <1>5 DEF Stats, Busy, TypeOK
    <2> QED
      BY <1>0, <1>5, <2>1 DEF Stats, PoolFits
  <1>6. ASSUME NEW c \in Containers, step[c] \in {"stats", "inspect"}, Done(c)
        PROVE  G
    <2>1. Cardinality(Busy') = Cardinality(Busy) - 1 /\ Cardinality(Busy) > 0
      BY <1>6, LaysDown DEF Done
    <2>2. free' = free + 1
      BY <1>6 DEF Done
    <2> QED
      BY <1>0, <2>1, <2>2 DEF PoolFits
  <1>7. CASE Leave
    <2>1. Busy' = Busy
      BY <1>7 DEF Leave, Busy
    <2> QED
      BY <1>0, <1>7, <2>1 DEF Leave, PoolFits
  <1>8. CASE Begin \/ Expire \/ Info \/ ListFails \/ Return \/ Outside \/ UNCHANGED vars
    BY <1>1, <1>8, OutsideOnly DEF Begin, Expire, Info, ListFails, Return, vars, pool
  <1> QED
    BY <1>2, <1>3, <1>4, <1>5, <1>6, <1>7, <1>8
       DEF Next, Collect, Worker, StatsFail, NothingToTell, Publish, Inspected

(* What the workers do leaves their number as it is.                       *)
LEMMA MannedKept ==
  ASSUME TypeOK, Manned, [Next]_vars
  PROVE  Manned'
  <1>0. free \in Nat /\ Cardinality(Busy) \in Nat
    BY BusyFinite DEF TypeOK
  <1>1. ASSUME UNCHANGED <<step, free, active>>, phase' = phase, expired \/ expired' = expired,
               phase = "drain" /\ expired => expired'
        PROVE  Manned'
    <2>1. Busy' = Busy /\ Waiting' = Waiting /\ Started' = Started
      BY <1>1 DEF Busy, Waiting, Started
    <2> QED
      BY <1>1, <2>1 DEF Manned
  <1>2. CASE Expire
    <2>1. /\ phase' = phase /\ expired'
          /\ UNCHANGED <<step, free, active>>
      BY <1>2 DEF Expire, pool
    <2>2. Busy' = Busy /\ Started' = Started
      BY <2>1 DEF Busy, Started
    <2> QED
      BY <2>1, <2>2 DEF Manned
  <1>3. ASSUME phase' \notin {"send", "drain"}
        PROVE  Manned'
    BY <1>3 DEF Manned
  <1>4. CASE Begin \/ Info \/ ListFails \/ Return
    BY <1>3, <1>4 DEF Begin, Info, ListFails, Return, Over
  <1>5. CASE Listed
    <2>1. PICK all \in SUBSET Present :
             /\ step' = [c \in Containers |-> IF c \in active' THEN "todo" ELSE "none"]
             /\ free' = Smaller(Workers, Cardinality(active'))
             /\ active' = {c \in all : life[c] = "running"}
             /\ phase' = "idle" \/ phase' = "send"
      BY <1>5 DEF Listed, Over
    <2>2. Busy' = {}
      BY <2>1 DEF Busy
    <2>3. Cardinality(Busy') = 0
      BY <2>2, FS_EmptySet
    <2>4. Cardinality(active') \in Nat
      <3>1. active' \subseteq Containers
        BY <2>1 DEF Present
      <3> QED
        BY <3>1, DockerAssumption, FS_Subset, FS_CardinalityType
    <2>5. free' = Started' /\ free' \in Nat
      BY <2>1, <2>4, DockerAssumption DEF Started, Smaller
    <2> QED
      BY <2>1, <2>3, <2>5 DEF Manned
  <1>6. ASSUME NEW c \in Containers, Send(c)
        PROVE  Manned'
    <2>1. Cardinality(Busy') = Cardinality(Busy) + 1
      BY <1>6, TakesUp DEF Send
    <2>2. /\ phase = "send" /\ phase' = phase /\ free' = free - 1
          /\ Started' = Started
      BY <1>6 DEF Send, Started
    <2> QED
      BY <1>0, <2>1, <2>2 DEF Manned
  <1>7. CASE CloseChannel
    <2>1. phase' = "drain" /\ expired' = expired
      BY <1>7 DEF CloseChannel
    <2>2. Waiting' = {}
      BY <1>7 DEF CloseChannel, Waiting
    <2> QED
      BY <2>1, <2>2 DEF Manned
  <1>8. ASSUME NEW c \in Containers, Stats(c)
        PROVE  Manned'
    <2>1. Busy' = Busy /\ Waiting' \subseteq Waiting
      BY <1>8 DEF Stats, Busy, Waiting, TypeOK
    <2>2. Started' = Started /\ UNCHANGED <<phase, expired, free>>
      BY <1>8 DEF Stats, Started
    <2> QED
      BY <2>1, <2>2 DEF Manned
  <1>9. ASSUME NEW c \in Containers, step[c] \in {"stats", "inspect"}, Done(c)
        PROVE  Manned'
    <2>1. Cardinality(Busy') = Cardinality(Busy) - 1
      BY <1>9, LaysDown DEF Done
    <2>2. Waiting' \subseteq Waiting
      BY <1>9 DEF Done, Waiting, TypeOK
    <2>3. /\ free' = free + 1 /\ Started' = Started
          /\ UNCHANGED <<phase, expired>>
      BY <1>9 DEF Done, Started
    <2> QED
      BY <1>0, <2>1, <2>2, <2>3 DEF Manned
  <1>10. CASE Leave
    <2>1. /\ phase' = "drain" /\ phase = "drain" /\ expired' = expired
          /\ Waiting' = Waiting
      BY <1>10 DEF Leave, Waiting
    <2> QED
      BY <2>1 DEF Manned
  <1>11. CASE Outside \/ UNCHANGED vars
    BY <1>1, <1>11, OutsideOnly DEF vars, pool
  <1> QED
    BY <1>2, <1>4, <1>5, <1>6, <1>7, <1>8, <1>9, <1>10, <1>11
       DEF Next, Collect, Worker, StatsFail, NothingToTell, Publish, Inspected
-----------------------------------------------------------------------------
(* Types.                                                                  *)
LEMMA diffUintType ==
  ASSUME NEW from \in Nat, NEW to \in Nat
  PROVE  /\ diffUint(from, to) \in Nat
         /\ to >= from => diffUint(from, to) = to - from
         /\ to < from => diffUint(from, to) = 0
  BY DEF diffUint

(* What the containers and the daemon are. *)
WorldTypes ==
    /\ life \in [Containers -> {"unborn", "running", "stopped", "removed"}]
    /\ usage \in [Containers -> Nat] /\ used \in [Containers -> Nat]
    /\ daemon \in {"up", "silent", "down"} /\ events \in Nat

LEMMA WorldTypesKept == WorldTypes /\ [Next]_vars => WorldTypes'
  <1> SUFFICES ASSUME WorldTypes, [Next]_vars
               PROVE  WorldTypes'
    OBVIOUS
  <1>1. CASE UNCHANGED world
    BY <1>1 DEF WorldTypes, world
  <1>2. ASSUME NEW c \in Containers, Start(c)
        PROVE  WorldTypes'
    <2>1. life' \in [Containers -> {"unborn", "running", "stopped", "removed"}]
      BY <1>2 DEF Start, WorldTypes
    <2>2. usage' \in [Containers -> Nat] /\ used' \in [Containers -> Nat]
      BY <1>2 DEF Start, WorldTypes
    <2>3. daemon' = daemon /\ events' = events + 1
      BY <1>2 DEF Start, Change
    <2> QED
      BY <2>1, <2>2, <2>3 DEF WorldTypes
  <1>3. ASSUME NEW c \in Containers, Halt(c) \/ Remove(c)
        PROVE  WorldTypes'
    <2>1. life' \in [Containers -> {"unborn", "running", "stopped", "removed"}]
      BY <1>3 DEF Halt, Remove, WorldTypes
    <2>2. events' = events + 1 /\ UNCHANGED <<usage, used, daemon>>
      BY <1>3 DEF Halt, Remove, Change
    <2> QED
      BY <2>1, <2>2 DEF WorldTypes
  <1>4. ASSUME NEW c \in Containers, Use(c)
        PROVE  WorldTypes'
    BY <1>4 DEF Use, WorldTypes
  <1>5. CASE Turn
    BY <1>5 DEF Turn, Change, WorldTypes
  <1> QED
    BY <1>1, <1>2, <1>3, <1>4, <1>5
       DEF Next, Outside, Collect, Worker, Begin, Expire, Info, Listed, ListFails, Send,
           CloseChannel, Return, Stats, StatsFail, NothingToTell, Publish, Done, Leave, vars

(* Where the round and its pieces are. *)
RoundTypes ==
    /\ phase \in {"idle", "info", "list", "send", "drain"}
    /\ expired \in BOOLEAN /\ memKnown \in BOOLEAN /\ falseLimit \in BOOLEAN
    /\ active \subseteq Containers
    /\ step \in [Containers -> {"none", "todo", "stats", "inspect"}]
    /\ told \in [Containers -> {"nothing", "up", "down"}]

LEMMA RoundTypesKept == RoundTypes /\ [Next]_vars => RoundTypes'
  <1> SUFFICES ASSUME RoundTypes, [Next]_vars
               PROVE  RoundTypes'
    OBVIOUS
  <1> USE DEF RoundTypes
  <1>1. CASE UNCHANGED <<phase, expired, memKnown, falseLimit, active, step, told>>
    BY <1>1
  <1>2. CASE Begin \/ Expire \/ Info
    BY <1>2 DEF Begin, Expire, Info, pool
  <1>3. CASE Listed
    <2>1. PICK all \in SUBSET Present :
             /\ told' = Up(all)
             /\ active' = {c \in all : life[c] = "running"}
             /\ step' = [c \in Containers |-> IF c \in active' THEN "todo" ELSE "none"]
             /\ \/ Over
                \/ phase' = "send" /\ UNCHANGED <<expired, falseLimit>>
      BY <1>3 DEF Listed
    <2>2. told' \in [Containers -> {"nothing", "up", "down"}]
      BY <2>1 DEF Up
    <2>3. step' \in [Containers -> {"none", "todo", "stats", "inspect"}]
      BY <2>1
    <2>4. active' \subseteq Containers
      BY <2>1 DEF Present
    <2>5. phase' \in {"idle", "send"} /\ expired' \in BOOLEAN /\ falseLimit' \in BOOLEAN
      BY <2>1 DEF Over
    <2>6. memKnown' = memKnown
      BY <1>3 DEF Listed
    <2> QED
      BY <2>2, <2>3, <2>4, <2>5, <2>6
  <1>4. CASE ListFails \/ Return
    BY <1>4 DEF ListFails, Return, Over, pool
  <1>5. ASSUME NEW c \in Containers, Send(c) \/ Stats(c)
        PROVE  RoundTypes'
    <2>1. step' \in [Containers -> {"none", "todo", "stats", "inspect"}]
      BY <1>5 DEF Send, Stats
    <2>2. UNCHANGED <<phase, expired, memKnown, falseLimit, active, told>>
      BY <1>5 DEF Send, Stats
    <2> QED
      BY <2>1, <2>2
  <1>6. CASE CloseChannel
    BY <1>6 DEF CloseChannel
  <1>7. ASSUME NEW c \in Containers, Done(c), falseLimit' \in BOOLEAN
        PROVE  RoundTypes'
    <2>1. step' \in [Containers -> {"none", "todo", "stats", "inspect"}]
      BY <1>7 DEF Done
    <2>2. UNCHANGED <<phase, expired, memKnown, active, told>>
      BY <1>7 DEF Done
    <2> QED
      BY <1>7, <2>1, <2>2
  <1>8. CASE Leave \/ Outside \/ UNCHANGED vars
    BY <1>1, <1>8, OutsideOnly DEF Leave, vars, pool
  <1>9. ASSUME NEW c \in Containers, StatsFail(c) \/ NothingToTell(c) \/ Publish(c)
        PROVE  Done(c) /\ falseLimit' \in BOOLEAN
    BY <1>9 DEF StatsFail, NothingToTell, Publish
  <1> QED
    BY <1>2, <1>3, <1>4, <1>5, <1>6, <1>7, <1>8, <1>9 DEF Next, Collect, Worker

(* The readings. *)
CountTypes ==
    /\ got \in [Containers -> Reading]
    /\ prev \in [Containers -> Nat] /\ seen \in [Containers -> Nat]
    /\ reported \in [Containers -> Nat]
    /\ total \in [Labels -> Nat] /\ sent \in [Labels -> Nat]

LEMMA CountTypesKept == CountTypes /\ WorldTypes /\ [Next]_vars => CountTypes'
  <1> SUFFICES ASSUME CountTypes, WorldTypes, [Next]_vars
               PROVE  CountTypes'
    OBVIOUS
  <1> USE DEF CountTypes
  <1>1. CASE UNCHANGED <<got, readings>>
    BY <1>1 DEF readings, Labels
  <1>2. CASE UNCHANGED <<got, seen, reported, total, sent>> /\ \E S : Keep(S)
    <2>1. prev' \in [Containers -> Nat]
      BY <1>2 DEF Keep
    <2> QED
      BY <1>2, <2>1 DEF Labels
  <1>3. CASE Listed
    <2>1. UNCHANGED <<got, seen, reported, total, sent>>
      BY <1>3 DEF Listed
    <2>2. (\E S : Keep(S)) \/ prev' = prev
      BY <1>3 DEF Listed
    <2> QED
      BY <1>1, <1>2, <2>1, <2>2 DEF readings
  <1>4. CASE Return
    BY <1>2, <1>4 DEF Return, pool
  <1>5. ASSUME NEW c \in Containers, Stats(c)
        PROVE  CountTypes'
    <2>1. [value |-> usage[c], used |-> used[c]] \in Reading /\ Zeros \in Reading
      BY DEF Reading, Zeros, WorldTypes
    <2>2. got' \in [Containers -> Reading]
      BY <1>5, <2>1 DEF Stats
    <2> QED
      BY <1>5, <2>2 DEF Stats, readings, Labels
  <1>6. ASSUME NEW c \in Containers, Done(c)
        PROVE  got' \in [Containers -> Reading]
    <2>1. Zeros \in Reading
      BY DEF Reading, Zeros
    <2> QED
      BY <1>6, <2>1 DEF Done
  <1>7. ASSUME NEW c \in Containers, StatsFail(c) \/ NothingToTell(c)
        PROVE  CountTypes'
    BY <1>6, <1>7 DEF StatsFail, NothingToTell, readings, Labels
  <1>8. ASSUME NEW c \in Containers, Publish(c)
        PROVE  CountTypes'
    <2>1. got[c].value \in Nat /\ got[c].used \in Nat
      BY DEF Reading
    <2>2. prev' \in [Containers -> Nat] /\ seen' \in [Containers -> Nat]
      BY <1>8, <2>1 DEF Publish, Exchange
    <2>3. reported' \in [Containers -> Nat]
      <3>1. diffUint(prev[c], got[c].value) \in Nat
        BY <2>1, diffUintType
      <3> QED
        BY <1>8, <3>1 DEF Publish, Exchange
    <2>4. total' \in [Labels -> Nat] /\ sent' \in [Labels -> Nat]
      <3>1. Service[c] \in Labels
        BY DEF Labels
      <3>2. CASE Total(Service[c], got[c].value)
        <4>1. diffUint(total[Service[c]], got[c].value) \in Nat
          BY <2>1, <3>1, diffUintType
        <4> QED
          BY <2>1, <3>1, <3>2, <4>1 DEF Total
      <3> QED
        BY <1>8, <3>2 DEF Publish
    <2>5. got' \in [Containers -> Reading]
      BY <1>6, <1>8 DEF Publish
    <2> QED
      BY <2>2, <2>3, <2>4, <2>5 DEF Labels
  <1>9. CASE Begin \/ Expire \/ Info \/ ListFails \/ CloseChannel \/ Leave \/ Outside
             \/ UNCHANGED vars \/ \E c \in Containers : Send(c)
    BY <1>1, <1>9, OutsideOnly
       DEF Begin, Expire, Info, ListFails, CloseChannel, Leave, Send, vars, pool
  <1> QED
    BY <1>3, <1>4, <1>5, <1>7, <1>8, <1>9 DEF Next, Collect, Worker

LEMMA TypeParts == TypeOK <=> WorldTypes /\ RoundTypes /\ CountTypes /\ free \in 0..Workers
  BY DEF TypeOK, WorldTypes, RoundTypes, CountTypes
-----------------------------------------------------------------------------
(* Between rounds no worker is left, and no reading is kept of what was    *)
(* not listed.                                                             *)
LEMMA WholeKept ==
  ASSUME TypeOK, RoundIsWhole, [Next]_vars
  PROVE  RoundIsWhole'
  <1> DEFINE Between == phase \in {"idle", "info", "list"}
  <1>1. ASSUME UNCHANGED <<step, free, active, prev>>, Between' => Between
        PROVE  RoundIsWhole'
    BY <1>1 DEF RoundIsWhole, WorkersGone, Busy, Remembered
  <1>2. CASE Listed
    <2>1. PICK all \in SUBSET Present :
             /\ active' = {c \in all : life[c] = "running"}
             /\ step' = [c \in Containers |-> IF c \in active' THEN "todo" ELSE "none"]
             /\ free' = Smaller(Workers, Cardinality(active'))
             /\ \/ active' = {} /\ Keep({})
                \/ phase' = "send"
      BY <1>2 DEF Listed
    <2>2. CASE phase' = "send"
      BY <2>2 DEF RoundIsWhole
    <2>3. CASE active' = {} /\ Keep({})
      <3>1. Busy' = {}
        BY <2>1 DEF Busy
      <3>2. free' = 0
        <4>1. Cardinality(active') = 0
          BY <2>3, FS_EmptySet
        <4> QED
          BY <2>1, <4>1, DockerAssumption, SmallerBounds
      <3>3. Remembered' = {}
        BY <2>3 DEF Keep, Remembered
      <3> QED
        BY <3>1, <3>2, <3>3 DEF RoundIsWhole, WorkersGone
    <2> QED
      BY <2>1, <2>2, <2>3
  <1>3. CASE Return
    <2>1. WorkersGone'
      BY <1>3 DEF Return, WorkersGone, Busy, pool
    <2>2. Remembered' \subseteq active'
      BY <1>3 DEF Return, Keep, Remembered
    <2> QED
      BY <2>1, <2>2 DEF RoundIsWhole
  <1>4. CASE Begin \/ Expire \/ Info \/ ListFails
    BY <1>1, <1>4 DEF Begin, Expire, Info, ListFails, pool, readings
  <1>5. CASE CloseChannel \/ Leave \/ \E c \in Containers : Send(c)
    BY <1>5 DEF CloseChannel, Leave, Send, RoundIsWhole
  <1>6. ASSUME NEW c \in Containers, step[c] \in {"stats", "inspect"}, phase' = phase
        PROVE  RoundIsWhole'
    BY <1>6 DEF RoundIsWhole, WorkersGone, Busy
  <1>7. ASSUME NEW c \in Containers,
               Stats(c) \/ StatsFail(c) \/ NothingToTell(c) \/ Publish(c)
        PROVE  RoundIsWhole'
    <2>1. step[c] \in {"stats", "inspect"} /\ phase' = phase
      BY <1>7 DEF Stats, StatsFail, NothingToTell, Publish, Inspected, Done
    <2> QED
      BY <1>6, <2>1
  <1>8. CASE Outside \/ UNCHANGED vars
    BY <1>1, <1>8, OutsideOnly DEF vars, pool, readings
  <1> QED
    BY <1>2, <1>3, <1>4, <1>5, <1>7, <1>8 DEF Next, Collect, Worker
-----------------------------------------------------------------------------
(* The tally of a container.                                               *)

(* It depends on the container alone, and forgetting its reading or        *)
(* finishing with it claims no more.                                       *)
LEMMA TallyLoosens ==
  ASSUME TypeOK, NEW c \in Containers, Tally(c),
         usage'[c] = usage[c], used'[c] = used[c], got'[c] = got[c],
         reported'[c] = reported[c], seen'[c] = seen[c],
         prev'[c] = prev[c] \/ prev'[c] = 0,
         step'[c] = "inspect" => step[c] = "inspect"
  PROVE  Tally(c)'
  BY DEF Tally, InHand

LEMMA TallyKept ==
  ASSUME TypeOK, Tallied, [Next]_vars
  PROVE  Tallied'
  <1> SUFFICES ASSUME NEW c \in Containers
               PROVE  Tally(c)'
    BY DEF Tallied
  <1>1. Tally(c)
    BY DEF Tallied
  <1>2. /\ usage[c] \in Nat /\ used[c] \in Nat /\ seen[c] \in Nat
        /\ reported[c] \in Nat /\ prev[c] \in Nat
        /\ got[c].value \in Nat /\ got[c].used \in Nat
    BY DEF TypeOK, Reading
  <1>3. ASSUME UNCHANGED <<usage, used, got, reported, seen>>,
               prev'[c] = prev[c] \/ prev'[c] = 0,
               step'[c] = "inspect" => step[c] = "inspect"
        PROVE  Tally(c)'
    BY <1>1, <1>3, TallyLoosens
  <1>4. ASSUME NEW d \in Containers, Start(d)
        PROVE  Tally(c)'
    <2>1. UNCHANGED <<pool, readings>>
      BY <1>4 DEF Start, Change
    <2>2. CASE c # d
      <3>1. usage'[c] = usage[c] /\ used'[c] = used[c]
        BY <1>4, <2>2 DEF Start, TypeOK
      <3> QED
        BY <1>1, <2>1, <3>1, TallyLoosens DEF pool, readings
    <2>3. CASE c = d
      <3>1. usage'[c] = 1 /\ used'[c] = used[c] + 1
        BY <1>4, <2>3 DEF Start, TypeOK
      <3> QED
        BY <1>1, <1>2, <2>1, <3>1 DEF Tally, InHand, pool, readings
    <2> QED
      BY <2>2, <2>3
  <1>5. ASSUME NEW d \in Containers, Use(d)
        PROVE  Tally(c)'
    <2>1. UNCHANGED <<pool, readings>>
      BY <1>5 DEF Use
    <2>2. CASE c # d
      <3>1. usage'[c] = usage[c] /\ used'[c] = used[c]
        BY <1>5, <2>2 DEF Use, TypeOK
      <3> QED
        BY <1>1, <2>1, <3>1, TallyLoosens DEF pool, readings
    <2>3. CASE c = d
      <3>1. usage'[c] = usage[c] + 1 /\ used'[c] = used[c] + 1
        BY <1>5, <2>3 DEF Use, TypeOK
      <3> QED
        BY <1>1, <1>2, <2>1, <3>1 DEF Tally, InHand, pool, readings
    <2> QED
      BY <2>2, <2>3
  <1>6. ASSUME NEW d \in Containers, Halt(d) \/ Remove(d)
        PROVE  Tally(c)'
    BY <1>3, <1>6 DEF Halt, Remove, Change, pool, readings
  <1>7. CASE Turn \/ Begin \/ Expire \/ Info \/ ListFails \/ Leave \/ UNCHANGED vars
    BY <1>3, <1>7 DEF Turn, Change, Begin, Expire, Info, ListFails, Leave, vars, world, pool, readings
  <1>8. CASE Listed
    <2>1. step'[c] # "inspect"
      BY <1>8 DEF Listed
    <2>2. prev'[c] = prev[c] \/ prev'[c] = 0
      BY <1>8 DEF Listed, Keep
    <2>3. UNCHANGED <<usage, used, got, reported, seen>>
      BY <1>8 DEF Listed, world
    <2> QED
      BY <1>3, <2>1, <2>2, <2>3
  <1>9. CASE CloseChannel \/ Return
    <2>1. step'[c] = "inspect" => step[c] = "inspect"
      BY <1>9 DEF CloseChannel, Return, pool
    <2>2. prev'[c] = prev[c] \/ prev'[c] = 0
      BY <1>9 DEF CloseChannel, Return, Keep, readings
    <2>3. UNCHANGED <<usage, used, got, reported, seen>>
      BY <1>9 DEF CloseChannel, Return, world, pool, readings
    <2> QED
      BY <1>3, <2>1, <2>2, <2>3
  <1>10. ASSUME NEW d \in Containers, Send(d)
         PROVE  Tally(c)'
    <2>1. step'[c] = "inspect" => step[c] = "inspect"
      BY <1>10 DEF Send, TypeOK
    <2> QED
      BY <1>3, <1>10, <2>1 DEF Send, world, readings
  <1>11. ASSUME NEW d \in Containers, Stats(d)
         PROVE  Tally(c)'
    <2>1. UNCHANGED <<world, readings>>
      BY <1>11 DEF Stats
    <2>2. CASE c # d
      <3>1. step'[c] = step[c] /\ got'[c] = got[c]
        BY <1>11, <2>2 DEF Stats, TypeOK
      <3> QED
        BY <1>1, <2>1, <3>1, TallyLoosens DEF world, readings
    <2>3. CASE c = d
      <3>1. got'[c] = [value |-> usage[c], used |-> used[c]] \/ got'[c] = Zeros
        BY <1>11, <2>3 DEF Stats, TypeOK
      <3>2. \/ got'[c].value = usage[c] /\ got'[c].used = used[c]
            \/ got'[c].value = 0
        BY <3>1 DEF Zeros
      <3>3. UNCHANGED <<usage, used, prev, seen, reported>>
        BY <2>1 DEF world, readings
      <3> QED
        BY <1>1, <1>2, <3>2, <3>3 DEF Tally, InHand
    <2> QED
      BY <2>2, <2>3
  <1>12. ASSUME NEW d \in Containers, StatsFail(d) \/ NothingToTell(d) \/ Publish(d), c # d
         PROVE  Tally(c)'
    <2>1. Done(d)
      BY <1>12 DEF StatsFail, NothingToTell, Publish
    <2>2. step'[c] = step[c] /\ got'[c] = got[c] /\ UNCHANGED <<usage, used>>
      BY <1>12, <2>1 DEF Done, TypeOK, world
    <2>3. prev'[c] = prev[c] /\ seen'[c] = seen[c] /\ reported'[c] = reported[c]
      BY <1>12 DEF StatsFail, NothingToTell, Publish, Exchange, TypeOK, readings
    <2> QED
      BY <1>1, <2>2, <2>3, TallyLoosens
  <1>13. CASE StatsFail(c) \/ NothingToTell(c)
    <2>1. step'[c] = "none"
      BY <1>13 DEF StatsFail, NothingToTell, Done, TypeOK
    <2>2. UNCHANGED <<usage, used, prev, seen, reported>>
      BY <1>13 DEF StatsFail, NothingToTell, Done, world, readings
    <2> QED
      BY <1>1, <2>1, <2>2 DEF Tally, InHand
  <1>14. CASE Publish(c)
    <2>1. InHand(c) /\ Done(c) /\ Exchange(c, got[c])
      BY <1>14 DEF Publish, Inspected, InHand
    <2>2. step'[c] = "none" /\ UNCHANGED <<usage, used>>
      BY <2>1 DEF Done, TypeOK, world
    <2>3. /\ prev'[c] = got[c].value /\ seen'[c] = got[c].used
          /\ reported'[c] = IF prev[c] = 0 THEN reported[c]
                             ELSE reported[c] + diffUint(prev[c], got[c].value)
      BY <2>1 DEF Exchange, TypeOK
    <2>4. /\ got[c].value >= prev[c] =>
                diffUint(prev[c], got[c].value) = got[c].value - prev[c]
          /\ got[c].value < prev[c] => diffUint(prev[c], got[c].value) = 0
      BY <1>2, diffUintType
    <2>5. reported'[c] <= seen'[c]
      BY <1>1, <1>2, <2>1, <2>3, <2>4 DEF Tally
    <2> QED
      BY <1>1, <1>2, <2>1, <2>2, <2>3, <2>5 DEF Tally, InHand
  <1> QED
    BY <1>4, <1>5, <1>6, <1>7, <1>8, <1>9, <1>10, <1>11, <1>12, <1>13, <1>14
       DEF Next, Outside, Collect, Worker
-----------------------------------------------------------------------------
LEMMA InitHolds == Init => DockerInv
  <1> SUFFICES ASSUME Init
               PROVE  DockerInv
    OBVIOUS
  <1>1. TypeOK
    <2>1. WorldTypes
      BY DEF Init, WorldTypes
    <2>2. RoundTypes
      BY DEF Init, RoundTypes
    <2>3. CountTypes
      BY DEF Init, CountTypes, Reading, Zeros
    <2>4. free \in 0..Workers
      BY DockerAssumption DEF Init
    <2> QED
      BY <2>1, <2>2, <2>3, <2>4, TypeParts
  <1>2. Busy = {}
    BY DEF Init, Busy
  <1>3. PoolFits /\ Manned
    BY <1>2, FS_EmptySet, DockerAssumption DEF Init, PoolFits, Manned
  <1>4. RoundIsWhole
    BY <1>2 DEF Init, RoundIsWhole, WorkersGone, Remembered
  <1>5. Tallied
    BY <1>1 DEF Init, Tallied, Tally, InHand, TypeOK
  <1> QED
    BY <1>1, <1>3, <1>4, <1>5 DEF DockerInv

LEMMA InvHolds == Spec => []DockerInv
  <1>1. DockerInv /\ [Next]_vars => DockerInv'
    <2> SUFFICES ASSUME DockerInv, [Next]_vars
                 PROVE  DockerInv'
      OBVIOUS
    <2>1. TypeOK /\ PoolFits /\ Manned /\ RoundIsWhole /\ Tallied
      BY DEF DockerInv
    <2>2. PoolFits' /\ free' \in 0..Workers
      BY <2>1, PoolMoves
    <2>3. TypeOK'
      BY <2>1, <2>2, TypeParts, WorldTypesKept, RoundTypesKept, CountTypesKept
         DEF TypeOK, WorldTypes, RoundTypes, CountTypes
    <2> QED
      BY <2>1, <2>2, <2>3, MannedKept, WholeKept, TallyKept DEF DockerInv
  <1> QED
    BY <1>1, InitHolds, PTL DEF Spec

(* Every variable keeps its type; a counter that starts again never makes  *)
(* a difference negative (cpu.go:42-110, 234-370, 440-445).                *)
THEOREM TypesHold == Spec => []TypeOK
  BY InvHolds, PTL DEF DockerInv

(* No worker outlives its round, and no reading the listing it was taken   *)
(* for (cpu.go:66-110).                                                    *)
THEOREM RoundIsWholeHolds == Spec => []RoundIsWhole
  BY InvHolds, PTL DEF DockerInv

(* What is published of a container's CPU time is never more than it used  *)
(* (cpu.go:315-370).                                                       *)
THEOREM NothingInventedHolds == Spec => []NothingInvented
  <1>1. DockerInv => NothingInvented
    <2> SUFFICES ASSUME DockerInv, NEW c \in Containers
                 PROVE  reported[c] <= used[c]
      BY DEF NothingInvented
    <2>1. reported[c] \in Nat /\ seen[c] \in Nat /\ used[c] \in Nat
      BY DEF DockerInv, TypeOK
    <2>2. reported[c] <= seen[c] /\ seen[c] <= used[c]
      BY DEF DockerInv, Tallied, Tally
    <2> QED
      BY <2>1, <2>2
  <1> QED
    BY <1>1, InvHolds, PTL

(* A container whose statistics never come costs the others no worker      *)
(* (cpu.go:66-110).                                                        *)
THEOREM HungCostsItselfHolds == Spec => []HungCostsItself
  <1> DEFINE Stuck == {c \in Hang \cap Present : step[c] = "stats"}
  <1>1. DockerInv => HungCostsItself
    <2> SUFFICES ASSUME DockerInv, phase \in {"send", "drain"}, ~expired,
                        free = 0, Busy = Stuck, Cardinality(Stuck) < Started,
                        NEW c \in active \ Hang
                 PROVE  step[c] = "none"
      BY DEF HungCostsItself, Started
    <2> HIDE DEF Stuck
    <2>1. Cardinality(Busy) \in Nat /\ c \in Containers
      BY BusyFinite DEF DockerInv, TypeOK
    <2>2. phase # "send"
      <3>1. free + Cardinality(Busy) # Started
        BY <2>1
      <3> QED
        BY <3>1 DEF DockerInv, Manned
    <2>3. Waiting = {}
      BY <2>2 DEF DockerInv, Manned
    <2>4. c \notin Busy
      BY DEF Stuck
    <2> QED
      BY <2>1, <2>3, <2>4 DEF Waiting, Busy, DockerInv, TypeOK
  <1> QED
    BY <1>1, InvHolds, PTL
=============================================================================
