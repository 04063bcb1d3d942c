-------------------------- MODULE InstancesProofs --------------------------
(***************************************************************************)
(* Proofs about Instances for every list of instances and all times that   *)
(* leave the room RoomAssumption asks for.                                 *)
(*   LinkInv    who holds which connection: TypeOK, Owned, CleanConn       *)
(*   ClockInv   how far a round can run: InTime                            *)
(***************************************************************************)
EXTENDS Instances, TLAPS

(* The parts of Collect an integration goes through, and the instance it   *)
(* is at while it does.                                                    *)
Route ==
    /\ pc \in Waiting \cup {"closing"} => pos \in 1 .. Len(Order)
    /\ pc = "connect" => kind \in {"postgres", "redis"}
    /\ pc = "login" => kind \in {"redis", "mongo"}
    /\ pc = "extra" => kind \in {"postgres", "mysql", "rabbitmq"}

(* RabbitMQ holds nothing.  The others dial only while they hold nothing   *)
(* and ask only on what they hold; only a connection about to be dropped   *)
(* owes an answer.                                                         *)
LinkRules ==
    /\ kind = "rabbitmq" => \A j \in Instance : conn[j] = "none"
    /\ pc \in {"connect", "login"} => ~Held(inst)
    /\ pc \in {"query", "extra", "closing"} /\ kind # "rabbitmq" => Held(inst)
    /\ \A j \in unread : pc = "closing" /\ j = inst

LinkInv == TypeOK /\ Route /\ LinkRules /\ Owned

(* What the operations still ahead of the current instance can take.       *)
Ahead ==
    CASE kind = "redis" /\ pc = "connect" -> op + 2 * OpTimeout[kind]
      [] kind = "redis" /\ pc = "login" -> op + OpTimeout[kind]
      [] kind # "redis" /\ pc \in {"connect", "login", "query"} -> op + CloseTimeout
      [] pc = "extra" \/ pc = "closing" \/ (kind = "redis" /\ pc = "query") -> op
      [] OTHER -> 0

ClockInv == late + spent + Ahead <= CollectTimeout + Excess(kind)
-----------------------------------------------------------------------------
LEMMA InstHere ==
  ASSUME pos \in 1 .. Len(Order)
  PROVE  inst \in Instance
  BY InstancesAssumption DEF inst, Instance

LEMMA OpDeadlineType ==
  ASSUME TypeOK
  PROVE  /\ Ctx \in Nat
         /\ OpDeadline \in Nat
         /\ kind # "redis" => OpDeadline <= Ctx
         /\ kind = "redis" => OpDeadline = OpTimeout[kind]
  <1>1. Ctx \in Nat
    BY TimeAssumption DEF TypeOK, Ctx, Larger
  <1>2. OpTimeout[kind] \in Nat
    BY InstancesAssumption, TimeAssumption DEF TypeOK
  <1> QED
    BY <1>1, <1>2 DEF OpDeadline, HeedsContext, Smaller

LEMMA CloseTimeoutType == CloseTimeout \in 0 .. 1
  BY DEF CloseTimeout, CloseTimeoutOf
-----------------------------------------------------------------------------
LEMMA LinkInit == Init => LinkInv
  <1> SUFFICES ASSUME Init PROVE LinkInv
    OBVIOUS
  <1>1. Len(Order) \in Nat
    BY InstancesAssumption
  <1>2. 0 \in 0 .. RetryEvery /\ 0 \in Nat /\ 1 \in 1 .. Len(Order) + 1
    BY <1>1, TimeAssumption
  <1>3. TypeOK
    BY <1>2 DEF Init, TypeOK, Places, Links
  <1>4. Route /\ LinkRules /\ Owned
    BY DEF Init, Route, LinkRules, Owned, Held, Waiting
  <1> QED
    BY <1>3, <1>4 DEF LinkInv

LEMMA LinkStep == LinkInv /\ [Next]_vars => LinkInv'
  <1> SUFFICES ASSUME LinkInv, [Next]_vars PROVE LinkInv'
    OBVIOUS
  <1> USE DEF LinkInv
  <1>0. Len(Order) \in Nat /\ Order \in Seq(Instance)
    BY InstancesAssumption
  <1>a. pos \in 1 .. Len(Order) => inst \in Instance
    BY InstHere
  <1>1. CASE Round
    <2>1. spent \in Nat /\ late' \in Nat /\ late \in Nat
      BY <1>1, TimeAssumption DEF Round, TypeOK
    <2>2. Every[kind] \in Nat
      BY TimeAssumption, InstancesAssumption DEF TypeOK
    <2> DEFINE passed == Larger(Every[kind], late + spent) - late + late'
    <2>3. passed \in Nat
      <3>1. \A e, l, s, n \in Nat : Larger(e, l + s) - l + n \in Nat
        BY DEF Larger
      <3> QED
        BY <2>1, <2>2, <3>1
    <2>4. \A n \in 0 .. RetryEvery : Larger(0, n - passed) \in 0 .. RetryEvery
      BY <2>3, TimeAssumption DEF Larger
    <2>5. wait' = [j \in Instance |-> Larger(0, wait[j] - passed)]
      BY <1>1 DEF Round
    <2> HIDE DEF passed
    <2>6. wait' \in [Instance -> 0 .. RetryEvery]
      BY <2>4, <2>5 DEF TypeOK
    <2>7. TypeOK'
      BY <1>0, <1>1, <2>1, <2>6 DEF Round, TypeOK, Places, links, outside
    <2>8. Route' /\ LinkRules' /\ Owned'
      BY <1>1 DEF Round, Route, LinkRules, Owned, Held, inst, Waiting, links, outside
    <2> QED
      BY <2>7, <2>8
  <1>2. CASE Return
    <2>1. TypeOK'
      BY <1>2 DEF Return, TypeOK, Places, clock, links, outside
    <2>2. Route' /\ LinkRules' /\ Owned'
      BY <1>2 DEF Return, Route, LinkRules, Owned, Held, inst, Waiting, links, outside
    <2> QED
      BY <2>1, <2>2
  <1>3. CASE Skip
    <2>1. TypeOK'
      BY <1>0, <1>3 DEF Skip, TypeOK, clock, links, outside
    <2>2. Route' /\ LinkRules' /\ Owned'
      BY <1>3 DEF Skip, Route, LinkRules, Owned, Held, inst, Waiting, links, outside
    <2> QED
      BY <2>1, <2>2
  <1>4. CASE Try
    <2>1. pos \in 1 .. Len(Order) /\ pc = "loop" /\ inst \in Instance
      BY <1>0, <1>a, <1>4 DEF Try, Reuse, Dial, OpenPool, StartClient, Due, TypeOK
    <2>2. OpDeadline \in Nat
      BY OpDeadlineType
    <2>3. inst' = inst
      BY <1>4 DEF Try, Reuse, Dial, OpenPool, StartClient, inst
    <2>4. sessions[inst] \in Nat /\ (~Usable => ~Held(inst))
      BY <2>1 DEF TypeOK, Usable, Held
    <2>5. TypeOK'
      <3>1. CASE Reuse \/ Dial
        BY <2>2, <3>1 DEF Reuse, Dial, Begin, TypeOK, Places, clock, links, outside
      <3>2. CASE OpenPool
        BY <2>1, <2>2, <2>4, <3>2 DEF OpenPool, Begin, TypeOK, Places, Links, clock, outside
      <3>3. CASE StartClient
        BY <2>1, <2>2, <2>4, <3>3 DEF StartClient, Begin, TypeOK, Places, clock, outside
      <3> QED
        BY <1>4, <3>1, <3>2, <3>3 DEF Try
    <2>6. Route'
      BY <1>4, <2>1 DEF Try, Reuse, Dial, OpenPool, StartClient, Begin, Route, Waiting,
         links, outside
    <2>7. LinkRules'
      BY <1>4, <2>1, <2>3, <2>4
         DEF Try, Reuse, Dial, OpenPool, StartClient, Begin, LinkRules, Held, TypeOK,
             Usable, links, outside
    <2>8. Owned'
      BY <1>4, <2>1, <2>3, <2>4
         DEF Try, Reuse, Dial, OpenPool, StartClient, Begin, Owned, Held, TypeOK,
             links, outside
    <2> QED
      BY <2>5, <2>6, <2>7, <2>8
  <1>5. CASE Succeed
    <2>1. pos \in 1 .. Len(Order) /\ inst \in Instance /\ pos + 1 \in 1 .. Len(Order) + 1
      BY <1>0, <1>a, <1>5 DEF Succeed, Connected, LoggedIn, Answered, Finished, Route, Waiting
    <2>2. OpDeadline \in Nat
      BY OpDeadlineType
    <2>3. sessions[inst] \in Nat
      BY <2>1 DEF TypeOK
    <2>4. pc \in {"query", "extra"} /\ kind # "rabbitmq" => Held(inst) /\ sessions[inst] = 1
      BY <2>1 DEF LinkRules, Owned
    <2>5. pc \in {"connect"} => sessions[inst] = 0
      BY <2>1 DEF LinkRules, Owned
    <2>6. pc = "login" => sessions[inst] = 1
      BY <2>1 DEF Owned
    <2>7. CASE Connected
      <3>1. inst' = inst
        BY <2>7 DEF Connected, inst
      <3>2. TypeOK'
        BY <2>1, <2>2, <2>3, <2>7 DEF Connected, Begin, Keep, TypeOK, Places, Links, clock, outside
      <3>3. Route' /\ LinkRules'
        BY <2>1, <2>7, <3>1 DEF Connected, Begin, Keep, Route, LinkRules, Held, TypeOK, Waiting, outside
      <3>4. Owned'
        BY <2>1, <2>5, <2>7, <3>1 DEF Connected, Begin, Keep, Owned, Held, TypeOK, LinkRules, outside
      <3> QED
        BY <3>2, <3>3, <3>4
    <2>8. CASE LoggedIn
      <3>1. inst' = inst
        BY <2>8 DEF LoggedIn, inst
      <3>2. TypeOK'
        BY <2>1, <2>2, <2>8 DEF LoggedIn, Begin, Keep, TypeOK, Places, Links, clock, outside
      <3>3. Route' /\ LinkRules'
        BY <2>1, <2>8, <3>1 DEF LoggedIn, Begin, Keep, Route, LinkRules, Held, TypeOK, Waiting, outside
      <3>4. Owned'
        BY <2>1, <2>6, <2>8, <3>1 DEF LoggedIn, Begin, Keep, Owned, Held, TypeOK, outside
      <3> QED
        BY <3>2, <3>3, <3>4
    <2>9. CASE Answered
      <3>1. TypeOK'
        <4>1. conn' \in [Instance -> Links]
          BY <2>1, <2>9 DEF Answered, Keep, TypeOK, Links
        <4>2. op' \in Nat
          <5>1. Smaller(2 * OpTimeout[kind], Ctx) \in Nat
            BY OpDeadlineType, InstancesAssumption, TimeAssumption DEF TypeOK, Smaller
          <5> QED
            BY <2>2, <2>9, <5>1 DEF Answered, TypeOK
        <4>3. pc' \in Places /\ pos' \in 1 .. Len(Order) + 1
          BY <2>1, <2>9 DEF Answered, Begin, TypeOK, Places
        <4> QED
          BY <2>9, <4>1, <4>2, <4>3 DEF Answered, TypeOK, clock, outside
      <3>2. pc' = "extra" => inst' = inst
        BY <2>9 DEF Answered, Begin, inst
      <3>3. \A j \in Instance : Held(j)' <=> Held(j)
        BY <2>1, <2>4, <2>9 DEF Answered, Keep, Held, TypeOK, LinkRules
      <3>4. Route' /\ LinkRules'
        BY <2>1, <2>4, <2>9, <3>2, <3>3
           DEF Answered, Begin, Keep, Route, LinkRules, TypeOK, Waiting, outside
      <3>5. Owned'
        BY <2>9, <3>3 DEF Answered, Begin, Owned
      <3> QED
        BY <3>1, <3>4, <3>5
    <2>10. CASE Finished
      <3>1. TypeOK'
        BY <2>1, <2>3, <2>4, <2>10 DEF Finished, Keep, TypeOK, Places, Links, clock, links, outside
      <3>2. Route' /\ LinkRules'
        BY <2>1, <2>10 DEF Finished, Keep, Route, LinkRules, Held, TypeOK, Waiting, links, outside
      <3>3. Owned'
        BY <2>1, <2>4, <2>10 DEF Finished, Keep, Owned, Held, TypeOK, links, outside
      <3> QED
        BY <3>1, <3>2, <3>3
    <2> QED
      BY <1>5, <2>7, <2>8, <2>9, <2>10 DEF Succeed
  <1>6. CASE Fail
    <2>1. pos \in 1 .. Len(Order) /\ inst \in Instance /\ pos + 1 \in 1 .. Len(Order) + 1
      BY <1>0, <1>a, <1>6
         DEF Fail, ConnectFails, LoginFails, QueryFails, SaidGoodbye, Route, Waiting
    <2>2. sessions[inst] \in Nat /\ RetryEvery \in 0 .. RetryEvery
      BY <2>1, TimeAssumption DEF TypeOK
    <2>3. CASE ConnectFails
      <3>1. TypeOK'
        BY <2>1, <2>2, <2>3 DEF ConnectFails, PutOff, TypeOK, Places, clock, links, outside
      <3>2. Route' /\ LinkRules' /\ Owned'
        BY <2>3 DEF ConnectFails, PutOff, Route, LinkRules, Owned, Held, Waiting, links, outside
      <3> QED
        BY <3>1, <3>2
    <2>4. CASE LoginFails
      <3>1. sessions[inst] = 1
        BY <2>1, <2>4 DEF LoginFails, Owned
      <3>2. TypeOK'
        BY <2>1, <2>2, <2>4, <3>1 DEF LoginFails, PutOff, TypeOK, Places, clock, outside
      <3>3. Route' /\ LinkRules'
        BY <2>4 DEF LoginFails, PutOff, Route, LinkRules, Held, Waiting, outside
      <3>4. Owned'
        BY <2>1, <2>4, <3>1 DEF LoginFails, PutOff, Owned, Held, TypeOK, LinkRules
      <3> QED
        BY <3>2, <3>3, <3>4
    <2>5. CASE QueryFails
      <3>1. inst' = inst
        BY <2>5 DEF QueryFails, inst
      <3>2. TypeOK'
        BY <2>1, <2>5, CloseTimeoutType DEF QueryFails, TypeOK, Places, clock, outside
      <3>3. Route' /\ LinkRules' /\ Owned'
        BY <2>1, <2>5, <3>1 DEF QueryFails, Route, LinkRules, Owned, Held, Waiting, outside
      <3> QED
        BY <3>2, <3>3
    <2>6. CASE SaidGoodbye
      <3>1. Held(inst) => sessions[inst] = 1
        BY <2>1 DEF Owned
      <3>2. TypeOK'
        BY <2>1, <2>2, <2>6, <3>1
           DEF SaidGoodbye, Drop, PutOff, TypeOK, Places, Links, clock, outside
      <3>3. Route' /\ LinkRules'
        BY <2>1, <2>6 DEF SaidGoodbye, Drop, PutOff, Route, LinkRules, Held, TypeOK, Waiting, outside
      <3>4. Owned'
        BY <2>1, <2>6, <3>1 DEF SaidGoodbye, Drop, PutOff, Owned, Held, TypeOK, LinkRules
      <3> QED
        BY <3>2, <3>3, <3>4
    <2> QED
      BY <1>6, <2>3, <2>4, <2>5, <2>6 DEF Fail
  <1>7. CASE Elapse
    <2>1. op - 1 \in Nat
      BY <1>7 DEF Elapse, OutOfTime, TypeOK
    <2>2. TypeOK'
      BY <1>7, <2>1 DEF Elapse, TypeOK, links, outside
    <2>3. Route' /\ LinkRules' /\ Owned'
      BY <1>7 DEF Elapse, Route, LinkRules, Owned, Held, inst, Waiting, links, outside
    <2> QED
      BY <2>2, <2>3
  <1>8. ASSUME NEW j \in Instance, NEW manner \in Manners, Change(j, manner)
        PROVE  LinkInv'
    <2>1. inst' = inst
      BY <1>8 DEF Change, inst
    <2>2. TypeOK'
      BY <1>8 DEF Change, TypeOK, Links, clock
    <2>3. \A k \in Instance : Held(k)' <=> Held(k)
      BY <1>8 DEF Change, Held, TypeOK
    <2>4. kind = "rabbitmq" => conn' = conn
      BY <1>8 DEF Change, LinkRules, TypeOK
    <2>5. LinkRules'
      <3>1. (pc \in {"query", "extra", "closing", "connect", "login"})'
              => inst \in Instance
        BY <1>8, <1>a DEF Change, Route, Waiting
      <3> QED
        BY <1>8, <2>1, <2>3, <2>4, <3>1 DEF Change, LinkRules
    <2>6. Route' /\ Owned'
      BY <1>8, <2>1, <2>3 DEF Change, Route, Owned, Waiting
    <2> QED
      BY <2>2, <2>5, <2>6
  <1>9. CASE Cancel
    <2>1. TypeOK'
      BY <1>9 DEF Cancel, TypeOK, clock, links
    <2>2. Route' /\ LinkRules' /\ Owned'
      BY <1>9 DEF Cancel, Route, LinkRules, Owned, Held, inst, Waiting, links
    <2> QED
      BY <2>1, <2>2
  <1>10. CASE Close
    <2>1. \A j \in Instance : sessions[j] = IF Held(j) THEN 1 ELSE 0
      BY <1>10 DEF Close, Owned
    <2>2. TypeOK'
      BY <1>10, <2>1 DEF Close, TypeOK, Places, Links, clock, outside
    <2>3. Route' /\ LinkRules' /\ Owned'
      BY <1>10, <2>1 DEF Close, Route, LinkRules, Owned, Held, Waiting, outside
    <2> QED
      BY <2>2, <2>3
  <1>11. CASE UNCHANGED vars
    <2>1. TypeOK'
      BY <1>11 DEF vars, TypeOK
    <2>2. Route' /\ LinkRules' /\ Owned'
      BY <1>11 DEF vars, Route, LinkRules, Owned, Held, inst, Waiting
    <2> QED
      BY <2>1, <2>2
  <1> QED
    BY <1>1, <1>2, <1>3, <1>4, <1>5, <1>6, <1>7, <1>8, <1>9, <1>10, <1>11
       DEF Next, Collect, Closed
-----------------------------------------------------------------------------
(* The connections an instance has are what TypeOK says they can be, over  *)
(* any list of instances.                                                  *)
THEOREM TypesHold == Spec => []TypeOK
  <1> QED
    BY LinkInit, LinkStep, PTL DEF Spec, LinkInv

(* No connection is leaked and none is closed twice, whatever fails and    *)
(* whenever the agent is stopped (ensureConn, dial and resetConn of the    *)
(* five collectors).                                                       *)
THEOREM OwnedHolds == Spec => []Owned
  <1> QED
    BY LinkInit, LinkStep, PTL DEF Spec, LinkInv

(* No query runs on a connection that was closed here or that still owes   *)
(* an answer: the reset after every error is enough (Collect, resetClient).*)
THEOREM CleanConnHolds == Spec => []CleanConn
  <1>1. LinkInv => CleanConn
    BY DEF LinkInv, LinkRules, CleanConn
  <1> QED
    BY <1>1, LinkInit, LinkStep, PTL DEF Spec
-----------------------------------------------------------------------------
(* Everything that starts an operation starts it under what is left of the *)
(* deadline, or, for Redis, while something is left of it.                 *)
LEMMA ClockInit == Init => ClockInv
  <1> SUFFICES ASSUME Init PROVE ClockInv
    OBVIOUS
  <1>1. kind \in AllIntegrations /\ late \in 0 .. CollectTimeout - 1
    BY InstancesAssumption, TimeAssumption DEF Init
  <1>2. OpTimeout[kind] \in Nat \ {0}
    BY <1>1, TimeAssumption
  <1>3. Excess(kind) \in Nat
    BY <1>1, <1>2, TimeAssumption DEF Excess, CloseTimeoutOf
  <1>4. Ahead = 0
    BY DEF Init, Ahead
  <1> QED
    BY <1>1, <1>3, <1>4, TimeAssumption DEF Init, ClockInv

LEMMA ClockStep ==
    LinkInv /\ ClockInv /\ [Next]_vars => ClockInv'
  <1> SUFFICES ASSUME LinkInv, ClockInv, [Next]_vars PROVE ClockInv'
    OBVIOUS
  <1> USE DEF LinkInv, ClockInv
  <1>1. kind \in AllIntegrations /\ late \in 0 .. CollectTimeout - 1 /\ spent \in Nat
        /\ op \in Nat /\ CollectTimeout \in Nat
    BY InstancesAssumption, TimeAssumption DEF TypeOK
  <1>2. OpTimeout[kind] \in Nat \ {0} /\ CloseTimeout \in 0 .. 1
    BY <1>1, TimeAssumption, CloseTimeoutType
  <1>3. /\ Excess(kind) \in Nat
        /\ kind = "redis" => Excess(kind) = 3 * OpTimeout[kind] - 1 /\ CloseTimeout = 0
        /\ kind # "redis" => Excess(kind) = CloseTimeout
    BY <1>1, <1>2, TimeAssumption DEF Excess, CloseTimeoutOf, CloseTimeout
  <1>4. Ctx = 0 \/ (Ctx \in Nat /\ late + spent + Ctx = CollectTimeout)
    BY <1>1 DEF Ctx, Larger
  <1>5. /\ OpDeadline \in Nat
        /\ kind # "redis" => OpDeadline <= Ctx
        /\ kind = "redis" => OpDeadline = OpTimeout[kind]
    BY OpDeadlineType
  <1>6. CASE Round
    <2>1. late' \in 0 .. CollectTimeout - 1 /\ spent' = 0 /\ pc' = "loop" /\ kind' = kind
      BY <1>6, TimeAssumption DEF Round, outside
    <2>2. Ahead' = 0
      BY <2>1 DEF Ahead
    <2> QED
      BY <1>1, <1>3, <2>1, <2>2 DEF Excess, CloseTimeoutOf
  <1>7. CASE Return \/ Skip \/ Close
    <2>1. pc' \in {"loop", "idle", "closed"} /\ kind' = kind /\ late' = late /\ spent' = spent
      BY <1>7 DEF Return, Skip, Close, clock, outside
    <2>2. Ahead' = 0
      BY <2>1 DEF Ahead
    <2>3. Ahead = 0
      BY <1>7 DEF Return, Skip, Close, Ahead
    <2> QED
      BY <2>1, <2>2, <2>3 DEF Excess, CloseTimeoutOf
  <1>8. CASE Try
    <2>1. /\ kind' = kind /\ late' = late /\ spent' = spent
          /\ op' = OpDeadline /\ Ctx > 0
          /\ pc' \in {"query", "connect", "login"}
          /\ CloseTimeout' = CloseTimeout
      BY <1>8 DEF Try, Reuse, Dial, OpenPool, StartClient, Due, Begin, clock, outside,
                  CloseTimeout
    <2>2. CASE kind = "redis"
      <3>1. Ahead' <= 3 * OpTimeout[kind]
        BY <1>2, <1>5, <2>1, <2>2 DEF Ahead
      <3>2. Ahead' \in Nat
        BY <1>2, <1>5, <2>1, <2>2 DEF Ahead
      <3> QED
        BY <1>1, <1>2, <1>3, <1>4, <2>1, <2>2, <3>1, <3>2 DEF Excess, CloseTimeoutOf
    <2>3. CASE kind # "redis"
      <3>1. Ahead' = OpDeadline + CloseTimeout
        BY <2>1, <2>3 DEF Ahead
      <3> QED
        BY <1>1, <1>2, <1>3, <1>4, <1>5, <2>1, <2>3, <3>1 DEF Excess, CloseTimeoutOf
    <2> QED
      BY <2>2, <2>3
  <1>9. CASE Succeed
    <2>1. /\ kind' = kind /\ late' = late /\ spent' = spent
          /\ CloseTimeout' = CloseTimeout /\ Excess(kind)' = Excess(kind)
      BY <1>9 DEF Succeed, Connected, LoggedIn, Answered, Finished, clock, outside,
                  CloseTimeout, Excess, CloseTimeoutOf
    <2>2. Ahead' <= Ahead \/ late + spent + Ahead' <= CollectTimeout + Excess(kind)
      <3>1. CASE kind = "redis"
        BY <1>1, <1>2, <1>5, <1>9, <2>1, <3>1
           DEF Succeed, Connected, LoggedIn, Answered, Finished, Begin, Ahead, Route
      <3>2. CASE kind = "rabbitmq" /\ Answered
        <4>1. pc' = "extra" /\ op' \in Nat /\ op' <= Ctx /\ pc = "query"
          BY <1>2, <1>4, <3>2 DEF Answered, Smaller
        <4>2. Ahead' = op' /\ Ahead = op + CloseTimeout
          BY <2>1, <3>2, <4>1 DEF Ahead
        <4> QED
          BY <1>1, <1>2, <1>3, <1>4, <1>5, <3>2, <4>1, <4>2
      <3>3. CASE kind # "redis" /\ ~(kind = "rabbitmq" /\ Answered)
        BY <1>1, <1>2, <1>9, <2>1, <3>3
           DEF Succeed, Connected, LoggedIn, Answered, Finished, Begin, Ahead, Route
      <3> QED
        BY <3>1, <3>2, <3>3
    <2>3. Ahead \in Nat /\ Ahead' \in Int
      <3>1. op' \in Nat /\ CloseTimeout \in Nat
        BY LinkStep, <1>2 DEF TypeOK
      <3> QED
        BY <1>1, <1>2, <2>1, <3>1 DEF Ahead
    <2> QED
      BY <1>1, <1>3, <2>1, <2>2, <2>3
  <1>10. CASE Fail
    <2>1. /\ kind' = kind /\ late' = late /\ spent' = spent
          /\ CloseTimeout' = CloseTimeout /\ Excess(kind)' = Excess(kind)
      BY <1>10 DEF Fail, ConnectFails, LoginFails, QueryFails, SaidGoodbye, clock, outside,
                   CloseTimeout, Excess, CloseTimeoutOf
    <2>2. Ahead \in Nat
      BY <1>1, <1>2 DEF Ahead
    <2>3. Ahead' \in Nat /\ Ahead' <= Ahead
      <3>1. CASE QueryFails
        <4>1. pc = "query" /\ pc' = "closing" /\ op' = CloseTimeout
          BY <3>1 DEF QueryFails
        <4> QED
          BY <1>1, <1>2, <1>3, <2>1, <4>1 DEF Ahead
      <3>2. CASE ~QueryFails
        <4>1. pc' = "loop"
          BY <1>10, <3>2 DEF Fail, ConnectFails, LoginFails, SaidGoodbye, PutOff
        <4> QED
          BY <2>2, <4>1 DEF Ahead
      <3> QED
        BY <3>1, <3>2
    <2> QED
      BY <1>1, <1>3, <2>1, <2>2, <2>3
  <1>11. CASE Elapse
    <2>1. /\ kind' = kind /\ late' = late /\ spent' = spent + 1 /\ pc' = pc
          /\ op' = op - 1 /\ pc \in Waiting \cup {"closing"}
          /\ CloseTimeout' = CloseTimeout /\ Excess(kind)' = Excess(kind)
      BY <1>11 DEF Elapse, outside, CloseTimeout, Excess, CloseTimeoutOf
    <2>2. Ahead \in Nat /\ Ahead' = Ahead - 1
      BY <1>1, <1>2, <2>1 DEF Ahead, Waiting
    <2> QED
      BY <1>1, <1>3, <2>1, <2>2
  <1>12. ASSUME NEW j \in Instance, NEW manner \in Manners, Change(j, manner)
         PROVE  ClockInv'
    BY <1>12 DEF Change, Ahead, clock, CloseTimeout, Excess, CloseTimeoutOf
  <1>13. CASE Cancel
    BY <1>13 DEF Cancel, Ahead, clock, CloseTimeout, Excess, CloseTimeoutOf
  <1>14. CASE UNCHANGED vars
    BY <1>14 DEF vars, Ahead, CloseTimeout, Excess, CloseTimeoutOf
  <1> QED
    BY <1>6, <1>7, <1>8, <1>9, <1>10, <1>11, <1>12, <1>13, <1>14
       DEF Next, Collect, Closed

(* Every round is over before the next tick, for all timeouts that leave   *)
(* the room of RoomAssumption (runner.go:140-142, redis/resp.go:116-120).  *)
THEOREM InTimeHolds == Spec => []InTime
  <1>1. LinkInv /\ ClockInv => InTime
    <2> SUFFICES ASSUME LinkInv, ClockInv PROVE InTime
      OBVIOUS
    <2>1. kind \in AllIntegrations /\ late \in Nat /\ spent \in Nat /\ op \in Nat
      BY InstancesAssumption, TimeAssumption DEF LinkInv, TypeOK
    <2>2. OpTimeout[kind] \in Nat /\ Every[kind] \in Nat /\ CloseTimeout \in Nat
      BY <2>1, TimeAssumption, CloseTimeoutType
    <2>3. Ahead \in Nat
      BY <2>1, <2>2 DEF Ahead
    <2>4. Excess(kind) \in Int
      BY <2>1, <2>2 DEF Excess, CloseTimeoutOf
    <2>5. CollectTimeout + Excess(kind) < Every[kind]
      BY <2>1, RoomAssumption
    <2> QED
      BY <2>1, <2>2, <2>3, <2>4, <2>5, TimeAssumption DEF ClockInv, InTime
  <1> QED
    BY <1>1, LinkInit, LinkStep, ClockInit, ClockStep, PTL DEF Spec
=============================================================================
