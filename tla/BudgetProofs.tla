---------------------------- MODULE BudgetProofs ----------------------------
(***************************************************************************)
(* Proofs about Budget, for every configuration, every default and limit   *)
(* and however long a round waits for its slot.  All of it rests on one    *)
(* relation: what is gone of the deadline is at most the own timeouts of   *)
(* the jobs behind, those that answered at once not counted, and as much   *)
(* of the running job's as it has used.                                    *)
(*                                                                         *)
(* The sums of timeouts are a recursive function.  That it has the values  *)
(* it seems to have, and what follows for all of them, is shown one job    *)
(* after the other (SumTheorems).                                          *)
(***************************************************************************)
EXTENDS Budget, SumTheorems, TLAPS

(* None of the jobs before n leaves a child behind. *)
CleanTo(n) == \A m \in 1 .. n - 1 : ~Lingers(m)

(* Of job pos, what it has used of its own timeout. *)
Using == IF pc = "running" /\ manner[pos] # "quick" THEN Own(pos) - op ELSE 0

(* What is gone of the deadline, the jobs behind and the running one have  *)
(* used.                                                                   *)
OnBudget ==
    /\ ~cancelled /\ CleanTo(pos)
    /\ pc = "running" => ~Lingers(pos)
    => start - left <= SilentUpTo[pos - 1] + Using

(* A job that began with less than its own timeout is one for which the    *)
(* round is too short.                                                     *)
Clipped ==
    pc = "running" /\ ~cancelled /\ CleanTo(pos) /\ ~whole => start < UpTo[pos]

(* What became of the jobs behind. *)
Settled ==
    \A n \in Jobs :
        /\ fate[n] = "unseen" <=> n >= pos
        /\ n < pos /\ manner[n] = "quick" => fate[n] = "done"
        /\ fate[n] = "cut" /\ ~cancelled /\ CleanTo(n) => start < UpTo[n]

(* Where Collect is. *)
Placed ==
    /\ pc = "running" => Here
    /\ pc # "running" => op = 0
    /\ pc = "running" /\ ~cancelled => op <= Own(pos)
    /\ pc = "idle" /\ Here /\ ~cancelled => left = 0

InTime == NoneLingers => ~overran

BudgetInv == TypeOK /\ Placed /\ OnBudget /\ Clipped /\ Settled /\ InTime
-----------------------------------------------------------------------------
(* The recursive function exists, and each value is the one before it and  *)
(* one cost more.                                                          *)
SumsOf(cost, f, n) ==
    f = [i \in 0 .. n |-> IF i = 0 THEN 0 ELSE f[i - 1] + cost[i]]

LEMMA SumsExist ==
  ASSUME NEW cost, NEW N \in Nat
  PROVE  \E f : SumsOf(cost, f, N)
  <1> DEFINE S == {n \in 0 .. N : \E f : SumsOf(cost, f, n)}
  <1>1. 0 \in S
    <2> DEFINE f == [i \in 0 .. 0 |-> 0]
    <2>1. SumsOf(cost, f, 0)
      BY DEF SumsOf
    <2> QED
      BY <2>1
  <1>2. ASSUME NEW n \in 1 .. N, n - 1 \in S
        PROVE  n \in S
    <2>1. PICK f : SumsOf(cost, f, n - 1)
      BY <1>2
    <2> DEFINE g == [i \in 0 .. n |-> IF i = n THEN f[n - 1] + cost[n] ELSE f[i]]
    <2>2. ASSUME NEW i \in 0 .. n
          PROVE  g[i] = IF i = 0 THEN 0 ELSE g[i - 1] + cost[i]
      <3>1. CASE i = n
        <4>1. g[n - 1] = f[n - 1]
          OBVIOUS
        <4> QED
          BY <3>1, <4>1
      <3>2. CASE i # n
        <4>1. i \in 0 .. n - 1
          BY <3>2
        <4>2. f[i] = IF i = 0 THEN 0 ELSE f[i - 1] + cost[i]
          BY <2>1, <4>1 DEF SumsOf
        <4>3. i # 0 => g[i - 1] = f[i - 1]
          BY <4>1
        <4> QED
          BY <3>2, <4>2, <4>3
      <3> QED
        BY <3>1, <3>2
    <2>3. SumsOf(cost, g, n)
      BY <2>2 DEF SumsOf
    <2> QED
      BY <2>3
  <1> HIDE DEF S
  <1>3. N \in S
    BY <1>1, <1>2, UpToN
  <1> QED
    BY <1>3 DEF S

LEMMA SumsDef ==
  ASSUME NEW cost \in Seq(Nat)
  PROVE  /\ Sums(cost)[0] = 0
         /\ \A n \in 1 .. Len(cost) : Sums(cost)[n] = Sums(cost)[n - 1] + cost[n]
  <1>1. SumsOf(cost, Sums(cost), Len(cost))
    <2>1. \E f : SumsOf(cost, f, Len(cost))
      BY SumsExist, Len(cost) \in Nat
    <2> QED
      BY <2>1, Zenon DEF SumsOf, Sums
  <1> HIDE DEF Sums
  <1> QED
    BY <1>1 DEF SumsOf

LEMMA SumsType ==
  ASSUME NEW cost \in Seq(Nat)
  PROVE  \A n \in 0 .. Len(cost) : Sums(cost)[n] \in Nat
  <1>0. Len(cost) \in Nat
    OBVIOUS
  <1> DEFINE S == {n \in 0 .. Len(cost) : Sums(cost)[n] \in Nat}
  <1>1. 0 \in S
    BY SumsDef
  <1>2. ASSUME NEW n \in 1 .. Len(cost), n - 1 \in S
        PROVE  n \in S
    <2>1. Sums(cost)[n] = Sums(cost)[n - 1] + cost[n]
      BY SumsDef
    <2> QED
      BY <1>2, <2>1
  <1> HIDE DEF S
  <1>3. \A n \in 0 .. Len(cost) : n \in S
    BY <1>0, <1>1, <1>2, UpToN
  <1> QED
    BY <1>3 DEF S

(* Sums grow with the number of jobs, and with the costs. *)
LEMMA SumsGrow ==
  ASSUME NEW cost \in Seq(Nat), NEW m \in 0 .. Len(cost)
  PROVE  \A n \in m .. Len(cost) : Sums(cost)[m] <= Sums(cost)[n]
  <1>0. Len(cost) \in Nat
    OBVIOUS
  <1> DEFINE S == {n \in 0 .. Len(cost) : m <= n => Sums(cost)[m] <= Sums(cost)[n]}
  <1>1. 0 \in S
    BY SumsType
  <1>2. ASSUME NEW n \in 1 .. Len(cost), n - 1 \in S
        PROVE  n \in S
    <2>1. Sums(cost)[n] = Sums(cost)[n - 1] + cost[n]
      BY SumsDef
    <2>2. Sums(cost)[n] \in Nat /\ Sums(cost)[n - 1] \in Nat /\ Sums(cost)[m] \in Nat
      BY SumsType
    <2> QED
      BY <1>2, <2>1, <2>2
  <1> HIDE DEF S
  <1>3. \A n \in 0 .. Len(cost) : n \in S
    BY <1>0, <1>1, <1>2, UpToN
  <1> QED
    BY <1>3 DEF S

LEMMA SumsCompare ==
  ASSUME NEW less \in Seq(Nat), NEW more \in Seq(Nat), Len(less) = Len(more),
         \A n \in 1 .. Len(less) : less[n] <= more[n]
  PROVE  \A n \in 0 .. Len(less) : Sums(less)[n] <= Sums(more)[n]
  <1>0. Len(less) \in Nat
    OBVIOUS
  <1> DEFINE S == {n \in 0 .. Len(less) : Sums(less)[n] <= Sums(more)[n]}
  <1>1. 0 \in S
    BY SumsDef
  <1>2. ASSUME NEW n \in 1 .. Len(less), n - 1 \in S
        PROVE  n \in S
    <2>1. /\ Sums(less)[n] = Sums(less)[n - 1] + less[n]
          /\ Sums(more)[n] = Sums(more)[n - 1] + more[n]
      BY SumsDef
    <2>2. Sums(less)[n - 1] \in Nat /\ Sums(more)[n - 1] \in Nat
      BY SumsType
    <2> QED
      BY <1>2, <2>1, <2>2
  <1> HIDE DEF S
  <1>3. \A n \in 0 .. Len(less) : n \in S
    BY <1>0, <1>1, <1>2, UpToN
  <1> QED
    BY <1>3 DEF S

(* Equal costs add up to a product. *)
LEMMA SumsOfEqual ==
  ASSUME NEW cost \in Seq(Nat), NEW p \in Nat, \A n \in 1 .. Len(cost) : cost[n] = p
  PROVE  Sums(cost)[Len(cost)] = Len(cost) * p
  <1>0. Len(cost) \in Nat
    OBVIOUS
  <1> DEFINE S == {n \in 0 .. Len(cost) : Sums(cost)[n] = n * p}
  <1>1. 0 \in S
    BY SumsDef
  <1>2. ASSUME NEW n \in 1 .. Len(cost), n - 1 \in S
        PROVE  n \in S
    <2>1. Sums(cost)[n] = (n - 1) * p + p
      BY <1>2, SumsDef
    <2>2. (n - 1) * p + p = n * p
      OBVIOUS
    <2> QED
      BY <2>1, <2>2
  <1> HIDE DEF S
  <1>3. \A n \in 0 .. Len(cost) : n \in S
    BY <1>0, <1>1, <1>2, UpToN
  <1> QED
    BY <1>3 DEF S
-----------------------------------------------------------------------------
(* The configuration. *)
N == Len(setup.timeout)
OwnCosts == [n \in Jobs |-> Own(n)]
SilentCosts == [n \in Jobs |-> IF manner[n] = "quick" THEN 0 ELSE Own(n)]

LEMMA SetupFacts ==
  ASSUME setup \in Setups
  PROVE  /\ N \in Nat /\ Jobs = 1 .. N
         /\ setup.every \in Nat \ {0}
         /\ setup.kind \in {"exec", "prom"}
         /\ \A n \in Jobs : Own(n) \in Nat \ {0}
         /\ setup.kind = "prom" => \A n \in Jobs : Own(n) = PromTimeout
  <1>1. /\ setup.every \in Nat \ {0}
        /\ setup.kind \in {"exec", "prom"}
        /\ setup.timeout \in Seq(Nat)
        /\ setup.kind = "prom" => \A n \in DOMAIN setup.timeout : setup.timeout[n] = 0
    BY SetupsAssumption
  <1>2. N \in Nat /\ Jobs = 1 .. N
    BY <1>1 DEF N, Jobs
  <1>3. ASSUME NEW n \in Jobs
        PROVE  /\ Own(n) \in Nat \ {0}
               /\ setup.kind = "prom" => Own(n) = PromTimeout
    <2>1. setup.timeout[n] \in Nat
      BY <1>1, <1>3 DEF Jobs
    <2> QED
      BY <1>1, <2>1, TimesAssumption DEF Own, Jobs
  <1> QED
    BY <1>1, <1>2, <1>3

LEMMA CostFacts ==
  ASSUME setup \in Setups
  PROVE  /\ OwnCosts \in Seq(Nat) /\ Len(OwnCosts) = N
         /\ SilentCosts \in Seq(Nat) /\ Len(SilentCosts) = N
         /\ \A n \in 1 .. N : OwnCosts[n] = Own(n)
         /\ \A n \in 1 .. N : SilentCosts[n] = IF manner[n] = "quick" THEN 0 ELSE Own(n)
  BY SetupFacts DEF OwnCosts, SilentCosts

LEMMA UpToFacts ==
  ASSUME setup \in Setups
  PROVE  /\ UpTo[0] = 0 /\ SilentUpTo[0] = 0
         /\ \A n \in 0 .. N : /\ UpTo[n] \in Nat /\ SilentUpTo[n] \in Nat
                              /\ SilentUpTo[n] <= UpTo[n]
         /\ \A n \in 1 .. N : UpTo[n] = UpTo[n - 1] + Own(n)
         /\ \A n \in 1 .. N : SilentUpTo[n] =
                SilentUpTo[n - 1] + IF manner[n] = "quick" THEN 0 ELSE Own(n)
         /\ \A m \in 0 .. N : \A n \in m .. N :
                UpTo[m] <= UpTo[n] /\ SilentUpTo[m] <= SilentUpTo[n]
  <1>1. UpTo = Sums(OwnCosts) /\ SilentUpTo = Sums(SilentCosts)
    BY DEF UpTo, SilentUpTo, OwnCosts, SilentCosts
  <1>2. /\ OwnCosts \in Seq(Nat) /\ Len(OwnCosts) = N
        /\ SilentCosts \in Seq(Nat) /\ Len(SilentCosts) = N
        /\ \A n \in 1 .. N : OwnCosts[n] = Own(n)
        /\ \A n \in 1 .. N : SilentCosts[n] = IF manner[n] = "quick" THEN 0 ELSE Own(n)
    BY CostFacts
  <1>3. \A n \in 1 .. N : Own(n) \in Nat
    BY SetupFacts
  <1> HIDE DEF OwnCosts, SilentCosts, UpTo, SilentUpTo, Sums
  <1>4. UpTo[0] = 0 /\ \A n \in 1 .. N : UpTo[n] = UpTo[n - 1] + OwnCosts[n]
    BY <1>1, <1>2, SumsDef
  <1>5. SilentUpTo[0] = 0
        /\ \A n \in 1 .. N : SilentUpTo[n] = SilentUpTo[n - 1] + SilentCosts[n]
    BY <1>1, <1>2, SumsDef
  <1>6. \A n \in 0 .. N : UpTo[n] \in Nat /\ SilentUpTo[n] \in Nat
    BY <1>1, <1>2, SumsType
  <1>7. \A n \in 0 .. N : SilentUpTo[n] <= UpTo[n]
    <2>1. \A n \in 1 .. N : SilentCosts[n] <= OwnCosts[n]
      BY <1>2, <1>3
    <2> QED
      BY <1>1, <1>2, <2>1, SumsCompare
  <1>8. ASSUME NEW m \in 0 .. N, NEW n \in m .. N
        PROVE  UpTo[m] <= UpTo[n] /\ SilentUpTo[m] <= SilentUpTo[n]
    BY <1>1, <1>2, SumsGrow
  <1> QED
    BY <1>2, <1>4, <1>5, <1>6, <1>7, <1>8

(* What the runner grants: something, no more than the interval, and all   *)
(* that the jobs need if that fits the interval and the runner's limit.    *)
LEMMA GrantedFacts ==
  ASSUME setup \in Setups
  PROVE  /\ Granted \in Nat \ {0}
         /\ Granted <= setup.every
         /\ UpTo[N] <= Smaller(setup.every, MaxCollectTimeout) => UpTo[N] <= Granted
  <1>1. UpTo[N] \in Nat
    BY SetupFacts, UpToFacts
  <1>2. Asked \in Nat /\ UpTo[N] <= Asked
    <2>1. CASE setup.kind = "exec"
      BY <1>1, <2>1, TimesAssumption DEF Asked, Larger, N
    <2>2. CASE setup.kind = "prom"
      <3>1. UpTo[N] = N * PromTimeout
        <4>1. \A n \in 1 .. N : OwnCosts[n] = PromTimeout
          BY <2>2, SetupFacts, CostFacts
        <4>2. OwnCosts \in Seq(Nat) /\ Len(OwnCosts) = N
          BY CostFacts
        <4>3. UpTo = Sums(OwnCosts)
          BY DEF UpTo, OwnCosts
        <4> HIDE DEF OwnCosts, UpTo, Sums
        <4>4. Sums(OwnCosts)[Len(OwnCosts)] = Len(OwnCosts) * PromTimeout
          BY <4>1, <4>2, TimesAssumption, SumsOfEqual
        <4> QED
          BY <4>2, <4>3, <4>4
      <3>2. Asked = Larger(1, N) * PromTimeout
        BY <2>2 DEF Asked, N
      <3>3. N \in Nat /\ PromTimeout \in Nat
        BY SetupFacts, TimesAssumption
      <3>4. CASE N = 0
        BY <3>1, <3>2, <3>3, <3>4 DEF Larger
      <3>5. CASE N # 0
        <4>1. Larger(1, N) = N
          BY <3>3, <3>5 DEF Larger
        <4> QED
          BY <1>1, <3>1, <3>2, <4>1
      <3> QED
        BY <3>4, <3>5
    <2> QED
      BY <2>1, <2>2, SetupFacts
  <1>3. setup.every \in Nat \ {0}
    BY SetupFacts
  <1> HIDE DEF Asked, UpTo
  <1> QED
    BY <1>1, <1>2, <1>3, TimesAssumption DEF Granted, Smaller, Larger

LEMMA StartsFacts ==
  ASSUME setup \in Setups, NEW s \in Starts
  PROVE  s \in 1 .. Granted
  BY GrantedFacts, TimesAssumption DEF Starts
-----------------------------------------------------------------------------
(* No step changes the configuration, and with it the sums.                *)
LEMMA GivenFixed ==
  ASSUME [Next]_vars
  PROVE  /\ setup' = setup /\ manner' = manner
         /\ UpTo' = UpTo /\ SilentUpTo' = SilentUpTo /\ Granted' = Granted
         /\ Jobs' = Jobs /\ N' = N
         /\ \A n : Own(n)' = Own(n)
  <1>1. setup' = setup /\ manner' = manner
    BY DEF Next, Collect, Round, Return, Begin, Start, Finish, Stop, Stopping,
           Settle, LetGo, Elapse, Cancel, Stopped, vars, given
  <1>2. /\ Jobs' = Jobs /\ N' = N
        /\ \A n : Own(n)' = Own(n)
    BY <1>1 DEF Jobs, N, Own
  <1>3. UpTo' = UpTo /\ SilentUpTo' = SilentUpTo
    BY <1>1 DEF UpTo, SilentUpTo, Jobs, Own
  <1>4. Granted' = Granted
    BY <1>1, <1>3 DEF Granted, Asked
  <1> QED
    BY <1>1, <1>2, <1>3, <1>4

LEMMA InitHolds == Init => BudgetInv
  <1> SUFFICES ASSUME Init
               PROVE  BudgetInv
    OBVIOUS
  <1>1. setup \in Setups
    BY DEF Init
  <1>2. N \in Nat /\ Jobs = 1 .. N
    BY <1>1, SetupFacts
  <1>3. start \in 1 .. Granted /\ Granted \in Nat
    BY <1>1, StartsFacts, GrantedFacts DEF Init
  <1>4. TypeOK
    <2>1. pos \in 1 .. Len(setup.timeout) + 1
      BY <1>2 DEF Init, N
    <2>2. left \in 0 .. start /\ op \in 0 .. left
      BY <1>3 DEF Init
    <2>3. fate \in [Jobs -> Fates]
      BY DEF Init, Fates
    <2> QED
      BY <1>3, <2>1, <2>2, <2>3 DEF Init, TypeOK
  <1>5. SilentUpTo[0] = 0
    BY <1>1, UpToFacts
  <1>6. OnBudget
    <2>1. Using = 0 /\ start - left = 0 /\ pos - 1 = 0
      BY <1>3 DEF Init, Using
    <2> HIDE DEF SilentUpTo
    <2> QED
      BY <1>5, <2>1 DEF OnBudget
  <1>7. Settled
    BY <1>2 DEF Init, Settled
  <1>8. Placed /\ Clipped /\ InTime
    BY DEF Init, Placed, Clipped, InTime
  <1> QED
    BY <1>4, <1>6, <1>7, <1>8 DEF BudgetInv

(* A round begins, whatever became of the one before. *)
LEMMA RoundStep == BudgetInv /\ Round /\ [Next]_vars => BudgetInv'
  <1> SUFFICES ASSUME BudgetInv, Round, [Next]_vars
               PROVE  BudgetInv'
    OBVIOUS
  <1>1. /\ setup' = setup /\ manner' = manner /\ SilentUpTo' = SilentUpTo
        /\ Granted' = Granted /\ Jobs' = Jobs
    BY GivenFixed
  <1>2. TypeOK /\ Placed /\ InTime
    BY DEF BudgetInv
  <1>3. setup \in Setups
    BY <1>2 DEF TypeOK
  <1>4. N \in Nat /\ Jobs = 1 .. N
    BY <1>3, SetupFacts
  <1>5. start' \in 1 .. Granted /\ Granted \in Nat /\ left' = start'
    BY <1>3, StartsFacts, GrantedFacts DEF Round
  <1>6. /\ pc' = "loop" /\ pos' = 1 /\ op' = 0
        /\ fate' = [n \in Jobs |-> "unseen"]
        /\ UNCHANGED <<whole, overran, cancelled>>
    BY <1>2 DEF Round, Placed
  <1>7. TypeOK'
    BY <1>1, <1>2, <1>4, <1>5, <1>6 DEF TypeOK, Fates, N
  <1>8. OnBudget'
    <2>1. SilentUpTo[0] = 0
      BY <1>3, UpToFacts
    <2>2. Using' = 0
      <3>1. pc' # "running"
        BY <1>6
      <3> QED
        BY <3>1 DEF Using
    <2>3. start' - left' = 0
      <3>1. start' \in Nat /\ left' = start'
        BY <1>5
      <3>2. \A n \in Nat : n - n = 0
        OBVIOUS
      <3> QED
        BY <3>1, <3>2, Zenon
    <2>4. pos' - 1 = 0
      BY <1>6
    <2> HIDE DEF SilentUpTo
    <2> QED
      BY <1>1, <2>1, <2>2, <2>3, <2>4 DEF OnBudget
  <1>9. Settled'
    BY <1>1, <1>4, <1>6 DEF Settled
  <1>10. Placed' /\ Clipped' /\ InTime'
    BY <1>1, <1>2, <1>6 DEF Placed, Clipped, InTime, NoneLingers, Lingers
  <1> QED
    BY <1>7, <1>8, <1>9, <1>10 DEF BudgetInv

(* A round ends with its list or its deadline. *)
LEMMA ReturnStep == BudgetInv /\ Return /\ [Next]_vars => BudgetInv'
  <1> SUFFICES ASSUME BudgetInv, Return, [Next]_vars
               PROVE  BudgetInv'
    OBVIOUS
  <1>1. /\ setup' = setup /\ manner' = manner /\ SilentUpTo' = SilentUpTo
        /\ UpTo' = UpTo /\ Granted' = Granted /\ Jobs' = Jobs
    BY GivenFixed
  <1>2. /\ pc = "loop" /\ pc' = "idle" /\ (~Here \/ left = 0)
        /\ UNCHANGED <<pos, start, left, op, whole, fate, overran, cancelled>>
    BY DEF Return
  <1> HIDE DEF SilentUpTo, UpTo, Granted
  <1>3. TypeOK'
    BY <1>1, <1>2 DEF BudgetInv, TypeOK
  <1>4. Settled' /\ InTime'
    BY <1>1, <1>2 DEF BudgetInv, Settled, CleanTo, Lingers, InTime, NoneLingers
  <1>5. Placed'
    BY <1>1, <1>2 DEF BudgetInv, Placed, Here
  <1>6. OnBudget' /\ Clipped'
    BY <1>1, <1>2 DEF BudgetInv, OnBudget, Clipped, CleanTo, Lingers, Using
  <1> QED
    BY <1>3, <1>4, <1>5, <1>6 DEF BudgetInv

(* A job begins with its own timeout or what is left of the deadline.      *)
LEMMA BeginStep == BudgetInv /\ Begin /\ [Next]_vars => BudgetInv'
  <1> SUFFICES ASSUME BudgetInv, Begin, [Next]_vars
               PROVE  BudgetInv'
    OBVIOUS
  <1>1. /\ setup' = setup /\ manner' = manner /\ SilentUpTo' = SilentUpTo
        /\ UpTo' = UpTo /\ Granted' = Granted /\ Jobs' = Jobs
        /\ \A n : Own(n)' = Own(n)
    BY GivenFixed
  <1>2. /\ pc = "loop" /\ pc' = "running" /\ Here /\ left > 0
        /\ op' = Smaller(Own(pos), left) /\ whole' = (op' = Own(pos))
        /\ UNCHANGED <<pos, start, left, fate, overran, cancelled>>
    BY DEF Begin, Start
  <1>3. setup \in Setups /\ TypeOK
    BY DEF BudgetInv, TypeOK
  <1>4. /\ N \in Nat /\ Jobs = 1 .. N /\ Own(pos) \in Nat \ {0} /\ pos \in 1 .. N
        /\ start \in Nat /\ left \in Nat
    BY <1>2, <1>3, SetupFacts, GrantedFacts DEF Here, TypeOK
  <1>5. /\ SilentUpTo[pos - 1] \in Nat /\ UpTo[pos - 1] \in Nat
        /\ SilentUpTo[pos - 1] <= UpTo[pos - 1]
        /\ UpTo[pos] = UpTo[pos - 1] + Own(pos)
    BY <1>3, <1>4, UpToFacts
  <1> HIDE DEF SilentUpTo, UpTo, Granted, Own
  <1>6. op' \in 0 .. left /\ op' <= Own(pos) /\ whole' \in BOOLEAN
    BY <1>2, <1>4 DEF Smaller
  <1>7. TypeOK'
    BY <1>1, <1>2, <1>3, <1>6 DEF TypeOK
  <1>8. Settled' /\ InTime'
    BY <1>1, <1>2 DEF BudgetInv, Settled, CleanTo, Lingers, InTime, NoneLingers
  <1>9. Placed'
    BY <1>1, <1>2, <1>6 DEF BudgetInv, Placed, Here
  <1>10. ASSUME ~cancelled, CleanTo(pos)
         PROVE  start - left <= SilentUpTo[pos - 1]
    <2>1. Using = 0
      BY <1>2 DEF Using
    <2>2. start - left <= SilentUpTo[pos - 1] + Using
      BY <1>2, <1>10 DEF BudgetInv, OnBudget
    <2> QED
      BY <1>5, <2>1, <2>2
  <1>11. OnBudget'
    <2> SUFFICES ASSUME ~cancelled, CleanTo(pos)
                 PROVE  start' - left' <= SilentUpTo'[pos' - 1] + Using'
      BY <1>1, <1>2 DEF OnBudget, CleanTo, Lingers
    <2>1. start - left <= SilentUpTo[pos - 1]
      BY <1>10
    <2>2. Using' = 0 \/ Using' = Own(pos) - op'
      BY <1>1, <1>2 DEF Using
    <2>3. Using' >= 0 /\ Using' \in Int
      BY <1>4, <1>6, <2>2
    <2> QED
      BY <1>1, <1>2, <1>4, <1>5, <2>1, <2>3
  <1>12. Clipped'
    <2> SUFFICES ASSUME ~cancelled, CleanTo(pos), ~whole'
                 PROVE  start' < UpTo'[pos']
      BY <1>1, <1>2 DEF Clipped, CleanTo, Lingers
    <2>1. start - left <= SilentUpTo[pos - 1]
      BY <1>10
    <2>2. op' # Own(pos)
      BY <1>2
    <2>3. left < Own(pos)
      BY <1>2, <1>4, <2>2 DEF Smaller
    <2> QED
      BY <1>1, <1>2, <1>4, <1>5, <2>1, <2>3
  <1> QED
    BY <1>7, <1>8, <1>9, <1>11, <1>12 DEF BudgetInv

(* Time passes: what the job uses of the deadline it uses of its own time. *)
LEMMA ElapseStep == BudgetInv /\ Elapse /\ [Next]_vars => BudgetInv'
  <1> SUFFICES ASSUME BudgetInv, Elapse, [Next]_vars
               PROVE  BudgetInv'
    OBVIOUS
  <1>1. /\ setup' = setup /\ manner' = manner /\ SilentUpTo' = SilentUpTo
        /\ UpTo' = UpTo /\ Granted' = Granted /\ Jobs' = Jobs
        /\ \A n : Own(n)' = Own(n)
    BY GivenFixed
  <1>2. /\ pc = "running" /\ manner[pos] # "quick" /\ (op > 0 \/ Lingers(pos))
        /\ left' = Larger(0, left - 1) /\ op' = Larger(0, op - 1)
        /\ overran' = (overran \/ left = 0)
        /\ UNCHANGED <<pc, pos, start, whole, fate, cancelled>>
    BY DEF Elapse
  <1>3. setup \in Setups /\ TypeOK /\ Here /\ Placed
    BY <1>2 DEF BudgetInv, TypeOK, Placed
  <1>4. /\ N \in Nat /\ Jobs = 1 .. N /\ Own(pos) \in Nat \ {0} /\ pos \in 1 .. N
        /\ start \in Nat /\ left \in 0 .. start /\ op \in 0 .. left
    BY <1>3, SetupFacts, GrantedFacts DEF Here, TypeOK
  <1>5. SilentUpTo[pos - 1] \in Nat
    BY <1>3, <1>4, UpToFacts
  <1> HIDE DEF SilentUpTo, UpTo, Granted, Own
  <1>6. left' \in 0 .. start /\ op' \in 0 .. left' /\ op' <= op
    BY <1>2, <1>4 DEF Larger
  <1>7. TypeOK'
    BY <1>1, <1>2, <1>3, <1>6 DEF TypeOK
  <1>8. Settled'
    BY <1>1, <1>2 DEF BudgetInv, Settled, CleanTo, Lingers
  <1>9. Placed'
    <2>1. ~cancelled => op' <= Own(pos)
      BY <1>2, <1>3, <1>4, <1>6 DEF Placed
    <2> QED
      BY <1>1, <1>2, <1>3, <2>1 DEF Placed, Here
  <1>10. InTime'
    <2> SUFFICES ASSUME NoneLingers
                 PROVE  ~overran'
      BY <1>1 DEF InTime, NoneLingers, Lingers
    <2>1. ~Lingers(pos)
      BY <1>3 DEF NoneLingers, Here
    <2>2. left # 0
      BY <1>2, <1>4, <2>1
    <2>3. ~overran
      BY DEF BudgetInv, InTime
    <2> QED
      BY <1>2, <2>2, <2>3
  <1>11. OnBudget'
    <2> SUFFICES ASSUME ~cancelled, CleanTo(pos), ~Lingers(pos)
                 PROVE  start' - left' <= SilentUpTo'[pos' - 1] + Using'
      BY <1>1, <1>2 DEF OnBudget, CleanTo, Lingers
    <2>1. Using = Own(pos) - op /\ Using' = Own(pos) - op'
      BY <1>1, <1>2 DEF Using
    <2>2. left' = left - 1 /\ op' = op - 1
      BY <1>2, <1>4 DEF Larger
    <2>3. start - left <= SilentUpTo[pos - 1] + Using
      BY DEF BudgetInv, OnBudget
    <2> QED
      <3>1. start - (left - 1) <= SilentUpTo[pos - 1] + (Own(pos) - (op - 1))
        BY <1>4, <1>5, <2>1, <2>3
      <3>2. SilentUpTo'[pos' - 1] = SilentUpTo[pos - 1] /\ start' = start
        BY <1>1, <1>2
      <3> QED
        BY <2>1, <2>2, <3>1, <3>2
  <1>12. Clipped'
    BY <1>1, <1>2 DEF BudgetInv, Clipped, CleanTo, Lingers
  <1> QED
    BY <1>7, <1>8, <1>9, <1>10, <1>11, <1>12 DEF BudgetInv

(* On to the next job.  What is asked of the outcome: a job that answers   *)
(* at once is done, and who is cut short had less than its own timeout.    *)
LEMMA SettleStep ==
  ASSUME BudgetInv, pc = "running", [Next]_vars,
         NEW outcome \in Fates \ {"unseen"}, Settle(outcome),
         manner[pos] = "quick" => outcome = "done",
         outcome = "cut" => ~whole \/ cancelled
  PROVE  BudgetInv'
  <1>1. /\ setup' = setup /\ manner' = manner /\ SilentUpTo' = SilentUpTo
        /\ UpTo' = UpTo /\ Granted' = Granted /\ Jobs' = Jobs /\ N' = N
        /\ \A n : Own(n)' = Own(n)
    BY GivenFixed
  <1>2. /\ fate' = [fate EXCEPT ![pos] = outcome]
        /\ pos' = pos + 1 /\ op' = 0 /\ pc' = "loop"
        /\ UNCHANGED <<start, left, whole, overran, cancelled>>
    BY DEF Settle
  <1>3. setup \in Setups /\ TypeOK /\ Here /\ Placed
    BY DEF BudgetInv, TypeOK, Placed
  <1>4. /\ N \in Nat /\ Jobs = 1 .. N /\ Own(pos) \in Nat \ {0} /\ pos \in 1 .. N
        /\ start \in Nat /\ left \in 0 .. start /\ op \in 0 .. left
    BY <1>3, SetupFacts, GrantedFacts DEF Here, TypeOK
  <1>5. /\ SilentUpTo[pos - 1] \in Nat /\ SilentUpTo[pos] \in Nat
        /\ SilentUpTo[pos] =
               SilentUpTo[pos - 1] + IF manner[pos] = "quick" THEN 0 ELSE Own(pos)
    BY <1>3, <1>4, UpToFacts
  <1> HIDE DEF SilentUpTo, UpTo, Granted, Own
  <1>6. fate' \in [Jobs -> Fates]
    BY <1>2, <1>3 DEF TypeOK
  <1>7. TypeOK'
    <2>1. pos' \in 1 .. Len(setup.timeout) + 1
      BY <1>2, <1>4 DEF N
    <2>2. op' \in 0 .. left'
      BY <1>2, <1>4
    <2> QED
      BY <1>1, <1>2, <1>3, <1>6, <2>1, <2>2 DEF TypeOK
  <1>8. Placed'
    BY <1>2 DEF Placed
  <1>9. InTime' /\ Clipped'
    BY <1>1, <1>2 DEF BudgetInv, InTime, NoneLingers, Lingers, Clipped
  <1>10. OnBudget'
    <2> SUFFICES ASSUME ~cancelled, CleanTo(pos + 1)
                 PROVE  start - left <= SilentUpTo[pos] + Using'
      BY <1>1, <1>2, <1>4 DEF OnBudget, CleanTo, Lingers
    <2>1. CleanTo(pos) /\ ~Lingers(pos)
      BY <1>4 DEF CleanTo
    <2>2. start - left <= SilentUpTo[pos - 1] + Using
      BY <2>1 DEF BudgetInv, OnBudget
    <2>3. Using' = 0
      <3>1. pc' # "running"
        BY <1>2
      <3> QED
        BY <3>1 DEF Using
    <2>4. Using = IF manner[pos] = "quick" THEN 0 ELSE Own(pos) - op
      BY DEF Using
    <2> QED
      BY <1>4, <1>5, <2>2, <2>3, <2>4
  <1>11. Settled'
    <2> SUFFICES ASSUME NEW n \in Jobs
                 PROVE  /\ fate'[n] = "unseen" <=> n >= pos'
                        /\ n < pos' /\ manner[n] = "quick" => fate'[n] = "done"
                        /\ fate'[n] = "cut" /\ ~cancelled /\ CleanTo(n) => start < UpTo[n]
      BY <1>1, <1>2 DEF Settled, CleanTo, Lingers
    <2>1. CASE n = pos
      <3>1. fate'[n] = outcome
        BY <1>2, <1>3, <2>1 DEF TypeOK
      <3>2. ~whole /\ ~cancelled /\ CleanTo(n) => start < UpTo[n]
        BY <2>1 DEF BudgetInv, Clipped
      <3> QED
        BY <1>2, <1>4, <2>1, <3>1, <3>2
    <2>2. CASE n # pos
      <3>1. fate'[n] = fate[n]
        BY <1>2, <1>3, <2>2 DEF TypeOK
      <3>2. n >= pos' <=> n >= pos
        BY <1>2, <1>4, <2>2
      <3>3. n < pos' <=> n < pos
        BY <1>2, <1>4, <2>2
      <3> QED
        BY <3>1, <3>2, <3>3 DEF BudgetInv, Settled
    <2> QED
      BY <2>1, <2>2
  <1> QED
    BY <1>7, <1>8, <1>9, <1>10, <1>11 DEF BudgetInv

(* The agent shuts down: nothing is asked of the budget any more.          *)
LEMMA CancelStep == BudgetInv /\ Cancel /\ [Next]_vars => BudgetInv'
  <1> SUFFICES ASSUME BudgetInv, Cancel, [Next]_vars
               PROVE  BudgetInv'
    OBVIOUS
  <1>1. /\ setup' = setup /\ manner' = manner /\ Granted' = Granted /\ Jobs' = Jobs
    BY GivenFixed
  <1>2. /\ cancelled' /\ cancelled' \in BOOLEAN /\ left' = 0 /\ op' = 0
        /\ UNCHANGED <<pc, pos, start, whole, fate, overran>>
    BY DEF Cancel
  <1> HIDE DEF Granted
  <1>3. TypeOK'
    <2>1. setup \in Setups /\ start \in 1 .. Granted
      BY DEF BudgetInv, TypeOK
    <2>2. left' \in 0 .. start /\ op' \in 0 .. left'
      BY <1>2, <2>1, GrantedFacts
    <2> QED
      BY <1>1, <1>2, <2>2 DEF BudgetInv, TypeOK
  <1>4. OnBudget' /\ Clipped'
    BY <1>2 DEF OnBudget, Clipped
  <1>5. Settled' /\ InTime'
    BY <1>1, <1>2 DEF BudgetInv, Settled, InTime, NoneLingers, Lingers
  <1>6. Placed'
    BY <1>1, <1>2 DEF BudgetInv, Placed, Here
  <1> QED
    BY <1>3, <1>4, <1>5, <1>6 DEF BudgetInv

LEMMA StutterStep == BudgetInv /\ UNCHANGED vars => BudgetInv'
  <1> SUFFICES ASSUME BudgetInv, UNCHANGED vars
               PROVE  BudgetInv'
    OBVIOUS
  <1>1. /\ SilentUpTo' = SilentUpTo /\ UpTo' = UpTo /\ Granted' = Granted
        /\ Jobs' = Jobs /\ \A n : Own(n)' = Own(n)
    BY GivenFixed
  <1>2. UNCHANGED <<setup, manner, pc, pos, start, left, op, whole, fate, overran, cancelled>>
    BY DEF vars
  <1> HIDE DEF SilentUpTo, UpTo, Granted, Own, Jobs
  <1>3. TypeOK' /\ Placed' /\ InTime'
    BY <1>1, <1>2 DEF BudgetInv, TypeOK, Placed, Here, InTime, NoneLingers, Lingers
  <1>4. OnBudget' /\ Clipped' /\ Settled'
    BY <1>1, <1>2 DEF BudgetInv, OnBudget, Clipped, Settled, CleanTo, Lingers, Using
  <1> QED
    BY <1>3, <1>4 DEF BudgetInv

LEMMA InvHolds == Spec => []BudgetInv
  <1>1. BudgetInv /\ [Next]_vars => BudgetInv'
    <2> SUFFICES ASSUME BudgetInv, [Next]_vars
                 PROVE  BudgetInv'
      OBVIOUS
    <2>1. CASE Finish
      <3>1. /\ pc = "running" /\ Settle("done")
            /\ "done" \in Fates \ {"unseen"} /\ "done" # "cut"
        BY <2>1 DEF Finish, Fates
      <3> QED
        BY <3>1, SettleStep
    <2>2. CASE Stop \/ LetGo
      <3> DEFINE outcome == IF whole /\ ~cancelled THEN "expired" ELSE "cut"
      <3>1. pc = "running" /\ Settle(outcome) /\ manner[pos] # "quick"
        BY <2>2 DEF Stop, LetGo, Stopping, Lingers
      <3>2. outcome \in Fates \ {"unseen"}
        BY DEF Fates
      <3>3. outcome = "cut" => ~whole \/ cancelled
        OBVIOUS
      <3> HIDE DEF outcome
      <3> QED
        BY <3>1, <3>2, <3>3, SettleStep
    <2>3. CASE Stopped \/ UNCHANGED vars
      BY <2>3, StutterStep DEF Stopped
    <2> QED
      BY <2>1, <2>2, <2>3, RoundStep, ReturnStep, BeginStep, ElapseStep, CancelStep
         DEF Next, Collect
  <1> QED
    BY <1>1, InitHolds, PTL DEF Spec
-----------------------------------------------------------------------------
(* Every variable keeps its type; in particular no job has more time left  *)
(* than its round, and no round more than collectorTimeout grants it       *)
(* (exec/collector.go:85-91, runner.go:140-157).                           *)
THEOREM TypesHold == Spec => []TypeOK
  BY InvHolds, PTL DEF BudgetInv

(* A job is cut short or left out only if the round was too short for it   *)
(* and those before it, or one of those lingered (exec/collector.go:73-91, *)
(* prom/collector.go:81-97).                                               *)
LEMMA OwnShareFollows == BudgetInv => OwnShare
  <1> SUFFICES ASSUME BudgetInv, NEW n \in Jobs, Lost(n), ~cancelled, CleanTo(n)
               PROVE  UpTo[n] > start
    BY DEF OwnShare, CleanTo
  <1>1. setup \in Setups /\ TypeOK
    BY DEF BudgetInv, TypeOK
  <1>2. /\ N \in Nat /\ Jobs = 1 .. N /\ pos \in 1 .. N + 1
        /\ start \in Nat /\ left \in Nat
    BY <1>1, SetupFacts, GrantedFacts DEF TypeOK, N
  <1> HIDE DEF UpTo, SilentUpTo, Own
  <1>3. CASE fate[n] = "cut"
    <2>1. UpTo[n] \in Nat
      BY <1>1, <1>2, UpToFacts
    <2> QED
      BY <1>2, <1>3, <2>1 DEF BudgetInv, Settled
  <1>4. CASE fate[n] = "unseen" /\ pc = "idle"
    <2>1. n >= pos
      BY <1>4 DEF BudgetInv, Settled
    <2>2. pos \in 1 .. N /\ Here
      BY <1>2, <2>1 DEF Here
    <2>3. left = 0
      BY <1>4, <2>2 DEF BudgetInv, Placed
    <2>4. CleanTo(pos)
      BY <1>2, <2>1 DEF CleanTo
    <2>5. Using = 0
      BY <1>4 DEF Using
    <2>6. start - left <= SilentUpTo[pos - 1] + Using
      BY <1>4, <2>4 DEF BudgetInv, OnBudget
    <2>7. /\ SilentUpTo[pos - 1] \in Nat /\ UpTo[pos - 1] \in Nat
          /\ SilentUpTo[pos - 1] <= UpTo[pos - 1]
          /\ UpTo[pos] = UpTo[pos - 1] + Own(pos)
          /\ UpTo[pos] \in Nat /\ UpTo[n] \in Nat
      BY <1>1, <1>2, <2>2, UpToFacts
    <2>8. UpTo[pos] <= UpTo[n]
      BY <1>1, <1>2, <2>1, <2>2, UpToFacts
    <2>9. Own(pos) \in Nat \ {0}
      BY <1>1, <2>2, SetupFacts DEF Here
    <2> QED
      BY <1>2, <2>3, <2>5, <2>6, <2>7, <2>8, <2>9
  <1> QED
    BY <1>3, <1>4 DEF Lost

THEOREM OwnShareHolds == Spec => []OwnShare
  BY InvHolds, OwnShareFollows, PTL

(* When the sum of the timeouts fits the interval and the runner's limit,  *)
(* and there was no waiting for a slot, every job has its own time         *)
(* (exec/collector.go:48-64, prom/collector.go:70-79, runner.go:140-157).  *)
THEOREM SumIsEnoughHolds == Spec => []SumIsEnough
  <1>1. BudgetInv => SumIsEnough
    <2> SUFFICES ASSUME BudgetInv,
                        UpTo[N] <= Smaller(setup.every, MaxCollectTimeout),
                        start = Granted, NoneLingers, ~cancelled,
                        NEW n \in Jobs, Lost(n)
                 PROVE  FALSE
      BY DEF SumIsEnough, N
    <2>1. setup \in Setups
      BY DEF BudgetInv, TypeOK
    <2>2. N \in Nat /\ Jobs = 1 .. N
      BY <2>1, SetupFacts
    <2> HIDE DEF UpTo, Granted
    <2>3. UpTo[N] <= start /\ start \in Nat
      BY <2>1, GrantedFacts
    <2>4. UpTo[n] > start
      <3>1. ~\E m \in 1 .. n - 1 : Lingers(m)
        BY <2>2 DEF NoneLingers
      <3> QED
        BY <3>1, OwnShareFollows DEF OwnShare
    <2>5. UpTo[n] <= UpTo[N] /\ UpTo[n] \in Nat /\ UpTo[N] \in Nat
      BY <2>1, <2>2, UpToFacts
    <2> QED
      BY <2>3, <2>4, <2>5
  <1> QED
    BY <1>1, InvHolds, PTL

(* A job that answers at once is never left out while those ahead that do  *)
(* not answer leave some of the deadline (exec/collector.go:73-83,         *)
(* prom/collector.go:81-91).                                               *)
THEOREM QuickNotStarvedHolds == Spec => []QuickNotStarved
  <1>1. BudgetInv => QuickNotStarved
    <2> SUFFICES ASSUME BudgetInv, NEW n \in Jobs, pc = "idle", ~cancelled,
                        manner[n] = "quick", SilentUpTo[n] < start, CleanTo(n)
                 PROVE  fate[n] = "done"
      BY DEF QuickNotStarved, CleanTo
    <2>1. setup \in Setups /\ TypeOK
      BY DEF BudgetInv, TypeOK
    <2>2. /\ N \in Nat /\ Jobs = 1 .. N /\ pos \in 1 .. N + 1
          /\ start \in Nat /\ left \in Nat
      BY <2>1, SetupFacts, GrantedFacts DEF TypeOK, N
    <2> HIDE DEF SilentUpTo
    <2>3. CASE n < pos
      BY <2>3 DEF BudgetInv, Settled
    <2>4. CASE n >= pos
      <3>1. pos \in 1 .. N /\ Here
        BY <2>2, <2>4 DEF Here
      <3>2. left = 0
        BY <3>1 DEF BudgetInv, Placed
      <3>3. CleanTo(pos)
        BY <2>2, <2>4 DEF CleanTo
      <3>4. Using = 0
        BY DEF Using
      <3>5. start - left <= SilentUpTo[pos - 1] + Using
        BY <3>3 DEF BudgetInv, OnBudget
      <3>6. /\ SilentUpTo[pos - 1] \in Nat /\ SilentUpTo[n] \in Nat
            /\ SilentUpTo[pos - 1] <= SilentUpTo[n]
        BY <2>1, <2>2, <2>4, <3>1, UpToFacts
      <3> QED
        BY <2>2, <3>2, <3>4, <3>5, <3>6
    <2> QED
      BY <2>2, <2>3, <2>4
  <1> QED
    BY <1>1, InvHolds, PTL

(* Without a lingering child no round outlives its deadline, and that lies *)
(* within the interval (exec/collector.go:90-97, runner.go:140-157).       *)
THEOREM OnTimeHolds == Spec => []OnTime
  <1>1. BudgetInv => OnTime
    <2> SUFFICES ASSUME BudgetInv, NoneLingers
                 PROVE  ~overran /\ start <= setup.every
      BY DEF OnTime
    <2>1. setup \in Setups /\ start \in 1 .. Granted
      BY DEF BudgetInv, TypeOK
    <2>2. /\ Granted \in Nat /\ Granted <= setup.every /\ setup.every \in Nat
      BY <2>1, GrantedFacts, SetupFacts
    <2> HIDE DEF Granted
    <2>3. ~overran
      BY DEF BudgetInv, InTime
    <2> QED
      BY <2>1, <2>2, <2>3
  <1> QED
    BY <1>1, InvHolds, PTL
=============================================================================
