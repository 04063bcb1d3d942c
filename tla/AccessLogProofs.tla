-------------------------- MODULE AccessLogProofs ---------------------------
(***************************************************************************)
(* Proofs about AccessLog, for every capacity of the client's queue, every *)
(* size of the reservoirs, any number of lines and whatever they say.  The *)
(* ranked rows of a tick never take a place in the queue that one of its   *)
(* counts or times would have needed.  The variables have their types.  A  *)
(* reservoir is fair: each value offered to it is as likely to be in the   *)
(* sample as any other.  The counts are true.  However a site or a page is *)
(* spelled, it has one row, and what a page loads has none.                *)
(***************************************************************************)
EXTENDS AccessLog, SumTheorems, SequenceTheorems, TLAPS

(* A row is in the queue only when no count and no time is left to offer.  *)
RowsLast ==
    /\ phase \in {"idle", "parse", "offer"}
    /\ DOMAIN left = {"counts", "times", "rows"}
    /\ mine \in Nat
    /\ phase = "parse" => mine = 0
    /\ phase = "offer" /\ mine > 0 => left["counts"] = 0 /\ left["times"] = 0
    /\ BaseFirst

(* Every step keeps the rows behind the counts and times of their tick.    *)
LEMMA StepLast == RowsLast /\ [Next]_vars => RowsLast'
  <1> SUFFICES ASSUME RowsLast, [Next]_vars
               PROVE  RowsLast'
    OBVIOUS
  <1> USE DEF RowsLast, BaseFirst
  <1>1. CASE UNCHANGED vars
    BY <1>1 DEF vars
  <1>2. CASE Begin
    BY <1>2 DEF Begin
  <1>3. CASE Line
    BY <1>3 DEF Line
  <1>4. CASE Parsed
    BY <1>4 DEF Parsed
  <1>5. ASSUME NEW kind \in DOMAIN left, Offer(kind)
        PROVE  RowsLast'
    <2>1. kind \in {"counts", "times", "rows"}
      OBVIOUS
    <2>2. kind # "rows" => ~(left["counts"] = 0 /\ left["times"] = 0)
      BY <1>5, <2>1 DEF Offer
    <2>3. /\ ~crowded' /\ phase' = phase
          /\ mine' = IF kind = "rows" /\ queue < Capacity THEN mine + 1 ELSE mine
      <3>1. ~(kind # "rows" /\ queue = Capacity /\ mine > 0)
        BY <1>5, <2>2 DEF Offer
      <3> QED
        BY <1>5, <3>1 DEF Offer
    <2>4. CASE kind = "rows"
      <3>1. left["counts"] = 0 /\ left["times"] = 0
        <4>1. ItsTurn(kind)
          BY <1>5 DEF Offer
        <4> QED
          BY <4>1, <2>4 DEF ItsTurn
      <3>2. DOMAIN left' = DOMAIN left /\ left'["counts"] = 0 /\ left'["times"] = 0
        BY <1>5, <2>4, <3>1 DEF Offer
      <3> QED
        BY <1>5, <2>3, <3>2 DEF Offer
    <2>5. CASE kind # "rows"
      <3>1. mine = 0
        BY <1>5, <2>2, <2>5 DEF Offer
      <3>2. DOMAIN left' = DOMAIN left
        BY <1>5 DEF Offer
      <3> QED
        BY <2>3, <2>5, <3>1, <3>2
    <2> QED
      BY <2>4, <2>5
  <1>6. CASE Return
    BY <1>6 DEF Return
  <1>7. CASE Other
    BY <1>7 DEF Other
  <1>8. CASE Send
    BY <1>8 DEF Send
  <1> QED
    BY <1>1, <1>2, <1>3, <1>4, <1>5, <1>6, <1>7, <1>8 DEF Next

(* A count or a time is never dropped for want of a place that a ranked    *)
(* row of the same tick has taken (accesslog.go:115-170).                  *)
THEOREM BaseFirstHolds == Spec => []BaseFirst
  <1>1. Init => RowsLast
    BY DEF Init, RowsLast, Nothing, BaseFirst
  <1>2. RowsLast => BaseFirst
    BY DEF RowsLast
  <1> QED
    BY <1>1, <1>2, StepLast, PTL DEF Spec
-----------------------------------------------------------------------------
(* The reservoir.                                                          *)
Total(s) == SumFunction(s.ways)

(* The samples a reservoir may hold: different values that were offered,   *)
(* all of them while there is room.                                        *)
SampleOK(s, t) ==
    /\ t \in Seq(s.values) /\ Len(t) = Sampled(s)
    /\ \A i, j \in 1 .. Len(t) : t[i] = t[j] => i = j
    /\ s.offered <= maxSamples => s.values \subseteq ToSet(t)
    /\ s.ways[t] \in Nat

(* Of all the choices, a value is kept by the share that is sampled.       *)
Share(s, v) == s.offered * Weight(s, v) = Sampled(s) * Total(s)

ReservoirOK(s, n) ==
    /\ s.offered \in Nat /\ s.values \in SUBSET (1 .. n)
    /\ IsFiniteSet(DOMAIN s.ways) /\ DOMAIN s.ways # {}
    /\ \A t \in DOMAIN s.ways : SampleOK(s, t)
    /\ \A v \in s.values : Share(s, v)

LEMMA MinOfTwo ==
  ASSUME NEW a \in Int, NEW b \in Int
  PROVE  Min({a, b}) = IF a <= b THEN a ELSE b
  <1>1. \E x \in {a, b} : \A y \in {a, b} : x <= y
    OBVIOUS
  <1>2. Min({a, b}) \in {a, b} /\ \A y \in {a, b} : Min({a, b}) <= y
    BY <1>1 DEF Min
  <1> QED
    BY <1>2

LEMMA SampledIs ==
  ASSUME NEW s, s.offered \in Nat
  PROVE  /\ Sampled(s) \in 0 .. maxSamples
         /\ Sampled(s) = IF s.offered <= maxSamples THEN s.offered ELSE maxSamples
  BY AccessLogAssumption, MinOfTwo DEF Sampled

-----------------------------------------------------------------------------
(* What Intn does to one sample. *)
LEMMA ReplacedIs ==
  ASSUME NEW V, NEW t \in Seq(V), Len(t) = maxSamples, NEW r \in Nat, NEW v
  PROVE  /\ DOMAIN Replaced(t, r, v) = 1 .. maxSamples
         /\ \A i \in 1 .. maxSamples :
              /\ i = r + 1 => Replaced(t, r, v)[i] = v
              /\ i # r + 1 => Replaced(t, r, v)[i] = t[i]
  <1>0. maxSamples \in Nat
    BY AccessLogAssumption
  <1>1. DOMAIN t = 1 .. maxSamples
    OBVIOUS
  <1>2. CASE r < maxSamples
    BY <1>1, <1>2 DEF Replaced
  <1>3. CASE ~(r < maxSamples)
    BY <1>0, <1>1, <1>3 DEF Replaced
  <1> QED
    BY <1>2, <1>3

LEMMA ReplacedType ==
  ASSUME NEW V, NEW t \in Seq(V), Len(t) = maxSamples, NEW r \in Nat, NEW v
  PROVE  Replaced(t, r, v) \in Seq(V \cup {v}) /\ Len(Replaced(t, r, v)) = maxSamples
  <1>0. maxSamples \in Nat
    BY AccessLogAssumption
  <1>1. t \in Seq(V \cup {v})
    OBVIOUS
  <1>2. CASE r < maxSamples
    <2>1. Replaced(t, r, v) = [t EXCEPT ![r + 1] = v]
      BY <1>2 DEF Replaced
    <2>2. r + 1 \in 1 .. Len(t)
      BY <1>0, <1>2
    <2> QED
      BY <1>1, <2>1, <2>2
  <1>3. CASE ~(r < maxSamples)
    BY <1>1, <1>3 DEF Replaced
  <1> QED
    BY <1>2, <1>3

LEMMA ReplacedDiffer ==
  ASSUME NEW V, NEW t \in Seq(V), Len(t) = maxSamples, NEW r \in Nat, NEW v, v \notin V,
         \A i, j \in 1 .. Len(t) : t[i] = t[j] => i = j
  PROVE  \A i, j \in 1 .. maxSamples :
            Replaced(t, r, v)[i] = Replaced(t, r, v)[j] => i = j
  <1> DEFINE q == Replaced(t, r, v)
  <1>1. \A i \in 1 .. maxSamples : t[i] # v
    BY AccessLogAssumption
  <1>2. \A i \in 1 .. maxSamples : (i = r + 1 => q[i] = v) /\ (i # r + 1 => q[i] = t[i])
    BY ReplacedIs
  <1> HIDE DEF q
  <1>3. \A i, j \in 1 .. maxSamples : q[i] = q[j] => i = j
    BY <1>1, <1>2
  <1> QED
    BY <1>3 DEF q

(* How many of the n choices leave w in a sample. *)
Chances(t, n, v, w) == Cardinality({r \in 0 .. (n - 1) : w \in ToSet(Replaced(t, r, v))})

(* The new value is kept by maxSamples of the n choices.                   *)
LEMMA ChancesOfNew ==
  ASSUME NEW V, NEW t \in Seq(V), Len(t) = maxSamples, NEW v, v \notin V,
         NEW n \in Nat, maxSamples <= n
  PROVE  Chances(t, n, v, v) = maxSamples
  <1> DEFINE K == {r \in 0 .. (n - 1) : v \in ToSet(Replaced(t, r, v))}
  <1>0. maxSamples \in Nat \ {0}
    BY AccessLogAssumption
  <1>1. ASSUME NEW r \in 0 .. (n - 1)
        PROVE  v \in ToSet(Replaced(t, r, v)) <=> r \in 0 .. (maxSamples - 1)
    <2> DEFINE q == Replaced(t, r, v)
    <2>0. r \in Nat
      OBVIOUS
    <2>1. /\ DOMAIN q = 1 .. maxSamples
          /\ \A i \in 1 .. maxSamples : (i = r + 1 => q[i] = v) /\ (i # r + 1 => q[i] = t[i])
      BY <2>0, ReplacedIs
    <2>2. \A i \in 1 .. maxSamples : t[i] # v
      BY <1>0
    <2> HIDE DEF q
    <2>3. v \in ToSet(q) <=> \E i \in 1 .. maxSamples : q[i] = v
      BY <2>1 DEF ToSet
    <2>4. \A i \in 1 .. maxSamples : q[i] = v <=> i = r + 1
      BY <2>1, <2>2
    <2>5. (\E i \in 1 .. maxSamples : i = r + 1) <=> r \in 0 .. (maxSamples - 1)
      BY <1>0
    <2>6. v \in ToSet(q) <=> r \in 0 .. (maxSamples - 1)
      BY <2>3, <2>4, <2>5
    <2> QED
      BY <2>6 DEF q
  <1>2. K = 0 .. (maxSamples - 1)
    BY <1>0, <1>1
  <1> HIDE DEF K
  <1>3. Cardinality(0 .. (maxSamples - 1)) = (maxSamples - 1) - 0 + 1
    BY <1>0, FS_Interval
  <1>4. Cardinality(K) = maxSamples
    BY <1>0, <1>2, <1>3
  <1> QED
    BY <1>4 DEF K, Chances

(* A value in the sample is lost by one of them.                           *)
LEMMA ChancesOfOld ==
  ASSUME NEW V, NEW t \in Seq(V), Len(t) = maxSamples, NEW v,
         \A i, j \in 1 .. Len(t) : t[i] = t[j] => i = j,
         NEW n \in Nat, maxSamples <= n, NEW w, w # v
  PROVE  /\ w \in ToSet(t) => Chances(t, n, v, w) = n - 1
         /\ w \notin ToSet(t) => Chances(t, n, v, w) = 0
  <1> DEFINE K == {r \in 0 .. (n - 1) : w \in ToSet(Replaced(t, r, v))}
  <1>0. maxSamples \in Nat \ {0}
    BY AccessLogAssumption
  <1>1. ASSUME NEW r \in 0 .. (n - 1)
        PROVE  w \in ToSet(Replaced(t, r, v)) <=>
                   \E i \in 1 .. maxSamples : t[i] = w /\ i # r + 1
    <2> DEFINE q == Replaced(t, r, v)
    <2>0. r \in Nat
      OBVIOUS
    <2>1. /\ DOMAIN q = 1 .. maxSamples
          /\ \A i \in 1 .. maxSamples : (i = r + 1 => q[i] = v) /\ (i # r + 1 => q[i] = t[i])
      BY <2>0, ReplacedIs
    <2> HIDE DEF q
    <2>2. w \in ToSet(q) <=> \E i \in 1 .. maxSamples : q[i] = w
      BY <2>1 DEF ToSet
    <2>3. \A i \in 1 .. maxSamples : q[i] = w <=> t[i] = w /\ i # r + 1
      BY <2>1
    <2>4. w \in ToSet(q) <=> \E i \in 1 .. maxSamples : t[i] = w /\ i # r + 1
      BY <2>2, <2>3
    <2> QED
      BY <2>4 DEF q
  <1>2. w \in ToSet(t) <=> \E i \in 1 .. maxSamples : t[i] = w
    BY DEF ToSet
  <1>3. CASE w \in ToSet(t)
    <2>1. PICK i \in 1 .. maxSamples : t[i] = w
      BY <1>2, <1>3
    <2>2. \A j \in 1 .. maxSamples : t[j] = w <=> j = i
      BY <2>1
    <2>3. i - 1 \in 0 .. (n - 1)
      BY <1>0
    <2>4. K = (0 .. (n - 1)) \ {i - 1}
      <3>1. \A r \in 0 .. (n - 1) : r \in K <=> i # r + 1
        BY <1>1, <2>2
      <3>2. \A r \in 0 .. (n - 1) : i # r + 1 <=> r # i - 1
        BY <1>0
      <3> QED
        BY <3>1, <3>2
    <2>5. IsFiniteSet(0 .. (n - 1)) /\ Cardinality(0 .. (n - 1)) = n
      <3>1. 0 \in Int /\ n - 1 \in Int /\ ~(0 > n - 1) /\ (n - 1) - 0 + 1 = n
        BY <1>0
      <3>2. /\ IsFiniteSet(0 .. (n - 1))
            /\ Cardinality(0 .. (n - 1)) = IF 0 > n - 1 THEN 0 ELSE (n - 1) - 0 + 1
        BY <3>1, FS_Interval
      <3> QED
        BY <3>1, <3>2
    <2> HIDE DEF K
    <2>6. Cardinality(K) = n - 1
      BY <2>3, <2>4, <2>5, OneLess
    <2> QED
      BY <1>3, <2>6 DEF K, Chances
  <1>4. CASE w \notin ToSet(t)
    <2>1. K = {}
      BY <1>1, <1>2, <1>4
    <2> HIDE DEF K
    <2>2. Cardinality(K) = 0
      BY <2>1, FS_EmptySet
    <2> QED
      BY <1>4, <2>2 DEF K, Chances
  <1> QED
    BY <1>3, <1>4
-----------------------------------------------------------------------------
(* What Intn does to all the samples together. *)
After(ways, n, v) == {Replaced(s, r, v) : s \in DOMAIN ways, r \in 0 .. (n - 1)}

LEMMA AfterFinite ==
  ASSUME NEW ways, IsFiniteSet(DOMAIN ways), NEW n \in Nat, NEW v
  PROVE  IsFiniteSet(After(ways, n, v))
  <1> DEFINE D == (DOMAIN ways) \X (0 .. (n - 1))
             h == [p \in D |-> Replaced(p[1], p[2], v)]
  <1>1. IsFiniteSet(0 .. (n - 1))
    BY FS_Interval
  <1>2. IsFiniteSet(D)
    BY <1>1, FS_Product
  <1>3. After(ways, n, v) \subseteq {h[p] : p \in D}
    <2> SUFFICES ASSUME NEW s \in DOMAIN ways, NEW r \in 0 .. (n - 1)
                 PROVE  Replaced(s, r, v) \in {h[p] : p \in D}
      BY DEF After
    <2>1. <<s, r>> \in D /\ h[<<s, r>>] = Replaced(s, r, v)
      OBVIOUS
    <2> HIDE DEF D, h
    <2> QED
      BY <2>1
  <1> HIDE DEF D, h
  <1>4. IsFiniteSet({h[p] : p \in D})
    BY <1>2, FiniteImage
  <1> QED
    BY <1>3, <1>4, FS_Subset

(* The weight of the samples in U: each sample weighs as it did before, by *)
(* as many of the n choices as lead it into U.                             *)
LEMMA SpreadSum ==
  ASSUME NEW ways, IsFiniteSet(DOMAIN ways), \A s \in DOMAIN ways : ways[s] \in Nat,
         NEW n \in Nat, NEW v, NEW U \in SUBSET After(ways, n, v)
  PROVE  /\ DOMAIN Spread(ways, n, v) = After(ways, n, v)
         /\ \A t \in After(ways, n, v) : Spread(ways, n, v)[t] \in Nat
         /\ SumFunctionOnSet(Spread(ways, n, v), U) =
              SumFunctionOnSet([s \in DOMAIN ways |-> ways[s] *
                  Cardinality({r \in 0 .. (n - 1) : Replaced(s, r, v) \in U})], DOMAIN ways)
  <1> DEFINE D == DOMAIN ways
             N == 0 .. (n - 1)
             C(s, t) == Cardinality({r \in N : Replaced(s, r, v) = t})
             W == Spread(ways, n, v)
             E == After(ways, n, v)
             col(t) == [s \in D |-> ways[s] * C(s, t)]
             F == [s \in D |-> [t \in U |-> ways[s] * C(s, t)]]
             into == [s \in D |-> ways[s] * Cardinality({r \in N : Replaced(s, r, v) \in U})]
  <1>1. DOMAIN W = E /\ \A t \in E : W[t] = SumFunctionOnSet(col(t), D)
    BY DEF Spread, After, SumFunction
  <1>2. IsFiniteSet(N) /\ IsFiniteSet(U)
    BY FS_Interval, FS_Subset, AfterFinite
  <1> HIDE DEF N
  <1>3. \A s, t : C(s, t) \in Nat
    <2> TAKE s, t
    <2>1. IsFiniteSet({r \in N : Replaced(s, r, v) = t})
      BY <1>2, FS_Subset
    <2> QED
      BY <2>1, FS_CardinalityType
  <1>4. \A s \in D : \A t : ways[s] * C(s, t) \in Nat
    <2> HIDE DEF C
    <2> QED
      BY <1>3
  <1>5. \A t \in E : W[t] \in Nat
    <2> TAKE t \in E
    <2>1. \A s \in D : col(t)[s] \in Nat
      BY <1>4
    <2> HIDE DEF col, W
    <2> QED
      BY <1>1, <2>1, SumType
  <1>6. SumFunctionOnSet(Rows(F, D, U), D) = SumFunctionOnSet(Columns(F, D, U), U)
    <2>1. \A s \in D : \A t \in U : F[s][t] \in Nat
      BY <1>4
    <2>2. IsFiniteSet(D)
      OBVIOUS
    <2> HIDE DEF F, D
    <2> QED
      BY <1>2, <2>1, <2>2, SumExchange
  <1> DEFINE rowsum == [s \in D |-> SumFunctionOnSet(F[s], U)]
             colsum == [t \in U |-> SumFunctionOnSet([s \in D |-> F[s][t]], D)]
  <1>7. SumFunctionOnSet(colsum, U) = SumFunctionOnSet(W, U)
    <2>1. ASSUME NEW t \in U
          PROVE  W[t] \in Nat /\ colsum[t] = W[t]
      <3>1. [s \in D |-> F[s][t]] = col(t)
        OBVIOUS
      <3>2. colsum[t] = SumFunctionOnSet([s \in D |-> F[s][t]], D)
        OBVIOUS
      <3> HIDE DEF colsum, W, col
      <3> QED
        BY <1>1, <1>5, <3>1, <3>2
    <2> HIDE DEF colsum, W
    <2> QED
      BY <1>2, <2>1, SumSame
  <1>8. ASSUME NEW s \in D
        PROVE  into[s] \in Nat /\ rowsum[s] = into[s]
    <2> DEFINE h == [r \in N |-> Replaced(s, r, v)]
               count == [t \in U |-> Cardinality({r \in N : h[r] = t})]
    <2>1. SumFunctionOnSet(count, U) = Cardinality({r \in N : h[r] \in U})
      <3> HIDE DEF h
      <3> QED
        BY <1>2, CountByValue
    <2>2. {r \in N : h[r] \in U} = {r \in N : Replaced(s, r, v) \in U}
      OBVIOUS
    <2>3. \A t \in U : count[t] = C(s, t)
      <3> TAKE t \in U
      <3>1. {r \in N : h[r] = t} = {r \in N : Replaced(s, r, v) = t}
        OBVIOUS
      <3>2. count[t] = Cardinality({r \in N : h[r] = t})
        OBVIOUS
      <3> HIDE DEF count, h
      <3> QED
        BY <3>1, <3>2
    <2>4. \A t \in U : count[t] \in Nat /\ F[s][t] = ways[s] * count[t]
      <3>1. \A t \in U : F[s][t] = ways[s] * C(s, t)
        OBVIOUS
      <3> HIDE DEF F, C, count
      <3> QED
        BY <1>3, <2>3, <3>1
    <2>5. SumFunctionOnSet(F[s], U) = ways[s] * SumFunctionOnSet(count, U)
      <3> HIDE DEF F, count
      <3> QED
        BY <1>2, <2>4, SumScale
    <2>6. SumFunctionOnSet(count, U) \in Nat
      <3> HIDE DEF count
      <3> QED
        BY <1>2, <2>4, SumType
    <2>7. rowsum[s] = SumFunctionOnSet(F[s], U)
      OBVIOUS
    <2>8. into[s] = ways[s] * Cardinality({r \in N : Replaced(s, r, v) \in U})
      OBVIOUS
    <2>9. into[s] = ways[s] * SumFunctionOnSet(count, U)
      BY <2>1, <2>2, <2>8, Zenon
    <2> HIDE DEF rowsum, into, F, count
    <2> QED
      BY <2>5, <2>6, <2>7, <2>9
  <1>9. SumFunctionOnSet(rowsum, D) = SumFunctionOnSet(into, D)
    <2> HIDE DEF rowsum, into
    <2> QED
      BY <1>8, SumSame
  <1>10. SumFunctionOnSet(W, U) = SumFunctionOnSet(into, D)
    <2>1. rowsum = Rows(F, D, U) /\ colsum = Columns(F, D, U)
      BY DEF Rows, Columns
    <2> HIDE DEF rowsum, colsum, into, W, F, D
    <2> QED
      BY <1>6, <1>7, <1>9, <2>1
  <1> QED
    BY <1>1, <1>5, <1>10, Zenon DEF N

(* All of them together, and those that keep x.                            *)
Keeping(T, x) == {t \in T : x \in ToSet(t)}
Kept(ways, n, v, x) ==
    SumFunctionOnSet([s \in DOMAIN ways |-> ways[s] * Chances(s, n, v, x)], DOMAIN ways)

LEMMA SpreadWeight ==
  ASSUME NEW ways, IsFiniteSet(DOMAIN ways), \A s \in DOMAIN ways : ways[s] \in Nat,
         NEW n \in Nat, NEW v
  PROVE  /\ SumFunctionOnSet(Spread(ways, n, v), After(ways, n, v)) =
              n * SumFunctionOnSet(ways, DOMAIN ways)
         /\ \A x : SumFunctionOnSet(Spread(ways, n, v), Keeping(After(ways, n, v), x)) =
                   Kept(ways, n, v, x)
  <1> DEFINE D == DOMAIN ways
             N == 0 .. (n - 1)
             E == After(ways, n, v)
  <1>1. ASSUME NEW s \in D, NEW r \in N
        PROVE  Replaced(s, r, v) \in E
    BY DEF After
  <1>2. Cardinality(N) = n
    <2>1. n = 0 => (0 > n - 1)
      OBVIOUS
    <2>2. n # 0 => ~(0 > n - 1) /\ (n - 1) - 0 + 1 = n
      OBVIOUS
    <2>3. Cardinality(N) = IF 0 > n - 1 THEN 0 ELSE (n - 1) - 0 + 1
      BY FS_Interval
    <2> QED
      BY <2>1, <2>2, <2>3
  <1>3. SumFunctionOnSet(Spread(ways, n, v), E) = n * SumFunctionOnSet(ways, D)
    <2> DEFINE into == [s \in D |-> ways[s] * Cardinality({r \in N : Replaced(s, r, v) \in E})]
    <2>1. SumFunctionOnSet(Spread(ways, n, v), E) = SumFunctionOnSet(into, D)
      BY SpreadSum
    <2>2. ASSUME NEW s \in D
          PROVE  ways[s] \in Nat /\ into[s] = n * ways[s]
      <3>1. {r \in N : Replaced(s, r, v) \in E} = N
        BY <1>1
      <3>2. into[s] = ways[s] * Cardinality({r \in N : Replaced(s, r, v) \in E})
        OBVIOUS
      <3>3. into[s] = ways[s] * n
        BY <1>2, <3>1, <3>2, Zenon
      <3> HIDE DEF into
      <3> QED
        BY <3>3
    <2>3. SumFunctionOnSet(into, D) = n * SumFunctionOnSet(ways, D)
      <3> HIDE DEF into
      <3> QED
        BY <2>2, SumScale
    <2> QED
      BY <2>1, <2>3, Zenon
  <1>4. ASSUME NEW x
        PROVE  SumFunctionOnSet(Spread(ways, n, v), Keeping(E, x)) = Kept(ways, n, v, x)
    <2> DEFINE U == Keeping(E, x)
               into == [s \in D |-> ways[s] * Cardinality({r \in N : Replaced(s, r, v) \in U})]
               keep == [s \in D |-> ways[s] * Chances(s, n, v, x)]
    <2>1. SumFunctionOnSet(Spread(ways, n, v), U) = SumFunctionOnSet(into, D)
      <3>1. U \in SUBSET After(ways, n, v)
        BY DEF Keeping
      <3> HIDE DEF U
      <3> QED
        BY <3>1, SpreadSum
    <2>2. ASSUME NEW s \in D
          PROVE  Cardinality({r \in N : Replaced(s, r, v) \in U}) = Chances(s, n, v, x)
      <3>1. {r \in N : Replaced(s, r, v) \in U} =
            {r \in N : x \in ToSet(Replaced(s, r, v))}
        BY <1>1 DEF Keeping
      <3> QED
        BY <3>1 DEF Chances
    <2>3. into = keep
      <3> HIDE DEF U, N
      <3> QED
        BY <2>2
    <2> QED
      BY <2>1, <2>3, Zenon DEF Kept
  <1> QED
    BY <1>3, <1>4
-----------------------------------------------------------------------------
(* A value offered while there is room is in every sample.                 *)
LEMMA OfferWithRoom ==
  ASSUME NEW s, NEW k \in Nat, ReservoirOK(s, k), ~Full(s)
  PROVE  ReservoirOK(offer(s, k + 1), k + 1)
  <1> DEFINE v == k + 1
             u == offer(s, v)
             D == DOMAIN s.ways
             V == s.values
  <1>0. maxSamples \in Nat \ {0}
    BY AccessLogAssumption
  <1>1. /\ s.offered \in Nat /\ V \in SUBSET (1 .. k)
        /\ IsFiniteSet(D) /\ D # {}
        /\ \A t \in D : SampleOK(s, t)
    BY DEF ReservoirOK
  <1>2. s.offered < maxSamples /\ Sampled(s) = s.offered
    <2>1. PICK t \in D : SampleOK(s, t)
      BY <1>1
    <2>2. Len(t) = Sampled(s) /\ ~(Len(t) >= maxSamples)
      BY <2>1 DEF SampleOK, Full
    <2>3. Sampled(s) = IF s.offered <= maxSamples THEN s.offered ELSE maxSamples
      BY <1>1, SampledIs
    <2> QED
      BY <1>0, <1>1, <2>2, <2>3
  <1>3. /\ u.offered = s.offered + 1 /\ u.values = V \cup {v}
        /\ u.ways = Append1(s.ways, v)
    BY DEF offer
  <1> HIDE DEF u
  <1>4. u.offered \in Nat /\ u.offered <= maxSamples /\ Sampled(u) = u.offered
    <2>1. u.offered \in Nat /\ u.offered <= maxSamples
      BY <1>0, <1>1, <1>2, <1>3
    <2> QED
      BY <2>1, SampledIs
  <1>5. v \notin V /\ u.values \in SUBSET (1 .. (k + 1))
    BY <1>1, <1>3
  <1>6. /\ DOMAIN u.ways = {Append(t, v) : t \in D}
        /\ \A t \in DOMAIN u.ways : u.ways[t] = s.ways[Front(t)]
    BY <1>3 DEF Append1
  <1>7. ASSUME NEW t \in D
        PROVE  /\ t \in Seq(V) /\ Len(t) = s.offered
               /\ \A i, j \in 1 .. Len(t) : t[i] = t[j] => i = j
               /\ V \subseteq ToSet(t) /\ s.ways[t] \in Nat
    <2>1. SampleOK(s, t)
      BY <1>1
    <2>2. s.offered <= maxSamples
      BY <1>0, <1>1, <1>2
    <2> QED
      BY <1>2, <2>1, <2>2, Zenon DEF SampleOK
  <1>8. ASSUME NEW t \in D
        PROVE  SampleOK(u, Append(t, v))
    <2> DEFINE q == Append(t, v)
    <2>1. t \in Seq(V \cup {v}) /\ Len(t) \in Nat
      BY <1>7
    <2>2. /\ q \in Seq(V \cup {v}) /\ Len(q) = Len(t) + 1
          /\ \A i \in 1 .. Len(t) : q[i] = t[i]
          /\ q[Len(t) + 1] = v
      BY <2>1
    <2>3. \A i \in 1 .. Len(t) : t[i] # v
      BY <1>5, <1>7
    <2>4. Front(q) = t
      <3>1. Len(q) - 1 = Len(t)
        BY <2>1, <2>2
      <3>2. Front(q) = SubSeq(q, 1, Len(t))
        BY <3>1 DEF Front
      <3>3. SubSeq(Append(t, v), 1, Len(t)) = t
        BY <2>1
      <3> QED
        BY <3>2, <3>3
    <2>5. q \in DOMAIN u.ways
      BY <1>6
    <2>6. u.ways[q] \in Nat
      <3> HIDE DEF q
      <3> QED
        BY <1>6, <1>7, <2>4, <2>5
    <2> HIDE DEF q
    <2>7. \A i, j \in 1 .. Len(q) : q[i] = q[j] => i = j
      <3>1. \A i \in 1 .. Len(q) : i \in 1 .. Len(t) \/ i = Len(t) + 1
        BY <2>1, <2>2
      <3> QED
        BY <1>7, <2>1, <2>2, <2>3, <3>1
    <2>8. u.values \subseteq ToSet(q)
      <3> SUFFICES ASSUME NEW w \in V \cup {v}
                   PROVE  \E i \in DOMAIN q : q[i] = w
        BY <1>3 DEF ToSet
      <3>1. DOMAIN q = 1 .. (Len(t) + 1)
        BY <2>1, <2>2
      <3>2. CASE w = v
        BY <2>1, <2>2, <3>1, <3>2
      <3>3. CASE w \in V
        <4>1. PICK i \in DOMAIN t : t[i] = w
          BY <1>7, <3>3 DEF ToSet
        <4>2. i \in 1 .. Len(t)
          BY <1>7
        <4> QED
          BY <2>1, <2>2, <3>1, <4>1, <4>2
      <3> QED
        BY <3>2, <3>3
    <2>9. Len(q) = Sampled(u)
      BY <1>3, <1>4, <1>7, <2>2
    <2> QED
      BY <1>3, <2>2, <2>6, <2>7, <2>8, <2>9 DEF SampleOK, q
  <1>9. \A t \in DOMAIN u.ways : SampleOK(u, t)
    BY <1>6, <1>8
  <1>10. IsFiniteSet(DOMAIN u.ways) /\ DOMAIN u.ways # {}
    <2> DEFINE h == [t \in D |-> Append(t, v)]
    <2>1. IsFiniteSet({h[t] : t \in D})
      <3> HIDE DEF h
      <3> QED
        BY <1>1, FiniteImage
    <2>2. {h[t] : t \in D} = {Append(t, v) : t \in D}
      OBVIOUS
    <2>3. {Append(t, v) : t \in D} # {}
      BY <1>1
    <2> QED
      BY <1>6, <2>1, <2>2, <2>3
  <1>11. ASSUME NEW w \in u.values
         PROVE  Share(u, w)
    <2>1. \A t \in DOMAIN u.ways : w \in ToSet(t)
      BY <1>4, <1>9 DEF SampleOK
    <2>2. {t \in DOMAIN u.ways : w \in ToSet(t)} = DOMAIN u.ways
      BY <2>1
    <2>3. Weight(u, w) = Total(u)
      BY <2>2 DEF Weight, Total, SumFunction
    <2> QED
      BY <1>4, <2>3 DEF Share
  <1>12. ReservoirOK(u, k + 1)
    BY <1>4, <1>5, <1>9, <1>10, <1>11 DEF ReservoirOK
  <1> QED
    BY <1>12 DEF u

(* A value offered to a full one is in maxSamples of offered + 1 parts of  *)
(* the new choices, and every value kept before stays in all but one.      *)
LEMMA OfferWhenFull ==
  ASSUME NEW s, NEW k \in Nat, ReservoirOK(s, k), Full(s)
  PROVE  ReservoirOK(offer(s, k + 1), k + 1)
  <1> DEFINE v == k + 1
             n == s.offered + 1
             u == offer(s, v)
             D == DOMAIN s.ways
             V == s.values
             N == 0 .. (n - 1)
             E == After(s.ways, n, v)
  <1>0. maxSamples \in Nat \ {0}
    BY AccessLogAssumption
  <1>1. /\ s.offered \in Nat /\ n \in Nat /\ V \in SUBSET (1 .. k)
        /\ IsFiniteSet(D) /\ D # {}
        /\ \A t \in D : SampleOK(s, t)
        /\ \A w \in V : Share(s, w)
    BY DEF ReservoirOK
  <1>2. maxSamples <= s.offered /\ Sampled(s) = maxSamples
    <2>1. PICK t \in D : Len(t) >= maxSamples
      BY DEF Full
    <2>2. Len(t) = Sampled(s)
      BY <1>1 DEF SampleOK
    <2>3. Sampled(s) = IF s.offered <= maxSamples THEN s.offered ELSE maxSamples
      BY <1>1, SampledIs
    <2> QED
      BY <1>0, <1>1, <2>1, <2>2, <2>3
  <1>3. /\ u.offered = n /\ u.values = V \cup {v}
        /\ u.ways = Spread(s.ways, n, v)
    BY DEF offer
  <1> HIDE DEF u
  <1>4. Sampled(u) = maxSamples /\ ~(u.offered <= maxSamples) /\ u.offered \in Nat
    <2>1. ~(u.offered <= maxSamples) /\ u.offered \in Nat
      BY <1>0, <1>1, <1>2, <1>3
    <2> QED
      BY <2>1, SampledIs
  <1>5. v \notin V /\ u.values \in SUBSET (1 .. (k + 1))
    BY <1>1, <1>3
  <1>6. ASSUME NEW t \in D
        PROVE  /\ t \in Seq(V) /\ Len(t) = maxSamples
               /\ \A i, j \in 1 .. Len(t) : t[i] = t[j] => i = j
               /\ s.ways[t] \in Nat
    BY <1>1, <1>2 DEF SampleOK
  <1>7. /\ DOMAIN u.ways = E
        /\ \A t \in E : u.ways[t] \in Nat
    <2>1. /\ DOMAIN Spread(s.ways, n, v) = After(s.ways, n, v)
          /\ \A t \in After(s.ways, n, v) : Spread(s.ways, n, v)[t] \in Nat
      <3>1. {} \in SUBSET After(s.ways, n, v)
        OBVIOUS
      <3>2. \A t \in D : s.ways[t] \in Nat
        BY <1>6
      <3> HIDE DEF n, v
      <3> QED
        BY <1>1, <3>1, <3>2, SpreadSum
    <2> QED
      BY <1>3, <2>1
  <1>8. IsFiniteSet(E) /\ E # {}
    <2>1. IsFiniteSet(E)
      <3> HIDE DEF n, v
      <3> QED
        BY <1>1, AfterFinite
    <2>2. PICK t : t \in D
      BY <1>1
    <2>3. 0 \in N
      BY <1>1
    <2>4. Replaced(t, 0, v) \in E
      BY <2>2, <2>3 DEF After
    <2> QED
      BY <2>1, <2>4
  <1>9. ASSUME NEW t \in E
        PROVE  SampleOK(u, t)
    <2>1. PICK t0 \in D, r \in N : t = Replaced(t0, r, v)
      BY DEF After
    <2>2. r \in Nat
      OBVIOUS
    <2>3. t \in Seq(V \cup {v}) /\ Len(t) = maxSamples
      BY <1>6, <2>1, <2>2, ReplacedType
    <2>4. \A i, j \in 1 .. maxSamples : t[i] = t[j] => i = j
      BY <1>5, <1>6, <2>1, <2>2, ReplacedDiffer
    <2> QED
      BY <1>3, <1>4, <1>7, <2>3, <2>4 DEF SampleOK
  <1> DEFINE T == Total(s)
  <1>10. T \in Nat
    BY <1>1, <1>6, SumType DEF Total, SumFunction
  <1>11. Total(u) = n * T
    <2>1. SumFunctionOnSet(Spread(s.ways, n, v), E) = n * SumFunctionOnSet(s.ways, D)
      <3>1. \A t \in D : s.ways[t] \in Nat
        BY <1>6
      <3> HIDE DEF n, v
      <3> QED
        BY <1>1, <3>1, SpreadWeight
    <2> QED
      BY <1>3, <1>7, <2>1 DEF Total, SumFunction
  <1>12. ASSUME NEW x
         PROVE  Weight(u, x) = Kept(s.ways, n, v, x)
    <2>1. SumFunctionOnSet(Spread(s.ways, n, v), Keeping(E, x)) = Kept(s.ways, n, v, x)
      <3>1. \A t \in D : s.ways[t] \in Nat
        BY <1>6
      <3> HIDE DEF n, v
      <3> QED
        BY <1>1, <3>1, SpreadWeight
    <2> QED
      BY <1>3, <1>7, <2>1 DEF Weight, Keeping
  <1>13. Weight(u, v) = maxSamples * T
    <2> DEFINE g == [t \in D |-> s.ways[t] * Chances(t, n, v, v)]
    <2>1. ASSUME NEW t \in D
          PROVE  s.ways[t] \in Nat /\ g[t] = maxSamples * s.ways[t]
      <3>1. maxSamples <= n
        BY <1>0, <1>1, <1>2
      <3>2. Chances(t, n, v, v) = maxSamples
        <4> HIDE DEF n, v
        <4> QED
          BY <1>1, <1>5, <1>6, <3>1, ChancesOfNew
      <3>3. g[t] = s.ways[t] * Chances(t, n, v, v)
        OBVIOUS
      <3>4. g[t] = s.ways[t] * maxSamples
        BY <3>2, <3>3, Zenon
      <3> HIDE DEF g
      <3> QED
        BY <1>0, <1>6, <3>4
    <2>2. SumFunctionOnSet(g, D) = maxSamples * SumFunctionOnSet(s.ways, D)
      <3> HIDE DEF g
      <3> QED
        BY <1>0, <1>1, <2>1, SumScale
    <2>3. Weight(u, v) = SumFunctionOnSet(g, D)
      BY <1>12 DEF Kept
    <2> QED
      BY <2>2, <2>3 DEF Total, SumFunction
  <1>14. ASSUME NEW w \in V
         PROVE  Weight(s, w) \in Nat /\ Weight(u, w) = (n - 1) * Weight(s, w)
    <2> DEFINE K == {t \in D : w \in ToSet(t)}
               f == [t \in D |-> IF t \in K THEN s.ways[t] ELSE 0]
               g == [t \in D |-> s.ways[t] * Chances(t, n, v, w)]
    <2>1. Weight(s, w) = SumFunctionOnSet(s.ways, K)
      BY DEF Weight
    <2>2. SumFunctionOnSet(f, D) = SumFunctionOnSet(s.ways, K)
      <3>1. \A t \in D : s.ways[t] \in Nat /\ f[t] = IF t \in K THEN s.ways[t] ELSE 0
        BY <1>6
      <3>2. K \in SUBSET D
        OBVIOUS
      <3> HIDE DEF f, K
      <3> QED
        BY <1>1, <3>1, <3>2, SumFilter
    <2>3. \A t \in D : f[t] \in Nat
      BY <1>6
    <2>4. ASSUME NEW t \in D
          PROVE  g[t] = (n - 1) * f[t]
      <3>1. maxSamples <= n /\ w # v
        BY <1>0, <1>1, <1>2, <1>5
      <3> DEFINE c == Chances(t, n, v, w)
      <3>2. (w \in ToSet(t) => c = n - 1) /\ (w \notin ToSet(t) => c = 0)
        <4> HIDE DEF n, v
        <4> QED
          BY <1>1, <1>6, <3>1, ChancesOfOld
      <3>3. g[t] = s.ways[t] * c
        OBVIOUS
      <3>4. (w \in ToSet(t) => f[t] = s.ways[t]) /\ (w \notin ToSet(t) => f[t] = 0)
        OBVIOUS
      <3> HIDE DEF f, g, c
      <3> QED
        BY <1>1, <1>6, <3>2, <3>3, <3>4
    <2>5. SumFunctionOnSet(g, D) = (n - 1) * SumFunctionOnSet(f, D)
      <3>1. n - 1 \in Nat
        BY <1>1
      <3> HIDE DEF f, g, n
      <3> QED
        BY <1>1, <2>3, <2>4, <3>1, SumScale
    <2>6. Weight(u, w) = SumFunctionOnSet(g, D)
      BY <1>12 DEF Kept
    <2>7. SumFunctionOnSet(f, D) \in Nat
      <3> HIDE DEF f
      <3> QED
        BY <1>1, <2>3, SumType
    <2> QED
      BY <2>1, <2>2, <2>5, <2>6, <2>7, Zenon
  <1> HIDE DEF T
  <1>15. ASSUME NEW w \in u.values
         PROVE  u.offered * Weight(u, w) = maxSamples * (n * T)
    <2>1. CASE w = v
      <3>1. n * (maxSamples * T) = maxSamples * (n * T)
        BY <1>0, <1>1, <1>10
      <3> QED
        BY <1>3, <1>13, <2>1, <3>1
    <2>2. CASE w \in V
      <3>1. s.offered * Weight(s, w) = maxSamples * T
        BY <1>1, <1>2, <2>2 DEF Share, T
      <3>2. n - 1 = s.offered
        BY <1>1
      <3>3. Weight(u, w) = maxSamples * T
        BY <1>14, <2>2, <3>1, <3>2
      <3>4. n * (maxSamples * T) = maxSamples * (n * T)
        BY <1>0, <1>1, <1>10
      <3> QED
        BY <1>3, <3>3, <3>4
    <2> QED
      BY <1>3, <2>1, <2>2
  <1>16. \A w \in u.values : Share(u, w)
    BY <1>4, <1>11, <1>15 DEF Share
  <1>17. ReservoirOK(u, k + 1)
    BY <1>4, <1>5, <1>7, <1>8, <1>9, <1>16 DEF ReservoirOK
  <1> QED
    BY <1>17 DEF u

LEMMA OfferKeeps ==
  ASSUME NEW s, NEW k \in Nat, ReservoirOK(s, k)
  PROVE  ReservoirOK(s, k + 1) /\ ReservoirOK(offer(s, k + 1), k + 1)
  <1>1. ReservoirOK(s, k + 1)
    <2>1. 1 .. k \subseteq 1 .. (k + 1)
      OBVIOUS
    <2> QED
      BY <2>1 DEF ReservoirOK
  <1> QED
    BY <1>1, OfferWithRoom, OfferWhenFull

LEMMA NewReservoirOK == ReservoirOK(newReservoir, 0)
  <1> DEFINE s == newReservoir
             w == [x \in {<<>>} |-> 1]
  <1>1. s.offered = 0 /\ s.values = {} /\ s.ways = w
    BY DEF newReservoir
  <1>2. DOMAIN s.ways = {<<>>} /\ s.ways[<<>>] = 1
    BY <1>1
  <1> HIDE DEF s
  <1>3. Sampled(s) = 0
    BY <1>1, AccessLogAssumption, SampledIs
  <1>4. SampleOK(s, <<>>)
    BY <1>1, <1>2, <1>3 DEF SampleOK
  <1>5. IsFiniteSet({<<>>})
    BY FS_Singleton
  <1>6. ReservoirOK(s, 0)
    BY <1>1, <1>2, <1>4, <1>5 DEF ReservoirOK
  <1> QED
    BY <1>6 DEF s
-----------------------------------------------------------------------------
(* Tokens and where they are.  The words that a referrer is spelled with   *)
(* are listed, because the provers do not know that they are strings.      *)
Token ==
    STRING \cup {"http", "https", "://", "//", "/", "?", "#", ":", "@", ".", "[", "www.", "WWW.",
                 "user", "pass", "8443", "x", "y", "u", "other.org", "example.com", "next", "top",
                 ":id", "_next", "static", "js", "css"}

LEMMA TextOf ==
  ASSUME NEW s \in Seq(STRING)
  PROVE  s \in Seq(Token)
  <1>1. STRING \subseteq Token
    BY DEF Token
  <1> QED
    BY <1>1, SeqMonotonic

(* The first place of a token of T in s, if there is one. *)
LEMMA FirstIs ==
  ASSUME NEW s \in Seq(Token), NEW T
  PROVE  /\ First(s, T) \in 0 .. Len(s)
         /\ First(s, T) = 0 => \A k \in 1 .. Len(s) : s[k] \notin T
         /\ First(s, T) > 0 => /\ s[First(s, T)] \in T
                               /\ \A k \in 1 .. (First(s, T) - 1) : s[k] \notin T
  <1> DEFINE I == {i \in 1 .. Len(s) : s[i] \in T}
  <1>1. First(s, T) = IF I # {} THEN Min(I) ELSE 0
    BY DEF First, SelectInSeq
  <1>2. Len(s) \in Nat
    BY LenProperties
  <1>3. CASE I = {}
    BY <1>1, <1>2, <1>3
  <1>4. CASE I # {}
    <2>1. I \in SUBSET Nat /\ I # {}
      BY <1>2, <1>4
    <2>2. PICK m \in I : \A k \in I : ~(k < m)
      <3> HIDE DEF I
      <3> QED
        BY <2>1, LeastNumber
    <2>3. Min(I) \in I /\ \A k \in I : Min(I) <= k
      <3>1. \A k \in I : m <= k
        BY <1>2, <2>1, <2>2
      <3> HIDE DEF I
      <3> QED
        BY <3>1 DEF Min
    <2>4. First(s, T) \in I /\ \A k \in I : First(s, T) <= k
      BY <1>1, <1>4, <2>3
    <2> QED
      BY <1>2, <2>4
  <1> QED
    BY <1>3, <1>4

(* The last place. *)
LEMMA FinalIs ==
  ASSUME NEW s \in Seq(Token), NEW T
  PROVE  /\ Final(s, T) \in 0 .. Len(s)
         /\ Final(s, T) = 0 => \A k \in 1 .. Len(s) : s[k] \notin T
         /\ Final(s, T) > 0 => /\ s[Final(s, T)] \in T
                               /\ \A k \in (Final(s, T) + 1) .. Len(s) : s[k] \notin T
  <1> DEFINE I == {i \in 1 .. Len(s) : s[i] \in T}
             J == {n \in Nat : Len(s) - n \in I}
  <1>1. Final(s, T) = IF I # {} THEN Max(I) ELSE 0
    BY DEF Final, SelectLastInSeq
  <1>2. Len(s) \in Nat
    BY LenProperties
  <1>3. CASE I = {}
    BY <1>1, <1>2, <1>3
  <1>4. CASE I # {}
    <2>1. J \in SUBSET Nat /\ J # {}
      <3>1. PICK i \in I : TRUE
        BY <1>4
      <3>2. Len(s) - i \in J
        BY <1>2, <3>1
      <3> QED
        BY <3>2
    <2>2. PICK m \in J : \A k \in J : ~(k < m)
      <3> HIDE DEF J
      <3> QED
        BY <2>1, LeastNumber
    <2>3. Len(s) - m \in I /\ \A k \in I : k <= Len(s) - m
      <3>1. \A k \in I : Len(s) - k \in J
        BY <1>2
      <3> QED
        <4>1. m \in Nat /\ Len(s) - m \in I
          BY <2>2
        <4>2. \A k \in I : Len(s) - k \in Nat /\ ~(Len(s) - k < m)
          BY <2>2, <3>1
        <4> QED
          BY <1>2, <4>1, <4>2
    <2>4. Max(I) \in I /\ \A k \in I : k <= Max(I)
      <3> HIDE DEF I
      <3> QED
        BY <2>3 DEF Max
    <2>5. Final(s, T) \in I /\ \A k \in I : k <= Final(s, T)
      BY <1>1, <1>4, <2>4
    <2> QED
      BY <1>2, <2>5
  <1> QED
    BY <1>3, <1>4

LEMMA FirstAt ==
  ASSUME NEW s \in Seq(Token), NEW T, NEW i \in 1 .. Len(s), s[i] \in T,
         \A k \in 1 .. (i - 1) : s[k] \notin T
  PROVE  First(s, T) = i
  <1>1. Len(s) \in Nat
    BY LenProperties
  <1> QED
    BY <1>1, FirstIs

LEMMA FinalAt ==
  ASSUME NEW s \in Seq(Token), NEW T, NEW i \in 1 .. Len(s), s[i] \in T,
         \A k \in (i + 1) .. Len(s) : s[k] \notin T
  PROVE  Final(s, T) = i
  <1>1. Len(s) \in Nat
    BY LenProperties
  <1> QED
    BY <1>1, FinalIs

(* What follows a place. *)
LEMMA FromIs ==
  ASSUME NEW s \in Seq(Token), NEW i \in 1 .. (Len(s) + 1)
  PROVE  /\ From(s, i) \in Seq(Token)
         /\ Len(From(s, i)) = Len(s) - i + 1
         /\ \A k \in 1 .. (Len(s) - i + 1) : From(s, i)[k] = s[i + k - 1]
  <1>1. Len(s) \in Nat
    BY LenProperties
  <1>2. \A k \in i .. Len(s) : s[k] \in Token
    BY <1>1, ElementOfSeq
  <1> QED
    BY <1>1, <1>2, SubSeqProperties DEF From

LEMMA FromFrom ==
  ASSUME NEW s \in Seq(Token), NEW i \in 1 .. (Len(s) + 1),
         NEW j \in 1 .. (Len(s) - i + 2)
  PROVE  From(From(s, i), j) = From(s, i + j - 1)
  <1> DEFINE t == From(s, i)
             u == From(t, j)
             w == From(s, i + j - 1)
  <1>1. Len(s) \in Nat
    BY LenProperties
  <1>2. /\ t \in Seq(Token) /\ Len(t) = Len(s) - i + 1
        /\ \A k \in 1 .. (Len(s) - i + 1) : t[k] = s[i + k - 1]
    BY FromIs
  <1> HIDE DEF t
  <1>3. j \in 1 .. (Len(t) + 1) /\ i + j - 1 \in 1 .. (Len(s) + 1)
    BY <1>1, <1>2
  <1>4. /\ u \in Seq(Token) /\ Len(u) = Len(t) - j + 1
        /\ \A k \in 1 .. (Len(t) - j + 1) : u[k] = t[j + k - 1]
    BY <1>2, <1>3, FromIs
  <1>5. /\ w \in Seq(Token) /\ Len(w) = Len(s) - (i + j - 1) + 1
        /\ \A k \in 1 .. (Len(s) - (i + j - 1) + 1) : w[k] = s[i + j - 1 + k - 1]
    BY <1>3, FromIs
  <1> HIDE DEF u, w
  <1>6. Len(u) = Len(w)
    BY <1>1, <1>2, <1>4, <1>5
  <1>7. ASSUME NEW k \in 1 .. Len(u)
        PROVE  u[k] = w[k]
    <2>1. u[k] = t[j + k - 1]
      BY <1>4
    <2>2. j + k - 1 \in 1 .. (Len(s) - i + 1)
      BY <1>1, <1>2, <1>4
    <2>3. t[j + k - 1] = s[i + (j + k - 1) - 1]
      BY <1>2, <2>2
    <2>4. w[k] = s[i + j - 1 + k - 1]
      BY <1>5, <1>6
    <2>5. i + (j + k - 1) - 1 = i + j - 1 + k - 1
      BY <1>1
    <2> QED
      BY <2>1, <2>3, <2>4, <2>5
  <1>8. u = w
    BY <1>4, <1>5, <1>6, <1>7, SeqEqual
  <1> QED
    BY <1>8 DEF t, u, w

(* One text after the other. *)
LEMMA ConcatIs ==
  ASSUME NEW s \in Seq(Token), NEW t \in Seq(Token)
  PROVE  /\ Len(s) \in Nat /\ Len(t) \in Nat
         /\ s \o t \in Seq(Token) /\ Len(s \o t) = Len(s) + Len(t)
         /\ \A k \in 1 .. Len(s) : (s \o t)[k] = s[k]
         /\ \A k \in 1 .. Len(t) : (s \o t)[Len(s) + k] = t[k]
  <1>1. Len(s) \in Nat /\ Len(t) \in Nat
    BY LenProperties
  <1>2. /\ s \o t \in Seq(Token) /\ Len(s \o t) = Len(s) + Len(t)
        /\ \A k \in 1 .. (Len(s) + Len(t)) : (s \o t)[k] =
              IF k <= Len(s) THEN s[k] ELSE t[k - Len(s)]
    BY ConcatProperties
  <1>3. ASSUME NEW k \in 1 .. Len(t)
        PROVE  (s \o t)[Len(s) + k] = t[k]
    <2>1. Len(s) + k \in 1 .. (Len(s) + Len(t)) /\ ~(Len(s) + k <= Len(s)) /\ Len(s) + k - Len(s) = k
      BY <1>1
    <2> QED
      BY <1>2, <2>1
  <1>4. \A k \in 1 .. Len(s) : (s \o t)[k] = s[k]
    BY <1>1, <1>2
  <1> QED
    BY <1>1, <1>2, <1>3, <1>4

(* The two parts of a text put together. *)
LEMMA Parts ==
  ASSUME NEW s \in Seq(Token), NEW t \in Seq(Token)
  PROVE  /\ SubSeq(s \o t, 1, Len(s)) = s
         /\ From(s \o t, Len(s) + 1) = t
  <1> DEFINE w == s \o t
             a == SubSeq(w, 1, Len(s))
             b == From(w, Len(s) + 1)
  <1>1. /\ Len(s) \in Nat /\ Len(t) \in Nat
        /\ w \in Seq(Token) /\ Len(w) = Len(s) + Len(t)
        /\ \A k \in 1 .. Len(s) : w[k] = s[k]
        /\ \A k \in 1 .. Len(t) : w[Len(s) + k] = t[k]
    BY ConcatIs
  <1> HIDE DEF w
  <1>2. a \in Seq(Token) /\ Len(a) = Len(s) /\ \A k \in 1 .. Len(s) : a[k] = w[k]
    <2>1. \A k \in 1 .. Len(s) : w[k] \in Token
      BY <1>1, ElementOfSeq
    <2>2. /\ a \in Seq(Token)
          /\ Len(a) = IF 1 <= Len(s) THEN Len(s) - 1 + 1 ELSE 0
          /\ \A k \in 1 .. (Len(s) - 1 + 1) : a[k] = w[1 + k - 1]
      BY <1>1, <2>1, SubSeqProperties
    <2> HIDE DEF a
    <2> QED
      BY <1>1, <2>2
  <1>3. /\ b \in Seq(Token) /\ Len(b) = Len(t)
        /\ \A k \in 1 .. Len(t) : b[k] = w[Len(s) + k]
    <2>1. /\ b \in Seq(Token) /\ Len(b) = Len(w) - (Len(s) + 1) + 1
          /\ \A k \in 1 .. (Len(w) - (Len(s) + 1) + 1) : b[k] = w[(Len(s) + 1) + k - 1]
      <3>1. Len(s) + 1 \in 1 .. (Len(w) + 1)
        BY <1>1
      <3> QED
        BY <1>1, <3>1, FromIs
    <2> HIDE DEF b
    <2> QED
      BY <1>1, <2>1
  <1> HIDE DEF a, b
  <1>4. a = s
    BY <1>1, <1>2, SeqEqual
  <1>5. b = t
    BY <1>1, <1>3, SeqEqual
  <1> QED
    BY <1>4, <1>5 DEF a, b, w

(* A text without a token of T has no first one and no last one. *)
LEMMA NoneFirst ==
  ASSUME NEW s \in Seq(Token), NEW T, Without(s, T)
  PROVE  First(s, T) = 0 /\ Final(s, T) = 0
  <1>1. Len(s) \in Nat
    BY LenProperties
  <1> QED
    BY <1>1, FirstIs, FinalIs DEF Without

LEMMA WithoutConcat ==
  ASSUME NEW s \in Seq(Token), NEW t \in Seq(Token), NEW T, Without(s, T), Without(t, T)
  PROVE  Without(s \o t, T)
  <1> SUFFICES ASSUME NEW k \in 1 .. Len(s \o t)
               PROVE  (s \o t)[k] \notin T
    BY DEF Without
  <1> DEFINE w == s \o t
  <1>1. /\ Len(s) \in Nat /\ Len(t) \in Nat
        /\ w \in Seq(Token) /\ Len(w) = Len(s) + Len(t)
        /\ \A i \in 1 .. Len(s) : w[i] = s[i]
        /\ \A i \in 1 .. Len(t) : w[Len(s) + i] = t[i]
    BY ConcatIs
  <1> HIDE DEF w
  <1>2. CASE k <= Len(s)
    BY <1>1, <1>2 DEF Without, w
  <1>3. CASE ~(k <= Len(s))
    <2>1. k - Len(s) \in 1 .. Len(t) /\ k = Len(s) + (k - Len(s))
      BY <1>1, <1>3 DEF w
    <2> QED
      BY <1>1, <2>1 DEF Without, w
  <1> QED
    BY <1>2, <1>3

(* A text up to the first token of T, which the second part begins with.   *)
LEMMA CutFirst ==
  ASSUME NEW s \in Seq(Token), NEW t \in Seq(Token), NEW T, Without(s, T),
         t = <<>> \/ t[1] \in T
  PROVE  Before(s \o t, First(s \o t, T)) = s
  <1> DEFINE w == s \o t
  <1>1. /\ Len(s) \in Nat /\ Len(t) \in Nat
        /\ w \in Seq(Token) /\ Len(w) = Len(s) + Len(t)
        /\ \A i \in 1 .. Len(s) : w[i] = s[i]
        /\ \A i \in 1 .. Len(t) : w[Len(s) + i] = t[i]
    BY ConcatIs
  <1>2. CASE t = <<>>
    <2>1. w = s
      BY <1>2, ConcatEmptySeq
    <2>2. First(s, T) = 0
      BY NoneFirst
    <2> QED
      BY <2>1, <2>2 DEF Before
  <1>3. CASE t # <<>> /\ t[1] \in T
    <2>1. Len(t) > 0
      BY <1>3, EmptySeq
    <2> HIDE DEF w
    <2>2. Len(s) + 1 \in 1 .. Len(w) /\ w[Len(s) + 1] \in T
      BY <1>1, <1>3, <2>1
    <2>3. \A k \in 1 .. (Len(s) + 1 - 1) : w[k] \notin T
      BY <1>1 DEF Without
    <2> DEFINE i == Len(s) + 1
    <2>4. First(w, T) = i
      <3>1. i \in 1 .. Len(w) /\ w[i] \in T
        BY <2>2
      <3>2. \A k \in 1 .. (i - 1) : w[k] \notin T
        BY <2>3
      <3> HIDE DEF i
      <3> QED
        BY <1>1, <3>1, <3>2, FirstAt
    <2>5. Before(w, First(w, T)) = SubSeq(w, 1, Len(s))
      BY <1>1, <2>4 DEF Before
    <2>6. SubSeq(w, 1, Len(s)) = s
      BY Parts DEF w
    <2> QED
      BY <2>5, <2>6 DEF w
  <1> QED
    BY <1>2, <1>3

(* A text up to the last token of T, which only the second part has, at    *)
(* its beginning.                                                          *)
LEMMA CutFinal ==
  ASSUME NEW s \in Seq(Token), NEW t \in Seq(Token), NEW T, Without(s, T),
         t = <<>> \/ (t[1] \in T /\ \A k \in 2 .. Len(t) : t[k] \notin T)
  PROVE  Before(s \o t, Final(s \o t, T)) = s
  <1> DEFINE w == s \o t
  <1>1. /\ Len(s) \in Nat /\ Len(t) \in Nat
        /\ w \in Seq(Token) /\ Len(w) = Len(s) + Len(t)
        /\ \A i \in 1 .. Len(s) : w[i] = s[i]
        /\ \A i \in 1 .. Len(t) : w[Len(s) + i] = t[i]
    BY ConcatIs
  <1>2. CASE t = <<>>
    <2>1. w = s
      BY <1>2, ConcatEmptySeq
    <2>2. Final(s, T) = 0
      BY NoneFirst
    <2> QED
      BY <2>1, <2>2 DEF Before
  <1>3. CASE t # <<>> /\ t[1] \in T /\ \A k \in 2 .. Len(t) : t[k] \notin T
    <2>1. Len(t) > 0
      BY <1>3, EmptySeq
    <2> HIDE DEF w
    <2>2. Len(s) + 1 \in 1 .. Len(w) /\ w[Len(s) + 1] \in T
      BY <1>1, <1>3, <2>1
    <2>3. ASSUME NEW k \in (Len(s) + 1 + 1) .. Len(w)
          PROVE  w[k] \notin T
      <3>1. k - Len(s) \in 2 .. Len(t) /\ k - Len(s) \in 1 .. Len(t) /\ k = Len(s) + (k - Len(s))
        BY <1>1
      <3> QED
        BY <1>1, <1>3, <3>1
    <2>4. Final(w, T) = Len(s) + 1
      BY <1>1, <2>2, <2>3, FinalAt
    <2>5. Before(w, Final(w, T)) = SubSeq(w, 1, Len(s))
      BY <1>1, <2>4 DEF Before
    <2>6. SubSeq(w, 1, Len(s)) = s
      BY Parts DEF w
    <2> QED
      BY <2>5, <2>6 DEF w
  <1> QED
    BY <1>2, <1>3

(* A text behind the last token of T, which the first part ends with.      *)
LEMMA AfterFinal ==
  ASSUME NEW s \in Seq(Token), NEW t \in Seq(Token), NEW T, Without(t, T),
         s = <<>> \/ s[Len(s)] \in T
  PROVE  From(s \o t, Final(s \o t, T) + 1) = t
  <1> DEFINE w == s \o t
  <1>1. /\ Len(s) \in Nat /\ Len(t) \in Nat
        /\ w \in Seq(Token) /\ Len(w) = Len(s) + Len(t)
        /\ \A i \in 1 .. Len(s) : w[i] = s[i]
        /\ \A i \in 1 .. Len(t) : w[Len(s) + i] = t[i]
    BY ConcatIs
  <1>2. Final(w, T) = Len(s)
    <2>1. CASE s = <<>>
      <3>1. w = t /\ Len(s) = 0
        BY <2>1, ConcatEmptySeq, EmptySeq
      <3> HIDE DEF w
      <3> QED
        BY <3>1, NoneFirst
    <2>2. CASE s # <<>> /\ s[Len(s)] \in T
      <3>1. Len(s) > 0
        BY <2>2, EmptySeq
      <3> HIDE DEF w
      <3>2. Len(s) \in 1 .. Len(w) /\ w[Len(s)] \in T
        BY <1>1, <2>2, <3>1
      <3>3. ASSUME NEW k \in (Len(s) + 1) .. Len(w)
            PROVE  w[k] \notin T
        <4>1. k - Len(s) \in 1 .. Len(t) /\ k = Len(s) + (k - Len(s))
          BY <1>1
        <4> QED
          BY <1>1, <4>1 DEF Without
      <3> QED
        BY <1>1, <3>2, <3>3, FinalAt
    <2> QED
      BY <2>1, <2>2
  <1> QED
    BY <1>2, Parts

(* A text behind the first token of T, which is the end of the first part. *)
LEMMA AfterFirst ==
  ASSUME NEW s \in Seq(Token), NEW t \in Seq(Token), NEW T,
         s # <<>>, s[Len(s)] \in T, \A k \in 1 .. (Len(s) - 1) : s[k] \notin T
  PROVE  First(s \o t, T) = Len(s) /\ From(s \o t, First(s \o t, T) + 1) = t
  <1> DEFINE w == s \o t
  <1>1. /\ Len(s) \in Nat /\ Len(t) \in Nat
        /\ w \in Seq(Token) /\ Len(w) = Len(s) + Len(t)
        /\ \A i \in 1 .. Len(s) : w[i] = s[i]
        /\ \A i \in 1 .. Len(t) : w[Len(s) + i] = t[i]
    BY ConcatIs
  <1>2. First(w, T) = Len(s)
    <2>1. Len(s) > 0
      BY EmptySeq
    <2> HIDE DEF w
    <2>2. Len(s) \in 1 .. Len(w) /\ w[Len(s)] = s[Len(s)]
      BY <1>1, <2>1
    <2>3. \A k \in 1 .. (Len(s) - 1) : w[k] \notin T
      BY <1>1
    <2> QED
      BY <1>1, <2>2, <2>3, FirstAt
  <1> QED
    BY <1>2, Parts

(* It begins as the first does and ends as the second. *)
LEMMA ConcatEnds ==
  ASSUME NEW s \in Seq(Token), NEW t \in Seq(Token)
  PROVE  /\ s # <<>> => s \o t # <<>> /\ (s \o t)[1] = s[1]
         /\ t # <<>> => s \o t # <<>> /\ (s \o t)[Len(s \o t)] = t[Len(t)]
  <1> DEFINE w == s \o t
  <1>1. /\ Len(s) \in Nat /\ Len(t) \in Nat
        /\ w \in Seq(Token) /\ Len(w) = Len(s) + Len(t)
        /\ \A i \in 1 .. Len(s) : w[i] = s[i]
        /\ \A i \in 1 .. Len(t) : w[Len(s) + i] = t[i]
    BY ConcatIs
  <1> HIDE DEF w
  <1>2. ASSUME s # <<>>
        PROVE  w # <<>> /\ w[1] = s[1]
    <2>1. Len(s) > 0
      BY <1>2, EmptySeq
    <2>2. Len(w) > 0 /\ w[1] = s[1]
      BY <1>1, <2>1
    <2> QED
      BY <2>2, EmptySeq
  <1>3. ASSUME t # <<>>
        PROVE  w # <<>> /\ w[Len(w)] = t[Len(t)]
    <2>1. Len(t) > 0
      BY <1>3, EmptySeq
    <2>2. Len(w) > 0 /\ Len(t) \in 1 .. Len(t)
      BY <1>1, <2>1
    <2>3. w[Len(s) + Len(t)] = t[Len(t)]
      BY <1>1, <2>2
    <2> QED
      BY <1>1, <2>2, <2>3, EmptySeq
  <1> QED
    BY <1>2, <1>3 DEF w

LEMMA Regroup ==
  ASSUME NEW s \in Seq(Token), NEW t \in Seq(Token), NEW v \in Seq(Token)
  PROVE  (s \o t) \o v = s \o (t \o v)
  BY ConcatAssociative

LEMMA WithoutSome ==
  ASSUME NEW s \in Seq(Token), NEW T, NEW U \in SUBSET T, Without(s, T)
  PROVE  Without(s, U)
  BY DEF Without

(* A text spelled out. *)
LEMMA Literal ==
  ASSUME NEW n \in Nat, NEW f, f = [i \in 1 .. n |-> f[i]], \A i \in 1 .. n : f[i] \in Token
  PROVE  f \in Seq(Token) /\ Len(f) = n
  <1>1. f \in [1 .. n -> Token]
    OBVIOUS
  <1>2. f \in Seq(Token)
    BY <1>1, SeqDef
  <1>3. Len(f) \in Nat /\ DOMAIN f = 1 .. Len(f) /\ DOMAIN f = 1 .. n
    BY <1>1, <1>2, LenProperties
  <1> QED
    BY <1>2, <1>3

LEMMA OneToken ==
  ASSUME NEW c \in Token
  PROVE  <<c>> \in Seq(Token) /\ Len(<<c>>) = 1 /\ <<c>>[1] = c
  <1> DEFINE f == <<c>>
  <1>1. f = [i \in 1 .. 1 |-> f[i]] /\ (\A i \in 1 .. 1 : f[i] \in Token) /\ f[1] = c
    OBVIOUS
  <1> HIDE DEF f
  <1>2. f \in Seq(Token) /\ Len(f) = 1
    BY <1>1, Literal
  <1> QED
    BY <1>1, <1>2 DEF f

(* What a text begins with, and what is left without it. *)
LEMMA StartsOne ==
  ASSUME NEW s \in Seq(Token), NEW c \in Token
  PROVE  Starts(s, <<c>>) <=> s # <<>> /\ s[1] = c
  <1> DEFINE p == <<c>>
  <1>1. Len(s) \in Nat /\ Len(p) = 1 /\ p[1] = c /\ p \in Seq(Token)
    BY LenProperties, OneToken
  <1>2. s # <<>> <=> 1 <= Len(s)
    BY <1>1, EmptySeq
  <1>3. SubSeq(p, 1, 1) = p
    BY <1>1, SubSeqFull
  <1>4. ASSUME 1 <= Len(s)
        PROVE  SubSeq(s, 1, 1) \in Seq(Token) /\ Len(SubSeq(s, 1, 1)) = 1 /\ SubSeq(s, 1, 1)[1] = s[1]
    <2>1. \A i \in 1 .. 1 : s[i] \in Token
      BY <1>1, <1>4, ElementOfSeq
    <2>2. /\ SubSeq(s, 1, 1) \in Seq(Token)
          /\ Len(SubSeq(s, 1, 1)) = (IF 1 <= 1 THEN 1 - 1 + 1 ELSE 0)
          /\ \A i \in 1 .. (1 - 1 + 1) : SubSeq(s, 1, 1)[i] = s[1 + i - 1]
      BY <2>1, SubSeqProperties
    <2> DEFINE q == SubSeq(s, 1, 1)
    <2> HIDE DEF q
    <2>3. q \in Seq(Token) /\ Len(q) = 1 /\ q[1] = s[1]
      BY <2>2 DEF q
    <2> QED
      BY <2>3 DEF q
  <1>5. Starts(s, p) <=> 1 <= Len(s) /\ p = SubSeq(s, 1, 1)
    BY <1>1, <1>3 DEF Starts, IsPrefix
  <1>6. 1 <= Len(s) => (p = SubSeq(s, 1, 1) <=> s[1] = c)
    <2> DEFINE q == SubSeq(s, 1, 1)
    <2> HIDE DEF p, q
    <2>1. ASSUME 1 <= Len(s)
          PROVE  p = q <=> s[1] = c
      <3>1. q \in Seq(Token) /\ Len(q) = 1 /\ q[1] = s[1]
        BY <1>4, <2>1 DEF q
      <3>2. s[1] = c => p = q
        <4>1. s[1] = c => \A i \in 1 .. Len(p) : p[i] = q[i]
          BY <1>1, <3>1
        <4> QED
          BY <1>1, <3>1, <4>1, SeqEqual
      <3> QED
        BY <1>1, <3>1, <3>2
    <2> QED
      BY <2>1 DEF q
  <1> QED
    BY <1>2, <1>5, <1>6

LEMMA TrimPrefixIs ==
  ASSUME NEW s \in Seq(Token), NEW c \in Token
  PROVE  /\ TrimPrefix(<<c>> \o s, c) = s
         /\ s = <<>> \/ s[1] # c => TrimPrefix(s, c) = s
  <1> DEFINE p == <<c>>
             w == p \o s
  <1>1. p \in Seq(Token) /\ Len(p) = 1 /\ p[1] = c
    BY OneToken
  <1> HIDE DEF p
  <1>2. w \in Seq(Token) /\ Len(w) = 1 + Len(s) /\ w[1] = c /\ Len(s) \in Nat
    BY <1>1, ConcatIs
  <1>3. From(w, 2) = s
    <2>1. From(w, Len(p) + 1) = s
      BY <1>1, Parts
    <2>2. Len(p) + 1 = 2
      BY <1>1
    <2> HIDE DEF w
    <2> QED
      BY <2>1, <2>2
  <1> HIDE DEF w
  <1>4. w # <<>>
    BY <1>2, EmptySeq
  <1>5. Starts(w, <<c>>)
    BY <1>2, <1>4, StartsOne
  <1>6. Tail(w) = SubSeq(w, 2, Len(w))
    BY <1>2, <1>4, TailIsSubSeq
  <1>7. TrimPrefix(w, c) = s
    BY <1>3, <1>5, <1>6 DEF TrimPrefix, From
  <1>8. s = <<>> \/ s[1] # c => ~Starts(s, <<c>>)
    BY StartsOne
  <1>9. s = <<>> \/ s[1] # c => TrimPrefix(s, c) = s
    BY <1>8 DEF TrimPrefix
  <1> QED
    BY <1>7, <1>9 DEF w, p

LEMMA TrimSuffixIs ==
  ASSUME NEW s \in Seq(Token), NEW c \in Token
  PROVE  /\ TrimSuffix(s \o <<c>>, c) = s
         /\ s = <<>> \/ s[Len(s)] # c => TrimSuffix(s, c) = s
  <1> DEFINE p == <<c>>
             w == s \o p
  <1>1. p \in Seq(Token) /\ Len(p) = 1 /\ p[1] = c
    BY OneToken
  <1> HIDE DEF p
  <1>2. w \in Seq(Token) /\ Len(w) = Len(s) + 1 /\ w[Len(s) + 1] = c /\ Len(s) \in Nat
    <2>1. /\ w \in Seq(Token) /\ Len(w) = Len(s) + Len(p) /\ Len(s) \in Nat
          /\ \A k \in 1 .. Len(p) : w[Len(s) + k] = p[k]
      BY <1>1, ConcatIs
    <2>2. 1 \in 1 .. Len(p)
      BY <1>1
    <2> HIDE DEF w
    <2> QED
      BY <1>1, <2>1, <2>2
  <1>3. SubSeq(w, 1, Len(s)) = s
    BY <1>1, Parts
  <1> HIDE DEF w
  <1>4. w # <<>>
    BY <1>2, EmptySeq
  <1>5. Last(w) = c /\ Front(w) = SubSeq(w, 1, Len(s))
    BY <1>2 DEF Last, Front
  <1>6. TrimSuffix(w, c) = s
    BY <1>3, <1>4, <1>5 DEF TrimSuffix
  <1>7. s = <<>> \/ s[Len(s)] # c => TrimSuffix(s, c) = s
    BY DEF TrimSuffix, Last
  <1> QED
    BY <1>6, <1>7 DEF w, p

(* Small letters, token by token. *)
LEMMA LowerIs ==
  ASSUME NEW s \in Seq(Token)
  PROVE  /\ ToLower(s) \in Seq(Token) /\ Len(ToLower(s)) = Len(s)
         /\ \A k \in 1 .. Len(s) :
                ToLower(s)[k] = IF s[k] \in DOMAIN Lower THEN Lower[s[k]] ELSE s[k]
  <1> DEFINE e(k) == IF s[k] \in DOMAIN Lower THEN Lower[s[k]] ELSE s[k]
             w == [k \in 1 .. Len(s) |-> e(k)]
  <1>1. Len(s) \in Nat /\ DOMAIN s = 1 .. Len(s)
    BY LenProperties
  <1>2. ToLower(s) = w
    BY <1>1 DEF ToLower
  <1>3. \A k \in 1 .. Len(s) : e(k) \in Token
    <2>1. \A x \in DOMAIN Lower : Lower[x] \in STRING
      BY LowerAssumption
    <2>2. \A k \in 1 .. Len(s) : s[k] \in Token
      BY ElementOfSeq
    <2>3. STRING \subseteq Token
      BY DEF Token
    <2> QED
      BY <2>1, <2>2, <2>3
  <1>4. w \in Seq(Token)
    BY <1>1, <1>3, IsASeq
  <1>5. Len(w) = Len(s)
    BY <1>1
  <1> QED
    BY <1>2, <1>4, <1>5

LEMMA LowerConcat ==
  ASSUME NEW s \in Seq(Token), NEW t \in Seq(Token)
  PROVE  ToLower(s \o t) = ToLower(s) \o ToLower(t)
  <1> DEFINE w == s \o t
             a == ToLower(s)
             b == ToLower(t)
             u == ToLower(w)
             v == a \o b
             low(x) == IF x \in DOMAIN Lower THEN Lower[x] ELSE x
  <1>1. /\ Len(s) \in Nat /\ Len(t) \in Nat
        /\ w \in Seq(Token) /\ Len(w) = Len(s) + Len(t)
        /\ \A i \in 1 .. Len(s) : w[i] = s[i]
        /\ \A i \in 1 .. Len(t) : w[Len(s) + i] = t[i]
    BY ConcatIs
  <1> HIDE DEF w
  <1>2. /\ a \in Seq(Token) /\ Len(a) = Len(s) /\ \A k \in 1 .. Len(s) : a[k] = low(s[k])
        /\ b \in Seq(Token) /\ Len(b) = Len(t) /\ \A k \in 1 .. Len(t) : b[k] = low(t[k])
        /\ u \in Seq(Token) /\ Len(u) = Len(w) /\ \A k \in 1 .. Len(w) : u[k] = low(w[k])
    BY <1>1, LowerIs
  <1> HIDE DEF a, b, u, low
  <1>3. /\ v \in Seq(Token) /\ Len(v) = Len(a) + Len(b)
        /\ \A i \in 1 .. Len(a) : v[i] = a[i]
        /\ \A i \in 1 .. Len(b) : v[Len(a) + i] = b[i]
    BY <1>2, ConcatIs
  <1> HIDE DEF v
  <1>4. ASSUME NEW k \in 1 .. Len(u)
        PROVE  u[k] = v[k]
    <2>1. CASE k <= Len(s)
      <3>1. k \in 1 .. Len(s) /\ k \in 1 .. Len(a)
        BY <1>1, <1>2, <2>1
      <3> QED
        BY <1>1, <1>2, <1>3, <3>1
    <2>2. CASE ~(k <= Len(s))
      <3>1. k - Len(s) \in 1 .. Len(t) /\ k - Len(s) \in 1 .. Len(b) /\ k = Len(s) + (k - Len(s))
        BY <1>1, <1>2, <2>2
      <3>2. w[k] = t[k - Len(s)] /\ v[k] = b[k - Len(s)]
        BY <1>1, <1>2, <1>3, <3>1
      <3> QED
        BY <1>2, <3>1, <3>2
    <2> QED
      BY <2>1, <2>2
  <1>5. Len(u) = Len(v)
    BY <1>1, <1>2, <1>3
  <1>6. u = v
    BY <1>2, <1>3, <1>4, <1>5, SeqEqual
  <1> QED
    BY <1>6 DEF u, v, a, b, w

LEMMA TwoTokens ==
  ASSUME NEW a \in Token, NEW b \in Token
  PROVE  <<a, b>> \in Seq(Token) /\ Len(<<a, b>>) = 2 /\ <<a, b>>[1] = a /\ <<a, b>>[2] = b
  <1> DEFINE f == <<a, b>>
  <1>1. f = [i \in 1 .. 2 |-> f[i]] /\ \A i \in 1 .. 2 : f[i] \in Token
    OBVIOUS
  <1>2. f[1] = a /\ f[2] = b
    OBVIOUS
  <1> HIDE DEF f
  <1>3. f \in Seq(Token) /\ Len(f) = 2
    BY <1>1, Literal
  <1> QED
    BY <1>2, <1>3 DEF f
-----------------------------------------------------------------------------
(* What is found in a line. *)
LEMMA EntryClass ==
  ASSUME NEW text, parseAccessLogLine(text).ok
  PROVE  parseAccessLogLine(text).statusClass \in Classes
  <1> DEFINE start == First(text, {Quote})
             inside == From(text, start + 1)
             end == First(inside, {Quote})
             rest == From(inside, end + 1)
             field == Field(rest, 1)
             e == Entry(Before(text, start), Before(inside, end), rest, field[1])
  <1>1. parseAccessLogLine(text) =
            IF start = 0 \/ end = 0 \/ ~isStatus(field) THEN NoEntry ELSE e
    BY DEF parseAccessLogLine
  <1>2. e.statusClass = Number[field[1]] \div 100
    BY DEF Entry
  <1>3. ~NoEntry.ok
    BY DEF NoEntry
  <1> HIDE DEF field, e, start, end
  <1>4. isStatus(field) /\ parseAccessLogLine(text) = e
    BY <1>1, <1>3
  <1>5. Number[field[1]] \in 100 .. 599
    BY <1>4 DEF isStatus
  <1>6. Number[field[1]] \div 100 \in 1 .. 5
    BY <1>5
  <1> QED
    BY <1>2, <1>4, <1>6 DEF Classes

(* What is found in a line, or in its end, is its status.                  *)
LEMMA EntryOfLine ==
  ASSUME NEW line \in Lines, NEW from \in 1 .. (Len(line.text) + 1)
  PROVE  LET entry == parseAccessLogLine(From(line.text, from))
         IN  /\ entry.ok => entry.statusClass = line.class
             /\ from = 1 /\ line.class # 0 => entry.ok
  <1> DEFINE s == line.text
             text == From(s, from)
             start == First(text, {Quote})
             inside == From(text, start + 1)
             end == First(inside, {Quote})
             rest == From(inside, end + 1)
             field == Field(rest, 1)
             e == Entry(Before(text, start), Before(inside, end), rest, field[1])
             i == from + start - 1
             j == i + end
  <1>1. s \in Seq(Token) /\ Len(s) \in Nat
    <2>1. s \in Seq(Token)
      BY AccessLogAssumption, TextOf
    <2> QED
      BY <2>1, LenProperties
  <1>2. parseAccessLogLine(text) =
            IF start = 0 \/ end = 0 \/ ~isStatus(field) THEN NoEntry ELSE e
    BY DEF parseAccessLogLine
  <1>3. e.statusClass = Number[field[1]] \div 100 /\ e.ok /\ ~NoEntry.ok
    BY DEF Entry, NoEntry
  <1>4. /\ text \in Seq(Token) /\ Len(text) = Len(s) - from + 1
        /\ \A k \in 1 .. (Len(s) - from + 1) : text[k] = s[from + k - 1]
    BY <1>1, FromIs
  <1>5. start \in 0 .. Len(text)
    <2> HIDE DEF text
    <2> QED
      BY <1>4, FirstIs
  <1>6. start > 0 => /\ text[start] = Quote
                     /\ \A k \in 1 .. (start - 1) : text[k] # Quote
    <2> HIDE DEF text
    <2> QED
      BY <1>4, FirstIs
  <1>7. ASSUME start > 0
        PROVE  /\ i \in 1 .. Len(s) /\ s[i] = Quote
               /\ \A k \in from .. (i - 1) : s[k] # Quote
               /\ inside = From(s, i + 1)
               /\ end \in 0 .. (Len(s) - i)
               /\ end = 0 => \A k \in (i + 1) .. Len(s) : s[k] # Quote
               /\ end > 0 => s[j] = Quote /\ \A k \in (i + 1) .. (j - 1) : s[k] # Quote
    <2>1. i \in 1 .. Len(s) /\ s[i] = Quote
      <3> HIDE DEF start, text, s
      <3>1. start \in 1 .. (Len(s) - from + 1)
        BY <1>1, <1>4, <1>5, <1>7
      <3> QED
        BY <1>1, <1>4, <1>6, <1>7, <3>1
    <2>2. ASSUME NEW k \in from .. (i - 1)
          PROVE  s[k] # Quote
      <3>1. k - from + 1 \in 1 .. (start - 1) /\ k - from + 1 \in 1 .. (Len(s) - from + 1)
        BY <1>1, <1>4, <1>5
      <3>2. from + (k - from + 1) - 1 = k
        OBVIOUS
      <3> HIDE DEF start, text
      <3> QED
        BY <1>4, <1>6, <1>7, <3>1, <3>2
    <2>3. inside = From(s, from + (start + 1) - 1) /\ from + (start + 1) - 1 = i + 1
      <3>1. start + 1 \in 1 .. (Len(s) - from + 2)
        <4> HIDE DEF start, text, s
        <4> QED
          BY <1>1, <1>4, <1>5
      <3>2. from + (start + 1) - 1 = i + 1
        <4> HIDE DEF start, text, s
        <4> QED
          BY <1>1, <1>4, <1>5
      <3> HIDE DEF start, i, s
      <3> QED
        BY <1>1, <3>1, <3>2, FromFrom
    <2>4. inside = From(s, i + 1)
      BY <2>3
    <2>5. /\ inside \in Seq(Token) /\ Len(inside) = Len(s) - i
          /\ \A k \in 1 .. (Len(s) - i) : inside[k] = s[i + k]
      <3>1. /\ From(s, i + 1) \in Seq(Token) /\ Len(From(s, i + 1)) = Len(s) - (i + 1) + 1
            /\ \A k \in 1 .. (Len(s) - (i + 1) + 1) : From(s, i + 1)[k] = s[(i + 1) + k - 1]
        <4> HIDE DEF i, s
        <4> QED
          BY <1>1, <2>1, FromIs
      <3> HIDE DEF inside, i, s
      <3> QED
        BY <1>1, <2>1, <2>4, <3>1
    <2>6. /\ end \in 0 .. Len(inside)
          /\ end = 0 => \A k \in 1 .. Len(inside) : inside[k] # Quote
          /\ end > 0 => inside[end] = Quote /\ \A k \in 1 .. (end - 1) : inside[k] # Quote
      <3> HIDE DEF inside
      <3> QED
        BY <2>5, FirstIs
    <2> HIDE DEF inside, end, i, s
    <2>7. ASSUME NEW k \in (i + 1) .. Len(s)
          PROVE  k - i \in 1 .. Len(inside) /\ inside[k - i] = s[k]
      BY <1>1, <2>1, <2>5
    <2>8. end = 0 => \A k \in (i + 1) .. Len(s) : s[k] # Quote
      BY <2>6, <2>7
    <2>9. end > 0 => s[j] = Quote
      BY <1>1, <2>1, <2>5, <2>6
    <2>10. ASSUME end > 0, NEW k \in (i + 1) .. (j - 1)
           PROVE  s[k] # Quote
      <3>1. k \in (i + 1) .. Len(s) /\ k - i \in 1 .. (end - 1)
        BY <1>1, <2>1, <2>5, <2>6
      <3> QED
        BY <2>6, <2>7, <2>10, <3>1
    <2> QED
      BY <1>1, <2>1, <2>2, <2>4, <2>5, <2>6, <2>8, <2>9, <2>10
  <1>8. ASSUME start > 0, end > 0
        PROVE  rest = From(s, j + 1) /\ j \in 1 .. Len(s) /\ i < j
    <2>1. rest = From(s, (i + 1) + (end + 1) - 1)
      <3>1. inside = From(s, i + 1) /\ i + 1 \in 1 .. (Len(s) + 1)
            /\ end + 1 \in 1 .. (Len(s) - (i + 1) + 2)
        <4> HIDE DEF inside, end, i, s
        <4> QED
          BY <1>1, <1>7, <1>8
      <3> HIDE DEF inside, end, i, s
      <3> QED
        BY <1>1, <3>1, FromFrom
    <2>2. j \in 1 .. Len(s) /\ i < j /\ (i + 1) + (end + 1) - 1 = j + 1
      <3> HIDE DEF start, inside, end, i, s
      <3>1. i \in 1 .. Len(s) /\ end \in 0 .. (Len(s) - i) /\ end > 0
        BY <1>7, <1>8
      <3> QED
        BY <1>1, <3>1
    <2> HIDE DEF rest, i, j, end, s
    <2> QED
      BY <2>1, <2>2
  <1>9. ASSUME start > 0, end > 0, isStatus(field)
        PROVE  HasStatus(s, i, j)
    <2> HIDE DEF inside, end, i, s, start, rest, j
    <2> QED
      BY <1>7, <1>8, <1>9 DEF HasStatus
  <1>10. ASSUME parseAccessLogLine(text).ok
         PROVE  parseAccessLogLine(text).statusClass = line.class
    <2>1. start > 0 /\ end > 0 /\ isStatus(field) /\ parseAccessLogLine(text) = e
      <3> HIDE DEF start, end, field, e, rest, inside
      <3>1. start # 0 /\ end # 0 /\ isStatus(field) /\ parseAccessLogLine(text) = e
        BY <1>2, <1>3, <1>10
      <3>2. start \in Int /\ start >= 0
        BY <1>1, <1>4, <1>5
      <3>3. start > 0
        BY <3>1, <3>2
      <3>4. end \in Int /\ end >= 0
        <4> HIDE DEF i, j, s
        <4> QED
          BY <1>1, <1>7, <3>3
      <3> QED
        BY <3>1, <3>3, <3>4
    <2>2. HasStatus(s, i, j) /\ i \in 1 .. Len(s) /\ j \in 1 .. Len(s) /\ rest = From(s, j + 1)
      BY <1>7, <1>8, <1>9, <2>1, Zenon
    <2> HIDE DEF start, end, e, rest, inside, i, j
    <2>3. line.class = Number[Field(From(s, j + 1), 1)[1]] \div 100
      BY <2>2, LinesAssumption
    <2> QED
      BY <1>3, <2>1, <2>2, <2>3
  <1>11. ASSUME from = 1, line.class # 0
         PROVE  parseAccessLogLine(text).ok
    <2>1. PICK i0 \in 1 .. Len(s) : \E j0 \in 1 .. Len(s) : HasStatus(s, i0, j0)
      BY <1>11, LinesAssumption
    <2>2. PICK j0 \in 1 .. Len(s) : HasStatus(s, i0, j0)
      BY <2>1
    <2>3. \A k \in 1 .. (i0 - 1) : s[k] # Quote
      BY <2>1, <2>2, LinesAssumption
    <2>4. /\ i0 < j0 /\ s[i0] = Quote /\ s[j0] = Quote
          /\ \A k \in (i0 + 1) .. (j0 - 1) : s[k] # Quote
          /\ isStatus(Field(From(s, j0 + 1), 1))
      BY <2>2 DEF HasStatus
    <2>5. start > 0
      <3>1. i0 \in 1 .. Len(text) /\ text[i0] = Quote
        BY <1>1, <1>4, <1>11, <2>4
      <3> HIDE DEF text
      <3> QED
        BY <1>4, <3>1, FirstIs
    <2> HIDE DEF start, end, inside, rest, s
    <2>6. start = i0 /\ i = i0
      <3>1. i = start
        BY <1>1, <1>4, <1>5, <1>11
      <3> HIDE DEF i
      <3>2. i \in 1 .. Len(s) /\ s[i] = Quote /\ \A k \in 1 .. (i - 1) : s[k] # Quote
        BY <1>7, <1>11, <2>5
      <3>3. ~(i < i0) /\ ~(i0 < i)
        BY <1>1, <2>3, <2>4, <3>2
      <3> QED
        BY <1>1, <3>1, <3>2, <3>3
    <2>7. end > 0 /\ j = j0
      BY <1>1, <1>7, <2>4, <2>5, <2>6
    <2>8. rest = From(s, j0 + 1)
      BY <1>8, <2>5, <2>7
    <2> QED
      BY <1>2, <1>3, <2>4, <2>5, <2>7, <2>8
  <1> HIDE DEF text
  <1>12. parseAccessLogLine(text).ok => parseAccessLogLine(text).statusClass = line.class
    BY <1>10
  <1>13. from = 1 /\ line.class # 0 => parseAccessLogLine(text).ok
    BY <1>11
  <1> QED
    BY <1>12, <1>13 DEF text

LEMMA CostBound ==
  ASSUME NEW entry, NEW host
  PROVE  recordRankedRows(entry, host) \in 0 .. 3
  <1> DEFINE row == rowsFor(entry, host)
             names == {"page", "failing", "referrer"}
  <1>1. DOMAIN row = names
    BY DEF rowsFor
  <1>2. IsFiniteSet(names) /\ Cardinality(names) \in 0 .. 3
    <2>1. IsFiniteSet({}) /\ Cardinality({}) = 0
      BY FS_EmptySet
    <2>2. IsFiniteSet({"page"}) /\ Cardinality({"page"}) = 1
      BY FS_Singleton
    <2>3. /\ IsFiniteSet({"page"} \cup {"failing"})
          /\ Cardinality({"page"} \cup {"failing"}) \in 0 .. 2
      BY <2>2, FS_AddElement
    <2>4. /\ IsFiniteSet(({"page"} \cup {"failing"}) \cup {"referrer"})
          /\ Cardinality(({"page"} \cup {"failing"}) \cup {"referrer"}) \in 0 .. 3
      BY <2>3, FS_AddElement
    <2>5. names = ({"page"} \cup {"failing"}) \cup {"referrer"}
      BY Zenon
    <2> QED
      BY <2>4, <2>5
  <1>3. Drawn(row) \subseteq names
    BY <1>1, Zenon DEF Drawn
  <1> HIDE DEF names, row
  <1>4. Cardinality(Drawn(row)) \in 0 .. 3
    <2>1. IsFiniteSet(Drawn(row)) /\ Cardinality(Drawn(row)) <= Cardinality(names)
      BY <1>2, <1>3, FS_Subset
    <2>2. Cardinality(Drawn(row)) \in Nat
      BY <2>1, FS_CardinalityType
    <2> QED
      BY <1>2, <2>1, <2>2
  <1> QED
    BY <1>4 DEF recordRankedRows, row
-----------------------------------------------------------------------------
(* The inductive invariant: the types, no class counted more often than    *)
(* lines were handed over, and both reservoirs as they should be.          *)
Scalars ==
    /\ phase \in {"idle", "parse", "offer"}
    /\ lines \in 0 .. MaxLines
    /\ classCounts \in [Classes -> 0 .. MaxLines] /\ real \in [Classes -> 0 .. MaxLines]
    /\ ranked \in 0 .. maxRankedRowsPerTick /\ rows \in 0 .. (3 * ranked)
    /\ left \in [{"counts", "times", "rows"} -> Nat]
    /\ queue \in 0 .. Capacity /\ mine \in 0 .. queue
    /\ broken \in BOOLEAN /\ crowded \in BOOLEAN

Counted == \A c \in Classes : classCounts[c] <= lines /\ real[c] <= lines

Reservoirs == ReservoirOK(requestTimes, lines) /\ ReservoirOK(upstreamTimes, lines)

AccessInv == Scalars /\ Counted /\ Reservoirs

LEMMA AccessInvType == AccessInv => TypeOK
  <1> SUFFICES ASSUME AccessInv
               PROVE  TypeOK
    OBVIOUS
  <1>1. ASSUME NEW s \in {requestTimes, upstreamTimes}, NEW t \in DOMAIN s.ways
        PROVE  Len(t) = Sampled(s)
    <2>1. SampleOK(s, t)
      BY DEF AccessInv, Reservoirs, ReservoirOK
    <2> QED
      BY <2>1 DEF SampleOK
  <1> QED
    BY <1>1 DEF AccessInv, Scalars, TypeOK

LEMMA Cancel ==
  ASSUME NEW a \in Nat \ {0}, NEW x \in Nat, NEW y \in Nat, a * x = a * y
  PROVE  x = y
  <1>1. ASSUME NEW p \in Nat, NEW d \in Nat \ {0}
        PROVE  a * (p + d) # a * p
    <2>1. a * (p + d) = a * p + a * d
      OBVIOUS
    <2>2. a * d > 0 /\ a * d \in Nat /\ a * p \in Nat
      OBVIOUS
    <2> HIDE <2>2
    <2> DEFINE u == a * p
               w == a * d
    <2>3. u \in Nat /\ w \in Nat /\ w > 0
      BY <2>2
    <2>4. a * (p + d) = u + w
      BY <2>1
    <2> HIDE DEF u, w
    <2>5. a * (p + d) # u
      BY <2>3, <2>4
    <2> QED
      BY <2>5 DEF u
  <1>2. CASE x < y
    <2>1. y - x \in Nat \ {0} /\ y = x + (y - x)
      BY <1>2
    <2> QED
      BY <1>1, <2>1
  <1>3. CASE y < x
    <2>1. x - y \in Nat \ {0} /\ x = y + (x - y)
      BY <1>3
    <2> QED
      BY <1>1, <2>1
  <1> QED
    BY <1>2, <1>3

LEMMA AccessInvUniform == AccessInv => Uniform
  <1> SUFFICES ASSUME AccessInv,
                      NEW s \in {requestTimes, upstreamTimes},
                      NEW v \in s.values, NEW w \in s.values
               PROVE  Weight(s, v) = Weight(s, w)
    BY DEF Uniform
  <1>1. ReservoirOK(s, lines)
    BY DEF AccessInv, Reservoirs
  <1>2. s.offered * Weight(s, v) = s.offered * Weight(s, w)
    BY <1>1 DEF ReservoirOK, Share
  <1>3. s.offered \in Nat \ {0}
    <2> SUFFICES ASSUME s.offered = 0
                 PROVE  FALSE
      BY <1>1 DEF ReservoirOK
    <2>1. PICK t \in DOMAIN s.ways : SampleOK(s, t)
      BY <1>1 DEF ReservoirOK
    <2>2. Len(t) = 0
      BY <2>1, AccessLogAssumption, SampledIs DEF SampleOK
    <2>3. t \in Seq(s.values) /\ v \in ToSet(t)
      BY <2>1, AccessLogAssumption DEF SampleOK
    <2> QED
      BY <2>2, <2>3 DEF ToSet
  <1>4. \A x : SumFunctionOnSet(s.ways, Keeping(DOMAIN s.ways, x)) \in Nat
    <2> TAKE x
    <2> DEFINE K == Keeping(DOMAIN s.ways, x)
    <2>1. K \subseteq DOMAIN s.ways
      BY DEF Keeping
    <2>2. \A t \in K : s.ways[t] \in Nat
      BY <1>1, <2>1 DEF ReservoirOK, SampleOK
    <2>3. IsFiniteSet(K)
      BY <1>1, <2>1, FS_Subset DEF ReservoirOK
    <2> HIDE DEF K
    <2>4. SumFunctionOnSet(s.ways, K) \in Nat
      BY <2>2, <2>3, SumType
    <2> QED
      BY <2>4 DEF K
  <1>5. Weight(s, v) \in Nat /\ Weight(s, w) \in Nat
    BY <1>4 DEF Weight, Keeping
  <1> QED
    BY <1>2, <1>3, <1>5, Cancel

LEMMA InitAccess == Init => AccessInv
  <1> SUFFICES ASSUME Init
               PROVE  AccessInv
    OBVIOUS
  <1>1. Scalars
    <2>1. NoCounts \in [Classes -> 0 .. MaxLines] /\ 0 \in 0 .. MaxLines
      BY AccessLogAssumption DEF NoCounts
    <2>2. Nothing \in [{"counts", "times", "rows"} -> Nat]
      BY DEF Nothing
    <2>3. 0 \in 0 .. maxRankedRowsPerTick /\ 0 \in 0 .. (3 * 0) /\ 0 \in 0 .. Capacity /\ 0 \in 0 .. 0
      BY AccessLogAssumption
    <2> QED
      BY <2>1, <2>2, <2>3, Zenon DEF Init, Scalars
  <1>2. Counted
    BY DEF Init, Counted, NoCounts, Classes
  <1>3. Reservoirs
    BY NewReservoirOK DEF Init, Reservoirs
  <1> QED
    BY <1>1, <1>2, <1>3 DEF AccessInv

LEMMA TakeKeeps ==
  ASSUME AccessInv, NEW text \in Texts, Take(text), lines' = lines + 1
  PROVE  /\ classCounts' \in [Classes -> Nat]
         /\ \A c \in Classes : classCounts'[c] <= lines'
         /\ ranked' \in 0 .. maxRankedRowsPerTick /\ rows' \in 0 .. (3 * ranked')
         /\ Reservoirs'
  <1> DEFINE entry == Entries[text]
             kept == topLists /\ ranked < maxRankedRowsPerTick
             cost == Costs[text]
  <1>1. lines \in Nat /\ MaxLines \in Nat /\ maxRankedRowsPerTick \in Nat
    BY AccessLogAssumption DEF AccessInv, Scalars
  <1>2. entry = parseAccessLogLine(text) /\ cost \in 0 .. 3
    BY CostBound DEF Entries, Costs
  <1>3. entry.ok => entry.statusClass \in Classes
    BY <1>2, EntryClass
  <1>4. /\ classCounts \in [Classes -> Nat]
        /\ \A c \in Classes : classCounts[c] <= lines
        /\ ranked \in 0 .. maxRankedRowsPerTick /\ rows \in 0 .. (3 * ranked)
    BY <1>1 DEF AccessInv, Scalars, Counted
  <1>5. /\ ReservoirOK(requestTimes, lines') /\ ReservoirOK(upstreamTimes, lines')
        /\ ReservoirOK(offer(requestTimes, lines + 1), lines')
        /\ ReservoirOK(offer(upstreamTimes, lines + 1), lines')
    BY <1>1, OfferKeeps DEF AccessInv, Reservoirs
  <1>6. \/ /\ ~entry.ok
           /\ UNCHANGED <<classCounts, requestTimes, upstreamTimes, ranked, rows>>
        \/ /\ entry.ok
           /\ classCounts' = [classCounts EXCEPT ![entry.statusClass] = @ + 1]
           /\ ranked' = IF kept THEN ranked + 1 ELSE ranked
           /\ rows' = IF kept THEN rows + cost ELSE rows
           /\ \/ requestTimes' = offer(requestTimes, lines + 1)
              \/ requestTimes' = requestTimes
           /\ \/ upstreamTimes' = offer(upstreamTimes, lines + 1)
              \/ upstreamTimes' = upstreamTimes
    BY DEF Take
  <1> HIDE DEF entry, cost
  <1>7. CASE ~entry.ok
    <2>1. UNCHANGED <<classCounts, requestTimes, upstreamTimes, ranked, rows>>
      BY <1>6, <1>7
    <2>2. \A c \in Classes : classCounts'[c] <= lines'
      BY <1>1, <1>4, <2>1
    <2> QED
      BY <1>4, <1>5, <2>1, <2>2 DEF Reservoirs
  <1>8. CASE entry.ok
    <2>1. classCounts' = [classCounts EXCEPT ![entry.statusClass] = @ + 1]
      BY <1>6, <1>8
    <2>2. ranked' = (IF kept THEN ranked + 1 ELSE ranked) /\ rows' = IF kept THEN rows + cost ELSE rows
      BY <1>6, <1>8
    <2>3. /\ classCounts' \in [Classes -> Nat]
          /\ \A c \in Classes : classCounts'[c] <= lines'
      BY <1>1, <1>3, <1>4, <1>8, <2>1
    <2>4. ranked' \in 0 .. maxRankedRowsPerTick /\ rows' \in 0 .. (3 * ranked')
      <3>1. CASE kept
        BY <1>1, <1>2, <1>4, <2>2, <3>1
      <3>2. CASE ~kept
        BY <1>1, <1>4, <2>2, <3>2
      <3> QED
        BY <3>1, <3>2
    <2>5. Reservoirs'
      BY <1>5, <1>6, <1>8 DEF Reservoirs
    <2> QED
      BY <2>3, <2>4, <2>5
  <1> QED
    BY <1>7, <1>8

LEMMA StepAccess == AccessInv /\ [Next]_vars => AccessInv'
  <1> SUFFICES ASSUME AccessInv, [Next]_vars
               PROVE  AccessInv'
    OBVIOUS
  <1>0. /\ maxSamples \in Nat \ {0} /\ maxRankedRowsPerTick \in Nat
        /\ Capacity \in Nat /\ MaxLines \in Nat
    BY AccessLogAssumption
  <1>a. Scalars /\ Counted /\ Reservoirs
    BY DEF AccessInv
  <1>b. ASSUME UNCHANGED tick
        PROVE  Counted' /\ Reservoirs'
    BY <1>a, <1>b DEF tick, Counted, Reservoirs
  <1>1. CASE UNCHANGED vars
    <2>1. Scalars'
      BY <1>1, <1>a DEF vars, tick, Scalars
    <2> QED
      BY <1>1, <1>b, <2>1 DEF vars, AccessInv
  <1>2. CASE Begin
    <2>1. Scalars'
      BY <1>0, <1>2, <1>a DEF Begin, tick, Scalars
    <2> QED
      BY <1>2, <1>b, <2>1 DEF Begin, AccessInv
  <1>3. CASE Line
    <2>0. PICK line \in Lines : \E from \in 1 .. (IF lines = 0 THEN Len(line.text) + 1 ELSE 1) :
            /\ Take(From(line.text, from))
            /\ broken' = (broken \/ from > 1)
            /\ real' = IF line.class = 0 THEN real ELSE [real EXCEPT ![line.class] = @ + 1]
      BY <1>3 DEF Line
    <2>1. PICK from \in 1 .. (IF lines = 0 THEN Len(line.text) + 1 ELSE 1) :
            /\ Take(From(line.text, from))
            /\ broken' = (broken \/ from > 1)
            /\ real' = IF line.class = 0 THEN real ELSE [real EXCEPT ![line.class] = @ + 1]
      BY <2>0
    <2>2. /\ lines < MaxLines /\ lines' = lines + 1
          /\ UNCHANGED <<phase, left, queue, mine, crowded>>
      BY <1>3 DEF Line
    <2>3. From(line.text, from) \in Texts
      <3>1. Len(line.text) \in Nat
        BY AccessLogAssumption
      <3>2. from \in 1 .. (Len(line.text) + 1)
        BY <2>1, <3>1
      <3> QED
        BY <3>2 DEF Texts
    <2>4. /\ classCounts' \in [Classes -> Nat]
          /\ \A c \in Classes : classCounts'[c] <= lines'
          /\ ranked' \in 0 .. maxRankedRowsPerTick /\ rows' \in 0 .. (3 * ranked')
          /\ Reservoirs'
      BY <2>1, <2>2, <2>3, TakeKeeps
    <2>5. /\ real' \in [Classes -> Nat]
          /\ \A c \in Classes : real'[c] <= lines'
      <3>1. line.class \in 0 .. 5
        BY AccessLogAssumption
      <3>2. /\ real \in [Classes -> Nat] /\ lines \in Nat
            /\ \A c \in Classes : real[c] <= lines
        BY <1>0, <1>a DEF Scalars, Counted
      <3>3. CASE line.class = 0
        BY <2>1, <2>2, <3>2, <3>3
      <3>4. CASE line.class # 0
        <4>1. line.class \in Classes /\ real' = [real EXCEPT ![line.class] = @ + 1]
          BY <2>1, <3>1, <3>4 DEF Classes
        <4> QED
          BY <2>2, <3>2, <4>1
      <3> QED
        BY <3>3, <3>4
    <2>6. lines' \in 0 .. MaxLines
      BY <1>0, <1>a, <2>2 DEF Scalars
    <2>7. ASSUME NEW f \in [Classes -> Nat], \A c \in Classes : f[c] <= lines'
          PROVE  f \in [Classes -> 0 .. MaxLines]
      <3>1. \A c \in Classes : f[c] \in 0 .. MaxLines
        BY <1>0, <2>6, <2>7
      <3> QED
        BY <3>1
    <2>8. classCounts' \in [Classes -> 0 .. MaxLines] /\ real' \in [Classes -> 0 .. MaxLines]
      BY <2>4, <2>5, <2>7
    <2>9. broken' \in BOOLEAN
      BY <2>1
    <2>10. Scalars'
      BY <1>a, <2>2, <2>4, <2>6, <2>8, <2>9 DEF Scalars
    <2>11. Counted'
      BY <2>4, <2>5 DEF Counted
    <2> QED
      BY <2>4, <2>10, <2>11 DEF AccessInv
  <1>4. CASE Parsed
    <2>1. Cardinality({c \in Classes : classCounts[c] > 0}) \in Nat
      <3>1. IsFiniteSet(1 .. 5)
        <4>1. 1 \in Int /\ 5 \in Int
          OBVIOUS
        <4> QED
          BY <4>1, FS_Interval, Zenon
      <3>2. IsFiniteSet({c \in Classes : classCounts[c] > 0})
        BY <3>1, FS_Subset DEF Classes
      <3> QED
        BY <3>2, FS_CardinalityType
    <2>2. Sampled(requestTimes) + Sampled(upstreamTimes) \in Nat
      <3>1. requestTimes.offered \in Nat /\ upstreamTimes.offered \in Nat
        BY <1>a DEF Reservoirs, ReservoirOK
      <3>2. Sampled(requestTimes) \in Nat /\ Sampled(upstreamTimes) \in Nat
        BY <3>1, SampledIs
      <3> QED
        BY <3>2
    <2>3. rows \in Nat
      BY <1>0, <1>a DEF Scalars
    <2>4. left' \in [{"counts", "times", "rows"} -> Nat]
      BY <1>4, <2>1, <2>2, <2>3 DEF Parsed
    <2>5. Scalars'
      BY <1>4, <1>a, <2>4 DEF Parsed, tick, Scalars
    <2> QED
      BY <1>4, <1>b, <2>5 DEF Parsed, AccessInv
  <1>5. ASSUME NEW kind \in DOMAIN left, Offer(kind)
        PROVE  AccessInv'
    <2>1. UNCHANGED <<phase, tick>>
      BY <1>5 DEF Offer
    <2>2. left' \in [{"counts", "times", "rows"} -> Nat]
      <3>1. left \in [{"counts", "times", "rows"} -> Nat]
        BY <1>a DEF Scalars
      <3>2. left' = [left EXCEPT ![kind] = @ - 1] /\ left[kind] > 0
        BY <1>5 DEF Offer
      <3> QED
        BY <3>1, <3>2
    <2>3. queue \in 0 .. Capacity /\ mine \in 0 .. queue
      BY <1>a DEF Scalars
    <2>4. queue' = IF queue + 1 <= Capacity THEN queue + 1 ELSE Capacity
      <3>1. queue' = Min({queue + 1, Capacity})
        BY <1>5 DEF Offer
      <3> QED
        BY <1>0, <2>3, <3>1, MinOfTwo
    <2>5. mine' = mine \/ (mine' = mine + 1 /\ queue < Capacity)
      BY <1>5 DEF Offer
    <2>6. queue' \in 0 .. Capacity /\ mine' \in 0 .. queue'
      BY <1>0, <2>3, <2>4, <2>5
    <2>7. crowded' \in BOOLEAN
      BY <1>5 DEF Offer
    <2>8. Scalars'
      BY <1>a, <2>1, <2>2, <2>6, <2>7 DEF tick, Scalars
    <2> QED
      BY <1>b, <2>1, <2>8 DEF AccessInv
  <1>6. CASE Return
    <2>1. Scalars'
      <3>1. NoCounts \in [Classes -> 0 .. MaxLines] /\ 0 \in 0 .. MaxLines
        BY <1>0 DEF NoCounts
      <3>2. 0 \in 0 .. maxRankedRowsPerTick /\ 0 \in 0 .. (3 * 0)
        BY <1>0
      <3> QED
        BY <1>6, <1>a, <3>1, <3>2, Zenon DEF Return, Scalars
    <2>2. Counted'
      BY <1>6 DEF Return, Counted, NoCounts, Classes
    <2>3. Reservoirs'
      BY <1>6, NewReservoirOK DEF Return, Reservoirs
    <2> QED
      BY <2>1, <2>2, <2>3 DEF AccessInv
  <1>7. CASE Other
    <2>1. Scalars'
      BY <1>0, <1>7, <1>a DEF Other, tick, Scalars
    <2> QED
      BY <1>7, <1>b, <2>1 DEF Other, AccessInv
  <1>8. CASE Send
    <2>1. Scalars'
      BY <1>0, <1>8, <1>a DEF Send, tick, Scalars
    <2> QED
      BY <1>8, <1>b, <2>1 DEF Send, AccessInv
  <1> QED
    BY <1>1, <1>2, <1>3, <1>4, <1>5, <1>6, <1>7, <1>8 DEF Next

(* The types: no class is counted more often than lines were handed over,  *)
(* a request costs three rows at most, the queue holds what it can, and a  *)
(* reservoir holds as many values as it was offered, up to its limit       *)
(* (accesslog.go:115-202).                                                 *)
THEOREM TypesHold == Spec => []TypeOK
  <1> QED
    BY InitAccess, StepAccess, AccessInvType, PTL DEF Spec

(* Every value offered to a reservoir in a tick is as likely to be         *)
(* reported as any other, for every number of values and every limit       *)
(* (accesslog.go:193-202).                                                 *)
THEOREM UniformHolds == Spec => []Uniform
  <1> QED
    BY InitAccess, StepAccess, AccessInvUniform, PTL DEF Spec

(* A line of a class is found to be of that class, so what is counted stays *)
(* what was handed over.                                                   *)
LEMMA StepCounts == AccessInv /\ CountsTrue /\ [Next]_vars => CountsTrue'
  <1> SUFFICES ASSUME AccessInv, CountsTrue, [Next]_vars
               PROVE  CountsTrue'
    OBVIOUS
  <1>a. /\ classCounts \in [Classes -> Nat] /\ real \in [Classes -> Nat]
        /\ lines \in Nat /\ broken \in BOOLEAN
    BY AccessLogAssumption DEF AccessInv, Scalars
  <1>b. ASSUME UNCHANGED <<classCounts, real, broken>>
        PROVE  CountsTrue'
    BY <1>b DEF CountsTrue
  <1>1. CASE UNCHANGED vars
    BY <1>1, <1>b DEF vars, tick
  <1>2. CASE Begin \/ Parsed \/ Other \/ Send \/ \E kind \in DOMAIN left : Offer(kind)
    BY <1>2, <1>b DEF Begin, Parsed, Other, Send, Offer, tick
  <1>3. CASE Line
    <2>1. PICK line \in Lines : \E from \in 1 .. (IF lines = 0 THEN Len(line.text) + 1 ELSE 1) :
            /\ Take(From(line.text, from))
            /\ broken' = (broken \/ from > 1)
            /\ real' = IF line.class = 0 THEN real ELSE [real EXCEPT ![line.class] = @ + 1]
      BY <1>3 DEF Line
    <2>2. PICK from \in 1 .. (IF lines = 0 THEN Len(line.text) + 1 ELSE 1) :
            /\ Take(From(line.text, from))
            /\ broken' = (broken \/ from > 1)
            /\ real' = IF line.class = 0 THEN real ELSE [real EXCEPT ![line.class] = @ + 1]
      BY <2>1
    <2>3. from \in 1 .. (Len(line.text) + 1) /\ line.class \in 0 .. 5
      <3>1. line.text \in Seq(STRING) /\ line.class \in 0 .. 5
        BY AccessLogAssumption
      <3>2. Len(line.text) \in Nat
        BY <3>1, LenProperties
      <3> QED
        BY <2>2, <3>1, <3>2
    <2> DEFINE text == From(line.text, from)
               entry == parseAccessLogLine(text)
               class == entry.statusClass
    <2>4. text \in Texts
      BY <2>3 DEF Texts
    <2>5. /\ entry.ok => class = line.class /\ class \in Classes
          /\ from = 1 /\ line.class # 0 => entry.ok
      BY <2>3, EntryOfLine, EntryClass
    <2>6. IF entry.ok THEN classCounts' = [classCounts EXCEPT ![class] = @ + 1]
                      ELSE classCounts' = classCounts
      BY <2>2, <2>4 DEF Take, Entries
    <2> HIDE DEF entry, class
    <2>7. CASE entry.ok
      <3>1. line.class \in Classes /\ line.class # 0
        BY <2>5, <2>7 DEF Classes
      <3>2. /\ classCounts' = [classCounts EXCEPT ![line.class] = @ + 1]
            /\ real' = [real EXCEPT ![line.class] = @ + 1]
            /\ ~broken' => ~broken
        BY <2>2, <2>5, <2>6, <2>7, <3>1
      <3> QED
        BY <1>a, <3>1, <3>2 DEF CountsTrue
    <2>8. CASE ~entry.ok
      <3>1. classCounts' = classCounts /\ (~broken' => ~broken /\ from = 1)
        <4>1. classCounts' = classCounts
          BY <2>6, <2>8
        <4>2. ~broken' => ~broken /\ ~(from > 1)
          BY <2>2
        <4>3. ~(from > 1) => from = 1
          <5>1. from \in Int /\ from >= 1
            BY <2>2
          <5> QED
            BY <5>1
        <4> QED
          BY <4>1, <4>2, <4>3
      <3>2. CASE line.class = 0
        <4>1. real' = real
          BY <2>2, <3>2
        <4> QED
          BY <1>a, <3>1, <4>1 DEF CountsTrue
      <3>3. CASE line.class # 0
        <4>1. real' = [real EXCEPT ![line.class] = @ + 1] /\ line.class \in Classes
          BY <2>2, <2>3, <3>3 DEF Classes
        <4>2. broken'
          BY <2>5, <2>8, <3>1, <3>3
        <4> QED
          BY <1>a, <3>1, <4>1, <4>2 DEF CountsTrue
      <3> QED
        BY <3>2, <3>3
    <2> QED
      BY <2>7, <2>8
  <1>4. CASE Return
    BY <1>4 DEF Return, CountsTrue, NoCounts
  <1> QED
    BY <1>1, <1>2, <1>3, <1>4 DEF Next

(* Every request whose line is whole is counted in its class, and no line  *)
(* in a class that is not its own, wherever its beginning was cut off      *)
(* (accesslog.go:223-249).                                                 *)
THEOREM CountsTrueHolds == Spec => []CountsTrue
  <1>1. Init => CountsTrue
    BY DEF Init, CountsTrue, NoCounts
  <1>2. AccessInv /\ CountsTrue /\ [Next]_vars => (AccessInv /\ CountsTrue)'
    BY StepAccess, StepCounts
  <1> QED
    BY <1>1, <1>2, InitAccess, PTL DEF Spec
-----------------------------------------------------------------------------
(* The site of a referrer.  The words it is spelled with first. *)
Separators == {"/", "//", "://", "?", "#"}
User == <<"user", ":", "pass", "@">>

LEMMA UserIs ==
  /\ User \in Seq(Token) /\ User # <<>> /\ User[Len(User)] = "@"
  /\ Without(User, Separators)
  <1>1. User = [i \in 1 .. 4 |-> User[i]]
    BY DEF User
  <1>2. \A i \in 1 .. 4 : User[i] \in Token
    BY DEF User, Token
  <1>3. User \in Seq(Token) /\ Len(User) = 4
    BY <1>1, <1>2, Literal
  <1>4. User # <<>> /\ User[4] = "@"
    BY DEF User
  <1>5. \A i \in 1 .. 4 : User[i] \notin Separators
    BY DEF User, Separators
  <1> QED
    BY <1>3, <1>4, <1>5 DEF Without

LEMMA SmallIs ==
  /\ <<>> \in Seq(Token) /\ \A T : Without(<<>>, T)
  /\ \A w \in {<<"www.">>, <<"WWW.">>} :
        /\ w \in Seq(Token) /\ w # <<>> /\ w[1] # "["
        /\ Without(w, Separators \cup {"@", ":"})
        /\ ToLower(w) = <<"www.">>
  /\ <<".">> \in Seq(Token) /\ Without(<<".">>, Separators \cup {"@", ":"})
  /\ <<":", "8443">> \in Seq(Token) /\ Without(<<":", "8443">>, Separators \cup {"@"})
  <1>1. <<>> \in Seq(Token) /\ Len(<<>>) = 0
    BY EmptySeq
  <1>2. \A T : Without(<<>>, T)
    BY <1>1 DEF Without
  <1>3. "www." \in Token /\ "WWW." \in Token /\ "." \in Token /\ ":" \in Token /\ "8443" \in Token
    BY DEF Token
  <1>4. ASSUME NEW c \in Token, c \notin Separators \cup {"@", ":"}
        PROVE  <<c>> \in Seq(Token) /\ <<c>> # <<>> /\ <<c>>[1] = c
               /\ Without(<<c>>, Separators \cup {"@", ":"})
    <2>1. <<c>> \in Seq(Token) /\ Len(<<c>>) = 1 /\ <<c>>[1] = c
      BY OneToken
    <2> DEFINE p == <<c>>
    <2> HIDE DEF p
    <2>2. p \in Seq(Token) /\ Len(p) = 1 /\ p[1] = c
      BY <2>1 DEF p
    <2>3. p # <<>>
      BY <1>1, <2>2
    <2>4. Without(p, Separators \cup {"@", ":"})
      <3>1. \A k \in 1 .. Len(p) : k = 1
        BY <2>2
      <3>2. p[1] \notin Separators \cup {"@", ":"}
        BY <1>4, <2>2
      <3> QED
        BY <3>1, <3>2, Zenon DEF Without
    <2> QED
      BY <2>2, <2>3, <2>4 DEF p
  <1>5. {"www.", "WWW.", "."} \cap (Separators \cup {"@", ":"}) = {}
    BY DEF Separators
  <1>6. ASSUME NEW c \in {"www.", "WWW."}
        PROVE  ToLower(<<c>>) = <<"www.">>
    <2> DEFINE p == <<c>>
               q == <<"www.">>
               r == ToLower(p)
    <2>1. p \in Seq(Token) /\ Len(p) = 1 /\ p[1] = c
      BY <1>3, OneToken
    <2>2. q \in Seq(Token) /\ Len(q) = 1 /\ q[1] = "www."
      BY <1>3, OneToken
    <2> HIDE DEF p, q
    <2>3. /\ r \in Seq(Token) /\ Len(r) = Len(p)
          /\ \A k \in 1 .. Len(p) : r[k] = IF p[k] \in DOMAIN Lower THEN Lower[p[k]] ELSE p[k]
      BY <2>1, LowerIs
    <2> HIDE DEF r
    <2>4. r[1] = "www."
      BY <2>1, <2>3, LowerAssumption
    <2>5. r = q
      BY <2>1, <2>2, <2>3, <2>4, SeqEqual
    <2> QED
      BY <2>5 DEF p, q, r
  <1>7. <<":", "8443">> \in Seq(Token) /\ Without(<<":", "8443">>, Separators \cup {"@"})
    <2>1. /\ <<":", "8443">> \in Seq(Token) /\ Len(<<":", "8443">>) = 2
          /\ <<":", "8443">>[1] = ":" /\ <<":", "8443">>[2] = "8443"
      BY <1>3, TwoTokens
    <2> DEFINE p == <<":", "8443">>
    <2> HIDE DEF p
    <2>2. p \in Seq(Token) /\ Len(p) = 2 /\ p[1] = ":" /\ p[2] = "8443"
      BY <2>1 DEF p
    <2>3. Without(p, Separators \cup {"@"})
      BY <2>2 DEF Without, Separators
    <2> QED
      BY <2>2, <2>3 DEF p
  <1>8. ASSUME NEW c \in {"www.", "WWW."}
        PROVE  /\ <<c>> \in Seq(Token) /\ <<c>> # <<>> /\ <<c>>[1] # "["
               /\ Without(<<c>>, Separators \cup {"@", ":"}) /\ ToLower(<<c>>) = <<"www.">>
    <2>1. c \in Token /\ c \notin Separators \cup {"@", ":"} /\ c # "["
      BY <1>3, <1>5
    <2> QED
      BY <1>4, <1>6, <2>1
  <1>9. <<".">> \in Seq(Token) /\ Without(<<".">>, Separators \cup {"@", ":"})
    <2>1. "." \notin Separators \cup {"@", ":"}
      BY <1>5
    <2> QED
      BY <1>3, <1>4, <2>1
  <1>10. ASSUME NEW w \in {<<"www.">>, <<"WWW.">>}
         PROVE  \E c \in {"www.", "WWW."} : w = <<c>>
    BY <1>10, Zenon
  <1>11. \A w \in {<<"www.">>, <<"WWW.">>} :
            /\ w \in Seq(Token) /\ w # <<>> /\ w[1] # "["
            /\ Without(w, Separators \cup {"@", ":"})
            /\ ToLower(w) = <<"www.">>
    BY <1>8, <1>10, Zenon
  <1> QED
    BY <1>1, <1>2, <1>7, <1>9, <1>11, Zenon

(* The authority of a URL on S, with or without a scheme.                  *)
LEMMA AuthorityOf ==
  ASSUME NEW S \in Seq(Token), S # <<>>, S[1] # "//", Without(S, {"/", "?", "#"}),
         NEW p \in Seq(Token), p = <<>> \/ p[1] = "/",
         NEW a, \/ a = <<"http", "://">> \/ a = <<"https", "://">>
                \/ a \in {<<>>, <<"//">>} /\ Without(S, {"://"}) /\ Without(p, {"://"})
  PROVE  Authority((a \o S) \o p) = S
  <1> DEFINE tail == S \o p
             raw == a \o tail
             scheme == First(raw, {"://"})
             rest == IF scheme > 0 THEN From(raw, scheme + 1) ELSE TrimPrefix(raw, "//")
  <1>1. /\ tail \in Seq(Token) /\ Len(S) \in Nat /\ Len(S) > 0 /\ tail[1] = S[1]
        /\ Len(tail) = Len(S) + Len(p) /\ Len(p) \in Nat
    <2>1. Len(S) \in Nat /\ Len(S) > 0
      BY EmptySeq
    <2> QED
      BY <2>1, ConcatIs
  <1>2. a \in Seq(Token)
    <2>1. /\ <<>> \in Seq(Token) /\ <<"//">> \in Seq(Token)
          /\ <<"http", "://">> \in Seq(Token) /\ <<"https", "://">> \in Seq(Token)
      <3>1. "http" \in Token /\ "https" \in Token /\ "://" \in Token /\ "//" \in Token
        BY DEF Token
      <3> QED
        BY <3>1, TwoTokens, OneToken, EmptySeq
    <2> QED
      BY <2>1, Zenon
  <1>3. (a \o S) \o p = raw
    BY <1>2, ConcatAssociative
  <1> HIDE DEF tail
  <1>4. tail # <<>>
    BY <1>1, EmptySeq
  <1>5. rest = tail
    <2>1. CASE a = <<"http", "://">> \/ a = <<"https", "://">>
      <3>1. a # <<>> /\ Len(a) = 2 /\ a[Len(a)] = "://" /\ a[1] # "://"
        <4>1. CASE a = <<"http", "://">>
          BY <4>1
        <4>2. CASE a = <<"https", "://">>
          BY <4>2
        <4> QED
          BY <2>1, <4>1, <4>2
      <3>2. scheme = Len(a) /\ From(raw, scheme + 1) = tail
        <4>1. a[Len(a)] \in {"://"} /\ \A k \in 1 .. (Len(a) - 1) : a[k] \notin {"://"}
          BY <3>1
        <4> QED
          BY <1>1, <1>2, <3>1, <4>1, AfterFirst
      <3> HIDE DEF scheme
      <3> QED
        BY <3>1, <3>2
    <2>2. CASE a \in {<<>>, <<"//">>} /\ Without(S, {"://"}) /\ Without(p, {"://"})
      <3>1. Without(tail, {"://"})
        BY <2>2, WithoutConcat DEF tail
      <3>2. Without(a, {"://"})
        BY <2>2 DEF Without
      <3>3. Without(raw, {"://"})
        BY <1>1, <1>2, <3>1, <3>2, WithoutConcat
      <3>4. raw \in Seq(Token)
        BY <1>1, <1>2, ConcatIs
      <3>5. scheme = 0
        BY <3>3, <3>4, NoneFirst
      <3>6. TrimPrefix(raw, "//") = tail
        <4>1. CASE a = <<>>
          <5>1. raw = tail
            BY <1>1, <4>1, ConcatEmptySeq
          <5>2. tail[1] # "//" /\ "//" \in Token
            BY <1>1 DEF Token
          <5> HIDE DEF raw
          <5> QED
            BY <1>1, <5>1, <5>2, TrimPrefixIs
        <4>2. CASE a = <<"//">>
          <5>1. "//" \in Token
            BY DEF Token
          <5>2. TrimPrefix(<<"//">> \o tail, "//") = tail
            BY <1>1, <5>1, TrimPrefixIs
          <5> QED
            BY <4>2, <5>2
        <4> QED
          BY <2>2, <4>1, <4>2
      <3> HIDE DEF scheme, raw
      <3> QED
        BY <3>5, <3>6
    <2> QED
      BY <2>1, <2>2
  <1> DEFINE ends == {"/", "?", "#"}
  <1>6. Before(tail, First(tail, ends)) = S
    <2>1. p = <<>> \/ p[1] \in ends
      OBVIOUS
    <2> HIDE DEF ends
    <2>2. Without(S, ends)
      BY DEF ends
    <2> QED
      BY <2>1, <2>2, CutFirst DEF tail
  <1>7. Authority(raw) = Before(rest, First(rest, ends))
    BY DEF Authority
  <1> HIDE DEF rest, raw
  <1> QED
    BY <1>3, <1>5, <1>6, <1>7

(* A host without its port. *)
LEMMA PortOf ==
  ASSUME NEW g \in Seq(Token), g # <<>>,
         \/ g[1] # "[" /\ Without(g, {":"})
         \/ /\ g[1] = "[" /\ g[Len(g)] = "]"
            /\ \A k \in 1 .. (Len(g) - 1) : g[k] # "]",
         NEW n, n = <<>> \/ n = <<":", "8443">>
  PROVE  WithoutPort(g \o n) = g
  <1> DEFINE host == g \o n
             shut == First(host, {"]"})
  <1>1. n \in Seq(Token)
    <2>1. ":" \in Token /\ "8443" \in Token
      BY DEF Token
    <2>2. <<>> \in Seq(Token) /\ <<":", "8443">> \in Seq(Token)
      BY <2>1, TwoTokens, EmptySeq
    <2> QED
      BY <2>2, Zenon
  <1>2. Len(g) \in Nat /\ Len(g) > 0 /\ host \in Seq(Token) /\ host[1] = g[1] /\ host # <<>>
    <2>1. Len(g) \in Nat /\ Len(g) > 0
      BY EmptySeq
    <2>2. /\ host \in Seq(Token) /\ Len(host) = Len(g) + Len(n) /\ Len(n) \in Nat
          /\ \A k \in 1 .. Len(g) : host[k] = g[k]
      BY <1>1, ConcatIs
    <2> HIDE DEF host
    <2>3. Len(host) > 0
      BY <2>1, <2>2
    <2> QED
      BY <2>1, <2>2, <2>3, EmptySeq
  <1>3. WithoutPort(host) =
          IF Starts(host, <<"[">>)
          THEN IF shut > 0 THEN SubSeq(host, 1, shut) ELSE host
          ELSE Before(host, Final(host, {":"}))
    BY DEF WithoutPort
  <1>4. Starts(host, <<"[">>) <=> g[1] = "["
    <2>1. "[" \in Token
      BY DEF Token
    <2> HIDE DEF host
    <2> QED
      BY <1>2, <2>1, StartsOne
  <1>5. CASE g[1] # "[" /\ Without(g, {":"})
    <2>1. n = <<>> \/ (n[1] \in {":"} /\ \A k \in 2 .. Len(n) : n[k] \notin {":"})
      OBVIOUS
    <2>2. Before(host, Final(host, {":"})) = g
      BY <1>1, <1>5, <2>1, CutFinal
    <2> HIDE DEF host
    <2> QED
      BY <1>3, <1>4, <1>5, <2>2 DEF host
  <1>6. CASE /\ g[1] = "[" /\ g[Len(g)] = "]"
             /\ \A k \in 1 .. (Len(g) - 1) : g[k] # "]"
    <2>1. g[Len(g)] \in {"]"} /\ \A k \in 1 .. (Len(g) - 1) : g[k] \notin {"]"}
      BY <1>6
    <2>2. shut = Len(g)
      BY <1>1, <2>1, AfterFirst
    <2>3. SubSeq(host, 1, Len(g)) = g
      BY <1>1, Parts
    <2> HIDE DEF host, shut
    <2> QED
      BY <1>2, <1>3, <1>4, <1>6, <2>2, <2>3 DEF host
  <1> QED
    BY <1>5, <1>6

(* What a host is, and in small letters. *)
LEMMA HostIs ==
  ASSUME NEW h \in Hosts
  PROVE  /\ h \in Seq(Token) /\ h # <<>> /\ h[1] \in Token
         /\ Without(h, Separators \cup {"@"})
         /\ h[1] # "[" => Without(h, {":"})
         /\ h[1] = "[" => h[Len(h)] = "]" /\ \A k \in 1 .. (Len(h) - 1) : h[k] # "]"
         /\ h[Len(h)] # "."
         /\ ToLower(h) \in Seq(Token) /\ ToLower(h) # <<>>
         /\ ToLower(h)[1] # "www." /\ isHostStart(ToLower(h)[1])
  <1>1. h \in Seq(STRING) /\ h # <<>> /\ Without(h, {"/", "//", "://", "?", "#", "@"})
    <2>1. h \in Seq(STRING) /\ h # <<>> /\ Without(h, {"/", "//", "://", "?", "#", "@", "control"})
      BY HostsAssumption
    <2> QED
      BY <2>1 DEF Without
  <1>2. \/ /\ h[1] = "[" /\ h[Len(h)] = "]"
           /\ \A k \in 1 .. (Len(h) - 1) : h[k] # "]"
        \/ /\ h[1] # "[" /\ Without(h, {":"}) /\ h[Len(h)] # "."
           /\ ToLower(h)[1] # "www." /\ isHostStart(ToLower(h)[1])
    BY HostsAssumption
  <1>3. h \in Seq(Token)
    BY <1>1, TextOf
  <1>4. Len(h) \in Nat /\ Len(h) > 0
    BY <1>1, <1>3, EmptySeq
  <1>5. h[1] \in Token
    BY <1>3, <1>4, ElementOfSeq
  <1>6. Without(h, Separators \cup {"@"})
    <2>1. Separators \cup {"@"} = {"/", "//", "://", "?", "#", "@"}
      BY DEF Separators
    <2> QED
      BY <1>1, <2>1
  <1>7. /\ ToLower(h) \in Seq(Token) /\ Len(ToLower(h)) = Len(h)
        /\ ToLower(h)[1] = IF h[1] \in DOMAIN Lower THEN Lower[h[1]] ELSE h[1]
    <2>1. 1 \in 1 .. Len(h)
      BY <1>4
    <2> QED
      BY <1>3, <2>1, LowerIs
  <1>8. ToLower(h) # <<>>
    BY <1>4, <1>7, EmptySeq
  <1>9. CASE h[1] = "["
    <2>1. ToLower(h)[1] = "["
      BY <1>7, <1>9, LowerAssumption
    <2>2. ToLower(h)[1] # "www." /\ isHostStart(ToLower(h)[1])
      BY <2>1 DEF isHostStart
    <2>3. h[Len(h)] = "]" /\ \A k \in 1 .. (Len(h) - 1) : h[k] # "]"
      BY <1>2, <1>9
    <2> QED
      BY <1>1, <1>3, <1>5, <1>6, <1>7, <1>8, <1>9, <2>2, <2>3
  <1>10. CASE h[1] # "["
    BY <1>1, <1>2, <1>3, <1>5, <1>6, <1>7, <1>8, <1>10
  <1> QED
    BY <1>9, <1>10

(* The row of a referrer on h, however h is written there: behind a user,  *)
(* with www. or a dot too many, with a port, in a URL or without a scheme. *)
LEMMA SiteOf ==
  ASSUME NEW h \in Hosts,
         NEW u, u = <<>> \/ u = User,
         NEW w, w = <<>> \/ (h[1] # "[" /\ w \in {<<"www.">>, <<"WWW.">>}),
         NEW d, d = <<>> \/ (h[1] # "[" /\ d = <<".">>),
         NEW n, n = <<>> \/ n = <<":", "8443">>,
         NEW p \in Seq(Token), p = <<>> \/ p[1] = "/",
         NEW a, \/ a = <<"http", "://">> \/ a = <<"https", "://">>
                \/ a \in {<<>>, <<"//">>} /\ Without(p, {"://"})
  PROVE  referrerSite((a \o ((((u \o w) \o h) \o d) \o n)) \o p) = clampItem(ToLower(h))
  <1> DEFINE x == w \o h
             g == x \o d
             host == g \o n
             S == u \o host
             raw == (a \o S) \o p
  <1>1. /\ h \in Seq(Token) /\ h # <<>>
        /\ Without(h, Separators \cup {"@"}) /\ (h[1] # "[" => Without(h, {":"}))
    BY HostIs
  <1>2. /\ u \in Seq(Token) /\ Without(u, Separators) /\ (u = <<>> \/ u[Len(u)] \in {"@"})
    BY UserIs, SmallIs
  <1>3. /\ w \in Seq(Token) /\ Without(w, Separators \cup {"@", ":"})
        /\ w = <<>> \/ (w # <<>> /\ w[1] # "[" /\ h[1] # "[" /\ ToLower(w) = <<"www.">>)
    BY SmallIs
  <1>4. /\ d \in Seq(Token) /\ Without(d, Separators \cup {"@", ":"})
    BY SmallIs
  <1>5. /\ n \in Seq(Token) /\ Without(n, Separators \cup {"@"})
    BY SmallIs
  <1>6. x \in Seq(Token) /\ x # <<>> /\ x[Len(x)] = h[Len(h)]
    BY <1>1, <1>3, ConcatIs, ConcatEnds
  <1>7. x[1] = "[" => w = <<>> /\ d = <<>> /\ x = h /\ h[1] = "["
    <2>1. CASE w = <<>>
      <3>1. x = h
        BY <1>1, <2>1, ConcatEmptySeq
      <3> HIDE DEF x
      <3> QED
        BY <2>1, <3>1
    <2>2. CASE w # <<>>
      <3>1. x[1] = w[1] /\ w[1] # "["
        BY <1>1, <1>3, <2>2, ConcatEnds
      <3> HIDE DEF x
      <3> QED
        BY <3>1
    <2> QED
      BY <2>1, <2>2
  <1>8. Without(x, Separators \cup {"@"}) /\ (h[1] # "[" => Without(x, {":"}))
    <2>1. Without(w, Separators \cup {"@"}) /\ Without(w, {":"})
      BY <1>3, WithoutSome
    <2> QED
      BY <1>1, <1>3, <2>1, WithoutConcat
  <1> HIDE DEF x
  <1>9. g \in Seq(Token) /\ g # <<>> /\ g[1] = x[1]
    BY <1>4, <1>6, ConcatIs, ConcatEnds
  <1>10. Without(g, Separators \cup {"@"}) /\ (h[1] # "[" => Without(g, {":"}))
    <2>1. Without(d, Separators \cup {"@"}) /\ Without(d, {":"})
      BY <1>4, WithoutSome
    <2> QED
      BY <1>4, <1>6, <1>8, <2>1, WithoutConcat
  <1>11. /\ d = <<>> => g = x
         /\ d = <<".">> => g = x \o <<".">>
    BY <1>6, ConcatEmptySeq
  <1> HIDE DEF g
  <1>12. host \in Seq(Token) /\ host # <<>> /\ Without(host, Separators \cup {"@"})
    BY <1>5, <1>9, <1>10, ConcatIs, ConcatEnds, WithoutConcat
  <1>13. WithoutPort(host) = g
    <2>1. CASE h[1] = "["
      <3>1. w = <<>> /\ d = <<>>
        BY <2>1
      <3>2. x = h
        BY <1>1, <3>1, ConcatEmptySeq DEF x
      <3>3. g = h
        BY <1>11, <3>1, <3>2
      <3>4. g[1] = "[" /\ g[Len(g)] = "]" /\ \A k \in 1 .. (Len(g) - 1) : g[k] # "]"
        BY <2>1, <3>3, HostIs
      <3> QED
        BY <1>9, <3>4, PortOf
    <2>2. CASE h[1] # "["
      <3>1. g[1] # "[" /\ Without(g, {":"})
        BY <1>7, <1>9, <1>10, <2>2
      <3> QED
        BY <1>9, <3>1, PortOf
    <2> QED
      BY <2>1, <2>2
  <1> HIDE DEF host
  <1>14. S \in Seq(Token) /\ S # <<>> /\ Without(S, Separators)
    <2>1. Without(host, Separators)
      BY <1>12, WithoutSome
    <2> QED
      BY <1>2, <1>12, <2>1, ConcatIs, ConcatEnds, WithoutConcat
  <1>15. From(S, Final(S, {"@"}) + 1) = host
    <2>1. Without(host, {"@"})
      BY <1>12, WithoutSome
    <2> QED
      BY <1>2, <1>12, <2>1, AfterFinal
  <1> HIDE DEF S
  <1>16. Authority(raw) = S
    <2>1. Without(S, {"/", "?", "#"}) /\ Without(S, {"://"})
      BY <1>14, WithoutSome DEF Separators
    <2>2. S[1] # "//"
      <3>1. Len(S) \in Nat /\ Len(S) > 0
        BY <1>14, EmptySeq
      <3> QED
        BY <1>14, <3>1 DEF Without, Separators
    <2> QED
      BY <1>14, <2>1, <2>2, AuthorityOf
  <1>17. TrimSuffix(g, ".") = x
    <2>1. "." \in Token
      BY DEF Token
    <2>2. CASE d = <<>>
      <3>1. x[Len(x)] # "."
        BY <1>6, HostIs
      <3> QED
        BY <1>6, <1>11, <2>1, <2>2, <3>1, TrimSuffixIs
    <2>3. CASE d = <<".">>
      BY <1>6, <1>11, <2>1, <2>3, TrimSuffixIs
    <2> QED
      BY <2>2, <2>3
  <1>18. TrimPrefix(ToLower(x), "www.") = ToLower(h)
    <2>1. "www." \in Token
      BY DEF Token
    <2>2. ToLower(h) \in Seq(Token) /\ ToLower(h)[1] # "www."
      BY HostIs
    <2>3. CASE w = <<>>
      <3>1. x = h
        BY <1>1, <2>3, ConcatEmptySeq DEF x
      <3> QED
        BY <2>1, <2>2, <3>1, TrimPrefixIs
    <2>4. CASE w # <<>>
      <3>1. ToLower(x) = ToLower(w) \o ToLower(h)
        BY <1>1, <1>3, LowerConcat DEF x
      <3>2. ToLower(x) = <<"www.">> \o ToLower(h)
        BY <1>3, <2>4, <3>1
      <3> QED
        BY <2>1, <2>2, <3>2, TrimPrefixIs
    <2> QED
      BY <2>3, <2>4
  <1>19. referrerSite(raw) = clampItem(ToLower(h))
    <2>1. ToLower(h) # <<>> /\ isHostStart(ToLower(h)[1])
      BY HostIs
    <2> HIDE DEF raw
    <2> QED
      BY <1>13, <1>15, <1>16, <1>17, <1>18, <2>1 DEF referrerSite
  <1>20. (((u \o w) \o h) \o d) \o n = S
    <2>1. (u \o w) \o h = u \o x
      <3>1. (u \o w) \o h = u \o (w \o h)
        <4>1. u \in Seq(Token) /\ w \in Seq(Token) /\ h \in Seq(Token)
          BY <1>1, <1>2, <1>3
        <4> QED
          BY <4>1, Regroup
      <3> QED
        BY <3>1 DEF x
    <2>2. (u \o x) \o d = u \o g
      <3>1. (u \o x) \o d = u \o (x \o d)
        <4>1. u \in Seq(Token) /\ x \in Seq(Token) /\ d \in Seq(Token)
          BY <1>2, <1>4, <1>6
        <4> QED
          BY <4>1, Regroup
      <3> QED
        BY <3>1 DEF g
    <2>3. (u \o g) \o n = u \o host
      <3>1. (u \o g) \o n = u \o (g \o n)
        <4>1. u \in Seq(Token) /\ g \in Seq(Token) /\ n \in Seq(Token)
          BY <1>2, <1>5, <1>9
        <4> QED
          BY <4>1, Regroup
      <3> QED
        BY <3>1 DEF host
    <2> QED
      BY <2>1, <2>2, <2>3 DEF S
  <1> QED
    BY <1>19, <1>20

(* The paths behind a host in a referrer. *)
LEMMA PathIs ==
  /\ \A p \in {<<>>, <<"/">>, <<"/", "x", "@", "y">>, <<"/">> \o URL} :
        p \in Seq(Token) /\ (p = <<>> \/ p[1] = "/")
  /\ \A p \in {<<>>, <<"/", "x">>} :
        p \in Seq(Token) /\ (p = <<>> \/ p[1] = "/") /\ Without(p, {"://"})
  <1>1. "/" \in Token /\ "x" \in Token
    BY DEF Token
  <1>2. <<>> \in Seq(Token) /\ Without(<<>>, {"://"})
    BY SmallIs
  <1>3. <<"/">> \in Seq(Token) /\ <<"/">>[1] = "/" /\ <<"/">> # <<>>
    BY <1>1, OneToken
  <1>4. <<"/", "x", "@", "y">> \in Seq(Token) /\ <<"/", "x", "@", "y">>[1] = "/"
    <2> DEFINE f == <<"/", "x", "@", "y">>
    <2>1. f = [i \in 1 .. 4 |-> f[i]] /\ f[1] = "/"
      OBVIOUS
    <2>2. \A i \in 1 .. 4 : f[i] \in Token
      BY DEF Token
    <2> HIDE DEF f
    <2>3. f \in Seq(Token)
      BY <2>1, <2>2, Literal
    <2> QED
      BY <2>1, <2>3 DEF f
  <1>5. URL \in Seq(Token)
    <2>1. URL = [i \in 1 .. 6 |-> URL[i]]
      BY DEF URL
    <2>2. \A i \in 1 .. 6 : URL[i] \in Token
      BY DEF URL, Token
    <2> QED
      BY <2>1, <2>2, Literal
  <1>6. <<"/">> \o URL \in Seq(Token) /\ (<<"/">> \o URL)[1] = "/"
    <2> DEFINE f == <<"/">>
    <2>1. f \in Seq(Token) /\ f # <<>> /\ f[1] = "/"
      BY <1>3
    <2> HIDE DEF f
    <2>2. f \o URL \in Seq(Token) /\ (f \o URL)[1] = "/"
      BY <1>5, <2>1, ConcatIs, ConcatEnds
    <2> QED
      BY <2>2 DEF f
  <1>7. <<"/", "x">> \in Seq(Token) /\ <<"/", "x">>[1] = "/" /\ Without(<<"/", "x">>, {"://"})
    <2>1. /\ <<"/", "x">> \in Seq(Token) /\ Len(<<"/", "x">>) = 2
          /\ <<"/", "x">>[1] = "/" /\ <<"/", "x">>[2] = "x"
      BY <1>1, TwoTokens
    <2> DEFINE f == <<"/", "x">>
    <2> HIDE DEF f
    <2>2. f \in Seq(Token) /\ Len(f) = 2 /\ f[1] = "/" /\ f[2] = "x"
      BY <2>1 DEF f
    <2>3. Without(f, {"://"})
      BY <2>2 DEF Without
    <2> QED
      BY <2>2, <2>3 DEF f
  <1>8. \A p \in {<<>>, <<"/">>, <<"/", "x", "@", "y">>, <<"/">> \o URL} :
            p \in Seq(Token) /\ (p = <<>> \/ p[1] = "/")
    BY <1>2, <1>3, <1>4, <1>6, Zenon
  <1>9. \A p \in {<<>>, <<"/", "x">>} :
            p \in Seq(Token) /\ (p = <<>> \/ p[1] = "/") /\ Without(p, {"://"})
    BY <1>2, <1>7, Zenon
  <1> QED
    BY <1>8, <1>9

(* Whatever a spelling is made of is one of those parts. *)
LEMMA SpellingIs ==
  ASSUME NEW h \in Hosts, NEW s \in Spellings(h)
  PROVE  referrerSite(s) = clampItem(ToLower(h))
  <1> DEFINE Www == IF h[1] = "[" THEN {<<>>} ELSE {<<>>, <<"www.">>, <<"WWW.">>}
             Dot == IF h[1] = "[" THEN {<<>>} ELSE {<<>>, <<".">>}
             Begins == {<<>>, User}
             Port == {<<>>, <<":", "8443">>}
             Site == {u \o w \o h \o d \o n : u \in Begins, w \in Www, d \in Dot, n \in Port}
             Schemes == {<<"http", "://">>, <<"https", "://">>}
             Pages == {<<>>, <<"/">>, <<"/", "x", "@", "y">>, <<"/">> \o URL}
             NoSchemes == {<<>>, <<"//">>}
             NearPages == {<<>>, <<"/", "x">>}
             Far == {a \o t \o p : a \in Schemes, t \in Site, p \in Pages}
             Near == {a \o t \o p : a \in NoSchemes, t \in Site, p \in NearPages}
  <1>1. Spellings(h) = Far \cup Near
    BY DEF Spellings, User
  <1>2. ASSUME NEW t \in Site, NEW p \in Seq(Token), p = <<>> \/ p[1] = "/",
               NEW a, \/ a = <<"http", "://">> \/ a = <<"https", "://">>
                      \/ a \in {<<>>, <<"//">>} /\ Without(p, {"://"})
        PROVE  referrerSite((a \o t) \o p) = clampItem(ToLower(h))
    <2>1. PICK u \in Begins, w \in Www, d \in Dot, n \in Port : t = (((u \o w) \o h) \o d) \o n
      <3> HIDE DEF Begins, Www, Dot, Port
      <3> QED
        OBVIOUS
    <2>2. u = <<>> \/ u = User
      OBVIOUS
    <2>3. w = <<>> \/ (h[1] # "[" /\ w \in {<<"www.">>, <<"WWW.">>})
      OBVIOUS
    <2>4. d = <<>> \/ (h[1] # "[" /\ d = <<".">>)
      OBVIOUS
    <2>5. n = <<>> \/ n = <<":", "8443">>
      OBVIOUS
    <2>6. referrerSite((a \o ((((u \o w) \o h) \o d) \o n)) \o p) = clampItem(ToLower(h))
      BY <1>2, <2>2, <2>3, <2>4, <2>5, SiteOf
    <2> QED
      BY <2>1, <2>6
  <1> HIDE DEF Site
  <1>3. CASE s \in Far
    <2>1. PICK a \in Schemes, t \in Site, p \in Pages : s = (a \o t) \o p
      <3> HIDE DEF Schemes, Pages
      <3> QED
        BY <1>3
    <2>2. p \in Seq(Token) /\ (p = <<>> \/ p[1] = "/")
      BY PathIs
    <2>3. a = <<"http", "://">> \/ a = <<"https", "://">>
      OBVIOUS
    <2>4. referrerSite((a \o t) \o p) = clampItem(ToLower(h))
      BY <1>2, <2>2, <2>3
    <2> QED
      BY <2>1, <2>4
  <1>4. CASE s \in Near
    <2>1. PICK a \in NoSchemes, t \in Site, p \in NearPages : s = (a \o t) \o p
      <3> HIDE DEF NoSchemes, NearPages
      <3> QED
        BY <1>4
    <2>2. p \in Seq(Token) /\ (p = <<>> \/ p[1] = "/") /\ Without(p, {"://"})
      BY PathIs
    <2>3. referrerSite((a \o t) \o p) = clampItem(ToLower(h))
      BY <1>2, <2>2
    <2> QED
      BY <2>1, <2>3
  <1> HIDE DEF Far, Near
  <1> QED
    BY <1>1, <1>3, <1>4

(* Every way of writing a referrer on a host leads to the row of that host, *)
(* for any hosts and any length a row may have (toplists.go:229-277).      *)
THEOREM OneSiteOneRowHolds == Spec => []OneSiteOneRow
  <1>1. OtherSites = {}
    BY SpellingIs DEF OtherSites
  <1>2. OneSiteOneRow
    BY <1>1 DEF OneSiteOneRow
  <1> QED
    BY <1>2, PTL
-----------------------------------------------------------------------------
(* The page that a target names.  A row is built of its parts first.      *)
(* The text of one segment, and of two. *)
LEMMA FlattenOne ==
  ASSUME NEW seqs, Len(seqs) = 1
  PROVE  FlattenSeq(seqs) = seqs[1]
  <1> DEFINE G(f) == [i \in 1 .. Len(seqs) |-> IF i = 1 THEN seqs[i] ELSE f[i - 1] \o seqs[i]]
             g == CHOOSE f : f = G(f)
  <1>1. FlattenSeq(seqs) = g[Len(seqs)]
    BY DEF FlattenSeq
  <1>2. \E f : f = G(f)
    <2> DEFINE w == [i \in 1 .. 1 |-> seqs[1]]
    <2>1. w = G(w)
      OBVIOUS
    <2> QED
      BY <2>1
  <1>3. g = G(g)
    BY <1>2
  <1> HIDE DEF g
  <1>4. g[1] = seqs[1]
    BY <1>3
  <1> QED
    BY <1>1, <1>4

LEMMA FlattenTwo ==
  ASSUME NEW seqs, Len(seqs) = 2
  PROVE  FlattenSeq(seqs) = seqs[1] \o seqs[2]
  <1> DEFINE G(f) == [i \in 1 .. Len(seqs) |-> IF i = 1 THEN seqs[i] ELSE f[i - 1] \o seqs[i]]
             g == CHOOSE f : f = G(f)
  <1>1. FlattenSeq(seqs) = g[Len(seqs)]
    BY DEF FlattenSeq
  <1>2. \E f : f = G(f)
    <2> DEFINE w == [i \in 1 .. 2 |-> IF i = 1 THEN seqs[1] ELSE seqs[1] \o seqs[2]]
    <2>1. w = G(w)
      OBVIOUS
    <2> QED
      BY <2>1
  <1>3. g = G(g)
    BY <1>2
  <1> HIDE DEF g
  <1>4. g[1] = seqs[1]
    BY <1>3
  <1>5. g[2] = g[1] \o seqs[2]
    BY <1>3
  <1> QED
    BY <1>1, <1>4, <1>5

(* The row of a path: its identifiers made one. *)
RowOf(p) == [i \in DOMAIN p |-> IF isIdentifierSegment(p, i) THEN ":id" ELSE p[i]]

(* What stands for a segment in the row of its page. *)
Named(v) == IF \E id \in Identifiers : v = <<id>> THEN <<":id">> ELSE v

(* A row is as long as its path and differs from it at the identifiers only. *)
LEMMA RowIs ==
  ASSUME NEW p \in Seq(Token)
  PROVE  /\ RowOf(p) \in Seq(Token) /\ Len(RowOf(p)) = Len(p)
         /\ \A k \in 1 .. Len(p) :
                /\ isIdentifierSegment(p, k) => RowOf(p)[k] = ":id"
                /\ ~isIdentifierSegment(p, k) => RowOf(p)[k] = p[k]
  <1> DEFINE w == RowOf(p)
  <1>1. Len(p) \in Nat /\ DOMAIN p = 1 .. Len(p)
    BY LenProperties
  <1>2. w = [i \in 1 .. Len(p) |-> w[i]]
    BY <1>1 DEF RowOf
  <1>3. \A k \in 1 .. Len(p) :
            /\ isIdentifierSegment(p, k) => w[k] = ":id"
            /\ ~isIdentifierSegment(p, k) => w[k] = p[k]
    BY <1>1 DEF RowOf
  <1>4. \A k \in 1 .. Len(p) : w[k] \in Token
    <2>1. ":id" \in Token
      BY DEF Token
    <2> HIDE DEF w
    <2> QED
      BY <1>3, <2>1, ElementOfSeq
  <1> HIDE DEF w
  <1>5. w \in Seq(Token) /\ Len(w) = Len(p)
    BY <1>1, <1>2, <1>4, Literal
  <1> QED
    BY <1>3, <1>5 DEF w

(* Where a text goes on with a slash, its row is put together as it is.    *)
LEMMA RowConcat ==
  ASSUME NEW u \in Seq(Token), NEW v \in Seq(Token), v = <<>> \/ v[1] = "/"
  PROVE  RowOf(u \o v) = RowOf(u) \o RowOf(v)
  <1> DEFINE p == u \o v
             a == RowOf(u)
             b == RowOf(v)
             c == RowOf(p)
             d == a \o b
  <1>1. /\ Len(u) \in Nat /\ Len(v) \in Nat
        /\ p \in Seq(Token) /\ Len(p) = Len(u) + Len(v)
        /\ \A i \in 1 .. Len(u) : p[i] = u[i]
        /\ \A i \in 1 .. Len(v) : p[Len(u) + i] = v[i]
    BY ConcatIs
  <1>2. Len(v) > 0 => v[1] = "/"
    BY EmptySeq
  <1> HIDE DEF p
  <1>3. /\ a \in Seq(Token) /\ Len(a) = Len(u)
        /\ \A k \in 1 .. Len(u) : /\ isIdentifierSegment(u, k) => a[k] = ":id"
                                  /\ ~isIdentifierSegment(u, k) => a[k] = u[k]
        /\ b \in Seq(Token) /\ Len(b) = Len(v)
        /\ \A k \in 1 .. Len(v) : /\ isIdentifierSegment(v, k) => b[k] = ":id"
                                  /\ ~isIdentifierSegment(v, k) => b[k] = v[k]
        /\ c \in Seq(Token) /\ Len(c) = Len(p)
        /\ \A k \in 1 .. Len(p) : /\ isIdentifierSegment(p, k) => c[k] = ":id"
                                  /\ ~isIdentifierSegment(p, k) => c[k] = p[k]
    BY <1>1, RowIs
  <1> HIDE DEF a, b, c
  <1>4. /\ d \in Seq(Token) /\ Len(d) = Len(a) + Len(b)
        /\ \A i \in 1 .. Len(a) : d[i] = a[i]
        /\ \A i \in 1 .. Len(b) : d[Len(a) + i] = b[i]
    BY <1>3, ConcatIs
  <1> HIDE DEF d
  <1>5. ASSUME NEW k \in 1 .. Len(u)
        PROVE  isIdentifierSegment(p, k) <=> isIdentifierSegment(u, k)
    <2>1. p[k] = u[k] /\ (k = 1 \/ p[k - 1] = u[k - 1])
      BY <1>1
    <2>2. CASE k = Len(u)
      <3>1. k = Len(p) \/ p[k + 1] = "/"
        <4>1. CASE Len(v) = 0
          BY <1>1, <2>2, <4>1
        <4>2. CASE Len(v) > 0
          BY <1>1, <1>2, <2>2, <4>2
        <4> QED
          BY <1>1, <4>1, <4>2
      <3> QED
        BY <2>1, <2>2, <3>1 DEF isIdentifierSegment
    <2>3. CASE k # Len(u)
      <3>1. p[k + 1] = u[k + 1] /\ k # Len(p)
        BY <1>1, <2>3
      <3> QED
        BY <2>1, <2>3, <3>1 DEF isIdentifierSegment
    <2> QED
      BY <2>2, <2>3
  <1>6. ASSUME NEW k \in 1 .. Len(v)
        PROVE  isIdentifierSegment(p, Len(u) + k) <=> isIdentifierSegment(v, k)
    <2>1. p[Len(u) + k] = v[k]
      BY <1>1
    <2>2. CASE k = 1
      BY <1>2, <2>1, <2>2, SegmentsAssumption DEF isIdentifierSegment
    <2>3. CASE k # 1
      <3>1. p[Len(u) + k - 1] = v[k - 1] /\ Len(u) + k # 1
        <4>1. k - 1 \in 1 .. Len(v)
          BY <1>1, <2>3
        <4>2. p[Len(u) + (k - 1)] = v[k - 1] /\ Len(u) + (k - 1) = Len(u) + k - 1
          BY <1>1, <4>1
        <4> QED
          BY <1>1, <2>3, <4>2
      <3>2. Len(u) + k = Len(p) <=> k = Len(v)
        BY <1>1
      <3>3. k # Len(v) => p[Len(u) + k + 1] = v[k + 1]
        <4>1. ASSUME k # Len(v)
              PROVE  p[Len(u) + k + 1] = v[k + 1]
          <5>1. k + 1 \in 1 .. Len(v) /\ Len(u) + (k + 1) = Len(u) + k + 1
            BY <1>1, <4>1
          <5>2. p[Len(u) + (k + 1)] = v[k + 1]
            BY <1>1, <5>1
          <5> QED
            BY <5>1, <5>2
        <4> QED
          BY <4>1
      <3> QED
        BY <2>1, <2>3, <3>1, <3>2, <3>3 DEF isIdentifierSegment
    <2> QED
      BY <2>2, <2>3
  <1>7. ASSUME NEW k \in 1 .. Len(c)
        PROVE  c[k] = d[k]
    <2>1. CASE k <= Len(u)
      <3>1. k \in 1 .. Len(u) /\ k \in 1 .. Len(p) /\ k \in 1 .. Len(a)
        BY <1>1, <1>3, <2>1
      <3>2. d[k] = a[k] /\ p[k] = u[k]
        BY <1>1, <1>4, <3>1
      <3>3. isIdentifierSegment(p, k) <=> isIdentifierSegment(u, k)
        BY <1>5, <3>1
      <3> QED
        BY <1>3, <3>1, <3>2, <3>3
    <2>2. CASE ~(k <= Len(u))
      <3> DEFINE i == k - Len(u)
      <3>1. i \in 1 .. Len(v) /\ k = Len(u) + i /\ k \in 1 .. Len(p) /\ k = Len(a) + i /\ i \in 1 .. Len(b)
        BY <1>1, <1>3, <2>2
      <3> HIDE DEF i
      <3>2. d[k] = b[i] /\ p[k] = v[i]
        BY <1>1, <1>4, <3>1
      <3>3. isIdentifierSegment(p, k) <=> isIdentifierSegment(v, i)
        BY <1>6, <3>1
      <3> QED
        BY <1>3, <3>1, <3>2, <3>3
    <2> QED
      BY <2>1, <2>2
  <1>8. Len(c) = Len(d)
    BY <1>1, <1>3, <1>4
  <1>9. c = d
    BY <1>3, <1>4, <1>7, <1>8, SeqEqual
  <1> QED
    BY <1>9 DEF a, b, c, d, p

(* A segment and what stands for it have no slash in them. *)
LEMMA NamedIs ==
  ASSUME NEW v \in Segments
  PROVE  /\ v \in Seq(Token) /\ v # <<>> /\ Without(v, {"/", "?", "#"})
         /\ Named(v) \in Seq(Token) /\ Named(v) # <<>>
         /\ Without(Named(v), {"/"}) /\ Without(Named(v), {"control"})
  <1>1. v \in Seq(STRING) /\ v # <<>> /\ Without(v, {"/", "?", "#"}) /\ Without(v, {"control"})
    <2>1. v \in Seq(STRING) /\ v # <<>> /\ Without(v, {"/", "?", "#", "control"})
      BY SegmentsAssumption
    <2> QED
      BY <2>1 DEF Without
  <1>2. v \in Seq(Token)
    BY <1>1, TextOf
  <1> DEFINE f == <<":id">>
  <1>3. f \in Seq(Token) /\ Len(f) = 1 /\ f[1] = ":id"
    <2>1. ":id" \in Token
      BY DEF Token
    <2> QED
      BY <2>1, OneToken
  <1>4. Named(v) = f \/ Named(v) = v
    BY DEF Named
  <1> HIDE DEF f
  <1>5. f # <<>> /\ Without(f, {"/"}) /\ Without(f, {"control"})
    <2>1. f # <<>>
      BY <1>3, EmptySeq
    <2>2. \A k \in 1 .. Len(f) : f[k] = ":id"
      BY <1>3
    <2> QED
      BY <2>1, <2>2 DEF Without
  <1>6. Without(v, {"/"})
    BY <1>1, <1>2, WithoutSome
  <1> QED
    BY <1>1, <1>2, <1>3, <1>4, <1>5, <1>6

(* The row of one segment behind its slash. *)
LEMMA SegmentRow ==
  ASSUME NEW v \in Segments
  PROVE  RowOf(<<"/">> \o v) = <<"/">> \o Named(v)
  <1> DEFINE f == <<"/">>
             p == f \o v
             c == RowOf(p)
             d == f \o Named(v)
  <1>1. f \in Seq(Token) /\ Len(f) = 1 /\ f[1] = "/"
    <2>1. "/" \in Token
      BY DEF Token
    <2> QED
      BY <2>1, OneToken
  <1> HIDE DEF f
  <1>2. v \in Seq(Token) /\ Len(v) \in Nat /\ Len(v) > 0 /\ \A k \in 1 .. Len(v) : v[k] # "/"
    <2>1. v \in Seq(Token) /\ v # <<>> /\ Without(v, {"/", "?", "#"})
      BY NamedIs
    <2> QED
      BY <2>1, EmptySeq DEF Without
  <1>3. /\ p \in Seq(Token) /\ Len(p) = 1 + Len(v) /\ p[1] = "/"
        /\ \A i \in 1 .. Len(v) : p[1 + i] = v[i]
    BY <1>1, <1>2, ConcatIs
  <1> HIDE DEF p
  <1>4. /\ c \in Seq(Token) /\ Len(c) = Len(p)
        /\ \A k \in 1 .. Len(p) : /\ isIdentifierSegment(p, k) => c[k] = ":id"
                                  /\ ~isIdentifierSegment(p, k) => c[k] = p[k]
    BY <1>3, RowIs
  <1> HIDE DEF c
  <1>5. ~isIdentifierSegment(p, 1) /\ 1 \in 1 .. Len(p)
    BY <1>2, <1>3, SegmentsAssumption DEF isIdentifierSegment
  <1>6. c[1] = "/"
    BY <1>3, <1>4, <1>5
  <1>7. CASE \E id \in Identifiers : v = <<id>>
    <2>1. PICK id \in Identifiers : v = <<id>>
      BY <1>7
    <2>2. Len(v) = 1 /\ v[1] = id
      BY <2>1
    <2>3. Named(v) = <<":id">>
      BY <1>7 DEF Named
    <2>4. Len(Named(v)) = 1 /\ Named(v)[1] = ":id" /\ Named(v) \in Seq(Token)
      <3>1. ":id" \in Token
        BY DEF Token
      <3> QED
        BY <2>3, <3>1, OneToken
    <2>5. p[2] = id
      <3>1. p[1 + 1] = v[1]
        BY <1>3, <2>2
      <3> QED
        BY <2>2, <3>1
    <2>6. isIdentifierSegment(p, 2) /\ 2 \in 1 .. Len(p)
      BY <1>3, <2>2, <2>5 DEF isIdentifierSegment
    <2>7. c[2] = ":id"
      BY <1>4, <2>6
    <2> DEFINE m == Named(v)
    <2> HIDE DEF m
    <2>8. d \in Seq(Token) /\ Len(d) = 2 /\ d[1] = "/" /\ d[1 + 1] = ":id"
      <3>1. m \in Seq(Token) /\ Len(m) = 1 /\ m[1] = ":id"
        BY <2>4 DEF m
      <3>2. d = f \o m
        BY DEF m
      <3> QED
        BY <1>1, <3>1, <3>2, ConcatIs
    <2> HIDE DEF d
    <2>9. Len(c) = 2 /\ Len(c) = Len(d) /\ \A k \in 1 .. Len(c) : c[k] = d[k]
      BY <1>3, <1>4, <1>6, <2>2, <2>7, <2>8
    <2>10. c = d
      BY <1>4, <2>8, <2>9, SeqEqual
    <2> QED
      BY <2>10 DEF c, d, p, f
  <1>8. CASE ~\E id \in Identifiers : v = <<id>>
    <2>1. Named(v) = v
      BY <1>8 DEF Named
    <2>2. ASSUME NEW k \in 1 .. Len(p)
          PROVE  ~isIdentifierSegment(p, k)
      <3>1. CASE k = 1
        BY <1>5, <3>1
      <3>2. CASE k > 2
        <4>1. k - 2 \in 1 .. Len(v) /\ 1 + (k - 2) = k - 1
          BY <1>2, <1>3, <3>2
        <4>2. p[1 + (k - 2)] = v[k - 2] /\ v[k - 2] # "/"
          BY <1>2, <1>3, <4>1
        <4> QED
          BY <1>2, <1>3, <3>2, <4>1, <4>2 DEF isIdentifierSegment
      <3>3. CASE k = 2 /\ Len(v) > 1
        <4>1. 2 \in 1 .. Len(v)
          BY <1>2, <3>3
        <4>2. p[1 + 2] = v[2] /\ v[2] # "/"
          BY <1>2, <1>3, <4>1
        <4>3. p[k + 1] # "/" /\ k # Len(p)
          BY <1>2, <1>3, <3>3, <4>2
        <4> QED
          BY <4>3 DEF isIdentifierSegment
      <3>4. CASE k = 2 /\ Len(v) = 1
        <4>1. v[1] \notin Identifiers
          <5>1. ASSUME v[1] \in Identifiers
                PROVE  FALSE
            <6> DEFINE q == <<v[1]>>
            <6>1. v[1] \in Token
              BY <1>2, <3>4, ElementOfSeq
            <6>2. q \in Seq(Token) /\ Len(q) = 1 /\ q[1] = v[1]
              BY <6>1, OneToken
            <6>3. v # q
              BY <1>8, <5>1
            <6> HIDE DEF q
            <6>4. \A i \in 1 .. Len(v) : v[i] = q[i]
              BY <3>4, <6>2
            <6>5. v = q
              BY <1>2, <3>4, <6>2, <6>4, SeqEqual
            <6> QED
              BY <6>3, <6>5
          <5> QED
            BY <5>1
        <4>2. p[1 + 1] = v[1]
          BY <1>3, <3>4
        <4> QED
          BY <3>4, <4>1, <4>2 DEF isIdentifierSegment
      <3>5. k = 1 \/ k > 2 \/ k = 2
        BY <1>2, <1>3
      <3>6. Len(v) > 1 \/ Len(v) = 1
        <4>1. \A n \in Nat : n > 0 => n > 1 \/ n = 1
          OBVIOUS
        <4>2. Len(v) \in Nat /\ Len(v) > 0
          BY <1>2
        <4> QED
          BY <4>1, <4>2
      <3> QED
        BY <3>1, <3>2, <3>3, <3>4, <3>5, <3>6
    <2>3. \A k \in 1 .. Len(c) : c[k] = p[k]
      BY <1>4, <2>2
    <2>4. c = p
      BY <1>3, <1>4, <2>3, SeqEqual
    <2> QED
      BY <2>1, <2>4 DEF c, p, f
  <1> QED
    BY <1>7, <1>8

(* What a path begins with. *)
Slash == <<"/">>

(* The path of the first page is its own row. *)
LEMMA SlashIs ==
  /\ Slash \in Seq(Token) /\ Slash # <<>> /\ Len(Slash) = 1 /\ Slash[1] = "/"
  /\ Without(Slash, {"?", "#"})
  /\ RowOf(Slash) = Slash /\ RowOf(<<>>) = <<>>
  <1>1. Slash \in Seq(Token) /\ Len(Slash) = 1 /\ Slash[1] = "/"
    <2>1. "/" \in Token
      BY DEF Token
    <2> QED
      BY <2>1, OneToken DEF Slash
  <1>2. Slash # <<>>
    BY <1>1, EmptySeq
  <1>3. Without(Slash, {"?", "#"})
    <2>1. \A k \in 1 .. Len(Slash) : Slash[k] = "/"
      BY <1>1
    <2> QED
      BY <2>1 DEF Without
  <1>4. RowOf(Slash) = Slash
    <2> DEFINE c == RowOf(Slash)
    <2>1. /\ c \in Seq(Token) /\ Len(c) = Len(Slash)
          /\ \A k \in 1 .. Len(Slash) : ~isIdentifierSegment(Slash, k) => c[k] = Slash[k]
      BY <1>1, RowIs
    <2>2. \A k \in 1 .. Len(Slash) : ~isIdentifierSegment(Slash, k)
      BY <1>1, SegmentsAssumption DEF isIdentifierSegment
    <2> HIDE DEF c
    <2>3. c = Slash
      BY <1>1, <2>1, <2>2, SeqEqual
    <2> QED
      BY <2>3 DEF c
  <1>5. RowOf(<<>>) = <<>>
    <2>1. Len(RowOf(<<>>)) = 0 /\ RowOf(<<>>) \in Seq(Token)
      BY EmptySeq, RowIs
    <2> QED
      BY <2>1, EmptySeq
  <1> QED
    BY <1>1, <1>2, <1>3, <1>4, <1>5

(* A path of at most two segments, written out. *)
LEMMA TextOfPath ==
  /\ Text(<<>>) = Slash
  /\ \A v : Text(<<v>>) = Slash \o v
  /\ \A v, w : Text(<<v, w>>) = (Slash \o v) \o (Slash \o w)
  <1>1. Text(<<>>) = Slash
    BY DEF Text, Slash
  <1>2. ASSUME NEW v
        PROVE  Text(<<v>>) = Slash \o v
    <2> DEFINE path == <<v>>
               seqs == [i \in DOMAIN path |-> <<"/">> \o path[i]]
    <2>1. Text(path) = FlattenSeq(seqs)
      BY DEF Text
    <2>2. Len(seqs) = 1 /\ seqs[1] = Slash \o v
      BY DEF Slash
    <2> HIDE DEF seqs
    <2> QED
      BY <2>1, <2>2, FlattenOne
  <1>3. ASSUME NEW v, NEW w
        PROVE  Text(<<v, w>>) = (Slash \o v) \o (Slash \o w)
    <2> DEFINE path == <<v, w>>
               seqs == [i \in DOMAIN path |-> <<"/">> \o path[i]]
    <2>1. Text(path) = FlattenSeq(seqs)
      BY DEF Text
    <2>2. Len(seqs) = 2 /\ seqs[1] = Slash \o v /\ seqs[2] = Slash \o w
      BY DEF Slash
    <2> HIDE DEF seqs
    <2> QED
      BY <2>1, <2>2, FlattenTwo
  <1> QED
    BY <1>1, <1>2, <1>3

(* The page of a path of at most two segments, written out. *)
LEMMA PageOf ==
  /\ Page(<<>>) = <<>>
  /\ \A v : Page(<<v>>) = <<Named(v)>>
  /\ \A v, w : Page(<<v, w>>) = <<Named(v), Named(w)>>
  BY DEF Page, Named

(* A path without a query, as a target names it or as a whole URL does. *)
LEMMA PathIsFound ==
  ASSUME NEW P \in Seq(Token), P # <<>>, P[1] = "/", Without(P, {"?", "#"}),
         NEW a, a = <<>> \/ a = <<"http", "://", "example.com">>,
         NEW q \in Seq(Token), q = <<>> \/ q[1] \in {"?", "#"}
  PROVE  PathOf((a \o P) \o q) = P
  <1> DEFINE plain == a \o P
             target == plain \o q
             scheme == First(plain, {"://"})
             host == From(plain, scheme + 1)
             slash == First(host, {"/"})
             ends == {"?", "#"}
             b == <<"http", "://">>
             c == <<"example.com">>
  <1>1. /\ b \in Seq(Token) /\ Len(b) = 2 /\ b[1] = "http" /\ b[2] = "://"
        /\ c \in Seq(Token) /\ Len(c) = 1 /\ c[1] = "example.com"
    <2>1. "http" \in Token /\ "://" \in Token /\ "example.com" \in Token
      BY DEF Token
    <2> QED
      BY <2>1, TwoTokens, OneToken
  <1>2. <<"http", "://", "example.com">> = b \o c
    OBVIOUS
  <1>3. a = <<>> \/ a = b \o c
    BY <1>2
  <1> HIDE DEF b, c
  <1>4. Without(b, ends) /\ Without(c, ends) /\ b # <<>> /\ c # <<>> /\ Without(c, {"/"})
    <2>1. b # <<>> /\ c # <<>>
      <3>1. Len(b) # 0 /\ Len(c) # 0
        BY <1>1
      <3>2. Len(<<>>) = 0
        OBVIOUS
      <3> QED
        BY <3>1, <3>2
    <2>2. (\A k \in 1 .. Len(b) : b[k] = "http" \/ b[k] = "://") /\ \A k \in 1 .. Len(c) : c[k] = "example.com"
      <3>1. \A k \in 1 .. Len(b) : k = 1 \/ k = 2
        BY <1>1
      <3>2. \A k \in 1 .. Len(c) : k = 1
        BY <1>1
      <3> QED
        BY <1>1, <3>1, <3>2
    <2> QED
      BY <2>1, <2>2 DEF Without
  <1>5. a \in Seq(Token) /\ Without(a, ends)
    <2>1. CASE a = <<>>
      BY <2>1, SmallIs
    <2>2. CASE a = b \o c
      BY <1>1, <1>4, <2>2, ConcatIs, WithoutConcat
    <2> QED
      BY <1>3, <2>1, <2>2
  <1>6. plain \in Seq(Token) /\ plain # <<>> /\ Without(plain, ends)
    BY <1>5, ConcatIs, ConcatEnds, WithoutConcat
  <1> HIDE DEF plain
  <1>7. Before(target, First(target, ends)) = plain
    <2>1. q = <<>> \/ q[1] \in ends
      OBVIOUS
    <2> HIDE DEF ends
    <2> QED
      BY <1>6, <2>1, CutFirst
  <1> HIDE DEF target
  <1>8. PathOf(target) = IF Starts(plain, <<"/">>) THEN plain
                         ELSE IF scheme = 0 \/ slash = 0 THEN <<>> ELSE From(host, slash)
    BY <1>7 DEF PathOf
  <1>9. "/" \in Token
    BY DEF Token
  <1>10. CASE a = <<>>
    <2>1. plain = P
      BY <1>10, ConcatEmptySeq DEF plain
    <2>2. Starts(plain, <<"/">>)
      BY <1>9, <2>1, StartsOne
    <2> QED
      BY <1>8, <2>1, <2>2 DEF target, plain
  <1>11. CASE a = b \o c
    <2> DEFINE t == c \o P
    <2>1. t \in Seq(Token)
      BY <1>1, ConcatIs
    <2>2. plain = b \o t
      BY <1>1, <1>11, Regroup DEF plain
    <2> HIDE DEF t
    <2>3. scheme = 2 /\ host = t
      <3>1. b[Len(b)] \in {"://"} /\ \A k \in 1 .. (Len(b) - 1) : b[k] \notin {"://"}
        BY <1>1
      <3>2. First(b \o t, {"://"}) = Len(b) /\ From(b \o t, First(b \o t, {"://"}) + 1) = t
        BY <1>1, <1>4, <2>1, <3>1, AfterFirst
      <3> QED
        BY <1>1, <2>2, <3>2
    <2> HIDE DEF scheme, host
    <2>4. slash = 2
      <3>1. /\ Len(t) = 1 + Len(P) /\ t[1] = "example.com" /\ Len(P) \in Nat /\ Len(P) > 0
            /\ t[1 + 1] = P[1]
        <4>1. Len(P) \in Nat /\ Len(P) > 0
          BY EmptySeq
        <4>2. /\ Len(t) = Len(c) + Len(P)
              /\ \A k \in 1 .. Len(c) : t[k] = c[k]
              /\ \A k \in 1 .. Len(P) : t[Len(c) + k] = P[k]
          BY <1>1, ConcatIs DEF t
        <4> QED
          BY <1>1, <4>1, <4>2
      <3>2. 2 \in 1 .. Len(t) /\ t[2] \in {"/"} /\ \A k \in 1 .. (2 - 1) : t[k] \notin {"/"}
        BY <3>1
      <3> QED
        BY <2>1, <2>3, <3>2, FirstAt
    <2>5. From(t, 2) = P
      <3>1. From(c \o P, Len(c) + 1) = P
        BY <1>1, Parts
      <3> QED
        BY <1>1, <3>1 DEF t
    <2>6. ~Starts(plain, <<"/">>)
      <3>1. plain[1] = b[1]
        BY <1>1, <1>4, <2>1, <2>2, ConcatEnds
      <3> QED
        BY <1>1, <1>6, <1>9, <3>1, StartsOne
    <2> HIDE DEF slash
    <2> QED
      BY <1>8, <2>3, <2>4, <2>5, <2>6 DEF target, plain
  <1> QED
    BY <1>3, <1>10, <1>11

(* One row for a page Y, written with or without a slash at the end. *)
LEMMA RowOfPage ==
  ASSUME NEW X \in Seq(Token), X # <<>>, X[1] = "/", Without(X, {"?", "#"}),
         NEW Y \in Seq(Token), RowOf(X) = Y,
         Len(Y) > 1 => Y[Len(Y)] # "/",
         NEW s, s = <<>> \/ (s = Slash /\ Len(X) > 1),
         NEW a, a = <<>> \/ a = <<"http", "://", "example.com">>,
         NEW q \in Seq(Token), q = <<>> \/ q[1] \in {"?", "#"}
  PROVE  normalizePath(((a \o X) \o s) \o q) = clampItem(Y)
  <1> DEFINE P == X \o s
             target == ((a \o X) \o s) \o q
  <1>1. s \in Seq(Token) /\ Without(s, {"?", "#"}) /\ RowOf(s) = s /\ (s = <<>> \/ s[1] = "/")
    BY SlashIs, SmallIs
  <1>2. P \in Seq(Token) /\ P # <<>> /\ P[1] = "/" /\ Without(P, {"?", "#"})
    BY <1>1, ConcatIs, ConcatEnds, WithoutConcat
  <1>3. a \in Seq(Token)
    <2>1. <<>> \in Seq(Token)
      BY EmptySeq
    <2> DEFINE f == <<"http", "://", "example.com">>
    <2>2. f = [i \in 1 .. 3 |-> f[i]] /\ \A i \in 1 .. 3 : f[i] \in Token
      BY DEF Token
    <2> HIDE DEF f
    <2>3. f \in Seq(Token)
      BY <2>2, Literal
    <2> QED
      BY <2>1, <2>3 DEF f
  <1>4. (a \o X) \o s = a \o P
    BY <1>1, <1>3, Regroup
  <1>5. RowOf(P) = Y \o s
    BY <1>1, RowConcat
  <1> HIDE DEF P
  <1>6. PathOf(target) = P
    BY <1>2, <1>4, PathIsFound
  <1> HIDE DEF target
  <1>7. normalizePath(target) =
            clampItem(IF Len(RowOf(P)) > 1 THEN TrimSuffix(RowOf(P), "/") ELSE RowOf(P))
    BY <1>6 DEF normalizePath, RowOf
  <1>8. "/" \in Token /\ Len(Y) \in Nat /\ Len(Y) = Len(X) /\ Len(X) > 0
    BY EmptySeq, RowIs DEF Token
  <1>9. CASE s = <<>>
    <2>1. RowOf(P) = Y
      BY <1>5, <1>9, ConcatEmptySeq
    <2>2. Len(Y) > 1 => TrimSuffix(Y, "/") = Y
      BY <1>8, TrimSuffixIs
    <2> QED
      BY <1>7, <2>1, <2>2 DEF target
  <1>10. CASE s = Slash /\ Len(X) > 1
    <2>1. TrimSuffix(Y \o <<"/">>, "/") = Y
      BY <1>8, TrimSuffixIs
    <2>2. RowOf(P) = Y \o <<"/">>
      BY <1>5, <1>10 DEF Slash
    <2>3. Len(RowOf(P)) > 1
      <3>1. Len(Y \o s) = Len(Y) + Len(s) /\ Len(s) \in Nat
        BY <1>1, ConcatIs
      <3> QED
        BY <1>5, <1>8, <1>10, <3>1
    <2> QED
      BY <1>7, <2>1, <2>2, <2>3 DEF target
  <1> QED
    BY <1>9, <1>10

(* A path of at most two segments, its row, and what both are made of. *)
LEMMA PathParts ==
  ASSUME NEW path \in Paths
  PROVE  LET X == Text(path)
             Y == Text(Page(path))
         IN  /\ X \in Seq(Token) /\ X # <<>> /\ X[1] = "/" /\ Without(X, {"?", "#"})
             /\ path # <<>> => Len(X) > 1
             /\ Y \in Seq(Token) /\ RowOf(X) = Y
             /\ Len(Y) > 1 => Y[Len(Y)] # "/"
  <1> DEFINE X == Text(path)
             Y == Text(Page(path))
  <1>1. ASSUME NEW v \in Segments
        PROVE  /\ Slash \o v \in Seq(Token) /\ Slash \o v # <<>> /\ (Slash \o v)[1] = "/"
               /\ Len(Slash \o v) > 1 /\ Without(Slash \o v, {"?", "#"})
               /\ RowOf(Slash \o v) = Slash \o Named(v)
               /\ Slash \o Named(v) \in Seq(Token) /\ Slash \o Named(v) # <<>>
               /\ (Slash \o Named(v))[Len(Slash \o Named(v))] # "/"
    <2>1. /\ v \in Seq(Token) /\ v # <<>> /\ Without(v, {"/", "?", "#"})
          /\ Named(v) \in Seq(Token) /\ Named(v) # <<>> /\ Without(Named(v), {"/"})
      BY NamedIs
    <2>2. Slash \in Seq(Token) /\ Slash # <<>> /\ Len(Slash) = 1 /\ Slash[1] = "/" /\ Without(Slash, {"?", "#"})
      BY SlashIs
    <2>3. /\ Slash \o v \in Seq(Token) /\ Len(Slash \o v) = Len(Slash) + Len(v) /\ Len(v) \in Nat
          /\ Slash \o Named(v) \in Seq(Token)
      BY <2>1, <2>2, ConcatIs
    <2>4. Len(v) > 0
      BY <2>1, EmptySeq
    <2>5. Without(v, {"?", "#"})
      BY <2>1, WithoutSome
    <2>6. /\ Slash \o v # <<>> /\ (Slash \o v)[1] = Slash[1]
          /\ Slash \o Named(v) # <<>>
          /\ (Slash \o Named(v))[Len(Slash \o Named(v))] = Named(v)[Len(Named(v))]
      BY <2>1, <2>2, ConcatEnds
    <2>7. Named(v)[Len(Named(v))] # "/"
      <3>1. Len(Named(v)) \in 1 .. Len(Named(v))
        BY <2>1, EmptySeq
      <3> QED
        BY <2>1, <3>1 DEF Without
    <2>8. Without(Slash \o v, {"?", "#"})
      BY <2>1, <2>2, <2>5, WithoutConcat
    <2>9. RowOf(Slash \o v) = Slash \o Named(v)
      BY SegmentRow DEF Slash
    <2> QED
      BY <2>2, <2>3, <2>4, <2>6, <2>7, <2>8, <2>9
  <1>2. CASE path = <<>>
    <2>1. X = Slash /\ Y = Slash
      BY <1>2, TextOfPath, PageOf
    <2> QED
      BY <1>2, <2>1, SlashIs
  <1>3. CASE \E v \in Segments : path = <<v>>
    <2>1. PICK v \in Segments : path = <<v>>
      BY <1>3
    <2>2. X = Slash \o v /\ Y = Slash \o Named(v)
      BY <2>1, TextOfPath, PageOf
    <2> HIDE DEF X, Y
    <2> QED
      BY <1>1, <2>2 DEF X, Y
  <1>4. CASE \E v, w \in Segments : path = <<v, w>>
    <2>1. PICK v \in Segments, w \in Segments : path = <<v, w>>
      BY <1>4
    <2>2. X = (Slash \o v) \o (Slash \o w) /\ Y = (Slash \o Named(v)) \o (Slash \o Named(w))
      <3>1. X = (Slash \o v) \o (Slash \o w)
        BY <2>1, TextOfPath
      <3>2. Page(path) = <<Named(v), Named(w)>>
        BY <2>1, PageOf
      <3>3. Y = (Slash \o Named(v)) \o (Slash \o Named(w))
        <4>1. \A a, b : Text(<<a, b>>) = (Slash \o a) \o (Slash \o b)
          BY TextOfPath
        <4>2. Text(<<Named(v), Named(w)>>) = (Slash \o Named(v)) \o (Slash \o Named(w))
          BY <4>1
        <4> QED
          BY <3>2, <4>2
      <3> QED
        BY <3>1, <3>3
    <2> DEFINE a == Slash \o v
               b == Slash \o w
               c == Slash \o Named(v)
               d == Slash \o Named(w)
    <2>3. /\ a \in Seq(Token) /\ a # <<>> /\ a[1] = "/" /\ Len(a) > 1 /\ Without(a, {"?", "#"})
          /\ RowOf(a) = c /\ c \in Seq(Token) /\ c # <<>>
      BY <1>1
    <2>4. /\ b \in Seq(Token) /\ b # <<>> /\ b[1] = "/" /\ Len(b) > 1 /\ Without(b, {"?", "#"})
          /\ RowOf(b) = d /\ d \in Seq(Token) /\ d # <<>> /\ d[Len(d)] # "/"
      BY <1>1
    <2>5. X = a \o b /\ Y = c \o d
      BY <2>2
    <2> HIDE DEF X, Y, a, b, c, d
    <2>6. X \in Seq(Token) /\ Y \in Seq(Token) /\ Len(X) = Len(a) + Len(b) /\ Len(a) \in Nat /\ Len(b) \in Nat
      BY <2>3, <2>4, <2>5, ConcatIs
    <2>7. X # <<>> /\ X[1] = "/" /\ Y[Len(Y)] # "/"
      BY <2>3, <2>4, <2>5, ConcatEnds
    <2>8. Without(X, {"?", "#"})
      BY <2>3, <2>4, <2>5, WithoutConcat
    <2>9. RowOf(X) = Y
      BY <2>3, <2>4, <2>5, RowConcat
    <2>10. Len(X) > 1
      BY <2>3, <2>4, <2>6
    <2> QED
      BY <2>6, <2>7, <2>8, <2>9, <2>10 DEF X, Y
  <1>5. path = <<>> \/ (\E v \in Segments : path = <<v>>) \/ \E v, w \in Segments : path = <<v, w>>
    BY DEF Paths
  <1> QED
    BY <1>2, <1>3, <1>4, <1>5

(* Whatever names a page leads to its row. *)
LEMMA TargetIs ==
  ASSUME NEW path \in Paths, NEW t \in Targets(path)
  PROVE  normalizePath(t) = clampItem(Text(Page(path)))
  <1> DEFINE X == Text(path)
             Y == Text(Page(path))
             Sites == {<<>>, <<"http", "://", "example.com">>}
             Ends == IF path = <<>> THEN {<<>>} ELSE {<<>>, <<"/">>}
             Queries == {<<>>, <<"?", "next", "/">>, <<"#", "top">>}
             T == {a \o Text(path) \o s \o q : a \in Sites, s \in Ends, q \in Queries}
  <1>1. t \in T
    <2>1. Targets(path) = T
      BY DEF Targets
    <2> HIDE DEF T
    <2> QED
      BY <2>1
  <1> HIDE DEF T
  <1>2. PICK a \in Sites, s \in Ends, q \in Queries : t = ((a \o X) \o s) \o q
    <2> HIDE DEF Sites, Ends, Queries
    <2> QED
      BY <1>1 DEF T
  <1>3. a = <<>> \/ a = <<"http", "://", "example.com">>
    OBVIOUS
  <1>4. /\ X \in Seq(Token) /\ X # <<>> /\ X[1] = "/" /\ Without(X, {"?", "#"})
        /\ path # <<>> => Len(X) > 1
        /\ Y \in Seq(Token) /\ RowOf(X) = Y
        /\ Len(Y) > 1 => Y[Len(Y)] # "/"
    BY PathParts
  <1>5. s = <<>> \/ (s = Slash /\ path # <<>>)
    BY DEF Slash
  <1>6. q \in Seq(Token) /\ (q = <<>> \/ q[1] \in {"?", "#"})
    <2>1. CASE q = <<>>
      BY <2>1, EmptySeq
    <2>2. CASE q = <<"?", "next", "/">>
      <3> DEFINE f == <<"?", "next", "/">>
      <3>1. f = [i \in 1 .. 3 |-> f[i]] /\ (\A i \in 1 .. 3 : f[i] \in Token) /\ f[1] = "?"
        BY DEF Token
      <3> HIDE DEF f
      <3>2. f \in Seq(Token)
        BY <3>1, Literal
      <3>3. q = f
        BY <2>2 DEF f
      <3> QED
        BY <3>1, <3>2, <3>3
    <2>3. CASE q = <<"#", "top">>
      <3>1. "#" \in Token /\ "top" \in Token
        BY DEF Token
      <3> QED
        BY <2>3, <3>1, TwoTokens
    <2> QED
      BY <2>1, <2>2, <2>3
  <1>7. s = <<>> \/ (s = Slash /\ Len(X) > 1)
    BY <1>4, <1>5
  <1> HIDE DEF X, Y, Sites, Ends, Queries
  <1>8. normalizePath(((a \o X) \o s) \o q) = clampItem(Y)
    BY <1>3, <1>4, <1>6, <1>7, RowOfPage
  <1> QED
    BY <1>2, <1>8 DEF Y

(* Every way of naming a page of up to two segments leads to one row, for  *)
(* any segments and any length a row may have (toplists.go:190-222).       *)
THEOREM OnePageOneRowHolds == Spec => []OnePageOneRow
  <1>1. OtherPages = {}
    BY TargetIs DEF OtherPages
  <1>2. OnePageOneRow
    BY <1>1 DEF OnePageOneRow
  <1> QED
    BY <1>2, PTL
-----------------------------------------------------------------------------
(* What a page loads, told from a page by its name. *)
(* A text of one token, and of a slash, a name and a slash. *)
LEMMA IsOne ==
  ASSUME NEW s \in Seq(Token), NEW e \in Token
  PROVE  s = <<e>> <=> Len(s) = 1 /\ s[1] = e
  <1> DEFINE f == <<e>>
  <1>1. f \in Seq(Token) /\ Len(f) = 1 /\ f[1] = e
    BY OneToken
  <1> HIDE DEF f
  <1>2. ASSUME Len(s) = 1, s[1] = e
        PROVE  s = f
    <2>1. \A k \in 1 .. Len(s) : s[k] = f[k]
      BY <1>1, <1>2
    <2> QED
      BY <1>1, <1>2, <2>1, SeqEqual
  <1>3. s = f <=> Len(s) = 1 /\ s[1] = e
    BY <1>1, <1>2
  <1> QED
    BY <1>3 DEF f

LEMMA StartsFolder ==
  ASSUME NEW s \in Seq(Token), NEW p \in Token
  PROVE  Starts(s, <<"/", p, "/">>) <=>
             Len(s) > 2 /\ s[1] = "/" /\ s[2] = p /\ s[3] = "/"
  <1> DEFINE f == <<"/", p, "/">>
             a == SubSeq(f, 1, 3)
             b == SubSeq(s, 1, 3)
  <1>1. f \in Seq(Token) /\ Len(f) = 3 /\ f[1] = "/" /\ f[2] = p /\ f[3] = "/"
    <2>1. f = [i \in 1 .. 3 |-> f[i]] /\ (\A i \in 1 .. 3 : f[i] \in Token) /\ f[1] = "/" /\ f[2] = p /\ f[3] = "/"
      BY DEF Token
    <2> HIDE DEF f
    <2> QED
      BY <2>1, Literal
  <1> HIDE DEF f
  <1>2. Len(s) \in Nat
    BY LenProperties
  <1>3. Starts(s, f) <=> 3 <= Len(s) /\ a = b
    BY <1>1 DEF Starts, IsPrefix
  <1>4. a \in Seq(Token) /\ Len(a) = 3 /\ a[1] = f[1] /\ a[2] = f[2] /\ a[3] = f[3]
    <2>1. \A k \in 1 .. 3 : f[k] \in Token
      BY <1>1, ElementOfSeq
    <2>2. /\ a \in Seq(Token)
          /\ Len(a) = IF 1 <= 3 THEN 3 - 1 + 1 ELSE 0
          /\ \A k \in 1 .. (3 - 1 + 1) : a[k] = f[1 + k - 1]
      BY <2>1, SubSeqProperties
    <2> HIDE DEF a
    <2> QED
      BY <2>2
  <1>5. ASSUME Len(s) > 2
        PROVE  b \in Seq(Token) /\ Len(b) = 3 /\ b[1] = s[1] /\ b[2] = s[2] /\ b[3] = s[3]
    <2>1. \A k \in 1 .. 3 : s[k] \in Token
      BY <1>2, <1>5, ElementOfSeq
    <2>2. /\ b \in Seq(Token)
          /\ Len(b) = IF 1 <= 3 THEN 3 - 1 + 1 ELSE 0
          /\ \A k \in 1 .. (3 - 1 + 1) : b[k] = s[1 + k - 1]
      BY <2>1, SubSeqProperties
    <2> HIDE DEF b
    <2> QED
      BY <2>2
  <1> HIDE DEF a, b
  <1>6. CASE Len(s) > 2
    <2>1. a = b <=> a[1] = b[1] /\ a[2] = b[2] /\ a[3] = b[3]
      <3>1. ASSUME a[1] = b[1], a[2] = b[2], a[3] = b[3]
            PROVE  a = b
        <4>1. \A k \in 1 .. Len(a) : k = 1 \/ k = 2 \/ k = 3
          BY <1>4
        <4>2. \A k \in 1 .. Len(a) : a[k] = b[k]
          BY <3>1, <4>1
        <4> QED
          BY <1>4, <1>5, <1>6, <4>2, SeqEqual
      <3> QED
        BY <3>1
    <2> QED
      BY <1>1, <1>2, <1>3, <1>4, <1>5, <1>6, <2>1 DEF f
  <1>7. CASE ~(Len(s) > 2)
    BY <1>2, <1>3, <1>7 DEF f
  <1> QED
    BY <1>6, <1>7

(* A text that ends with a dot and an extension. *)
LEMMA EndsWith ==
  ASSUME NEW s \in Seq(Token), NEW e \in Token
  PROVE  IsSuffix(<<".", e>>, s) <=> Len(s) > 1 /\ s[Len(s) - 1] = "." /\ s[Len(s)] = e
  <1> DEFINE f == <<".", e>>
             u == Reverse(f)
             w == Reverse(s)
             a == SubSeq(u, 1, 2)
             b == SubSeq(w, 1, 2)
  <1>1. f \in Seq(Token) /\ Len(f) = 2 /\ f[1] = "." /\ f[2] = e
    <2>1. "." \in Token
      BY DEF Token
    <2> QED
      BY <2>1, TwoTokens
  <1> HIDE DEF f
  <1>2. Len(s) \in Nat
    BY LenProperties
  <1>3. u \in Seq(Token) /\ Len(u) = 2 /\ u[1] = e /\ u[2] = "."
    <2>1. u = [k \in 1 .. 2 |-> f[(2 - k) + 1]]
      BY <1>1 DEF Reverse
    <2>2. u[1] = e /\ u[2] = "."
      BY <1>1, <2>1
    <2>3. u = [k \in 1 .. 2 |-> u[k]]
      BY <2>1
    <2> HIDE DEF u
    <2>4. "." \in Token
      BY DEF Token
    <2>5. \A k \in 1 .. 2 : u[k] \in Token
      BY <2>2, <2>4
    <2> QED
      BY <2>2, <2>3, <2>5, Literal
  <1>4. w \in Seq(Token) /\ Len(w) = Len(s) /\ \A k \in 1 .. Len(s) : w[k] = s[(Len(s) - k) + 1]
    <2>1. w = [k \in 1 .. Len(s) |-> s[(Len(s) - k) + 1]]
      BY DEF Reverse
    <2>2. \A k \in 1 .. Len(s) : w[k] = s[(Len(s) - k) + 1]
      BY <2>1
    <2>3. w = [k \in 1 .. Len(s) |-> w[k]]
      BY <2>1
    <2> HIDE DEF w
    <2>4. \A k \in 1 .. Len(s) : w[k] \in Token
      <3>1. \A k \in 1 .. Len(s) : (Len(s) - k) + 1 \in 1 .. Len(s)
        BY <1>2
      <3> QED
        BY <2>2, <3>1, ElementOfSeq
    <2> QED
      BY <1>2, <2>2, <2>3, <2>4, Literal
  <1>5. IsSuffix(f, s) <=> 2 <= Len(s) /\ a = b
    <2>1. IsSuffix(f, s) <=> IsPrefix(u, w)
      BY DEF IsSuffix
    <2> HIDE DEF u, w
    <2> QED
      BY <1>3, <1>4, <2>1 DEF IsPrefix
  <1> HIDE DEF u, w
  <1>6. a \in Seq(Token) /\ Len(a) = 2 /\ a[1] = u[1] /\ a[2] = u[2]
    <2>1. \A k \in 1 .. 2 : u[k] \in Token
      BY <1>3, ElementOfSeq
    <2>2. /\ a \in Seq(Token)
          /\ Len(a) = IF 1 <= 2 THEN 2 - 1 + 1 ELSE 0
          /\ \A k \in 1 .. (2 - 1 + 1) : a[k] = u[1 + k - 1]
      BY <2>1, SubSeqProperties
    <2> HIDE DEF a
    <2> QED
      BY <2>2
  <1>7. ASSUME Len(s) > 1
        PROVE  b \in Seq(Token) /\ Len(b) = 2 /\ b[1] = s[Len(s)] /\ b[2] = s[Len(s) - 1]
    <2>1. \A k \in 1 .. 2 : w[k] \in Token
      BY <1>2, <1>4, <1>7, ElementOfSeq
    <2>2. /\ b \in Seq(Token)
          /\ Len(b) = IF 1 <= 2 THEN 2 - 1 + 1 ELSE 0
          /\ \A k \in 1 .. (2 - 1 + 1) : b[k] = w[1 + k - 1]
      BY <2>1, SubSeqProperties
    <2> HIDE DEF b
    <2>3. Len(b) = 2 /\ b[1] = w[1] /\ b[2] = w[2]
      BY <2>2
    <2>4. w[1] = s[(Len(s) - 1) + 1] /\ w[2] = s[(Len(s) - 2) + 1]
      BY <1>2, <1>4, <1>7
    <2>5. (Len(s) - 1) + 1 = Len(s) /\ (Len(s) - 2) + 1 = Len(s) - 1
      BY <1>2
    <2> QED
      BY <2>2, <2>3, <2>4, <2>5
  <1> HIDE DEF a, b
  <1>8. CASE Len(s) > 1
    <2>1. a = b <=> a[1] = b[1] /\ a[2] = b[2]
      <3>1. ASSUME a[1] = b[1], a[2] = b[2]
            PROVE  a = b
        <4>1. \A k \in 1 .. Len(a) : k = 1 \/ k = 2
          BY <1>6
        <4>2. \A k \in 1 .. Len(a) : a[k] = b[k]
          BY <3>1, <4>1
        <4> QED
          BY <1>6, <1>7, <1>8, <4>2, SeqEqual
      <3> QED
        BY <3>1
    <2> QED
      BY <1>2, <1>3, <1>5, <1>6, <1>7, <1>8, <2>1 DEF f
  <1>9. CASE ~(Len(s) > 1)
    BY <1>2, <1>5, <1>9 DEF f
  <1> QED
    BY <1>8, <1>9

(* What is behind the last dot of a name is an extension exactly when the  *)
(* name ends with a dot and that extension.                                *)
LEMMA ExtensionIs ==
  ASSUME NEW l \in Seq(Token), NEW e \in Token, e # ".", e # "control"
  PROVE  Final(l, {"."}) > 0 /\ ToLower(From(l, Final(l, {"."}) + 1)) = <<e>>
             <=> Len(l) > 1 /\ IsSuffix(<<".", e>>, ToLower(l))
  <1> DEFINE dot == Final(l, {"."})
             end == From(l, dot + 1)
             low == ToLower(l)
             small == ToLower(end)
  <1>1. Len(l) \in Nat /\ dot \in 0 .. Len(l)
    BY LenProperties, FinalIs
  <1>2. dot > 0 => l[dot] = "." /\ \A k \in (dot + 1) .. Len(l) : l[k] # "."
    BY FinalIs
  <1>3. \A k \in 1 .. Len(l) : l[k] = "." /\ (\A i \in (k + 1) .. Len(l) : l[i] # ".") => dot = k
    <2>1. ASSUME NEW k \in 1 .. Len(l), l[k] = ".", \A i \in (k + 1) .. Len(l) : l[i] # "."
          PROVE  dot = k
      <3>1. l[k] \in {"."} /\ \A i \in (k + 1) .. Len(l) : l[i] \notin {"."}
        BY <2>1
      <3> QED
        BY <3>1, FinalAt
    <2> QED
      BY <2>1
  <1> HIDE DEF dot
  <1>4. /\ end \in Seq(Token) /\ Len(end) = Len(l) - dot
        /\ \A k \in 1 .. (Len(l) - dot) : end[k] = l[dot + k]
    <2>1. dot + 1 \in 1 .. (Len(l) + 1)
      BY <1>1
    <2>2. /\ end \in Seq(Token) /\ Len(end) = Len(l) - (dot + 1) + 1
          /\ \A k \in 1 .. (Len(l) - (dot + 1) + 1) : end[k] = l[(dot + 1) + k - 1]
      BY <2>1, FromIs
    <2> HIDE DEF end
    <2>3. Len(l) - (dot + 1) + 1 = Len(l) - dot /\ \A k \in Nat : (dot + 1) + k - 1 = dot + k
      BY <1>1
    <2> QED
      BY <2>2, <2>3
  <1> HIDE DEF end
  <1>5. /\ low \in Seq(Token) /\ Len(low) = Len(l)
        /\ \A k \in 1 .. Len(l) : low[k] = IF l[k] \in DOMAIN Lower THEN Lower[l[k]] ELSE l[k]
    BY LowerIs
  <1>6. /\ small \in Seq(Token) /\ Len(small) = Len(end)
        /\ \A k \in 1 .. Len(end) : small[k] = IF end[k] \in DOMAIN Lower THEN Lower[end[k]] ELSE end[k]
    BY <1>4, LowerIs
  <1> HIDE DEF low, small
  <1>7. \A k \in 1 .. Len(l) : low[k] = "." <=> l[k] = "."
    <2>1. "." \notin DOMAIN Lower /\ \A x \in DOMAIN Lower : Lower[x] # "."
      BY LowerAssumption
    <2> QED
      BY <1>5, <2>1
  <1>8. small = <<e>> <=> Len(l) = dot + 1 /\ low[Len(l)] = e
    <2>1. small = <<e>> <=> Len(small) = 1 /\ small[1] = e
      BY <1>6, IsOne
    <2>2. Len(small) = 1 <=> Len(l) = dot + 1
      BY <1>1, <1>4, <1>6
    <2>3. ASSUME Len(l) = dot + 1
          PROVE  small[1] = low[Len(l)]
      <3>1. 1 \in 1 .. (Len(l) - dot) /\ 1 \in 1 .. Len(end) /\ Len(l) \in 1 .. Len(l)
        BY <1>1, <1>4, <2>3
      <3>2. end[1] = l[Len(l)]
        BY <1>4, <2>3, <3>1
      <3> QED
        BY <1>5, <1>6, <3>1, <3>2
    <2> QED
      BY <2>1, <2>2, <2>3
  <1>9. IsSuffix(<<".", e>>, low) <=> Len(l) > 1 /\ low[Len(l) - 1] = "." /\ low[Len(l)] = e
    BY <1>5, EndsWith
  <1>10. ASSUME dot > 0, Len(l) = dot + 1, low[Len(l)] = e
         PROVE  Len(l) > 1 /\ low[Len(l) - 1] = "."
    <2>1. Len(l) > 1 /\ Len(l) - 1 = dot /\ dot \in 1 .. Len(l)
      BY <1>1, <1>10
    <2> QED
      BY <1>2, <1>7, <1>10, <2>1
  <1>11. ASSUME Len(l) > 1, low[Len(l) - 1] = ".", low[Len(l)] = e
         PROVE  dot > 0 /\ Len(l) = dot + 1
    <2>1. Len(l) - 1 \in 1 .. Len(l) /\ Len(l) \in 1 .. Len(l)
      BY <1>1, <1>11
    <2>2. l[Len(l) - 1] = "." /\ l[Len(l)] # "."
      BY <1>7, <1>11, <2>1
    <2>3. \A i \in ((Len(l) - 1) + 1) .. Len(l) : i = Len(l)
      BY <1>1
    <2>4. dot = Len(l) - 1
      BY <1>3, <2>1, <2>2, <2>3
    <2> QED
      BY <1>1, <1>11, <2>4
  <1>12. dot > 0 /\ small = <<e>> <=> Len(l) > 1 /\ IsSuffix(<<".", e>>, low)
    BY <1>8, <1>9, <1>10, <1>11
  <1> QED
    BY <1>12 DEF dot, end, low, small

(* An item that is no longer than it may be is sent as it is. *)
LEMMA ItemIs ==
  ASSUME NEW s \in Seq(Token), Without(s, {"control"})
  PROVE  /\ Len(s) <= MaxItem => clampItem(s) = s
         /\ s # <<>> /\ MaxItem > 0 => clampItem(s) # <<>>
  <1> DEFINE n == Min({Len(s), MaxItem})
             c == SubSeq(s, 1, n)
  <1>1. Len(s) \in Nat /\ MaxItem \in Nat
    BY LenProperties, ItemAssumption
  <1>2. First(s, {"control"}) = 0
    BY NoneFirst
  <1>3. clampItem(s) = c
    <2>1. ~(First(s, {"control"}) > 0)
      BY <1>2
    <2> QED
      BY <2>1 DEF clampItem
  <1>4. n = IF Len(s) <= MaxItem THEN Len(s) ELSE MaxItem
    BY <1>1, MinOfTwo
  <1> HIDE DEF n
  <1>5. n \in 0 .. Len(s)
    BY <1>1, <1>4
  <1>6. c \in Seq(Token) /\ Len(c) = n /\ \A k \in 1 .. n : c[k] = s[k]
    <2>1. \A k \in 1 .. n : s[k] \in Token
      BY <1>1, <1>5, ElementOfSeq
    <2>2. /\ c \in Seq(Token)
          /\ Len(c) = IF 1 <= n THEN n - 1 + 1 ELSE 0
          /\ \A k \in 1 .. (n - 1 + 1) : c[k] = s[1 + k - 1]
      BY <1>5, <2>1, SubSeqProperties
    <2> HIDE DEF c
    <2> QED
      BY <1>5, <2>2
  <1> HIDE DEF c
  <1>7. ASSUME Len(s) <= MaxItem
        PROVE  c = s
    <2>1. n = Len(s)
      BY <1>4, <1>7
    <2> QED
      BY <1>6, <2>1, SeqEqual
  <1>8. ASSUME s # <<>>, MaxItem > 0
        PROVE  c # <<>>
    <2>1. Len(s) > 0
      BY <1>8, EmptySeq
    <2>2. n > 0
      BY <1>1, <1>4, <1>8, <2>1
    <2>3. Len(c) # 0
      BY <1>5, <1>6, <2>2
    <2> QED
      BY <2>3, EmptySeq
  <1> QED
    BY <1>3, <1>7, <1>8

(* The row of a segment is furniture by its extension exactly when the     *)
(* segment is.                                                             *)
LEMMA NamedExtension ==
  ASSUME NEW v \in Segments, NEW e \in {"js", "css"}
  PROVE  Len(Named(v)) > 1 /\ IsSuffix(<<".", e>>, ToLower(Named(v)))
             <=> Len(v) > 1 /\ IsSuffix(<<".", e>>, ToLower(v))
  <1>1. CASE \E id \in Identifiers : v = <<id>>
    <2>1. Len(v) = 1
      BY <1>1
    <2>2. Named(v) = <<":id">>
      BY <1>1 DEF Named
    <2>3. Len(Named(v)) = 1
      BY <2>2
    <2> QED
      BY <2>1, <2>3
  <1>2. CASE ~\E id \in Identifiers : v = <<id>>
    <2>1. Named(v) = v
      BY <1>2 DEF Named
    <2> QED
      BY <2>1
  <1> QED
    BY <1>1, <1>2

(* It is one token of a prefix exactly when the segment is. *)
LEMMA NamedPrefix ==
  ASSUME NEW v \in Segments, NEW p \in assetPrefixes
  PROVE  Named(v) = <<p>> <=> v = <<p>>
  <1>1. CASE \E id \in Identifiers : v = <<id>>
    <2>1. PICK id \in Identifiers : v = <<id>>
      BY <1>1
    <2>2. Named(v) = <<":id">>
      BY <1>1 DEF Named
    <2>3. id # p
      BY SegmentsAssumption
    <2>4. p # ":id"
      BY DEF assetPrefixes
    <2>5. <<id>>[1] = id /\ <<":id">>[1] = ":id" /\ <<p>>[1] = p
      OBVIOUS
    <2> QED
      BY <2>1, <2>2, <2>3, <2>4, <2>5
  <1>2. CASE ~\E id \in Identifiers : v = <<id>>
    <2>1. Named(v) = v
      BY <1>2 DEF Named
    <2> QED
      BY <2>1
  <1> QED
    BY <1>1, <1>2

(* What is behind the last slash, and whether it names a file. *)
Extended(name) ==
    LET dot == Final(name, {"."})
    IN  dot > 0 /\ \E e \in assetExtensions : ToLower(From(name, dot + 1)) = <<e>>

LEMMA AssetPathIs ==
  ASSUME NEW s \in Seq(Token), s = <<>> \/ s[Len(s)] = "/",
         NEW l \in Seq(Token), Without(l, {"/"})
  PROVE  isAssetPath(s \o l) <=>
             (\E p \in assetPrefixes : Starts(s \o l, <<"/", p, "/">>)) \/ Extended(l)
  <1> DEFINE path == s \o l
             name == From(path, Final(path, {"/"}) + 1)
  <1>1. name = l
    <2>1. s = <<>> \/ s[Len(s)] \in {"/"}
      OBVIOUS
    <2> QED
      BY <2>1, AfterFinal
  <1>2. isAssetPath(path) <=>
            (\E p \in assetPrefixes : Starts(path, <<"/", p, "/">>)) \/ Extended(name)
    BY DEF isAssetPath, Extended
  <1> QED
    BY <1>1, <1>2

LEMMA ExtendedIs ==
  ASSUME NEW v \in Segments
  PROVE  Extended(Named(v)) <=>
             Len(v) > 1 /\ \E e \in assetExtensions : IsSuffix(<<".", e>>, ToLower(v))
  <1> DEFINE l == Named(v)
  <1>1. l \in Seq(Token)
    BY NamedIs
  <1>2. assetExtensions = {"js", "css"} /\ "js" \in Token /\ "css" \in Token
    BY DEF assetExtensions, Token
  <1>3. ASSUME NEW e \in assetExtensions
        PROVE  Final(l, {"."}) > 0 /\ ToLower(From(l, Final(l, {"."}) + 1)) = <<e>>
                   <=> Len(v) > 1 /\ IsSuffix(<<".", e>>, ToLower(v))
    <2>1. e \in Token /\ e # "." /\ e # "control" /\ e \in {"js", "css"}
      BY <1>2
    <2>2. Final(l, {"."}) > 0 /\ ToLower(From(l, Final(l, {"."}) + 1)) = <<e>>
              <=> Len(l) > 1 /\ IsSuffix(<<".", e>>, ToLower(l))
      BY <1>1, <2>1, ExtensionIs
    <2>3. Len(l) > 1 /\ IsSuffix(<<".", e>>, ToLower(l))
              <=> Len(v) > 1 /\ IsSuffix(<<".", e>>, ToLower(v))
      BY <2>1, NamedExtension
    <2> QED
      BY <2>2, <2>3
  <1>4. Extended(l) <=>
            \E e \in assetExtensions :
                Final(l, {"."}) > 0 /\ ToLower(From(l, Final(l, {"."}) + 1)) = <<e>>
    BY DEF Extended
  <1> HIDE DEF l
  <1> QED
    BY <1>3, <1>4 DEF l

(* The first page has no name. *)
LEMMA RootIsNoAsset ==
  ~isAssetPath(Slash)
  <1> DEFINE l == <<>>
  <1>1. l \in Seq(Token) /\ Len(l) = 0
    BY EmptySeq
  <1>2. Slash \in Seq(Token) /\ Len(Slash) = 1 /\ Slash[1] = "/"
    BY SlashIs
  <1>3. Slash \o l = Slash
    BY <1>2, ConcatEmptySeq
  <1>4. Without(l, {"/"}) /\ Without(l, {"."})
    BY <1>1 DEF Without
  <1>5. ~Extended(l)
    <2>1. Final(l, {"."}) = 0
      BY <1>1, <1>4, NoneFirst
    <2>2. ~(Final(l, {"."}) > 0)
      BY <2>1
    <2> QED
      BY <2>2 DEF Extended
  <1>6. Slash[Len(Slash)] = "/"
    BY <1>2
  <1>7. \A p \in assetPrefixes : ~Starts(Slash, <<"/", p, "/">>)
    <2>1. \A p \in assetPrefixes : p \in Token
      BY DEF assetPrefixes, Token
    <2>2. ~(Len(Slash) > 2)
      BY <1>2
    <2> QED
      BY <1>2, <2>1, <2>2, StartsFolder
  <1> HIDE DEF l
  <1>8. isAssetPath(Slash \o l) <=>
            (\E p \in assetPrefixes : Starts(Slash \o l, <<"/", p, "/">>)) \/ Extended(l)
    BY <1>1, <1>2, <1>4, <1>6, AssetPathIs
  <1> QED
    BY <1>3, <1>5, <1>7, <1>8

(* Of one segment: no prefix is followed by a slash. *)
LEMMA OneSegmentAsset ==
  ASSUME NEW v \in Segments
  PROVE  isAssetPath(Slash \o Named(v)) <=>
             Len(v) > 1 /\ \E e \in assetExtensions : IsSuffix(<<".", e>>, ToLower(v))
  <1> DEFINE l == Named(v)
             path == Slash \o l
  <1>1. l \in Seq(Token) /\ l # <<>> /\ Without(l, {"/"})
    BY NamedIs
  <1>2. Slash \in Seq(Token) /\ Len(Slash) = 1 /\ Slash[Len(Slash)] = "/"
    BY SlashIs
  <1> HIDE DEF l
  <1>3. /\ path \in Seq(Token) /\ Len(path) = 1 + Len(l) /\ Len(l) \in Nat
        /\ \A k \in 1 .. Len(l) : path[1 + k] = l[k]
    <2>1. /\ path \in Seq(Token) /\ Len(path) = Len(Slash) + Len(l) /\ Len(l) \in Nat
          /\ \A k \in 1 .. Len(l) : path[Len(Slash) + k] = l[k]
      BY <1>1, <1>2, ConcatIs
    <2> HIDE DEF path
    <2> QED
      BY <1>2, <2>1
  <1>4. isAssetPath(path) <=>
            (\E p \in assetPrefixes : Starts(path, <<"/", p, "/">>)) \/ Extended(l)
    BY <1>1, <1>2, AssetPathIs
  <1> HIDE DEF path
  <1>5. ASSUME NEW p \in assetPrefixes
        PROVE  ~Starts(path, <<"/", p, "/">>)
    <2>1. p \in Token
      BY DEF assetPrefixes, Token
    <2>2. ASSUME Len(path) > 2
          PROVE  path[3] # "/"
      <3>1. 2 \in 1 .. Len(l) /\ 1 + 2 = 3
        BY <1>3, <2>2
      <3>2. path[1 + 2] = l[2] /\ l[2] # "/"
        BY <1>1, <1>3, <3>1 DEF Without
      <3> QED
        BY <3>1, <3>2
    <2> QED
      BY <1>3, <2>1, <2>2, StartsFolder
  <1>6. Extended(l) <=>
            Len(v) > 1 /\ \E e \in assetExtensions : IsSuffix(<<".", e>>, ToLower(v))
    BY ExtendedIs DEF l
  <1> QED
    BY <1>4, <1>5, <1>6 DEF path, l

(* Of two: the first one may be a prefix. *)
LEMMA TwoSegmentsAsset ==
  ASSUME NEW v \in Segments, NEW w \in Segments
  PROVE  isAssetPath((Slash \o Named(v)) \o (Slash \o Named(w))) <=>
             \/ \E p \in assetPrefixes : v = <<p>>
             \/ Len(w) > 1 /\ \E e \in assetExtensions : IsSuffix(<<".", e>>, ToLower(w))
  <1> DEFINE n == Named(v)
             l == Named(w)
             a == Slash \o n
             s == a \o Slash
             path == s \o l
  <1>1. /\ l \in Seq(Token) /\ l # <<>> /\ Without(l, {"/"})
        /\ n \in Seq(Token) /\ n # <<>> /\ Without(n, {"/"})
    BY NamedIs
  <1>2. Slash \in Seq(Token) /\ Slash # <<>> /\ Len(Slash) = 1 /\ Slash[1] = "/"
    BY SlashIs
  <1> HIDE DEF l, n
  <1>3. /\ a \in Seq(Token) /\ Len(a) = 1 + Len(n) /\ Len(n) \in Nat
        /\ \A k \in 1 .. 1 : a[k] = Slash[k]
        /\ \A k \in 1 .. Len(n) : a[1 + k] = n[k]
    BY <1>1, <1>2, ConcatIs
  <1>4. Len(n) > 0
    BY <1>1, EmptySeq
  <1>5. a \o (Slash \o l) = path
    BY <1>1, <1>2, <1>3, Regroup
  <1> HIDE DEF a
  <1>6. /\ s \in Seq(Token) /\ Len(s) = Len(a) + 1 /\ s[Len(a) + 1] = "/"
        /\ \A k \in 1 .. Len(a) : s[k] = a[k]
    <2>1. 1 \in 1 .. Len(Slash)
      BY <1>2
    <2> QED
      BY <1>2, <1>3, <2>1, ConcatIs
  <1> HIDE DEF s
  <1>7. /\ path \in Seq(Token) /\ Len(path) = Len(s) + Len(l) /\ Len(l) \in Nat
        /\ \A k \in 1 .. Len(s) : path[k] = s[k]
    BY <1>1, <1>6, ConcatIs
  <1>8. isAssetPath(path) <=>
            (\E p \in assetPrefixes : Starts(path, <<"/", p, "/">>)) \/ Extended(l)
    <2>1. s[Len(s)] = "/"
      BY <1>6
    <2> QED
      BY <1>1, <1>6, <2>1, AssetPathIs
  <1> HIDE DEF path
  <1>9. path[1] = "/" /\ path[2] = n[1] /\ Len(path) > 2
    <2>1. 1 \in 1 .. Len(a) /\ 2 \in 1 .. Len(a) /\ 1 \in 1 .. Len(s) /\ 2 \in 1 .. Len(s) /\ 1 + 1 = 2
      BY <1>3, <1>4, <1>6
    <2>2. a[1] = "/" /\ a[1 + 1] = n[1]
      BY <1>2, <1>3, <1>4
    <2>3. Len(path) > 2
      BY <1>3, <1>4, <1>6, <1>7
    <2> QED
      BY <1>6, <1>7, <2>1, <2>2, <2>3
  <1>10. path[3] = "/" <=> Len(n) = 1
    <2>1. ASSUME Len(n) = 1
          PROVE  path[3] = "/"
      <3>1. Len(a) + 1 = 3 /\ 3 \in 1 .. Len(s)
        BY <1>3, <1>6, <2>1
      <3> QED
        BY <1>6, <1>7, <3>1
    <2>2. ASSUME Len(n) # 1
          PROVE  path[3] # "/"
      <3>1. 2 \in 1 .. Len(n) /\ 3 \in 1 .. Len(a) /\ 3 \in 1 .. Len(s) /\ 1 + 2 = 3
        <4>1. \A m \in Nat : m > 0 /\ m # 1 => m >= 2
          OBVIOUS
        <4>2. Len(n) >= 2 /\ Len(n) \in Nat
          BY <1>3, <1>4, <2>2, <4>1
        <4>3. Len(a) = 1 + Len(n) /\ Len(s) = Len(a) + 1
          BY <1>3, <1>6
        <4> QED
          BY <4>2, <4>3
      <3>2. a[1 + 2] = n[2] /\ n[2] # "/"
        BY <1>1, <1>3, <3>1 DEF Without
      <3> QED
        BY <1>6, <1>7, <3>1, <3>2
    <2> QED
      BY <2>1, <2>2
  <1>11. ASSUME NEW p \in assetPrefixes
         PROVE  Starts(path, <<"/", p, "/">>) <=> v = <<p>>
    <2>1. p \in Token
      BY DEF assetPrefixes, Token
    <2>2. Starts(path, <<"/", p, "/">>) <=> Len(n) = 1 /\ n[1] = p
      <3>1. Starts(path, <<"/", p, "/">>) <=>
                Len(path) > 2 /\ path[1] = "/" /\ path[2] = p /\ path[3] = "/"
        BY <1>7, <2>1, StartsFolder
      <3> QED
        BY <1>9, <1>10, <3>1
    <2>3. n = <<p>> <=> Len(n) = 1 /\ n[1] = p
      BY <1>1, <2>1, IsOne
    <2>4. n = <<p>> <=> v = <<p>>
      BY NamedPrefix DEF n
    <2> QED
      BY <2>2, <2>3, <2>4
  <1>12. Extended(l) <=>
            Len(w) > 1 /\ \E e \in assetExtensions : IsSuffix(<<".", e>>, ToLower(w))
    BY ExtendedIs DEF l
  <1>13. isAssetPath(path) <=>
             \/ \E p \in assetPrefixes : v = <<p>>
             \/ Len(w) > 1 /\ \E e \in assetExtensions : IsSuffix(<<".", e>>, ToLower(w))
    BY <1>8, <1>11, <1>12
  <1> QED
    BY <1>5, <1>13 DEF a, n, l

(* The row of a page is never empty, has no control byte in it, and names  *)
(* a file exactly when the page is furniture.                              *)
LEMMA PageIs ==
  ASSUME NEW path \in Paths
  PROVE  LET Y == Text(Page(path))
         IN  /\ Y \in Seq(Token) /\ Y # <<>> /\ Without(Y, {"control"})
             /\ isAssetPath(Y) <=> Furniture(path)
  <1> DEFINE Y == Text(Page(path))
             C == {"control"}
  <1>1. /\ Slash \in Seq(Token) /\ Slash # <<>> /\ Len(Slash) = 1 /\ Slash[1] = "/"
        /\ Without(Slash, C)
    <2>1. Slash \in Seq(Token) /\ Slash # <<>> /\ Len(Slash) = 1 /\ Slash[1] = "/"
      BY SlashIs
    <2>2. \A k \in 1 .. Len(Slash) : Slash[k] = "/"
      BY <2>1
    <2> QED
      BY <2>1, <2>2 DEF Without
  <1>2. ASSUME NEW v \in Segments
        PROVE  /\ Slash \o Named(v) \in Seq(Token) /\ Slash \o Named(v) # <<>>
               /\ Without(Slash \o Named(v), C)
    <2>1. Named(v) \in Seq(Token) /\ Named(v) # <<>> /\ Without(Named(v), C)
      BY NamedIs
    <2> HIDE DEF C
    <2> QED
      BY <1>1, <2>1, ConcatIs, ConcatEnds, WithoutConcat
  <1>3. CASE path = <<>>
    <2>1. Y = Slash
      BY <1>3, TextOfPath, PageOf
    <2>2. ~Furniture(path)
      <3>1. ~(Len(path) > 1)
        BY <1>3
      <3> QED
        BY <1>3, <3>1 DEF Furniture
    <2> QED
      BY <1>1, <2>1, <2>2, RootIsNoAsset
  <1>4. CASE \E v \in Segments : path = <<v>>
    <2>1. PICK v \in Segments : path = <<v>>
      BY <1>4
    <2>2. Page(path) = <<Named(v)>>
      BY <2>1, PageOf
    <2>3. \A x : Text(<<x>>) = Slash \o x
      BY TextOfPath
    <2>4. Y = Slash \o Named(v)
      BY <2>2, <2>3
    <2>5. Furniture(path) <=>
              Len(v) > 1 /\ \E e \in assetExtensions : IsSuffix(<<".", e>>, ToLower(v))
      <3>1. ~(Len(path) > 1) /\ path # <<>> /\ Last(path) = v
        BY <2>1 DEF Last
      <3> QED
        BY <3>1 DEF Furniture
    <2>6. isAssetPath(Slash \o Named(v)) <=>
              Len(v) > 1 /\ \E e \in assetExtensions : IsSuffix(<<".", e>>, ToLower(v))
      BY OneSegmentAsset
    <2> QED
      BY <1>2, <2>4, <2>5, <2>6
  <1>5. CASE \E v, w \in Segments : path = <<v, w>>
    <2>1. PICK v \in Segments, w \in Segments : path = <<v, w>>
      BY <1>5
    <2> DEFINE a == Slash \o Named(v)
               b == Slash \o Named(w)
    <2>2. Page(path) = <<Named(v), Named(w)>>
      BY <2>1, PageOf
    <2>3. \A x, y : Text(<<x, y>>) = (Slash \o x) \o (Slash \o y)
      BY TextOfPath
    <2>4. Y = a \o b
      <3>1. Text(<<Named(v), Named(w)>>) = (Slash \o Named(v)) \o (Slash \o Named(w))
        BY <2>3
      <3> QED
        BY <2>2, <3>1
    <2>5. Furniture(path) <=>
              \/ \E p \in assetPrefixes : v = <<p>>
              \/ Len(w) > 1 /\ \E e \in assetExtensions : IsSuffix(<<".", e>>, ToLower(w))
      <3>1. Len(path) > 1 /\ path # <<>> /\ path[1] = v /\ Last(path) = w
        BY <2>1 DEF Last
      <3> QED
        BY <3>1 DEF Furniture
    <2>6. isAssetPath(a \o b) <=>
              \/ \E p \in assetPrefixes : v = <<p>>
              \/ Len(w) > 1 /\ \E e \in assetExtensions : IsSuffix(<<".", e>>, ToLower(w))
      BY TwoSegmentsAsset
    <2>7. /\ a \in Seq(Token) /\ a # <<>> /\ Without(a, C)
          /\ b \in Seq(Token) /\ b # <<>> /\ Without(b, C)
      BY <1>2
    <2> HIDE DEF a, b, C
    <2>8. a \o b \in Seq(Token) /\ a \o b # <<>> /\ Without(a \o b, C)
      BY <2>7, ConcatIs, ConcatEnds, WithoutConcat
    <2> HIDE DEF Y
    <2>9. Y \in Seq(Token) /\ Y # <<>> /\ Without(Y, C) /\ (isAssetPath(Y) <=> Furniture(path))
      BY <2>4, <2>5, <2>6, <2>8
    <2> QED
      BY <2>9 DEF Y, C
  <1>6. path = <<>> \/ (\E v \in Segments : path = <<v>>) \/ \E v, w \in Segments : path = <<v, w>>
    BY DEF Paths
  <1> QED
    BY <1>3, <1>4, <1>5, <1>6

(* A visitor from a host has a row for that host. *)
LEMMA VisitorSite ==
  ASSUME NEW h \in Hosts, MaxItem > 0
  PROVE  referrerSite(<<"http", "://">> \o h) # <<>>
  <1> DEFINE a == <<"http", "://">>
             e == <<>>
             low == ToLower(h)
  <1>1. h \in Seq(Token) /\ low \in Seq(Token) /\ low # <<>>
    BY HostIs
  <1>2. a \in Seq(Token) /\ e \in Seq(Token)
    <2>1. "http" \in Token /\ "://" \in Token
      BY DEF Token
    <2> QED
      BY <2>1, TwoTokens, EmptySeq
  <1>3. referrerSite((a \o ((((e \o e) \o h) \o e) \o e)) \o e) = clampItem(low)
    <2>1. /\ e = <<>> \/ e = User
          /\ e = <<>> \/ (h[1] # "[" /\ e \in {<<"www.">>, <<"WWW.">>})
          /\ e = <<>> \/ (h[1] # "[" /\ e = <<".">>)
          /\ e = <<>> \/ e = <<":", "8443">>
          /\ e = <<>> \/ e[1] = "/"
          /\ a = <<"http", "://">> \/ a = <<"https", "://">>
      OBVIOUS
    <2> HIDE DEF e, a
    <2> QED
      BY <1>2, <2>1, SiteOf
  <1>4. (a \o ((((e \o e) \o h) \o e) \o e)) \o e = a \o h
    <2>1. a \o h \in Seq(Token)
      BY <1>1, <1>2, ConcatProperties
    <2>2. e \o e = e /\ e \o h = h /\ h \o e = h /\ (a \o h) \o e = a \o h
      BY <1>1, <1>2, <2>1, ConcatEmptySeq
    <2> HIDE DEF a, e
    <2> QED
      BY <2>2
  <1>5. Without(low, {"control"})
    <2>1. Without(h, {"/", "//", "://", "?", "#", "@", "control"})
      BY HostsAssumption
    <2>2. \A k \in 1 .. Len(h) : h[k] # "control"
      BY <2>1 DEF Without
    <2>3. \A x \in DOMAIN Lower : Lower[x] # "control"
      BY LowerAssumption
    <2>4. Len(low) = Len(h) /\ \A k \in 1 .. Len(h) :
              low[k] = IF h[k] \in DOMAIN Lower THEN Lower[h[k]] ELSE h[k]
      BY <1>1, LowerIs
    <2> HIDE DEF low
    <2> QED
      BY <2>2, <2>3, <2>4 DEF Without
  <1>6. clampItem(low) # <<>>
    BY <1>1, <1>5, ItemIs
  <1> QED
    BY <1>3, <1>4, <1>6

LEMMA FurnitureIsOut ==
  ASSUME NEW path \in Paths, Len(Text(Page(path))) <= MaxItem,
         NEW t \in Targets(path), NEW h \in Hosts
  PROVE  Drawn(rowsFor(Visit(t, h), <<>>)) = IF Furniture(path) THEN {} ELSE {"page", "referrer"}
  <1> DEFINE Y == Text(Page(path))
             visit == Visit(t, h)
             row == rowsFor(visit, <<>>)
             site == referrerSite(<<"http", "://">> \o h)
  <1>1. Y \in Seq(Token) /\ Y # <<>> /\ Without(Y, {"control"}) /\ (isAssetPath(Y) <=> Furniture(path))
    BY PageIs
  <1>2. Len(Y) <= MaxItem
    OBVIOUS
  <1>3. normalizePath(t) = clampItem(Y)
    BY TargetIs
  <1> HIDE DEF Y
  <1>4. normalizePath(t) = Y
    BY <1>1, <1>2, <1>3, ItemIs
  <1>5. MaxItem > 0
    <2>1. Len(Y) \in Nat /\ Len(Y) > 0
      BY <1>1, EmptySeq
    <2>2. MaxItem \in Nat
      BY ItemAssumption
    <2> QED
      BY <1>2, <2>1, <2>2
  <1>6. site # <<>>
    BY <1>5, VisitorSite
  <1>7. visit.target = t /\ visit.referrer = <<"http", "://">> \o h /\ visit.status = "200"
    BY DEF Visit
  <1> HIDE DEF visit
  <1>8. failingRow("200", Y, TRUE) = <<>> /\ failingRow("200", Y, FALSE) = <<>>
    <2>1. Number["200"] < 400
      BY ItemAssumption
    <2> QED
      BY <2>1 DEF failingRow
  <1>9. CASE Furniture(path)
    <2>1. row = [page |-> <<>>, failing |-> failingRow("200", Y, TRUE), referrer |-> <<>>]
      BY <1>1, <1>4, <1>7, <1>9 DEF rowsFor
    <2>2. row = [page |-> <<>>, failing |-> <<>>, referrer |-> <<>>]
      BY <1>8, <2>1
    <2>3. Drawn(row) = {}
      BY <2>2 DEF Drawn
    <2> QED
      BY <1>9, <2>3 DEF visit
  <1>10. CASE ~Furniture(path)
    <2>1. row = [page |-> Y, failing |-> failingRow("200", Y, FALSE), referrer |-> site]
      BY <1>1, <1>4, <1>6, <1>7, <1>10 DEF rowsFor
    <2> HIDE DEF site
    <2>2. row = [page |-> Y, failing |-> <<>>, referrer |-> site]
      BY <1>8, <2>1
    <2> HIDE DEF row
    <2>3. Drawn(row) = {"page", "referrer"}
      BY <1>1, <1>6, <2>2 DEF Drawn
    <2> QED
      BY <1>10, <2>3 DEF visit, row
  <1> QED
    BY <1>9, <1>10

(* What a page loads has no row in a list, and a page that a person opened *)
(* has one among the pages and one for the site the visitor came from,     *)
(* whatever the page and the site are called (toplists.go:57-71, 128-139). *)
THEOREM FurnitureStaysOutHolds == Spec => []FurnitureStaysOut
  <1>1. ASSUME NEW path \in Misplaced
        PROVE  FALSE
    <2>1. path \in Paths /\ Len(Text(Page(path))) <= MaxItem
      BY DEF Misplaced
    <2>2. PICK row \in {rowsFor(Visit(t, h), <<>>) : t \in Targets(path), h \in Hosts} :
              Drawn(row) # IF Furniture(path) THEN {} ELSE {"page", "referrer"}
      BY DEF Misplaced
    <2>3. PICK t \in Targets(path), h \in Hosts : row = rowsFor(Visit(t, h), <<>>)
      OBVIOUS
    <2> QED
      BY <2>1, <2>2, <2>3, FurnitureIsOut
  <1>2. FurnitureStaysOut
    BY <1>1 DEF FurnitureStaysOut
  <1> QED
    BY <1>2, PTL
=============================================================================
