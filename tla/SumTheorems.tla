---------------------------- MODULE SumTheorems -----------------------------
(***************************************************************************)
(* Induction over numbers and over finite sets, and what sums are, for the *)
(* proofs about Budget and AccessLog.  An induction principle is stated    *)
(* for a set instead of a predicate, so that it can be cited by name; both *)
(* go back to the well-foundedness of < on the natural numbers.            *)
(***************************************************************************)
EXTENDS Integers, FiniteSets, Functions, FiniteSetTheorems, WellFoundedInduction,
        TLAPS

LEMMA LeastNumber ==
  ASSUME NEW T, T \subseteq Nat, T # {}
  PROVE  \E x \in T : \A y \in T : ~(y < x)
  <1>1. \E x \in T : \A y \in T : ~(<<y, x>> \in OpToRel(<, Nat))
    BY NatLessThanWellFounded, WFMin, Zenon
  <1> QED
    BY <1>1 DEF OpToRel

LEMMA UpToN ==
  ASSUME NEW N \in Nat, NEW S, 0 \in S,
         \A n \in 1 .. N : n - 1 \in S => n \in S
  PROVE  \A n \in 0 .. N : n \in S
  <1> SUFFICES ASSUME NEW k \in 0 .. N, k \notin S
               PROVE  FALSE
    OBVIOUS
  <1> DEFINE T == {n \in 0 .. N : n \notin S}
  <1>1. T \subseteq Nat /\ T # {}
    OBVIOUS
  <1>2. PICK x \in T : \A y \in T : ~(y < x)
    BY <1>1, LeastNumber
  <1>3. x \in 1 .. N
    OBVIOUS
  <1>4. x - 1 \in 0 .. N /\ x - 1 < x
    BY <1>3
  <1>5. x - 1 \in S
    BY <1>2, <1>4
  <1> QED
    BY <1>3, <1>5

(* The element that CHOOSE takes of a set: sums are defined by it.         *)
Pick(s) == CHOOSE x \in s : TRUE

LEMMA PickIn ==
  ASSUME NEW s, s # {}
  PROVE  Pick(s) \in s
  BY DEF Pick

LEMMA OneLess ==
  ASSUME NEW s, IsFiniteSet(s), NEW x \in s
  PROVE  /\ IsFiniteSet(s \ {x})
         /\ Cardinality(s) \in Nat \ {0}
         /\ Cardinality(s \ {x}) = Cardinality(s) - 1
  <1>1. Cardinality(s) \in Nat /\ Cardinality(s) # 0
    BY FS_CardinalityType, FS_EmptySet
  <1> QED
    BY <1>1, FS_RemoveElement

(* Every subset of D belongs to S if the empty set does, and with a set    *)
(* every one that has an element more.                                     *)
LEMMA ByPick ==
  ASSUME NEW D, IsFiniteSet(D), NEW S, {} \in S,
         \A A \in SUBSET D : A # {} /\ A \ {Pick(A)} \in S => A \in S
  PROVE  \A A \in SUBSET D : A \in S
  <1> DEFINE T == {n \in 0 .. Cardinality(D) :
                      \A A \in SUBSET D : Cardinality(A) = n => A \in S}
  <1>0. Cardinality(D) \in Nat
    BY FS_CardinalityType
  <1>1. 0 \in T
    <2> SUFFICES ASSUME NEW A \in SUBSET D, Cardinality(A) = 0
                 PROVE  A \in S
      BY <1>0
    <2>1. A = {}
      BY FS_Subset, FS_EmptySet
    <2> QED
      BY <2>1
  <1>2. ASSUME NEW n \in 1 .. Cardinality(D), n - 1 \in T
        PROVE  n \in T
    <2> SUFFICES ASSUME NEW A \in SUBSET D, Cardinality(A) = n
                 PROVE  A \in S
      OBVIOUS
    <2>0. Cardinality({}) = 0 /\ n # 0
      BY FS_EmptySet
    <2>1. IsFiniteSet(A)
      BY FS_Subset
    <2>2. A # {} /\ Pick(A) \in A
      BY <2>0, PickIn
    <2>3. Cardinality(A \ {Pick(A)}) = n - 1
      BY <2>1, <2>2, OneLess
    <2>4. A \ {Pick(A)} \in S
      BY <1>2, <2>3
    <2> QED
      BY <2>2, <2>4
  <1> HIDE DEF T
  <1>3. \A n \in 0 .. Cardinality(D) : n \in T
    BY <1>0, <1>1, <1>2, UpToN
  <1> SUFFICES ASSUME NEW A \in SUBSET D
               PROVE  A \in S
    OBVIOUS
  <1>4. Cardinality(A) \in 0 .. Cardinality(D)
    BY <1>0, FS_Subset, FS_CardinalityType
  <1> QED
    BY <1>3, <1>4 DEF T

LEMMA UpToSet ==
  ASSUME NEW D, IsFiniteSet(D), NEW S, {} \in S,
         \A A \in SUBSET D : \A x \in D \ A : A \in S => A \cup {x} \in S
  PROVE  D \in S
  <1>1. ASSUME NEW A \in SUBSET D, A # {}, A \ {Pick(A)} \in S
        PROVE  A \in S
    <2>1. Pick(A) \in A
      BY <1>1, PickIn
    <2>2. (A \ {Pick(A)}) \cup {Pick(A)} \in S
      BY <1>1, <2>1
    <2>3. (A \ {Pick(A)}) \cup {Pick(A)} = A
      BY <2>1
    <2> QED
      BY <2>2, <2>3
  <1> QED
    BY <1>1, ByPick
-----------------------------------------------------------------------------
(* Sums over finite sets.  SumFunctionOnSet takes the elements one after   *)
(* the other, each time the one that CHOOSE returns.                       *)
Iter(f, D, g) ==
    g = [s \in SUBSET D |-> IF s = {} THEN 0 ELSE f[Pick(s)] + g[s \ {Pick(s)}]]

LEMMA IterExists ==
  ASSUME NEW f, NEW D, IsFiniteSet(D)
  PROVE  \E g : Iter(f, D, g)
  <1> DEFINE Upto(n) == {s \in SUBSET D : Cardinality(s) <= n}
             Next(g, s) == IF s = {} THEN 0 ELSE f[Pick(s)] + g[s \ {Pick(s)}]
             S == {n \in 0 .. Cardinality(D) :
                      \E g : g = [s \in Upto(n) |-> Next(g, s)]}
  <1>0. Cardinality(D) \in Nat
    BY FS_CardinalityType
  <1>1. ASSUME NEW s \in SUBSET D
        PROVE  IsFiniteSet(s) /\ Cardinality(s) \in 0 .. Cardinality(D)
    BY <1>0, FS_Subset, FS_CardinalityType
  <1>2. 0 \in S
    <2> DEFINE g == [s \in Upto(0) |-> 0]
    <2>1. \A s \in Upto(0) : s = {}
      BY <1>1, FS_EmptySet
    <2>2. g = [s \in Upto(0) |-> Next(g, s)]
      BY <2>1
    <2> HIDE DEF g
    <2>3. \E k : k = [s \in Upto(0) |-> Next(k, s)]
      BY <2>2
    <2>4. 0 \in 0 .. Cardinality(D)
      BY <1>0
    <2> QED
      BY <2>3, <2>4, Zenon
  <1>3. ASSUME NEW n \in 1 .. Cardinality(D), n - 1 \in S
        PROVE  n \in S
    <2>1. PICK g : g = [s \in Upto(n - 1) |-> Next(g, s)]
      BY <1>3
    <2> DEFINE h == [s \in Upto(n) |-> IF s \in Upto(n - 1) THEN g[s] ELSE Next(g, s)]
    <2>2. ASSUME NEW s \in Upto(n)
          PROVE  h[s] = Next(h, s)
      <3>1. CASE s = {}
        <4>1. g[s] = 0 \/ s \notin Upto(n - 1)
          BY <2>1, <3>1
        <4> QED
          BY <3>1, <4>1
      <3>2. CASE s # {}
        <4> DEFINE t == s \ {Pick(s)}
        <4>1. t \in Upto(n - 1)
          <5>1. Cardinality(s) \in Nat /\ Cardinality(t) = Cardinality(s) - 1
            BY <1>1, <3>2, PickIn, OneLess
          <5>2. Cardinality(s) <= n /\ t \in SUBSET D
            OBVIOUS
          <5>3. Cardinality(t) <= n - 1
            BY <5>1, <5>2, <1>0
          <5> QED
            BY <5>2, <5>3
        <4>2. t \in Upto(n)
          <5>1. Cardinality(t) \in Nat /\ Cardinality(t) <= n - 1
            BY <4>1, <1>1
          <5>2. Cardinality(t) <= n
            BY <5>1
          <5> QED
            BY <4>1, <5>2
        <4>3. h[t] = g[t]
          BY <4>1, <4>2
        <4>4. h[s] = Next(g, s)
          BY <2>1
        <4> QED
          BY <3>2, <4>3, <4>4
      <3> QED
        BY <3>1, <3>2
    <2>3. h = [s \in Upto(n) |-> Next(h, s)]
      BY <2>2
    <2> HIDE DEF h
    <2>4. \E k : k = [s \in Upto(n) |-> Next(k, s)]
      BY <2>3
    <2>5. n \in 0 .. Cardinality(D)
      BY <1>0
    <2> QED
      BY <2>4, <2>5, Zenon
  <1> HIDE DEF S
  <1>4. \A n \in 0 .. Cardinality(D) : n \in S
    BY <1>0, <1>2, <1>3, UpToN
  <1>5. Cardinality(D) \in S
    BY <1>0, <1>4
  <1>6. Upto(Cardinality(D)) = SUBSET D
    BY <1>0, <1>1
  <1> QED
    BY <1>5, <1>6 DEF S, Iter

(* The iterations over two sets agree where both are defined.              *)
LEMMA IterUnique ==
  ASSUME NEW f, NEW D, IsFiniteSet(D), NEW A \in SUBSET D,
         NEW g, Iter(f, D, g), NEW h, Iter(f, A, h)
  PROVE  g[A] = h[A]
  <1> DEFINE S == {s \in SUBSET A : g[s] = h[s]}
  <1>0. IsFiniteSet(A)
    BY FS_Subset
  <1>1. {} \in S
    BY DEF Iter
  <1>2. ASSUME NEW s \in SUBSET A, s # {}, s \ {Pick(s)} \in S
        PROVE  s \in S
    BY <1>2 DEF Iter
  <1> HIDE DEF S
  <1>3. A \in S
    BY <1>0, <1>1, <1>2, ByPick
  <1> QED
    BY <1>3 DEF S

LEMMA SumIter ==
  ASSUME NEW f, NEW D, IsFiniteSet(D)
  PROVE  \E g : Iter(f, D, g) /\ SumFunctionOnSet(f, D) = g[D]
  <1> DEFINE c == CHOOSE g : Iter(f, D, g)
  <1>1. Iter(f, D, c)
    BY IterExists
  <1>2. SumFunctionOnSet(f, D) = c[D]
    BY Zenon DEF SumFunctionOnSet, FoldFunctionOnSet, MapThenFoldSet, Iter, Pick
  <1> QED
    BY <1>1, <1>2

LEMMA SumEmpty ==
  ASSUME NEW f
  PROVE  SumFunctionOnSet(f, {}) = 0
  <1>1. PICK g : Iter(f, {}, g) /\ SumFunctionOnSet(f, {}) = g[{}]
    BY FS_EmptySet, SumIter
  <1> QED
    BY <1>1 DEF Iter

LEMMA SumPick ==
  ASSUME NEW f, NEW D, IsFiniteSet(D), D # {}
  PROVE  SumFunctionOnSet(f, D) = f[Pick(D)] + SumFunctionOnSet(f, D \ {Pick(D)})
  <1> DEFINE A == D \ {Pick(D)}
  <1>0. A \in SUBSET D /\ IsFiniteSet(A)
    BY FS_Subset
  <1>1. PICK g : Iter(f, D, g) /\ SumFunctionOnSet(f, D) = g[D]
    BY SumIter
  <1>2. PICK h : Iter(f, A, h) /\ SumFunctionOnSet(f, A) = h[A]
    BY <1>0, SumIter
  <1>3. g[A] = h[A]
    BY <1>0, <1>1, <1>2, IterUnique
  <1>4. g[D] = f[Pick(D)] + g[A]
    BY <1>1 DEF Iter
  <1> QED
    BY <1>1, <1>2, <1>3, <1>4

LEMMA SumType ==
  ASSUME NEW f, NEW D, IsFiniteSet(D), \A x \in D : f[x] \in Nat
  PROVE  SumFunctionOnSet(f, D) \in Nat
  <1> DEFINE S == {A \in SUBSET D : SumFunctionOnSet(f, A) \in Nat}
  <1>1. {} \in S
    BY SumEmpty
  <1>2. ASSUME NEW A \in SUBSET D, A # {}, A \ {Pick(A)} \in S
        PROVE  A \in S
    <2>1. SumFunctionOnSet(f, A) = f[Pick(A)] + SumFunctionOnSet(f, A \ {Pick(A)})
      BY <1>2, FS_Subset, SumPick
    <2>2. Pick(A) \in D
      BY <1>2, PickIn
    <2> QED
      BY <1>2, <2>1, <2>2
  <1> HIDE DEF S
  <1>3. D \in S
    BY <1>1, <1>2, ByPick
  <1> QED
    BY <1>3 DEF S

(* Whichever element is taken first, the sum is the same.                  *)
LEMMA SumOut ==
  ASSUME NEW f, NEW D, IsFiniteSet(D), \A x \in D : f[x] \in Nat, NEW x \in D
  PROVE  SumFunctionOnSet(f, D) = f[x] + SumFunctionOnSet(f, D \ {x})
  <1> DEFINE Out(A) == \A y \in A : SumFunctionOnSet(f, A) = f[y] + SumFunctionOnSet(f, A \ {y})
             T == {n \in 0 .. Cardinality(D) :
                      \A A \in SUBSET D : Cardinality(A) = n => Out(A)}
  <1>0. Cardinality(D) \in Nat
    BY FS_CardinalityType
  <1>1. ASSUME NEW A \in SUBSET D
        PROVE  IsFiniteSet(A) /\ Cardinality(A) \in 0 .. Cardinality(D)
    BY <1>0, FS_Subset, FS_CardinalityType
  <1>2. 0 \in T
    <2>1. \A A \in SUBSET D : Cardinality(A) = 0 => A = {}
      BY <1>1, FS_EmptySet
    <2>2. 0 \in 0 .. Cardinality(D)
      BY <1>0
    <2> QED
      BY <2>1, <2>2
  <1>3. ASSUME NEW n \in 1 .. Cardinality(D), n - 1 \in T
        PROVE  n \in T
    <2>1. ASSUME NEW A \in SUBSET D, Cardinality(A) = n, NEW y \in A
          PROVE  SumFunctionOnSet(f, A) = f[y] + SumFunctionOnSet(f, A \ {y})
      <3> DEFINE p == Pick(A)
      <3>1. A # {} /\ IsFiniteSet(A) /\ p \in A
        BY <1>1, PickIn
      <3>2. SumFunctionOnSet(f, A) = f[p] + SumFunctionOnSet(f, A \ {p})
        BY <3>1, SumPick
      <3> HIDE DEF p
      <3>3. CASE y = p
        BY <3>2, <3>3
      <3>4. CASE y # p
        <4>1. Cardinality(A \ {p}) = n - 1 /\ Cardinality(A \ {y}) = n - 1
          BY <2>1, <3>1, OneLess
        <4>2. Out(A \ {p}) /\ Out(A \ {y})
          <5>1. A \ {p} \in SUBSET D /\ A \ {y} \in SUBSET D
            OBVIOUS
          <5> HIDE DEF Out
          <5> QED
            BY <1>3, <4>1, <5>1
        <4>3. SumFunctionOnSet(f, A \ {p}) = f[y] + SumFunctionOnSet(f, (A \ {p}) \ {y})
          BY <3>4, <4>2
        <4>4. SumFunctionOnSet(f, A \ {y}) = f[p] + SumFunctionOnSet(f, (A \ {y}) \ {p})
          BY <3>1, <3>4, <4>2
        <4>5. (A \ {p}) \ {y} = (A \ {y}) \ {p}
          OBVIOUS
        <4>6. SumFunctionOnSet(f, (A \ {y}) \ {p}) \in Nat
          <5>1. IsFiniteSet((A \ {y}) \ {p}) /\ \A z \in (A \ {y}) \ {p} : f[z] \in Nat
            BY <1>1
          <5> QED
            BY <5>1, SumType
        <4>7. f[p] \in Nat /\ f[y] \in Nat
          BY <3>1
        <4> QED
          BY <3>2, <4>3, <4>4, <4>5, <4>6, <4>7
      <3> QED
        BY <3>3, <3>4
    <2> QED
      BY <2>1
  <1> HIDE DEF T
  <1>4. \A n \in 0 .. Cardinality(D) : n \in T
    BY <1>0, <1>2, <1>3, UpToN
  <1>5. Cardinality(D) \in T
    BY <1>0, <1>4
  <1>6. Out(D)
    BY <1>5 DEF T
  <1> QED
    BY <1>6

LEMMA SumInsert ==
  ASSUME NEW f, NEW A, IsFiniteSet(A), NEW x, x \notin A,
         f[x] \in Nat, \A y \in A : f[y] \in Nat
  PROVE  SumFunctionOnSet(f, A \cup {x}) = f[x] + SumFunctionOnSet(f, A)
  <1>1. IsFiniteSet(A \cup {x})
    BY FS_AddElement
  <1>2. (A \cup {x}) \ {x} = A
    OBVIOUS
  <1>3. \A y \in A \cup {x} : f[y] \in Nat
    OBVIOUS
  <1> QED
    BY <1>1, <1>2, <1>3, SumOut
-----------------------------------------------------------------------------
LEMMA SumAdd ==
  ASSUME NEW D, IsFiniteSet(D), NEW f, NEW g, NEW h,
         \A x \in D : f[x] \in Nat /\ g[x] \in Nat /\ h[x] = f[x] + g[x]
  PROVE  SumFunctionOnSet(h, D) = SumFunctionOnSet(f, D) + SumFunctionOnSet(g, D)
  <1> DEFINE S == {A \in SUBSET D :
                SumFunctionOnSet(h, A) = SumFunctionOnSet(f, A) + SumFunctionOnSet(g, A)}
  <1>1. {} \in S
    BY SumEmpty
  <1>2. ASSUME NEW A \in SUBSET D, NEW x \in D \ A, A \in S
        PROVE  A \cup {x} \in S
    <2>1. IsFiniteSet(A)
      BY FS_Subset
    <2>2. \A y \in D : h[y] \in Nat
      OBVIOUS
    <2>3. SumFunctionOnSet(f, A \cup {x}) = f[x] + SumFunctionOnSet(f, A)
      BY <2>1, SumInsert
    <2>4. SumFunctionOnSet(g, A \cup {x}) = g[x] + SumFunctionOnSet(g, A)
      BY <2>1, SumInsert
    <2>5. SumFunctionOnSet(h, A \cup {x}) = h[x] + SumFunctionOnSet(h, A)
      BY <2>1, <2>2, SumInsert
    <2>6. SumFunctionOnSet(f, A) \in Nat /\ SumFunctionOnSet(g, A) \in Nat
      BY <2>1, SumType
    <2> QED
      BY <1>2, <2>3, <2>4, <2>5, <2>6
  <1> HIDE DEF S
  <1>3. D \in S
    BY <1>1, <1>2, UpToSet
  <1> QED
    BY <1>3 DEF S

LEMMA SumScale ==
  ASSUME NEW D, IsFiniteSet(D), NEW c \in Nat, NEW f, NEW g,
         \A x \in D : f[x] \in Nat /\ g[x] = c * f[x]
  PROVE  SumFunctionOnSet(g, D) = c * SumFunctionOnSet(f, D)
  <1> DEFINE S == {A \in SUBSET D :
                SumFunctionOnSet(g, A) = c * SumFunctionOnSet(f, A)}
  <1>1. {} \in S
    BY SumEmpty
  <1>2. ASSUME NEW A \in SUBSET D, NEW x \in D \ A, A \in S
        PROVE  A \cup {x} \in S
    <2>1. IsFiniteSet(A)
      BY FS_Subset
    <2>2. \A y \in D : g[y] \in Nat
      OBVIOUS
    <2>3. SumFunctionOnSet(f, A \cup {x}) = f[x] + SumFunctionOnSet(f, A)
      BY <2>1, SumInsert
    <2>4. SumFunctionOnSet(g, A \cup {x}) = g[x] + SumFunctionOnSet(g, A)
      BY <2>1, <2>2, SumInsert
    <2>5. SumFunctionOnSet(f, A) \in Nat
      BY <2>1, SumType
    <2>6. c * (f[x] + SumFunctionOnSet(f, A)) = c * f[x] + c * SumFunctionOnSet(f, A)
      BY <2>5
    <2> QED
      BY <1>2, <2>3, <2>4, <2>6
  <1> HIDE DEF S
  <1>3. D \in S
    BY <1>1, <1>2, UpToSet
  <1> QED
    BY <1>3 DEF S

LEMMA SumSame ==
  ASSUME NEW D, IsFiniteSet(D), NEW f, NEW g,
         \A x \in D : f[x] \in Nat /\ g[x] = f[x]
  PROVE  SumFunctionOnSet(g, D) = SumFunctionOnSet(f, D)
  <1>1. SumFunctionOnSet(g, D) = 1 * SumFunctionOnSet(f, D)
    BY SumScale
  <1>2. SumFunctionOnSet(f, D) \in Nat
    BY SumType
  <1> QED
    BY <1>1, <1>2

(* The elements outside E count for nothing.                               *)
LEMMA SumFilter ==
  ASSUME NEW D, IsFiniteSet(D), NEW E \in SUBSET D, NEW f, NEW g,
         \A x \in D : f[x] \in Nat /\ g[x] = IF x \in E THEN f[x] ELSE 0
  PROVE  SumFunctionOnSet(g, D) = SumFunctionOnSet(f, E)
  <1> DEFINE S == {A \in SUBSET D :
                SumFunctionOnSet(g, A) = SumFunctionOnSet(f, A \cap E)}
  <1>1. {} \in S
    <2>1. {} \cap E = {}
      OBVIOUS
    <2> QED
      BY <2>1, SumEmpty
  <1>2. ASSUME NEW A \in SUBSET D, NEW x \in D \ A, A \in S
        PROVE  A \cup {x} \in S
    <2>1. IsFiniteSet(A) /\ IsFiniteSet(A \cap E)
      BY FS_Subset
    <2>2. \A y \in D : g[y] \in Nat
      OBVIOUS
    <2>3. SumFunctionOnSet(g, A \cup {x}) = g[x] + SumFunctionOnSet(g, A)
      BY <2>1, <2>2, SumInsert
    <2>4. SumFunctionOnSet(f, A \cap E) \in Nat
      BY <2>1, SumType
    <2>5. CASE x \in E
      <3>1. (A \cup {x}) \cap E = (A \cap E) \cup {x}
        BY <2>5
      <3>2. SumFunctionOnSet(f, (A \cap E) \cup {x}) = f[x] + SumFunctionOnSet(f, A \cap E)
        BY <2>1, SumInsert
      <3> QED
        BY <1>2, <2>3, <2>5, <3>1, <3>2
    <2>6. CASE x \notin E
      <3>1. (A \cup {x}) \cap E = A \cap E
        BY <2>6
      <3>2. g[x] = 0
        BY <2>6
      <3>3. SumFunctionOnSet(g, A) = SumFunctionOnSet(f, A \cap E)
        BY <1>2
      <3>4. SumFunctionOnSet(g, A \cup {x}) = SumFunctionOnSet(f, A \cap E)
        BY <2>3, <2>4, <3>2, <3>3
      <3> QED
        BY <3>1, <3>4
    <2> QED
      BY <2>5, <2>6
  <1> HIDE DEF S
  <1>3. D \in S
    BY <1>1, <1>2, UpToSet
  <1>4. D \cap E = E
    OBVIOUS
  <1> QED
    BY <1>3, <1>4 DEF S

(* The sums of the rows of a table, and those of its columns.              *)
Rows(F, A, B) == [a \in A |-> SumFunctionOnSet(F[a], B)]
Columns(F, A, B) == [b \in B |-> SumFunctionOnSet([a \in A |-> F[a][b]], A)]

(* A table has one sum, by rows and by columns.                            *)
LEMMA SumExchange ==
  ASSUME NEW A, IsFiniteSet(A), NEW B, IsFiniteSet(B), NEW F,
         \A a \in A : \A b \in B : F[a][b] \in Nat
  PROVE  SumFunctionOnSet(Rows(F, A, B), A) = SumFunctionOnSet(Columns(F, A, B), B)
  <1> DEFINE row == [a \in A |-> SumFunctionOnSet(F[a], B)]
             col(b) == [a \in A |-> F[a][b]]
             cols(C) == [b \in B |-> SumFunctionOnSet(col(b), C)]
             S == {C \in SUBSET A : SumFunctionOnSet(row, C) = SumFunctionOnSet(cols(C), B)}
  <1>1. {} \in S
    <2>1. \A b \in B : cols({})[b] = 0
      BY SumEmpty
    <2>2. SumFunctionOnSet(cols({}), B) = 0 * SumFunctionOnSet(cols({}), B)
      <3> HIDE DEF cols
      <3> QED
        BY <2>1, SumScale
    <2>3. SumFunctionOnSet(cols({}), B) \in Nat
      <3> HIDE DEF cols
      <3> QED
        BY <2>1, SumType
    <2>4. SumFunctionOnSet(row, {}) = 0
      BY SumEmpty
    <2> HIDE DEF cols, row
    <2>5. SumFunctionOnSet(cols({}), B) = 0
      BY <2>2, <2>3
    <2> QED
      BY <2>4, <2>5
  <1>2. ASSUME NEW C \in SUBSET A, NEW x \in A \ C, C \in S
        PROVE  C \cup {x} \in S
    <2>1. IsFiniteSet(C)
      BY FS_Subset
    <2>2. \A a \in A : row[a] \in Nat
      BY SumType
    <2>3. SumFunctionOnSet(row, C \cup {x}) = row[x] + SumFunctionOnSet(row, C)
      <3> HIDE DEF row
      <3> QED
        BY <2>1, <2>2, SumInsert
    <2>4. ASSUME NEW b \in B
          PROVE  /\ F[x][b] \in Nat /\ cols(C)[b] \in Nat
                 /\ cols(C \cup {x})[b] = F[x][b] + cols(C)[b]
      <3>1. \A a \in A : col(b)[a] \in Nat
        OBVIOUS
      <3>2. col(b)[x] = F[x][b]
        OBVIOUS
      <3> HIDE DEF col
      <3>3. SumFunctionOnSet(col(b), C \cup {x}) = col(b)[x] + SumFunctionOnSet(col(b), C)
        BY <2>1, <3>1, SumInsert
      <3>4. SumFunctionOnSet(col(b), C) \in Nat
        BY <2>1, <3>1, SumType
      <3> QED
        BY <3>2, <3>3, <3>4
    <2>5. SumFunctionOnSet(cols(C \cup {x}), B) =
              SumFunctionOnSet(F[x], B) + SumFunctionOnSet(cols(C), B)
      <3> HIDE DEF cols
      <3> QED
        BY <2>4, SumAdd
    <2>6. row[x] = SumFunctionOnSet(F[x], B)
      OBVIOUS
    <2> HIDE DEF row, cols
    <2> QED
      BY <1>2, <2>3, <2>5, <2>6
  <1> HIDE DEF S
  <1>3. A \in S
    BY <1>1, <1>2, UpToSet
  <1>4. SumFunctionOnSet(row, A) = SumFunctionOnSet(cols(A), B)
    BY <1>3 DEF S
  <1>5. row = Rows(F, A, B) /\ cols(A) = Columns(F, A, B)
    BY DEF Rows, Columns
  <1> HIDE DEF row, cols
  <1> QED
    BY <1>4, <1>5
-----------------------------------------------------------------------------
(* Counting.                                                               *)
LEMMA FiniteImage ==
  ASSUME NEW D, IsFiniteSet(D), NEW h
  PROVE  IsFiniteSet({h[x] : x \in D})
  <1> DEFINE E == {h[x] : x \in D}
             k == [x \in D |-> h[x]]
  <1>1. k \in Surjection(D, E)
    BY DEF Surjection
  <1> HIDE DEF k, E
  <1>2. IsFiniteSet(E)
    BY <1>1, FS_Surjection
  <1> QED
    BY <1>2 DEF E

(* The elements of D are as many as those with each value of h together.   *)
LEMMA CountByValue ==
  ASSUME NEW D, IsFiniteSet(D), NEW h, NEW U, IsFiniteSet(U)
  PROVE  SumFunctionOnSet([u \in U |-> Cardinality({x \in D : h[x] = u})], U) =
         Cardinality({x \in D : h[x] \in U})
  <1> DEFINE count == [u \in U |-> Cardinality({x \in D : h[x] = u})]
             In(A) == {x \in D : h[x] \in A}
             S == {A \in SUBSET U : SumFunctionOnSet(count, A) = Cardinality(In(A))}
  <1>1. {} \in S
    <2>1. In({}) = {}
      OBVIOUS
    <2> QED
      BY <2>1, SumEmpty, FS_EmptySet
  <1>2. \A u \in U : count[u] \in Nat
    BY FS_Subset, FS_CardinalityType
  <1>3. ASSUME NEW A \in SUBSET U, NEW u \in U \ A, A \in S
        PROVE  A \cup {u} \in S
    <2>1. SumFunctionOnSet(count, A \cup {u}) = count[u] + SumFunctionOnSet(count, A)
      <3> HIDE DEF count
      <3> QED
        BY <1>2, FS_Subset, SumInsert
    <2> DEFINE V == {x \in D : h[x] = u}
    <2>2. IsFiniteSet(V) /\ IsFiniteSet(In(A))
      BY FS_Subset
    <2>3. V \cap In(A) = {} /\ V \cup In(A) = In(A \cup {u})
      OBVIOUS
    <2>4. count[u] = Cardinality(V)
      OBVIOUS
    <2> HIDE DEF V
    <2>5. Cardinality(V \cup In(A)) = Cardinality(V) + Cardinality(In(A)) - Cardinality({})
      BY <2>2, <2>3, FS_Union
    <2>6. Cardinality({}) = 0 /\ Cardinality(V) \in Nat /\ Cardinality(In(A)) \in Nat
      BY <2>2, FS_EmptySet, FS_CardinalityType
    <2>7. A \cup {u} \in SUBSET U
      OBVIOUS
    <2> HIDE DEF In, count
    <2>8. SumFunctionOnSet(count, A) = Cardinality(In(A))
      BY <1>3
    <2>9. Cardinality(In(A \cup {u})) = Cardinality(V) + Cardinality(In(A))
      <3>1. Cardinality(V) + Cardinality(In(A)) - 0 = Cardinality(V) + Cardinality(In(A))
        BY <2>6
      <3> QED
        BY <2>3, <2>5, <2>6, <3>1, Zenon
    <2> QED
      BY <2>1, <2>4, <2>7, <2>8, <2>9
  <1> HIDE DEF S
  <1>4. U \in S
    BY <1>1, <1>3, UpToSet
  <1> QED
    BY <1>4 DEF S
=============================================================================
