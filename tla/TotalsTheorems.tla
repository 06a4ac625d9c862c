--------------------------- MODULE TotalsTheorems ---------------------------
(***************************************************************************)
(* What the proofs about the ledger need to know of a sum of amounts: it   *)
(* is a natural number, it changes by the change of one row, it is         *)
(* monotone, and each row is at most the sum.                              *)
(***************************************************************************)
EXTENDS Totals, FiniteSetTheorems, TLAPS

\* The units of one row are as many as its amount.
LEMMA UnitsOfCount ==
    ASSUME NEW S, NEW f \in [S -> Nat], NEW x \in S
    PROVE  IsFiniteSet(UnitsOf(f, x)) /\ Cardinality(UnitsOf(f, x)) = f[x]
<1>1. IsFiniteSet({x}) /\ Cardinality({x}) = 1
  BY FS_Singleton
<1>2. f[x] \in Nat
  OBVIOUS
<1>3. IsFiniteSet(1 .. f[x]) /\ Cardinality(1 .. f[x]) = f[x]
  BY <1>2, FS_Interval
<1>4. /\ IsFiniteSet({x} \X (1 .. f[x]))
      /\ Cardinality({x} \X (1 .. f[x])) = Cardinality({x}) * Cardinality(1 .. f[x])
  BY <1>1, <1>3, FS_Product
<1>5. Cardinality({x}) * Cardinality(1 .. f[x]) = f[x]
  BY <1>1, <1>2, <1>3
<1> QED
  BY <1>4, <1>5 DEF UnitsOf

\* A unit of a table is a pair of a row and a number up to its amount.
LEMMA UnitsMember ==
    ASSUME NEW S, NEW f \in [S -> Nat]
    PROVE  Units(f) = {u \in S \X Nat : u[2] \in 1 .. f[u[1]]}
<1>1. \A u : u \in Units(f) <=> \E x \in S : u \in {x} \X (1 .. f[x])
  BY DEF Units, UnitsOf
<1>2. ASSUME NEW u, u \in Units(f)
      PROVE  u \in S \X Nat /\ u[2] \in 1 .. f[u[1]]
  <2>1. PICK x \in S : u \in {x} \X (1 .. f[x])
    BY <1>1, <1>2
  <2>2. f[x] \in Nat
    OBVIOUS
  <2> QED
    BY <2>1, <2>2
<1>3. ASSUME NEW u \in S \X Nat, u[2] \in 1 .. f[u[1]]
      PROVE  u \in Units(f)
  <2>1. u[1] \in S /\ u = <<u[1], u[2]>>
    OBVIOUS
  <2>2. u \in {u[1]} \X (1 .. f[u[1]])
    BY <1>3, <2>1
  <2> QED
    BY <1>1, <2>1, <2>2
<1> QED
  BY <1>2, <1>3

\* A finite table has finitely many units: its sum is a natural number.
LEMMA TotalType ==
    ASSUME NEW S, IsFiniteSet(S), NEW f \in [S -> Nat]
    PROVE  IsFiniteSet(Units(f)) /\ Total(f) \in Nat
<1> DEFINE T == {UnitsOf(f, x) : x \in S}
           g == [x \in S |-> UnitsOf(f, x)]
<1>1. g \in Surjection(S, T)
  BY DEF Surjection
<1>2. IsFiniteSet(T)
  BY <1>1, FS_Surjection
<1>3. \A U \in T : IsFiniteSet(U)
  BY UnitsOfCount
<1>4. IsFiniteSet(UNION T)
  <2> HIDE DEF T
  <2> QED
    BY <1>2, <1>3, FS_UNION
<1>5. Units(f) = UNION T
  BY DEF Units
<1> QED
  BY <1>4, <1>5, FS_CardinalityType DEF Total

\* Without the units of one row, the sum is less by its amount.
LEMMA OtherRows ==
    ASSUME NEW S, IsFiniteSet(S), NEW f \in [S -> Nat], NEW x \in S
    PROVE  Cardinality(Units(f) \ UnitsOf(f, x)) = Total(f) - f[x]
<1>1. IsFiniteSet(Units(f))
  BY TotalType
<1>2. Cardinality(Units(f) \ UnitsOf(f, x))
        = Cardinality(Units(f)) - Cardinality(Units(f) \cap UnitsOf(f, x))
  BY <1>1, FS_Difference
<1>3. Units(f) \cap UnitsOf(f, x) = UnitsOf(f, x)
  BY DEF Units
<1>4. Cardinality(UnitsOf(f, x)) = f[x]
  BY UnitsOfCount
<1> QED
  BY <1>2, <1>3, <1>4 DEF Total

\* Changing one row changes the sum by the change of that row.
LEMMA TotalChange ==
    ASSUME NEW S, IsFiniteSet(S), NEW f \in [S -> Nat], NEW g \in [S -> Nat],
           NEW x \in S, \A y \in S \ {x} : g[y] = f[y]
    PROVE  Total(g) = Total(f) - f[x] + g[x]
<1> DEFINE Rest == Units(f) \ UnitsOf(f, x)
<1>1. Rest = Units(g) \ UnitsOf(g, x)
  <2>1. Units(f) = {u \in S \X Nat : u[2] \in 1 .. f[u[1]]}
    BY UnitsMember
  <2>2. Units(g) = {u \in S \X Nat : u[2] \in 1 .. g[u[1]]}
    BY UnitsMember
  <2>3. \A u \in S \X Nat : u \in UnitsOf(f, x) <=> u[1] = x /\ u[2] \in 1 .. f[x]
    BY DEF UnitsOf
  <2>4. \A u \in S \X Nat : u \in UnitsOf(g, x) <=> u[1] = x /\ u[2] \in 1 .. g[x]
    BY DEF UnitsOf
  <2>5. \A u \in S \X Nat : u[1] # x => f[u[1]] = g[u[1]]
    OBVIOUS
  <2>6. \A u \in S \X Nat : u \in Units(f) \ UnitsOf(f, x)
                              <=> u[1] # x /\ u[2] \in 1 .. f[u[1]]
    BY <2>1, <2>3
  <2>7. \A u \in S \X Nat : u \in Units(g) \ UnitsOf(g, x)
                              <=> u[1] # x /\ u[2] \in 1 .. g[u[1]]
    BY <2>2, <2>4
  <2>8. Units(f) \subseteq S \X Nat /\ Units(g) \subseteq S \X Nat
    BY <2>1, <2>2
  <2> QED
    BY <2>5, <2>6, <2>7, <2>8
<1>2. Cardinality(Rest) = Total(f) - f[x]
  BY OtherRows
<1>3. Cardinality(Units(g) \ UnitsOf(g, x)) = Total(g) - g[x]
  BY OtherRows
<1>4. Cardinality(Rest) = Total(g) - g[x]
  BY <1>1, <1>3
<1>5. Total(f) \in Nat /\ Total(g) \in Nat /\ f[x] \in Nat /\ g[x] \in Nat
  BY TotalType
<1> QED
  BY <1>2, <1>4, <1>5

\* A table that is nowhere larger has no larger sum.
LEMMA TotalMonotone ==
    ASSUME NEW S, IsFiniteSet(S), NEW f \in [S -> Nat], NEW g \in [S -> Nat],
           \A y \in S : f[y] <= g[y]
    PROVE  Total(f) <= Total(g)
<1>1. Units(f) = {u \in S \X Nat : u[2] \in 1 .. f[u[1]]}
  BY UnitsMember
<1>2. Units(g) = {u \in S \X Nat : u[2] \in 1 .. g[u[1]]}
  BY UnitsMember
<1>3. ASSUME NEW u \in S \X Nat, u[2] \in 1 .. f[u[1]]
      PROVE  u[2] \in 1 .. g[u[1]]
  <2>1. u[1] \in S /\ u[2] \in Nat
    OBVIOUS
  <2>2. f[u[1]] \in Nat /\ g[u[1]] \in Nat /\ f[u[1]] <= g[u[1]]
    BY <2>1
  <2> QED
    BY <1>3, <2>1, <2>2
<1>4. Units(f) \subseteq Units(g)
  BY <1>1, <1>2, <1>3
<1> QED
  BY <1>4, TotalType, FS_Subset DEF Total

\* The sum of nothing but zeros is zero.
LEMMA TotalOfZeros ==
    ASSUME NEW S, NEW f \in [S -> Nat], \A y \in S : f[y] = 0
    PROVE  Total(f) = 0
<1>1. Units(f) = {u \in S \X Nat : u[2] \in 1 .. f[u[1]]}
  BY UnitsMember
<1>2. \A u \in S \X Nat : f[u[1]] = 0
  OBVIOUS
<1>3. Units(f) = {}
  BY <1>1, <1>2
<1> QED
  BY <1>3, FS_EmptySet DEF Total

\* No row exceeds the sum.
LEMMA RowAtMostTotal ==
    ASSUME NEW S, IsFiniteSet(S), NEW f \in [S -> Nat], NEW x \in S
    PROVE  f[x] <= Total(f)
<1>1. UnitsOf(f, x) \in SUBSET Units(f)
  BY DEF Units
<1>2. Cardinality(UnitsOf(f, x)) <= Cardinality(Units(f))
  BY <1>1, TotalType, FS_Subset
<1> QED
  BY <1>2, UnitsOfCount DEF Total
\* A table whose rows are dealt out to two tables has the sum of their sums.
LEMMA TotalSplit ==
    ASSUME NEW S, IsFiniteSet(S), NEW f \in [S -> Nat], NEW g \in [S -> Nat], NEW h \in [S -> Nat],
           \A y \in S : (g[y] = f[y] /\ h[y] = 0) \/ (g[y] = 0 /\ h[y] = f[y])
    PROVE  Total(f) = Total(g) + Total(h)
<1>1. /\ Units(f) = {u \in S \X Nat : u[2] \in 1 .. f[u[1]]}
      /\ Units(g) = {u \in S \X Nat : u[2] \in 1 .. g[u[1]]}
      /\ Units(h) = {u \in S \X Nat : u[2] \in 1 .. h[u[1]]}
  BY UnitsMember
<1>2. ASSUME NEW u \in S \X Nat
      PROVE  /\ u \in Units(f) <=> u \in Units(g) \/ u \in Units(h)
             /\ ~(u \in Units(g) /\ u \in Units(h))
  <2>1. u[1] \in S
    OBVIOUS
  <2>2. \/ g[u[1]] = f[u[1]] /\ h[u[1]] = 0
        \/ g[u[1]] = 0 /\ h[u[1]] = f[u[1]]
    BY <2>1
  <2>3. 1 .. 0 = {}
    OBVIOUS
  <2> QED
    BY <1>1, <2>2, <2>3
<1>3. Units(f) = Units(g) \cup Units(h) /\ Units(g) \cap Units(h) = {}
  <2>1. /\ \A u \in Units(f) : u \in S \X Nat
        /\ \A u \in Units(g) : u \in S \X Nat
        /\ \A u \in Units(h) : u \in S \X Nat
    BY <1>1
  <2> QED
    BY <1>2, <2>1
<1>4. /\ IsFiniteSet(Units(g)) /\ IsFiniteSet(Units(h))
      /\ Total(g) \in Nat /\ Total(h) \in Nat
  BY TotalType
<1>5. Cardinality(Units(g) \cup Units(h))
        = Cardinality(Units(g)) + Cardinality(Units(h)) - Cardinality(Units(g) \cap Units(h))
  BY <1>4, FS_Union
<1>6. Cardinality(Units(g) \cap Units(h)) = 0
  BY <1>3, FS_EmptySet
<1> QED
  BY <1>3, <1>4, <1>5, <1>6 DEF Total
=============================================================================
