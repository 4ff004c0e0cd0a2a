----------------------------- MODULE TotalsProofs -----------------------------
(***************************************************************************)
(* What a total does when the function changes, and how totals compare.    *)
(***************************************************************************)
EXTENDS Totals, FiniteSetTheorems, FunctionTheorems, TLAPS

LEMMA UnitsOf ==
  ASSUME NEW S, NEW f \in [S -> Nat], NEW u
  PROVE  u \in Units(f) <=> \E x \in S, i \in Nat : u = <<x, i>> /\ 1 <= i /\ i <= f[x]
<1>1. DOMAIN f = S
  OBVIOUS
<1>2. \A x \in S : f[x] \in Nat
  OBVIOUS
<1> QED BY <1>1, <1>2 DEF Units

LEMMA HeapSize ==
  ASSUME NEW x, NEW n \in Nat
  PROVE  IsFiniteSet({x} \X (1..n)) /\ Cardinality({x} \X (1..n)) = n
<1>1. IsFiniteSet({x}) /\ Cardinality({x}) = 1
  BY FS_Singleton
<1>2. IsFiniteSet(1..n) /\ Cardinality(1..n) = n
  BY FS_Interval
<1>3. /\ IsFiniteSet({x} \X (1..n))
      /\ Cardinality({x} \X (1..n)) = Cardinality({x}) * Cardinality(1..n)
  BY <1>1, <1>2, FS_Product, Zenon
<1>4. Cardinality({x} \X (1..n)) = 1 * n
  BY <1>1, <1>2, <1>3, Zenon
<1> QED BY <1>3, <1>4

LEMMA UnitsFinite ==
  ASSUME NEW S, IsFiniteSet(S), NEW f \in [S -> Nat]
  PROVE  IsFiniteSet(Units(f))
<1> DEFINE heap == [x \in S |-> {x} \X (1..f[x])]
           heaps == {{x} \X (1..f[x]) : x \in S}
<1>1. heap \in Surjection(S, heaps)
  BY DEF Surjection
<1>2. IsFiniteSet(heaps)
  BY <1>1, FS_Surjection
<1>3. ASSUME NEW T \in heaps PROVE IsFiniteSet(T)
  <2>1. PICK x \in S : T = {x} \X (1..f[x])
    OBVIOUS
  <2> QED BY <2>1, HeapSize
<1>4. Units(f) = UNION heaps
  BY DEF Units
<1> QED BY <1>2, <1>3, <1>4, FS_UNION

\* A total of finitely many naturals is a natural.
THEOREM TotalType ==
  ASSUME NEW S, IsFiniteSet(S), NEW f \in [S -> Nat]
  PROVE  Total(f) \in Nat
BY UnitsFinite, FS_CardinalityType DEF Total

\* The total of nothing.
THEOREM TotalZero ==
  ASSUME NEW S, NEW f \in [S -> Nat], \A x \in S : f[x] = 0
  PROVE  Total(f) = 0
<1>1. \A u : u \notin Units(f)
  BY UnitsOf
<1> QED BY <1>1, FS_EmptySet DEF Total

\* The units of all but one argument, and those of that one.
LEMMA UnitsSplit ==
  ASSUME NEW S, IsFiniteSet(S), NEW f \in [S -> Nat], NEW x \in S
  PROVE  LET rest == {u \in Units(f) : u[1] # x}
         IN IsFiniteSet(rest) /\ Cardinality(rest) \in Nat
            /\ Total(f) = Cardinality(rest) + f[x]
<1> DEFINE rest == {u \in Units(f) : u[1] # x}
           own == {x} \X (1..f[x])
<1>1. IsFiniteSet(own) /\ Cardinality(own) = f[x]
  BY HeapSize
<1>2. IsFiniteSet(rest) /\ Cardinality(rest) \in Nat
  BY UnitsFinite, FS_Subset, FS_CardinalityType
<1>3. Units(f) = rest \cup own
  <2>1. ASSUME NEW u \in Units(f) PROVE u \in rest \cup own
    BY UnitsOf
  <2>2. ASSUME NEW u \in own PROVE u \in Units(f)
    BY UnitsOf
  <2> QED BY <2>1, <2>2
<1>4. rest \cap own = {}
  OBVIOUS
<1>5. Cardinality(rest \cap own) = 0
  BY <1>4, FS_EmptySet
<1> HIDE DEF rest, own
<1>6. Cardinality(rest \cup own)
        = Cardinality(rest) + Cardinality(own) - Cardinality(rest \cap own)
  BY <1>1, <1>2, FS_Union, Zenon
<1>7. Total(f) = Cardinality(rest) + f[x]
  BY <1>1, <1>2, <1>3, <1>5, <1>6 DEF Total
<1> QED BY <1>2, <1>7 DEF rest

\* Changing one value changes the total by as much.
THEOREM TotalPut ==
  ASSUME NEW S, IsFiniteSet(S), NEW f \in [S -> Nat], NEW x \in S, NEW n \in Nat
  PROVE  Total([f EXCEPT ![x] = n]) = Total(f) - f[x] + n
<1> DEFINE g == [f EXCEPT ![x] = n]
           rest(h) == {u \in Units(h) : u[1] # x}
<1>1. g \in [S -> Nat] /\ g[x] = n /\ \A y \in S : y # x => g[y] = f[y]
  OBVIOUS
<1> HIDE DEF g
<1>2. rest(g) = rest(f)
  <2>1. \A u : u \in rest(g) <=> u \in rest(f)
    BY <1>1, UnitsOf
  <2> QED BY <2>1
<1>3. Total(f) = Cardinality(rest(f)) + f[x] /\ Cardinality(rest(f)) \in Nat
  BY UnitsSplit
<1>4. Total(g) = Cardinality(rest(g)) + g[x]
  BY <1>1, UnitsSplit
<1> HIDE DEF rest
<1>5. Total(g) = Total(f) - f[x] + n
  BY <1>1, <1>2, <1>3, <1>4
<1> QED BY <1>5 DEF g

\* A total is at least each of the values.
THEOREM TotalMember ==
  ASSUME NEW S, IsFiniteSet(S), NEW f \in [S -> Nat], NEW x \in S
  PROVE  f[x] <= Total(f)
<1>1. PICK c \in Nat : Total(f) = c + f[x]
  BY UnitsSplit, Zenon
<1>2. f[x] \in Nat
  OBVIOUS
<1> QED BY <1>1, <1>2

\* A total of values that are at most others is at most their total.
THEOREM TotalLeq ==
  ASSUME NEW S, IsFiniteSet(S), NEW f \in [S -> Nat], NEW g \in [S -> Nat],
         \A x \in S : f[x] <= g[x]
  PROVE  Total(f) <= Total(g)
<1>1. \A u : u \in Units(f) => u \in Units(g)
  BY UnitsOf
<1> QED BY <1>1, UnitsFinite, FS_Subset DEF Total

\* A further argument adds its value.
THEOREM TotalGrow ==
  ASSUME NEW S, IsFiniteSet(S), NEW y, y \notin S,
         NEW f \in [S -> Nat], NEW g \in [S \cup {y} -> Nat], \A x \in S : g[x] = f[x]
  PROVE  Total(g) = Total(f) + g[y]
<1> DEFINE rest == {u \in Units(g) : u[1] # y}
<1>1. IsFiniteSet(S \cup {y})
  BY FS_AddElement
<1>2. Total(g) = Cardinality(rest) + g[y]
  BY <1>1, UnitsSplit
<1>3. rest = Units(f)
  <2>1. \A u : u \in rest <=> u \in Units(f)
    BY UnitsOf
  <2> QED BY <2>1
<1> QED BY <1>2, <1>3 DEF Total

\* The total of two functions with nothing in common is the sum of theirs.
THEOREM TotalPlus ==
  ASSUME NEW S, IsFiniteSet(S), NEW f \in [S -> Nat], NEW g \in [S -> Nat],
         NEW h \in [S -> Nat],
         \A x \in S : (f[x] = 0 /\ h[x] = g[x]) \/ (g[x] = 0 /\ h[x] = f[x])
  PROVE  Total(h) = Total(f) + Total(g)
<1>1. Units(h) = Units(f) \cup Units(g)
  <2>1. \A u : u \in Units(h) <=> u \in Units(f) \/ u \in Units(g)
    BY UnitsOf
  <2> QED BY <2>1
<1>2. Units(f) \cap Units(g) = {}
  <2>1. \A u : ~(u \in Units(f) /\ u \in Units(g))
    BY UnitsOf
  <2> QED BY <2>1
<1>3. Cardinality(Units(f) \cap Units(g)) = 0
  BY <1>2, FS_EmptySet
<1>4. IsFiniteSet(Units(f)) /\ IsFiniteSet(Units(g))
  BY UnitsFinite
<1>5. Cardinality(Units(f) \cup Units(g))
        = Cardinality(Units(f)) + Cardinality(Units(g)) - Cardinality(Units(f) \cap Units(g))
  BY <1>4, FS_Union, Zenon
<1>6. Cardinality(Units(f)) \in Nat /\ Cardinality(Units(g)) \in Nat
  BY <1>4, FS_CardinalityType
<1> QED BY <1>1, <1>3, <1>5, <1>6 DEF Total

=============================================================================
