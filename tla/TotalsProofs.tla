---------------------------- MODULE TotalsProofs ----------------------------
(***************************************************************************)
(* The laws of Insert and TotalOf, from those of cardinality: what the     *)
(* proofs about every ledger of this project rest on.                      *)
(***************************************************************************)
EXTENDS Totals, FiniteSetTheorems, TLAPS

\* Inserting a typed value under a typed key keeps a map typed.
LEMMA InsertType ==
    ASSUME NEW K, NEW V, NEW map, DOMAIN map \subseteq K,
           map \in [DOMAIN map -> V], NEW k \in K, NEW v \in V
    PROVE  /\ DOMAIN Insert(map, k, v) = DOMAIN map \cup {k}
           /\ DOMAIN Insert(map, k, v) \subseteq K
           /\ Insert(map, k, v) \in [DOMAIN Insert(map, k, v) -> V]
BY DEF Insert

\* A finite set has finitely many units.
LEMMA UnitsFinite ==
    ASSUME NEW S, IsFiniteSet(S), NEW f, NEW bound \in Nat
    PROVE  /\ IsFiniteSet(Units(S, f, bound))
           /\ TotalOf(S, f, bound) \in Nat
<1>1. IsFiniteSet(1..bound)
    BY FS_Interval
<1>2. IsFiniteSet(S \X (1..bound))
    BY <1>1, FS_Product
<1>3. Units(S, f, bound) \in SUBSET (S \X (1..bound))
    BY DEF Units
<1>4. IsFiniteSet(Units(S, f, bound))
    BY <1>2, <1>3, FS_Subset
<1> QED
    BY <1>4, FS_CardinalityType DEF TotalOf

\* An empty sum is zero.
LEMMA TotalEmpty ==
    ASSUME NEW f, NEW bound \in Nat
    PROVE  TotalOf({}, f, bound) = 0
<1>1. Units({}, f, bound) = {}
    BY DEF Units
<1> QED
    BY <1>1, FS_EmptySet DEF TotalOf

\* A sum depends only on the values over its set.
LEMMA TotalSame ==
    ASSUME NEW S, NEW f, NEW g, NEW bound \in Nat, \A x \in S : f[x] = g[x]
    PROVE  TotalOf(S, f, bound) = TotalOf(S, g, bound)
<1>1. Units(S, f, bound) = Units(S, g, bound)
    BY DEF Units
<1> QED
    BY <1>1 DEF TotalOf

\* A sum is monotone in the summed function.
LEMMA TotalMonotone ==
    ASSUME NEW S, IsFiniteSet(S), NEW f, NEW g, NEW bound \in Nat,
           \A x \in S : f[x] \in Nat /\ g[x] \in Nat /\ f[x] <= g[x]
    PROVE  TotalOf(S, f, bound) <= TotalOf(S, g, bound)
<1>1. Units(S, f, bound) \in SUBSET Units(S, g, bound)
    BY DEF Units
<1>2. IsFiniteSet(Units(S, g, bound))
    BY UnitsFinite
<1> QED
    BY <1>1, <1>2, FS_Subset DEF TotalOf

\* The pairs of one element with 1..v are v many.
LEMMA PairsOfOne ==
    ASSUME NEW x, NEW v \in Nat
    PROVE  IsFiniteSet({x} \X (1..v)) /\ Cardinality({x} \X (1..v)) = v
<1>1. IsFiniteSet(1..v) /\ Cardinality(1..v) = v
    <2>1. 1 \in Int /\ v \in Int /\ v - 1 + 1 = v /\ (1 > v => v = 0)
        OBVIOUS
    <2> QED
        BY <2>1, FS_Interval
<1>2. IsFiniteSet({x}) /\ Cardinality({x}) = 1
    BY FS_Singleton
<1>3. /\ IsFiniteSet({x} \X (1..v))
      /\ Cardinality({x} \X (1..v)) = 1 * v
    BY <1>1, <1>2, FS_Product
<1> QED
    BY <1>3

\* The units of one element are as many as its value.
LEMMA UnitsOfOne ==
    ASSUME NEW x, NEW f, NEW bound \in Nat, NEW v \in 0..bound, f[x] = v
    PROVE  /\ IsFiniteSet(Units({x}, f, bound))
           /\ Cardinality(Units({x}, f, bound)) = v
<1>1. Units({x}, f, bound) = {x} \X (1..v)
    <2>1. ASSUME NEW u \in Units({x}, f, bound) PROVE u \in {x} \X (1..v)
        BY <2>1 DEF Units
    <2>2. ASSUME NEW u \in {x} \X (1..v) PROVE u \in Units({x}, f, bound)
        BY <2>2 DEF Units
    <2> QED
        BY <2>1, <2>2
<1>2. v \in Nat
    OBVIOUS
<1>3. IsFiniteSet({x} \X (1..v)) /\ Cardinality({x} \X (1..v)) = v
    BY <1>2, PairsOfOne
<1> QED
    BY <1>1, <1>3, Zenon

\* Two disjoint finite sets count as the sum.
LEMMA DisjointUnion ==
    ASSUME NEW A, IsFiniteSet(A), NEW B, IsFiniteSet(B), A \cap B = {}
    PROVE  Cardinality(A \cup B) = Cardinality(A) + Cardinality(B)
<1>1. Cardinality(A) \in Nat /\ Cardinality(B) \in Nat
    BY FS_CardinalityType
<1>2. Cardinality(A \cap B) = 0
    BY FS_EmptySet
<1>3. Cardinality(A \cup B) = Cardinality(A) + Cardinality(B) - Cardinality(A \cap B)
    BY FS_Union
<1> QED
    BY <1>1, <1>2, <1>3

\* Adding an element adds its value.
LEMMA TotalAdd ==
    ASSUME NEW S, IsFiniteSet(S), NEW x, x \notin S, NEW f, NEW bound \in Nat,
           NEW v \in 0..bound, f[x] = v
    PROVE  TotalOf(S \cup {x}, f, bound) = TotalOf(S, f, bound) + v
<1>1. Units(S \cup {x}, f, bound) = Units(S, f, bound) \cup Units({x}, f, bound)
    BY DEF Units
<1>2. Units(S, f, bound) \cap Units({x}, f, bound) = {}
    BY DEF Units
<1>3. IsFiniteSet(Units(S, f, bound))
    BY UnitsFinite
<1>4. Cardinality(Units(S, f, bound) \cup Units({x}, f, bound))
        = Cardinality(Units(S, f, bound)) + Cardinality(Units({x}, f, bound))
    BY <1>2, <1>3, UnitsOfOne, DisjointUnion
<1> QED
    BY <1>1, <1>4, UnitsOfOne DEF TotalOf

\* A new element adds its value, when the others keep theirs.
LEMMA TotalInserted ==
    ASSUME NEW S, IsFiniteSet(S), NEW x, x \notin S, NEW f, NEW g, NEW bound \in Nat,
           NEW v \in 0..bound, g[x] = v, \A y \in S : f[y] = g[y]
    PROVE  TotalOf(S \cup {x}, g, bound) = TotalOf(S, f, bound) + v
<1>1. TotalOf(S, f, bound) = TotalOf(S, g, bound)
    BY TotalSame
<1> QED
    BY <1>1, TotalAdd

\* Changing the value of one element changes the sum by the difference.
LEMMA TotalUpdate ==
    ASSUME NEW S, IsFiniteSet(S), NEW x \in S, NEW f, NEW g, NEW bound \in Nat,
           NEW v \in 0..bound, NEW w \in 0..bound, f[x] = v, g[x] = w,
           \A y \in S \ {x} : f[y] = g[y]
    PROVE  TotalOf(S, g, bound) = TotalOf(S, f, bound) - v + w
<1> DEFINE R == S \ {x}
<1>1. IsFiniteSet(R) /\ x \notin R /\ S = R \cup {x}
    BY FS_RemoveElement
<1>2. TotalOf(R, f, bound) = TotalOf(R, g, bound) /\ TotalOf(R, f, bound) \in Nat
    BY <1>1, TotalSame, UnitsFinite
<1> HIDE DEF R
<1>3. TotalOf(R \cup {x}, f, bound) = TotalOf(R, f, bound) + v
    BY <1>1, TotalAdd
<1>4. TotalOf(R \cup {x}, g, bound) = TotalOf(R, g, bound) + w
    BY <1>1, TotalAdd
<1> QED
    BY <1>1, <1>2, <1>3, <1>4

\* Induction over the naturals, on the set of numbers that a statement holds for.
LEMMA NatSetInduction ==
    ASSUME NEW P, 0 \in P, \A n \in Nat : n \in P => n + 1 \in P
    PROVE  \A n \in Nat : n \in P
<1> DEFINE T == Nat \ P
<1>1. SUFFICES ASSUME T # {} PROVE FALSE
    OBVIOUS
<1>2. PICK n \in T : \A m \in T : <<m, n>> \notin OpToRel(<, Nat)
    BY <1>1, NatLessThanWellFounded, WFMin
<1>3. n - 1 \in Nat /\ n - 1 + 1 = n /\ n - 1 < n
    OBVIOUS
<1>4. <<n - 1, n>> \in OpToRel(<, Nat)
    BY <1>3 DEF OpToRel
<1> QED
    BY <1>2, <1>3, <1>4
=============================================================================
