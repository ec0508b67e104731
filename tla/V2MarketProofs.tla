--------------------------- MODULE V2MarketProofs ---------------------------
(***************************************************************************)
(* Machine-checked theorems about the V2 market (CallAuction, V2Market)    *)
(* and its experiment (V2Experiment), for every population, endowment,     *)
(* number of rounds and order: the auction's volume is maximal, its fills  *)
(* are fair, and settlement conserves money and shares and fails only for  *)
(* want of facility cash, which a cell never wants; the loop a cell writes *)
(* out is a run of the market's.                                           *)
(* The theorems about the endpoint study stand at the end of this module:  *)
(* they use its lemmas about parts and sums of finite sets.                *)
(***************************************************************************)
EXTENDS V2Market, V2Experiment, EndpointStudy, FiniteSetTheorems, TLAPS

-----------------------------------------------------------------------------
(* Induction over the parts of a finite set, as a set of those it holds for *)

LEMMA PartsInduction ==
    ASSUME NEW S, IsFiniteSet(S), NEW P,
           \A T \in SUBSET S : (\A U \in (SUBSET T) \ {T} : U \in P) => T \in P
    PROVE  S \in P
<1> DEFINE R == StrictSubsetOrdering(S)
           Bad == (SUBSET S) \ P
<1>1. IsWellFoundedOn(R, SUBSET S)
  BY FS_StrictSubsetOrderingWellFounded, FS_FiniteSubsetsOfFinite
<1>2. SUFFICES ASSUME Bad # {} PROVE FALSE
  OBVIOUS
<1>3. \E T \in Bad : \A U \in Bad : ~(<<U, T>> \in R)
  <2>1. Bad \subseteq SUBSET S
    OBVIOUS
  <2> HIDE DEF Bad, R
  <2> QED
    BY <1>1, <1>2, <2>1, WFMin
<1>4. PICK T \in Bad : \A U \in Bad : ~(<<U, T>> \in R)
  BY <1>3
<1>5. \A U \in (SUBSET T) \ {T} : U \in P
  <2> SUFFICES ASSUME NEW U \in (SUBSET T) \ {T}, U \notin P PROVE FALSE
    OBVIOUS
  <2>1. U \in Bad /\ <<U, T>> \in R
    BY DEF StrictSubsetOrdering
  <2> QED
    BY <1>4, <2>1
<1> QED
  BY <1>4, <1>5

LEMMA OneByOne ==
    ASSUME NEW S, IsFiniteSet(S), NEW P, {} \in P,
           \A T \in SUBSET S : \A x \in S \ T : T \in P => T \union {x} \in P
    PROVE  S \in P
<1>1. ASSUME NEW T \in SUBSET S, \A U \in (SUBSET T) \ {T} : U \in P
      PROVE  T \in P
  <2>1. CASE T = {}
    BY <2>1
  <2>2. CASE T # {}
    <3>1. PICK x \in T : TRUE
      BY <2>2
    <3>2. T \ {x} \in P /\ x \in S \ (T \ {x}) /\ T \ {x} \in SUBSET S
      BY <1>1, <3>1
    <3>3. (T \ {x}) \union {x} = T
      BY <3>1
    <3>4. (T \ {x}) \union {x} \in P
      BY <3>2
    <3> QED
      BY <3>3, <3>4
  <2> QED
    BY <2>1, <2>2
<1> QED
  BY <1>1, PartsInduction

-----------------------------------------------------------------------------
(* Sums                                                                     *)

(* A sum of natural numbers counts units.                                   *)
Units(S, g) == {u \in S \X (Nat \ {0}) : u[2] <= g[u[1]]}
Total(S, g) == Cardinality(Units(S, g))

Counted(S, g) == IsFiniteSet(S) /\ \A x \in S : g[x] \in Nat

Rod(x, n) == {x} \X (1..n)

LEMMA RodLength ==
    ASSUME NEW x, NEW n \in Nat
    PROVE  IsFiniteSet(Rod(x, n)) /\ Cardinality(Rod(x, n)) = n
<1> DEFINE A == {x}
           B == 1..n
<1>1. IsFiniteSet(B) /\ Cardinality(B) = n
  BY FS_Interval
<1>2. IsFiniteSet(A) /\ Cardinality(A) = 1
  BY FS_Singleton
<1>3. Rod(x, n) = A \X B
  BY DEF Rod
<1> HIDE DEF A, B
<1>4. IsFiniteSet(A \X B) /\ Cardinality(A \X B) = 1 * n
  BY <1>1, <1>2, FS_Product
<1> QED
  BY <1>3, <1>4

LEMMA UnitsOfOne ==
    ASSUME NEW T, NEW x, NEW g, g[x] \in Nat
    PROVE  Units(T \union {x}, g) = Units(T, g) \union Rod(x, g[x])
<1>1. 1..g[x] = {i \in Nat \ {0} : i <= g[x]}
  OBVIOUS
<1> HIDE DEF Units
<1>2. ASSUME NEW u PROVE u \in Units(T \union {x}, g) <=> u \in Units(T, g) \union Rod(x, g[x])
  BY <1>1 DEF Units, Rod
<1> QED
  BY <1>2

LEMMA UnitsFinite ==
    ASSUME NEW S, NEW g, Counted(S, g)
    PROVE  IsFiniteSet(Units(S, g)) /\ Total(S, g) \in Nat
<1> DEFINE P == {T \in SUBSET S : IsFiniteSet(Units(T, g))}
<1>1. {} \in P
  <2>1. Units({}, g) = {}
    BY DEF Units
  <2> QED
    BY <2>1, FS_EmptySet
<1>2. ASSUME NEW T \in SUBSET S, NEW x \in S \ T, T \in P PROVE T \union {x} \in P
  <2>1. g[x] \in Nat
    BY DEF Counted
  <2>2. IsFiniteSet(Rod(x, g[x]))
    BY <2>1, RodLength
  <2>3. IsFiniteSet(Units(T, g))
    BY <1>2
  <2>4. IsFiniteSet(Units(T, g) \union Rod(x, g[x]))
    BY <2>2, <2>3, FS_Union
  <2> QED
    BY <2>1, <2>4, UnitsOfOne
<1>3. S \in P
  <2> HIDE DEF P
  <2> QED
    BY <1>1, <1>2, OneByOne DEF Counted
<1> QED
  BY <1>3, FS_CardinalityType DEF Total

LEMMA TotalOfNone ==
    ASSUME NEW g
    PROVE  Total({}, g) = 0
<1>1. Units({}, g) = {}
  BY DEF Units
<1> QED
  BY <1>1, FS_EmptySet DEF Total

LEMMA TotalOfOneMore ==
    ASSUME NEW T, NEW x, x \notin T, NEW g, Counted(T, g), g[x] \in Nat
    PROVE  Total(T \union {x}, g) = Total(T, g) + g[x]
<1> DEFINE A == Units(T, g)
           B == Rod(x, g[x])
<1>1. IsFiniteSet(A) /\ Cardinality(A) \in Nat
  BY UnitsFinite DEF Total
<1>2. IsFiniteSet(B) /\ Cardinality(B) = g[x]
  BY RodLength
<1>3. A \intersect B = {}
  BY DEF Units, Rod
<1>4. Cardinality(A \union B) = Cardinality(A) + Cardinality(B)
  <2> HIDE DEF A, B
  <2>1. Cardinality(A \union B) = Cardinality(A) + Cardinality(B) - Cardinality(A \cap B)
    BY <1>1, <1>2, FS_Union
  <2> QED
    BY <1>1, <1>2, <1>3, <2>1, FS_EmptySet
<1>5. Units(T \union {x}, g) = A \union B /\ Total(T, g) = Cardinality(A)
  BY UnitsOfOne DEF Total
<1> HIDE DEF A, B
<1> QED
  BY <1>2, <1>4, <1>5 DEF Total

LEMMA CountedParts ==
    ASSUME NEW S, NEW g, Counted(S, g), NEW T \in SUBSET S
    PROVE  Counted(T, g) /\ Total(T, g) \in Nat /\ Total(T, g) <= Total(S, g)
           /\ Total(S, g) \in Nat
<1>1. Counted(T, g)
  BY FS_Subset DEF Counted
<1>2. Units(T, g) \in SUBSET Units(S, g)
  BY DEF Units
<1> QED
  BY <1>1, <1>2, UnitsFinite, FS_Subset DEF Total

(* Only the values count.                                                    *)
LEMMA TotalSame ==
    ASSUME NEW S, NEW f, NEW g, \A x \in S : f[x] = g[x]
    PROVE  Total(S, f) = Total(S, g)
<1>1. Units(S, f) = Units(S, g)
  BY DEF Units
<1> QED
  BY <1>1 DEF Total

LEMMA TotalMonotone ==
    ASSUME NEW S, NEW f, NEW g, Counted(S, f), Counted(S, g), \A x \in S : f[x] <= g[x]
    PROVE  Total(S, f) <= Total(S, g)
<1>1. Units(S, f) \in SUBSET Units(S, g)
  BY DEF Units, Counted
<1> QED
  BY <1>1, UnitsFinite, FS_Subset DEF Total

LEMMA TotalAdd ==
    ASSUME NEW S, NEW f, NEW g, NEW h, Counted(S, f), Counted(S, g),
           \A x \in S : h[x] = f[x] + g[x]
    PROVE  Total(S, h) = Total(S, f) + Total(S, g)
<1> DEFINE P == {T \in SUBSET S : Total(T, h) = Total(T, f) + Total(T, g)}
<1>1. {} \in P
  BY TotalOfNone
<1>2. ASSUME NEW T \in SUBSET S, NEW x \in S \ T, T \in P PROVE T \union {x} \in P
  <2>1. Counted(T, f) /\ Counted(T, g) /\ f[x] \in Nat /\ g[x] \in Nat
    BY CountedParts DEF Counted
  <2>2. Counted(T, h) /\ h[x] \in Nat
    BY <2>1 DEF Counted
  <2>3. /\ Total(T \union {x}, f) = Total(T, f) + f[x]
        /\ Total(T \union {x}, g) = Total(T, g) + g[x]
        /\ Total(T \union {x}, h) = Total(T, h) + h[x]
    BY <2>1, <2>2, TotalOfOneMore
  <2>4. Total(T, f) \in Nat /\ Total(T, g) \in Nat /\ Total(T, h) \in Nat
    BY <2>1, <2>2, CountedParts
  <2>5. Total(T, h) = Total(T, f) + Total(T, g) /\ h[x] = f[x] + g[x]
    BY <1>2
  <2> QED
    BY <2>1, <2>2, <2>3, <2>4, <2>5
<1>3. S \in P
  <2> HIDE DEF P
  <2> QED
    BY <1>1, <1>2, OneByOne DEF Counted
<1> QED
  BY <1>3

LEMMA TotalScale ==
    ASSUME NEW S, NEW g, NEW h, NEW c \in Nat, Counted(S, g), \A x \in S : h[x] = c * g[x]
    PROVE  Total(S, h) = c * Total(S, g)
<1> DEFINE P == {T \in SUBSET S : Total(T, h) = c * Total(T, g)}
<1>1. {} \in P
  BY TotalOfNone
<1>2. ASSUME NEW T \in SUBSET S, NEW x \in S \ T, T \in P PROVE T \union {x} \in P
  <2>1. Counted(T, g) /\ g[x] \in Nat /\ Total(T, g) \in Nat
    BY CountedParts DEF Counted
  <2>2. Counted(T, h) /\ h[x] \in Nat
    BY <2>1 DEF Counted
  <2>3. /\ Total(T \union {x}, g) = Total(T, g) + g[x]
        /\ Total(T \union {x}, h) = Total(T, h) + h[x]
    BY <2>1, <2>2, TotalOfOneMore
  <2>5. Total(T, h) = c * Total(T, g) /\ h[x] = c * g[x]
    BY <1>2
  <2>6. c * (Total(T, g) + g[x]) = c * Total(T, g) + c * g[x]
    BY <2>1
  <2> QED
    BY <2>3, <2>5, <2>6
<1>3. S \in P
  <2> HIDE DEF P
  <2> QED
    BY <1>1, <1>2, OneByOne DEF Counted
<1> QED
  BY <1>3

LEMMA TotalOfOnes ==
    ASSUME NEW S, IsFiniteSet(S), NEW A \in SUBSET S, NEW g,
           \A x \in S : g[x] = IF x \in A THEN 1 ELSE 0
    PROVE  Total(S, g) = Cardinality(A)
<1> DEFINE P == {T \in SUBSET S : Total(T, g) = Cardinality(T \intersect A)}
<1>1. {} \in P
  <2>1. {} \intersect A = {}
    OBVIOUS
  <2> QED
    BY <2>1, TotalOfNone, FS_EmptySet
<1>2. ASSUME NEW T \in SUBSET S, NEW x \in S \ T, T \in P PROVE T \union {x} \in P
  <2>1. Counted(T, g) /\ g[x] \in Nat
    BY FS_Subset DEF Counted
  <2>2. Total(T \union {x}, g) = Total(T, g) + g[x]
    BY <2>1, TotalOfOneMore
  <2>3. IsFiniteSet(T \intersect A) /\ Cardinality(T \intersect A) \in Nat
    BY <2>1, FS_Subset, FS_CardinalityType DEF Counted
  <2>4. CASE x \in A
    <3>1. (T \union {x}) \intersect A = (T \intersect A) \union {x} /\ x \notin T \intersect A
      BY <2>4
    <3>2. Cardinality((T \union {x}) \intersect A) = Cardinality(T \intersect A) + 1
      BY <2>3, <3>1, FS_AddElement
    <3> QED
      BY <1>2, <2>2, <2>4, <3>2
  <2>5. CASE x \notin A
    <3>1. (T \union {x}) \intersect A = T \intersect A
      BY <2>5
    <3> QED
      BY <1>2, <2>2, <2>3, <2>5, <3>1
  <2> QED
    BY <2>4, <2>5
<1>3. S \in P
  <2> HIDE DEF P
  <2> QED
    BY <1>1, <1>2, OneByOne
<1>4. S \intersect A = A
  OBVIOUS
<1> QED
  BY <1>3, <1>4

(* What is nothing does not count.                                           *)
LEMMA TotalOfPositive ==
    ASSUME NEW S, NEW g, \A x \in S : g[x] \in Nat
    PROVE  Total({x \in S : g[x] > 0}, g) = Total(S, g)
<1>1. Units({x \in S : g[x] > 0}, g) = Units(S, g)
  BY DEF Units
<1> QED
  BY <1>1 DEF Total

LEMMA TotalOfOne ==
    ASSUME NEW x, NEW g, g[x] \in Nat
    PROVE  Total({x}, g) = g[x]
<1>1. {x} = {} \union {x} /\ x \notin {} /\ Counted({}, g)
  BY FS_EmptySet DEF Counted
<1>2. Total({} \union {x}, g) = Total({}, g) + g[x]
  BY <1>1, TotalOfOneMore
<1> QED
  BY <1>1, <1>2, TotalOfNone

LEMMA PartOfTotal ==
    ASSUME NEW S, NEW g, Counted(S, g), NEW x \in S
    PROVE  g[x] <= Total(S, g) /\ g[x] \in Nat
<1>1. {x} \in SUBSET S /\ g[x] \in Nat
  BY DEF Counted
<1> QED
  BY <1>1, CountedParts, TotalOfOne

LEMMA TotalOfUnion ==
    ASSUME NEW A, NEW B, NEW g, Counted(A, g), Counted(B, g), A \intersect B = {}
    PROVE  Total(A \union B, g) = Total(A, g) + Total(B, g)
<1> DEFINE U == Units(A, g)
           V == Units(B, g)
<1>1. IsFiniteSet(U) /\ IsFiniteSet(V) /\ Cardinality(U) \in Nat /\ Cardinality(V) \in Nat
  BY UnitsFinite DEF Total
<1>2. U \intersect V = {} /\ Units(A \union B, g) = U \union V
  BY DEF Units
<1>3. Total(A, g) = Cardinality(U) /\ Total(B, g) = Cardinality(V)
      /\ Total(A \union B, g) = Cardinality(U \union V)
  BY <1>2 DEF Total
<1> HIDE DEF U, V
<1>4. Cardinality(U \union V) = Cardinality(U) + Cardinality(V) - Cardinality(U \intersect V)
  BY <1>1, FS_Union
<1>5. U \intersect V = {} /\ Units(A \union B, g) = U \union V
  BY <1>2 DEF U, V
<1>6. Cardinality(U \intersect V) = 0
  BY <1>5, FS_EmptySet
<1> QED
  BY <1>1, <1>3, <1>4, <1>6

(* The same values under other names.                                        *)
LEMMA TotalMoved ==
    ASSUME NEW S, IsFiniteSet(S), NEW m, \A x, y \in S : m[x] = m[y] => x = y,
           NEW f, NEW g, \A x \in S : f[x] \in Nat /\ g[m[x]] = f[x]
    PROVE  /\ IsFiniteSet({m[x] : x \in S})
           /\ Total({m[x] : x \in S}, g) = Total(S, f)
<1> DEFINE I(T) == {m[x] : x \in T}
           P == {T \in SUBSET S : IsFiniteSet(I(T)) /\ Total(I(T), g) = Total(T, f)}
<1>1. {} \in P
  <2>1. I({}) = {}
    OBVIOUS
  <2> QED
    BY <2>1, TotalOfNone, FS_EmptySet
<1>2. ASSUME NEW T \in SUBSET S, NEW x \in S \ T, T \in P PROVE T \union {x} \in P
  <2>1. I(T \union {x}) = I(T) \union {m[x]} /\ m[x] \notin I(T)
    OBVIOUS
  <2>2. Counted(T, f) /\ f[x] \in Nat /\ g[m[x]] = f[x]
    BY FS_Subset DEF Counted
  <2>3. Counted(I(T), g)
    BY <1>2 DEF Counted
  <2>4. Total(T \union {x}, f) = Total(T, f) + f[x]
    BY <2>2, TotalOfOneMore
  <2>5. IsFiniteSet(I(T)) /\ Total(I(T), g) = Total(T, f)
    BY <1>2
  <2> DEFINE J == I(T)
  <2>6. Total(J \union {m[x]}, g) = Total(J, g) + g[m[x]]
    <3> HIDE DEF J
    <3>1. PICK y : y = m[x]
      OBVIOUS
    <3>2. y \notin J /\ Counted(J, g) /\ g[y] \in Nat
      BY <2>1, <2>2, <2>3, <3>1 DEF J
    <3>3. Total(J \union {y}, g) = Total(J, g) + g[y]
      BY <3>2, TotalOfOneMore
    <3> QED
      BY <3>1, <3>3
  <2>7. IsFiniteSet(J \union {m[x]})
    BY <2>5, FS_AddElement
  <2> QED
    BY <2>1, <2>2, <2>4, <2>5, <2>6, <2>7
<1>3. S \in P
  <2> HIDE DEF P
  <2> QED
    BY <1>1, <1>2, OneByOne
<1> QED
  BY <1>3

(* A sum, gathered by keys.                                                  *)
LEMMA TotalByKey ==
    ASSUME NEW S, NEW g, Counted(S, g), NEW A, IsFiniteSet(A), NEW k,
           \A x \in S : k[x] \in A, NEW h,
           \A a \in A : h[a] = Total({x \in S : k[x] = a}, g)
    PROVE  Total(A, h) = Total(S, g)
<1> DEFINE Of(B) == {x \in S : k[x] \in B}
           P == {B \in SUBSET A : Total(B, h) = Total(Of(B), g)}
<1>0. \A B \in SUBSET A : Of(B) \in SUBSET S /\ Counted(Of(B), g)
  <2> SUFFICES ASSUME NEW B \in SUBSET A PROVE Of(B) \in SUBSET S /\ Counted(Of(B), g)
    OBVIOUS
  <2>1. Of(B) \in SUBSET S
    OBVIOUS
  <2> HIDE DEF Of
  <2> QED
    BY <2>1, CountedParts
<1>1. {} \in P
  <2>1. Of({}) = {}
    OBVIOUS
  <2> QED
    BY <2>1, TotalOfNone
<1>2. ASSUME NEW B \in SUBSET A, NEW a \in A \ B, B \in P PROVE B \union {a} \in P
  <2> DEFINE C == {x \in S : k[x] = a}
             D == Of(B)
  <2>1. Of(B \union {a}) = D \union C /\ D \intersect C = {}
    OBVIOUS
  <2>2. C \in SUBSET S /\ D \in SUBSET S /\ h[a] = Total(C, g)
    OBVIOUS
  <2>3. \A b \in A : h[b] \in Nat
    <3> SUFFICES ASSUME NEW b \in A PROVE h[b] \in Nat
      OBVIOUS
    <3> DEFINE E == {x \in S : k[x] = b}
    <3>1. h[b] = Total(E, g) /\ E \in SUBSET S
      OBVIOUS
    <3> HIDE DEF E
    <3> QED
      BY <3>1, CountedParts
  <2>4. Total(B, h) = Total(D, g)
    BY <1>2
  <2> HIDE DEF C, D, Of
  <2>5. Counted(C, g) /\ Counted(D, g)
    BY <2>2, CountedParts
  <2>6. Total(D \union C, g) = Total(D, g) + Total(C, g)
    BY <2>1, <2>5, TotalOfUnion
  <2>7. Counted(B, h)
    BY <2>3, FS_Subset DEF Counted
  <2>8. Total(B \union {a}, h) = Total(B, h) + h[a]
    BY <2>3, <2>7, TotalOfOneMore
  <2> QED
    BY <2>1, <2>2, <2>4, <2>6, <2>8
<1>3. A \in P
  <2> HIDE DEF P
  <2> QED
    BY <1>1, <1>2, OneByOne
<1>4. Of(A) = S
  OBVIOUS
<1> QED
  BY <1>3, <1>4

(* The folds of the model are such sums: they take the elements one by one,  *)
(* in an order that does not matter.                                         *)
Adds(S, g, it) ==
    it = [s \in SUBSET S |-> IF s = {} THEN 0
                             ELSE g[CHOOSE x \in s : TRUE] + it[s \ {CHOOSE x \in s : TRUE}]]

LEMMA FoldExists ==
    ASSUME NEW S, NEW g, Counted(S, g)
    PROVE  \E it : Adds(S, g, it)
<1> DEFINE it == [s \in SUBSET S |-> Total(s, g)]
           body(s) == IF s = {} THEN 0
                      ELSE g[CHOOSE x \in s : TRUE] + it[s \ {CHOOSE x \in s : TRUE}]
<1>1. ASSUME NEW s \in SUBSET S PROVE it[s] = body(s)
  <2>1. CASE s = {}
    BY <2>1, TotalOfNone
  <2>2. CASE s # {}
    <3>1. PICK x : x = (CHOOSE y \in s : TRUE) /\ x \in s
      BY <2>2
    <3> DEFINE t == s \ {x}
    <3>2. t \in SUBSET S /\ x \notin t /\ s = t \union {x} /\ x \in S
      BY <3>1
    <3> HIDE DEF t
    <3>3. Counted(t, g) /\ g[x] \in Nat /\ Total(t, g) \in Nat
      BY <3>2, CountedParts DEF Counted
    <3>4. Total(t \union {x}, g) = Total(t, g) + g[x]
      BY <3>2, <3>3, TotalOfOneMore
    <3>5. it[s] = g[x] + it[t]
      BY <3>2, <3>3, <3>4
    <3> QED
      BY <2>2, <3>1, <3>5 DEF t
  <2> QED
    BY <2>1, <2>2
<1>2. it = [s \in SUBSET S |-> it[s]]
  OBVIOUS
<1> HIDE DEF it
<1>3. it = [s \in SUBSET S |-> body(s)]
  <2> HIDE DEF body
  <2> QED
    BY <1>1, <1>2
<1>4. Adds(S, g, it)
  BY <1>3 DEF Adds
<1> QED
  BY <1>4

LEMMA FoldIsTotal ==
    ASSUME NEW S, NEW g, Counted(S, g), NEW it, Adds(S, g, it)
    PROVE  it[S] = Total(S, g)
<1> DEFINE P == {s \in SUBSET S : it[s] = Total(s, g)}
<1>1. ASSUME NEW s \in SUBSET S, \A u \in (SUBSET s) \ {s} : u \in P
      PROVE  s \in P
  <2>1. CASE s = {}
    BY <2>1, TotalOfNone DEF Adds
  <2>2. CASE s # {}
    <3>1. PICK x : x = (CHOOSE y \in s : TRUE) /\ x \in s
      BY <2>2
    <3> DEFINE t == s \ {x}
    <3>2. t \in SUBSET S /\ x \notin t /\ s = t \union {x} /\ x \in S /\ t \in P
      BY <1>1, <3>1
    <3>5. it[s] = g[x] + it[t]
      BY <2>2, <3>1 DEF Adds
    <3>6. it[t] = Total(t, g)
      BY <3>2
    <3> HIDE DEF t
    <3>3. Counted(t, g) /\ g[x] \in Nat /\ Total(t, g) \in Nat
      BY <3>2, CountedParts DEF Counted
    <3>4. Total(t \union {x}, g) = Total(t, g) + g[x]
      BY <3>2, <3>3, TotalOfOneMore
    <3> QED
      BY <3>2, <3>3, <3>4, <3>5, <3>6
  <2> QED
    BY <2>1, <2>2
<1>2. S \in P
  <2> HIDE DEF P
  <2> QED
    BY <1>1, PartsInduction DEF Counted
<1> QED
  BY <1>2

SharesFold(S, it) ==
    it = [s \in SUBSET S |->
            IF s = {} THEN 0
            ELSE (CHOOSE x \in s : TRUE).quantity + it[s \ {CHOOSE x \in s : TRUE}]]

Amounts(S) == [o \in S |-> o.quantity]

LEMMA SharesTotal ==
    ASSUME NEW S, IsFiniteSet(S), \A o \in S : o.quantity \in Nat
    PROVE  /\ Counted(S, Amounts(S))
           /\ Shares(S) = Total(S, Amounts(S))
<1> DEFINE g == Amounts(S)
<1>1. Counted(S, g)
  BY DEF Counted, Amounts
<1>2. ASSUME NEW it PROVE SharesFold(S, it) <=> Adds(S, g, it)
  <2>1. ASSUME NEW s \in SUBSET S, s # {}
        PROVE  g[CHOOSE x \in s : TRUE] = (CHOOSE x \in s : TRUE).quantity
    BY <2>1 DEF Amounts
  <2> HIDE DEF g
  <2> QED
    BY <2>1 DEF SharesFold, Adds
<1> HIDE DEF g
<1>3. \E it : SharesFold(S, it)
  BY <1>1, <1>2, FoldExists
<1> DEFINE it == CHOOSE it : SharesFold(S, it)
<1>4. SharesFold(S, it)
  BY <1>3
<1>5. Shares(S) = it[S]
  BY DEF Shares, MapThenSumSet, MapThenFoldSet, SharesFold
<1> HIDE DEF it
<1>6. it[S] = Total(S, g)
  BY <1>1, <1>2, <1>4, FoldIsTotal
<1> QED
  BY <1>1, <1>5, <1>6 DEF g

LEMMA SumTotal ==
    ASSUME NEW f, Counted(Agents, f)
    PROVE  Sum(f) = Total(Agents, f)
<1>3. \E it : Adds(Agents, f, it)
  BY FoldExists
<1> DEFINE it == CHOOSE it : Adds(Agents, f, it)
<1>4. Adds(Agents, f, it)
  BY <1>3
<1>5. Sum(f) = it[Agents]
  BY DEF Sum, MapThenSumSet, MapThenFoldSet, Adds
<1> HIDE DEF it
<1>6. it[Agents] = Total(Agents, f)
  BY <1>4, FoldIsTotal
<1> QED
  BY <1>5, <1>6

ValueFold(S, it) ==
    it = [s \in SUBSET S |->
            IF s = {} THEN 0
            ELSE (CHOOSE x \in s : TRUE).quantity * (CHOOSE x \in s : TRUE).price
                   + it[s \ {CHOOSE x \in s : TRUE}]]

Worths(S) == [f \in S |-> f.quantity * f.price]

LEMMA ValueTotal ==
    ASSUME NEW S, IsFiniteSet(S), \A f \in S : f.quantity \in Nat /\ f.price \in Nat
    PROVE  /\ Counted(S, Worths(S))
           /\ Value(S) = Total(S, Worths(S))
<1> DEFINE g == Worths(S)
<1>1. Counted(S, g)
  BY DEF Counted, Worths
<1>2. ASSUME NEW it PROVE ValueFold(S, it) <=> Adds(S, g, it)
  <2>1. ASSUME NEW s \in SUBSET S, s # {}
        PROVE  g[CHOOSE x \in s : TRUE]
                 = (CHOOSE x \in s : TRUE).quantity * (CHOOSE x \in s : TRUE).price
    BY <2>1 DEF Worths
  <2> HIDE DEF g
  <2> QED
    BY <2>1 DEF ValueFold, Adds
<1> HIDE DEF g
<1>3. \E it : ValueFold(S, it)
  BY <1>1, <1>2, FoldExists
<1> DEFINE it == CHOOSE it : ValueFold(S, it)
<1>4. ValueFold(S, it)
  BY <1>3
<1>5. Value(S) = it[S]
  BY DEF Value, MapThenSumSet, MapThenFoldSet, ValueFold
<1> HIDE DEF it
<1>6. it[S] = Total(S, g)
  BY <1>1, <1>2, <1>4, FoldIsTotal
<1> QED
  BY <1>1, <1>5, <1>6 DEF g

BorrowedFold(F, c, it) ==
    it = [s \in SUBSET Agents |->
            IF s = {} THEN 0
            ELSE Shortfall(F, c, CHOOSE x \in s : TRUE) + it[s \ {CHOOSE x \in s : TRUE}]]

Missing(F, c) == [a \in Agents |-> Shortfall(F, c, a)]

LEMMA BorrowedTotal ==
    ASSUME NEW F, NEW c, IsFiniteSet(Agents), \A a \in Agents : Shortfall(F, c, a) \in Nat
    PROVE  Counted(Agents, Missing(F, c)) /\ Borrowed(F, c) = Total(Agents, Missing(F, c))
<1> DEFINE g == Missing(F, c)
<1>1. Counted(Agents, g)
  BY DEF Counted, Missing
<1>2. ASSUME NEW it PROVE BorrowedFold(F, c, it) <=> Adds(Agents, g, it)
  <2>1. ASSUME NEW s \in SUBSET Agents, s # {}
        PROVE  g[CHOOSE x \in s : TRUE] = Shortfall(F, c, CHOOSE x \in s : TRUE)
    BY <2>1 DEF Missing
  <2> HIDE DEF g
  <2> QED
    BY <2>1 DEF BorrowedFold, Adds
<1> HIDE DEF g
<1>3. \E it : BorrowedFold(F, c, it)
  BY <1>1, <1>2, FoldExists
<1> DEFINE it == CHOOSE it : BorrowedFold(F, c, it)
<1>4. BorrowedFold(F, c, it)
  BY <1>3
<1>5. Borrowed(F, c) = it[Agents]
  BY DEF Borrowed, MapThenSumSet, MapThenFoldSet, BorrowedFold
<1> HIDE DEF it
<1>6. it[Agents] = Total(Agents, g)
  BY <1>1, <1>2, <1>4, FoldIsTotal
<1> QED
  BY <1>1, <1>5, <1>6 DEF g

-----------------------------------------------------------------------------
(* The allocation                                                            *)

(* What an order is sure of, and what its rounding leaves.                   *)
Floor(o, matched, total) == (matched * o.quantity) \div total
Remainder(o, matched, total) == (matched * o.quantity) % total
Floors(S, matched, total) == [o \in S |-> Floor(o, matched, total)]

FloorFold(S, matched, total, it) ==
    it = [s \in SUBSET S |->
            IF s = {} THEN 0
            ELSE (matched * (CHOOSE x \in s : TRUE).quantity) \div total
                   + it[s \ {CHOOSE x \in s : TRUE}]]

Before(p, o, matched, total) ==
    \/ Remainder(p, matched, total) > Remainder(o, matched, total)
    \/ /\ Remainder(p, matched, total) = Remainder(o, matched, total)
       /\ p.agent < o.agent
Ahead(o, S, matched, total) == {p \in S : Before(p, o, matched, total)}

LEMMA AllocationIs ==
    ASSUME NEW S, NEW matched, NEW total, total = Shares(S),
           Counted(S, Floors(S, matched, total))
    PROVE  Allocation(S, matched)
             = [o \in S |->
                  Floor(o, matched, total)
                    + IF Cardinality(Ahead(o, S, matched, total))
                           < matched - Total(S, Floors(S, matched, total))
                      THEN 1 ELSE 0]
<1> DEFINE g == Floors(S, matched, total)
<1>2. ASSUME NEW it PROVE FloorFold(S, matched, total, it) <=> Adds(S, g, it)
  <2>1. ASSUME NEW s \in SUBSET S, s # {}
        PROVE  g[CHOOSE x \in s : TRUE]
                 = (matched * (CHOOSE x \in s : TRUE).quantity) \div total
    BY <2>1 DEF Floors, Floor
  <2> HIDE DEF g
  <2> QED
    BY <2>1 DEF FloorFold, Adds
<1> HIDE DEF g
<1>3. \E it : FloorFold(S, matched, total, it)
  BY <1>2, FoldExists DEF g
<1> DEFINE it == CHOOSE it : FloorFold(S, matched, total, it)
<1>4. FloorFold(S, matched, total, it)
  BY <1>3
<1>5. it[S] = Total(S, g)
  <2> HIDE DEF it
  <2> QED
    BY <1>2, <1>4, FoldIsTotal DEF g
<1>6. Allocation(S, matched)
        = [o \in S |->
             Floor(o, matched, total)
               + IF Cardinality(Ahead(o, S, matched, total)) < matched - it[S]
                 THEN 1 ELSE 0]
  BY DEF Allocation, MapThenSumSet, MapThenFoldSet, FloorFold, Ahead, Before, Floor, Remainder
<1> HIDE DEF it
<1> QED
  BY <1>5, <1>6 DEF g

(* Finite orders: there is a last one, and exactly k are among the first k.  *)
Ranks(S, R) ==
    /\ \A x \in S : <<x, x>> \notin R
    /\ \A x, y \in S : x # y => <<x, y>> \in R \/ <<y, x>> \in R
    /\ \A x, y, z \in S : <<x, y>> \in R /\ <<y, z>> \in R => <<x, z>> \in R

LEMMA LastOf ==
    ASSUME NEW S, IsFiniteSet(S), NEW R, Ranks(S, R), S # {}
    PROVE  \E m \in S : \A x \in S \ {m} : <<x, m>> \in R
<1> DEFINE P == {T \in SUBSET S : T # {} => \E m \in T : \A x \in T \ {m} : <<x, m>> \in R}
<1>1. {} \in P
  OBVIOUS
<1>2. ASSUME NEW T \in SUBSET S, NEW x \in S \ T, T \in P PROVE T \union {x} \in P
  <2>1. CASE T = {}
    BY <2>1
  <2>2. CASE T # {}
    <3>1. PICK m \in T : \A y \in T \ {m} : <<y, m>> \in R
      BY <1>2, <2>2
    <3>2. CASE <<x, m>> \in R
      <4>1. \A y \in (T \union {x}) \ {m} : <<y, m>> \in R
        BY <3>1, <3>2
      <4> QED
        BY <4>1
    <3>3. CASE <<m, x>> \in R
      <4>1. \A y \in (T \union {x}) \ {x} : <<y, x>> \in R
        BY <3>1, <3>3 DEF Ranks
      <4> QED
        BY <4>1
    <3> QED
      BY <3>2, <3>3 DEF Ranks
  <2> QED
    BY <2>1, <2>2
<1>3. S \in P
  <2> HIDE DEF P
  <2> QED
    BY <1>1, <1>2, OneByOne
<1> QED
  BY <1>3

Below(o, S, R) == {p \in S : <<p, o>> \in R}
FirstOf(k, S, R) == {o \in S : Cardinality(Below(o, S, R)) < k}

LEMMA FirstRanks ==
    ASSUME NEW S, IsFiniteSet(S), NEW R, Ranks(S, R)
    PROVE  \A k \in 0..Cardinality(S) : Cardinality(FirstOf(k, S, R)) = k
<1> DEFINE P == {T \in SUBSET S :
                   \A k \in 0..Cardinality(T) : Cardinality(FirstOf(k, T, R)) = k}
<1>1. ASSUME NEW T \in SUBSET S, \A U \in (SUBSET T) \ {T} : U \in P PROVE T \in P
  <2>0. IsFiniteSet(T) /\ Cardinality(T) \in Nat
    BY FS_Subset, FS_CardinalityType
  <2>1. CASE T = {}
    <3>1. FirstOf(0, T, R) = {}
      BY <2>1 DEF FirstOf
    <3>2. Cardinality(FirstOf(0, T, R)) = 0 /\ Cardinality(T) = 0
      BY <2>1, <3>1, FS_EmptySet
    <3>3. \A k \in 0..Cardinality(T) : k = 0
      BY <3>2
    <3> QED
      BY <3>2, <3>3
  <2>2. CASE T # {}
    <3>0. Ranks(T, R)
      BY DEF Ranks
    <3>1. PICK m \in T : \A x \in T \ {m} : <<x, m>> \in R
      BY <2>0, <2>2, <3>0, LastOf
    <3> DEFINE U == T \ {m}
    <3>2. /\ U \in SUBSET T /\ U # T /\ m \notin U /\ T = U \union {m} /\ U \in SUBSET S
          /\ \A x \in U : <<x, m>> \in R
      BY <3>1
    <3>3. IsFiniteSet(U) /\ Cardinality(U) \in Nat /\ Cardinality(T) = Cardinality(U) + 1
      <4> HIDE DEF U
      <4>1. IsFiniteSet(U)
        BY <2>0, <3>2, FS_Subset
      <4>2. Cardinality(U \union {m}) = Cardinality(U) + 1
        BY <3>2, <4>1, FS_AddElement
      <4> QED
        BY <3>2, <4>1, <4>2, FS_CardinalityType
    <3>4. U \in P
      BY <1>1, <3>2
    <3> HIDE DEF U
    <3>5. Below(m, T, R) = U
      BY <3>0, <3>2 DEF Below, Ranks
    <3>6. \A o \in U : Below(o, T, R) = Below(o, U, R)
      BY <3>0, <3>2 DEF Below, Ranks
    <3>7. \A o \in U : Cardinality(Below(o, U, R)) \in Nat
                       /\ Cardinality(Below(o, U, R)) <= Cardinality(U)
      <4> SUFFICES ASSUME NEW o \in U
                   PROVE  Cardinality(Below(o, U, R)) \in Nat
                          /\ Cardinality(Below(o, U, R)) <= Cardinality(U)
        OBVIOUS
      <4>1. Below(o, U, R) \in SUBSET U
        BY DEF Below
      <4> QED
        BY <3>3, <4>1, FS_Subset, FS_CardinalityType
    <3>8. ASSUME NEW k \in 0..Cardinality(T)
          PROVE  Cardinality(FirstOf(k, T, R)) = k
      <4>1. CASE k <= Cardinality(U)
        <5>1. FirstOf(k, T, R) = FirstOf(k, U, R)
          BY <3>2, <3>3, <3>5, <3>6, <4>1 DEF FirstOf
        <5>2. Cardinality(FirstOf(k, U, R)) = k
          BY <3>3, <3>4, <4>1
        <5> QED
          BY <5>1, <5>2
      <4>2. CASE k = Cardinality(T)
        <5>1. FirstOf(k, T, R) = T
          BY <3>2, <3>3, <3>5, <3>6, <3>7, <4>2 DEF FirstOf
        <5> QED
          BY <4>2, <5>1
      <4> QED
        BY <3>3, <4>1, <4>2
    <3> QED
      BY <3>8
  <2> QED
    BY <2>1, <2>2
<1>2. S \in P
  <2> HIDE DEF P
  <2> QED
    BY <1>1, PartsInduction
<1> QED
  BY <1>2

(* The orders of one side of the market.                                     *)
Side(S) ==
    /\ IsFiniteSet(S)
    /\ \A o \in S : o.agent \in Nat /\ o.quantity \in Nat \ {0}
    /\ \A o, q \in S : o.agent = q.agent => o = q

LEMMA DivFacts ==
    ASSUME NEW a \in Nat, NEW t \in Nat \ {0}
    PROVE  /\ a \div t \in Nat /\ a % t \in Nat /\ a % t < t
           /\ a = (a \div t) * t + (a % t)
  OBVIOUS

LEMMA FloorFacts ==
    ASSUME NEW o, o.quantity \in Nat, NEW matched \in Nat, NEW total \in Nat \ {0}
    PROVE  /\ Floor(o, matched, total) \in Nat
           /\ Remainder(o, matched, total) \in Nat
           /\ Remainder(o, matched, total) < total
           /\ matched * o.quantity
                = Floor(o, matched, total) * total + Remainder(o, matched, total)
<1>1. matched * o.quantity \in Nat
  OBVIOUS
<1> QED
  BY <1>1, DivFacts DEF Floor, Remainder

(* Remainders, ties by agent, rank the orders of a side.                     *)
LEMMA BeforeRanks ==
    ASSUME NEW S, Side(S), NEW matched \in Nat, NEW total \in Nat \ {0}, NEW R,
           R = {pair \in S \X S : Before(pair[1], pair[2], matched, total)}
    PROVE  /\ Ranks(S, R)
           /\ \A o \in S : Ahead(o, S, matched, total) = Below(o, S, R)
<1>1. \A o \in S : Remainder(o, matched, total) \in Nat /\ o.agent \in Nat
  BY FloorFacts DEF Side
<1>2. \A x, y \in S : <<x, y>> \in R <=> Before(x, y, matched, total)
  OBVIOUS
<1>3. Ranks(S, R)
  <2>1. \A x \in S : ~Before(x, x, matched, total)
    BY <1>1 DEF Before
  <2>2. \A x, y \in S : x # y => Before(x, y, matched, total) \/ Before(y, x, matched, total)
    BY <1>1 DEF Before, Side
  <2>3. \A x, y, z \in S : Before(x, y, matched, total) /\ Before(y, z, matched, total)
                             => Before(x, z, matched, total)
    BY <1>1 DEF Before
  <2> QED
    BY <1>2, <2>1, <2>2, <2>3 DEF Ranks
<1> QED
  BY <1>2, <1>3 DEF Ahead, Below

LEMMA ProductOrder ==
    ASSUME NEW a \in Nat, NEW b \in Nat, NEW t \in Nat \ {0}
    PROVE  /\ a <= b => a * t <= b * t
           /\ a < b => a * t + t <= b * t
           /\ a * t <= b * t => a <= b
           /\ a * t < b * t => a < b
<1>1. ASSUME NEW x \in Nat, NEW y \in Nat, x <= y PROVE x * t <= y * t
  <2>1. PICK d \in Nat : y = x + d
    <3>1. y - x \in Nat /\ y = x + (y - x)
      BY <1>1
    <3> QED
      BY <3>1
  <2>2. y * t = x * t + d * t /\ d * t \in Nat /\ x * t \in Nat
    BY <2>1
  <2> QED
    BY <2>2
<1>2. ASSUME NEW x \in Nat, NEW y \in Nat, x < y PROVE x * t + t <= y * t
  <2>1. (x + 1) * t = x * t + t
    OBVIOUS
  <2>2. x + 1 \in Nat /\ x + 1 <= y
    BY <1>2
  <2> QED
    BY <1>1, <2>1, <2>2
<1>3. a * t \in Nat /\ b * t \in Nat
  OBVIOUS
<1> QED
  BY <1>1, <1>2, <1>3

(* One order: its part, rounded down, is within its quantity.                *)
LEMMA ProRata ==
    ASSUME NEW q \in Nat \ {0}, NEW m \in Nat \ {0}, NEW t \in Nat \ {0},
           NEW f \in Nat, NEW r \in Nat, r < t, m * q = f * t + r, m <= t
    PROVE  /\ f <= q
           /\ m < t => f + 1 <= q
           /\ m = t => f = q /\ r = 0
<1>1. f * t \in Nat /\ q * t \in Nat /\ m * q \in Nat /\ q * t = t * q
  OBVIOUS
<1>2. m * q <= t * q
  BY ProductOrder
<1>3. m < t => m * q + q <= t * q
  BY ProductOrder
<1>4. f <= q
  BY <1>1, <1>2, ProductOrder
<1>5. m < t => f < q
  <2>1. m < t => f * t < q * t
    BY <1>1, <1>3
  <2> QED
    BY <2>1, ProductOrder
<1>6. m = t => f = q /\ r = 0
  <2>1. m = t => f * t + r = q * t
    BY <1>1
  <2>2. f < q => f * t + t <= q * t
    BY ProductOrder
  <2>3. m = t => f = q
    BY <1>1, <1>4, <2>1, <2>2
  <2> QED
    BY <1>1, <2>1, <2>3
<1> QED
  BY <1>4, <1>5, <1>6

(* Two orders: the larger has no smaller part, and if the same then no       *)
(* smaller a remainder.                                                      *)
LEMMA ProRataOrder ==
    ASSUME NEW q \in Nat, NEW q2 \in Nat, q2 > q, NEW m \in Nat \ {0}, NEW t \in Nat \ {0},
           NEW f \in Nat, NEW r \in Nat, r < t, m * q = f * t + r,
           NEW f2 \in Nat, NEW r2 \in Nat, r2 < t, m * q2 = f2 * t + r2
    PROVE  f2 >= f /\ (f2 = f => r2 > r)
<1>1. /\ m * q + m <= m * q2 /\ m * q \in Nat /\ m * q2 \in Nat
      /\ f * t \in Nat /\ f2 * t \in Nat
  <2>1. q * m + m <= q2 * m /\ q * m = m * q /\ q2 * m = m * q2
    BY ProductOrder
  <2> QED
    BY <2>1
<1>2. f2 < f => f2 * t + t <= f * t
  BY ProductOrder
<1>3. ~(f2 < f)
  BY <1>1, <1>2
<1> QED
  BY <1>1, <1>3

(* What rounding leaves is no more than the orders that rounding touched.    *)
LEMMA LeftOver ==
    ASSUME NEW S, Side(S), NEW matched \in Nat, NEW total \in Nat \ {0}, total = Shares(S),
           NEW left, left = matched - Total(S, Floors(S, matched, total)),
           NEW touched, touched = {o \in S : Remainder(o, matched, total) > 0}
    PROVE  /\ Counted(S, Floors(S, matched, total))
           /\ left \in Nat /\ Cardinality(touched) \in Nat /\ left <= Cardinality(touched)
<1> DEFINE f == Floors(S, matched, total)
           r == [o \in S |-> Remainder(o, matched, total)]
           whole == [o \in S |-> total * f[o]]
           each == [o \in S |-> matched * o.quantity]
           one == [o \in S |-> IF o \in touched THEN 1 ELSE 0]
           most == [o \in S |-> total * one[o]]
<1>1. \A o \in S : /\ o.quantity \in Nat /\ f[o] \in Nat /\ r[o] \in Nat /\ r[o] < total
                   /\ matched * o.quantity = f[o] * total + r[o]
  BY FloorFacts DEF Side, Floors
<1>2. Counted(S, f) /\ Counted(S, r) /\ Counted(S, one)
  BY <1>1 DEF Counted, Side
<1>3. Counted(S, whole) /\ Counted(S, each) /\ Counted(S, most)
  <2>1. \A x \in S : total * f[x] \in Nat /\ matched * x.quantity \in Nat /\ total * one[x] \in Nat
    BY <1>1
  <2> QED
    BY <2>1 DEF Counted, Side
<1>4. \A o \in S : each[o] = whole[o] + r[o]
  <2> SUFFICES ASSUME NEW o \in S PROVE each[o] = whole[o] + r[o]
    OBVIOUS
  <2>1. f[o] * total = total * f[o]
    BY <1>1
  <2> QED
    BY <1>1, <2>1
<1>5. \A o \in S : r[o] <= most[o]
  BY <1>1
<1>6. Counted(S, Amounts(S)) /\ Total(S, Amounts(S)) = total
  BY SharesTotal DEF Side
<1>7. \A o \in S : each[o] = matched * Amounts(S)[o]
  BY DEF Amounts
<1>8. \A o \in S : whole[o] = total * f[o] /\ most[o] = total * one[o]
  OBVIOUS
<1>9. \A o \in S : one[o] = IF o \in touched THEN 1 ELSE 0
  OBVIOUS
<1>10. touched \in SUBSET S /\ IsFiniteSet(S)
  BY DEF Side
<1> HIDE DEF f, r, whole, each, one, most
<1>11. Total(S, each) = matched * total
  BY <1>6, <1>7, TotalScale
<1>12. Total(S, whole) = total * Total(S, f) /\ Total(S, most) = total * Total(S, one)
  BY <1>2, <1>8, TotalScale
<1>13. Total(S, each) = Total(S, whole) + Total(S, r)
  BY <1>2, <1>3, <1>4, TotalAdd
<1>14. Total(S, r) <= Total(S, most)
  BY <1>2, <1>3, <1>5, TotalMonotone
<1>15. Total(S, one) = Cardinality(touched)
  BY <1>9, <1>10, TotalOfOnes
<1>16. Total(S, f) \in Nat /\ Total(S, r) \in Nat /\ Total(S, one) \in Nat
  BY <1>2, UnitsFinite
<1>17. PICK a \in Nat, b \in Nat, c \in Nat :
          a = Total(S, f) /\ b = Total(S, r) /\ c = Total(S, one)
  BY <1>16
<1>18. matched * total = total * a + b /\ b <= total * c
  BY <1>11, <1>12, <1>13, <1>14, <1>17
<1>19. /\ a * total = total * a /\ matched * total \in Nat /\ a * total \in Nat
       /\ c * total = total * c /\ c * total \in Nat
       /\ (a + c) * total = a * total + c * total /\ a + c \in Nat
  OBVIOUS
<1>20. a <= matched /\ matched <= a + c
  <2>1. a * total <= matched * total
    BY <1>18, <1>19
  <2>2. matched * total <= (a + c) * total
    BY <1>18, <1>19
  <2> QED
    BY <1>19, <2>1, <2>2, ProductOrder
<1>21. left = matched - a
  BY <1>17 DEF f
<1> QED
  BY <1>2, <1>15, <1>17, <1>20, <1>21 DEF f

(* Each gets its part, rounded one way or the other, and all together get    *)
(* what there is.                                                            *)
LEMMA AllocationFacts ==
    ASSUME NEW S, Side(S), NEW matched \in Nat \ {0}, NEW total \in Nat \ {0},
           total = Shares(S), matched <= total, NEW al, al = Allocation(S, matched)
    PROVE  /\ DOMAIN al = S
           /\ \A o \in S : /\ al[o] \in Nat /\ al[o] <= o.quantity
                           /\ Gap(al[o] * total, matched * o.quantity) < total
                           /\ matched = total => al[o] = o.quantity
           /\ \A o, q \in S : o.quantity > q.quantity => al[o] >= al[q]
           /\ Total(S, al) = matched
<1> DEFINE f(o) == Floor(o, matched, total)
           r(o) == Remainder(o, matched, total)
           left == matched - Total(S, Floors(S, matched, total))
           touched == {o \in S : r(o) > 0}
           rank(o) == Cardinality(Ahead(o, S, matched, total))
           e(o) == IF rank(o) < left THEN 1 ELSE 0
           R == {pair \in S \X S : Before(pair[1], pair[2], matched, total)}
<1>1. /\ Counted(S, Floors(S, matched, total))
      /\ left \in Nat /\ Cardinality(touched) \in Nat /\ left <= Cardinality(touched)
  <2> HIDE DEF left, touched
  <2>1. left = matched - Total(S, Floors(S, matched, total))
    BY DEF left
  <2>2. touched = {o \in S : Remainder(o, matched, total) > 0}
    BY DEF touched
  <2> QED
    BY <2>1, <2>2, LeftOver
<1>2. al = [o \in S |-> f(o) + e(o)]
  BY <1>1, AllocationIs
<1>3. \A o \in S : /\ o.quantity \in Nat \ {0} /\ f(o) \in Nat /\ r(o) \in Nat /\ r(o) < total
                   /\ matched * o.quantity = f(o) * total + r(o)
  BY FloorFacts DEF Side
<1>4. IsFiniteSet(S) /\ touched \in SUBSET S /\ IsFiniteSet(touched)
  <2>1. IsFiniteSet(S) /\ touched \in SUBSET S
    BY DEF Side
  <2> QED
    BY <2>1, FS_Subset
<1>5. \A o \in S : Ahead(o, S, matched, total) \in SUBSET S /\ rank(o) \in Nat
  <2> SUFFICES ASSUME NEW o \in S
               PROVE  Ahead(o, S, matched, total) \in SUBSET S /\ rank(o) \in Nat
    OBVIOUS
  <2>1. Ahead(o, S, matched, total) \in SUBSET S
    BY DEF Ahead
  <2> QED
    BY <1>4, <2>1, FS_Subset, FS_CardinalityType
<1>6. ASSUME NEW o \in S, e(o) = 1 PROVE r(o) > 0
  <2> SUFFICES ASSUME r(o) = 0 PROVE FALSE
    BY <1>3
  <2>1. touched \in SUBSET Ahead(o, S, matched, total)
    BY DEF Ahead, Before
  <2>2. Cardinality(touched) <= rank(o)
    BY <1>4, <1>5, <2>1, FS_Subset
  <2>3. rank(o) < left
    BY <1>6
  <2> QED
    BY <1>1, <1>5, <2>2, <2>3
<1>7. ASSUME NEW o \in S
      PROVE  /\ al[o] \in Nat /\ al[o] <= o.quantity
             /\ Gap(al[o] * total, matched * o.quantity) < total
             /\ matched = total => al[o] = o.quantity
  <2>1. PICK q \in Nat \ {0}, a \in Nat, b \in Nat :
           /\ q = o.quantity /\ a = f(o) /\ b = r(o) /\ b < total
           /\ matched * q = a * total + b
    BY <1>3
  <2>2. PICK i \in {0, 1} : i = e(o) /\ (i = 1 => b > 0)
    BY <1>6, <2>1
  <2>3. al[o] = a + i
    BY <1>2, <2>1, <2>2
  <2>4. a <= q /\ (matched < total => a + 1 <= q) /\ (matched = total => a = q /\ b = 0)
    BY <2>1, ProRata
  <2>5. (a + i) * total = a * total + i * total /\ a * total \in Nat
        /\ (i = 1 => i * total = total) /\ (i = 0 => i * total = 0)
    BY <2>2
  <2> HIDE DEF f, r, e
  <2>6. Gap((a + i) * total, matched * q) < total
    <3>1. PICK w \in Nat, u \in Nat, v \in Nat :
             /\ w = a * total /\ u = (a + i) * total /\ v = matched * q
      BY <2>2
    <3>2. v = w + b /\ (i = 1 => u = w + total) /\ (i = 0 => u = w)
      BY <2>1, <2>5, <3>1
    <3>3. Gap(u, v) < total
      BY <2>1, <2>2, <3>2 DEF Gap
    <3> QED
      BY <3>1, <3>3
  <2>7. a + i \in Nat /\ a + i <= q /\ (matched = total => a + i = q)
    BY <2>2, <2>4
  <2> QED
    BY <2>1, <2>3, <2>6, <2>7
<1>8. ASSUME NEW o \in S, NEW q \in S, o.quantity > q.quantity
      PROVE  al[o] >= al[q]
  <2>1. f(o) >= f(q) /\ (f(o) = f(q) => r(o) > r(q))
    <3>1. PICK x \in Nat, a \in Nat, b \in Nat :
             /\ x = q.quantity /\ a = f(q) /\ b = r(q) /\ b < total
             /\ matched * x = a * total + b
      BY <1>3
    <3>3. PICK y \in Nat, a2 \in Nat, b2 \in Nat :
             /\ y = o.quantity /\ a2 = f(o) /\ b2 = r(o) /\ b2 < total
             /\ matched * y = a2 * total + b2
      BY <1>3
    <3> HIDE DEF f, r
    <3>2. a2 >= a /\ (a2 = a => b2 > b)
      BY <1>8, <3>1, <3>3, ProRataOrder
    <3> QED
      BY <3>1, <3>2, <3>3
  <2>2. f(o) = f(q) => rank(o) <= rank(q)
    <3>1. r(o) > r(q) => Ahead(o, S, matched, total) \in SUBSET Ahead(q, S, matched, total)
      BY <1>3 DEF Ahead, Before
    <3>2. IsFiniteSet(Ahead(q, S, matched, total))
      BY <1>4, <1>5, FS_Subset
    <3> QED
      BY <2>1, <3>1, <3>2, FS_Subset
  <2>3. /\ f(o) \in Nat /\ f(q) \in Nat /\ e(o) \in {0, 1} /\ e(q) \in {0, 1}
        /\ f(o) = f(q) => e(o) >= e(q)
    BY <1>1, <1>3, <1>5, <2>2
  <2>4. al[o] = f(o) + e(o) /\ al[q] = f(q) + e(q)
    BY <1>2
  <2> HIDE DEF f, e
  <2> QED
    BY <2>1, <2>3, <2>4
<1>9. Total(S, al) = matched
  <2> DEFINE g == Floors(S, matched, total)
             ee == [o \in S |-> e(o)]
             first == FirstOf(left, S, R)
  <2>1. Ranks(S, R) /\ \A o \in S : Ahead(o, S, matched, total) = Below(o, S, R)
    BY BeforeRanks
  <2>2. first \in SUBSET S /\ \A o \in S : ee[o] = IF o \in first THEN 1 ELSE 0
    BY <2>1 DEF FirstOf
  <2>3. left \in 0..Cardinality(S)
    <3>1. Cardinality(touched) <= Cardinality(S) /\ Cardinality(S) \in Nat
      BY <1>4, FS_Subset, FS_CardinalityType
    <3> QED
      BY <1>1, <3>1
  <2>4. Cardinality(first) = left
    <3> HIDE DEF R, left
    <3> QED
      BY <1>4, <2>1, <2>3, FirstRanks
  <2>5. Total(S, ee) = left
    <3> HIDE DEF first, ee
    <3> QED
      BY <1>4, <2>2, <2>4, TotalOfOnes
  <2>6. Counted(S, g) /\ Counted(S, ee)
    BY <1>1, <1>4 DEF Counted
  <2>7. \A o \in S : al[o] = g[o] + ee[o]
    BY <1>2 DEF Floors
  <2>8. Total(S, al) = Total(S, g) + Total(S, ee)
    <3> HIDE DEF g, ee
    <3> QED
      BY <2>6, <2>7, TotalAdd
  <2>9. Total(S, g) \in Nat /\ left = matched - Total(S, g)
    BY <2>6, UnitsFinite
  <2> HIDE DEF g, ee, left
  <2> QED
    BY <2>5, <2>8, <2>9
<1> QED
  BY <1>2, <1>7, <1>8, <1>9

-----------------------------------------------------------------------------
(* The auction                                                               *)

(* What the constraint stage accepts: at most one order of an agent.         *)
Book(S) ==
    /\ IsFiniteSet(S)
    /\ \A o \in S : /\ o.agent \in Nat /\ o.side \in {"buy", "sell"}
                    /\ o.quantity \in Nat \ {0} /\ o.limit \in Nat \ {0}
    /\ \A o, q \in S : o.agent = q.agent => o = q

LEMMA SharesParts ==
    ASSUME NEW S, IsFiniteSet(S), \A o \in S : o.quantity \in Nat, NEW T \in SUBSET S
    PROVE  Shares(T) \in Nat /\ Shares(S) \in Nat /\ Shares(T) <= Shares(S)
<1>1. IsFiniteSet(T)
  BY FS_Subset
<1>2. /\ Counted(S, Amounts(S)) /\ Shares(S) = Total(S, Amounts(S))
      /\ Counted(T, Amounts(T)) /\ Shares(T) = Total(T, Amounts(T))
  BY <1>1, SharesTotal
<1>3. Total(T, Amounts(T)) = Total(T, Amounts(S))
  <2>1. \A x \in T : Amounts(T)[x] = Amounts(S)[x]
    BY DEF Amounts
  <2> QED
    BY <2>1, TotalSame
<1> QED
  BY <1>2, <1>3, CountedParts

LEMMA SharesOfNone == Shares({}) = 0
<1>1. Shares({}) = Total({}, Amounts({}))
  BY SharesTotal, FS_EmptySet
<1> QED
  BY <1>1, TotalOfNone

LEMMA SharesOfOne ==
    ASSUME NEW x, x.quantity \in Nat
    PROVE  Shares({x}) = x.quantity
<1> DEFINE S == {x}
<1>1. IsFiniteSet(S) /\ \A o \in S : o.quantity \in Nat
  BY FS_Singleton
<1>2. Amounts(S)[x] = x.quantity
  BY DEF Amounts
<1>3. Total({x}, Amounts(S)) = x.quantity
  BY <1>2, TotalOfOne
<1>4. Shares(S) = Total(S, Amounts(S))
  <2> HIDE DEF S
  <2> QED
    BY <1>1, SharesTotal
<1> QED
  BY <1>3, <1>4

LEMMA SidesOfBook ==
    ASSUME NEW S, Book(S), NEW p \in Nat
    PROVE  /\ Buyers(S, p) \in SUBSET S /\ Sellers(S, p) \in SUBSET S
           /\ Side(Buyers(S, p)) /\ Side(Sellers(S, p))
           /\ Shares(Buyers(S, p)) \in Nat /\ Shares(Sellers(S, p)) \in Nat
           /\ Matched(S, p) \in Nat /\ Imbalance(S, p) \in Nat
           /\ Matched(S, p) <= Shares(Buyers(S, p)) /\ Matched(S, p) <= Shares(Sellers(S, p))
           /\ Matched(S, p) \in {Shares(Buyers(S, p)), Shares(Sellers(S, p))}
<1>1. Buyers(S, p) \in SUBSET S /\ Sellers(S, p) \in SUBSET S
  BY DEF Buyers, Sellers
<1>2. IsFiniteSet(Buyers(S, p)) /\ IsFiniteSet(Sellers(S, p))
  BY <1>1, FS_Subset DEF Book
<1>3. Side(Buyers(S, p)) /\ Side(Sellers(S, p))
  BY <1>1, <1>2 DEF Side, Book
<1>4. Shares(Buyers(S, p)) \in Nat /\ Shares(Sellers(S, p)) \in Nat
  BY <1>1, SharesParts DEF Book
<1> QED
  BY <1>1, <1>3, <1>4 DEF Matched, Imbalance, Lesser, Gap

LEMMA ImageFinite ==
    ASSUME NEW S, IsFiniteSet(S), NEW m
    PROVE  IsFiniteSet({m[x] : x \in S})
<1> DEFINE I(T) == {m[x] : x \in T}
           P == {T \in SUBSET S : IsFiniteSet(I(T))}
<1>1. {} \in P
  <2>1. I({}) = {}
    OBVIOUS
  <2> QED
    BY <2>1, FS_EmptySet
<1>2. ASSUME NEW T \in SUBSET S, NEW x \in S \ T, T \in P PROVE T \union {x} \in P
  <2>1. I(T \union {x}) = I(T) \union {m[x]}
    OBVIOUS
  <2>2. IsFiniteSet(I(T))
    BY <1>2
  <2>3. IsFiniteSet(I(T) \union {m[x]})
    <3> HIDE DEF I
    <3> QED
      BY <2>2, FS_AddElement
  <2> QED
    BY <2>1, <2>3
<1>3. S \in P
  <2> HIDE DEF P
  <2> QED
    BY <1>1, <1>2, OneByOne
<1> QED
  BY <1>3

LEMMA LimitsFinite ==
    ASSUME NEW S, IsFiniteSet(S)
    PROVE  IsFiniteSet({o.limit : o \in S})
<1> DEFINE m == [o \in S |-> o.limit]
<1>1. {m[o] : o \in S} = {o.limit : o \in S}
  OBVIOUS
<1>2. IsFiniteSet({m[o] : o \in S})
  <2> HIDE DEF m
  <2> QED
    BY ImageFinite
<1> QED
  BY <1>1, <1>2

(* The criteria rank the candidates, so that there is a best one.            *)
LEMMA BestPriceFacts ==
    ASSUME NEW S, Book(S), NEW last \in Nat \ {0}
    PROVE  LET best == BestPrice(S, last)
           IN  /\ best \in Candidates(S, last) /\ best \in Nat \ {0}
               /\ \A q \in Candidates(S, last) \ {best} : Prefers(S, last, best, q)
<1> DEFINE C == Candidates(S, last)
           R == {pair \in C \X C : Prefers(S, last, pair[2], pair[1])}
<1>1. C \subseteq Nat \ {0} /\ C # {}
  BY DEF Candidates, Book
<1>2. IsFiniteSet(C)
  <2> DEFINE L == {o.limit : o \in S}
  <2>1. IsFiniteSet(L)
    BY LimitsFinite DEF Book
  <2>2. C = L \union {last}
    BY DEF Candidates
  <2> HIDE DEF L, C
  <2> QED
    BY <2>1, <2>2, FS_AddElement
<1>3. \A p \in C : Matched(S, p) \in Nat /\ Imbalance(S, p) \in Nat /\ Gap(p, last) \in Nat
  BY <1>1, SidesOfBook DEF Gap
<1>4. Ranks(C, R)
  <2>1. \A x \in C : ~Prefers(S, last, x, x)
    BY <1>1, <1>3 DEF Prefers
  <2>2. \A x, y \in C : x # y => Prefers(S, last, x, y) \/ Prefers(S, last, y, x)
    BY <1>1, <1>3 DEF Prefers
  <2>3. \A x, y, z \in C : Prefers(S, last, x, y) /\ Prefers(S, last, y, z)
                             => Prefers(S, last, x, z)
    BY <1>1, <1>3 DEF Prefers
  <2>4. \A x, y \in C : <<x, y>> \in R <=> Prefers(S, last, y, x)
    OBVIOUS
  <2> HIDE DEF R
  <2> QED
    BY <2>1, <2>2, <2>3, <2>4 DEF Ranks
<1>5. PICK b \in C : \A q \in C \ {b} : <<q, b>> \in R
  <2>1. C # {}
    BY <1>1
  <2> HIDE DEF C, R
  <2>2. \E m \in C : \A x \in C \ {m} : <<x, m>> \in R
    BY <1>2, <1>4, <2>1, LastOf
  <2> QED
    BY <2>2
<1>6. \E p \in C : \A q \in C \ {p} : Prefers(S, last, p, q)
  BY <1>5
<1>7. LET best == BestPrice(S, last)
      IN  best \in C /\ \A q \in C \ {best} : Prefers(S, last, best, q)
  <2> HIDE DEF C
  <2>1. BestPrice(S, last) = CHOOSE p \in C : \A q \in C \ {p} : Prefers(S, last, p, q)
    BY DEF BestPrice, C
  <2> QED
    BY <1>6, <2>1
<1> QED
  BY <1>1, <1>7

(* No price at all would trade more.                                         *)
LEMMA NoBetterPrice ==
    ASSUME NEW S, Book(S), NEW last \in Nat \ {0}, NEW p \in Nat \ {0}
    PROVE  Matched(S, p) <= Matched(S, BestPrice(S, last))
<1> DEFINE best == BestPrice(S, last)
           B == Buyers(S, p)
<1>1. /\ best \in Candidates(S, last) /\ best \in Nat
      /\ \A q \in Candidates(S, last) \ {best} : Prefers(S, last, best, q)
  BY BestPriceFacts
<1>2. Matched(S, p) \in Nat /\ Matched(S, best) \in Nat
  BY <1>1, SidesOfBook
<1>3. CASE B = {}
  <2>1. Shares(Buyers(S, p)) = 0
    BY <1>3, SharesOfNone
  <2>2. Matched(S, p) <= 0
    BY <2>1, SidesOfBook
  <2> QED
    BY <1>2, <2>2
<1>4. CASE B # {}
  <2> DEFINE L == {o.limit : o \in B}
             R == {pair \in L \X L : pair[1] > pair[2]}
  <2>1. IsFiniteSet(B) /\ B \in SUBSET S
    BY SidesOfBook DEF Side
  <2>2. IsFiniteSet(L)
    BY <2>1, LimitsFinite
  <2>3. L \subseteq Nat \ {0} /\ L # {}
    BY <1>4, <2>1 DEF Book
  <2>4. Ranks(L, R)
    <3>1. \A x, y \in L : <<x, y>> \in R <=> x > y
      OBVIOUS
    <3> HIDE DEF L, R
    <3> QED
      BY <2>3, <3>1 DEF Ranks
  <2>5. PICK c \in L : \A x \in L \ {c} : <<x, c>> \in R
    <3> HIDE DEF L, R
    <3> QED
      BY <2>2, <2>3, <2>4, LastOf
  <2>6. /\ c \in Nat \ {0} /\ c >= p /\ c \in Candidates(S, last)
        /\ \A o \in B : o.limit >= c
    <3>2. c \in Nat \ {0}
      BY <2>3, <2>5
    <3>1. \A x \in L : x >= c
      <4>1. \A x \in L \ {c} : x > c
        BY <2>5
      <4> HIDE DEF L
      <4> QED
        BY <2>3, <3>2, <4>1
    <3>3. PICK o \in B : c = o.limit
      BY <2>5
    <3>4. o \in S /\ o.limit >= p
      BY DEF Buyers
    <3>5. c \in Candidates(S, last)
      BY <3>3, <3>4 DEF Candidates
    <3> QED
      BY <3>1, <3>2, <3>3, <3>4, <3>5
  <2>7. Buyers(S, c) = B
    BY <2>6 DEF Buyers, Book
  <2>8. Sellers(S, p) \in SUBSET Sellers(S, c)
    BY <2>6 DEF Sellers, Book
  <2>9. IsFiniteSet(Sellers(S, c)) /\ \A o \in Sellers(S, c) : o.quantity \in Nat
    BY <2>6, SidesOfBook DEF Side
  <2>10. Shares(Sellers(S, p)) <= Shares(Sellers(S, c))
    BY <2>8, <2>9, SharesParts
  <2>11. Matched(S, p) <= Matched(S, c) /\ Matched(S, c) \in Nat
    <3>1. /\ Matched(S, p) <= Shares(Buyers(S, p)) /\ Matched(S, p) <= Shares(Sellers(S, p))
          /\ Shares(Sellers(S, p)) \in Nat /\ Shares(Sellers(S, c)) \in Nat
          /\ Matched(S, c) \in {Shares(Buyers(S, c)), Shares(Sellers(S, c))}
          /\ Matched(S, c) \in Nat
      BY <2>6, SidesOfBook
    <3> QED
      BY <1>2, <2>7, <2>10, <3>1
  <2>12. Matched(S, c) <= Matched(S, best)
    <3>1. c = best \/ Prefers(S, last, best, c)
      BY <1>1, <2>6
    <3> HIDE DEF best
    <3> QED
      BY <1>2, <2>11, <3>1 DEF Prefers
  <2>13. Matched(S, p) <= Matched(S, best)
    <3> HIDE DEF best
    <3> QED
      BY <1>2, <2>11, <2>12
  <2> QED
    BY <2>13
<1> QED
  BY <1>3, <1>4

(* The executed orders of one side.                                          *)
FillOf(o, p, n) ==
    [agent |-> o.agent, side |-> o.side, limit |-> o.limit, price |-> p, quantity |-> n]
Executed(T, p, al) == {FillOf(o, p, al[o]) : o \in T}

LEMMA FillsAre ==
    ASSUME NEW S, NEW p
    PROVE  Fills(S, p)
             = {f \in Executed(Buyers(S, p), p, Allocation(Buyers(S, p), Matched(S, p)))
                  \union Executed(Sellers(S, p), p, Allocation(Sellers(S, p), Matched(S, p))) :
                  f.quantity > 0}
  BY DEF Fills, Executed, FillOf

LEMMA FillOfFacts ==
    ASSUME NEW o, NEW p, NEW n
    PROVE  LET f == FillOf(o, p, n)
           IN  /\ f.agent = o.agent /\ f.side = o.side /\ f.limit = o.limit
               /\ f.price = p /\ f.quantity = n
  BY DEF FillOf

Filled(T, p, al) == {f \in Executed(T, p, al) : f.quantity > 0}
SideFilled(F, T, p, al) ==
    /\ IsFiniteSet(F)
    /\ \A f \in F : f.quantity \in Nat \ {0}
    /\ \A f \in F : \E o \in T : f = FillOf(o, p, al[o]) /\ al[o] > 0
    /\ \A o \in T : al[o] > 0 => FillOf(o, p, al[o]) \in F
    /\ Shares(F) = Total(T, al)

LEMMA SideFills ==
    ASSUME NEW T, Side(T), NEW p, NEW al, \A o \in T : al[o] \in Nat
    PROVE  SideFilled(Filled(T, p, al), T, p, al)
<1> DEFINE m == [o \in T |-> FillOf(o, p, al[o])]
           E == Executed(T, p, al)
           g == Amounts(E)
           F == Filled(T, p, al)
<1>1. E = {m[o] : o \in T} /\ IsFiniteSet(T)
  BY DEF Executed, Side
<1>2. \A x, y \in T : m[x] = m[y] => x = y
  BY FillOfFacts DEF Side
<1>3. \A x \in T : al[x] \in Nat /\ g[m[x]] = al[x]
  BY FillOfFacts DEF Amounts, Executed
<1>4. IsFiniteSet({m[x] : x \in T}) /\ Total({m[x] : x \in T}, g) = Total(T, al)
  <2>1. IsFiniteSet(T)
    BY <1>1
  <2> HIDE DEF m, g
  <2> QED
    BY <2>1, <1>2, <1>3, TotalMoved
<1>5. IsFiniteSet(E) /\ Total(E, g) = Total(T, al)
  BY <1>1, <1>4
<1>6. \A f \in E : f.quantity \in Nat /\ g[f] = f.quantity
  BY FillOfFacts DEF Executed, Amounts
<1>7. F = {f \in E : g[f] > 0} /\ F \in SUBSET E
  BY <1>6 DEF Filled
<1> HIDE DEF F
<1>8. IsFiniteSet(F) /\ \A f \in F : f.quantity \in Nat \ {0}
  <2>1. \A f \in F : f.quantity \in Nat \ {0}
    BY <1>6, <1>7
  <2>2. IsFiniteSet(F)
    <3> HIDE DEF E
    <3> QED
      BY <1>5, <1>7, FS_Subset
  <2> QED
    BY <2>1, <2>2
<1>9. Shares(F) = Total(T, al)
  <2>1. Shares(F) = Total(F, Amounts(F))
    BY <1>8, SharesTotal
  <2>2. Total(F, Amounts(F)) = Total(F, g)
    <3>1. \A f \in F : Amounts(F)[f] = g[f]
      BY <1>6, <1>7 DEF Amounts
    <3> HIDE DEF g
    <3> QED
      BY <3>1, TotalSame
  <2>3. Total(F, g) = Total(E, g)
    <3> HIDE DEF g, E
    <3>1. \A f \in E : g[f] \in Nat
      BY <1>6
    <3>2. Total({f \in E : g[f] > 0}, g) = Total(E, g)
      BY <3>1, TotalOfPositive
    <3> QED
      BY <1>7, <3>2
  <2> QED
    BY <1>5, <2>1, <2>2, <2>3
<1>10. /\ \A f \in F : \E o \in T : f = FillOf(o, p, al[o]) /\ al[o] > 0
       /\ \A o \in T : al[o] > 0 => FillOf(o, p, al[o]) \in F
  BY FillOfFacts DEF Executed, Filled, F
<1> QED
  BY <1>8, <1>9, <1>10 DEF SideFilled, F

(* All the fills of an auction at a price at which there is a trade.         *)
Got(F, o) == Shares({f \in F : f.agent = o.agent})
Sided(F, side) == {f \in F : f.side = side}

LEMMA FillsFacts ==
    ASSUME NEW S, Book(S), NEW p \in Nat \ {0}, Matched(S, p) > 0, NEW F, F = Fills(S, p)
    PROVE  /\ IsFiniteSet(F)
           /\ \A f \in F : /\ f.quantity \in Nat \ {0} /\ f.price = p
                           /\ \E o \in Buyers(S, p) \union Sellers(S, p) :
                                 /\ f.agent = o.agent /\ f.side = o.side /\ f.limit = o.limit
                                 /\ f.quantity <= o.quantity
           /\ \A f, g \in F : f.agent = g.agent => f = g
           /\ Shares(Sided(F, "buy")) = Matched(S, p)
           /\ Shares(Sided(F, "sell")) = Matched(S, p)
           /\ \A o \in Buyers(S, p) : Got(F, o) = Allocation(Buyers(S, p), Matched(S, p))[o]
           /\ \A o \in Sellers(S, p) : Got(F, o) = Allocation(Sellers(S, p), Matched(S, p))[o]
<1> DEFINE B == Buyers(S, p)
           D == Sellers(S, p)
           v == Matched(S, p)
           b == Allocation(B, v)
           d == Allocation(D, v)
           G == Filled(B, p, b)
           H == Filled(D, p, d)
<1>1. /\ B \in SUBSET S /\ D \in SUBSET S /\ Side(B) /\ Side(D) /\ v \in Nat \ {0}
      /\ Shares(B) \in Nat \ {0} /\ v <= Shares(B) /\ Shares(D) \in Nat \ {0} /\ v <= Shares(D)
  <2>1. /\ B \in SUBSET S /\ D \in SUBSET S /\ Side(B) /\ Side(D) /\ v \in Nat
        /\ Shares(B) \in Nat /\ v <= Shares(B) /\ Shares(D) \in Nat /\ v <= Shares(D)
    BY SidesOfBook
  <2> HIDE DEF B, D
  <2> QED
    BY <2>1
<1>2. F = G \union H
  BY FillsAre DEF Filled
<1>3. /\ \A o \in B : o.side = "buy"
      /\ \A o \in D : o.side = "sell"
      /\ \A o \in B \union D : o.quantity \in Nat \ {0} /\ o.agent \in Nat
      /\ \A o, q \in B \union D : o.agent = q.agent => o = q
      /\ B \intersect D = {}
  BY <1>1 DEF Book, Buyers, Sellers
<1> HIDE DEF B, D, v
<1>4. (\A o \in B : b[o] \in Nat /\ b[o] <= o.quantity) /\ Total(B, b) = v
  BY <1>1, AllocationFacts
<1>5. (\A o \in D : d[o] \in Nat /\ d[o] <= o.quantity) /\ Total(D, d) = v
  BY <1>1, AllocationFacts
<1> HIDE DEF b, d
<1>6. /\ IsFiniteSet(G)
      /\ \A f \in G : f.quantity \in Nat \ {0}
      /\ \A f \in G : \E o \in B : f = FillOf(o, p, b[o]) /\ b[o] > 0
      /\ \A o \in B : b[o] > 0 => FillOf(o, p, b[o]) \in G
      /\ Shares(G) = v
  <2>2. Side(B) /\ \A o \in B : b[o] \in Nat
    BY <1>1, <1>4
  <2>4. SideFilled(G, B, p, b)
    BY <2>2, SideFills
  <2> HIDE DEF G, H
  <2> QED
    BY <1>4, <2>4 DEF SideFilled
<1>7. /\ IsFiniteSet(H)
      /\ \A f \in H : f.quantity \in Nat \ {0}
      /\ \A f \in H : \E o \in D : f = FillOf(o, p, d[o]) /\ d[o] > 0
      /\ \A o \in D : d[o] > 0 => FillOf(o, p, d[o]) \in H
      /\ Shares(H) = v
  <2>2. Side(D) /\ \A o \in D : d[o] \in Nat
    BY <1>1, <1>5
  <2>4. SideFilled(H, D, p, d)
    BY <2>2, SideFills
  <2> HIDE DEF G, H
  <2> QED
    BY <1>5, <2>4 DEF SideFilled
<1> HIDE DEF G, H
<1>8. IsFiniteSet(F)
  <2>1. IsFiniteSet(G) /\ IsFiniteSet(H)
    BY <1>6, <1>7
  <2> QED
    BY <1>2, <2>1, FS_Union
<1>9. /\ \A f \in G : /\ f.side = "buy" /\ f.price = p
                      /\ \E o \in B : /\ f.agent = o.agent /\ f.side = o.side
                                      /\ f.limit = o.limit /\ f.quantity <= o.quantity
      /\ \A f \in H : /\ f.side = "sell" /\ f.price = p
                      /\ \E o \in D : /\ f.agent = o.agent /\ f.side = o.side
                                      /\ f.limit = o.limit /\ f.quantity <= o.quantity
  <2>1. ASSUME NEW f \in G
        PROVE  /\ f.side = "buy" /\ f.price = p
               /\ \E o \in B : /\ f.agent = o.agent /\ f.side = o.side
                               /\ f.limit = o.limit /\ f.quantity <= o.quantity
    <3>1. PICK o \in B : f = FillOf(o, p, b[o])
      BY <1>6
    <3>2. PICK n : n = b[o]
      OBVIOUS
    <3>3. f = FillOf(o, p, n)
      BY <3>1, <3>2
    <3>4. /\ f.agent = o.agent /\ f.side = o.side /\ f.limit = o.limit
          /\ f.price = p /\ f.quantity = n
      BY <3>3, FillOfFacts
    <3>5. o.side = "buy" /\ n <= o.quantity
      BY <1>3, <1>4, <3>2
    <3> QED
      BY <3>4, <3>5
  <2>2. ASSUME NEW f \in H
        PROVE  /\ f.side = "sell" /\ f.price = p
               /\ \E o \in D : /\ f.agent = o.agent /\ f.side = o.side
                               /\ f.limit = o.limit /\ f.quantity <= o.quantity
    <3>1. PICK o \in D : f = FillOf(o, p, d[o])
      BY <1>7
    <3>2. PICK n : n = d[o]
      OBVIOUS
    <3>3. f = FillOf(o, p, n)
      BY <3>1, <3>2
    <3>4. /\ f.agent = o.agent /\ f.side = o.side /\ f.limit = o.limit
          /\ f.price = p /\ f.quantity = n
      BY <3>3, FillOfFacts
    <3>5. o.side = "sell" /\ n <= o.quantity
      BY <1>3, <1>5, <3>2
    <3> QED
      BY <3>4, <3>5
  <2> QED
    BY <2>1, <2>2
<1>10. \A f \in F : /\ f.quantity \in Nat \ {0} /\ f.price = p
                    /\ \E o \in B \union D :
                          /\ f.agent = o.agent /\ f.side = o.side /\ f.limit = o.limit
                          /\ f.quantity <= o.quantity
  BY <1>2, <1>6, <1>7, <1>9
<1>11. \A f, g \in F : f.agent = g.agent => f = g
  <2> SUFFICES ASSUME NEW f \in F, NEW g \in F, f.agent = g.agent PROVE f = g
    OBVIOUS
  <2>1. CASE f \in G /\ g \in G
    BY <1>3, <1>6, <2>1, FillOfFacts
  <2>2. CASE f \in H /\ g \in H
    BY <1>3, <1>7, <2>2, FillOfFacts
  <2>3. CASE f \in G /\ g \in H
    BY <1>3, <1>6, <1>7, <2>3, FillOfFacts
  <2>4. CASE f \in H /\ g \in G
    BY <1>3, <1>6, <1>7, <2>4, FillOfFacts
  <2> QED
    BY <1>2, <2>1, <2>2, <2>3, <2>4
<1>12. Sided(F, "buy") = G /\ Sided(F, "sell") = H
  BY <1>2, <1>9 DEF Sided
<1>13. \A o \in B : Got(F, o) = b[o]
  <2> SUFFICES ASSUME NEW o \in B PROVE Got(F, o) = b[o]
    OBVIOUS
  <2>1. CASE b[o] > 0
    <3> DEFINE x == FillOf(o, p, b[o])
    <3>1. x \in F /\ x.agent = o.agent /\ x.quantity = b[o]
      BY <1>2, <1>6, <2>1, FillOfFacts
    <3> HIDE DEF x
    <3>2. {f \in F : f.agent = o.agent} = {x}
      BY <1>11, <3>1
    <3>3. Shares({x}) = x.quantity
      BY <1>4, <3>1, SharesOfOne
    <3> QED
      BY <3>1, <3>2, <3>3 DEF Got
  <2>2. CASE b[o] = 0
    <3>1. \A f \in G : f.agent # o.agent
      BY <1>3, <1>6, <2>2, FillOfFacts
    <3>2. \A f \in H : f.agent # o.agent
      BY <1>3, <1>7, FillOfFacts
    <3>3. {f \in F : f.agent = o.agent} = {}
      BY <1>2, <3>1, <3>2
    <3> QED
      BY <2>2, <3>3, SharesOfNone DEF Got
  <2> QED
    BY <1>4, <2>1, <2>2
<1>14. \A o \in D : Got(F, o) = d[o]
  <2> SUFFICES ASSUME NEW o \in D PROVE Got(F, o) = d[o]
    OBVIOUS
  <2>1. CASE d[o] > 0
    <3> DEFINE x == FillOf(o, p, d[o])
    <3>1. x \in F /\ x.agent = o.agent /\ x.quantity = d[o]
      BY <1>2, <1>7, <2>1, FillOfFacts
    <3> HIDE DEF x
    <3>2. {f \in F : f.agent = o.agent} = {x}
      BY <1>11, <3>1
    <3>3. Shares({x}) = x.quantity
      BY <1>5, <3>1, SharesOfOne
    <3> QED
      BY <3>1, <3>2, <3>3 DEF Got
  <2>2. CASE d[o] = 0
    <3>1. \A f \in H : f.agent # o.agent
      BY <1>3, <1>7, <2>2, FillOfFacts
    <3>2. \A f \in G : f.agent # o.agent
      BY <1>3, <1>6, FillOfFacts
    <3>3. {f \in F : f.agent = o.agent} = {}
      BY <1>2, <3>1, <3>2
    <3> QED
      BY <2>2, <3>3, SharesOfNone DEF Got
  <2> QED
    BY <1>5, <2>1, <2>2
<1> QED
  BY <1>6, <1>7, <1>8, <1>10, <1>11, <1>12, <1>13, <1>14 DEF B, D, v, b, d

-----------------------------------------------------------------------------
(* The result of an auction.                                                 *)
Cleared(S, cl) ==
    /\ cl.price \in Nat \ {0} /\ cl.volume \in Nat /\ IsFiniteSet(cl.fills)
    /\ \A f \in cl.fills :
          /\ f.quantity \in Nat \ {0} /\ f.price = cl.price
          /\ IF f.side = "buy" THEN cl.price <= f.limit ELSE cl.price >= f.limit
          /\ \E o \in S : /\ f.agent = o.agent /\ f.side = o.side /\ f.limit = o.limit
                          /\ f.quantity <= o.quantity
    /\ \A f, g \in cl.fills : f.agent = g.agent => f = g
    /\ \A side \in {"buy", "sell"} : Shares(Sided(cl.fills, side)) = cl.volume

LEMMA ClearingIs ==
    ASSUME NEW S, Book(S), NEW last \in Nat \ {0}, NEW p, p = BestPrice(S, last),
           NEW cl, cl = Clearing(S, last)
    PROVE  /\ p \in Nat \ {0} /\ Matched(S, p) \in Nat
           /\ cl.volume = Matched(S, p)
           /\ Matched(S, p) = 0 => cl = [price |-> last, volume |-> 0, fills |-> {}]
           /\ Matched(S, p) > 0 => cl.price = p /\ cl.fills = Fills(S, p)
<1>1. p \in Nat \ {0}
  BY BestPriceFacts
<1>2. Matched(S, p) \in Nat
  BY <1>1, SidesOfBook
<1>3. cl = IF Matched(S, p) = 0
           THEN [price |-> last, volume |-> 0, fills |-> {}]
           ELSE [price |-> p, volume |-> Matched(S, p), fills |-> Fills(S, p)]
  BY DEF Clearing
<1> QED
  BY <1>1, <1>2, <1>3

LEMMA ClearingFacts ==
    ASSUME NEW S, Book(S), NEW last \in Nat \ {0}, NEW cl, cl = Clearing(S, last)
    PROVE  Cleared(S, cl)
<1> DEFINE p == BestPrice(S, last)
<1>1. /\ p \in Nat \ {0} /\ Matched(S, p) \in Nat
      /\ cl.volume = Matched(S, p)
      /\ Matched(S, p) = 0 => cl = [price |-> last, volume |-> 0, fills |-> {}]
      /\ Matched(S, p) > 0 => cl.price = p /\ cl.fills = Fills(S, p)
  BY ClearingIs
<1> HIDE DEF p
<1>2. CASE Matched(S, p) = 0
  <2>1. cl.price = last /\ cl.volume = 0 /\ cl.fills = {}
    BY <1>1, <1>2
  <2>2. IsFiniteSet(cl.fills)
    BY <2>1, FS_EmptySet
  <2>3. \A side \in {"buy", "sell"} : Sided(cl.fills, side) = {}
    BY <2>1 DEF Sided
  <2>4. \A side \in {"buy", "sell"} : Shares(Sided(cl.fills, side)) = 0
    BY <2>3, SharesOfNone
  <2> QED
    BY <2>1, <2>2, <2>4 DEF Cleared
<1>3. CASE Matched(S, p) > 0
  <2> DEFINE F == cl.fills
  <2>1. cl.price = p /\ cl.volume = Matched(S, p) /\ F = Fills(S, p)
    BY <1>1, <1>3
  <2> HIDE DEF F
  <2>2. /\ IsFiniteSet(F)
        /\ \A f \in F : /\ f.quantity \in Nat \ {0} /\ f.price = p
                        /\ \E o \in Buyers(S, p) \union Sellers(S, p) :
                              /\ f.agent = o.agent /\ f.side = o.side /\ f.limit = o.limit
                              /\ f.quantity <= o.quantity
        /\ \A f, g \in F : f.agent = g.agent => f = g
        /\ Shares(Sided(F, "buy")) = Matched(S, p)
        /\ Shares(Sided(F, "sell")) = Matched(S, p)
    BY <1>1, <1>3, <2>1, FillsFacts
  <2>3. \A o \in Buyers(S, p) \union Sellers(S, p) :
            /\ o \in S
            /\ IF o.side = "buy" THEN p <= o.limit ELSE p >= o.limit
    BY DEF Buyers, Sellers
  <2>4. \A f \in F :
            /\ IF f.side = "buy" THEN p <= f.limit ELSE p >= f.limit
            /\ \E o \in S : /\ f.agent = o.agent /\ f.side = o.side /\ f.limit = o.limit
                            /\ f.quantity <= o.quantity
    <3> SUFFICES ASSUME NEW f \in F
                 PROVE  /\ IF f.side = "buy" THEN p <= f.limit ELSE p >= f.limit
                        /\ \E o \in S : /\ f.agent = o.agent /\ f.side = o.side
                                        /\ f.limit = o.limit /\ f.quantity <= o.quantity
      OBVIOUS
    <3>1. PICK o \in Buyers(S, p) \union Sellers(S, p) :
              /\ f.agent = o.agent /\ f.side = o.side /\ f.limit = o.limit
              /\ f.quantity <= o.quantity
      BY <2>2
    <3> QED
      BY <2>3, <3>1
  <2> QED
    BY <1>1, <2>1, <2>2, <2>4 DEF Cleared, F
<1> QED
  BY <1>1, <1>2, <1>3

(* No price at all trades more than the one the auction finds.               *)
LEMMA ClearingIsMaximal ==
    ASSUME NEW S, Book(S), NEW last \in Nat \ {0}, NEW cl, cl = Clearing(S, last),
           NEW p \in Nat \ {0}
    PROVE  Matched(S, p) <= cl.volume
  BY ClearingIs, NoBetterPrice

(* The fills of an auction are fair.                                         *)
FairTo(T, F, volume) ==
    /\ \A o \in T : /\ Got(F, o) <= o.quantity
                    /\ Gap(Got(F, o) * Shares(T), volume * o.quantity) < Shares(T)
    /\ \A o, q \in T : o.quantity > q.quantity => Got(F, o) >= Got(F, q)

LEMMA SideIsFair ==
    ASSUME NEW T, Side(T), NEW v \in Nat \ {0}, v <= Shares(T), Shares(T) \in Nat \ {0},
           NEW F, \A o \in T : Got(F, o) = Allocation(T, v)[o]
    PROVE  FairTo(T, F, v) /\ (v = Shares(T) => \A o \in T : Got(F, o) = o.quantity)
<1> PICK total \in Nat \ {0} : total = Shares(T)
  OBVIOUS
<1> PICK al : al = Allocation(T, v)
  OBVIOUS
<1>1. /\ \A o \in T : /\ al[o] \in Nat /\ al[o] <= o.quantity
                      /\ Gap(al[o] * total, v * o.quantity) < total
                      /\ v = total => al[o] = o.quantity
      /\ \A o, q \in T : o.quantity > q.quantity => al[o] >= al[q]
  BY AllocationFacts
<1>2. \A o \in T : Got(F, o) = al[o]
  OBVIOUS
<1> QED
  BY <1>1, <1>2 DEF FairTo

LEMMA ClearingIsFair ==
    ASSUME NEW S, Book(S), NEW last \in Nat \ {0}, NEW cl, cl = Clearing(S, last),
           cl.volume > 0, NEW B, B = Buyers(S, cl.price), NEW D, D = Sellers(S, cl.price)
    PROVE  /\ FairTo(B, cl.fills, cl.volume) /\ FairTo(D, cl.fills, cl.volume)
           /\ \E T \in {B, D} : \A o \in T : Got(cl.fills, o) = o.quantity
<1> PICK p : p = BestPrice(S, last)
  OBVIOUS
<1> PICK v : v = Matched(S, p)
  OBVIOUS
<1> PICK F : F = cl.fills
  OBVIOUS
<1>1. p \in Nat \ {0} /\ v \in Nat \ {0} /\ cl.volume = v /\ cl.price = p /\ F = Fills(S, p)
  BY ClearingIs
<1>2. B = Buyers(S, p) /\ D = Sellers(S, p)
  BY <1>1
<1>3. /\ \A o \in B : Got(F, o) = Allocation(B, v)[o]
      /\ \A o \in D : Got(F, o) = Allocation(D, v)[o]
  BY <1>1, <1>2, FillsFacts
<1>4. /\ Side(B) /\ Side(D) /\ Shares(B) \in Nat \ {0} /\ Shares(D) \in Nat \ {0}
      /\ v <= Shares(B) /\ v <= Shares(D) /\ v \in {Shares(B), Shares(D)}
  <2>1. /\ Side(B) /\ Side(D) /\ Shares(B) \in Nat /\ Shares(D) \in Nat
        /\ v <= Shares(B) /\ v <= Shares(D) /\ v \in {Shares(B), Shares(D)}
    BY <1>1, <1>2, SidesOfBook
  <2> QED
    BY <1>1, <2>1
<1>5. FairTo(B, F, v) /\ (v = Shares(B) => \A o \in B : Got(F, o) = o.quantity)
  BY <1>1, <1>3, <1>4, SideIsFair
<1>6. FairTo(D, F, v) /\ (v = Shares(D) => \A o \in D : Got(F, o) = o.quantity)
  BY <1>1, <1>3, <1>4, SideIsFair
<1> QED
  BY <1>1, <1>4, <1>5, <1>6

-----------------------------------------------------------------------------
(* The constraint stage.                                                     *)
Power(c, d, a) == c[a] + IF Financing = "credit" THEN CreditLimit[a] - d[a] ELSE 0

(* Accounts that owe no more than their credit lines.                        *)
Solvent(c, s, d) ==
    /\ c \in [Agents -> Nat] /\ s \in [Agents -> Nat] /\ d \in [Agents -> Nat]
    /\ \A a \in Agents : d[a] <= CreditLimit[a] /\ (Financing = "finite" => d[a] = 0)

(* Every order can be paid, or delivered, by its account.                    *)
Backed(S, c, s, d) ==
    \A o \in S : /\ o.agent \in Agents
                 /\ o.side = "buy" => o.quantity * o.limit <= Power(c, d, o.agent)
                 /\ o.side = "sell" => o.quantity <= s[o.agent]

LEMMA PowerIsNatural ==
    ASSUME NEW c, NEW s, NEW d, Solvent(c, s, d), NEW a \in Agents
    PROVE  /\ Power(c, d, a) \in Nat /\ c[a] \in Nat /\ d[a] \in Nat /\ s[a] \in Nat
           /\ CreditLimit[a] \in Nat
           /\ Power(c, d, a) = BuyingPower(AccountsOf(c, s, d)[a], Financing)
           /\ AccountsOf(c, s, d)[a].shares = s[a]
<1>1. CreditLimit[a] \in Nat /\ c[a] \in Nat /\ d[a] \in Nat /\ s[a] \in Nat /\ d[a] <= CreditLimit[a]
  BY MarketAssumption DEF Solvent
<1>2. AccountsOf(c, s, d)[a]
        = [cash |-> c[a], shares |-> s[a], debt |-> d[a], limit |-> CreditLimit[a]]
  BY DEF AccountsOf
<1>3. /\ AccountsOf(c, s, d)[a].cash = c[a] /\ AccountsOf(c, s, d)[a].shares = s[a]
      /\ AccountsOf(c, s, d)[a].debt = d[a] /\ AccountsOf(c, s, d)[a].limit = CreditLimit[a]
  BY <1>2
<1> QED
  BY <1>1, <1>3 DEF Power, BuyingPower

LEMMA WithinBudget ==
    ASSUME NEW P \in Nat, NEW l \in Nat \ {0}, NEW n \in Nat, n <= P \div l
    PROVE  n * l <= P
<1> PICK k \in Nat : k = P \div l
  BY DivFacts
<1>1. PICK r \in Nat : P = k * l + r
  BY DivFacts
<1>2. n * l <= k * l /\ n * l \in Nat /\ k * l \in Nat
  BY ProductOrder
<1> QED
  BY <1>1, <1>2

LEMMA ConstrainedFacts ==
    ASSUME NEW I, IsFiniteSet(I), I \subseteq Order(Agents), \A i \in I : i.limit > 0,
           NEW c, NEW s, NEW d, Solvent(c, s, d),
           NEW O, O = Constrained(I, AccountsOf(c, s, d), Financing)
    PROVE  Book(O) /\ Backed(O, c, s, d) /\ O \subseteq Order(Agents)
<1> DEFINE acc == AccountsOf(c, s, d)
           sole == {i \in I : /\ i.agent \in DOMAIN acc
                              /\ \A j \in I : j.agent = i.agent => j = i}
           cut(i) == Affordable(i, acc[i.agent], Financing)
           m == [i \in sole |-> [i EXCEPT !.quantity = cut(i)]]
           clipped == {m[i] : i \in sole}
<1>1. O = {o \in clipped : o.quantity > 0}
  BY DEF Constrained
<1>2. IsFiniteSet(O)
  <2>1. IsFiniteSet(sole)
    BY FS_Subset
  <2> HIDE DEF sole, m
  <2>2. IsFiniteSet(clipped)
    BY <2>1, ImageFinite
  <2>3. O \in SUBSET clipped
    BY <1>1
  <2> HIDE DEF clipped
  <2> QED
    BY <2>2, <2>3, FS_Subset
<1>3. \A i \in I : /\ i \in Order(Agents) /\ i.agent \in Agents /\ i.agent \in Nat
                   /\ i.side \in {"buy", "sell"} /\ i.quantity \in Nat /\ i.limit \in Nat \ {0}
  <2> SUFFICES ASSUME NEW i \in I
               PROVE  /\ i \in Order(Agents) /\ i.agent \in Agents /\ i.agent \in Nat
                      /\ i.side \in {"buy", "sell"} /\ i.quantity \in Nat
                      /\ i.limit \in Nat \ {0}
    OBVIOUS
  <2>1. i \in Order(Agents) /\ i.limit > 0
    OBVIOUS
  <2> HIDE DEF acc, sole, cut, m, clipped
  <2>2. i.agent \in Agents /\ i.side \in {"buy", "sell"} /\ i.quantity \in Nat /\ i.limit \in Nat
    BY <2>1 DEF Order
  <2>3. i.agent \in Nat
    BY <2>2, MarketAssumption
  <2>4. i.limit \in Nat \ {0}
    BY <2>1, <2>2
  <2> QED
    BY <2>1, <2>2, <2>3, <2>4
<1>4. \A o \in O : \E i \in sole : o = [i EXCEPT !.quantity = cut(i)] /\ o.quantity > 0
  BY <1>1
<1>5. \A i \in sole : i \in I /\ \A j \in sole : j.agent = i.agent => j = i
  OBVIOUS
<1> HIDE DEF sole
<1>6. ASSUME NEW i \in sole
      PROVE  /\ cut(i) \in Nat
             /\ i.side = "buy" => cut(i) * i.limit <= Power(c, d, i.agent)
             /\ i.side = "sell" => cut(i) <= s[i.agent]
  <2> PICK P : P = Power(c, d, i.agent)
    OBVIOUS
  <2>1. /\ P \in Nat /\ s[i.agent] \in Nat
        /\ BuyingPower(acc[i.agent], Financing) = P
        /\ acc[i.agent].shares = s[i.agent]
    BY <1>3, <1>5, PowerIsNatural
  <2> HIDE DEF acc
  <2>2. i.limit \in Nat \ {0} /\ i.quantity \in Nat /\ i.side \in {"buy", "sell"}
    BY <1>3, <1>5
  <2>3. P \div i.limit \in Nat
    BY <2>1, <2>2, DivFacts
  <2>4. CASE i.side = "buy"
    <3>1. cut(i) = Lesser(i.quantity, P \div i.limit)
      BY <2>1, <2>4 DEF Affordable
    <3>2. cut(i) \in Nat /\ cut(i) <= P \div i.limit
      BY <2>2, <2>3, <3>1 DEF Lesser
    <3> HIDE DEF cut
    <3>3. cut(i) * i.limit <= P
      BY <2>1, <2>2, <3>2, WithinBudget
    <3> QED
      BY <2>4, <3>2, <3>3
  <2>5. CASE i.side = "sell"
    <3>1. cut(i) = Lesser(i.quantity, s[i.agent])
      BY <2>1, <2>5 DEF Affordable
    <3> QED
      BY <2>1, <2>2, <2>5, <3>1 DEF Lesser
  <2> QED
    BY <2>2, <2>4, <2>5
<1> HIDE DEF cut
<1>7. ASSUME NEW o \in O, NEW i \in sole, o = [i EXCEPT !.quantity = cut(i)]
      PROVE  /\ o.agent = i.agent /\ o.side = i.side /\ o.limit = i.limit
             /\ o.quantity = cut(i) /\ o \in Order(Agents)
  <2>1. i \in Order(Agents)
    BY <1>3, <1>5
  <2>2. cut(i) \in Nat
    BY <1>6
  <2> QED
    BY <1>7, <2>1, <2>2 DEF Order
<1>8. ASSUME NEW o \in O
      PROVE  /\ o.agent \in Nat /\ o.side \in {"buy", "sell"}
             /\ o.quantity \in Nat \ {0} /\ o.limit \in Nat \ {0}
             /\ o.agent \in Agents
             /\ o.side = "buy" => o.quantity * o.limit <= Power(c, d, o.agent)
             /\ o.side = "sell" => o.quantity <= s[o.agent]
             /\ o \in Order(Agents)
  <2>1. PICK i \in sole : o = [i EXCEPT !.quantity = cut(i)] /\ o.quantity > 0
    BY <1>4
  <2>2. /\ o.agent = i.agent /\ o.side = i.side /\ o.limit = i.limit
        /\ o.quantity = cut(i) /\ o \in Order(Agents)
    BY <1>7, <2>1
  <2>3. /\ i.agent \in Nat /\ i.agent \in Agents /\ i.side \in {"buy", "sell"}
        /\ i.limit \in Nat \ {0}
    BY <1>3, <1>5
  <2> QED
    BY <1>6, <2>1, <2>2, <2>3
<1>9. ASSUME NEW o \in O, NEW q \in O, o.agent = q.agent PROVE o = q
  <2>1. PICK i \in sole : o = [i EXCEPT !.quantity = cut(i)]
    BY <1>4
  <2>2. PICK j \in sole : q = [j EXCEPT !.quantity = cut(j)]
    BY <1>4
  <2>3. o.agent = i.agent /\ q.agent = j.agent
    BY <1>7, <2>1, <2>2
  <2> QED
    BY <1>5, <1>9, <2>1, <2>2, <2>3
<1> QED
  BY <1>2, <1>8, <1>9 DEF Book, Backed

-----------------------------------------------------------------------------
(* The fills of a side by agent.                                             *)
Of(F, a, side) == {f \in F : f.agent = a /\ f.side = side}

LEMMA OneFill ==
    ASSUME NEW x, x.quantity \in Nat, x.price \in Nat
    PROVE  Shares({x}) = x.quantity /\ Value({x}) = x.quantity * x.price
<1> PICK X : X = {x}
  OBVIOUS
<1>1. IsFiniteSet(X) /\ \A f \in X : f.quantity \in Nat /\ f.price \in Nat
  BY FS_Singleton
<1>2. Value(X) = Total(X, Worths(X))
  BY <1>1, ValueTotal
<1> PICK g : g = Worths(X)
  OBVIOUS
<1>3. g[x] = x.quantity * x.price /\ g[x] \in Nat
  BY DEF Worths
<1>4. Total({x}, g) = g[x]
  BY <1>3, TotalOfOne
<1> QED
  BY <1>2, <1>3, <1>4, SharesOfOne

LEMMA NoFill == Shares({}) = 0 /\ Value({}) = 0
<1> PICK X : X = {}
  OBVIOUS
<1>1. IsFiniteSet(X) /\ \A f \in X : f.quantity \in Nat /\ f.price \in Nat
  BY FS_EmptySet
<1>2. Value(X) = Total(X, Worths(X))
  BY <1>1, ValueTotal
<1> QED
  BY <1>2, TotalOfNone, SharesOfNone

LEMMA ByAgent ==
    ASSUME NEW F, IsFiniteSet(F), NEW p \in Nat,
           \A f \in F : f.quantity \in Nat \ {0} /\ f.price = p /\ f.agent \in Agents,
           \A f, g \in F : f.agent = g.agent => f = g,
           NEW side, NEW n, n = [a \in Agents |-> Shares(Of(F, a, side))],
           NEW w, w = [a \in Agents |-> Value(Of(F, a, side))]
    PROVE  /\ Counted(Agents, n) /\ Counted(Agents, w)
           /\ \A a \in Agents : w[a] = p * n[a]
           /\ Total(Agents, n) = Shares(Sided(F, side))
           /\ Total(Agents, w) = p * Shares(Sided(F, side))
<1> DEFINE T == Sided(F, side)
           g == Amounts(T)
           k == [f \in T |-> f.agent]
<1>1. T \in SUBSET F /\ IsFiniteSet(T)
  BY FS_Subset DEF Sided
<1>2. \A f \in T : f.quantity \in Nat
  BY <1>1
<1>3. Counted(T, g) /\ Shares(T) = Total(T, g)
  BY <1>1, <1>2, SharesTotal
<1>4. ASSUME NEW a \in Agents
      PROVE  /\ n[a] \in Nat /\ w[a] \in Nat /\ w[a] = p * n[a]
             /\ n[a] = Total({f \in T : k[f] = a}, g)
  <2> DEFINE X == Of(F, a, side)
  <2>1. X = {f \in T : k[f] = a}
    BY DEF Of, Sided
  <2>2. n[a] = Shares(X) /\ w[a] = Value(X)
    OBVIOUS
  <2>3. CASE X = {}
    <3>1. n[a] = 0 /\ w[a] = 0
      BY <2>2, <2>3, NoFill
    <3>2. Total({f \in T : k[f] = a}, g) = 0
      BY <2>1, <2>3, TotalOfNone
    <3> QED
      BY <3>1, <3>2
  <2>4. CASE X # {}
    <3> HIDE DEF T, g, k
    <3>1. PICK f \in F : f \in X
      BY <2>4 DEF Of
    <3>2. X = {f}
      BY <3>1 DEF Of
    <3>3. /\ f.quantity \in Nat /\ f.price = p /\ f \in T
      BY <2>1, <3>1
    <3>4. Shares({f}) = f.quantity /\ Value({f}) = f.quantity * f.price
      BY <3>3, OneFill
    <3>5. g[f] = f.quantity
      BY <3>3 DEF g, Amounts
    <3>6. Total({f}, g) = f.quantity
      BY <3>3, <3>5, TotalOfOne
    <3>7. n[a] = f.quantity /\ w[a] = f.quantity * p
      BY <2>2, <3>2, <3>3, <3>4
    <3>8. Total({x \in T : k[x] = a}, g) = f.quantity
      BY <2>1, <3>2, <3>6
    <3> HIDE DEF X
    <3>9. f.quantity * p = p * f.quantity /\ p * f.quantity \in Nat
      BY <3>3
    <3> QED
      BY <3>3, <3>7, <3>8, <3>9
  <2> QED
    BY <2>3, <2>4
<1>5. Counted(Agents, n) /\ Counted(Agents, w)
  <2>1. IsFiniteSet(Agents) /\ \A a \in Agents : n[a] \in Nat /\ w[a] \in Nat
    BY <1>4, MarketAssumption
  <2> QED
    BY <2>1 DEF Counted
<1>6. \A f \in T : k[f] \in Agents
  <2>1. \A f \in T : f.agent \in Agents
    BY <1>1
  <2> HIDE DEF T
  <2> QED
    BY <2>1
<1>7. Total(Agents, n) = Total(T, g)
  <2>1. IsFiniteSet(Agents)
    BY MarketAssumption
  <2>2. \A a \in Agents : n[a] = Total({x \in T : k[x] = a}, g)
    BY <1>4
  <2> HIDE DEF T, g, k
  <2> QED
    BY <1>3, <1>6, <2>1, <2>2, TotalByKey
<1>8. Total(Agents, w) = p * Total(Agents, n)
  <2>1. \A a \in Agents : w[a] = p * n[a]
    BY <1>4
  <2> HIDE DEF T, g, k
  <2> QED
    BY <1>5, <2>1, TotalScale
<1> HIDE DEF g, k
<1> QED
  BY <1>3, <1>4, <1>5, <1>7, <1>8

-----------------------------------------------------------------------------
-----------------------------------------------------------------------------
(* Settlement                                                                *)

(* Nothing is created or lost, and the facility holds what it has not lent.  *)
Ledger(c, s, d, f) ==
    /\ Solvent(c, s, d)
    /\ f \in [cash : Nat, loans : Nat] /\ f.cash + f.loans = FacilityCash
    /\ Total(Agents, c) + f.cash = Total(Agents, StartCash) + FacilityCash
    /\ Total(Agents, s) = Total(Agents, StartShares)
    /\ Total(Agents, d) = f.loans

(* An auction of orders the accounts can back, before it is settled.         *)
Auctioned(S, cl, c, s, d, l) ==
    Book(S) /\ Backed(S, c, s, d) /\ Cleared(S, cl) /\ Ledger(c, s, d, l)

LEMMA AuctionFacts ==
    ASSUME NEW S, NEW cl, NEW c, NEW s, NEW d, NEW l, NEW F, F = cl.fills,
           Auctioned(S, cl, c, s, d, l)
    PROVE  /\ Book(S) /\ Backed(S, c, s, d) /\ Cleared(S, cl)
           /\ \A f \in F : f.quantity \in Nat \ {0} /\ f.price = cl.price /\ f.agent \in Agents
<1>1. Book(S) /\ Backed(S, c, s, d) /\ Cleared(S, cl)
  BY DEF Auctioned
<1>2. \A o \in S : o.agent \in Agents
  BY <1>1 DEF Backed
<1> QED
  BY <1>1, <1>2 DEF Cleared

LEMMA Products ==
    ASSUME NEW a \in Nat, NEW b \in Nat \ {0}, a <= b,
           NEW x \in Nat \ {0}, NEW y \in Nat, x <= y
    PROVE  a * x \in Nat /\ b * y \in Nat /\ a * x <= b * y
<1>1. a * x <= b * x
  BY ProductOrder
<1>2. x * b <= y * b
  BY ProductOrder
<1>3. PICK u \in Nat : u = a * x
  OBVIOUS
<1>4. PICK v \in Nat : v = b * x /\ v = x * b
  OBVIOUS
<1>5. PICK w \in Nat : w = b * y /\ w = y * b
  OBVIOUS
<1> QED
  BY <1>1, <1>2, <1>3, <1>4, <1>5

(* What an account buys it can pay, what it sells it has, and it does one of *)
(* the two in one fill.                                                      *)
LEMMA AgentFills ==
    ASSUME NEW S, NEW cl, NEW c, NEW s, NEW d, NEW l, NEW F, F = cl.fills,
           Auctioned(S, cl, c, s, d, l), NEW a \in Agents
    PROVE  /\ Shares(Bought(F, a)) \in Nat /\ Shares(Sold(F, a)) \in Nat
           /\ Value(Bought(F, a)) \in Nat /\ Value(Sold(F, a)) \in Nat
           /\ Value(Bought(F, a)) <= Power(c, d, a)
           /\ Shares(Sold(F, a)) <= s[a]
           /\ Cardinality(Bought(F, a) \union Sold(F, a)) <= 1
           /\ Cardinality(Bought(F, a) \union Sold(F, a)) \in Nat
           /\ Bought(F, a) # {} <=> Shares(Bought(F, a)) > 0
           /\ Sold(F, a) # {} <=> Shares(Sold(F, a)) > 0
           /\ Bought(F, a) = {} \/ Sold(F, a) = {}
<1> DEFINE p == cl.price
<1>1. /\ Book(S) /\ Backed(S, c, s, d) /\ Cleared(S, cl)
      /\ \A f \in F : f.quantity \in Nat \ {0} /\ f.price = p /\ f.agent \in Agents
  BY AuctionFacts
<1>2. /\ p \in Nat \ {0}
      /\ \A f, g \in F : f.agent = g.agent => f = g
      /\ \A f \in F : IF f.side = "buy" THEN p <= f.limit ELSE p >= f.limit
      /\ \A f \in F : \E o \in S : /\ f.agent = o.agent /\ f.side = o.side
                                        /\ f.limit = o.limit /\ f.quantity <= o.quantity
  BY <1>1 DEF Cleared
<1>3. Solvent(c, s, d)
  BY DEF Auctioned, Ledger
<1>4. /\ Power(c, d, a) \in Nat /\ s[a] \in Nat
  BY <1>3, PowerIsNatural
<1>5. Bought(F, a) = Of(F, a, "buy") /\ Sold(F, a) = Of(F, a, "sell")
  BY DEF Bought, Sold, Of
<1> HIDE DEF p
<1>6. CASE \A f \in F : f.agent # a
  <2>1. Bought(F, a) = {} /\ Sold(F, a) = {} /\ Bought(F, a) \union Sold(F, a) = {}
    BY <1>5, <1>6 DEF Of
  <2> QED
    BY <1>4, <2>1, NoFill, FS_EmptySet
<1>7. ASSUME NEW f \in F, f.agent = a
      PROVE  /\ Shares({f}) = f.quantity /\ Value({f}) = f.quantity * f.price
             /\ f.quantity \in Nat \ {0} /\ f.quantity * f.price \in Nat
             /\ f.side = "buy" => f.quantity * f.price <= Power(c, d, a)
             /\ f.side = "sell" => f.quantity <= s[a]
             /\ f.side \in {"buy", "sell"}
             /\ Cardinality({f}) = 1
             /\ Of(F, a, f.side) = {f} /\ \A side : side # f.side => Of(F, a, side) = {}
  <2>1. PICK o \in S : /\ f.agent = o.agent /\ f.side = o.side
                            /\ f.limit = o.limit /\ f.quantity <= o.quantity
    BY <1>2
  <2>2. /\ f.quantity \in Nat \ {0} /\ f.price = p /\ p \in Nat \ {0}
    BY <1>1, <1>2
  <2>3. /\ o.quantity \in Nat \ {0} /\ o.limit \in Nat \ {0} /\ o.side \in {"buy", "sell"}
    BY <1>1 DEF Book
  <2>4. Shares({f}) = f.quantity /\ Value({f}) = f.quantity * f.price /\ f.quantity * f.price \in Nat
    <3>1. f.quantity \in Nat /\ f.price \in Nat
      BY <2>2
    <3>2. f.quantity * f.price \in Nat
      <4> PICK x \in Nat, y \in Nat : x = f.quantity /\ y = f.price
        BY <3>1
      <4> QED
        OBVIOUS
    <3> QED
      BY <3>1, <3>2, OneFill
  <2>5. ASSUME f.side = "buy" PROVE f.quantity * f.price <= Power(c, d, a)
    <3>1. p <= o.limit
      BY <1>2, <2>1, <2>5
    <3>2. f.quantity * p <= o.quantity * o.limit /\ f.quantity * p \in Nat /\ o.quantity * o.limit \in Nat
      BY <2>1, <2>2, <2>3, <3>1, Products
    <3>3. o.quantity * o.limit <= Power(c, d, a)
      BY <1>1, <1>7, <2>1, <2>5 DEF Backed
    <3> QED
      BY <1>4, <2>2, <3>2, <3>3
  <2>6. ASSUME f.side = "sell" PROVE f.quantity <= s[a]
    <3>1. o.quantity <= s[a]
      BY <1>1, <1>7, <2>1, <2>6 DEF Backed
    <3> QED
      BY <1>4, <2>1, <2>2, <2>3, <3>1
  <2>7. Of(F, a, f.side) = {f} /\ \A side : side # f.side => Of(F, a, side) = {}
    BY <1>2, <1>7 DEF Of
  <2>8. Cardinality({f}) = 1
    BY FS_Singleton
  <2> QED
    BY <2>1, <2>2, <2>3, <2>4, <2>5, <2>6, <2>7, <2>8
<1>8. ASSUME NEW f \in F, f.agent = a, f.side = "buy"
      PROVE  /\ Bought(F, a) = {f} /\ Sold(F, a) = {} /\ Bought(F, a) \union Sold(F, a) = {f}
             /\ Shares(Bought(F, a)) = f.quantity /\ Value(Bought(F, a)) = f.quantity * f.price
             /\ Shares(Sold(F, a)) = 0 /\ Value(Sold(F, a)) = 0
  <2>1. Bought(F, a) = {f} /\ Sold(F, a) = {}
    BY <1>5, <1>7, <1>8
  <2> QED
    BY <1>7, <1>8, <2>1, NoFill
<1>9. ASSUME NEW f \in F, f.agent = a, f.side = "sell"
      PROVE  /\ Sold(F, a) = {f} /\ Bought(F, a) = {} /\ Bought(F, a) \union Sold(F, a) = {f}
             /\ Shares(Sold(F, a)) = f.quantity /\ Value(Sold(F, a)) = f.quantity * f.price
             /\ Shares(Bought(F, a)) = 0 /\ Value(Bought(F, a)) = 0
  <2>1. Sold(F, a) = {f} /\ Bought(F, a) = {}
    BY <1>5, <1>7, <1>9
  <2> QED
    BY <1>7, <1>9, <2>1, NoFill
<1>10. CASE \E f \in F : f.agent = a
  <2>1. PICK f \in F : f.agent = a
    BY <1>10
  <2> PICK n : n = f.quantity
    OBVIOUS
  <2> PICK w : w = f.quantity * f.price
    OBVIOUS
  <2>4. /\ n \in Nat \ {0} /\ w \in Nat /\ f.side \in {"buy", "sell"}
        /\ f.side = "buy" => w <= Power(c, d, a)
        /\ f.side = "sell" => n <= s[a]
        /\ Cardinality({f}) = 1
    BY <1>7, <2>1
  <2>2. CASE f.side = "buy"
    <3>1. /\ Bought(F, a) = {f} /\ Sold(F, a) = {} /\ Bought(F, a) \union Sold(F, a) = {f}
          /\ Shares(Bought(F, a)) = n /\ Value(Bought(F, a)) = w
          /\ Shares(Sold(F, a)) = 0 /\ Value(Sold(F, a)) = 0
      BY <1>8, <2>1, <2>2
    <3>2. Bought(F, a) # {}
      BY <3>1
    <3> QED
      BY <1>4, <2>2, <2>4, <3>1, <3>2
  <2>3. CASE f.side = "sell"
    <3>1. /\ Sold(F, a) = {f} /\ Bought(F, a) = {} /\ Bought(F, a) \union Sold(F, a) = {f}
          /\ Shares(Sold(F, a)) = n /\ Value(Sold(F, a)) = w
          /\ Shares(Bought(F, a)) = 0 /\ Value(Bought(F, a)) = 0
      BY <1>9, <2>1, <2>3
    <3>2. Sold(F, a) # {}
      BY <3>1
    <3> QED
      BY <1>4, <2>3, <2>4, <3>1, <3>2
  <2> QED
    BY <2>2, <2>3, <2>4
<1> QED
  BY <1>6, <1>10

(* What an account is missing its credit line covers.                        *)
LEMMA ShortfallFacts ==
    ASSUME NEW S, NEW cl, NEW c, NEW s, NEW d, NEW l, NEW F, F = cl.fills,
           Auctioned(S, cl, c, s, d, l), NEW a \in Agents
    PROVE  /\ Shortfall(F, c, a) \in Nat
           /\ Shortfall(F, c, a) > 0 => Financing = "credit"
           /\ Shortfall(F, c, a) <= CreditLimit[a] - d[a]
           /\ Value(Bought(F, a)) <= c[a] + Shortfall(F, c, a)
<1>1. Value(Bought(F, a)) \in Nat /\ Value(Bought(F, a)) <= Power(c, d, a)
  BY AgentFills
<1>2. Solvent(c, s, d)
  BY DEF Auctioned, Ledger
<1>3. /\ Power(c, d, a) \in Nat /\ c[a] \in Nat /\ d[a] \in Nat
      /\ CreditLimit[a] \in Nat
  BY <1>2, PowerIsNatural
<1>4. d[a] <= CreditLimit[a]
  BY <1>2 DEF Solvent
<1> QED
  BY <1>1, <1>3, <1>4 DEF Shortfall, Power

(* Settlement refuses for one reason only.                                   *)
LEMMA RefusedByFacility ==
    ASSUME NEW S, NEW cl, NEW c, NEW s, NEW d, NEW l, NEW F, F = cl.fills,
           Auctioned(S, cl, c, s, d, l), Refused(S, cl, c, s, d, l)
    PROVE  Borrowed(F, c) > l.cash
<1>1. Cleared(S, cl)
  BY AuctionFacts
<1>2. ASSUME NEW a \in Agents
      PROVE  /\ ~(Shortfall(F, c, a) > 0 /\ Financing # "credit")
             /\ ~(Shortfall(F, c, a) > CreditLimit[a] - d[a])
             /\ ~(Shares(Sold(F, a)) > s[a] + Shares(Bought(F, a)))
             /\ ~(Cardinality(Bought(F, a) \union Sold(F, a)) > 1)
  <2>1. s[a] \in Nat /\ d[a] \in Nat /\ CreditLimit[a] \in Nat
    <3>1. Solvent(c, s, d)
      BY DEF Auctioned, Ledger
    <3> QED
      BY <3>1, PowerIsNatural
  <2>2. /\ Shares(Bought(F, a)) \in Nat /\ Shares(Sold(F, a)) \in Nat /\ Shares(Sold(F, a)) <= s[a]
        /\ Cardinality(Bought(F, a) \union Sold(F, a)) <= 1
        /\ Cardinality(Bought(F, a) \union Sold(F, a)) \in Nat
    BY AgentFills
  <2>3. /\ Shortfall(F, c, a) \in Nat
        /\ Shortfall(F, c, a) > 0 => Financing = "credit"
        /\ Shortfall(F, c, a) <= CreditLimit[a] - d[a]
    BY ShortfallFacts
  <2> QED
    BY <2>1, <2>2, <2>3
<1>3. ~\E f \in F :
          ~\E o \in S : /\ o.agent = f.agent /\ o.side = f.side /\ o.limit = f.limit
                             /\ f.quantity <= o.quantity /\ f.price = cl.price
  BY <1>1 DEF Cleared
<1>4. ~\E side \in {"buy", "sell"} :
          Shares({f \in F : f.side = side}) # cl.volume
  BY <1>1 DEF Cleared, Sided
<1> QED
  BY <1>2, <1>3, <1>4 DEF Refused

LEMMA SettledLedger ==
    ASSUME NEW S, NEW cl, NEW c, NEW s, NEW d, NEW l, NEW F, F = cl.fills,
           Auctioned(S, cl, c, s, d, l), ~Refused(S, cl, c, s, d, l)
    PROVE  Ledger(Paid(F, c), Delivered(F, s), Owed(F, c, d), Lent(F, c, l))
<1> DEFINE p == cl.price
           nb == [a \in Agents |-> Shares(Of(F, a, "buy"))]
           ns == [a \in Agents |-> Shares(Of(F, a, "sell"))]
           wb == [a \in Agents |-> Value(Of(F, a, "buy"))]
           ws == [a \in Agents |-> Value(Of(F, a, "sell"))]
           had == [a \in Agents |-> c[a] + Missing(F, c)[a]]
           got == [a \in Agents |-> Paid(F, c)[a] + wb[a]]
           old == [a \in Agents |-> had[a] + ws[a]]
           held == [a \in Agents |-> s[a] + nb[a]]
<1>1. Ledger(c, s, d, l) /\ Solvent(c, s, d)
  BY DEF Auctioned, Ledger
<1>2. Cleared(S, cl) /\ \A f \in F : f.quantity \in Nat \ {0} /\ f.price = p /\ f.agent \in Agents
  BY AuctionFacts
<1>3. /\ IsFiniteSet(F) /\ p \in Nat /\ cl.volume \in Nat
      /\ \A f, g \in F : f.agent = g.agent => f = g
      /\ Shares(Sided(F, "buy")) = cl.volume /\ Shares(Sided(F, "sell")) = cl.volume
  BY <1>2 DEF Cleared
<1>4. \A a \in Agents : Bought(F, a) = Of(F, a, "buy") /\ Sold(F, a) = Of(F, a, "sell")
  BY DEF Bought, Sold, Of
<1> HIDE DEF p
<1>5. /\ Counted(Agents, nb) /\ Counted(Agents, wb)
      /\ Total(Agents, nb) = cl.volume /\ Total(Agents, wb) = p * cl.volume
  BY <1>2, <1>3, ByAgent
<1>6. /\ Counted(Agents, ns) /\ Counted(Agents, ws)
      /\ Total(Agents, ns) = cl.volume /\ Total(Agents, ws) = p * cl.volume
  BY <1>2, <1>3, ByAgent
<1>7. IsFiniteSet(Agents) /\ \A a \in Agents : Shortfall(F, c, a) \in Nat
  BY MarketAssumption, ShortfallFacts
<1>8. Counted(Agents, Missing(F, c)) /\ Borrowed(F, c) = Total(Agents, Missing(F, c))
  BY <1>7, BorrowedTotal
<1>9. ASSUME NEW a \in Agents
      PROVE  /\ nb[a] = Shares(Bought(F, a)) /\ ns[a] = Shares(Sold(F, a))
             /\ wb[a] = Value(Bought(F, a)) /\ ws[a] = Value(Sold(F, a))
             /\ nb[a] \in Nat /\ ns[a] \in Nat /\ wb[a] \in Nat /\ ws[a] \in Nat
             /\ c[a] \in Nat /\ s[a] \in Nat /\ d[a] \in Nat
             /\ Missing(F, c)[a] = Shortfall(F, c, a) /\ Missing(F, c)[a] \in Nat
             /\ wb[a] <= c[a] + Missing(F, c)[a] /\ ns[a] <= s[a]
             /\ d[a] + Missing(F, c)[a] <= CreditLimit[a]
             /\ Financing = "finite" => d[a] = 0 /\ Missing(F, c)[a] = 0
  <2>1. /\ Shares(Bought(F, a)) \in Nat /\ Shares(Sold(F, a)) \in Nat /\ Shares(Sold(F, a)) <= s[a]
        /\ Value(Bought(F, a)) \in Nat /\ Value(Sold(F, a)) \in Nat
    BY AgentFills
  <2>2. /\ Shortfall(F, c, a) \in Nat
        /\ Shortfall(F, c, a) > 0 => Financing = "credit"
        /\ Shortfall(F, c, a) <= CreditLimit[a] - d[a]
        /\ Value(Bought(F, a)) <= c[a] + Shortfall(F, c, a)
    BY ShortfallFacts
  <2>3. /\ c[a] \in Nat /\ s[a] \in Nat /\ d[a] \in Nat /\ CreditLimit[a] \in Nat
    BY <1>1, PowerIsNatural
  <2>4. Financing = "finite" => d[a] = 0
    BY <1>1 DEF Solvent
  <2>5. /\ nb[a] = Shares(Bought(F, a)) /\ ns[a] = Shares(Sold(F, a))
        /\ wb[a] = Value(Bought(F, a)) /\ ws[a] = Value(Sold(F, a))
        /\ Missing(F, c)[a] = Shortfall(F, c, a)
    BY <1>4 DEF Missing
  <2> HIDE DEF nb, ns, wb, ws
  <2> QED
    BY <2>1, <2>2, <2>3, <2>4, <2>5
<1> HIDE DEF nb, ns, wb, ws
<1>10. ASSUME NEW a \in Agents
       PROVE  /\ Paid(F, c)[a] = c[a] + Missing(F, c)[a] - wb[a] + ws[a] /\ Paid(F, c)[a] \in Nat
              /\ Delivered(F, s)[a] = s[a] + nb[a] - ns[a] /\ Delivered(F, s)[a] \in Nat
              /\ Owed(F, c, d)[a] = d[a] + Missing(F, c)[a] /\ Owed(F, c, d)[a] \in Nat
              /\ Owed(F, c, d)[a] <= CreditLimit[a] /\ (Financing = "finite" => Owed(F, c, d)[a] = 0)
  <2>1. /\ Paid(F, c)[a] = c[a] + Missing(F, c)[a] - wb[a] + ws[a]
        /\ Delivered(F, s)[a] = s[a] + nb[a] - ns[a]
        /\ Owed(F, c, d)[a] = d[a] + Missing(F, c)[a]
    BY <1>9 DEF Paid, Delivered, Owed
  <2> QED
    BY <1>9, <2>1
<1>11. Solvent(Paid(F, c), Delivered(F, s), Owed(F, c, d))
  <2>1. /\ Paid(F, c) = [a \in Agents |-> Paid(F, c)[a]] /\ Delivered(F, s) = [a \in Agents |-> Delivered(F, s)[a]]
        /\ Owed(F, c, d) = [a \in Agents |-> Owed(F, c, d)[a]]
    BY DEF Paid, Delivered, Owed
  <2>2. /\ Paid(F, c) \in [Agents -> Nat] /\ Delivered(F, s) \in [Agents -> Nat] /\ Owed(F, c, d) \in [Agents -> Nat]
    BY <1>10, <2>1
  <2> QED
    BY <1>10, <2>2 DEF Solvent
<1>12. /\ Counted(Agents, c) /\ Counted(Agents, s) /\ Counted(Agents, d)
       /\ Counted(Agents, Paid(F, c)) /\ Counted(Agents, Delivered(F, s)) /\ Counted(Agents, Owed(F, c, d))
  BY <1>7, <1>9, <1>10 DEF Counted
<1>13. Total(Agents, Owed(F, c, d)) = Total(Agents, d) + Borrowed(F, c)
  <2>1. \A a \in Agents : Owed(F, c, d)[a] = d[a] + Missing(F, c)[a]
    BY <1>10
  <2> QED
    BY <1>8, <1>12, <2>1, TotalAdd
<1>14. Total(Agents, Delivered(F, s)) = Total(Agents, s)
  <2>1. \A a \in Agents : held[a] = s[a] + nb[a]
    OBVIOUS
  <2>2. \A a \in Agents : held[a] = Delivered(F, s)[a] + ns[a]
    BY <1>9, <1>10
  <2> HIDE DEF held
  <2>3. Total(Agents, held) = Total(Agents, s) + Total(Agents, nb)
    BY <1>5, <1>12, <2>1, TotalAdd
  <2>4. Total(Agents, held) = Total(Agents, Delivered(F, s)) + Total(Agents, ns)
    BY <1>6, <1>12, <2>2, TotalAdd
  <2>5. Total(Agents, Delivered(F, s)) \in Nat /\ Total(Agents, s) \in Nat
    BY <1>12, CountedParts
  <2>6. Total(Agents, nb) = Total(Agents, ns) /\ Total(Agents, nb) \in Nat
    BY <1>3, <1>5, <1>6
  <2> QED
    BY <2>3, <2>4, <2>5, <2>6
<1>15. Total(Agents, Paid(F, c)) = Total(Agents, c) + Borrowed(F, c)
  <2>1. \A a \in Agents : had[a] = c[a] + Missing(F, c)[a]
    OBVIOUS
  <2>2. Counted(Agents, had)
    BY <1>7, <1>9 DEF Counted
  <2>3. Total(Agents, had) = Total(Agents, c) + Borrowed(F, c)
    <3> HIDE DEF had
    <3> QED
      BY <1>8, <1>12, <2>1, TotalAdd
  <2>4. \A a \in Agents : old[a] = had[a] + ws[a]
    OBVIOUS
  <2>5. \A a \in Agents : old[a] = Paid(F, c)[a] + wb[a]
    BY <1>9, <1>10
  <2> HIDE DEF had, old
  <2>6. Total(Agents, old) = Total(Agents, had) + Total(Agents, ws)
    BY <1>6, <2>2, <2>4, TotalAdd
  <2>7. Total(Agents, old) = Total(Agents, Paid(F, c)) + Total(Agents, wb)
    BY <1>5, <1>12, <2>5, TotalAdd
  <2>8. Total(Agents, Paid(F, c)) \in Nat /\ Total(Agents, had) \in Nat
    BY <1>12, <2>2, CountedParts
  <2>9. PICK k \in Nat : k = p * cl.volume
    BY <1>3
  <2> QED
    BY <1>5, <1>6, <2>3, <2>6, <2>7, <2>8, <2>9
<1>16. Borrowed(F, c) \in Nat /\ Borrowed(F, c) <= l.cash /\ l.cash \in Nat /\ l.loans \in Nat
  <2>1. l.cash \in Nat /\ l.loans \in Nat
    BY <1>1 DEF Ledger
  <2>2. Borrowed(F, c) \in Nat
    BY <1>8, CountedParts
  <2>3. ~(Borrowed(F, c) > l.cash)
    BY DEF Refused
  <2> QED
    BY <2>1, <2>2, <2>3
<1>17. /\ Lent(F, c, l) \in [cash : Nat, loans : Nat]
       /\ Lent(F, c, l).cash = l.cash - Borrowed(F, c) /\ Lent(F, c, l).loans = l.loans + Borrowed(F, c)
  <2>1. l.cash - Borrowed(F, c) \in Nat /\ l.loans + Borrowed(F, c) \in Nat
    BY <1>16
  <2> QED
    BY <2>1 DEF Lent
<1>18. /\ l.cash + l.loans = FacilityCash
       /\ Total(Agents, c) + l.cash = Total(Agents, StartCash) + FacilityCash
       /\ Total(Agents, s) = Total(Agents, StartShares)
       /\ Total(Agents, d) = l.loans
  BY <1>1 DEF Ledger
<1>19. Total(Agents, c) \in Nat
  BY <1>12, CountedParts
<1>20. /\ Lent(F, c, l).cash + Lent(F, c, l).loans = FacilityCash
       /\ Total(Agents, Paid(F, c)) + Lent(F, c, l).cash = Total(Agents, StartCash) + FacilityCash
       /\ Total(Agents, Delivered(F, s)) = Total(Agents, StartShares)
       /\ Total(Agents, Owed(F, c, d)) = Lent(F, c, l).loans
  BY <1>13, <1>14, <1>15, <1>16, <1>17, <1>18, <1>19
<1> QED
  BY <1>11, <1>17, <1>20 DEF Ledger

LEMMA SumOfAccounts ==
    ASSUME NEW f \in [Agents -> Nat]
    PROVE  Sum(f) = Total(Agents, f) /\ Total(Agents, f) \in Nat
<1>1. Counted(Agents, f)
  BY MarketAssumption DEF Counted
<1> QED
  BY <1>1, SumTotal, CountedParts

(* What the facility holds covers what may still be drawn, when it starts    *)
(* with the sum of the credit lines.                                         *)
LEMMA LinesAreCovered ==
    ASSUME NEW c, NEW s, NEW d, NEW l, Ledger(c, s, d, l)
    PROVE  l.cash + Sum(d) >= Sum(CreditLimit)
<1>1. /\ l.cash + l.loans = FacilityCash /\ Total(Agents, d) = l.loans
      /\ l.cash \in Nat /\ l.loans \in Nat /\ d \in [Agents -> Nat]
  BY DEF Ledger, Solvent
<1>2. Sum(d) = Total(Agents, d)
  BY <1>1, SumOfAccounts
<1> QED
  BY <1>1, <1>2, CellAssumption

LEMMA CreditCovers ==
    ASSUME NEW S, NEW cl, NEW c, NEW s, NEW d, NEW l, Auctioned(S, cl, c, s, d, l),
           Refused(S, cl, c, s, d, l)
    PROVE  FALSE
<1> PICK F : F = cl.fills
  OBVIOUS
<1>1. Ledger(c, s, d, l) /\ Solvent(c, s, d)
  BY DEF Auctioned, Ledger
<1>2. /\ l.cash + l.loans = FacilityCash /\ Total(Agents, d) = l.loans
      /\ l.cash \in Nat /\ l.loans \in Nat
  BY <1>1 DEF Ledger
<1>3. /\ Sum(CreditLimit) = Total(Agents, CreditLimit) /\ Total(Agents, CreditLimit) \in Nat
      /\ Counted(Agents, CreditLimit)
  BY MarketAssumption, SumOfAccounts DEF Counted
<1>4. FacilityCash >= Total(Agents, CreditLimit) /\ FacilityCash \in Nat
  BY <1>3, CellAssumption, MarketAssumption
<1>5. Borrowed(F, c) > l.cash
  BY RefusedByFacility
<1>6. IsFiniteSet(Agents) /\ \A a \in Agents : Shortfall(F, c, a) \in Nat
  BY MarketAssumption, ShortfallFacts
<1>7. Counted(Agents, Missing(F, c)) /\ Borrowed(F, c) = Total(Agents, Missing(F, c))
  BY <1>6, BorrowedTotal
<1> DEFINE due == [a \in Agents |-> d[a] + Missing(F, c)[a]]
<1>8. \A a \in Agents : /\ due[a] = d[a] + Missing(F, c)[a] /\ d[a] \in Nat
                        /\ due[a] \in Nat /\ due[a] <= CreditLimit[a]
  <2> SUFFICES ASSUME NEW a \in Agents
               PROVE  /\ due[a] = d[a] + Missing(F, c)[a] /\ d[a] \in Nat
                      /\ due[a] \in Nat /\ due[a] <= CreditLimit[a]
    OBVIOUS
  <2>1. due[a] = d[a] + Missing(F, c)[a] /\ Missing(F, c)[a] = Shortfall(F, c, a)
    BY DEF Missing
  <2>2. Shortfall(F, c, a) \in Nat /\ Shortfall(F, c, a) <= CreditLimit[a] - d[a]
    BY ShortfallFacts
  <2>3. d[a] \in Nat /\ CreditLimit[a] \in Nat
    BY <1>1, PowerIsNatural
  <2> HIDE DEF due
  <2> QED
    BY <2>1, <2>2, <2>3
<1> HIDE DEF due
<1>9. Counted(Agents, due) /\ Counted(Agents, d)
  BY <1>6, <1>8 DEF Counted
<1>10. Total(Agents, due) = Total(Agents, d) + Total(Agents, Missing(F, c))
  BY <1>7, <1>8, <1>9, TotalAdd
<1>11. Total(Agents, due) <= Total(Agents, CreditLimit)
  BY <1>3, <1>8, <1>9, TotalMonotone
<1>12. Borrowed(F, c) \in Nat /\ Total(Agents, d) \in Nat
  BY <1>7, <1>9, CountedParts
<1> QED
  BY <1>2, <1>3, <1>4, <1>5, <1>7, <1>10, <1>11, <1>12

-----------------------------------------------------------------------------
(* The inductive invariant of the market.                                    *)

MarketInv ==
    /\ phase \in {"decide", "constrain", "clear", "settle", "done", "raised"}
    /\ round \in 0..Rounds /\ (phase # "done" => round < Rounds)
    /\ asked \subseteq Agents
    /\ IsFiniteSet(intents) /\ intents \subseteq Order(Agents)
    /\ \A i \in intents : i.limit > 0
    /\ orders \subseteq Order(Agents)
    /\ price \in Nat \ {0}
    /\ Ledger(cash, shares, debt, facility)
    /\ phase \in {"clear", "settle", "raised"} =>
          Book(orders) /\ Backed(orders, cash, shares, debt)
    /\ phase \in {"settle", "raised"} => clearing = Clearing(orders, price)
    /\ phase \notin {"settle", "raised"} => clearing = Idle

LEMMA MarketAuction ==
    ASSUME MarketInv, phase \in {"settle", "raised"}
    PROVE  Auctioned(orders, clearing, cash, shares, debt, facility)
<1>1. /\ Book(orders) /\ Backed(orders, cash, shares, debt)
      /\ clearing = Clearing(orders, price) /\ price \in Nat \ {0}
      /\ Ledger(cash, shares, debt, facility)
  BY DEF MarketInv
<1>2. Cleared(orders, clearing)
  BY <1>1, ClearingFacts
<1> QED
  BY <1>1, <1>2 DEF Auctioned

-----------------------------------------------------------------------------
(* The steps of the market keep the invariant.                               *)

LEMMA StartingLedger ==
    Ledger(StartCash, StartShares, [a \in Agents |-> 0], [cash |-> FacilityCash, loans |-> 0])
<1> DEFINE none == [a \in Agents |-> 0]
           f == [cash |-> FacilityCash, loans |-> 0]
<1>1. Solvent(StartCash, StartShares, none)
  BY MarketAssumption DEF Solvent
<1>2. Total(Agents, none) = 0
  <2> PICK A : A = {}
    OBVIOUS
  <2>1. IsFiniteSet(Agents) /\ A \in SUBSET Agents /\ Cardinality(A) = 0
    BY MarketAssumption, FS_EmptySet
  <2>2. \A x \in Agents : none[x] = IF x \in A THEN 1 ELSE 0
    OBVIOUS
  <2> HIDE DEF none
  <2> QED
    BY <2>1, <2>2, TotalOfOnes
<1>3. Counted(Agents, StartCash) /\ Total(Agents, StartCash) \in Nat
  <2>1. Counted(Agents, StartCash)
    BY MarketAssumption DEF Counted
  <2> QED
    BY <2>1, CountedParts
<1>4. f \in [cash : Nat, loans : Nat] /\ f.cash = FacilityCash /\ f.loans = 0
  BY MarketAssumption
<1>5. f.cash + f.loans = FacilityCash
  BY <1>4, MarketAssumption
<1>6. Ledger(StartCash, StartShares, none, f)
  <2> HIDE DEF none, f
  <2> QED
    BY <1>1, <1>2, <1>3, <1>4, <1>5 DEF Ledger
<1> QED
  BY <1>6

LEMMA InitMarket == Init => MarketInv
<1> SUFFICES ASSUME Init PROVE MarketInv
  OBVIOUS
<1> DEFINE none == [a \in Agents |-> 0]
           f == [cash |-> FacilityCash, loans |-> 0]
<1>6. Ledger(StartCash, StartShares, none, f)
  BY StartingLedger
<1>7. /\ cash = StartCash /\ shares = StartShares /\ debt = none /\ facility = f
      /\ round = 0 /\ asked = {} /\ intents = {} /\ orders = {} /\ clearing = Idle
      /\ price = StartPrice /\ phase = IF Rounds = 0 THEN "done" ELSE "decide"
  BY DEF Init
<1>8. Ledger(cash, shares, debt, facility)
  <2> HIDE DEF none, f
  <2> QED
    BY <1>6, <1>7
<1>9. IsFiniteSet(intents)
  BY <1>7, FS_EmptySet
<1>10. price \in Nat \ {0} /\ round \in 0..Rounds /\ (phase # "done" => round < Rounds)
  BY <1>7, MarketAssumption
<1> HIDE DEF none, f
<1> QED
  BY <1>7, <1>8, <1>9, <1>10 DEF MarketInv

(* A policy answers with any order at a positive limit, or with none.        *)
LEMMA AskMarket ==
    ASSUME MarketInv, NEW a, NEW new, IsFiniteSet(new), new \subseteq Order(Agents),
           \A i \in new : i.limit > 0, Ask(a, new)
    PROVE  MarketInv'
<1>1. /\ IsFiniteSet(intents \union new) /\ intents \union new \subseteq Order(Agents)
      /\ \A i \in intents \union new : i.limit > 0
  <2>1. /\ IsFiniteSet(intents) /\ intents \subseteq Order(Agents)
        /\ \A i \in intents : i.limit > 0
    BY DEF MarketInv
  <2> QED
    BY <2>1, FS_Union
<1>2. /\ intents' = intents \union new /\ asked' = asked \union {a} /\ a \in Agents
      /\ phase = "decide" /\ phase' \in {"decide", "constrain"}
      /\ round' = round /\ orders' = orders /\ clearing' = clearing /\ price' = price
      /\ cash' = cash /\ shares' = shares /\ debt' = debt /\ facility' = facility
  BY DEF Ask, market, accounts
<1> QED
  BY <1>1, <1>2 DEF MarketInv

LEMMA ConstrainMarket ==
    ASSUME MarketInv, Constrain
    PROVE  MarketInv'
<1>1. /\ phase = "constrain" /\ phase' = "clear"
      /\ orders' = Constrained(intents, AccountsOf(cash, shares, debt), Financing)
      /\ round' = round /\ asked' = asked /\ intents' = intents /\ clearing' = clearing
      /\ price' = price
      /\ cash' = cash /\ shares' = shares /\ debt' = debt /\ facility' = facility
  BY DEF Constrain, market, accounts
<1>2. /\ IsFiniteSet(intents) /\ intents \subseteq Order(Agents)
      /\ \A i \in intents : i.limit > 0 /\ Solvent(cash, shares, debt)
  BY DEF MarketInv, Ledger
<1>3. Solvent(cash, shares, debt)
  BY DEF MarketInv, Ledger
<1>4. PICK O : O = Constrained(intents, AccountsOf(cash, shares, debt), Financing)
  OBVIOUS
<1>5. Book(O) /\ Backed(O, cash, shares, debt) /\ O \subseteq Order(Agents)
  BY <1>2, <1>3, <1>4, ConstrainedFacts
<1>6. orders' = O
  BY <1>1, <1>4
<1> QED
  BY <1>1, <1>5, <1>6 DEF MarketInv

LEMMA ClearMarket ==
    ASSUME MarketInv, Clear
    PROVE  MarketInv'
  BY DEF MarketInv, Clear, market, accounts

LEMMA RaiseMarket ==
    ASSUME MarketInv, SettleRaises
    PROVE  MarketInv'
  BY DEF MarketInv, SettleRaises, market, accounts

LEMMA SettleMarket ==
    ASSUME MarketInv, Settle
    PROVE  MarketInv'
<1> PICK F : F = clearing.fills
  OBVIOUS
<1>1. /\ phase = "settle" /\ ~Refused(orders, clearing, cash, shares, debt, facility)
      /\ cash' = Paid(F, cash) /\ shares' = Delivered(F, shares)
      /\ debt' = Owed(F, cash, debt) /\ facility' = Lent(F, cash, facility)
      /\ price' = clearing.price /\ round' = round + 1
      /\ phase' = IF round' = Rounds THEN "done" ELSE "decide"
      /\ asked' = {} /\ intents' = {} /\ orders' = {} /\ clearing' = Idle
  BY DEF Settle, Fails
<1>2. Auctioned(orders, clearing, cash, shares, debt, facility)
  BY <1>1, MarketAuction
<1>3. Ledger(cash', shares', debt', facility')
  <2>1. Ledger(Paid(F, cash), Delivered(F, shares), Owed(F, cash, debt), Lent(F, cash, facility))
    BY <1>1, <1>2, SettledLedger
  <2> QED
    BY <1>1, <2>1
<1>4. clearing.price \in Nat \ {0}
  BY <1>2 DEF Auctioned, Cleared
<1>5. IsFiniteSet(intents')
  BY <1>1, FS_EmptySet
<1>6. round' \in 0..Rounds /\ (phase' # "done" => round' < Rounds)
  <2>1. round \in 0..Rounds /\ round < Rounds
    BY <1>1 DEF MarketInv
  <2> QED
    BY <1>1, <2>1, MarketAssumption
<1> QED
  BY <1>1, <1>3, <1>4, <1>5, <1>6 DEF MarketInv

LEMMA DecideMarket ==
    ASSUME MarketInv, Decide
    PROVE  MarketInv'
<1>1. CASE \E a \in Agents : Ask(a, {})
  <2> PICK new : new = {}
    OBVIOUS
  <2>1. PICK a \in Agents : Ask(a, new)
    BY <1>1
  <2>2. IsFiniteSet(new) /\ new \subseteq Order(Agents) /\ \A i \in new : i.limit > 0
    BY FS_EmptySet
  <2> QED
    BY <2>1, <2>2, AskMarket
<1>2. CASE \E a \in Agents, s \in {"buy", "sell"}, n \in Quantities, p \in Limits :
              Ask(a, {[agent |-> a, side |-> s, quantity |-> n, limit |-> p]})
  <2>1. PICK a \in Agents, s \in {"buy", "sell"}, n \in Quantities, p \in Limits :
            Ask(a, {[agent |-> a, side |-> s, quantity |-> n, limit |-> p]})
    BY <1>2
  <2> PICK o : o = [agent |-> a, side |-> s, quantity |-> n, limit |-> p]
    OBVIOUS
  <2> PICK new : new = {o}
    OBVIOUS
  <2>2. n \in Nat /\ p \in Nat /\ p > 0
    BY MarketAssumption
  <2>3. o \in Order(Agents) /\ o.limit > 0
    BY <2>2 DEF Order
  <2>4. IsFiniteSet(new) /\ new \subseteq Order(Agents) /\ \A i \in new : i.limit > 0
    BY <2>3, FS_Singleton
  <2>5. Ask(a, new)
    BY <2>1
  <2> QED
    BY <2>4, <2>5, AskMarket
<1> QED
  BY <1>1, <1>2 DEF Decide

LEMMA NextMarket == MarketInv /\ [Next]_vars => MarketInv'
<1> SUFFICES ASSUME MarketInv, [Next]_vars PROVE MarketInv'
  OBVIOUS
<1>1. CASE Decide
  BY <1>1, DecideMarket
<1>2. CASE Constrain
  BY <1>2, ConstrainMarket
<1>3. CASE Clear
  BY <1>3, ClearMarket
<1>4. CASE Settle
  BY <1>4, SettleMarket
<1>5. CASE SettleRaises
  BY <1>5, RaiseMarket
<1>6. CASE UNCHANGED vars
  BY <1>6 DEF MarketInv, vars, market, accounts
<1> QED
  BY <1>1, <1>2, <1>3, <1>4, <1>5, <1>6 DEF Next, Ended

(* The inductive invariant: orders that passed the constraint stage can be   *)
(* paid and delivered when they are cleared and settled, and the accounts    *)
(* and the facility add up (nmsim/v2_market.py, constrain_orders to settle). *)
THEOREM MarketInvariant == Spec => []MarketInv
<1>1. Init => MarketInv
  BY InitMarket
<1>2. MarketInv /\ [Next]_vars => MarketInv'
  BY NextMarket
<1> QED
  BY <1>1, <1>2, PTL DEF Spec

-----------------------------------------------------------------------------
(* What the runs check of the market.                                        *)

LEMMA InvConserves == MarketInv => Conserved
<1> SUFFICES ASSUME MarketInv PROVE Conserved
  OBVIOUS
<1>1. Ledger(cash, shares, debt, facility) /\ Solvent(cash, shares, debt)
  BY DEF MarketInv, Ledger
<1>2. Sum(cash) = Total(Agents, cash) /\ Sum(shares) = Total(Agents, shares)
  BY <1>1, SumOfAccounts DEF Solvent
<1>3. Sum(debt) = Total(Agents, debt)
  BY <1>1, SumOfAccounts DEF Solvent
<1>4. Sum(StartCash) = Total(Agents, StartCash) /\ Sum(StartShares) = Total(Agents, StartShares)
  BY MarketAssumption, SumOfAccounts
<1> QED
  BY <1>1, <1>2, <1>3, <1>4 DEF Conserved, Ledger

(* Nothing is created or lost in settlement, however long the market runs    *)
(* and whatever is ordered: the cash of accounts and facility, the shares,   *)
(* and the loans (assert_system_invariants, the assertions of settle).       *)
THEOREM MarketConserves == Spec => []Conserved
<1>1. MarketInv => Conserved
  BY InvConserves
<1> QED
  BY <1>1, MarketInvariant, PTL

LEMMA NextRaised == MarketInv /\ [Next]_vars /\ OnlyFacilityFails => OnlyFacilityFails'
<1> SUFFICES ASSUME MarketInv, [Next]_vars, OnlyFacilityFails PROVE OnlyFacilityFails'
  OBVIOUS
<1>1. CASE UNCHANGED vars \/ Ended
  BY <1>1 DEF OnlyFacilityFails, vars, market, accounts, Ended
<1>2. CASE SettleRaises
  <2> PICK F : F = clearing.fills
    OBVIOUS
  <2>1. /\ phase = "settle" /\ Refused(orders, clearing, cash, shares, debt, facility)
        /\ clearing' = clearing /\ facility' = facility /\ cash' = cash
    BY <1>2 DEF SettleRaises, Fails, market, accounts
  <2>2. Borrowed(F, cash) > facility.cash
    BY <2>1, MarketAuction, RefusedByFacility
  <2> QED
    BY <2>1, <2>2 DEF OnlyFacilityFails
<1>3. CASE Decide \/ Constrain \/ Clear \/ Settle
  <2>1. phase' # "raised"
    BY <1>3 DEF Decide, Ask, Constrain, Clear, Settle
  <2> QED
    BY <2>1 DEF OnlyFacilityFails
<1> QED
  BY <1>1, <1>2, <1>3 DEF Next

(* The constraint stage and the allocation are tight enough: a cleared       *)
(* auction is refused by settle only when the facility cannot fund what its  *)
(* borrowers may draw.                                                       *)
THEOREM OnlyFacilityRefuses == Spec => []OnlyFacilityFails
<1>1. Init => OnlyFacilityFails
  BY DEF Init, OnlyFacilityFails
<1>2. MarketInv /\ [Next]_vars /\ OnlyFacilityFails => OnlyFacilityFails'
  BY NextRaised
<1> QED
  BY <1>1, <1>2, MarketInvariant, PTL DEF Spec

LEMMA InvFair == MarketInv => FillsAreFair
<1> SUFFICES ASSUME MarketInv, phase = "settle", clearing.volume > 0 PROVE FillsAreFair
  BY DEF FillsAreFair
<1> DEFINE p == clearing.price
           F == clearing.fills
           B == Buyers(orders, p)
           D == Sellers(orders, p)
<1>1. Book(orders) /\ clearing = Clearing(orders, price) /\ price \in Nat \ {0}
  BY DEF MarketInv
<1>2. Cleared(orders, clearing)
  BY MarketAuction DEF Auctioned
<1>3. \A f \in F : IF f.side = "buy" THEN p <= f.limit ELSE p >= f.limit
  BY <1>2 DEF Cleared
<1>4. /\ FairTo(B, F, clearing.volume) /\ FairTo(D, F, clearing.volume)
      /\ \E T \in {B, D} : \A o \in T : Got(F, o) = o.quantity
  BY <1>1, ClearingIsFair
<1> HIDE DEF B, D, F, p
<1>5. /\ \A o \in B : /\ Got(F, o) <= o.quantity
                      /\ Gap(Got(F, o) * Shares(B), clearing.volume * o.quantity) < Shares(B)
      /\ \A o \in D : /\ Got(F, o) <= o.quantity
                      /\ Gap(Got(F, o) * Shares(D), clearing.volume * o.quantity) < Shares(D)
      /\ \A o, q \in B : o.quantity > q.quantity => Got(F, o) >= Got(F, q)
      /\ \A o, q \in D : o.quantity > q.quantity => Got(F, o) >= Got(F, q)
  BY <1>4 DEF FairTo
<1> QED
  BY <1>3, <1>4, <1>5 DEF FillsAreFair, Got, B, D, F, p

(* Every fill is within one share of its pro-rata part, within its own limit *)
(* and never more than was accepted, larger orders get no less, and the      *)
(* scarcer side trades in full (_allocate_pro_rata, clear_call_auction), for *)
(* any number of orders of any size.                                         *)
THEOREM FairFills == Spec => []FillsAreFair
<1>1. MarketInv => FillsAreFair
  BY InvFair
<1> QED
  BY <1>1, MarketInvariant, PTL

LEMMA InvMaximal == MarketInv => VolumeIsMaximal
<1> SUFFICES ASSUME MarketInv, phase = "settle",
                    NEW p \in 1..Max(Limits \union {StartPrice})
             PROVE  Matched(orders, p) <= clearing.volume
  BY DEF VolumeIsMaximal
<1>1. Book(orders) /\ clearing = Clearing(orders, price) /\ price \in Nat \ {0}
  BY DEF MarketInv
<1>2. p \in Nat \ {0}
  OBVIOUS
<1> QED
  BY <1>1, <1>2, ClearingIsMaximal

(* The candidate prices are enough: no price trades more than the one the    *)
(* auction chooses among the limits of the orders and the last price         *)
(* (clear_call_auction).                                                     *)
THEOREM MaximalVolume == Spec => []VolumeIsMaximal
<1>1. MarketInv => VolumeIsMaximal
  BY InvMaximal
<1> QED
  BY <1>1, MarketInvariant, PTL

(* The accounts are asked in order: the next is the least not asked yet.     *)
LEMMA NextAgent ==
    ASSUME NEW T, T \subseteq Agents, T # Agents
    PROVE  /\ Min(Agents \ T) \in Agents \ T
           /\ \A b \in Agents \ T : Min(Agents \ T) <= b
<1> DEFINE W == Agents \ T
           R == {pair \in W \X W : pair[1] > pair[2]}
<1>1. W # {} /\ IsFiniteSet(W) /\ \A x \in W : x \in Nat
  BY MarketAssumption, FS_Subset
<1>2. Ranks(W, R)
  <2>1. \A x, y \in W : <<x, y>> \in R <=> x > y
    OBVIOUS
  <2> HIDE DEF W, R
  <2> QED
    BY <1>1, <2>1 DEF Ranks
<1>3. \A x, y \in W : <<x, y>> \in R <=> x > y
  OBVIOUS
<1> HIDE DEF W, R
<1>4. PICK x \in W : \A y \in W \ {x} : <<y, x>> \in R
  BY <1>1, <1>2, LastOf
<1>5. ASSUME NEW y \in W PROVE x <= y
  <2>1. x \in Nat /\ y \in Nat
    BY <1>1
  <2>2. CASE y # x
    <3>1. <<y, x>> \in R
      BY <1>4, <2>2
    <3>2. y > x
      BY <1>3, <3>1
    <3> QED
      BY <2>1, <3>2
  <2> QED
    BY <2>1, <2>2
<1>6. Min(W) \in W /\ \A y \in W : Min(W) <= y
  BY <1>5 DEF Min
<1> QED
  BY <1>6 DEF W

-----------------------------------------------------------------------------
(* A cell of the experiment.                                                 *)

(* Every round starts from what the last one left: the price in the snapshot *)
(* is the last close, the accounts back what was accepted, and what settle   *)
(* returned is what it makes of these very accounts.                         *)
CellInv ==
    /\ stage \in {"begin", "ask", "clear", "settle", "audit", "returned", "raised", "failed"}
    /\ closes \in Seq([price : Nat \ {0}, volume : Nat]) /\ Len(closes) \in 1..(Rounds + 1)
    /\ InRound => Played < Rounds /\ snapshot = [round |-> Played, price |-> LastClose]
    /\ answered \subseteq Agents
    /\ IsFiniteSet(submitted) /\ submitted \subseteq Order(Agents)
    /\ \A i \in submitted : i.limit > 0
    /\ Ledger(books.cash, books.shares, books.debt, lender)
    /\ stage \in {"clear", "settle", "audit"} =>
          /\ Book(constrained) /\ Backed(constrained, books.cash, books.shares, books.debt)
          /\ constrained \subseteq Order(Agents)
    /\ stage \in {"settle", "audit"} => auction = Clearing(constrained, LastClose)
    /\ stage = "audit" =>
          settlement = [accounts |-> [cash |-> Paid(auction.fills, books.cash),
                                      shares |-> Delivered(auction.fills, books.shares),
                                      debt |-> Owed(auction.fills, books.cash, books.debt)],
                        facility |-> Lent(auction.fills, books.cash, lender),
                        borrowed |-> Borrowed(auction.fills, books.cash)]

LEMMA RowsOfTape ==
    ASSUME NEW X, NEW q, q \in Seq(X), NEW i \in 1..Len(q)
    PROVE  q[i] \in X
  OBVIOUS

LEMMA LastCloseFacts ==
    ASSUME CellInv
    PROVE  /\ Len(closes) \in Nat /\ Len(closes) >= 1 /\ Played \in 0..Rounds
           /\ LastClose \in Nat \ {0}
           /\ \A i \in 1..Len(closes) : closes[i] \in [price : Nat \ {0}, volume : Nat]
<1>1. /\ closes \in Seq([price : Nat \ {0}, volume : Nat]) /\ Len(closes) \in 1..(Rounds + 1)
  BY DEF CellInv
<1>2. \A i \in 1..Len(closes) : closes[i] \in [price : Nat \ {0}, volume : Nat]
  <2> PICK X : X = [price : Nat \ {0}, volume : Nat]
    OBVIOUS
  <2>1. closes \in Seq(X)
    BY <1>1
  <2>2. \A i \in 1..Len(closes) : closes[i] \in X
    BY <2>1, RowsOfTape
  <2> QED
    BY <2>2
<1>3. Len(closes) \in 1..Len(closes)
  BY <1>1
<1> QED
  BY <1>1, <1>2, <1>3, MarketAssumption DEF Played, LastClose

LEMMA CellAuction ==
    ASSUME CellInv, stage \in {"settle", "audit"}
    PROVE  /\ Auctioned(constrained, auction, books.cash, books.shares, books.debt, lender)
           /\ ~Refused(constrained, auction, books.cash, books.shares, books.debt, lender)
<1>1. /\ Book(constrained) /\ Backed(constrained, books.cash, books.shares, books.debt)
      /\ auction = Clearing(constrained, LastClose)
      /\ Ledger(books.cash, books.shares, books.debt, lender)
  BY DEF CellInv
<1>2. Cleared(constrained, auction)
  BY <1>1, LastCloseFacts, ClearingFacts
<1>3. Auctioned(constrained, auction, books.cash, books.shares, books.debt, lender)
  BY <1>1, <1>2 DEF Auctioned
<1> QED
  BY <1>3, CreditCovers

LEMMA AuditFacts ==
    ASSUME CellInv, stage = "audit", NEW F, F = auction.fills
    PROVE  /\ settlement.accounts.cash = Paid(F, books.cash)
           /\ settlement.accounts.shares = Delivered(F, books.shares)
           /\ settlement.accounts.debt = Owed(F, books.cash, books.debt)
           /\ settlement.facility = Lent(F, books.cash, lender)
           /\ settlement.borrowed = Borrowed(F, books.cash)
           /\ Ledger(settlement.accounts.cash, settlement.accounts.shares,
                     settlement.accounts.debt, settlement.facility)
<1>1. /\ settlement.accounts.cash = Paid(F, books.cash)
      /\ settlement.accounts.shares = Delivered(F, books.shares)
      /\ settlement.accounts.debt = Owed(F, books.cash, books.debt)
      /\ settlement.facility = Lent(F, books.cash, lender)
      /\ settlement.borrowed = Borrowed(F, books.cash)
  BY DEF CellInv
<1>2. Ledger(Paid(F, books.cash), Delivered(F, books.shares),
             Owed(F, books.cash, books.debt), Lent(F, books.cash, lender))
  BY CellAuction, SettledLedger
<1> QED
  BY <1>1, <1>2

LEMMA LedgerSums ==
    ASSUME NEW c, NEW s, NEW d, NEW l, Ledger(c, s, d, l)
    PROVE  /\ Sum(c) + l.cash = Total(Agents, StartCash) + FacilityCash
           /\ Sum(s) = Total(Agents, StartShares)
           /\ Sum(d) = l.loans
  BY SumOfAccounts DEF Ledger, Solvent

(* The conservation record of a settled auction is all true.                 *)
LEMMA AuditPasses ==
    ASSUME CellInv, stage = "audit"
    PROVE  Sound
<1> PICK F : F = auction.fills
  OBVIOUS
<1>1. /\ Ledger(settlement.accounts.cash, settlement.accounts.shares,
                settlement.accounts.debt, settlement.facility)
      /\ Ledger(books.cash, books.shares, books.debt, lender)
  BY AuditFacts DEF CellInv
<1>2. /\ Sum(settlement.accounts.cash) + settlement.facility.cash = Sum(books.cash) + lender.cash
      /\ Sum(settlement.accounts.shares) = Sum(books.shares)
      /\ Sum(settlement.accounts.debt) = settlement.facility.loans
  BY <1>1, LedgerSums
<1>3. Cleared(constrained, auction)
  BY CellAuction DEF Auctioned
<1>4. /\ \A side \in {"buy", "sell"} :
            Shares({f \in auction.fills : f.side = side}) = auction.volume
      /\ \A f \in auction.fills :
            IF f.side = "buy" THEN f.price <= f.limit ELSE f.price >= f.limit
  BY <1>3 DEF Cleared, Sided
<1> QED
  BY <1>2, <1>4 DEF Sound

-----------------------------------------------------------------------------
(* The steps of a cell.                                                      *)

LEMMA StartRoundCell ==
    ASSUME CellInv, StartRound
    PROVE  CellInv'
<1>1. /\ closes' = closes /\ books' = books /\ lender' = lender
      /\ Played' = Played /\ LastClose' = LastClose
      /\ stage' \in {"ask", "raised"} /\ Played < Rounds
  BY DEF StartRound, Played, LastClose
<1>2. InRound' => snapshot' = [round |-> Played, price |-> LastClose]
  BY <1>1 DEF StartRound, InRound
<1>3. /\ answered' \subseteq Agents
      /\ IsFiniteSet(submitted') /\ submitted' \subseteq Order(Agents)
      /\ \A i \in submitted' : i.limit > 0
  BY FS_EmptySet DEF StartRound, CellInv
<1> QED
  BY <1>1, <1>2, <1>3 DEF CellInv

(* Only orders for a positive number of shares at a positive limit.          *)
LEMMA SizesAndPrices ==
    ASSUME CellInv, NEW a \in Agents, NEW side \in {"buy", "sell"},
           NEW p \in LimitPrices(snapshot.price), NEW n \in Sizes(a, side, p), stage = "ask"
    PROVE  p \in Nat \ {0} /\ n \in Nat \ {0}
<1>1. snapshot.price \in Nat \ {0}
  BY LastCloseFacts DEF CellInv, InRound
<1> PICK last : last = snapshot.price
  OBVIOUS
<1> DEFINE at(bps) == (last * (10000 + bps) + 5000) \div 10000
<1>2. at(-MaxOffset) \in Int /\ at(MaxOffset) \in Int
  BY <1>1, CellAssumption
<1>3. p \in at(-MaxOffset)..at(MaxOffset) /\ p >= 1
  BY DEF LimitPrices
<1>4. p \in Nat \ {0}
  <2> HIDE DEF at
  <2> QED
    BY <1>2, <1>3
<1>5. n \in Nat \ {0}
  <2> PICK k : n \in 1..k
    BY DEF Sizes
  <2> QED
    OBVIOUS
<1> QED
  BY <1>4, <1>5

LEMMA DecideCell ==
    ASSUME CellInv, CellDecide
    PROVE  CellInv'
<1>1. /\ stage = "ask" /\ stage' \in {"ask", "failed"}
      /\ closes' = closes /\ books' = books /\ lender' = lender /\ snapshot' = snapshot
      /\ Played' = Played /\ LastClose' = LastClose
  BY DEF CellDecide, Played, LastClose
<1>2. /\ IsFiniteSet(submitted) /\ submitted \subseteq Order(Agents)
      /\ \A i \in submitted : i.limit > 0 /\ answered \subseteq Agents
  BY DEF CellInv
<1> PICK a : a = Min(Agents \ answered)
  OBVIOUS
<1>3. a \in Agents \ answered
  BY <1>2, NextAgent DEF CellDecide, CellInv
<1>4. answered' \subseteq Agents
  BY <1>3 DEF CellDecide, CellInv
<1>5. /\ IsFiniteSet(submitted') /\ submitted' \subseteq Order(Agents)
      /\ \A i \in submitted' : i.limit > 0
  <2>1. CASE submitted' = submitted
    BY <1>2, <2>1
  <2>2. CASE \E s \in {"buy", "sell"}, p \in LimitPrices(snapshot.price) :
                \E n \in Sizes(a, s, p) :
                   submitted' = submitted \union
                       {[agent |-> a, side |-> s, quantity |-> n, limit |-> p]}
    <3>1. PICK s \in {"buy", "sell"}, p \in LimitPrices(snapshot.price) :
              \E n \in Sizes(a, s, p) :
                 submitted' = submitted \union
                     {[agent |-> a, side |-> s, quantity |-> n, limit |-> p]}
      BY <2>2
    <3>2. PICK n \in Sizes(a, s, p) :
              submitted' = submitted \union
                  {[agent |-> a, side |-> s, quantity |-> n, limit |-> p]}
      BY <3>1
    <3>3. p \in Nat \ {0} /\ n \in Nat \ {0}
      BY <1>1, <1>3, SizesAndPrices
    <3> PICK o : o = [agent |-> a, side |-> s, quantity |-> n, limit |-> p]
      OBVIOUS
    <3>4. o \in Order(Agents) /\ o.limit > 0
      BY <1>3, <3>3 DEF Order
    <3>5. IsFiniteSet({o})
      BY FS_Singleton
    <3>6. submitted' = submitted \union {o}
      BY <3>2
    <3> QED
      BY <1>2, <3>4, <3>5, <3>6, FS_Union
  <2> QED
    BY <2>1, <2>2 DEF CellDecide
<1> QED
  BY <1>1, <1>4, <1>5 DEF CellInv, InRound

LEMMA ConstrainCell ==
    ASSUME CellInv, CellConstrain
    PROVE  CellInv'
<1>1. /\ stage = "ask" /\ stage' = "clear" /\ closes' = closes /\ books' = books
      /\ lender' = lender /\ snapshot' = snapshot /\ answered' = answered
      /\ submitted' = submitted /\ Played' = Played /\ LastClose' = LastClose
  BY DEF CellConstrain, Played, LastClose
<1>2. /\ IsFiniteSet(submitted) /\ submitted \subseteq Order(Agents)
      /\ \A i \in submitted : i.limit > 0
      /\ Solvent(books.cash, books.shares, books.debt)
  BY DEF CellInv, Ledger
<1>3. PICK O : O = Constrained(submitted, AccountsOf(books.cash, books.shares, books.debt),
                               Financing)
  OBVIOUS
<1>4. Book(O) /\ Backed(O, books.cash, books.shares, books.debt) /\ O \subseteq Order(Agents)
  BY <1>2, <1>3, ConstrainedFacts
<1>5. constrained' = O
  BY <1>3 DEF CellConstrain
<1> QED
  BY <1>1, <1>4, <1>5 DEF CellInv, InRound

(* The cell clears at the price of its snapshot: the last close.             *)
LEMMA ClearCell ==
    ASSUME CellInv, CellClear
    PROVE  CellInv'
<1>1. /\ stage = "clear" /\ stage' = "settle" /\ closes' = closes /\ books' = books
      /\ lender' = lender /\ snapshot' = snapshot /\ answered' = answered
      /\ submitted' = submitted /\ constrained' = constrained
      /\ Played' = Played /\ LastClose' = LastClose
      /\ auction' = Clearing(constrained, snapshot.price)
  BY DEF CellClear, Played, LastClose
<1>2. snapshot.price = LastClose
  BY <1>1 DEF CellInv, InRound
<1> QED
  BY <1>1, <1>2 DEF CellInv, InRound

LEMMA SettleCell ==
    ASSUME CellInv, CellSettle
    PROVE  CellInv'
<1>1. /\ stage = "settle" /\ closes' = closes /\ books' = books
      /\ lender' = lender /\ snapshot' = snapshot /\ answered' = answered
      /\ submitted' = submitted /\ constrained' = constrained /\ auction' = auction
      /\ Played' = Played /\ LastClose' = LastClose
  BY DEF CellSettle, Played, LastClose
<1>2. ~Refused(constrained, auction, books.cash, books.shares, books.debt, lender)
  BY <1>1, CellAuction
<1>3. /\ stage' = "audit"
      /\ settlement' =
            [accounts |-> [cash |-> Paid(auction.fills, books.cash),
                           shares |-> Delivered(auction.fills, books.shares),
                           debt |-> Owed(auction.fills, books.cash, books.debt)],
             facility |-> Lent(auction.fills, books.cash, lender),
             borrowed |-> Borrowed(auction.fills, books.cash)]
  BY <1>2 DEF CellSettle
<1> QED
  BY <1>1, <1>3 DEF CellInv, InRound

(* The rows of the tape after a round.                                       *)
LEMMA TapeGrows ==
    ASSUME CellInv, stage = "audit", EndRound
    PROVE  /\ closes' = Append(closes, [price |-> auction.price, volume |-> auction.volume])
           /\ closes' \in Seq([price : Nat \ {0}, volume : Nat])
           /\ Len(closes') = Len(closes) + 1 /\ Played' = Played + 1
           /\ \A i \in 1..Len(closes) : closes'[i] = closes[i]
           /\ closes'[Len(closes')].price = auction.price /\ LastClose' = auction.price
           /\ auction.price \in Nat \ {0}
<1>1. Cleared(constrained, auction)
  BY CellAuction DEF Auctioned
<1>2. auction.price \in Nat \ {0} /\ auction.volume \in Nat
  BY <1>1 DEF Cleared
<1>3. PICK row : row = [price |-> auction.price, volume |-> auction.volume]
  OBVIOUS
<1>4. closes' = Append(closes, row)
  BY <1>3, AuditPasses DEF EndRound, CarryOver
<1> PICK X : X = [price : Nat \ {0}, volume : Nat]
  OBVIOUS
<1>5. row \in X /\ row.price = auction.price /\ closes \in Seq(X)
  BY <1>2, <1>3 DEF CellInv
<1>6. /\ closes' \in Seq(X) /\ Len(closes') = Len(closes) + 1 /\ Len(closes) \in Nat
      /\ \A i \in 1..Len(closes) : closes'[i] = closes[i]
      /\ closes'[Len(closes) + 1] = row
  BY <1>4, <1>5
<1> QED
  BY <1>2, <1>3, <1>4, <1>5, <1>6 DEF Played, LastClose

LEMMA EndRoundCell ==
    ASSUME CellInv, EndRound
    PROVE  CellInv'
<1> PICK F : F = auction.fills
  OBVIOUS
<1>1. stage = "audit" /\ Sound
  BY AuditPasses DEF EndRound
<1>2. /\ stage' \in {"begin", "raised"} /\ books' = settlement.accounts
      /\ lender' = settlement.facility /\ answered' = answered /\ submitted' = submitted
  BY <1>1 DEF EndRound, CarryOver
<1>3. Ledger(books'.cash, books'.shares, books'.debt, lender')
  BY <1>1, <1>2, AuditFacts
<1>4. /\ closes' \in Seq([price : Nat \ {0}, volume : Nat]) /\ Len(closes') = Len(closes) + 1
  BY <1>1, TapeGrows
<1>5. Len(closes) \in Nat /\ Played < Rounds
  BY <1>1, LastCloseFacts DEF CellInv, InRound
<1>6. Len(closes') \in 1..(Rounds + 1)
  BY <1>4, <1>5, MarketAssumption DEF Played
<1>7. ~InRound'
  BY <1>2 DEF InRound
<1> QED
  BY <1>2, <1>3, <1>4, <1>6, <1>7 DEF CellInv

LEMMA ReturnCell ==
    ASSUME CellInv, Return
    PROVE  CellInv'
<1>1. /\ stage' = "returned" /\ closes' = closes /\ books' = books
      /\ lender' = lender /\ answered' = answered /\ submitted' = submitted
  BY DEF Return
<1> QED
  BY <1>1 DEF CellInv, InRound

LEMMA NextCell == CellInv /\ [CellNext]_cellVars => CellInv'
<1> SUFFICES ASSUME CellInv, [CellNext]_cellVars PROVE CellInv'
  OBVIOUS
<1>1. CASE StartRound
  BY <1>1, StartRoundCell
<1>2. CASE CellDecide
  BY <1>2, DecideCell
<1>3. CASE CellConstrain
  BY <1>3, ConstrainCell
<1>4. CASE CellClear
  BY <1>4, ClearCell
<1>5. CASE CellSettle
  BY <1>5, SettleCell
<1>6. CASE EndRound
  BY <1>6, EndRoundCell
<1>7. CASE Return
  BY <1>7, ReturnCell
<1>8. CASE UNCHANGED cellVars
  BY <1>8 DEF CellInv, cellVars, InRound, Played, LastClose
<1> QED
  BY <1>1, <1>2, <1>3, <1>4, <1>5, <1>6, <1>7, <1>8 DEF CellNext, CellEnded

LEMMA InitCell == CellInit => CellInv
<1> SUFFICES ASSUME CellInit PROVE CellInv
  OBVIOUS
<1> DEFINE none == [a \in Agents |-> 0]
           f == [cash |-> FacilityCash, loans |-> 0]
<1>1. Ledger(StartCash, StartShares, none, f)
  BY StartingLedger
<1>2. books = [cash |-> StartCash, shares |-> StartShares, debt |-> none] /\ lender = f
  BY DEF CellInit
<1>3. Ledger(books.cash, books.shares, books.debt, lender)
  <2> HIDE DEF none, f
  <2> QED
    BY <1>1, <1>2
<1> PICK X : X = [price : Nat \ {0}, volume : Nat]
  OBVIOUS
<1> PICK row : row = [price |-> StartPrice, volume |-> 0]
  OBVIOUS
<1>4. row \in X /\ closes = <<row>>
  BY MarketAssumption DEF CellInit
<1>5. closes \in Seq(X) /\ Len(closes) = 1
  BY <1>4
<1>6. Len(closes) \in 1..(Rounds + 1)
  BY <1>5, MarketAssumption
<1>7. stage = "begin" /\ ~InRound /\ answered = {} /\ submitted = {}
  BY DEF CellInit, InRound
<1>8. IsFiniteSet(submitted)
  BY <1>7, FS_EmptySet
<1> HIDE DEF none, f
<1> QED
  BY <1>3, <1>5, <1>6, <1>7, <1>8 DEF CellInv

(* Every round of _run_cell starts from what the last one left: the price    *)
(* of the snapshot is the last close, the accounts can pay and deliver what  *)
(* was accepted, accounts and facility add up, and settle never refuses.     *)
THEOREM CellInvariant == CellSpec => []CellInv
<1>1. CellInit => CellInv
  BY InitCell
<1>2. CellInv /\ [CellNext]_cellVars => CellInv'
  BY NextCell
<1> QED
  BY <1>1, <1>2, PTL DEF CellSpec

LEMMA InvSettles == CellInv => SettlementNeverFails
  BY LinesAreCovered DEF CellInv, SettlementNeverFails

(* A facility that starts with the sum of the credit lines funds every       *)
(* borrower in every round: settle never raises in a cell, and what it       *)
(* returns passes the conservation audit of _run_cell, however many rounds   *)
(* the cell has and whatever its agents order.                               *)
THEOREM CellSettles == CellSpec => []SettlementNeverFails
<1>1. CellInv => SettlementNeverFails
  BY InvSettles
<1> QED
  BY <1>1, CellInvariant, PTL

-----------------------------------------------------------------------------
(* The records of a cell.                                                    *)

LEMMA Scaled ==
    ASSUME NEW x \in Nat, NEW y \in Nat, x <= y, NEW t \in Nat
    PROVE  x * t <= y * t
<1>1. CASE t = 0
  BY <1>1
<1>2. CASE t # 0
  BY <1>2, ProductOrder
<1> QED
  BY <1>1, <1>2

(* The average cost of had shares at old and n more at p, rounded half up,   *)
(* lies between the two.                                                     *)
Average(old, had, p, n, held) == (old * had + p * n + held \div 2) \div held

LEMMA Distributes ==
    ASSUME NEW m \in Nat, NEW x \in Nat, NEW y \in Nat
    PROVE  /\ m * (x + y) = m * x + m * y
           /\ m * x \in Nat /\ m * y \in Nat /\ m * x = x * m /\ m * y = y * m
  OBVIOUS

LEMMA AverageIsBetween ==
    ASSUME NEW old \in Nat \ {0}, NEW had \in Nat, NEW p \in Nat \ {0}, NEW n \in Nat \ {0},
           NEW held, held = had + n, NEW lo \in Nat \ {0}, NEW hi \in Nat \ {0},
           lo <= old, lo <= p, old <= hi, p <= hi
    PROVE  /\ Average(old, had, p, n, held) \in Nat
           /\ lo <= Average(old, had, p, n, held) /\ Average(old, had, p, n, held) <= hi
<1> PICK q : q = (old * had + p * n + held \div 2) \div held
  OBVIOUS
<1>1. held \in Nat \ {0}
  OBVIOUS
<1>2. PICK h \in Nat : h = held \div 2 /\ h < held
  <2>1. held \div 2 \in Nat /\ held % 2 \in Nat /\ held = (held \div 2) * 2 + (held % 2)
    BY <1>1, DivFacts
  <2> QED
    BY <1>1, <2>1
<1>3. PICK u \in Nat : u = old * had
  OBVIOUS
<1>4. PICK w \in Nat : w = p * n
  OBVIOUS
<1>5. PICK x \in Nat : x = old * had + p * n + held \div 2 /\ x = u + w + h
  BY <1>2, <1>3, <1>4
<1>6. q \in Nat /\ x % held \in Nat /\ x % held < held /\ x = q * held + (x % held)
  BY <1>1, <1>5, DivFacts
<1>7. \A b \in Nat : b * held = b * had + b * n /\ b * had \in Nat /\ b * n \in Nat
  BY Distributes
<1>8. PICK floor \in Nat : floor = lo * held
  BY <1>1
<1>9. PICK top \in Nat : top = hi * held
  BY <1>1
<1>10. floor <= u + w
  <2>1. lo * had <= u /\ lo * n <= w
    BY Scaled, <1>3, <1>4
  <2>2. PICK i \in Nat : i = lo * had
    BY <1>7
  <2>3. PICK j \in Nat : j = lo * n
    BY <1>7
  <2>4. floor = i + j
    BY <1>7, <1>8, <2>2, <2>3
  <2> QED
    BY <2>1, <2>2, <2>3, <2>4
<1>11. u + w <= top
  <2>1. u <= hi * had /\ w <= hi * n
    BY Scaled, <1>3, <1>4
  <2>2. PICK i \in Nat : i = hi * had
    BY <1>7
  <2>3. PICK j \in Nat : j = hi * n
    BY <1>7
  <2>4. top = i + j
    BY <1>7, <1>9, <2>2, <2>3
  <2> QED
    BY <2>1, <2>2, <2>3, <2>4
<1>12. PICK y \in Nat : y = q * held
  BY <1>1, <1>6
<1>13. PICK r \in Nat : x = y + r /\ r < held
  BY <1>6, <1>12
<1>14. x = u + w + h /\ h < held
  BY <1>2, <1>5
<1>15. lo <= q
  <2> SUFFICES ASSUME q < lo PROVE FALSE
    BY <1>6
  <2>1. y + held <= floor
    BY <1>1, <1>6, <1>8, <1>12, ProductOrder
  <2> QED
    BY <1>1, <1>10, <1>13, <1>14, <2>1
<1>16. q <= hi
  <2> SUFFICES ASSUME hi < q PROVE FALSE
    BY <1>6
  <2>1. top + held <= y
    BY <1>1, <1>6, <1>9, <1>12, ProductOrder
  <2> QED
    BY <1>1, <1>11, <1>13, <1>14, <2>1
<1> QED
  BY <1>6, <1>15, <1>16 DEF Average

(* What the fill of an account does to its shares.                           *)
LEMMA Deliveries ==
    ASSUME NEW S, NEW cl, NEW c, NEW s, NEW d, NEW l, NEW F, F = cl.fills,
           Auctioned(S, cl, c, s, d, l), NEW a \in Agents,
           NEW own, own = {f \in F : f.agent = a}
    PROVE  /\ own = {} => Delivered(F, s)[a] = s[a]
           /\ \A f \in own :
                 /\ own = {f} /\ f.quantity \in Nat \ {0} /\ f.price = cl.price
                 /\ f.side = "buy" => Delivered(F, s)[a] = s[a] + f.quantity
                 /\ f.side # "buy" => /\ Delivered(F, s)[a] = s[a] - f.quantity
                                      /\ s[a] - f.quantity \in Nat
           /\ s[a] \in Nat
<1>1. Cleared(S, cl) /\ Book(S) /\ Solvent(c, s, d)
  BY DEF Auctioned, Ledger
<1>2. s[a] \in Nat
  BY <1>1 DEF Solvent
<1>3. Delivered(F, s)[a] = s[a] + Shares(Bought(F, a)) - Shares(Sold(F, a))
  BY DEF Delivered
<1>4. ASSUME own = {} PROVE Delivered(F, s)[a] = s[a]
  <2>1. Bought(F, a) = {} /\ Sold(F, a) = {}
    BY <1>4 DEF Bought, Sold
  <2> QED
    BY <1>2, <1>3, <2>1, SharesOfNone
<1>5. ASSUME NEW f \in own
      PROVE  /\ own = {f} /\ f.quantity \in Nat \ {0} /\ f.price = cl.price
             /\ f.side = "buy" => Delivered(F, s)[a] = s[a] + f.quantity
             /\ f.side # "buy" => /\ Delivered(F, s)[a] = s[a] - f.quantity
                                  /\ s[a] - f.quantity \in Nat
  <2>1. f \in F /\ f.agent = a /\ f.quantity \in Nat \ {0} /\ f.price = cl.price
    BY <1>1 DEF Cleared
  <2>2. own = {f}
    BY <1>1, <2>1 DEF Cleared
  <2>3. f.side \in {"buy", "sell"}
    BY <1>1, <2>1 DEF Cleared, Book
  <2>4. Shares({f}) = f.quantity
    BY <2>1, SharesOfOne
  <2>5. CASE f.side = "buy"
    <3>1. Bought(F, a) = {f} /\ Sold(F, a) = {}
      BY <2>1, <2>2, <2>5 DEF Bought, Sold
    <3> QED
      BY <1>2, <1>3, <2>1, <2>2, <2>4, <2>5, <3>1, SharesOfNone
  <2>6. CASE f.side = "sell"
    <3>1. Sold(F, a) = {f} /\ Bought(F, a) = {}
      BY <2>1, <2>2, <2>6 DEF Bought, Sold
    <3>2. Shares(Sold(F, a)) = f.quantity /\ Shares(Bought(F, a)) = 0
      BY <2>4, <3>1, SharesOfNone
    <3>3. f.quantity <= s[a]
      <4>1. Shares(Sold(F, a)) <= s[a]
        BY AgentFills
      <4> QED
        BY <3>2, <4>1
    <3>4. Delivered(F, s)[a] = s[a] - f.quantity /\ s[a] - f.quantity \in Nat
      BY <1>2, <1>3, <2>1, <3>2, <3>3
    <3> QED
      BY <2>1, <2>2, <2>6, <3>4
  <2> QED
    BY <2>3, <2>5, <2>6
<1> QED
  BY <1>2, <1>4, <1>5

MetadataTyped ==
    metadata \in [Agents -> [basis : Nat, lastTrade : Int, salePrice : Nat, saleRound : Int]]

RecordsInv == MetadataTyped /\ RecordsFollowAccounts

(* The records of account a, with metadata m and n shares, on a tape.        *)
Follows(a, m, n, tape) ==
    LET paid == {p \in {StartBasis[a]} \union {tape[i].price : i \in 2..(m.lastTrade + 2)} : p > 0}
    IN  /\ m.basis > 0 <=> n > 0
        /\ m.basis > 0 => \E p, q \in paid : p <= m.basis /\ m.basis <= q
        /\ m.saleRound <= m.lastTrade /\ m.lastTrade < Len(tape) - 1
        /\ m.saleRound >= 0 => m.salePrice = tape[m.saleRound + 2].price

LEMMA RecordsAre ==
    /\ RecordsFollowAccounts <=>
          /\ stage # "unsound" => drawn = Sum(books.debt)
          /\ \A a \in Agents : Follows(a, metadata[a], books.shares[a], closes)
    /\ RecordsFollowAccounts' <=>
          /\ stage' # "unsound" => drawn' = Sum(books'.debt)
          /\ \A a \in Agents : Follows(a, metadata'[a], books'.shares[a], closes')
  BY DEF RecordsFollowAccounts, Follows, PricesPaid, Played

(* A tape with one more round, that closed at this price.                    *)
Extended(tape, next, close) ==
    /\ close \in Nat \ {0} /\ Len(tape) \in Nat \ {0} /\ Len(next) = Len(tape) + 1
    /\ \A i \in 1..Len(tape) : next[i] = tape[i] /\ tape[i].price \in Nat \ {0}
    /\ next[Len(next)].price = close

(* One account over one round, with its fill or without.                     *)
Carries(a, m, n, mm, nn, next, close) ==
    /\ mm = m /\ nn = n => Follows(a, mm, nn, next)
    /\ \A f : /\ f.quantity \in Nat \ {0} /\ f.price = close
              /\ mm = Updated(m, f, n, nn) /\ nn \in Nat
              /\ IF f.side = "buy" THEN nn = n + f.quantity ELSE nn = n - f.quantity
              => /\ Follows(a, mm, nn, next)
                 /\ mm \in [basis : Nat, lastTrade : Int, salePrice : Nat, saleRound : Int]

LEMMA AccountFollows ==
    ASSUME NEW a \in Agents, NEW tape, NEW next, NEW close, Extended(tape, next, close),
           NEW m, NEW n \in Nat, Follows(a, m, n, tape),
           m \in [basis : Nat, lastTrade : Int, salePrice : Nat, saleRound : Int],
           snapshot.round = Len(tape) - 1,
           NEW mm, NEW nn
    PROVE  Carries(a, m, n, mm, nn, next, close)
<1> PICK round_index : round_index = Len(tape) - 1
  OBVIOUS
<1>0. /\ close \in Nat \ {0} /\ Len(tape) \in Nat \ {0} /\ Len(next) = Len(tape) + 1
      /\ \A i \in 1..Len(tape) : next[i] = tape[i] /\ tape[i].price \in Nat \ {0}
      /\ next[Len(next)].price = close
  BY DEF Extended
<1> DEFINE paid == {p \in {StartBasis[a]} \union {tape[i].price : i \in 2..(m.lastTrade + 2)} : p > 0}
           PaidBy(k) == {p \in {StartBasis[a]} \union {next[i].price : i \in 2..(k + 2)} : p > 0}
<1>1. /\ m.basis \in Nat /\ m.lastTrade \in Int /\ m.salePrice \in Nat /\ m.saleRound \in Int
      /\ m.basis > 0 <=> n > 0
      /\ m.basis > 0 => \E p, q \in paid : p <= m.basis /\ m.basis <= q
      /\ m.saleRound <= m.lastTrade /\ m.lastTrade < Len(tape) - 1
      /\ m.saleRound >= 0 => m.salePrice = tape[m.saleRound + 2].price
  BY DEF Follows
<1>2. \A i \in 2..(m.lastTrade + 2) : i \in 1..Len(tape) /\ next[i] = tape[i]
  BY <1>0, <1>1
<1>3. \A p \in paid : p \in Nat \ {0}
  BY <1>0, <1>1, <1>2, CellAssumption
<1>4. paid \subseteq PaidBy(m.lastTrade)
  BY <1>2
<1>5. paid \subseteq PaidBy(round_index)
  BY <1>0, <1>1, <1>2
<1>6. close \in PaidBy(round_index)
  <2>1. Len(next) = round_index + 2 /\ Len(next) \in 2..(round_index + 2)
    BY <1>0
  <2>2. next[Len(next)].price \in {next[i].price : i \in 2..(round_index + 2)}
    BY <2>1
  <2> QED
    BY <1>0, <2>2
<1>7. m.saleRound >= 0 => m.salePrice = next[m.saleRound + 2].price
  <2> HAVE m.saleRound >= 0
  <2>1. m.saleRound + 2 \in 1..Len(tape)
    BY <1>0, <1>1
  <2> QED
    BY <1>0, <1>1, <2>1
<1>8. Follows(a, m, n, next)
  <2>1. m.basis > 0 => \E p, q \in PaidBy(m.lastTrade) : p <= m.basis /\ m.basis <= q
    BY <1>1, <1>4
  <2>2. m.lastTrade < Len(next) - 1
    BY <1>0, <1>1
  <2> QED
    BY <1>1, <1>7, <2>1, <2>2 DEF Follows
<1>9. round_index \in Int /\ round_index < Len(next) - 1
  BY <1>0
<1> HIDE DEF paid, PaidBy
<1>10. ASSUME NEW f, f.quantity \in Nat \ {0}, f.price = close, mm = Updated(m, f, n, nn),
              nn \in Nat, f.side = "buy", nn = n + f.quantity
       PROVE  /\ Follows(a, mm, nn, next)
              /\ mm \in [basis : Nat, lastTrade : Int, salePrice : Nat, saleRound : Int]
  <2> PICK k \in Nat \ {0} : k = f.quantity
    BY <1>10
  <2> PICK old : old = IF m.basis = 0 THEN close ELSE m.basis
    OBVIOUS
  <2>a. PICK b : b = Average(old, n, close, k, nn)
    OBVIOUS
  <2>1. mm = [m EXCEPT !.basis = b, !.lastTrade = round_index]
    BY <1>10, <2>a DEF Updated, Average
  <2>2. old \in Nat \ {0}
    BY <1>0, <1>1
  <2>3. PICK lo \in PaidBy(round_index), hi \in PaidBy(round_index) :
            /\ lo \in Nat \ {0} /\ hi \in Nat \ {0}
            /\ lo <= old /\ lo <= close /\ old <= hi /\ close <= hi
    <3>1. CASE m.basis = 0
      <4>1. close <= close /\ old = close
        BY <1>0, <3>1
      <4> QED
        BY <1>0, <1>6, <4>1
    <3>2. CASE m.basis # 0
      <4>1. PICK p \in paid, q \in paid : p <= m.basis /\ m.basis <= q
        BY <1>1, <3>2
      <4>2. p \in Nat \ {0} /\ q \in Nat \ {0}
        BY <1>3
      <4>3. old = m.basis
        BY <3>2
      <4> PICK lo : lo = IF p <= close THEN p ELSE close
        OBVIOUS
      <4> PICK hi : hi = IF q <= close THEN close ELSE q
        OBVIOUS
      <4>4. /\ lo \in {p, close} /\ hi \in {q, close}
            /\ lo <= old /\ lo <= close /\ old <= hi /\ close <= hi
        BY <1>0, <1>1, <4>1, <4>2, <4>3
      <4> QED
        BY <1>0, <1>5, <1>6, <4>2, <4>4
    <3> QED
      BY <3>1, <3>2
  <2>4. b \in Nat /\ lo <= b /\ b <= hi
    <3>1. nn = n + k
      BY <1>10
    <3> QED
      BY <1>0, <2>a, <2>2, <2>3, <3>1, AverageIsBetween
  <2>5. /\ mm.basis = b /\ mm.lastTrade = round_index
        /\ mm.salePrice = m.salePrice /\ mm.saleRound = m.saleRound
        /\ mm \in [basis : Nat, lastTrade : Int, salePrice : Nat, saleRound : Int]
    BY <1>9, <2>1, <2>4
  <2>6. b > 0 /\ nn > 0
    <3>1. lo \in Nat \ {0} /\ nn = n + k
      BY <1>10, <2>3
    <3> QED
      BY <2>4, <3>1
  <2>7. \E p, q \in PaidBy(mm.lastTrade) : p <= mm.basis /\ mm.basis <= q
    BY <2>3, <2>4, <2>5
  <2>8. mm.saleRound <= mm.lastTrade /\ mm.lastTrade < Len(next) - 1
    BY <1>1, <1>9, <2>5
  <2>9. mm.saleRound >= 0 => mm.salePrice = next[mm.saleRound + 2].price
    BY <1>7, <2>5
  <2> QED
    BY <2>5, <2>6, <2>7, <2>8, <2>9 DEF Follows, PaidBy
<1>11. ASSUME NEW f, f.quantity \in Nat \ {0}, f.price = close, mm = Updated(m, f, n, nn),
              nn \in Nat, f.side # "buy", nn = n - f.quantity
       PROVE  /\ Follows(a, mm, nn, next)
              /\ mm \in [basis : Nat, lastTrade : Int, salePrice : Nat, saleRound : Int]
  <2>1. mm = [basis |-> IF nn = 0 THEN 0 ELSE m.basis, lastTrade |-> round_index,
              salePrice |-> close, saleRound |-> round_index]
    BY <1>11 DEF Updated
  <2>2. /\ mm.basis = (IF nn = 0 THEN 0 ELSE m.basis) /\ mm.lastTrade = round_index
        /\ mm.salePrice = close /\ mm.saleRound = round_index
        /\ mm \in [basis : Nat, lastTrade : Int, salePrice : Nat, saleRound : Int]
    BY <1>0, <1>1, <1>9, <2>1
  <2>3. n > 0
    BY <1>11
  <2>4. mm.basis > 0 => \E p, q \in PaidBy(mm.lastTrade) : p <= mm.basis /\ mm.basis <= q
    BY <1>1, <1>5, <2>2
  <2>5. mm.basis > 0 <=> nn > 0
    BY <1>1, <1>11, <2>2, <2>3
  <2>6. next[mm.saleRound + 2].price = close
    <3>1. mm.saleRound + 2 = Len(next)
      BY <1>0, <2>2
    <3> QED
      BY <1>0, <3>1
  <2>7. mm.saleRound <= mm.lastTrade /\ mm.lastTrade < Len(next) - 1
    BY <1>9, <2>2
  <2> QED
    BY <2>2, <2>4, <2>5, <2>6, <2>7 DEF Follows, PaidBy
<1> QED
  BY <1>8, <1>10, <1>11 DEF Carries

LEMMA EndRoundRecords ==
    ASSUME CellInv, RecordsInv, EndRound
    PROVE  RecordsInv'
<1> PICK F : F = auction.fills
  OBVIOUS
<1> PICK s : s = books.shares
  OBVIOUS
<1>1. stage = "audit" /\ Sound
  BY AuditPasses DEF EndRound
<1>2. /\ stage' \in {"begin", "raised"} /\ books' = settlement.accounts
      /\ lender' = settlement.facility /\ metadata' = UpdatedMetadata
      /\ drawn' = drawn + settlement.borrowed
  BY <1>1 DEF EndRound, CarryOver
<1>3. /\ Ledger(books.cash, books.shares, books.debt, lender)
      /\ Ledger(books'.cash, books'.shares, books'.debt, lender')
      /\ books'.shares = Delivered(F, s) /\ lender' = Lent(F, books.cash, lender)
      /\ settlement.borrowed = Borrowed(F, books.cash)
  BY <1>1, <1>2, AuditFacts DEF CellInv
<1>4. drawn' = Sum(books'.debt)
  <2>1. drawn = lender.loans /\ Sum(books'.debt) = lender'.loans
    BY <1>1, <1>3, LedgerSums DEF RecordsInv, RecordsFollowAccounts
  <2>2. lender'.loans = lender.loans + Borrowed(F, books.cash)
    BY <1>3 DEF Lent
  <2> QED
    BY <1>2, <1>3, <2>1, <2>2
<1>5. /\ Auctioned(constrained, auction, books.cash, books.shares, books.debt, lender)
      /\ snapshot.round = Len(closes) - 1
  BY <1>1, CellAuction DEF CellInv, InRound, Played
<1>6. ASSUME NEW a \in Agents
      PROVE  /\ Follows(a, metadata'[a], books'.shares[a], closes')
             /\ metadata'[a] \in [basis : Nat, lastTrade : Int, salePrice : Nat, saleRound : Int]
  <2> PICK own : own = {f \in F : f.agent = a}
    OBVIOUS
  <2> PICK m : m = metadata[a]
    OBVIOUS
  <2> PICK mm : mm = metadata'[a]
    OBVIOUS
  <2> PICK nn : nn = Delivered(F, s)[a]
    OBVIOUS
  <2>1. /\ m \in [basis : Nat, lastTrade : Int, salePrice : Nat, saleRound : Int]
        /\ Follows(a, m, s[a], closes)
    BY RecordsAre DEF RecordsInv, MetadataTyped
  <2>2. /\ own = {} => nn = s[a]
        /\ \A f \in own :
              /\ own = {f} /\ f.quantity \in Nat \ {0} /\ f.price = auction.price
              /\ f.side = "buy" => nn = s[a] + f.quantity
              /\ f.side # "buy" => nn = s[a] - f.quantity /\ s[a] - f.quantity \in Nat
        /\ s[a] \in Nat
    BY <1>5, Deliveries
  <2>3. mm = IF own = {} THEN m
             ELSE Updated(m, CHOOSE f \in own : TRUE, s[a], nn)
    BY <1>2, <1>3 DEF UpdatedMetadata
  <2>4. Extended(closes, closes', auction.price)
    <3>1. /\ Len(closes) \in Nat \ {0}
          /\ \A i \in 1..Len(closes) : closes[i].price \in Nat \ {0}
      BY LastCloseFacts
    <3> QED
      BY <1>1, <3>1, TapeGrows DEF Extended
  <2> PICK next : next = closes'
    OBVIOUS
  <2> PICK close : close = auction.price
    OBVIOUS
  <2>5. Extended(closes, next, close)
    BY <2>4
  <2> PICK n : n = s[a]
    OBVIOUS
  <2>6. Carries(a, m, n, mm, nn, next, close)
    <3>1. n \in Nat /\ Follows(a, m, n, closes)
      BY <2>1, <2>2
    <3> QED
      BY <1>5, <2>1, <2>5, <3>1, AccountFollows
  <2>7. CASE own = {}
    BY <1>3, <2>1, <2>2, <2>3, <2>6, <2>7 DEF Carries
  <2>8. CASE own # {}
    <3> PICK f : f = CHOOSE x \in own : TRUE
      OBVIOUS
    <3>1. f \in own /\ mm = Updated(m, f, s[a], nn)
      BY <2>3, <2>8
    <3>2. /\ f.quantity \in Nat \ {0} /\ f.price = auction.price /\ nn \in Nat
          /\ IF f.side = "buy" THEN nn = s[a] + f.quantity ELSE nn = s[a] - f.quantity
      BY <2>2, <3>1
    <3>3. /\ Follows(a, mm, nn, closes')
          /\ mm \in [basis : Nat, lastTrade : Int, salePrice : Nat, saleRound : Int]
      BY <2>6, <3>1, <3>2 DEF Carries
    <3> QED
      BY <1>3, <3>3
  <2> QED
    BY <2>7, <2>8
<1>7. MetadataTyped'
  <2>1. metadata' = [a \in Agents |-> metadata'[a]]
    BY <1>2 DEF UpdatedMetadata
  <2> QED
    BY <1>6, <2>1 DEF MetadataTyped
<1> QED
  BY <1>4, <1>6, <1>7, RecordsAre DEF RecordsInv

LEMMA NextRecords == CellInv /\ CellInv' /\ [CellNext]_cellVars /\ RecordsInv => RecordsInv'
<1> SUFFICES ASSUME CellInv, CellInv', [CellNext]_cellVars, RecordsInv PROVE RecordsInv'
  OBVIOUS
<1>1. CASE EndRound
  BY <1>1, EndRoundRecords
<1>2. CASE UNCHANGED <<metadata, books, closes, drawn>>
  <2>1. /\ metadata' = metadata /\ books' = books /\ closes' = closes /\ drawn' = drawn
        /\ stage # "unsound"
    BY <1>2 DEF CellInv
  <2> QED
    BY <2>1, RecordsAre DEF RecordsInv, MetadataTyped
<1>3. EndRound \/ UNCHANGED <<metadata, books, closes, drawn>>
  BY DEF CellNext, StartRound, CellDecide, CellConstrain, CellClear, CellSettle, Return,
         CellEnded, cellVars
<1> QED
  BY <1>1, <1>2, <1>3

LEMMA InitRecords == CellInit => RecordsInv
<1> SUFFICES ASSUME CellInit PROVE RecordsInv
  OBVIOUS
<1> DEFINE none == [a \in Agents |-> 0]
<1>1. /\ books.shares = StartShares /\ books.debt = none /\ drawn = 0
      /\ closes = <<[price |-> StartPrice, volume |-> 0]>> /\ Len(closes) = 1
      /\ metadata = [a \in Agents |-> [basis |-> StartBasis[a], lastTrade |-> -1,
                                       salePrice |-> 0, saleRound |-> -1]]
  BY DEF CellInit
<1>2. Sum(none) = 0
  <2>1. /\ Ledger(StartCash, StartShares, none, [cash |-> FacilityCash, loans |-> 0])
    BY StartingLedger
  <2> HIDE DEF none
  <2> QED
    BY <2>1, LedgerSums
<1>3. ASSUME NEW a \in Agents
      PROVE  Follows(a, metadata[a], books.shares[a], closes)
  <2>1. /\ metadata[a].basis = StartBasis[a] /\ metadata[a].lastTrade = -1
        /\ metadata[a].saleRound = -1 /\ books.shares[a] = StartShares[a]
        /\ StartBasis[a] \in Nat /\ (StartBasis[a] > 0 <=> StartShares[a] > 0)
    BY <1>1, CellAssumption
  <2> QED
    BY <1>1, <2>1 DEF Follows
<1>4. MetadataTyped
  BY <1>1, CellAssumption DEF MetadataTyped
<1> HIDE DEF none
<1> QED
  BY <1>1, <1>2, <1>3, <1>4, RecordsAre DEF RecordsInv

(* What a cell reports and shows its Student follows the accounts, however   *)
(* many rounds it plays: the credit used is what is owed, an account has a   *)
(* basis exactly when it has shares, between two prices it may have paid,    *)
(* and its last sale was made at the close of its round (_update_metadata,   *)
(* cumulative_borrowed).                                                     *)
THEOREM CellRecords == CellSpec => []RecordsFollowAccounts
<1>1. CellInit => RecordsInv
  BY InitRecords
<1>2. CellInv /\ CellInv' /\ [CellNext]_cellVars /\ RecordsInv => RecordsInv'
  BY NextRecords
<1>3. RecordsInv => RecordsFollowAccounts
  BY DEF RecordsInv
<1> QED
  BY <1>1, <1>2, <1>3, CellInvariant, PTL DEF CellSpec

LEMMA MarketCardinality ==
    \A S : Market!Cardinality(S) = Cardinality(S)
  BY DEF Market!Cardinality, Cardinality

LEMMA MarketAccounts ==
    \A c, s, d : Market!AccountsOf(c, s, d) = AccountsOf(c, s, d)
  BY DEF Market!AccountsOf, AccountsOf

LEMMA MarketIdle ==
    Market!Idle = Idle
  BY DEF Market!Idle, Idle

LEMMA MarketConstrained ==
    \A S, A : Market!Constrained(S, A, Financing) = Constrained(S, A, Financing)
  BY DEF Market!Constrained, Constrained,
         Market!Affordable, Affordable,
         Market!BuyingPower, BuyingPower,
         Market!Lesser, Lesser

LEMMA MarketBestPrice ==
    \A S, p : Market!BestPrice(S, p) = BestPrice(S, p)
  BY DEF Market!BestPrice, BestPrice,
         Market!Candidates, Candidates,
         Market!Prefers, Prefers,
         Market!Imbalance, Imbalance,
         Market!Gap, Gap,
         Market!Matched, Matched,
         Market!Buyers, Buyers,
         Market!Sellers, Sellers,
         Market!Lesser, Lesser,
         Market!Shares, Shares,
         Market!MapThenSumSet, MapThenSumSet,
         Market!MapThenFoldSet, MapThenFoldSet

LEMMA MarketAllocation ==
    \A S, m : Market!Allocation(S, m) = Allocation(S, m)
  BY DEF Market!Allocation, Allocation,
         Market!Cardinality, Cardinality,
         Market!Shares, Shares,
         Market!MapThenSumSet, MapThenSumSet,
         Market!MapThenFoldSet, MapThenFoldSet

LEMMA MarketMatched ==
    \A S, p : Market!Matched(S, p) = Matched(S, p)
  BY DEF Market!Matched, Matched,
         Market!Buyers, Buyers,
         Market!Sellers, Sellers,
         Market!Lesser, Lesser,
         Market!Shares, Shares,
         Market!MapThenSumSet, MapThenSumSet,
         Market!MapThenFoldSet, MapThenFoldSet

LEMMA MarketBuyers ==
    \A S, p : Market!Buyers(S, p) = Buyers(S, p) /\ Market!Sellers(S, p) = Sellers(S, p)
  BY DEF Market!Buyers, Buyers,
         Market!Sellers, Sellers

LEMMA MarketBorrowed ==
    \A F, c : Market!Borrowed(F, c) = Borrowed(F, c)
  BY DEF Market!Borrowed, Borrowed,
         Market!Shortfall, Shortfall,
         Market!Bought, Bought,
         Market!Value, Value,
         Market!MapThenSumSet, MapThenSumSet,
         Market!MapThenFoldSet, MapThenFoldSet

LEMMA MarketShares ==
    \A F : Market!Shares(F) = Shares(F)
  BY DEF Market!Shares, Shares,
         Market!MapThenSumSet, MapThenSumSet,
         Market!MapThenFoldSet, MapThenFoldSet

LEMMA MarketTraded ==
    \A F, a : Market!Bought(F, a) = Bought(F, a) /\ Market!Sold(F, a) = Sold(F, a)
  BY DEF Market!Bought, Bought,
         Market!Sold, Sold

LEMMA MarketShortfall ==
    \A F, c, a : Market!Shortfall(F, c, a) = Shortfall(F, c, a)
  BY DEF Market!Shortfall, Shortfall,
         Market!Bought, Bought,
         Market!Value, Value,
         Market!MapThenSumSet, MapThenSumSet,
         Market!MapThenFoldSet, MapThenFoldSet

LEMMA MarketPaid ==
    \A F, c : Market!Paid(F, c) = Paid(F, c)
  BY DEF Market!Paid, Paid,
         Market!Sold, Sold,
         Market!Shortfall, Shortfall,
         Market!Bought, Bought,
         Market!Value, Value,
         Market!MapThenSumSet, MapThenSumSet,
         Market!MapThenFoldSet, MapThenFoldSet

LEMMA MarketDelivered ==
    \A F, s : Market!Delivered(F, s) = Delivered(F, s)
  BY DEF Market!Delivered, Delivered,
         Market!Sold, Sold,
         Market!Bought, Bought,
         Market!Shares, Shares,
         Market!MapThenSumSet, MapThenSumSet,
         Market!MapThenFoldSet, MapThenFoldSet

LEMMA MarketOwed ==
    \A F, c, d : Market!Owed(F, c, d) = Owed(F, c, d)
  BY DEF Market!Owed, Owed,
         Market!Shortfall, Shortfall,
         Market!Bought, Bought,
         Market!Value, Value,
         Market!MapThenSumSet, MapThenSumSet,
         Market!MapThenFoldSet, MapThenFoldSet

LEMMA MarketLent ==
    \A F, c, l : Market!Lent(F, c, l) = Lent(F, c, l)
  BY DEF Market!Lent, Lent,
         Market!Borrowed, Borrowed,
         Market!Shortfall, Shortfall,
         Market!Bought, Bought,
         Market!Value, Value,
         Market!MapThenSumSet, MapThenSumSet,
         Market!MapThenFoldSet, MapThenFoldSet

LEMMA MarketFills ==
    \A S, p : Market!Fills(S, p) = Fills(S, p)
<1> TAKE S, p
<1>1. /\ Market!Buyers(S, p) = Buyers(S, p) /\ Market!Sellers(S, p) = Sellers(S, p)
      /\ Market!Matched(S, p) = Matched(S, p)
  BY MarketBuyers, MarketMatched
<1>2. /\ Market!Allocation(Buyers(S, p), Matched(S, p)) = Allocation(Buyers(S, p), Matched(S, p))
      /\ Market!Allocation(Sellers(S, p), Matched(S, p)) = Allocation(Sellers(S, p), Matched(S, p))
  BY MarketAllocation
<1> QED
  BY <1>1, <1>2 DEF Market!Fills, Fills

LEMMA MarketClearing ==
    \A S, p : Market!Clearing(S, p) = Clearing(S, p)
<1> TAKE S, last
<1> DEFINE p == BestPrice(S, last)
<1>1. Market!BestPrice(S, last) = p
  BY MarketBestPrice
<1>2. Market!Matched(S, p) = Matched(S, p) /\ Market!Fills(S, p) = Fills(S, p)
  BY MarketMatched, MarketFills
<1> QED
  BY <1>1, <1>2 DEF Market!Clearing, Clearing

LEMMA MarketRefused ==
    \A S, cl, c, s, d, l : Market!Refused(S, cl, c, s, d, l) <=> Refused(S, cl, c, s, d, l)
<1> TAKE S, cl, c, s, d, l
<1>1. Market!Borrowed(cl.fills, c) = Borrowed(cl.fills, c)
  BY MarketBorrowed
<1>2. \A a : /\ Market!Bought(cl.fills, a) = Bought(cl.fills, a)
             /\ Market!Sold(cl.fills, a) = Sold(cl.fills, a)
             /\ Market!Shortfall(cl.fills, c, a) = Shortfall(cl.fills, c, a)
  BY MarketTraded, MarketShortfall
<1>3. \A F : Market!Shares(F) = Shares(F)
  BY MarketShares
<1> QED
  BY <1>1, <1>2, <1>3, MarketCardinality, Zenon DEF Market!Refused, Refused

-----------------------------------------------------------------------------
(* What the market's state is at each stage of a round.                      *)
SeenAsked == IF InRound THEN answered ELSE {}
SeenIntents == IF InRound THEN submitted ELSE {}
SeenOrders == IF InRound /\ stage \notin {"ask", "failed"} THEN constrained ELSE {}
SeenClearing == IF stage \in {"settle", "audit", "refused", "unsound"} THEN auction ELSE Idle

Seen ==
    /\ stage \in {"begin", "raised", "returned"} =>
          /\ Phase = IF Played = Rounds THEN "done" ELSE "decide"
          /\ SeenAsked = {} /\ SeenIntents = {} /\ SeenOrders = {} /\ SeenClearing = Idle
    /\ stage \in {"ask", "failed"} =>
          /\ Phase = IF answered = Agents THEN "constrain" ELSE "decide"
          /\ SeenAsked = answered /\ SeenIntents = submitted
          /\ SeenOrders = {} /\ SeenClearing = Idle
    /\ stage = "clear" =>
          /\ Phase = "clear" /\ SeenAsked = answered /\ SeenIntents = submitted
          /\ SeenOrders = constrained /\ SeenClearing = Idle
    /\ stage \in {"settle", "audit"} =>
          /\ Phase = "settle" /\ SeenAsked = answered /\ SeenIntents = submitted
          /\ SeenOrders = constrained /\ SeenClearing = auction

LEMMA SeenNow == Seen
  BY DEF Seen, SeenAsked, SeenIntents, SeenOrders, SeenClearing, Phase, InRound

LEMMA SeenNext == Seen'
  BY DEF Seen, SeenAsked, SeenIntents, SeenOrders, SeenClearing, Phase, InRound

Unseen ==
    /\ Phase' = Phase /\ Played' = Played /\ SeenAsked' = SeenAsked
    /\ SeenIntents' = SeenIntents /\ SeenOrders' = SeenOrders /\ SeenClearing' = SeenClearing
    /\ books' = books /\ lender' = lender /\ LastClose' = LastClose

(* The steps the market does not see: a round that opens or is cut short, a  *)
(* settlement before its audit, the return.                                  *)
LEMMA QuietCell ==
    ASSUME CellInv,
           StartRound \/ CellSettle \/ Return \/ CellEnded \/ (CellDecide /\ stage' = "failed")
    PROVE  Unseen
<1>1. Seen /\ Seen'
  BY SeenNow, SeenNext
<1>2. closes' = closes /\ books' = books /\ lender' = lender
  BY DEF StartRound, CellSettle, Return, CellEnded, CellDecide, cellVars
<1>3. Played' = Played /\ LastClose' = LastClose
  BY <1>2 DEF Played, LastClose
<1>4. CASE StartRound
  <2>1. Played # Rounds /\ Agents # {}
    BY <1>4, MarketAssumption, CellAssumption, LastCloseFacts DEF StartRound
  <2> QED
    BY <1>1, <1>2, <1>3, <1>4, <2>1 DEF StartRound, Unseen, Seen
<1>5. CASE CellSettle
  <2>1. ~Refused(constrained, auction, books.cash, books.shares, books.debt, lender)
    BY <1>5, CellAuction DEF CellSettle
  <2>2. /\ stage = "settle" /\ stage' = "audit" /\ answered' = answered
        /\ submitted' = submitted /\ constrained' = constrained /\ auction' = auction
    BY <1>5, <2>1 DEF CellSettle
  <2> QED
    BY <1>1, <1>2, <1>3, <2>2 DEF Unseen, Seen
<1>6. CASE Return
  BY <1>1, <1>2, <1>3, <1>6 DEF Return, Unseen, Seen
<1>7. CASE CellEnded
  BY <1>7 DEF CellEnded, cellVars, Unseen, SeenAsked, SeenIntents, SeenOrders, SeenClearing,
             Phase, InRound, Played, LastClose
<1>8. CASE CellDecide /\ stage' = "failed"
  <2>1. /\ stage = "ask" /\ stage' = "failed" /\ answered' = answered
        /\ submitted' = submitted
    BY <1>8 DEF CellDecide
  <2> QED
    BY <1>1, <1>2, <1>3, <2>1 DEF Unseen, Seen
<1> QED
  BY <1>4, <1>5, <1>6, <1>7, <1>8

LEMMA UnseenIsStutter == Unseen => UNCHANGED Market!vars
  BY DEF Unseen, Market!vars, Market!market, Market!accounts,
         SeenAsked, SeenIntents, SeenOrders, SeenClearing

(* The accounts are asked one after the other, for what the market allows.   *)
LEMMA DecideSeen ==
    ASSUME CellInv, CellDecide, stage' # "failed",
           Quantities = Nat \ {0}, Limits = Nat \ {0}
    PROVE  Market!Decide
<1>1. Seen /\ Seen'
  BY SeenNow, SeenNext
<1> PICK a : a = Min(Agents \ answered)
  OBVIOUS
<1>2. /\ stage = "ask" /\ stage' = "ask" /\ answered # Agents
      /\ answered' = answered \union {a}
      /\ closes' = closes /\ books' = books /\ lender' = lender
      /\ Played' = Played /\ LastClose' = LastClose
  BY DEF CellDecide, Played, LastClose
<1>3. a \in Agents \ answered /\ \A b \in Agents \ answered : a <= b
  BY <1>2, NextAgent DEF CellInv
<1>4. /\ Phase = "decide" /\ Phase' = IF answered' = Agents THEN "constrain" ELSE "decide"
      /\ SeenAsked = answered /\ SeenAsked' = answered'
      /\ SeenIntents = submitted /\ SeenIntents' = submitted'
      /\ SeenOrders = {} /\ SeenOrders' = {}
      /\ SeenClearing = Idle /\ SeenClearing' = Idle
  BY <1>1, <1>2 DEF Seen
<1>5. ASSUME NEW new, submitted' = submitted \union new PROVE Market!Ask(a, new)
  BY <1>2, <1>3, <1>4, <1>5 DEF Market!Ask, Market!market, Market!accounts,
     SeenAsked, SeenIntents, SeenOrders, SeenClearing
<1>6. CASE submitted' = submitted
  <2>1. Market!Ask(a, {})
    BY <1>5, <1>6
  <2> QED
    BY <1>3, <2>1 DEF Market!Decide
<1>7. CASE \E s \in {"buy", "sell"}, p \in LimitPrices(snapshot.price) :
              \E n \in Sizes(a, s, p) :
                 submitted' = submitted \union
                     {[agent |-> a, side |-> s, quantity |-> n, limit |-> p]}
  <2>1. PICK s \in {"buy", "sell"}, p \in LimitPrices(snapshot.price) :
            \E n \in Sizes(a, s, p) :
               submitted' = submitted \union
                   {[agent |-> a, side |-> s, quantity |-> n, limit |-> p]}
    BY <1>7
  <2>2. PICK n \in Sizes(a, s, p) :
            submitted' = submitted \union
                {[agent |-> a, side |-> s, quantity |-> n, limit |-> p]}
    BY <2>1
  <2>3. p \in Limits /\ n \in Quantities
    BY <1>2, <1>3, SizesAndPrices
  <2>4. Market!Ask(a, {[agent |-> a, side |-> s, quantity |-> n, limit |-> p]})
    BY <1>5, <2>2
  <2> QED
    BY <1>3, <2>3, <2>4 DEF Market!Decide
<1> QED
  BY <1>2, <1>6, <1>7 DEF CellDecide

LEMMA ConstrainSeen ==
    ASSUME CellInv, CellConstrain
    PROVE  Market!Constrain
<1>1. Seen /\ Seen'
  BY SeenNow, SeenNext
<1>2. /\ stage = "ask" /\ answered = Agents /\ stage' = "clear" /\ answered' = answered
      /\ submitted' = submitted /\ closes' = closes /\ books' = books /\ lender' = lender
      /\ Played' = Played /\ LastClose' = LastClose
  BY DEF CellConstrain, Played, LastClose
<1>3. constrained' = Market!Constrained(submitted,
          Market!AccountsOf(books.cash, books.shares, books.debt), Financing)
  BY MarketConstrained, MarketAccounts DEF CellConstrain
<1>4. /\ Phase = "constrain" /\ Phase' = "clear" /\ SeenAsked' = SeenAsked
      /\ SeenIntents = submitted /\ SeenIntents' = submitted
      /\ SeenOrders' = constrained' /\ SeenClearing' = SeenClearing
  BY <1>1, <1>2 DEF Seen
<1> QED
  BY <1>2, <1>3, <1>4 DEF Market!Constrain, Market!market, Market!accounts,
     SeenAsked, SeenIntents, SeenOrders, SeenClearing

(* The snapshot's price, of the start of the round, is still the last.       *)
LEMMA ClearSeen ==
    ASSUME CellInv, CellClear
    PROVE  Market!Clear
<1>1. Seen /\ Seen'
  BY SeenNow, SeenNext
<1>2. /\ stage = "clear" /\ stage' = "settle" /\ answered' = answered
      /\ submitted' = submitted /\ constrained' = constrained
      /\ closes' = closes /\ books' = books /\ lender' = lender
      /\ Played' = Played /\ LastClose' = LastClose
  BY DEF CellClear, Played, LastClose
<1>3. snapshot.price = LastClose
  BY <1>2 DEF CellInv, InRound
<1>4. auction' = Market!Clearing(constrained, LastClose)
  BY <1>3, MarketClearing DEF CellClear
<1>5. /\ Phase = "clear" /\ Phase' = "settle" /\ SeenAsked' = SeenAsked
      /\ SeenIntents' = SeenIntents /\ SeenOrders = constrained /\ SeenOrders' = SeenOrders
      /\ SeenClearing' = auction'
  BY <1>1, <1>2 DEF Seen
<1> QED
  BY <1>2, <1>4, <1>5 DEF Market!Clear, Market!market, Market!accounts,
     SeenAsked, SeenIntents, SeenOrders, SeenClearing

(* What the cell carries over is what the market would settle to.            *)
LEMMA SettleSeen ==
    ASSUME CellInv, EndRound
    PROVE  Market!Settle
<1>1. Seen /\ Seen'
  BY SeenNow, SeenNext
<1> PICK F : F = auction.fills
  OBVIOUS
<1>2. stage = "audit" /\ Sound
  BY AuditPasses DEF EndRound
<1>3. /\ stage' \in {"begin", "raised"}
      /\ books' = settlement.accounts /\ lender' = settlement.facility
  BY <1>2 DEF EndRound, CarryOver
<1>4. Played' = Played + 1 /\ LastClose' = auction.price
  BY <1>2, TapeGrows
<1>5. /\ books.cash' = Market!Paid(F, books.cash)
      /\ books.shares' = Market!Delivered(F, books.shares)
      /\ books.debt' = Market!Owed(F, books.cash, books.debt)
      /\ lender' = Market!Lent(F, books.cash, lender)
  <2>1. /\ settlement.accounts.cash = Paid(F, books.cash)
        /\ settlement.accounts.shares = Delivered(F, books.shares)
        /\ settlement.accounts.debt = Owed(F, books.cash, books.debt)
        /\ settlement.facility = Lent(F, books.cash, lender)
    BY <1>2, AuditFacts
  <2> QED
    BY <1>3, <2>1, MarketPaid, MarketDelivered, MarketOwed, MarketLent
<1>6. ~Market!Refused(constrained, auction, books.cash, books.shares, books.debt, lender)
  BY <1>2, CellAuction, MarketRefused
<1>7. /\ Phase = "settle" /\ SeenOrders = constrained /\ SeenClearing = auction
      /\ SeenAsked' = {} /\ SeenIntents' = {} /\ SeenOrders' = {}
      /\ SeenClearing' = Market!Idle
      /\ Phase' = IF Played' = Rounds THEN "done" ELSE "decide"
  BY <1>1, <1>2, <1>3, MarketIdle DEF Seen
<1>8. ~Market!Fails
  BY <1>6, <1>7 DEF Market!Fails, SeenOrders, SeenClearing
<1> QED
  BY <1>3, <1>4, <1>5, <1>7, <1>8 DEF Market!Settle,
     SeenAsked, SeenIntents, SeenOrders, SeenClearing

LEMMA StepIsMarket ==
    ASSUME CellInv, [CellNext]_cellVars, Quantities = Nat \ {0}, Limits = Nat \ {0}
    PROVE  Unseen \/ Market!Next
<1>1. CASE StartRound \/ CellSettle \/ Return \/ CellEnded \/ (CellDecide /\ stage' = "failed")
  BY <1>1, QuietCell
<1>2. CASE UNCHANGED cellVars
  BY <1>2 DEF cellVars, Unseen, SeenAsked, SeenIntents, SeenOrders, SeenClearing,
             Phase, InRound, Played, LastClose
<1>3. CASE CellDecide /\ stage' # "failed"
  BY <1>3, DecideSeen DEF Market!Next
<1>4. CASE CellConstrain
  BY <1>4, ConstrainSeen DEF Market!Next
<1>5. CASE CellClear
  BY <1>5, ClearSeen DEF Market!Next
<1>6. CASE EndRound
  BY <1>6, SettleSeen DEF Market!Next
<1> QED
  BY <1>1, <1>2, <1>3, <1>4, <1>5, <1>6 DEF CellNext

LEMMA CellStarts == CellInit => Market!Init
<1> SUFFICES ASSUME CellInit PROVE Market!Init
  OBVIOUS
<1>1. Seen /\ stage = "begin"
  BY SeenNow DEF CellInit
<1>2. /\ closes = <<[price |-> StartPrice, volume |-> 0]>> /\ Played = 0
      /\ LastClose = StartPrice
  BY DEF CellInit, Played, LastClose
<1>3. /\ books.cash = StartCash /\ books.shares = StartShares
      /\ books.debt = [a \in Agents |-> 0] /\ lender = [cash |-> FacilityCash, loans |-> 0]
  BY DEF CellInit
<1>4. /\ Phase = IF Rounds = 0 THEN "done" ELSE "decide"
      /\ SeenAsked = {} /\ SeenIntents = {} /\ SeenOrders = {} /\ SeenClearing = Market!Idle
  BY <1>1, <1>2, MarketAssumption, MarketIdle DEF Seen
<1> QED
  BY <1>2, <1>3, <1>4 DEF Market!Init, SeenAsked, SeenIntents, SeenOrders, SeenClearing

(* A cell whose policies may name any quantity and any price is a run of     *)
(* run_synchronous_market: the accounts, the facility and the last price its *)
(* own loop hands to each stage are those of the market's loop, and each     *)
(* round leaves what the market's settlement leaves, however many accounts   *)
(* and rounds there are.                                                     *)
THEOREM CellIsMarket ==
    ASSUME Quantities = Nat \ {0}, Limits = Nat \ {0}
    PROVE  CellSpec => ImplementsMarket
<1>1. CellInit => Market!Init
  BY CellStarts
<1>2. CellInv /\ [CellNext]_cellVars => [Market!Next]_(Market!vars)
  BY StepIsMarket, UnseenIsStutter
<1> QED
  BY <1>1, <1>2, CellInvariant, PTL DEF CellSpec, ImplementsMarket, Market!Spec


-----------------------------------------------------------------------------
(* Types                                                                     *)

LEMMA FillsTyped ==
    ASSUME NEW S, Book(S), S \subseteq Order(Agents), NEW last \in Nat \ {0},
           NEW cl, cl = Clearing(S, last)
    PROVE  cl.price \in Nat /\ cl.volume \in Nat /\ cl.fills \subseteq Fill
<1>1. Cleared(S, cl)
  BY ClearingFacts
<1>2. PICK p \in Nat \ {0} :
          /\ Matched(S, p) \in Nat
          /\ Matched(S, p) = 0 => cl = [price |-> last, volume |-> 0, fills |-> {}]
          /\ Matched(S, p) > 0 => cl.price = p /\ cl.fills = Fills(S, p)
  BY ClearingIs
<1>3. ASSUME NEW f \in cl.fills PROVE f \in Fill
  <2>1. Matched(S, p) > 0 /\ cl.fills = Fills(S, p)
    BY <1>2
  <2>2. f \in Fills(S, p)
    BY <2>1
  <2>3. \E o \in Buyers(S, p) \union Sellers(S, p) : \E n : f = FillOf(o, p, n)
    BY <2>2, FillsAre DEF Executed
  <2>4. PICK o \in Buyers(S, p) \union Sellers(S, p) : \E n : f = FillOf(o, p, n)
    BY <2>3
  <2>5. PICK n : f = FillOf(o, p, n)
    BY <2>4
  <2>6. f.quantity \in Nat \ {0}
    BY <1>1 DEF Cleared
  <2>7. n \in Nat \ {0}
    BY <2>5, <2>6, FillOfFacts
  <2>8. o \in Order(Agents)
    BY <2>4 DEF Buyers, Sellers
  <2>9. o.agent \in Agents /\ o.side \in {"buy", "sell"} /\ o.limit \in Nat
    BY <2>8 DEF Order
  <2> QED
    BY <2>5, <2>7, <2>9 DEF FillOf, Fill
<1> QED
  BY <1>1, <1>3 DEF Cleared

LEMMA InvTypes == MarketInv => TypeOK
<1> SUFFICES ASSUME MarketInv PROVE TypeOK
  OBVIOUS
<1>1. clearing.price \in Nat /\ clearing.volume \in Nat /\ clearing.fills \subseteq Fill
  <2>1. CASE phase \in {"settle", "raised"}
    BY <2>1, FillsTyped DEF MarketInv
  <2>2. CASE phase \notin {"settle", "raised"}
    BY <2>2, MarketAssumption DEF MarketInv, Idle
  <2> QED
    BY <2>1, <2>2
<1>2. /\ cash \in [Agents -> Nat] /\ shares \in [Agents -> Nat] /\ debt \in [Agents -> Nat]
      /\ facility \in [cash : Nat, loans : Nat]
  BY DEF MarketInv, Ledger, Solvent
<1> QED
  BY <1>1, <1>2 DEF MarketInv, TypeOK

(* Balances, holdings and debts are never negative, and fills are whole      *)
(* shares of known accounts (Account.__post_init__, CreditFacility).         *)
THEOREM MarketTypes == Spec => []TypeOK
<1>1. MarketInv => TypeOK
  BY InvTypes
<1> QED
  BY <1>1, MarketInvariant, PTL

-----------------------------------------------------------------------------
(***************************************************************************)
(* The endpoint study (EndpointStudy), whose accounts rest on the same     *)
(* lemmas about sums over finite sets: a study loses at most the block     *)
(* under way, a verdict leaves nothing running, and events, rows and the   *)
(* pooled table agree, for any schedule, number of cases, answers and      *)
(* faults.                                                                 *)
(***************************************************************************)

-----------------------------------------------------------------------------
(* The schedule: no request is planned in two blocks, and every wave runs   *)
(* every condition                                                          *)

LEMMA Multiples ==
    ASSUME NEW p \in Nat, NEW a \in Int, NEW b \in Int, a <= b
    PROVE  p * a <= p * b
  OBVIOUS

LEMMA Division ==
    ASSUME NEW n \in Nat, NEW p \in Nat \ {0}
    PROVE  /\ n \div p \in Nat /\ n % p \in 0..(p - 1)
           /\ n = p * (n \div p) + (n % p)
  OBVIOUS

LEMMA Quotient ==
    ASSUME NEW p \in Nat \ {0}, NEW q \in Nat, NEW r \in 0..(p - 1),
           NEW s \in Nat, NEW t \in 0..(p - 1), p * q + r = p * s + t
    PROVE  q = s /\ r = t
  <1>1. ASSUME NEW u \in Nat, NEW v \in Nat, u < v PROVE p * u + p <= p * v
    <2>1. p * (u + 1) <= p * v BY <1>1, Multiples
    <2>2. p * (u + 1) = p * u + p OBVIOUS
    <2> QED BY <2>1, <2>2
  <1> DEFINE a == p * q
             b == p * s
  <1>2. a \in Nat /\ b \in Nat OBVIOUS
  <1>3. (q < s => a + p <= b) /\ (s < q => b + p <= a) BY <1>1
  <1>4. a + r = b + t OBVIOUS
  <1> HIDE DEF a, b
  <1>5. ~(q < s) /\ ~(s < q) BY <1>2, <1>3, <1>4
  <1>6. q = s BY <1>5
  <1>7. a = b BY <1>6 DEF a, b
  <1> QED BY <1>2, <1>4, <1>6, <1>7

LEMMA Shape ==
    /\ Positions \in Nat /\ Waves \in Nat /\ Blocks \in Nat
    /\ Blocks = Positions * Waves
    /\ DOMAIN Conditions = 1..Positions /\ DOMAIN Spans = 1..Waves
    /\ Cases \in Nat \ {0} /\ Repeats \in Nat
    /\ \A w \in 1..Waves : Spans[w][1] \in Nat /\ Spans[w][2] \in Nat
  <1>1. Positions \in Nat /\ Waves \in Nat
    BY StudyAssumption DEF Positions, Waves
  <1>2. DOMAIN Conditions = 1..Positions /\ DOMAIN Spans = 1..Waves
    BY StudyAssumption DEF Positions, Waves
  <1>3. Blocks \in Nat /\ Blocks = Positions * Waves BY <1>1 DEF Blocks
  <1>4. \A w \in 1..Waves : Spans[w][1] \in Nat /\ Spans[w][2] \in Nat
    <2> DEFINE Pair == Nat \X Nat
    <2>1. Spans \in Seq(Pair) BY StudyAssumption
    <2> HIDE DEF Pair
    <2>2. \A w \in DOMAIN Spans : Spans[w] \in Pair BY <2>1
    <2> QED BY <1>2, <2>2 DEF Pair
  <1> QED BY <1>1, <1>2, <1>3, <1>4, StudyAssumption

(* The place of a block in the schedule. *)
PlaceOf(b) == (b - 1) % Positions

LEMMA Placed ==
    ASSUME NEW b \in 1..Blocks
    PROVE  /\ Positions # 0 /\ WaveOf(b) \in 1..Waves /\ PlaceOf(b) \in 0..(Positions - 1)
           /\ b = Positions * (WaveOf(b) - 1) + PlaceOf(b) + 1
  <1> DEFINE q == (b - 1) \div Positions
  <1>1. Positions # 0
    <2> SUFFICES ASSUME Positions = 0 PROVE FALSE OBVIOUS
    <2>1. 0 * Waves = 0 BY Shape
    <2>2. Blocks = 0 BY <2>1, Shape
    <2> QED BY <2>2
  <1>2. Positions \in Nat \ {0} /\ b - 1 \in Nat BY <1>1, Shape
  <1>3. q \in Nat /\ PlaceOf(b) \in 0..(Positions - 1) /\ b - 1 = Positions * q + PlaceOf(b)
    BY <1>2, Division DEF PlaceOf
  <1>4. WaveOf(b) = q + 1 BY DEF WaveOf
  <1> HIDE DEF q
  <1>5. q < Waves
    <2> SUFFICES ASSUME Waves <= q PROVE FALSE BY <1>3, Shape
    <2>1. Positions * Waves <= Positions * q BY <1>3, Shape, Multiples
    <2> DEFINE x == Positions * q
               y == Positions * Waves
    <2>2. x \in Nat /\ b - 1 = x + PlaceOf(b) /\ PlaceOf(b) \in Nat BY <1>3, Shape
    <2>3. b <= y /\ y \in Nat BY Shape
    <2>4. y <= x BY <2>1
    <2> HIDE DEF x, y
    <2> QED BY <2>2, <2>3, <2>4
  <1>6. WaveOf(b) - 1 = q BY <1>3, <1>4
  <1>7. Positions * q \in Nat BY <1>3, Shape
  <1>8. b = Positions * q + PlaceOf(b) + 1 BY <1>3, <1>7
  <1>9. WaveOf(b) \in 1..Waves BY <1>3, <1>4, <1>5, Shape
  <1> QED BY <1>1, <1>3, <1>6, <1>8, <1>9

(* Rotated(w, p): the condition at place p of wave w. *)
Rotated(w, p) == ((w - 1 + p) % Positions) + 1

LEMMA Condition ==
    ASSUME NEW b \in 1..Blocks
    PROVE  /\ Rotated(WaveOf(b), PlaceOf(b)) \in 1..Positions
           /\ ConditionOf(b) = Conditions[Rotated(WaveOf(b), PlaceOf(b))]
  <1> DEFINE n == WaveOf(b) - 1 + PlaceOf(b)
  <1>1. Positions \in Nat \ {0} /\ n \in Nat BY Placed, Shape
  <1>2. ConditionOf(b) = Conditions[(n % Positions) + 1]
    BY DEF ConditionOf, PlaceOf
  <1>3. n % Positions \in 0..(Positions - 1)
    <2> HIDE DEF n
    <2> QED BY <1>1, Division
  <1>4. Rotated(WaveOf(b), PlaceOf(b)) = (n % Positions) + 1 BY DEF Rotated
  <1> HIDE DEF n
  <1> QED BY <1>1, <1>2, <1>3, <1>4

LEMMA RotationIsOneToOne ==
    ASSUME NEW w \in Nat \ {0}, Positions # 0,
           NEW p \in 0..(Positions - 1), NEW q \in 0..(Positions - 1),
           Rotated(w, p) = Rotated(w, q)
    PROVE  p = q
  <1> DEFINE m == w - 1 + p
             n == w - 1 + q
             P == Positions
  <1>1. P \in Nat \ {0} /\ m \in Nat /\ n \in Nat BY Shape
  <1>2. m % P = n % P
    <2>1. m % P \in Int /\ n % P \in Int BY <1>1, Division
    <2>2. Rotated(w, p) = (m % P) + 1 /\ Rotated(w, q) = (n % P) + 1 BY DEF Rotated
    <2> DEFINE x == m % P
               y == n % P
    <2>3. x \in Int /\ y \in Int /\ x + 1 = y + 1 BY <2>1, <2>2
    <2> HIDE DEF x, y
    <2>4. x = y BY <2>3
    <2> QED BY <2>4 DEF x, y
  <1>3. m - n = p - q BY Shape
  <1> HIDE DEF m, n, P
  <1> DEFINE r == m % P
             u == P * (m \div P)
             v == P * (n \div P)
  <1>4. r \in 0..(P - 1) /\ m = u + r /\ n = v + r /\ u \in Int /\ v \in Int
    BY <1>1, <1>2, Division
  <1>5. P = Positions BY DEF P
  <1>6. ASSUME NEW d \in Int, NEW e \in Int, d < e PROVE P * d + P <= P * e
    <2>1. P * (d + 1) <= P * e BY <1>1, <1>6, Multiples
    <2>2. P * (d + 1) = P * d + P BY <1>1
    <2> QED BY <2>1, <2>2
  <1>7. m \div P \in Int /\ n \div P \in Int BY <1>1, Division
  <1>8. (m \div P < n \div P => u + P <= v) /\ (n \div P < m \div P => v + P <= u)
    BY <1>6, <1>7
  <1>9. m \div P = n \div P => u = v OBVIOUS
  <1> HIDE DEF r, u, v
  <1>10. u = v BY <1>1, <1>3, <1>4, <1>5, <1>7, <1>8, <1>9, Shape
  <1> QED BY <1>1, <1>3, <1>4, <1>10, Shape

LEMMA OneBlock ==
    ASSUME NEW b \in 1..Blocks, NEW c \in 1..Blocks,
           WaveOf(b) = WaveOf(c), ConditionOf(b) = ConditionOf(c)
    PROVE  b = c
  <1>1. Rotated(WaveOf(b), PlaceOf(b)) = Rotated(WaveOf(c), PlaceOf(c))
    BY Condition, Shape, StudyAssumption
  <1>2. PlaceOf(b) = PlaceOf(c)
    <2>1. /\ Positions # 0 /\ WaveOf(b) \in 1..Waves
          /\ PlaceOf(b) \in 0..(Positions - 1) /\ PlaceOf(c) \in 0..(Positions - 1)
      BY Placed
    <2>2. WaveOf(b) \in Nat \ {0} BY <2>1, Shape
    <2>3. Rotated(WaveOf(b), PlaceOf(b)) = Rotated(WaveOf(b), PlaceOf(c)) BY <1>1
    <2> QED BY <2>1, <2>2, <2>3, RotationIsOneToOne
  <1> QED
    <2>1. b = Positions * (WaveOf(b) - 1) + PlaceOf(b) + 1 BY Placed
    <2>2. c = Positions * (WaveOf(c) - 1) + PlaceOf(c) + 1 BY Placed
    <2> QED BY <1>2, <2>1, <2>2

-----------------------------------------------------------------------------
(* The requests of a block *)

Sample(c, i, k) == [kind |-> "grid", condition |-> c, replicate |-> i, case |-> k]

Samples(b) == {Sample(ConditionOf(b), i, k) : i \in Span(WaveOf(b)), k \in 1..Cases}

LEMMA GridIs ==
    ASSUME NEW b \in 1..Blocks
    PROVE  Range(GridBlock(b)) = Samples(b)
  <1> DEFINE w == WaveOf(b)
             from == Spans[w][1]
             size == Spans[w][2] - Spans[w][1]
             C == Cases
             N == size * C
             at(i) == Sample(ConditionOf(b), from + ((i - 1) \div C), ((i - 1) % C) + 1)
  <1>0. w \in 1..Waves BY Placed
  <1>1. from \in Nat /\ Spans[w][2] \in Nat /\ size \in Int /\ C \in Nat \ {0}
    BY <1>0, Shape
  <1>2. GridBlock(b) = [i \in 1..N |-> at(i)] BY DEF GridBlock, Sample
  <1>3. Span(w) = from..(from + size - 1) 
    <2> DEFINE to == Spans[w][2]
    <2>1. Span(w) = from..(to - 1) /\ size = to - from BY DEF Span
    <2>2. to \in Nat /\ from \in Nat BY <1>1
    <2> HIDE DEF from, to, size, w
    <2>3. from + size - 1 = to - 1 BY <2>1, <2>2
    <2> QED BY <2>1, <2>3
  <1>4. Range(GridBlock(b)) = {at(i) : i \in 1..N}
    <2> DEFINE f == [i \in 1..N |-> at(i)]
    <2>1. Range(f) = {f[i] : i \in DOMAIN f} BY DEF Range
    <2>2. DOMAIN f = 1..N /\ \A i \in 1..N : f[i] = at(i) OBVIOUS
    <2> HIDE DEF f, at, N
    <2>3. Range(f) = {at(i) : i \in 1..N} BY <2>1, <2>2
    <2> QED BY <1>2, <2>3 DEF f
  <1>5. ASSUME NEW i \in 1..N PROVE at(i) \in Samples(b)
    <2> DEFINE q == (i - 1) \div C
               r == (i - 1) % C
    <2>0. N \in Int BY <1>1
    <2>1. i - 1 \in Nat /\ i - 1 < N
      <3> HIDE DEF N
      <3> QED BY <2>0
    <2>2. q \in Nat /\ r \in 0..(C - 1) /\ i - 1 = C * q + r
      <3> HIDE DEF C
      <3> QED BY <1>1, <2>1, Division
    <2> HIDE DEF q, r
    <2>3. q < size
      <3> SUFFICES ASSUME size <= q PROVE FALSE BY <1>1, <2>2
      <3> DEFINE x == C * q
                 y == C * size
      <3>1. y <= x BY <1>1, <2>2, Multiples
      <3>2. y = N /\ x \in Int /\ y \in Int BY <1>1, <2>2
      <3>3. i - 1 = x + r BY <2>2
      <3> HIDE DEF x, y, N, C
      <3> QED BY <1>1, <2>1, <2>2, <3>1, <3>2, <3>3
    <2>4. from + q \in Span(w)
      <3> HIDE DEF from, size, w
      <3> QED BY <1>1, <1>3, <2>2, <2>3
    <2>5. r + 1 \in 1..Cases BY <1>1, <2>2
    <2>6. at(i) = Sample(ConditionOf(b), from + q, r + 1) BY DEF q, r
    <2> HIDE DEF from, at
    <2> QED BY <2>4, <2>5, <2>6 DEF Samples
  <1>6. ASSUME NEW h \in Span(w), NEW k \in 1..Cases
        PROVE  \E i \in 1..N : at(i) = Sample(ConditionOf(b), h, k)
    <2> DEFINE q == h - from
               i == C * q + k
    <2>1. q \in Nat /\ q + 1 <= size /\ h = from + q
      <3> HIDE DEF from, size, w
      <3> QED BY <1>1, <1>3
    <2>2. k - 1 \in 0..(C - 1) /\ k \in Nat /\ k <= C BY <1>1
    <2> DEFINE x == C * q
               y == C * (q + 1)
    <2>3. y <= C * size BY <1>1, <2>1, Multiples
    <2>4. y = x + C /\ x \in Nat /\ C * size = N /\ N \in Int
      <3>1. C \in Nat /\ C * 1 = C BY <1>1
      <3>2. x \in Nat /\ y = x + C
        <4> HIDE DEF q, C
        <4> QED BY <2>1, <3>1, Distributes DEF x, y
      <3>3. C * size = N /\ N \in Int BY <1>1
      <3> QED BY <3>2, <3>3
    <2>5. i \in 1..N
      <3>1. i = x + k OBVIOUS
      <3> HIDE DEF q, i, x, y, N, C, size
      <3> QED BY <1>1, <2>2, <2>3, <2>4, <3>1
    <2>6. i - 1 = C * q + (k - 1) /\ i - 1 \in Nat
      <3>1. i = x + k OBVIOUS
      <3> HIDE DEF i, x, C
      <3> QED BY <2>2, <2>4, <3>1 DEF x
    <2>7. (i - 1) \div C = q /\ (i - 1) % C = k - 1
      <3> HIDE DEF q, i, C
      <3> DEFINE s == (i - 1) \div C
                 t == (i - 1) % C
      <3>1. s \in Nat /\ t \in 0..(C - 1) /\ i - 1 = C * s + t BY <1>1, <2>6, Division
      <3> HIDE DEF s, t
      <3>2. C * s + t = C * q + (k - 1) BY <2>6, <3>1
      <3> DEFINE u == k - 1
      <3>3. u \in 0..(C - 1) /\ C * s + t = C * q + u BY <2>2, <3>2
      <3> HIDE DEF u
      <3>4. s = q /\ t = u BY <1>1, <2>1, <3>1, <3>3, Quotient
      <3> QED BY <3>4 DEF s, t, u
    <2>8. at(i) = Sample(ConditionOf(b), from + q, (k - 1) + 1)
      <3> HIDE DEF i, q, C, from
      <3> QED BY <2>7
    <2>9. (k - 1) + 1 = k /\ from + q = h BY <2>1, <2>2
    <2> HIDE DEF i, q, at, N, from
    <2> QED BY <2>5, <2>8, <2>9
  <1> HIDE DEF at, N
  <1>7. {at(i) : i \in 1..N} = Samples(b) BY <1>5, <1>6 DEF Samples
  <1> QED BY <1>4, <1>7

LEMMA BlockIs ==
    /\ DOMAIN Planned = 1..(Blocks + 1) /\ DOMAIN BlockOf = 1..(Blocks + 1)
    /\ \A b \in 1..(Blocks + 1) : Planned[b] = Range(BlockOf[b])
    /\ \A b \in 1..Blocks : BlockOf[b] = GridBlock(b) /\ Planned[b] = Samples(b)
    /\ BlockOf[Blocks + 1] = SeedBlock
    /\ Planned[Blocks + 1] = {[kind |-> "seed", index |-> i] : i \in 1..2}
  <1>1. Blocks \in Nat /\ Blocks + 1 \in 1..(Blocks + 1) /\ ~(Blocks + 1 <= Blocks) BY Shape
  <1>2. /\ DOMAIN Planned = 1..(Blocks + 1) /\ DOMAIN BlockOf = 1..(Blocks + 1)
        /\ \A b \in 1..(Blocks + 1) : Planned[b] = Range(BlockOf[b])
    BY DEF Planned, BlockOf
  <1>3. \A b \in 1..Blocks : b \in 1..(Blocks + 1) /\ b <= Blocks BY <1>1
  <1>4. \A b \in 1..Blocks : BlockOf[b] = GridBlock(b) BY <1>3 DEF BlockOf
  <1>5. BlockOf[Blocks + 1] = SeedBlock BY <1>1 DEF BlockOf
  <1>6. Range(SeedBlock) = {[kind |-> "seed", index |-> i] : i \in 1..2}
    <2>1. DOMAIN SeedBlock = 1..2 /\ \A i \in 1..2 : SeedBlock[i] = [kind |-> "seed", index |-> i]
      BY DEF SeedBlock
    <2> QED BY <2>1 DEF Range
  <1> QED BY <1>1, <1>2, <1>3, <1>4, <1>5, <1>6, GridIs

LEMMA BlocksAreDisjoint ==
    ASSUME NEW b \in 1..(Blocks + 1), NEW c \in 1..(Blocks + 1), b # c
    PROVE  Planned[b] \intersect Planned[c] = {}
  <1> SUFFICES ASSUME NEW r \in Planned[b], r \in Planned[c] PROVE FALSE OBVIOUS
  <1>1. \A d \in 1..(Blocks + 1) : r \in Planned[d] =>
            (r.kind = "grid" => d \in 1..Blocks) /\ (r.kind = "seed" => d = Blocks + 1)
    <2> SUFFICES ASSUME NEW d \in 1..(Blocks + 1), r \in Planned[d]
          PROVE (r.kind = "grid" => d \in 1..Blocks) /\ (r.kind = "seed" => d = Blocks + 1)
      OBVIOUS
    <2>1. CASE d \in 1..Blocks
      <3>1. r \in Samples(d) BY <2>1, BlockIs
      <3>2. r.kind = "grid" BY <3>1 DEF Samples, Sample
      <3> QED BY <2>1, <3>2
    <2>2. CASE d = Blocks + 1
      <3>1. r.kind = "seed" BY <2>2, BlockIs
      <3> QED BY <2>2, <3>1
    <2> QED BY <2>1, <2>2, Shape
  <1>2. r.kind \in {"grid", "seed"}
    <2>1. CASE b \in 1..Blocks
      <3>1. r \in Samples(b) BY <2>1, BlockIs
      <3> QED BY <3>1 DEF Samples, Sample
    <2>2. CASE b = Blocks + 1
      BY <2>2, BlockIs
    <2> QED BY <2>1, <2>2, Shape
  <1>3. b \in 1..Blocks /\ c \in 1..Blocks BY <1>1, <1>2
  <1>4. r \in Samples(b) /\ r \in Samples(c) BY <1>3, BlockIs
  <1>5. /\ r.condition = ConditionOf(b) /\ r.condition = ConditionOf(c)
        /\ r.replicate \in Span(WaveOf(b)) /\ r.replicate \in Span(WaveOf(c))
    BY <1>4 DEF Samples, Sample
  <1>6. WaveOf(b) = WaveOf(c)
    <2>1. WaveOf(b) \in DOMAIN Spans /\ WaveOf(c) \in DOMAIN Spans BY <1>3, Placed, Shape
    <2> QED BY <1>5, <2>1, StudyAssumption
  <1>7. b = c BY <1>3, <1>5, <1>6, OneBlock
  <1> QED BY <1>7

(* A sequence has finitely many elements. *)
LEMMA RangeIsFinite ==
    ASSUME NEW s, NEW n \in Nat, DOMAIN s = 1..n
    PROVE  IsFiniteSet(Range(s))
  <1> DEFINE f == [i \in 1..n |-> s[i]]
  <1>1. f \in Surjection(1..n, Range(s)) BY DEF Surjection, Range
  <1>2. IsFiniteSet(1..n) BY FS_Interval
  <1> HIDE DEF f
  <1> QED BY <1>1, <1>2, FS_Surjection

LEMMA PlanIsFinite ==
    /\ \A b \in 1..(Blocks + 1) : IsFiniteSet(Planned[b])
    /\ IsFiniteSet(Requests)
  <1>1. ASSUME NEW b \in 1..Blocks PROVE IsFiniteSet(Planned[b])
    <2> DEFINE A == Span(WaveOf(b))
               B == 1..Cases
               P == A \X B
               f == [p \in P |-> Sample(ConditionOf(b), p[1], p[2])]
    <2>1. IsFiniteSet(A)
      <3>1. Spans[WaveOf(b)][1] \in Int /\ Spans[WaveOf(b)][2] - 1 \in Int BY Placed, Shape
      <3> QED BY <3>1, FS_Interval DEF Span
    <2>2. IsFiniteSet(B) BY FS_Interval, Shape
    <2>3. IsFiniteSet(P)
      <3> HIDE DEF A, B
      <3> QED BY <2>1, <2>2, FS_Product
    <2>4. f \in Surjection(P, Samples(b))
      <3> HIDE DEF A, B
      <3>1. Samples(b) = {Sample(ConditionOf(b), i, k) : i \in A, k \in B} BY DEF Samples, A, B
      <3>2. f \in [P -> Samples(b)] BY <3>1
      <3>3. ASSUME NEW t \in Samples(b) PROVE \E p \in P : f[p] = t
        <4>1. PICK i \in A, k \in B : t = Sample(ConditionOf(b), i, k) BY <3>1
        <4>2. <<i, k>> \in P /\ f[<<i, k>>] = t BY <4>1
        <4> QED BY <4>2
      <3> QED BY <3>2, <3>3 DEF Surjection
    <2> HIDE DEF P, f
    <2>5. IsFiniteSet(Samples(b)) BY <2>3, <2>4, FS_Surjection
    <2> QED BY <2>5, BlockIs
  <1>2. IsFiniteSet(Planned[Blocks + 1])
    <2>1. DOMAIN SeedBlock = 1..2 BY DEF SeedBlock
    <2>2. IsFiniteSet(Range(SeedBlock)) BY <2>1, RangeIsFinite
    <2>3. Blocks + 1 \in 1..(Blocks + 1) BY Shape
    <2>4. Planned[Blocks + 1] = Range(SeedBlock) BY <2>3, BlockIs
    <2> QED BY <2>2, <2>4
  <1>3. \A b \in 1..(Blocks + 1) : IsFiniteSet(Planned[b]) BY <1>1, <1>2, Shape
  <1>4. IsFiniteSet(Range(Planned))
    <2>1. Blocks + 1 \in Nat BY Shape
    <2> QED BY <2>1, BlockIs, RangeIsFinite
  <1>5. \A S \in Range(Planned) : IsFiniteSet(S) BY <1>3, BlockIs DEF Range
  <1>6. IsFiniteSet(Requests) BY <1>4, <1>5, FS_UNION DEF Requests
  <1> QED BY <1>3, <1>6

LEMMA Wholes ==
    /\ Whole(0) = {}
    /\ Whole(Blocks + 1) = Requests
    /\ \A n \in 0..(Blocks + 1) : Whole(n) \subseteq Requests /\ IsFiniteSet(Whole(n))
    /\ \A b \in 1..(Blocks + 1) :
          /\ Whole(b) = Whole(b - 1) \union Planned[b]
          /\ Whole(b - 1) \intersect Planned[b] = {}
          /\ Planned[b] \subseteq Requests
  <1>1. Whole(0) = {} BY DEF Whole
  <1>2. \A b \in 1..(Blocks + 1) : Planned[b] \subseteq Requests
    BY BlockIs DEF Requests, Range
  <1>3. Requests = UNION {Planned[b] : b \in 1..(Blocks + 1)}
    BY BlockIs DEF Requests, Range
  <1>4. Whole(Blocks + 1) = Requests BY <1>3 DEF Whole
  <1>5. ASSUME NEW n \in 0..(Blocks + 1) PROVE Whole(n) \subseteq Requests
    <2>1. \A b \in 1..n : b \in 1..(Blocks + 1) BY Shape
    <2> QED BY <1>2, <2>1 DEF Whole
  <1>6. ASSUME NEW n \in 0..(Blocks + 1) PROVE IsFiniteSet(Whole(n))
    BY <1>5, PlanIsFinite, FS_Subset
  <1>7. ASSUME NEW b \in 1..(Blocks + 1)
        PROVE  /\ Whole(b) = Whole(b - 1) \union Planned[b]
               /\ Whole(b - 1) \intersect Planned[b] = {}
    <2>1. 1..b = (1..(b - 1)) \union {b} /\ b \in 1..b BY Shape
    <2>2. \A c \in 1..(b - 1) : c \in 1..(Blocks + 1) /\ c # b BY Shape
    <2>3. Whole(b) = Whole(b - 1) \union Planned[b]
      <3> DEFINE A == 1..(b - 1)
                 B == 1..b
      <3>1. B = A \union {b} BY <2>1
      <3> HIDE DEF A, B
      <3>2. (UNION {Planned[c] : c \in B}) = (UNION {Planned[c] : c \in A}) \union Planned[b]
        BY <3>1
      <3> QED BY <3>2 DEF Whole, A, B
    <2>4. \A c \in 1..(b - 1) : Planned[c] \intersect Planned[b] = {}
      BY <2>2, BlocksAreDisjoint
    <2>5. Whole(b - 1) \intersect Planned[b] = {}
      <3> DEFINE A == 1..(b - 1)
      <3>1. \A c \in A : Planned[c] \intersect Planned[b] = {} BY <2>4
      <3> HIDE DEF A
      <3>2. (UNION {Planned[c] : c \in A}) \intersect Planned[b] = {} BY <3>1
      <3> QED BY <3>2 DEF Whole, A
    <2> QED BY <2>3, <2>5
  <1> QED BY <1>1, <1>2, <1>4, <1>5, <1>6, <1>7

-----------------------------------------------------------------------------
(* The inductive invariant                                                  *)

Places == {"guard", "block", "send", "private", "public", "checkpoint", "summarise",
           "export", "finish", "closing", "fail", "over", "killed"}
States == {"planned", "waiting", "asked", "done", "broken", "cancelled"}
Outcomes == {"none", "parsed", "unparsed", "failed", "rejected"}

IsManifest(m) ==
    /\ m = [status |-> m.status, attempted |-> m.attempted, completed |-> m.completed,
            rows |-> m.rows, summary |-> m.summary, dry |-> m.dry]
    /\ m.attempted \in Nat /\ m.completed \in Nat /\ m.dry \in BOOLEAN

StudyTypes ==
    /\ pc \in Places /\ block \in 1..(Blocks + 1)
    /\ task \in [Requests -> States] /\ outcome \in [Requests -> Outcomes]
    /\ provider \in [requests : Nat, responses : Nat]
    /\ IsManifest(mem) /\ IsManifest(disk)

(* Where the program is past the last block, unless it only planned. *)
Past == pc = "summarise" \/ (pc \in {"export", "finish"} /\ ~mem.dry)
Gathered == Past \/ pc \in {"private", "public", "checkpoint"}

(* Earlier blocks are done, later ones untouched. *)
Progress ==
    /\ \A r \in Whole(block - 1) : task[r] = "done"
    /\ \A r \in Requests \ Whole(block) : task[r] = "planned"
    /\ pc \in {"guard", "block"} => \A r \in Planned[block] : task[r] = "planned"
    /\ Gathered => \A r \in Planned[block] : task[r] = "done"
    /\ Past => block = Blocks + 1
    /\ pc \notin {"send", "closing", "killed"} =>
          \A r \in Requests : task[r] \notin {"waiting", "asked"}

OnFile ==
    /\ Whole(block - 1) \subseteq public /\ public \subseteq private
    /\ private \subseteq Whole(block)
    /\ pc \in {"guard", "block", "send", "private"} => private = Whole(block - 1)
    /\ pc = "public" => private = Whole(block) /\ public = Whole(block - 1)
    /\ (pc = "checkpoint" \/ Past) => public = Whole(block)

(* Rows and their outcomes o, as _completion_summary counts them. *)
Replies(rows, o) == {r \in rows : o[r] \in Answered}
Tally(rows, o) ==
    [attempted |-> Cardinality(rows), completed |-> Cardinality(Replies(rows, o)),
     parsed |-> Cardinality({r \in rows : o[r] \in {"parsed"}})]

(* The rows of the block under way may be claimed. *)
Told ==
    /\ pc \notin {"guard", "block", "send", "private", "public"}
    /\ Whole(block) \subseteq public
    /\ \A r \in Planned[block] : task[r] = "done"

Claims(m) ==
    \/ m.rows = Tally(Whole(block - 1), outcome)
    \/ Told /\ m.rows = Tally(Whole(block), outcome)

(* Requests by the state of their coroutine, and by the log. *)
TriedIn(t) == {r \in Requests : t[r] \in {"asked", "done"}}
AskedIn(t) == {r \in Requests : t[r] = "asked"}
RepliedIn(t, o) == {r \in Requests : t[r] = "done" /\ o[r] \in Answered}
Noted(l) == {r \in Requests : <<"LLMRequestRecorded", r>> \in l}

Accounts ==
    /\ Cardinality(TriedIn(task)) <= provider.requests
    /\ provider.responses + Cardinality(AskedIn(task)) <= provider.requests
    /\ Cardinality(RepliedIn(task, outcome)) <= provider.responses
    /\ provider.requests <= mem.attempted
    /\ mem.attempted <= Cardinality(Noted(log))
    /\ mem.completed <= provider.responses
    /\ disk.completed <= disk.attempted
    /\ \A r \in Requests : task[r] \in {"planned", "waiting"} => r \notin Noted(log)

(* While nothing goes wrong, everyone counts the same. *)
Smooth ==
    pc \notin {"closing", "fail", "over", "killed"} =>
        /\ disk = mem
        /\ mem.attempted = Cardinality(TriedIn(task))
        /\ mem.completed = Cardinality(RepliedIn(task, outcome))
        /\ provider.requests = mem.attempted /\ provider.responses = mem.completed

Verdicts ==
    /\ pc # "over" => mem.status = "running" /\ disk.status = "running"
    /\ pc = "over" /\ disk.status # "running" =>
          disk = mem /\ mem.completed = provider.responses

(* What the summary s says of the outcomes o of all requests. *)
Honest(table) == MapThenSumSet(LAMBDA l : l.honest, table)

AddsUp(s, o) ==
    LET seeds == Planned[Blocks + 1]
    IN  /\ s.total = Tally(Requests, o)
        /\ Honest(s.table) + Cardinality(Replies(seeds, o)) = Cardinality(Replies(Requests, o))
        /\ \A l \in s.table :
              /\ l.parsed <= l.honest /\ l.freedom <= l.parsed
              /\ l.pairs >= l.honest - Cases
        /\ s.seed = "accepted" => Replies(seeds, o) = seeds

Complete(m) ==
    /\ block = Blocks + 1 /\ public = Requests /\ private = Requests
    /\ m.attempted = Cardinality(Requests)
    /\ m.completed = Cardinality(Replies(Requests, outcome))
    /\ AddsUp(m.summary, outcome)

Sealed ==
    /\ pc \in {"export", "finish"} /\ ~mem.dry => Complete(mem)
    /\ disk.status = "finished" /\ ~disk.dry => Complete(disk)

StudyInv ==
    /\ StudyTypes /\ Progress /\ OnFile /\ Claims(mem) /\ Claims(disk) /\ Accounts
    /\ Smooth /\ Verdicts /\ Sealed

-----------------------------------------------------------------------------
(* One request moves                                                        *)

LEMMA PartsAreFinite ==
    ASSUME NEW S \in SUBSET Requests
    PROVE  IsFiniteSet(S) /\ Cardinality(S) \in Nat
  BY PlanIsFinite, FS_Subset, FS_CardinalityType

LEMMA SmallerPart ==
    ASSUME NEW S \in SUBSET Requests, NEW T \in SUBSET S
    PROVE  Cardinality(T) <= Cardinality(S)
  <1>1. IsFiniteSet(S) BY PartsAreFinite
  <1> QED BY <1>1, FS_Subset

LEMMA OneMore ==
    ASSUME NEW S \in SUBSET Requests, NEW r \in Requests, r \notin S
    PROVE  Cardinality(S \union {r}) = Cardinality(S) + 1
  <1>1. IsFiniteSet(S) BY PartsAreFinite
  <1> QED BY <1>1, FS_AddElement

LEMMA OneLess ==
    ASSUME NEW S \in SUBSET Requests, NEW r \in S
    PROVE  Cardinality(S \ {r}) = Cardinality(S) - 1
  <1>1. IsFiniteSet(S) BY PartsAreFinite
  <1> QED BY <1>1, FS_RemoveElement

LEMMA Groups ==
    ASSUME NEW t, NEW o, NEW l
    PROVE  /\ TriedIn(t) \in SUBSET Requests /\ AskedIn(t) \in SUBSET Requests
           /\ RepliedIn(t, o) \in SUBSET Requests /\ Noted(l) \in SUBSET Requests
           /\ Cardinality(TriedIn(t)) \in Nat /\ Cardinality(AskedIn(t)) \in Nat
           /\ Cardinality(RepliedIn(t, o)) \in Nat /\ Cardinality(Noted(l)) \in Nat
  <1>1. /\ TriedIn(t) \in SUBSET Requests /\ AskedIn(t) \in SUBSET Requests
        /\ RepliedIn(t, o) \in SUBSET Requests /\ Noted(l) \in SUBSET Requests
    BY DEF TriedIn, AskedIn, RepliedIn, Noted
  <1> QED BY <1>1, PartsAreFinite

LEMMA Asking ==
    ASSUME NEW t \in [Requests -> States], NEW o, NEW r \in Requests, t[r] = "waiting",
           NEW u, u = [t EXCEPT ![r] = "asked"]
    PROVE  /\ Cardinality(TriedIn(u)) = Cardinality(TriedIn(t)) + 1
           /\ Cardinality(AskedIn(u)) = Cardinality(AskedIn(t)) + 1
           /\ RepliedIn(u, o) = RepliedIn(t, o)
  <1>1. TriedIn(u) = TriedIn(t) \union {r} /\ r \notin TriedIn(t) BY DEF TriedIn
  <1>2. AskedIn(u) = AskedIn(t) \union {r} /\ r \notin AskedIn(t) BY DEF AskedIn
  <1>3. RepliedIn(u, o) = RepliedIn(t, o) BY DEF RepliedIn
  <1> QED BY <1>1, <1>2, <1>3, Groups, OneMore

LEMMA Breaking ==
    ASSUME NEW t \in [Requests -> States], NEW o, NEW r \in Requests,
           t[r] \in {"waiting", "asked"}, NEW u, u = [t EXCEPT ![r] = "broken"]
    PROVE  /\ Cardinality(TriedIn(u)) <= Cardinality(TriedIn(t))
           /\ Cardinality(AskedIn(u)) <= Cardinality(AskedIn(t))
           /\ t[r] = "asked" => Cardinality(AskedIn(u)) = Cardinality(AskedIn(t)) - 1
           /\ RepliedIn(u, o) = RepliedIn(t, o)
  <1>1. TriedIn(u) \in SUBSET TriedIn(t) BY DEF TriedIn
  <1>2. AskedIn(u) = AskedIn(t) \ {r} BY DEF AskedIn
  <1>3. t[r] = "asked" => r \in AskedIn(t) BY DEF AskedIn
  <1>4. RepliedIn(u, o) = RepliedIn(t, o) BY DEF RepliedIn
  <1>5. AskedIn(u) \in SUBSET AskedIn(t) BY <1>2
  <1>6. Cardinality(TriedIn(u)) <= Cardinality(TriedIn(t)) BY <1>1, Groups, SmallerPart
  <1>7. Cardinality(AskedIn(u)) <= Cardinality(AskedIn(t)) BY <1>5, Groups, SmallerPart
  <1>8. t[r] = "asked" => Cardinality(AskedIn(u)) = Cardinality(AskedIn(t)) - 1
    BY <1>2, <1>3, Groups, OneLess
  <1> QED BY <1>4, <1>6, <1>7, <1>8

LEMMA Answering ==
    ASSUME NEW t \in [Requests -> States], NEW r \in Requests, t[r] = "asked",
           NEW u, u = [t EXCEPT ![r] = "done"]
    PROVE  /\ TriedIn(u) = TriedIn(t)
           /\ Cardinality(AskedIn(u)) = Cardinality(AskedIn(t)) - 1
  <1>1. TriedIn(u) = TriedIn(t) BY DEF TriedIn
  <1>2. AskedIn(u) = AskedIn(t) \ {r} /\ r \in AskedIn(t) BY DEF AskedIn
  <1> QED BY <1>1, <1>2, Groups, OneLess

LEMMA Replying ==
    ASSUME NEW t \in [Requests -> States], NEW r \in Requests, t[r] = "asked",
           NEW u, u = [t EXCEPT ![r] = "done"],
           NEW o, NEW p, \A q \in Requests \ {r} : p[q] = o[q]
    PROVE  Cardinality(RepliedIn(u, p)) =
              Cardinality(RepliedIn(t, o)) + (IF p[r] \in Answered THEN 1 ELSE 0)
  <1>1. r \notin RepliedIn(t, o) BY DEF RepliedIn
  <1>2. p[r] \in Answered => RepliedIn(u, p) = RepliedIn(t, o) \union {r}
    BY DEF RepliedIn
  <1>3. p[r] \notin Answered => RepliedIn(u, p) = RepliedIn(t, o) BY DEF RepliedIn
  <1>4. Cardinality(RepliedIn(t, o)) \in Nat BY Groups
  <1>5. p[r] \in Answered => Cardinality(RepliedIn(u, p)) = Cardinality(RepliedIn(t, o)) + 1
    BY <1>1, <1>2, Groups, OneMore
  <1> QED BY <1>3, <1>4, <1>5

LEMMA Cancelling ==
    ASSUME NEW t \in [Requests -> States], NEW o,
           NEW u, u = [r \in Requests |-> IF t[r] \in {"waiting", "asked"} THEN "cancelled"
                                          ELSE t[r]]
    PROVE  /\ Cardinality(TriedIn(u)) <= Cardinality(TriedIn(t))
           /\ Cardinality(AskedIn(u)) <= Cardinality(AskedIn(t))
           /\ RepliedIn(u, o) = RepliedIn(t, o)
           /\ u \in [Requests -> States]
           /\ \A r \in Requests : u[r] \notin {"waiting", "asked"}
           /\ \A r \in Requests : t[r] \in {"done", "planned"} => u[r] = t[r]
           /\ \A r \in Requests : u[r] = "planned" => t[r] = "planned"
  <1>1. u \in [Requests -> States] BY DEF States
  <1>2. /\ \A r \in Requests : u[r] \notin {"waiting", "asked"}
        /\ \A r \in Requests : t[r] \in {"done", "planned"} => u[r] = t[r]
        /\ \A r \in Requests : u[r] = "planned" => t[r] = "planned"
    OBVIOUS
  <1>3. TriedIn(u) \in SUBSET TriedIn(t) /\ AskedIn(u) \in SUBSET AskedIn(t)
    BY DEF TriedIn, AskedIn
  <1>4. RepliedIn(u, o) = RepliedIn(t, o) BY DEF RepliedIn
  <1>5. Cardinality(TriedIn(u)) <= Cardinality(TriedIn(t)) BY <1>3, Groups, SmallerPart
  <1>6. Cardinality(AskedIn(u)) <= Cardinality(AskedIn(t)) BY <1>3, Groups, SmallerPart
  <1> QED BY <1>1, <1>2, <1>4, <1>5, <1>6

LEMMA Noting ==
    ASSUME NEW l, NEW r \in Requests
    PROVE  /\ Noted(l \union {<<"LLMRequestRecorded", r>>}) = Noted(l) \union {r}
           /\ \A e : e # "LLMRequestRecorded" => Noted(l \union {<<e, r>>}) = Noted(l)
  BY DEF Noted

(* Rows are counted by their own outcomes. *)
LEMMA TallySame ==
    ASSUME NEW o, NEW p, NEW rows, \A q \in rows : p[q] = o[q]
    PROVE  Tally(rows, p) = Tally(rows, o)
  <1>1. Replies(rows, p) = Replies(rows, o) BY DEF Replies
  <1>2. {q \in rows : p[q] \in {"parsed"}} = {q \in rows : o[q] \in {"parsed"}} OBVIOUS
  <1> QED BY <1>1, <1>2 DEF Tally

LEMMA CompletionIs ==
    ASSUME NEW rows
    PROVE  Completion(rows) = Tally(rows, outcome)
  BY DEF Completion, With, Tally, Replies

LEMMA EventsAre ==
    ASSUME NEW l
    PROVE  Events("LLMRequestRecorded", l) = Cardinality(Noted(l))
  BY DEF Events, Noted

-----------------------------------------------------------------------------
(* The manifest in memory and the events                                    *)

LEMMA AtBlock ==
    ASSUME StudyTypes
    PROVE  /\ block \in 1..(Blocks + 1) /\ Planned[block] \in SUBSET Requests
           /\ Whole(block) = Whole(block - 1) \union Planned[block]
           /\ Whole(block - 1) \intersect Planned[block] = {}
           /\ Whole(block) \in SUBSET Requests /\ Whole(block - 1) \in SUBSET Requests
  <1>1. block \in 1..(Blocks + 1) BY DEF StudyTypes
  <1>2. block \in 0..(Blocks + 1) /\ block - 1 \in 0..(Blocks + 1) BY <1>1, Shape
  <1> QED BY <1>1, <1>2, Wholes

(* n differs from m in its counters at most. *)
Alike(m, n) ==
    /\ IsManifest(n) /\ n.status = m.status /\ n.rows = m.rows
    /\ n.summary = m.summary /\ n.dry = m.dry

LEMMA ObservedIs ==
    ASSUME NEW m, IsManifest(m), NEW es
    PROVE  /\ Alike(m, Observed(m, es))
           /\ Observed(m, es).attempted =
                 m.attempted + (IF "LLMRequestRecorded" \in es THEN 1 ELSE 0)
           /\ Observed(m, es).completed =
                 m.completed + (IF "LLMResponseRecorded" \in es THEN 1 ELSE 0)
           /\ "LLMRequestRecorded" \notin es /\ "LLMResponseRecorded" \notin es =>
                 Observed(m, es) = m
  <1> DEFINE n == Observed(m, es)
  <1>1. n = [status |-> m.status,
             attempted |-> m.attempted + (IF "LLMRequestRecorded" \in es THEN 1 ELSE 0),
             completed |-> m.completed + (IF "LLMResponseRecorded" \in es THEN 1 ELSE 0),
             rows |-> m.rows, summary |-> m.summary, dry |-> m.dry]
    <2>1. m = [status |-> m.status, attempted |-> m.attempted, completed |-> m.completed,
               rows |-> m.rows, summary |-> m.summary, dry |-> m.dry]
      BY DEF IsManifest
    <2>2. n = [m EXCEPT !.attempted = m.attempted + (IF "LLMRequestRecorded" \in es THEN 1 ELSE 0),
                        !.completed = m.completed + (IF "LLMResponseRecorded" \in es THEN 1 ELSE 0)]
      BY DEF Observed
    <2> QED BY <2>1, <2>2
  <1>2. m.attempted \in Nat /\ m.completed \in Nat BY DEF IsManifest
  <1> HIDE DEF n
  <1>3. /\ n.status = m.status /\ n.rows = m.rows /\ n.summary = m.summary /\ n.dry = m.dry
        /\ n.attempted = m.attempted + (IF "LLMRequestRecorded" \in es THEN 1 ELSE 0)
        /\ n.completed = m.completed + (IF "LLMResponseRecorded" \in es THEN 1 ELSE 0)
    BY <1>1
  <1>4. n.attempted \in Nat /\ n.completed \in Nat BY <1>2, <1>3
  <1>5. IsManifest(n) BY <1>1, <1>3, <1>4 DEF IsManifest
  <1>6. "LLMRequestRecorded" \notin es /\ "LLMResponseRecorded" \notin es => n = m
    <2> SUFFICES ASSUME "LLMRequestRecorded" \notin es, "LLMResponseRecorded" \notin es
        PROVE  n = m
      OBVIOUS
    <2>1. n.attempted = m.attempted /\ n.completed = m.completed BY <1>2, <1>3
    <2> QED BY <1>3, <1>5, <2>1 DEF IsManifest
  <1> QED BY <1>3, <1>5, <1>6 DEF n, Alike

LEMMA SyncedIs ==
    ASSUME NEW m, IsManifest(m), provider \in [requests : Nat, responses : Nat]
    PROVE  /\ Alike(m, Synced(m))
           /\ Synced(m).attempted = Larger(m.attempted, provider.requests)
           /\ Synced(m).completed = Larger(m.completed, provider.responses)
  <1> DEFINE n == Synced(m)
             a == Larger(m.attempted, provider.requests)
             c == Larger(m.completed, provider.responses)
  <1>1. n = [status |-> m.status, attempted |-> a, completed |-> c,
             rows |-> m.rows, summary |-> m.summary, dry |-> m.dry]
    <2>1. m = [status |-> m.status, attempted |-> m.attempted, completed |-> m.completed,
               rows |-> m.rows, summary |-> m.summary, dry |-> m.dry]
      BY DEF IsManifest
    <2>2. n = [m EXCEPT !.attempted = a, !.completed = c] BY DEF Synced
    <2> HIDE DEF n, a, c
    <2> QED BY <2>1, <2>2
  <1>2. a \in Nat /\ c \in Nat BY DEF IsManifest, Larger
  <1> HIDE DEF n, a, c
  <1>3. IsManifest(n) BY <1>1, <1>2 DEF IsManifest
  <1>4. /\ n.status = m.status /\ n.rows = m.rows /\ n.summary = m.summary /\ n.dry = m.dry
        /\ n.attempted = a /\ n.completed = c
    BY <1>1
  <1> QED BY <1>3, <1>4 DEF n, a, c, Alike

Request(r) == <<"LLMRequestRecorded", r>>

LEMMA RequestEmitted ==
    ASSUME NEW r \in Requests, IsManifest(mem), Emitted(r, <<"LLMRequestRecorded">>)
    PROVE  /\ Alike(mem, mem') /\ disk' = mem' /\ pc' = pc
           /\ mem'.attempted = mem.attempted + 1 /\ mem'.completed = mem.completed
           /\ Noted(log') = Noted(log) \union {r}
  <1> DEFINE es == <<"LLMRequestRecorded">>
  <1>1. Range(es) = {"LLMRequestRecorded"}
    <2>1. DOMAIN es = {1} /\ es[1] = "LLMRequestRecorded" OBVIOUS
    <2> HIDE DEF es
    <2> QED BY <2>1 DEF Range
  <1> HIDE DEF es
  <1>2. /\ log' = log \union {<<e, r>> : e \in Range(es)}
        /\ mem' = Observed(mem, Range(es)) /\ disk' = mem' /\ pc' = pc
    BY DEF Emitted, es
  <1>3. log' = log \union {Request(r)} BY <1>1, <1>2 DEF Request
  <1>4. Noted(log') = Noted(log) \union {r} BY <1>3, Noting DEF Request
  <1> DEFINE S == {"LLMRequestRecorded"}
  <1>5. "LLMRequestRecorded" \in S /\ "LLMResponseRecorded" \notin S OBVIOUS
  <1>6. mem' = Observed(mem, S) BY <1>1, <1>2
  <1>7. mem.completed \in Nat BY DEF IsManifest
  <1> HIDE DEF S
  <1>8. Alike(mem, mem') BY <1>6, ObservedIs
  <1>9. mem'.attempted = mem.attempted + 1 /\ mem'.completed = mem.completed + 0
    BY <1>5, <1>6, ObservedIs
  <1> QED BY <1>2, <1>4, <1>7, <1>8, <1>9

LEMMA RequestRaised ==
    ASSUME NEW r \in Requests, IsManifest(mem), EmitRaised(r, <<"LLMRequestRecorded">>)
    PROVE  /\ Alike(mem, mem') /\ disk' \in {disk, mem'} /\ pc' = "closing"
           /\ task' = [task EXCEPT ![r] = "broken"]
           /\ mem'.completed = mem.completed
           /\ \/ mem'.attempted = mem.attempted /\ Noted(log') \in {Noted(log), Noted(log) \union {r}}
              \/ mem'.attempted = mem.attempted + 1 /\ Noted(log') = Noted(log) \union {r}
  <1> DEFINE es == <<"LLMRequestRecorded">>
             S == {"LLMRequestRecorded"}
  <1>1. DOMAIN es = {1} /\ es[1] = "LLMRequestRecorded" OBVIOUS
  <1>2. {es[i] : i \in 1..(1 - 1)} = {} OBVIOUS
  <1>3. "LLMRequestRecorded" \in S /\ "LLMResponseRecorded" \notin S OBVIOUS
  <1>4. Alike(mem, mem) BY DEF Alike
  <1>5. mem.attempted \in Nat /\ mem.completed \in Nat BY DEF IsManifest
  <1>6. Observed(mem, {}) = mem BY ObservedIs
  <1>7. /\ pc' = "closing" /\ task' = [task EXCEPT ![r] = "broken"]
        /\ \/ log' \in {log, log \union {Request(r)}} /\ mem' = mem /\ disk' = disk
           \/ /\ log' = log \union {Request(r)}
              /\ mem' = Observed(mem, S) /\ disk' \in {disk, Observed(mem, S)}
    <2> HIDE DEF es
    <2>1. \E n \in DOMAIN es :
             LET earlier == {es[i] : i \in 1..(n - 1)}
                 before  == Observed(mem, earlier)
                 after   == Observed(before, {es[n]})
                 kept    == log \union {<<e, r>> : e \in earlier}
                 saved   == IF n = 1 THEN disk ELSE before
             IN  \/ log' \in {kept, kept \union {<<es[n], r>>}} /\ mem' = before /\ disk' = saved
                 \/ /\ log' = kept \union {<<es[n], r>>}
                    /\ mem' = after /\ disk' \in {saved, after}
      BY DEF EmitRaised, es
    <2>2. LET earlier == {}
              before  == Observed(mem, earlier)
              after   == Observed(before, {es[1]})
              kept    == log \union {<<e, r>> : e \in earlier}
          IN  \/ log' \in {kept, kept \union {<<es[1], r>>}} /\ mem' = before /\ disk' = disk
              \/ /\ log' = kept \union {<<es[1], r>>}
                 /\ mem' = after /\ disk' \in {disk, after}
      BY <1>1, <1>2, <2>1
    <2>3. log \union {<<e, r>> : e \in {}} = log OBVIOUS
    <2>4. pc' = "closing" /\ task' = [task EXCEPT ![r] = "broken"] BY DEF EmitRaised
    <2> QED BY <1>1, <1>6, <2>2, <2>3, <2>4 DEF Request
  <1> HIDE DEF es, S
  <1>8. Noted(log \union {Request(r)}) = Noted(log) \union {r} BY Noting DEF Request
  <1>9. CASE mem' = mem /\ disk' = disk /\ log' \in {log, log \union {Request(r)}}
    <2>1. Noted(log') \in {Noted(log), Noted(log) \union {r}} BY <1>8, <1>9
    <2> QED BY <1>4, <1>7, <1>9, <2>1
  <1>10. CASE log' = log \union {Request(r)} /\ mem' = Observed(mem, S) /\ disk' \in {disk, Observed(mem, S)}
    <2>1. Alike(mem, mem') BY <1>10, ObservedIs
    <2>2. mem'.attempted = mem.attempted + 1 /\ mem'.completed = mem.completed + 0
      BY <1>3, <1>10, ObservedIs
    <2>3. disk' \in {disk, mem'} BY <1>10
    <2>4. Noted(log') = Noted(log) \union {r} BY <1>8, <1>10
    <2>5. mem'.completed = mem.completed BY <1>5, <2>2
    <2> QED BY <1>7, <2>1, <2>2, <2>3, <2>4, <2>5
  <1> QED BY <1>7, <1>9, <1>10

LEMMA AnswerEmitted ==
    ASSUME NEW r \in Requests, IsManifest(mem), NEW a, Emitted(r, ReceivedEvents(a))
    PROVE  /\ Alike(mem, mem') /\ disk' = mem' /\ pc' = pc
           /\ mem'.attempted = mem.attempted
           /\ mem'.completed = mem.completed + (IF a \in Answered THEN 1 ELSE 0)
           /\ Noted(log') = Noted(log)
  <1> DEFINE es == ReceivedEvents(a)
             S == Range(es)
  <1>1. /\ "LLMRequestRecorded" \notin S
        /\ "LLMResponseRecorded" \in S <=> a \in Answered
    <2>1. CASE a \in Answered
      <3>1. es = <<"LLMResponseRecorded", "AgentDecisionParsed">> BY <2>1 DEF ReceivedEvents
      <3>2. S = {"LLMResponseRecorded", "AgentDecisionParsed"}
        <4>1. DOMAIN es = 1..2 /\ es[1] = "LLMResponseRecorded" /\ es[2] = "AgentDecisionParsed"
          BY <3>1
        <4> HIDE DEF es
        <4> QED BY <4>1 DEF Range
      <3> QED BY <2>1, <3>2
    <2>2. CASE a \notin Answered
      <3>1. es = <<"EndpointProbeFailed">> BY <2>2 DEF ReceivedEvents
      <3>2. S = {"EndpointProbeFailed"}
        <4>1. DOMAIN es = {1} /\ es[1] = "EndpointProbeFailed" BY <3>1
        <4> HIDE DEF es
        <4> QED BY <4>1 DEF Range
      <3> QED BY <2>2, <3>2
    <2> QED BY <2>1, <2>2
  <1>2. /\ log' = log \union {<<e, r>> : e \in S}
        /\ mem' = Observed(mem, S) /\ disk' = mem' /\ pc' = pc
    BY DEF Emitted
  <1>3. mem.attempted \in Nat BY DEF IsManifest
  <1> HIDE DEF es, S
  <1>4. Noted(log') = Noted(log) BY <1>1, <1>2 DEF Noted
  <1>5. Alike(mem, mem') BY <1>2, ObservedIs
  <1>6. /\ mem'.attempted = mem.attempted + 0
        /\ mem'.completed = mem.completed + (IF a \in Answered THEN 1 ELSE 0)
    BY <1>1, <1>2, ObservedIs
  <1> QED BY <1>2, <1>3, <1>4, <1>5, <1>6

(* The events of an answer: the first counts a response, or nothing does.   *)
LEMMA AnswerRaised ==
    ASSUME NEW r \in Requests, IsManifest(mem), NEW a, EmitRaised(r, ReceivedEvents(a))
    PROVE  /\ Alike(mem, mem') /\ disk' \in {disk, mem'} /\ pc' = "closing"
           /\ task' = [task EXCEPT ![r] = "broken"]
           /\ mem'.attempted = mem.attempted
           /\ mem'.completed \in {mem.completed,
                                  mem.completed + (IF a \in Answered THEN 1 ELSE 0)}
           /\ Noted(log') = Noted(log)
  <1> DEFINE es == ReceivedEvents(a)
             one == IF a \in Answered THEN 1 ELSE 0
             Ok(m) == /\ Alike(mem, m) /\ m.attempted = mem.attempted
                      /\ m.completed \in {mem.completed, mem.completed + one}
  <1>1. PICK n \in DOMAIN es :
             LET earlier == {es[i] : i \in 1..(n - 1)}
                 before  == Observed(mem, earlier)
                 after   == Observed(before, {es[n]})
                 kept    == log \union {<<e, r>> : e \in earlier}
                 saved   == IF n = 1 THEN disk ELSE before
             IN  \/ log' \in {kept, kept \union {<<es[n], r>>}} /\ mem' = before /\ disk' = saved
                 \/ /\ log' = kept \union {<<es[n], r>>}
                    /\ mem' = after /\ disk' \in {saved, after}
    <2> HIDE DEF es
    <2> QED BY DEF EmitRaised, es
  <1>2. pc' = "closing" /\ task' = [task EXCEPT ![r] = "broken"] BY DEF EmitRaised
  <1> DEFINE S == {es[i] : i \in 1..(n - 1)}
             T == {es[n]}
             before == Observed(mem, S)
             after == Observed(before, T)
  <1>3. /\ "LLMRequestRecorded" \notin S /\ "LLMRequestRecorded" \notin T
        /\ "LLMResponseRecorded" \in S \union T => a \in Answered
        /\ n = 1 => S = {}
        /\ n # 1 => "LLMResponseRecorded" \in S /\ "LLMResponseRecorded" \notin T
    <2>1. CASE a \in Answered
      <3>1. es = <<"LLMResponseRecorded", "AgentDecisionParsed">> BY <2>1 DEF ReceivedEvents
      <3>2. DOMAIN es = {1, 2} /\ es[1] = "LLMResponseRecorded" /\ es[2] = "AgentDecisionParsed"
        BY <3>1
      <3> HIDE DEF es
      <3>3. CASE n = 1
        <4>1. S = {} BY <3>3
        <4> QED BY <2>1, <3>2, <3>3, <4>1
      <3>4. CASE n = 2
        <4>1. 1..(2 - 1) = {1} OBVIOUS
        <4>2. S = {es[1]} BY <3>4, <4>1
        <4> QED BY <2>1, <3>2, <3>4, <4>2
      <3> QED BY <3>2, <3>3, <3>4
    <2>2. CASE a \notin Answered
      <3>1. es = <<"EndpointProbeFailed">> BY <2>2 DEF ReceivedEvents
      <3>2. DOMAIN es = {1} /\ es[1] = "EndpointProbeFailed" BY <3>1
      <3> HIDE DEF es
      <3>3. n = 1 /\ S = {} BY <3>2
      <3> QED BY <2>2, <3>2, <3>3
    <2> QED BY <2>1, <2>2
  <1>4. /\ \/ mem' = before /\ disk' = (IF n = 1 THEN disk ELSE before)
           \/ mem' = after /\ disk' \in {IF n = 1 THEN disk ELSE before, after}
        /\ log' \in {log \union {<<e, r>> : e \in S},
                     (log \union {<<e, r>> : e \in S}) \union {<<es[n], r>>}}
    <2> HIDE DEF es
    <2> QED BY <1>1
  <1>5. Noted(log') = Noted(log)
    <2>1. es[n] # "LLMRequestRecorded" BY <1>3
    <2> HIDE DEF es, S
    <2> QED BY <1>3, <1>4, <2>1 DEF Noted
  <1> HIDE DEF es, S, T
  <1>6. mem.attempted \in Nat /\ mem.completed \in Nat BY DEF IsManifest
  <1>7. /\ Alike(mem, before) /\ before.attempted = mem.attempted + 0
        /\ before.completed = mem.completed + (IF "LLMResponseRecorded" \in S THEN 1 ELSE 0)
    BY <1>3, ObservedIs
  <1>8. IsManifest(before) BY <1>7 DEF Alike
  <1>9. /\ Alike(before, after) /\ after.attempted = before.attempted + 0
        /\ after.completed = before.completed + (IF "LLMResponseRecorded" \in T THEN 1 ELSE 0)
        /\ "LLMResponseRecorded" \notin T => after = before
    <2> HIDE DEF before
    <2> QED BY <1>3, <1>8, ObservedIs
  <1>10. n = 1 => before = mem BY <1>3, ObservedIs
  <1> HIDE DEF before, after
  <1>11. Ok(before) BY <1>3, <1>6, <1>7
  <1>12. Ok(after)
    <2>1. Alike(mem, after) BY <1>7, <1>9 DEF Alike
    <2>2. after.attempted = mem.attempted BY <1>6, <1>7, <1>9
    <2>3. CASE n = 1
      <3>1. before = mem BY <1>10, <2>3
      <3> QED BY <1>3, <1>6, <1>9, <2>1, <2>2, <3>1
    <2>4. CASE n # 1
      <3>1. after = before BY <1>3, <1>9, <2>4
      <3> QED BY <1>11, <3>1
    <2> QED BY <2>3, <2>4
  <1>13. mem' \in {before, after} /\ disk' \in {disk, mem'}
    <2>1. CASE n = 1
      BY <1>4, <2>1
    <2>2. CASE n # 1
      <3>1. after = before BY <1>3, <1>9, <2>2
      <3> QED BY <1>4, <2>2, <3>1
    <2> QED BY <2>1, <2>2
  <1> QED BY <1>2, <1>5, <1>11, <1>12, <1>13

-----------------------------------------------------------------------------
(* Every step keeps the invariant                                           *)

LEMMA StudyStarts ==
    ASSUME StudyInit
    PROVE  StudyInv
  <1>1. Blocks + 1 \in Nat /\ 1 \in 1..(Blocks + 1) /\ block - 1 = 0
    <2>1. block = 1 BY DEF StudyInit
    <2> QED BY <2>1, Shape
  <1>2. Whole(block - 1) = {} BY <1>1, Wholes
  <1>3. /\ mem.attempted = 0 /\ mem.completed = 0 /\ mem.dry = FALSE /\ mem.status = "running"
        /\ mem.rows = Completion({}) /\ disk = mem
        /\ mem = [status |-> mem.status, attempted |-> mem.attempted,
                  completed |-> mem.completed, rows |-> mem.rows,
                  summary |-> mem.summary, dry |-> mem.dry]
    BY DEF StudyInit
  <1>4. StudyTypes BY <1>1, <1>3 DEF StudyInit, StudyTypes, Places, States, Outcomes, IsManifest
  <1>5. Progress BY <1>2, AtBlock, <1>4 DEF StudyInit, Progress, Gathered, Past
  <1>6. OnFile BY <1>2 DEF StudyInit, OnFile, Past
  <1>7. Claims(mem) /\ Claims(disk) BY <1>2, <1>3, CompletionIs DEF Claims
  <1>8. /\ TriedIn(task) = {} /\ AskedIn(task) = {} /\ RepliedIn(task, outcome) = {}
        /\ Noted(log) = {} /\ Cardinality({}) = 0
    BY FS_EmptySet DEF StudyInit, TriedIn, AskedIn, RepliedIn, Noted
  <1>9. Accounts /\ Smooth BY <1>3, <1>8 DEF StudyInit, Accounts, Smooth
  <1>10. Verdicts /\ Sealed BY <1>3 DEF StudyInit, Verdicts, Sealed
  <1> QED BY <1>4, <1>5, <1>6, <1>7, <1>9, <1>10 DEF StudyInv

(* A coroutine of the block under way is not done: nothing is told of it.   *)
LEMMA InBlock ==
    ASSUME StudyInv, NEW r \in Planned[block], task[r] \in {"waiting", "asked"}, Running
    PROVE  /\ r \in Requests /\ r \in Whole(block) /\ r \notin Whole(block - 1)
           /\ ~Told /\ ~Past /\ ~Gathered /\ pc \in {"send", "closing"}
           /\ mem.rows = Tally(Whole(block - 1), outcome)
           /\ disk.rows = Tally(Whole(block - 1), outcome)
           /\ mem.status = "running" /\ disk.status = "running"
           /\ task \in [Requests -> States] /\ outcome \in [Requests -> Outcomes]
           /\ IsManifest(mem) /\ IsManifest(disk)
  <1>1. StudyTypes /\ Progress /\ Claims(mem) /\ Claims(disk) /\ Verdicts BY DEF StudyInv
  <1>2. r \in Requests /\ r \in Whole(block) /\ r \notin Whole(block - 1)
    BY <1>1, AtBlock
  <1>3. pc \in {"send", "closing"} BY DEF Running
  <1>4. ~Past /\ ~Gathered BY <1>3 DEF Past, Gathered
  <1>5. ~Told BY DEF Told
  <1>6. mem.rows = Tally(Whole(block - 1), outcome) /\ disk.rows = Tally(Whole(block - 1), outcome)
    BY <1>1, <1>5 DEF Claims
  <1>7. mem.status = "running" /\ disk.status = "running" BY <1>1, <1>3 DEF Verdicts
  <1> QED BY <1>1, <1>2, <1>3, <1>4, <1>5, <1>6, <1>7 DEF StudyTypes

(* What a coroutine's step leaves, whatever it did to the accounts.         *)
LEMMA CoroutineKeeps ==
    ASSUME StudyInv, NEW r \in Planned[block], task[r] \in {"waiting", "asked"}, Running,
           UNCHANGED <<block, files>>, pc' \in {pc, "closing"},
           NEW s \in {"asked", "done", "broken"}, task' = [task EXCEPT ![r] = s],
           outcome' = outcome \/ (\E a \in Outcomes : outcome' = [outcome EXCEPT ![r] = a]),
           provider' \in [requests : Nat, responses : Nat],
           Alike(mem, mem'), disk' \in {disk, mem'}
    PROVE  /\ StudyTypes' /\ Progress' /\ OnFile' /\ Claims(mem)' /\ Claims(disk)'
           /\ Verdicts' /\ Sealed'
  <1>1. StudyTypes /\ Progress /\ OnFile BY DEF StudyInv
  <1>2. /\ r \in Requests /\ r \in Whole(block) /\ r \notin Whole(block - 1)
        /\ ~Told /\ ~Past /\ ~Gathered /\ pc \in {"send", "closing"}
        /\ mem.rows = Tally(Whole(block - 1), outcome)
        /\ disk.rows = Tally(Whole(block - 1), outcome)
        /\ mem.status = "running" /\ disk.status = "running"
        /\ task \in [Requests -> States] /\ outcome \in [Requests -> Outcomes]
        /\ IsManifest(mem) /\ IsManifest(disk)
    BY InBlock
  <1>3. /\ block' = block /\ private' = private /\ public' = public
        /\ pc' \in {"send", "closing"} /\ pc' \in {pc, "closing"}
    BY <1>2 DEF files
  <1>4. /\ IsManifest(mem') /\ mem'.status = "running" /\ mem'.rows = mem.rows
    BY <1>2 DEF Alike
  <1>5. IsManifest(disk') /\ disk'.status = "running" /\ disk'.rows = mem.rows
    BY <1>2, <1>4
  <1>6. task' \in [Requests -> States] /\ outcome' \in [Requests -> Outcomes]
    BY <1>2 DEF States
  <1>7. StudyTypes' BY <1>1, <1>3, <1>4, <1>5, <1>6 DEF StudyTypes, Places
  <1>8. \A q \in Requests : q # r => task'[q] = task[q] BY <1>2
  <1>9. ~Past' /\ ~Gathered' BY <1>3 DEF Past, Gathered
  <1>10. Whole(block - 1) \in SUBSET Requests BY <1>1, AtBlock
  <1>11. Progress'
    <2>1. \A q \in Whole(block - 1) : task'[q] = "done" BY <1>1, <1>2, <1>8, <1>10 DEF Progress
    <2>2. \A q \in Requests \ Whole(block) : task'[q] = "planned" BY <1>1, <1>2, <1>8 DEF Progress
    <2> QED BY <1>3, <1>9, <2>1, <2>2 DEF Progress
  <1>12. OnFile' BY <1>1, <1>2, <1>3, <1>9 DEF OnFile
  <1>13. Tally(Whole(block - 1), outcome') = Tally(Whole(block - 1), outcome)
    <2>1. CASE outcome' = outcome
      BY <2>1
    <2>2. CASE \E a \in Outcomes : outcome' = [outcome EXCEPT ![r] = a]
      <3>1. PICK a : outcome' = [outcome EXCEPT ![r] = a] BY <2>2
      <3>2. \A q \in Whole(block - 1) : outcome'[q] = outcome[q] BY <1>2, <1>10, <3>1
      <3> DEFINE p == outcome'
      <3>3. \A q \in Whole(block - 1) : p[q] = outcome[q] BY <3>2
      <3> HIDE DEF p
      <3>4. Tally(Whole(block - 1), p) = Tally(Whole(block - 1), outcome) BY <3>3, TallySame
      <3> QED BY <3>4 DEF p
    <2> QED BY <2>1, <2>2
  <1>14. Claims(mem)' /\ Claims(disk)' BY <1>2, <1>3, <1>4, <1>5, <1>13 DEF Claims
  <1>15. Verdicts' /\ Sealed' BY <1>3, <1>4, <1>5 DEF Verdicts, Sealed
  <1> QED BY <1>7, <1>11, <1>12, <1>14, <1>15

LEMMA SendKeeps ==
    ASSUME StudyInv, NEW r \in Planned[block], Send(r)
    PROVE  StudyInv'
  <1>1. /\ Running /\ task[r] = "waiting" /\ UNCHANGED <<block, outcome, files>>
        /\ \/ /\ Emitted(r, <<"LLMRequestRecorded">>)
              /\ task' = [task EXCEPT ![r] = "asked"]
              /\ provider' = [provider EXCEPT !.requests = @ + 1]
           \/ EmitRaised(r, <<"LLMRequestRecorded">>) /\ UNCHANGED provider
    BY DEF Send, MayStart
  <1>2. /\ r \in Requests /\ IsManifest(mem) /\ IsManifest(disk)
        /\ task \in [Requests -> States] /\ pc \in {"send", "closing"}
    BY <1>1, InBlock
  <1>3. /\ StudyTypes /\ Accounts /\ Smooth BY DEF StudyInv
  <1>4. /\ provider \in [requests : Nat, responses : Nat]
        /\ provider.requests \in Nat /\ provider.responses \in Nat
    BY <1>3 DEF StudyTypes
  <1> DEFINE tried == Cardinality(TriedIn(task))
             pending == Cardinality(AskedIn(task))
             replied == Cardinality(RepliedIn(task, outcome))
             noted == Cardinality(Noted(log))
  <1>5. tried \in Nat /\ pending \in Nat /\ replied \in Nat /\ noted \in Nat
    BY Groups
  <1>6. mem.attempted \in Nat /\ mem.completed \in Nat /\ disk.attempted \in Nat
        /\ disk.completed \in Nat
    BY <1>2 DEF IsManifest
  <1>7. r \notin Noted(log) BY <1>1, <1>2, <1>3 DEF Accounts
  <1>8. Cardinality(Noted(log) \union {r}) = noted + 1 BY <1>2, <1>7, Groups, OneMore
  <1>9. /\ tried <= provider.requests /\ provider.responses + pending <= provider.requests
        /\ replied <= provider.responses /\ provider.requests <= mem.attempted
        /\ mem.attempted <= noted /\ mem.completed <= provider.responses
        /\ disk.completed <= disk.attempted
        /\ \A q \in Requests : task[q] \in {"planned", "waiting"} => q \notin Noted(log)
    BY <1>3 DEF Accounts
  <1>10. pc = "send" =>
           /\ disk = mem /\ mem.attempted = tried /\ mem.completed = replied
           /\ provider.requests = mem.attempted /\ provider.responses = mem.completed
    BY <1>3 DEF Smooth
  <1>11. CASE /\ Emitted(r, <<"LLMRequestRecorded">>)
              /\ task' = [task EXCEPT ![r] = "asked"]
              /\ provider' = [provider EXCEPT !.requests = @ + 1]
    <2>1. /\ Alike(mem, mem') /\ disk' = mem' /\ pc' = pc
          /\ mem'.attempted = mem.attempted + 1 /\ mem'.completed = mem.completed
          /\ Noted(log') = Noted(log) \union {r}
      BY <1>2, <1>11, RequestEmitted
    <2>2. /\ provider' \in [requests : Nat, responses : Nat]
          /\ provider'.requests = provider.requests + 1
          /\ provider'.responses = provider.responses
      BY <1>4, <1>11
    <2>3. /\ StudyTypes' /\ Progress' /\ OnFile' /\ Claims(mem)' /\ Claims(disk)'
          /\ Verdicts' /\ Sealed'
      BY <1>1, <1>11, <2>1, <2>2, CoroutineKeeps
    <2>4. /\ Cardinality(TriedIn(task')) = tried + 1
          /\ Cardinality(AskedIn(task')) = pending + 1
          /\ RepliedIn(task', outcome') = RepliedIn(task, outcome)
      <3> DEFINE u == task'
      <3>1. u = [task EXCEPT ![r] = "asked"] BY <1>11
      <3> HIDE DEF u
      <3>2. /\ Cardinality(TriedIn(u)) = tried + 1 /\ Cardinality(AskedIn(u)) = pending + 1
            /\ RepliedIn(u, outcome) = RepliedIn(task, outcome)
        BY <1>1, <1>2, <3>1, Asking
      <3> QED BY <1>1, <3>2 DEF u
    <2>5. \A q \in Requests : task'[q] \in {"planned", "waiting"} => q \notin Noted(log')
      BY <1>2, <1>9, <1>11, <2>1
    <2>6. Cardinality(RepliedIn(task', outcome')) = replied
          /\ Cardinality(Noted(log')) = noted + 1
      BY <1>8, <2>1, <2>4
    <2> HIDE DEF tried, pending, replied, noted
    <2>7. Accounts' BY <1>4, <1>5, <1>6, <1>9, <2>1, <2>2, <2>4, <2>5, <2>6 DEF Accounts
    <2>8. Smooth' BY <1>2, <1>4, <1>5, <1>6, <1>10, <2>1, <2>2, <2>4, <2>6 DEF Smooth
    <2> QED BY <2>3, <2>7, <2>8 DEF StudyInv
  <1>12. CASE EmitRaised(r, <<"LLMRequestRecorded">>) /\ UNCHANGED provider
    <2>1. /\ Alike(mem, mem') /\ disk' \in {disk, mem'} /\ pc' = "closing"
          /\ task' = [task EXCEPT ![r] = "broken"]
          /\ mem'.completed = mem.completed
          /\ \/ mem'.attempted = mem.attempted /\ Noted(log') \in {Noted(log), Noted(log) \union {r}}
             \/ mem'.attempted = mem.attempted + 1 /\ Noted(log') = Noted(log) \union {r}
      BY <1>2, <1>12, RequestRaised
    <2>2. provider' = provider BY <1>12
    <2>3. /\ StudyTypes' /\ Progress' /\ OnFile' /\ Claims(mem)' /\ Claims(disk)'
          /\ Verdicts' /\ Sealed'
      BY <1>1, <1>4, <2>1, <2>2, CoroutineKeeps
    <2>4. /\ Cardinality(TriedIn(task')) <= tried
          /\ Cardinality(AskedIn(task')) <= pending
          /\ RepliedIn(task', outcome') = RepliedIn(task, outcome)
      <3> DEFINE u == task'
      <3>1. u = [task EXCEPT ![r] = "broken"] BY <2>1
      <3> HIDE DEF u
      <3>2. /\ Cardinality(TriedIn(u)) <= tried /\ Cardinality(AskedIn(u)) <= pending
            /\ RepliedIn(u, outcome) = RepliedIn(task, outcome)
        BY <1>1, <1>2, <3>1, Breaking
      <3> QED BY <1>1, <3>2 DEF u
    <2>5. \A q \in Requests : task'[q] \in {"planned", "waiting"} => q \notin Noted(log')
      BY <1>2, <1>9, <2>1
    <2>6. Cardinality(RepliedIn(task', outcome')) = replied BY <2>4
    <2>7. /\ Cardinality(TriedIn(task')) \in Nat /\ Cardinality(AskedIn(task')) \in Nat
      <3> DEFINE u == task'
      <3>1. Cardinality(TriedIn(u)) \in Nat /\ Cardinality(AskedIn(u)) \in Nat BY Groups
      <3> QED BY <3>1
    <2>8. mem'.attempted <= Cardinality(Noted(log'))
          /\ (mem'.attempted = mem.attempted \/ mem'.attempted = mem.attempted + 1)
      <3> HIDE DEF noted
      <3>1. Cardinality(Noted(log)) = noted BY DEF noted
      <3> QED BY <1>5, <1>6, <1>8, <1>9, <2>1, <3>1
    <2>9. disk'.completed <= disk'.attempted
      BY <1>4, <1>5, <1>6, <1>9, <2>1, <2>8
    <2> HIDE DEF tried, pending, replied, noted
    <2>10. Accounts'
      BY <1>4, <1>5, <1>6, <1>9, <2>1, <2>2, <2>4, <2>5, <2>6, <2>7, <2>8, <2>9 DEF Accounts
    <2>11. Smooth' BY <2>1 DEF Smooth
    <2> QED BY <2>3, <2>10, <2>11 DEF StudyInv
  <1> QED BY <1>1, <1>11, <1>12

LEMMA ReceiveKeeps ==
    ASSUME StudyInv, NEW r \in Planned[block], Receive(r)
    PROVE  StudyInv'
  <1>1. Running /\ task[r] = "asked" /\ UNCHANGED <<block, files>> BY DEF Receive
  <1>2. PICK a \in Answers(r) :
            /\ provider' = [provider EXCEPT !.responses = @ + IF a \in Answered THEN 1 ELSE 0]
            /\ \/ /\ Emitted(r, ReceivedEvents(a))
                  /\ task' = [task EXCEPT ![r] = "done"]
                  /\ outcome' = [outcome EXCEPT ![r] = a]
               \/ EmitRaised(r, ReceivedEvents(a)) /\ UNCHANGED outcome
    BY DEF Receive
  <1>3. /\ r \in Requests /\ IsManifest(mem) /\ IsManifest(disk)
        /\ task \in [Requests -> States] /\ outcome \in [Requests -> Outcomes]
        /\ pc \in {"send", "closing"}
    BY <1>1, InBlock
  <1>4. StudyTypes /\ Accounts /\ Smooth BY DEF StudyInv
  <1>5. /\ provider \in [requests : Nat, responses : Nat]
        /\ provider.requests \in Nat /\ provider.responses \in Nat
    BY <1>4 DEF StudyTypes
  <1>6. a \in Outcomes BY DEF Answers, Outcomes
  <1> DEFINE tried == Cardinality(TriedIn(task))
             pending == Cardinality(AskedIn(task))
             replied == Cardinality(RepliedIn(task, outcome))
             noted == Cardinality(Noted(log))
             one == IF a \in Answered THEN 1 ELSE 0
  <1>7. tried \in Nat /\ pending \in Nat /\ replied \in Nat /\ noted \in Nat /\ one \in {0, 1}
    BY Groups
  <1>8. mem.attempted \in Nat /\ mem.completed \in Nat /\ disk.attempted \in Nat
        /\ disk.completed \in Nat
    BY <1>3 DEF IsManifest
  <1>9. /\ tried <= provider.requests /\ provider.responses + pending <= provider.requests
        /\ replied <= provider.responses /\ provider.requests <= mem.attempted
        /\ mem.attempted <= noted /\ mem.completed <= provider.responses
        /\ disk.completed <= disk.attempted
        /\ \A q \in Requests : task[q] \in {"planned", "waiting"} => q \notin Noted(log)
    BY <1>4 DEF Accounts
  <1>10. pc = "send" =>
           /\ disk = mem /\ mem.attempted = tried /\ mem.completed = replied
           /\ provider.requests = mem.attempted /\ provider.responses = mem.completed
    BY <1>4 DEF Smooth
  <1>11. /\ provider' \in [requests : Nat, responses : Nat]
         /\ provider'.requests = provider.requests
         /\ provider'.responses = provider.responses + one
    BY <1>2, <1>5, <1>7
  <1>12. pending >= 1
    <2>1. r \in AskedIn(task) BY <1>1, <1>3 DEF AskedIn
    <2>2. IsFiniteSet(AskedIn(task)) BY Groups, PartsAreFinite
    <2>3. pending # 0 BY <2>1, <2>2, FS_EmptySet
    <2> QED BY <1>7, <2>3
  <1>13. CASE /\ Emitted(r, ReceivedEvents(a))
              /\ task' = [task EXCEPT ![r] = "done"]
              /\ outcome' = [outcome EXCEPT ![r] = a]
    <2>1. /\ Alike(mem, mem') /\ disk' = mem' /\ pc' = pc
          /\ mem'.attempted = mem.attempted /\ mem'.completed = mem.completed + one
          /\ Noted(log') = Noted(log)
      BY <1>3, <1>13, AnswerEmitted
    <2>2. /\ StudyTypes' /\ Progress' /\ OnFile' /\ Claims(mem)' /\ Claims(disk)'
          /\ Verdicts' /\ Sealed'
      BY <1>1, <1>6, <1>11, <1>13, <2>1, CoroutineKeeps
    <2>3. /\ TriedIn(task') = TriedIn(task)
          /\ Cardinality(AskedIn(task')) = pending - 1
          /\ Cardinality(RepliedIn(task', outcome')) = replied + one
      <3> DEFINE u == task'
                 p == outcome'
      <3>1. /\ u = [task EXCEPT ![r] = "done"] /\ p[r] = a
            /\ \A q \in Requests \ {r} : p[q] = outcome[q]
        BY <1>3, <1>13
      <3> HIDE DEF u, p
      <3>2. task \in [Requests -> States] /\ r \in Requests /\ task[r] = "asked"
        BY <1>1, <1>3
      <3>3. \A v : v = [task EXCEPT ![r] = "done"] =>
               /\ TriedIn(v) = TriedIn(task)
               /\ Cardinality(AskedIn(v)) = Cardinality(AskedIn(task)) - 1
        BY <3>2, Answering
      <3>5. \A v : v = [task EXCEPT ![r] = "done"] =>
               \A o, q : (\A x \in Requests \ {r} : q[x] = o[x]) =>
                  Cardinality(RepliedIn(v, q)) =
                     Cardinality(RepliedIn(task, o)) + (IF q[r] \in Answered THEN 1 ELSE 0)
        BY <3>2, Replying
      <3>4. Cardinality(RepliedIn(u, p)) = replied + (IF p[r] \in Answered THEN 1 ELSE 0)
        BY <3>1, <3>5
      <3> QED BY <3>1, <3>3, <3>4 DEF u, p
    <2>4. \A q \in Requests : task'[q] \in {"planned", "waiting"} => q \notin Noted(log')
      BY <1>3, <1>9, <1>13, <2>1
    <2>5. Cardinality(TriedIn(task')) = tried /\ Cardinality(Noted(log')) = noted
      BY <2>1, <2>3
    <2> HIDE DEF tried, pending, replied, noted, one
    <2>6. Accounts'
      BY <1>5, <1>7, <1>8, <1>9, <1>11, <1>12, <2>1, <2>3, <2>4, <2>5 DEF Accounts
    <2>7. Smooth' BY <1>3, <1>5, <1>7, <1>8, <1>10, <1>11, <2>1, <2>3, <2>5 DEF Smooth
    <2> QED BY <2>2, <2>6, <2>7 DEF StudyInv
  <1>14. CASE EmitRaised(r, ReceivedEvents(a)) /\ UNCHANGED outcome
    <2>1. /\ Alike(mem, mem') /\ disk' \in {disk, mem'} /\ pc' = "closing"
          /\ task' = [task EXCEPT ![r] = "broken"]
          /\ mem'.attempted = mem.attempted
          /\ mem'.completed \in {mem.completed, mem.completed + one}
          /\ Noted(log') = Noted(log)
      BY <1>3, <1>14, AnswerRaised
    <2>2. /\ StudyTypes' /\ Progress' /\ OnFile' /\ Claims(mem)' /\ Claims(disk)'
          /\ Verdicts' /\ Sealed'
      BY <1>1, <1>11, <1>14, <2>1, CoroutineKeeps
    <2>3. /\ Cardinality(TriedIn(task')) <= tried
          /\ Cardinality(AskedIn(task')) = pending - 1
          /\ RepliedIn(task', outcome') = RepliedIn(task, outcome)
      <3> DEFINE u == task'
      <3>1. u = [task EXCEPT ![r] = "broken"] BY <2>1
      <3> HIDE DEF u
      <3>2. /\ Cardinality(TriedIn(u)) <= tried /\ Cardinality(AskedIn(u)) = pending - 1
            /\ RepliedIn(u, outcome) = RepliedIn(task, outcome)
        BY <1>1, <1>3, <3>1, Breaking
      <3> QED BY <1>14, <3>2 DEF u
    <2>4. \A q \in Requests : task'[q] \in {"planned", "waiting"} => q \notin Noted(log')
      BY <1>3, <1>9, <2>1
    <2>5. Cardinality(RepliedIn(task', outcome')) = replied /\ Cardinality(Noted(log')) = noted
      BY <2>1, <2>3
    <2>6. Cardinality(TriedIn(task')) \in Nat
      <3> DEFINE u == task'
      <3>1. Cardinality(TriedIn(u)) \in Nat BY Groups
      <3> QED BY <3>1
    <2> HIDE DEF tried, pending, replied, noted, one
    <2>7. mem'.completed \in Nat /\ mem'.completed <= provider'.responses
          /\ mem'.completed <= mem'.attempted
      BY <1>5, <1>7, <1>8, <1>9, <1>11, <1>12, <2>1
    <2>8. disk'.completed <= disk'.attempted
      BY <1>9, <2>1, <2>7
    <2>9. Accounts'
      BY <1>5, <1>7, <1>8, <1>9, <1>11, <1>12, <2>1, <2>3, <2>4, <2>5, <2>6, <2>7, <2>8
      DEF Accounts
    <2>10. Smooth' BY <2>1 DEF Smooth
    <2> QED BY <2>2, <2>9, <2>10 DEF StudyInv
  <1> QED BY <1>2, <1>13, <1>14

LEMMA Rewritten ==
    ASSUME NEW m, IsManifest(m), NEW x
    PROVE  /\ [m EXCEPT !.rows = x] =
                 [status |-> m.status, attempted |-> m.attempted, completed |-> m.completed,
                  rows |-> x, summary |-> m.summary, dry |-> m.dry]
           /\ [m EXCEPT !.summary = x] =
                 [status |-> m.status, attempted |-> m.attempted, completed |-> m.completed,
                  rows |-> m.rows, summary |-> x, dry |-> m.dry]
           /\ [m EXCEPT !.status = x] =
                 [status |-> x, attempted |-> m.attempted, completed |-> m.completed,
                  rows |-> m.rows, summary |-> m.summary, dry |-> m.dry]
           /\ [m EXCEPT !.dry = TRUE] =
                 [status |-> m.status, attempted |-> m.attempted, completed |-> m.completed,
                  rows |-> m.rows, summary |-> m.summary, dry |-> TRUE]
  <1> DEFINE s == m.status
             a == m.attempted
             c == m.completed
             w == m.rows
             z == m.summary
             d == m.dry
  <1>1. m = [status |-> s, attempted |-> a, completed |-> c, rows |-> w,
             summary |-> z, dry |-> d]
    BY DEF IsManifest
  <1> HIDE DEF s, a, c, w, z, d
  <1>2. [m EXCEPT !.rows = x] = [status |-> s, attempted |-> a, completed |-> c,
                                 rows |-> x, summary |-> z, dry |-> d]
    BY <1>1
  <1>3. [m EXCEPT !.summary = x] = [status |-> s, attempted |-> a, completed |-> c,
                                    rows |-> w, summary |-> x, dry |-> d]
    BY <1>1
  <1>4. [m EXCEPT !.status = x] = [status |-> x, attempted |-> a, completed |-> c,
                                   rows |-> w, summary |-> z, dry |-> d]
    BY <1>1
  <1>5. [m EXCEPT !.dry = TRUE] = [status |-> s, attempted |-> a, completed |-> c,
                                   rows |-> w, summary |-> z, dry |-> TRUE]
    <2>1. \A v : [m EXCEPT !.dry = v] = [status |-> s, attempted |-> a, completed |-> c,
                                         rows |-> w, summary |-> z, dry |-> v]
      BY <1>1
    <2> QED BY <2>1
  <1> QED BY <1>2, <1>3, <1>4, <1>5 DEF s, a, c, w, z, d

(* n counts the exchanges m counts. *)
Counts(n, m) == IsManifest(n) /\ n.attempted = m.attempted /\ n.completed = m.completed

LEMMA RowsTold ==
    ASSUME NEW m, IsManifest(m), NEW x, NEW n, n = [m EXCEPT !.rows = x]
    PROVE  /\ Counts(n, m) /\ n.rows = x
           /\ n.status = m.status /\ n.summary = m.summary /\ n.dry = m.dry
  <1>1. m.attempted \in Nat /\ m.completed \in Nat /\ m.dry \in BOOLEAN BY DEF IsManifest
  <1>2. n = [status |-> m.status, attempted |-> m.attempted, completed |-> m.completed,
             rows |-> x, summary |-> m.summary, dry |-> m.dry]
    BY Rewritten
  <1> QED BY <1>1, <1>2 DEF Counts, IsManifest

LEMMA SummaryAlone ==
    ASSUME NEW m, IsManifest(m), NEW y, NEW n, n = [m EXCEPT !.summary = y]
    PROVE  /\ Counts(n, m) /\ n.rows = m.rows /\ n.summary = y
           /\ n.status = m.status /\ n.dry = m.dry
  <1>1. m.attempted \in Nat /\ m.completed \in Nat /\ m.dry \in BOOLEAN BY DEF IsManifest
  <1>2. n = [status |-> m.status, attempted |-> m.attempted, completed |-> m.completed,
             rows |-> m.rows, summary |-> y, dry |-> m.dry]
    BY Rewritten
  <1> QED BY <1>1, <1>2 DEF Counts, IsManifest

TellsRows(m, x, n) == n = [m EXCEPT !.rows = x]
TellsSummary(m, y, n) == n = [m EXCEPT !.summary = y]

LEMMA SummaryTold ==
    ASSUME NEW m, IsManifest(m), NEW x, NEW y, NEW o, TellsRows(m, x, o),
           NEW n, TellsSummary(o, y, n)
    PROVE  /\ Counts(n, m) /\ n.rows = x /\ n.summary = y
           /\ n.status = m.status /\ n.dry = m.dry
  <1>1. /\ Counts(o, m) /\ o.rows = x
        /\ o.status = m.status /\ o.summary = m.summary /\ o.dry = m.dry
    BY RowsTold DEF TellsRows
  <1>2. IsManifest(o) BY <1>1 DEF Counts
  <1>3. /\ Counts(n, o) /\ n.rows = o.rows /\ n.summary = y
        /\ n.status = o.status /\ n.dry = o.dry
    BY <1>2, SummaryAlone DEF TellsSummary
  <1> QED BY <1>1, <1>3 DEF Counts

LEMMA StatusTold ==
    ASSUME NEW m, IsManifest(m), NEW x, NEW n, n = [m EXCEPT !.status = x]
    PROVE  /\ Counts(n, m) /\ n.status = x
           /\ n.rows = m.rows /\ n.summary = m.summary /\ n.dry = m.dry
  <1>1. m.attempted \in Nat /\ m.completed \in Nat /\ m.dry \in BOOLEAN BY DEF IsManifest
  <1>2. n = [status |-> x, attempted |-> m.attempted, completed |-> m.completed,
             rows |-> m.rows, summary |-> m.summary, dry |-> m.dry]
    BY Rewritten
  <1> QED BY <1>1, <1>2 DEF Counts, IsManifest

LEMMA DryTold ==
    ASSUME NEW m, IsManifest(m), NEW n, n = [m EXCEPT !.dry = TRUE]
    PROVE  /\ Counts(n, m) /\ n.status = m.status
           /\ n.rows = m.rows /\ n.summary = m.summary /\ n.dry = TRUE
  <1>1. m.attempted \in Nat /\ m.completed \in Nat BY DEF IsManifest
  <1>2. n = [status |-> m.status, attempted |-> m.attempted, completed |-> m.completed,
             rows |-> m.rows, summary |-> m.summary, dry |-> TRUE]
    BY Rewritten
  <1> QED BY <1>1, <1>2 DEF Counts, IsManifest

(* sync_llm_accounting finds no request to add, and every response.         *)
LEMMA SyncedCounts ==
    ASSUME StudyInv
    PROVE  /\ Alike(mem, Synced(mem)) /\ Synced(mem).attempted = mem.attempted
           /\ Synced(mem).completed = provider.responses
           /\ mem.attempted \in Nat /\ mem.completed \in Nat
           /\ provider.requests \in Nat /\ provider.responses \in Nat
           /\ provider.requests <= mem.attempted /\ mem.completed <= provider.responses
  <1>1. /\ IsManifest(mem) /\ provider \in [requests : Nat, responses : Nat]
        /\ provider.requests <= mem.attempted /\ mem.completed <= provider.responses
    BY DEF StudyInv, StudyTypes, Accounts
  <1>2. mem.attempted \in Nat /\ mem.completed \in Nat BY <1>1 DEF IsManifest
  <1>3. provider.requests \in Nat /\ provider.responses \in Nat BY <1>1
  <1>4. /\ Larger(mem.attempted, provider.requests) = mem.attempted
        /\ Larger(mem.completed, provider.responses) = provider.responses
    BY <1>1, <1>2, <1>3 DEF Larger
  <1> QED BY <1>1, <1>2, <1>3, <1>4, SyncedIs

Calm == pc \notin {"closing", "fail", "over", "killed"}

(* What a step that sends and receives nothing leaves of the accounts.      *)
LEMMA AccountsStay ==
    ASSUME StudyInv, UNCHANGED <<task, outcome, log, provider>>,
           IsManifest(mem'), mem'.attempted = mem.attempted,
           mem'.completed \in {mem.completed, provider.responses},
           disk' \in {disk, mem'}, Calm' => Calm /\ disk' = mem'
    PROVE  Accounts' /\ Smooth' /\ IsManifest(disk')
  <1>1. Accounts /\ Smooth /\ IsManifest(disk) BY DEF StudyInv, StudyTypes
  <1>2. /\ mem.attempted \in Nat /\ mem.completed \in Nat
        /\ provider.requests \in Nat /\ provider.responses \in Nat
    BY SyncedCounts
  <1> DEFINE tried == Cardinality(TriedIn(task))
             pending == Cardinality(AskedIn(task))
             replied == Cardinality(RepliedIn(task, outcome))
             noted == Cardinality(Noted(log))
  <1>3. tried \in Nat /\ pending \in Nat /\ replied \in Nat /\ noted \in Nat BY Groups
  <1>4. /\ Cardinality(TriedIn(task')) = tried /\ Cardinality(AskedIn(task')) = pending
        /\ Cardinality(RepliedIn(task', outcome')) = replied
        /\ Cardinality(Noted(log')) = noted /\ provider' = provider
    OBVIOUS
  <1>5. \A r \in Requests : task'[r] \in {"planned", "waiting"} => r \notin Noted(log')
    BY <1>1 DEF Accounts
  <1>6. /\ tried <= provider.requests /\ provider.responses + pending <= provider.requests
        /\ replied <= provider.responses /\ provider.requests <= mem.attempted
        /\ mem.attempted <= noted /\ mem.completed <= provider.responses
        /\ disk.completed <= disk.attempted
    BY <1>1 DEF Accounts
  <1>7. Calm => /\ mem.attempted = tried /\ mem.completed = replied
                /\ provider.requests = mem.attempted /\ provider.responses = mem.completed
    BY <1>1 DEF Smooth, Calm
  <1> HIDE DEF tried, pending, replied, noted
  <1>8. mem'.completed <= provider.responses /\ mem'.completed <= mem'.attempted
    BY <1>2, <1>3, <1>6
  <1>9. disk'.completed <= disk'.attempted BY <1>6, <1>8
  <1>10. Accounts' BY <1>2, <1>3, <1>4, <1>5, <1>6, <1>8, <1>9 DEF Accounts
  <1>11. Smooth'
    <2> SUFFICES ASSUME Calm' PROVE Smooth' BY DEF Smooth, Calm
    <2>1. Calm /\ disk' = mem' OBVIOUS
    <2>2. mem'.completed = mem.completed BY <1>7, <2>1
    <2> QED BY <1>4, <1>7, <2>1, <2>2 DEF Smooth
  <1> QED BY <1>1, <1>10, <1>11

LEMMA GuardKeeps ==
    ASSUME StudyInv, Guard
    PROVE  StudyInv'
  <1>1. /\ StudyTypes /\ Progress /\ OnFile /\ Claims(mem) /\ Claims(disk) /\ Smooth /\ Verdicts
        /\ IsManifest(mem) /\ IsManifest(disk) /\ mem.completed \in Nat
    BY SyncedCounts DEF StudyInv, StudyTypes
  <1>2. pc = "guard" /\ block' = block /\ task' = task /\ outcome' = outcome
        /\ log' = log /\ provider' = provider /\ private' = private /\ public' = public
    BY DEF Guard, work, files
  <1>3. disk = mem /\ mem.status = "running" /\ ~Told /\ ~Past
    BY <1>1, <1>2 DEF Smooth, Verdicts, Told, Past
  <1> DEFINE dried == [mem EXCEPT !.dry = TRUE]
  <1>4. /\ Counts(dried, mem) /\ dried.status = "running" /\ dried.dry = TRUE
        /\ dried.rows = mem.rows
    BY <1>1, <1>3, DryTold
  <1> HIDE DEF dried
  <1>5. /\ pc' \in {"block", "export", "fail"} /\ mem' \in {mem, dried} /\ disk' \in {disk, mem'}
        /\ Calm' => disk' = mem'
        /\ pc' = "export" => mem' = dried
    BY <1>3 DEF Guard, Written, Raise, dried, Calm
  <1>6. Counts(mem', mem) /\ mem'.status = "running" /\ mem'.rows = mem.rows
    BY <1>1, <1>3, <1>4, <1>5 DEF Counts
  <1>7. Calm BY <1>2 DEF Calm
  <1>8. Accounts' /\ Smooth' /\ IsManifest(disk')
    BY <1>2, <1>5, <1>6, <1>7, AccountsStay DEF Counts
  <1>9. StudyTypes' BY <1>1, <1>2, <1>5, <1>6, <1>8 DEF StudyTypes, Places, Counts
  <1>10. ~Past' /\ ~Gathered'
    BY <1>4, <1>5 DEF Past, Gathered
  <1>11. Progress' BY <1>1, <1>2, <1>5, <1>10 DEF Progress
  <1>12. OnFile' BY <1>1, <1>2, <1>5, <1>10 DEF OnFile
  <1>13. disk'.status = "running" /\ disk'.rows = mem.rows
    BY <1>3, <1>5, <1>6
  <1>14. Claims(mem)' /\ Claims(disk)' BY <1>1, <1>2, <1>3, <1>6, <1>13 DEF Claims
  <1>15. Verdicts' BY <1>5, <1>6, <1>13 DEF Verdicts
  <1>16. Sealed' BY <1>4, <1>5, <1>6, <1>13 DEF Sealed
  <1> QED BY <1>8, <1>9, <1>11, <1>12, <1>14, <1>15, <1>16 DEF StudyInv

LEMMA StartBlockKeeps ==
    ASSUME StudyInv, StartBlock
    PROVE  StudyInv'
  <1>1. /\ StudyTypes /\ Progress /\ OnFile /\ Claims(mem) /\ Claims(disk) /\ Smooth /\ Verdicts
        /\ Accounts /\ task \in [Requests -> States]
    BY DEF StudyInv, StudyTypes
  <1>2. /\ pc = "block" /\ pc' = "send" /\ block' = block /\ outcome' = outcome /\ log' = log
        /\ provider' = provider /\ private' = private /\ public' = public
        /\ mem' = mem /\ disk' = disk
        /\ task' = [r \in Requests |-> IF r \in Planned[block] THEN "waiting" ELSE task[r]]
    BY DEF StartBlock, files
  <1>3. /\ Planned[block] \in SUBSET Requests /\ Whole(block - 1) \intersect Planned[block] = {}
        /\ Whole(block) = Whole(block - 1) \union Planned[block]
        /\ Whole(block - 1) \in SUBSET Requests
    BY <1>1, AtBlock
  <1>4. \A r \in Planned[block] : task[r] = "planned" BY <1>1, <1>2 DEF Progress
  <1>5. /\ \A v : v = task' =>
               /\ TriedIn(v) = TriedIn(task) /\ AskedIn(v) = AskedIn(task)
               /\ RepliedIn(v, outcome) = RepliedIn(task, outcome)
               /\ v \in [Requests -> States]
    <2> SUFFICES ASSUME NEW v,
                        v = [r \in Requests |-> IF r \in Planned[block] THEN "waiting" ELSE task[r]]
        PROVE  /\ TriedIn(v) = TriedIn(task) /\ AskedIn(v) = AskedIn(task)
               /\ RepliedIn(v, outcome) = RepliedIn(task, outcome)
               /\ v \in [Requests -> States]
      BY <1>2
    <2> DEFINE B == Planned[block]
           next(r) == IF r \in B THEN "waiting" ELSE task[r]
    <2>0. v = [r \in Requests |-> next(r)] OBVIOUS
    <2>1. B \in SUBSET Requests /\ \A r \in B : task[r] = "planned" BY <1>3, <1>4
    <2> HIDE DEF B
    <2>9. "waiting" \in States BY DEF States
    <2>7. ASSUME NEW r \in Requests PROVE next(r) \in States
      <3>1. task[r] \in States BY <1>1
      <3>2. CASE r \in B
        BY <2>9, <3>2
      <3>3. CASE r \notin B
        BY <3>1, <3>3
      <3> QED BY <3>2, <3>3
    <2> HIDE DEF next
    <2>8. v \in [Requests -> States] /\ \A r \in Requests : v[r] = next(r) BY <2>0, <2>7
    <2>2. \A r \in Requests : v[r] = (IF r \in B THEN "waiting" ELSE task[r])
      BY <2>8 DEF next
    <2>3. v \in [Requests -> States] BY <2>8
    <2>4. TriedIn(v) = TriedIn(task) BY <2>1, <2>2 DEF TriedIn
    <2>5. AskedIn(v) = AskedIn(task) BY <2>1, <2>2 DEF AskedIn
    <2>6. RepliedIn(v, outcome) = RepliedIn(task, outcome) BY <2>1, <2>2 DEF RepliedIn
    <2> QED BY <2>3, <2>4, <2>5, <2>6
  <1>6. /\ TriedIn(task') = TriedIn(task) /\ AskedIn(task') = AskedIn(task)
        /\ RepliedIn(task', outcome') = RepliedIn(task, outcome)
        /\ task' \in [Requests -> States]
    BY <1>2, <1>5
  <1>7. StudyTypes' BY <1>1, <1>2, <1>6 DEF StudyTypes, Places
  <1>8. ~Past' /\ ~Gathered' BY <1>2 DEF Past, Gathered
  <1>9. /\ \A r \in Requests \ Planned[block] : task'[r] = task[r]
        /\ \A r \in Planned[block] : task'[r] = "waiting"
    BY <1>2, <1>3
  <1>10. Progress' BY <1>1, <1>2, <1>3, <1>8, <1>9 DEF Progress
  <1>11. OnFile' BY <1>1, <1>2, <1>8 DEF OnFile
  <1>12. ~Told BY <1>2 DEF Told
  <1>13. Claims(mem)' /\ Claims(disk)' BY <1>1, <1>2, <1>12 DEF Claims
  <1>14. \A r \in Requests : task'[r] \in {"planned", "waiting"} => r \notin Noted(log')
    BY <1>1, <1>2, <1>4, <1>9 DEF Accounts
  <1>15. Accounts' BY <1>1, <1>2, <1>6, <1>14 DEF Accounts
  <1>16. Smooth' BY <1>1, <1>2, <1>6 DEF Smooth
  <1>17. Verdicts' /\ Sealed' BY <1>1, <1>2 DEF Verdicts, Sealed
  <1> QED BY <1>7, <1>10, <1>11, <1>13, <1>15, <1>16, <1>17 DEF StudyInv

LEMMA GatherReturnsKeeps ==
    ASSUME StudyInv, GatherReturns
    PROVE  StudyInv'
  <1>1. /\ StudyTypes /\ Progress /\ OnFile /\ Claims(mem) /\ Claims(disk) /\ Smooth /\ Verdicts
        /\ IsManifest(mem) /\ IsManifest(disk)
    BY DEF StudyInv, StudyTypes
  <1>2. /\ pc = "send" /\ pc' = "private" /\ block' = block /\ task' = task
        /\ outcome' = outcome /\ log' = log
        /\ provider' = provider /\ private' = private /\ public' = public
        /\ mem' = mem /\ disk' = disk
    BY DEF GatherReturns, work, files
  <1>3. /\ Whole(block) = Whole(block - 1) \union Planned[block]
    BY <1>1, AtBlock
  <1>4. \A r \in Planned[block] : task[r] = "done" BY DEF GatherReturns, In
  <1>5. Calm /\ disk = mem BY <1>1, <1>2 DEF Smooth, Calm
  <1>6. Accounts' /\ Smooth' BY <1>1, <1>2, <1>5, AccountsStay
  <1>7. StudyTypes' BY <1>1, <1>2 DEF StudyTypes, Places
  <1>8. ~Past' BY <1>2 DEF Past
  <1>9. Progress' BY <1>1, <1>2, <1>3, <1>4, <1>8 DEF Progress
  <1>10. OnFile' BY <1>1, <1>2, <1>8 DEF OnFile
  <1>11. ~Told BY <1>2 DEF Told
  <1>12. Claims(mem)' /\ Claims(disk)' BY <1>1, <1>2, <1>11 DEF Claims
  <1>13. Verdicts' /\ Sealed' BY <1>1, <1>2 DEF Verdicts, Sealed
  <1> QED BY <1>6, <1>7, <1>9, <1>10, <1>12, <1>13 DEF StudyInv

(* What an interrupted append leaves in a file. *)
LEMMA Parts ==
    ASSUME StudyTypes, NEW p \in PartsOfBlock
    PROVE  p \in SUBSET Planned[block]
  <1> DEFINE s == BlockOf[block]
  <1>1. block \in 1..(Blocks + 1) BY DEF StudyTypes
  <1>2. \E n \in Nat : DOMAIN s = 1..n
    <2>1. CASE block \in 1..Blocks
      <3> DEFINE n == (Spans[WaveOf(block)][2] - Spans[WaveOf(block)][1]) * Cases
      <3>1. DOMAIN s = 1..n BY <2>1, BlockIs DEF GridBlock
      <3>2. n \in Int
        <4>1. /\ Spans[WaveOf(block)][1] \in Nat /\ Spans[WaveOf(block)][2] \in Nat
              /\ Cases \in Nat
          BY <2>1, Placed, Shape
        <4> QED BY <4>1
      <3> HIDE DEF n, s
      <3>3. CASE n \in Nat
        BY <3>1, <3>3
      <3>4. CASE n < 0
        <4>1. 1..n = 1..0 BY <3>2, <3>4
        <4> QED BY <3>1, <4>1
      <3> QED BY <3>2, <3>3, <3>4
    <2>2. CASE block = Blocks + 1
      <3>1. s = SeedBlock BY <2>2, BlockIs
      <3>2. DOMAIN SeedBlock = 1..2 BY DEF SeedBlock
      <3> QED BY <3>1, <3>2
    <2> QED BY <1>1, <2>1, <2>2, Shape
  <1>3. Planned[block] = Range(s) BY <1>1, BlockIs
  <1> DEFINE Piece(n) == {s[i] : i \in 1..n}
  <1>4. PICK n \in 0..Len(s) : p = Piece(n) BY DEF PartsOfBlock
  <1> HIDE DEF s
  <1>5. DOMAIN s = 1..Len(s)
    <2>1. PICK m \in Nat : DOMAIN s = 1..m BY <1>2
    <2>2. Len(s) = m BY <2>1
    <2> QED BY <2>1, <2>2
  <1>6. \A i \in 1..n : i \in DOMAIN s
    <2>1. PICK m \in Nat : DOMAIN s = 1..m BY <1>2
    <2>2. m = Len(s) BY <2>1
    <2> QED BY <1>4, <1>5, <2>2
  <1> QED BY <1>3, <1>4, <1>6 DEF Range

(* A step that leaves the manifests, and the requests' accounts, alone.     *)
LEMMA QuietStep ==
    ASSUME StudyInv, UNCHANGED <<task, outcome, log, provider, mem, disk>>, Calm' => Calm
    PROVE  Accounts' /\ Smooth'
  <1>1. IsManifest(mem) /\ Smooth BY DEF StudyInv, StudyTypes
  <1>2. Calm => disk = mem BY <1>1 DEF Smooth, Calm
  <1> QED BY <1>1, <1>2, AccountsStay

LEMMA AppendPrivateKeeps ==
    ASSUME StudyInv, AppendPrivate
    PROVE  StudyInv'
  <1>1. StudyTypes /\ Progress /\ OnFile /\ Claims(mem) /\ Claims(disk) /\ Verdicts
    BY DEF StudyInv
  <1>2. /\ pc = "private" /\ block' = block /\ task' = task /\ outcome' = outcome /\ log' = log
        /\ provider' = provider /\ public' = public /\ mem' = mem /\ disk' = disk
        /\ \/ private' = private \union Planned[block] /\ pc' = "public"
           \/ \E p \in PartsOfBlock : private' = private \union p /\ pc' = "closing"
    BY DEF AppendPrivate, AppendRows, Raise
  <1>3. /\ Whole(block) = Whole(block - 1) \union Planned[block]
    BY <1>1, AtBlock
  <1>4. \A p \in PartsOfBlock : p \in SUBSET Planned[block] BY <1>1, Parts
  <1>5. pc' \in {"public", "closing"} /\ private = Whole(block - 1)
    BY <1>1, <1>2 DEF OnFile
  <1>6. Calm BY <1>2 DEF Calm
  <1>7. Accounts' /\ Smooth' BY <1>2, <1>6, QuietStep
  <1>8. StudyTypes' BY <1>1, <1>2, <1>5 DEF StudyTypes, Places
  <1>9. ~Past' /\ Gathered BY <1>2, <1>5 DEF Past, Gathered
  <1>10. Progress' BY <1>1, <1>2, <1>5, <1>9 DEF Progress
  <1>11. OnFile'
    <2>1. /\ Whole(block - 1) \subseteq public /\ public \subseteq private BY <1>1 DEF OnFile
    <2>2. public = Whole(block - 1) BY <1>5, <2>1
    <2>3. CASE private' = private \union Planned[block] /\ pc' = "public"
      BY <1>2, <1>3, <1>5, <1>9, <2>1, <2>2, <2>3 DEF OnFile
    <2>4. CASE \E p \in PartsOfBlock : private' = private \union p /\ pc' = "closing"
      BY <1>2, <1>3, <1>4, <1>5, <1>9, <2>1, <2>4 DEF OnFile
    <2> QED BY <1>2, <2>3, <2>4
  <1>12. ~Told BY <1>2 DEF Told
  <1>13. Claims(mem)' /\ Claims(disk)' BY <1>1, <1>2, <1>12 DEF Claims
  <1>14. Verdicts' /\ Sealed' BY <1>1, <1>2, <1>5 DEF Verdicts, Sealed
  <1> QED BY <1>7, <1>8, <1>10, <1>11, <1>13, <1>14 DEF StudyInv

LEMMA AppendPublicKeeps ==
    ASSUME StudyInv, AppendPublic
    PROVE  StudyInv'
  <1>1. StudyTypes /\ Progress /\ OnFile /\ Claims(mem) /\ Claims(disk) /\ Verdicts
    BY DEF StudyInv
  <1>2. /\ pc = "public" /\ block' = block /\ task' = task /\ outcome' = outcome /\ log' = log
        /\ provider' = provider /\ private' = private /\ mem' = mem /\ disk' = disk
        /\ \/ public' = public \union Planned[block] /\ pc' = "checkpoint"
           \/ \E p \in PartsOfBlock : public' = public \union p /\ pc' = "closing"
    BY DEF AppendPublic, AppendRows, Raise
  <1>3. /\ Whole(block) = Whole(block - 1) \union Planned[block]
    BY <1>1, AtBlock
  <1>4. \A p \in PartsOfBlock : p \in SUBSET Planned[block] BY <1>1, Parts
  <1>5. /\ pc' \in {"checkpoint", "closing"} /\ private = Whole(block) /\ public = Whole(block - 1)
    BY <1>1, <1>2 DEF OnFile
  <1>6. Calm BY <1>2 DEF Calm
  <1>7. Accounts' /\ Smooth' BY <1>2, <1>6, QuietStep
  <1>8. StudyTypes' BY <1>1, <1>2, <1>5 DEF StudyTypes, Places
  <1>9. ~Past' /\ Gathered BY <1>2, <1>5 DEF Past, Gathered
  <1>10. Progress' BY <1>1, <1>2, <1>5, <1>9 DEF Progress
  <1>11. OnFile'
    <2>1. CASE public' = public \union Planned[block] /\ pc' = "checkpoint"
      BY <1>2, <1>3, <1>5, <1>9, <2>1 DEF OnFile
    <2>2. CASE \E p \in PartsOfBlock : public' = public \union p /\ pc' = "closing"
      BY <1>2, <1>3, <1>4, <1>5, <1>9, <2>2 DEF OnFile
    <2> QED BY <1>2, <2>1, <2>2
  <1>12. ~Told BY <1>2 DEF Told
  <1>13. Claims(mem)' /\ Claims(disk)' BY <1>1, <1>2, <1>12 DEF Claims
  <1>14. Verdicts' /\ Sealed' BY <1>1, <1>2, <1>5 DEF Verdicts, Sealed
  <1> QED BY <1>7, <1>8, <1>10, <1>11, <1>13, <1>14 DEF StudyInv

(* The manifest a checkpoint writes claims the rows of whole blocks.        *)
LEMMA CheckpointTells ==
    ASSUME StudyInv, pc = "checkpoint" \/ Past, Held = Whole(block),
           NEW n, n = [Synced(mem) EXCEPT !.rows = Completion(Held)]
    PROVE  /\ IsManifest(n) /\ n.attempted = mem.attempted /\ n.completed = provider.responses
           /\ n.status = mem.status /\ n.rows = Tally(Whole(block), outcome)
           /\ n.dry = mem.dry /\ Told
  <1>1. Progress /\ OnFile BY DEF StudyInv
  <1>2. /\ Alike(mem, Synced(mem)) /\ Synced(mem).attempted = mem.attempted
        /\ Synced(mem).completed = provider.responses
    BY SyncedCounts
  <1>3. /\ Counts(n, Synced(mem)) /\ n.rows = Completion(Held) /\ n.status = Synced(mem).status
        /\ n.dry = Synced(mem).dry
    BY <1>2, RowsTold DEF Alike
  <1>4. Completion(Held) = Tally(Whole(block), outcome) BY CompletionIs
  <1>5. Told BY <1>1 DEF Told, Progress, OnFile, Gathered, Past
  <1> QED BY <1>2, <1>3, <1>4, <1>5 DEF Alike, Counts

LEMMA CheckpointKeeps ==
    ASSUME StudyInv, Checkpoint
    PROVE  StudyInv'
  <1>1. /\ StudyTypes /\ Progress /\ OnFile /\ Claims(mem) /\ Claims(disk) /\ Smooth /\ Verdicts
        /\ IsManifest(mem) /\ IsManifest(disk) /\ block \in 1..(Blocks + 1)
    BY DEF StudyInv, StudyTypes
  <1> DEFINE n == [Synced(mem) EXCEPT !.rows = Completion(Held)]
  <1>2. /\ pc = "checkpoint" /\ block <= Blocks /\ task' = task /\ outcome' = outcome
        /\ log' = log /\ provider' = provider /\ private' = private /\ public' = public
        /\ mem' = n
        /\ \/ disk' = n /\ pc' = "block"
           \/ disk' \in {disk, n} /\ pc' = "closing"
        /\ block' = IF pc' = "block" THEN block + 1 ELSE block
    BY DEF Checkpoint, Written, Raise, files
  <1>3. Held = Whole(block) BY <1>2 DEF Held
  <1>4. /\ IsManifest(n) /\ n.attempted = mem.attempted /\ n.completed = provider.responses
        /\ n.status = mem.status /\ n.rows = Tally(Whole(block), outcome) /\ Told
    BY <1>2, <1>3, CheckpointTells
  <1> HIDE DEF n
  <1>5. mem.status = "running" /\ disk.status = "running" BY <1>1, <1>2 DEF Verdicts
  <1>6. Calm BY <1>2 DEF Calm
  <1>7. Accounts' /\ Smooth' /\ IsManifest(disk')
    <2>1. Calm' => disk' = mem' BY <1>2 DEF Calm
    <2> QED BY <1>2, <1>4, <1>6, <2>1, AccountsStay
  <1>8. Blocks \in Nat BY Shape
  <1>9. StudyTypes' BY <1>1, <1>2, <1>4, <1>7, <1>8 DEF StudyTypes, Places
  <1>10. /\ Whole(block) = Whole(block - 1) \union Planned[block]
         /\ public = Whole(block) /\ private = Whole(block)
         /\ \A r \in Whole(block) : task[r] = "done"
    BY <1>1, <1>2, <1>4, AtBlock DEF OnFile, Progress, Told
  <1>11. mem'.status = "running" /\ disk'.status = "running" BY <1>2, <1>4, <1>5
  <1>12. Verdicts' BY <1>2, <1>11 DEF Verdicts
  <1>13. Sealed' BY <1>2, <1>11 DEF Sealed
  <1>14. CASE pc' = "closing"
    <2>1. block' = block /\ ~Past' /\ ~Gathered' BY <1>2, <1>14 DEF Past, Gathered
    <2>2. Progress' BY <1>1, <1>2, <1>14, <2>1 DEF Progress
    <2>3. OnFile' BY <1>1, <1>2, <1>14, <2>1 DEF OnFile
    <2>4. Told' BY <1>2, <1>4, <1>14, <2>1 DEF Told
    <2>5. Claims(mem)' /\ Claims(disk)' BY <1>1, <1>2, <1>4, <2>1, <2>4 DEF Claims
    <2> QED BY <1>7, <1>9, <1>12, <1>13, <2>2, <2>3, <2>5 DEF StudyInv
  <1>15. CASE pc' = "block"
    <2>1. block' = block + 1 /\ block' - 1 = block /\ block' \in 1..(Blocks + 1)
      BY <1>1, <1>2, <1>8, <1>15
    <2>2. ~Past' /\ ~Gathered' BY <1>15 DEF Past, Gathered
    <2>3. /\ Planned[block'] \in SUBSET Requests /\ Whole(block) \intersect Planned[block'] = {}
          /\ Whole(block') = Whole(block) \union Planned[block']
      BY <2>1, Wholes
    <2>4. Progress'
      <3>1. \A r \in Requests \ Whole(block) : task[r] = "planned" BY <1>1 DEF Progress
      <3>2. \A r \in Requests : task[r] \notin {"waiting", "asked"}
        BY <1>1, <1>2 DEF Progress
      <3> QED BY <1>2, <1>10, <1>15, <2>1, <2>2, <2>3, <3>1, <3>2 DEF Progress
    <2>5. OnFile' BY <1>2, <1>10, <1>15, <2>1, <2>2, <2>3 DEF OnFile
    <2>6. disk' = n BY <1>2, <1>15
    <2>7. Claims(mem)' /\ Claims(disk)' BY <1>2, <1>4, <2>1, <2>6 DEF Claims
    <2> QED BY <1>7, <1>9, <1>12, <1>13, <2>4, <2>5, <2>7 DEF StudyInv
  <1> QED BY <1>2, <1>14, <1>15

LEMMA LastCheckpointKeeps ==
    ASSUME StudyInv, LastCheckpoint
    PROVE  StudyInv'
  <1>1. /\ StudyTypes /\ Progress /\ OnFile /\ Claims(mem) /\ Claims(disk) /\ Smooth /\ Verdicts
        /\ IsManifest(mem) /\ IsManifest(disk)
    BY DEF StudyInv, StudyTypes
  <1> DEFINE n == [Synced(mem) EXCEPT !.rows = Completion(Held)]
  <1>2. /\ pc = "checkpoint" /\ block = Blocks + 1 /\ task' = task /\ outcome' = outcome
        /\ log' = log /\ provider' = provider /\ private' = private /\ public' = public
        /\ mem' = n /\ block' = block
        /\ \/ disk' = n /\ pc' = "summarise"
           \/ disk' \in {disk, n} /\ pc' = "closing"
    BY DEF LastCheckpoint, Written, Raise, work, files
  <1>3. Held = Whole(block) BY <1>2 DEF Held
  <1>4. /\ IsManifest(n) /\ n.attempted = mem.attempted /\ n.completed = provider.responses
        /\ n.status = mem.status /\ n.rows = Tally(Whole(block), outcome) /\ Told
    BY <1>2, <1>3, CheckpointTells
  <1> HIDE DEF n
  <1>5. mem.status = "running" /\ disk.status = "running" BY <1>1, <1>2 DEF Verdicts
  <1>6. Calm BY <1>2 DEF Calm
  <1>7. Accounts' /\ Smooth' /\ IsManifest(disk')
    <2>1. Calm' => disk' = mem' BY <1>2 DEF Calm
    <2> QED BY <1>2, <1>4, <1>6, <2>1, AccountsStay
  <1>8. StudyTypes' BY <1>1, <1>2, <1>4, <1>7 DEF StudyTypes, Places
  <1>9. mem'.status = "running" /\ disk'.status = "running" BY <1>2, <1>4, <1>5
  <1>10. Verdicts' /\ Sealed' BY <1>2, <1>9 DEF Verdicts, Sealed
  <1>11. pc' \in {"summarise", "closing"} BY <1>2
  <1>12. Gathered BY <1>2 DEF Gathered
  <1>13. Progress' BY <1>1, <1>2, <1>11, <1>12 DEF Progress, Gathered, Past
  <1>14. OnFile' BY <1>1, <1>2, <1>11 DEF OnFile, Past
  <1>15. Told' BY <1>2, <1>4, <1>11 DEF Told
  <1>16. Claims(mem)' /\ Claims(disk)' BY <1>1, <1>2, <1>4, <1>15 DEF Claims
  <1> QED BY <1>7, <1>8, <1>10, <1>13, <1>14, <1>16 DEF StudyInv

(* What a death, or an interrupt, leaves in the files. *)
LEMMA TornFiles ==
    ASSUME StudyInv, private' \in Torn(private, "private"), public' \in Torn(public, "public")
    PROVE  public \subseteq public' /\ public' \subseteq private' /\ private' \subseteq Whole(block)
  <1>1. StudyTypes /\ OnFile BY DEF StudyInv
  <1>2. Whole(block) = Whole(block - 1) \union Planned[block] BY <1>1, AtBlock
  <1>3. \A p \in PartsOfBlock : p \in SUBSET Planned[block] BY <1>1, Parts
  <1>4. /\ public \subseteq private /\ private \subseteq Whole(block)
        /\ pc = "public" => private = Whole(block) /\ public = Whole(block - 1)
    BY <1>1 DEF OnFile
  <1>5. /\ private' = private \/ (pc = "private" /\ \E p \in PartsOfBlock : private' = private \union p)
        /\ public' = public \/ (pc = "public" /\ \E p \in PartsOfBlock : public' = public \union p)
    BY DEF Torn
  <1>6. CASE pc = "public"
    <2>1. private' = private BY <1>5, <1>6
    <2> QED BY <1>2, <1>3, <1>4, <1>5, <1>6, <2>1
  <1>7. CASE pc # "public"
    <2>1. public' = public BY <1>5, <1>7
    <2> QED BY <1>2, <1>3, <1>4, <1>5, <2>1
  <1> QED BY <1>6, <1>7

LEMMA CancelKeeps ==
    ASSUME StudyInv, pc # "over", pc' \in {"closing", "fail"},
           UNCHANGED <<block, outcome, log, provider, mem, disk>>,
           task' = [r \in Requests |-> IF task[r] \in {"waiting", "asked"} THEN "cancelled"
                                       ELSE task[r]],
           public \subseteq public', public' \subseteq private', private' \subseteq Whole(block)
    PROVE  StudyInv'
  <1>1. /\ StudyTypes /\ Progress /\ OnFile /\ Claims(mem) /\ Claims(disk) /\ Verdicts /\ Accounts
        /\ task \in [Requests -> States]
    BY DEF StudyInv, StudyTypes
  <1> DEFINE next(r) == IF task[r] \in {"waiting", "asked"} THEN "cancelled" ELSE task[r]
             Fine(u) ==
               /\ Cardinality(TriedIn(u)) <= Cardinality(TriedIn(task))
               /\ Cardinality(AskedIn(u)) <= Cardinality(AskedIn(task))
               /\ RepliedIn(u, outcome) = RepliedIn(task, outcome)
               /\ u \in [Requests -> States]
               /\ \A r \in Requests : u[r] \notin {"waiting", "asked"}
               /\ \A r \in Requests : task[r] \in {"done", "planned"} => u[r] = task[r]
               /\ \A r \in Requests : u[r] = "planned" => task[r] = "planned"
  <1>2. \A u : u = [r \in Requests |-> next(r)] => Fine(u)
    BY <1>1, Cancelling
  <1>3. task' = [r \in Requests |-> next(r)] OBVIOUS
  <1> HIDE DEF next, Fine
  <1>4. Fine(task') BY <1>2, <1>3
  <1>5. /\ Cardinality(TriedIn(task')) <= Cardinality(TriedIn(task))
        /\ Cardinality(AskedIn(task')) <= Cardinality(AskedIn(task))
        /\ RepliedIn(task', outcome') = RepliedIn(task, outcome)
        /\ task' \in [Requests -> States]
        /\ \A r \in Requests : task'[r] \notin {"waiting", "asked"}
        /\ \A r \in Requests : task[r] \in {"done", "planned"} => task'[r] = task[r]
        /\ \A r \in Requests : task'[r] = "planned" => task[r] = "planned"
    BY <1>4 DEF Fine
  <1>6. StudyTypes' BY <1>1, <1>5 DEF StudyTypes, Places
  <1>7. ~Past' /\ ~Gathered' BY DEF Past, Gathered
  <1>8. /\ Whole(block - 1) \in SUBSET Requests /\ Planned[block] \in SUBSET Requests
    BY <1>1, AtBlock
  <1>9. Progress' BY <1>1, <1>5, <1>7, <1>8 DEF Progress
  <1>10. OnFile' BY <1>1, <1>7 DEF OnFile
  <1>11. Told => Told' BY <1>5, <1>8 DEF Told
  <1>12. Claims(mem)' /\ Claims(disk)' BY <1>1, <1>11 DEF Claims
  <1>13. Accounts'
    <2> DEFINE tried == Cardinality(TriedIn(task))
               pending == Cardinality(AskedIn(task))
               tried2 == Cardinality(TriedIn(task'))
               pending2 == Cardinality(AskedIn(task'))
    <2>1. tried \in Nat /\ pending \in Nat BY Groups
    <2>2. tried2 \in Nat /\ pending2 \in Nat
      <3> DEFINE u == task'
      <3>1. Cardinality(TriedIn(u)) \in Nat /\ Cardinality(AskedIn(u)) \in Nat BY Groups
      <3> QED BY <3>1
    <2>3. provider.requests \in Nat /\ provider.responses \in Nat BY SyncedCounts
    <2>4. tried2 <= provider'.requests /\ provider'.responses + pending2 <= provider'.requests
      <3>1. tried <= provider.requests /\ provider.responses + pending <= provider.requests
            /\ tried2 <= tried /\ pending2 <= pending /\ provider' = provider
        BY <1>1, <1>5 DEF Accounts
      <3> HIDE DEF tried, pending, tried2, pending2
      <3> QED BY <2>1, <2>2, <2>3, <3>1
    <2>5. \A r \in Requests : task'[r] \in {"planned", "waiting"} => r \notin Noted(log')
      BY <1>1, <1>5 DEF Accounts
    <2> QED BY <1>1, <1>5, <2>4, <2>5 DEF Accounts
  <1>14. Smooth' BY DEF Smooth
  <1>15. Verdicts' /\ Sealed' BY <1>1 DEF Verdicts, Sealed
  <1> QED BY <1>6, <1>9, <1>10, <1>12, <1>13, <1>14, <1>15 DEF StudyInv

LEMMA InterruptKeeps ==
    ASSUME StudyInv, Interrupt
    PROVE  StudyInv'
  <1>1. /\ pc # "over" /\ pc' \in {"closing", "fail"}
        /\ UNCHANGED <<block, outcome, log, provider, mem, disk>>
        /\ task' = [r \in Requests |-> IF task[r] \in {"waiting", "asked"} THEN "cancelled"
                                       ELSE task[r]]
        /\ private' \in Torn(private, "private") /\ public' \in Torn(public, "public")
    BY DEF Interrupt
  <1>2. public \subseteq public' /\ public' \subseteq private' /\ private' \subseteq Whole(block)
    BY <1>1, TornFiles
  <1> QED BY <1>1, <1>2, CancelKeeps

LEMMA ClosedKeeps ==
    ASSUME StudyInv, Closed
    PROVE  StudyInv'
  <1>1. /\ pc # "over" /\ pc' \in {"closing", "fail"} /\ private' = private /\ public' = public
        /\ UNCHANGED <<block, outcome, log, provider, mem, disk>>
        /\ task' = [r \in Requests |-> IF task[r] \in {"waiting", "asked"} THEN "cancelled"
                                       ELSE task[r]]
    BY DEF Closed, files
  <1>2. public \subseteq private /\ private \subseteq Whole(block) BY DEF StudyInv, OnFile
  <1> QED BY <1>1, <1>2, CancelKeeps

LEMMA KillKeeps ==
    ASSUME StudyInv, Kill
    PROVE  StudyInv'
  <1>1. /\ StudyTypes /\ Progress /\ OnFile /\ Claims(mem) /\ Claims(disk) /\ Verdicts
    BY DEF StudyInv
  <1>2. /\ pc # "over" /\ pc' = "killed" /\ block' = block /\ task' = task /\ outcome' = outcome
        /\ log' = log /\ provider' = provider /\ mem' = mem /\ disk' = disk
        /\ private' \in Torn(private, "private") /\ public' \in Torn(public, "public")
    BY DEF Kill
  <1>3. public \subseteq public' /\ public' \subseteq private' /\ private' \subseteq Whole(block)
    BY <1>2, TornFiles
  <1>4. ~Calm' /\ ~Past' /\ ~Gathered' BY <1>2 DEF Calm, Past, Gathered
  <1>5. Accounts' /\ Smooth' BY <1>2, <1>4, QuietStep
  <1>6. StudyTypes' BY <1>1, <1>2 DEF StudyTypes, Places
  <1>7. Progress' BY <1>1, <1>2, <1>4 DEF Progress
  <1>8. OnFile' BY <1>1, <1>2, <1>3, <1>4 DEF OnFile
  <1>9. Told => Told' BY <1>2, <1>3 DEF Told
  <1>10. Claims(mem)' /\ Claims(disk)' BY <1>1, <1>2, <1>9 DEF Claims
  <1>11. Verdicts' /\ Sealed' BY <1>1, <1>2 DEF Verdicts, Sealed
  <1> QED BY <1>5, <1>6, <1>7, <1>8, <1>10, <1>11 DEF StudyInv

LEMMA ExportKeeps ==
    ASSUME StudyInv, Export
    PROVE  StudyInv'
  <1>1. /\ StudyTypes /\ Progress /\ OnFile /\ Claims(mem) /\ Claims(disk) /\ Verdicts /\ Sealed
    BY DEF StudyInv
  <1>2. /\ pc = "export" /\ pc' \in {"finish", "fail"} /\ block' = block /\ task' = task
        /\ outcome' = outcome /\ log' = log /\ provider' = provider /\ mem' = mem
        /\ disk' = disk /\ private' = private /\ public' = public
    BY DEF Export, work, files
  <1>3. Calm BY <1>2 DEF Calm
  <1>4. Accounts' /\ Smooth' BY <1>2, <1>3, QuietStep
  <1>5. StudyTypes' BY <1>1, <1>2 DEF StudyTypes, Places
  <1>6. Past' => Past BY <1>2 DEF Past
  <1>7. Gathered' <=> Past' BY <1>2 DEF Gathered
  <1>8. Progress' BY <1>1, <1>2, <1>6, <1>7 DEF Progress, Gathered
  <1>9. OnFile' BY <1>1, <1>2, <1>6 DEF OnFile
  <1>10. Told => Told' BY <1>2 DEF Told
  <1>11. Claims(mem)' /\ Claims(disk)' BY <1>1, <1>2, <1>10 DEF Claims
  <1>12. Verdicts' BY <1>1, <1>2 DEF Verdicts
  <1>13. Sealed' BY <1>1, <1>2 DEF Sealed, Complete
  <1> QED BY <1>4, <1>5, <1>8, <1>9, <1>11, <1>12, <1>13 DEF StudyInv

(* The manifest as finish and fail leave it. *)
LEMMA VerdictTold ==
    ASSUME StudyInv, NEW x, NEW n, n = [Synced(mem) EXCEPT !.status = x]
    PROVE  /\ IsManifest(n) /\ n.attempted = mem.attempted /\ n.completed = provider.responses
           /\ n.status = x /\ n.rows = mem.rows /\ n.summary = mem.summary /\ n.dry = mem.dry
  <1>1. /\ Alike(mem, Synced(mem)) /\ Synced(mem).attempted = mem.attempted
        /\ Synced(mem).completed = provider.responses
    BY SyncedCounts
  <1>2. /\ Counts(n, Synced(mem)) /\ n.status = x /\ n.rows = Synced(mem).rows
        /\ n.summary = Synced(mem).summary /\ n.dry = Synced(mem).dry
    BY <1>1, StatusTold DEF Alike
  <1> QED BY <1>1, <1>2 DEF Alike, Counts

LEMMA FinishKeeps ==
    ASSUME StudyInv, Finish
    PROVE  StudyInv'
  <1>1. /\ StudyTypes /\ Progress /\ OnFile /\ Claims(mem) /\ Claims(disk) /\ Smooth /\ Verdicts
        /\ Sealed /\ IsManifest(mem) /\ IsManifest(disk)
    BY DEF StudyInv, StudyTypes
  <1> DEFINE n == [Synced(mem) EXCEPT !.status = "finished"]
  <1>2. /\ pc = "finish" /\ block' = block /\ task' = task /\ outcome' = outcome
        /\ log' = log /\ provider' = provider /\ private' = private /\ public' = public
        /\ \/ disk' = n /\ mem' = n /\ pc' = "over"
           \/ mem' = mem /\ disk' = disk /\ pc' = "fail"
    BY DEF Finish, Raise, work, files
  <1>3. /\ IsManifest(n) /\ n.attempted = mem.attempted /\ n.completed = provider.responses
        /\ n.rows = mem.rows /\ n.summary = mem.summary /\ n.dry = mem.dry
        /\ n.status = "finished"
    BY VerdictTold
  <1> HIDE DEF n
  <1>4. ~Calm' /\ ~Past' /\ ~Gathered' BY <1>2 DEF Calm, Past, Gathered
  <1>5. /\ IsManifest(mem') /\ mem'.attempted = mem.attempted
        /\ mem'.completed \in {mem.completed, provider.responses} /\ disk' \in {disk, mem'}
    BY <1>1, <1>2, <1>3
  <1>6. Accounts' /\ Smooth' /\ IsManifest(disk') BY <1>2, <1>4, <1>5, AccountsStay
  <1>7. StudyTypes' BY <1>1, <1>2, <1>5, <1>6 DEF StudyTypes, Places
  <1>8. Progress' BY <1>1, <1>2, <1>4 DEF Progress
  <1>9. OnFile' BY <1>1, <1>2, <1>4 DEF OnFile
  <1>10. Told => Told' BY <1>2 DEF Told
  <1>11. Claims(mem)' /\ Claims(disk)' BY <1>1, <1>2, <1>3, <1>10 DEF Claims
  <1>12. Verdicts' BY <1>1, <1>2, <1>3 DEF Verdicts
  <1>13. provider.responses = mem.completed BY <1>1, <1>2 DEF Smooth
  <1>14. mem.status = "running" /\ disk.status = "running" BY <1>1, <1>2 DEF Verdicts
  <1>15. Sealed'
    <2>1. ~(pc' \in {"export", "finish"}) BY <1>2
    <2>2. SUFFICES ASSUME disk'.status = "finished", ~disk'.dry PROVE Complete(disk)'
      BY <2>1 DEF Sealed
    <2>3. disk' = n BY <1>2, <1>14, <2>2
    <2>4. Complete(mem) BY <1>1, <1>2, <1>3, <2>2, <2>3 DEF Sealed
    <2> QED BY <1>2, <1>3, <1>13, <2>3, <2>4 DEF Complete
  <1> QED BY <1>6, <1>7, <1>8, <1>9, <1>11, <1>12, <1>15 DEF StudyInv

LEMMA FailKeeps ==
    ASSUME StudyInv, Fail
    PROVE  StudyInv'
  <1>1. /\ StudyTypes /\ Progress /\ OnFile /\ Claims(mem) /\ Claims(disk) /\ Verdicts
        /\ IsManifest(mem) /\ IsManifest(disk)
    BY DEF StudyInv, StudyTypes
  <1> DEFINE n == [Synced(mem) EXCEPT !.status = "failed"]
  <1>2. /\ pc = "fail" /\ block' = block /\ task' = task /\ outcome' = outcome
        /\ log' = log /\ provider' = provider /\ private' = private /\ public' = public
        /\ mem' = n /\ disk' \in {disk, n} /\ pc' = "over"
    BY DEF Fail, Written, Raise, work, files
  <1>3. /\ IsManifest(n) /\ n.attempted = mem.attempted /\ n.completed = provider.responses
        /\ n.rows = mem.rows /\ n.status = "failed"
    BY VerdictTold
  <1> HIDE DEF n
  <1>4. ~Calm' /\ ~Past' /\ ~Gathered' BY <1>2 DEF Calm, Past, Gathered
  <1>5. /\ IsManifest(mem') /\ mem'.attempted = mem.attempted
        /\ mem'.completed \in {mem.completed, provider.responses} /\ disk' \in {disk, mem'}
    BY <1>2, <1>3
  <1>6. Accounts' /\ Smooth' /\ IsManifest(disk') BY <1>2, <1>4, <1>5, AccountsStay
  <1>7. StudyTypes' BY <1>1, <1>2, <1>5, <1>6 DEF StudyTypes, Places
  <1>8. Progress' BY <1>1, <1>2, <1>4 DEF Progress
  <1>9. OnFile' BY <1>1, <1>2, <1>4 DEF OnFile
  <1>10. Told => Told' BY <1>2 DEF Told
  <1>11. Claims(mem)' /\ Claims(disk)' BY <1>1, <1>2, <1>3, <1>10 DEF Claims
  <1>12. disk.status = "running" BY <1>1, <1>2 DEF Verdicts
  <1>13. Verdicts' BY <1>2, <1>3, <1>12 DEF Verdicts
  <1>14. Sealed' BY <1>2, <1>3, <1>12 DEF Sealed
  <1> QED BY <1>6, <1>7, <1>8, <1>9, <1>11, <1>13, <1>14 DEF StudyInv

-----------------------------------------------------------------------------
(* The cells of the grid *)

LEMMA RequestIsPlanned ==
    ASSUME NEW r
    PROVE  r \in Requests <=>
              \/ \E b \in 1..Blocks : r \in Samples(b)
              \/ r \in Planned[Blocks + 1]
  <1>1. r \in Requests <=> \E b \in 1..(Blocks + 1) : r \in Planned[b]
    BY BlockIs DEF Requests, Range
  <1>2. \A b \in 1..(Blocks + 1) : b \in 1..Blocks \/ b = Blocks + 1 BY Shape
  <1>3. /\ \A b \in 1..Blocks : b \in 1..(Blocks + 1)
        /\ Blocks + 1 \in 1..(Blocks + 1)
    BY Shape
  <1> QED BY <1>1, <1>2, <1>3, BlockIs

LEMMA GridRequest ==
    ASSUME NEW r \in Requests, r.kind = "grid"
    PROVE  /\ r.condition \in Range(Conditions) /\ r.case \in 1..Cases
           /\ r.replicate \in 0..(Repeats - 1)
           /\ r = Sample(r.condition, r.replicate, r.case)
  <1>1. r \notin Planned[Blocks + 1] BY BlockIs
  <1>2. PICK b \in 1..Blocks : r \in Samples(b) BY <1>1, RequestIsPlanned
  <1>3. PICK i \in Span(WaveOf(b)), k \in 1..Cases : r = Sample(ConditionOf(b), i, k)
    BY <1>2 DEF Samples
  <1>4. r.condition = ConditionOf(b) /\ r.case = k /\ r.replicate = i BY <1>3 DEF Sample
  <1>5. ConditionOf(b) \in Range(Conditions)
    BY Condition, Shape DEF Range
  <1>6. i \in 0..(Repeats - 1)
    <2>1. WaveOf(b) \in DOMAIN Spans BY Placed, Shape
    <2> DEFINE w == WaveOf(b)
               all == UNION {Span(v) : v \in DOMAIN Spans}
    <2>2. i \in all
      <3> HIDE DEF w
      <3>1. w \in DOMAIN Spans /\ i \in Span(w) BY <2>1 DEF w
      <3> QED BY <3>1
    <2> HIDE DEF all
    <2>3. all = 0..(Repeats - 1) BY StudyAssumption DEF all
    <2> QED BY <2>2, <2>3
  <1> QED BY <1>3, <1>4, <1>5, <1>6

LEMMA SeedRequests ==
    /\ {r \in Requests : r.kind = "seed"} = Planned[Blocks + 1]
    /\ \A r \in Requests : r.kind \in {"grid", "seed"}
  <1>1. \A b \in 1..Blocks : \A r \in Samples(b) : r.kind = "grid" BY DEF Samples, Sample
  <1>2. \A r \in Planned[Blocks + 1] : r.kind = "seed" BY BlockIs
  <1> QED BY <1>1, <1>2, RequestIsPlanned

(* Every wave runs every condition. *)
LEMMA EveryCondition ==
    ASSUME NEW w \in 1..Waves, NEW j \in 1..Positions
    PROVE  \E b \in 1..Blocks : WaveOf(b) = w /\ ConditionOf(b) = Conditions[j]
  <1> DEFINE P == Positions
             m == (w - 1) % P
             d == (w - 1) \div P
             x == j - 1
             p == IF x >= m THEN x - m ELSE x - m + P
             a == P * (w - 1)
             b == a + p + 1
  <1>1. P \in Nat \ {0} /\ w - 1 \in Nat /\ x \in 0..(P - 1) /\ w \in Nat BY Shape
  <1>2. d \in Nat /\ m \in 0..(P - 1) /\ w - 1 = P * d + m
    <2> HIDE DEF P
    <2> QED BY <1>1, Division
  <1>3. p \in 0..(P - 1)
    <2> HIDE DEF m, P, x, d
    <2> QED BY <1>1, <1>2
  <1>4. a \in Nat /\ a + P <= P * Waves /\ P * Waves = Blocks
    <2>1. w \in Int /\ Waves \in Int /\ w <= Waves BY Shape
    <2> HIDE DEF P
    <2>2. P * w <= P * Waves BY <1>1, <2>1, Multiples
    <2>3. P * w = P * (w - 1) + P BY <1>1
    <2>4. a \in Nat BY <1>1
    <2> QED BY <2>2, <2>3, <2>4, Shape DEF P
  <1>5. b \in 1..Blocks /\ b - 1 = a + p
    <2>1. Blocks \in Nat BY Shape
    <2> HIDE DEF a, p, P
    <2> QED BY <1>1, <1>3, <1>4, <2>1
  <1>6. (b - 1) \div P = w - 1 /\ (b - 1) % P = p
    <2> HIDE DEF b, p, P
    <2> DEFINE s == (b - 1) \div P
               t == (b - 1) % P
               v == w - 1
    <2>1. b - 1 \in Nat BY <1>5, Shape
    <2>2. s \in Nat /\ t \in 0..(P - 1) /\ b - 1 = P * s + t BY <1>1, <2>1, Division
    <2>3. P * s + t = P * v + p BY <1>5, <2>2
    <2>4. v \in Nat BY <1>1
    <2> HIDE DEF s, t, v
    <2>5. s = v /\ t = p BY <1>1, <1>3, <2>2, <2>3, <2>4, Quotient
    <2> QED BY <2>5 DEF s, t, v
  <1>7. WaveOf(b) = w /\ PlaceOf(b) = p
    <2>1. WaveOf(b) = (b - 1) \div P + 1 /\ PlaceOf(b) = (b - 1) % P BY DEF WaveOf, PlaceOf
    <2> HIDE DEF b, p, P
    <2> QED BY <1>1, <1>6, <2>1
  <1>8. (w - 1 + p) % P = x
    <2> DEFINE n == w - 1 + p
               e == P * d
               s == n \div P
               t == n % P
    <2>1. n \in Nat
      <3> HIDE DEF p, P
      <3> QED BY <1>1, <1>3
    <2>2. e \in Nat /\ e + P = P * (d + 1) /\ w - 1 = e + m
      <3> HIDE DEF P, d
      <3> QED BY <1>1, <1>2
    <2>3. n = e + x \/ n = e + P + x
      <3>1. (x >= m /\ p = x - m) \/ (~(x >= m) /\ p = x - m + P) OBVIOUS
      <3> HIDE DEF m, P, x, d, e, p
      <3> QED BY <1>1, <1>2, <2>2, <3>1
    <2>4. s \in Nat /\ t \in 0..(P - 1) /\ n = P * s + t
      <3> HIDE DEF n, P
      <3> QED BY <1>1, <2>1, Division
    <2>5. PICK c \in Nat : P * s + t = P * c + x
      <3>1. CASE n = e + x
        BY <1>2, <2>4, <3>1
      <3>2. CASE n = e + P + x
        <4>1. n = P * (d + 1) + x BY <2>2, <3>2
        <4>2. d + 1 \in Nat BY <1>2
        <4> HIDE DEF n, P, s, t, x, d
        <4> QED BY <2>4, <4>1, <4>2
      <3> QED BY <2>3, <3>1, <3>2
    <2> HIDE DEF P, s, t, x
    <2>6. t = x BY <1>1, <2>4, <2>5, Quotient
    <2> QED BY <2>6 DEF t
  <1>9. Rotated(w, p) = j
    <2>1. Rotated(w, p) = ((w - 1 + p) % P) + 1 BY DEF Rotated
    <2> HIDE DEF p, P
    <2> QED BY <1>8, <2>1
  <1> HIDE DEF b, p
  <1>10. ConditionOf(b) = Conditions[j]
    BY <1>5, <1>7, <1>9, Condition
  <1> QED BY <1>5, <1>7, <1>10

(* Every cell of the plan holds every replicate once. *)
LEMMA CellIsFull ==
    ASSUME NEW c \in Range(Conditions), NEW k \in 1..Cases
    PROVE  Cardinality(Cell(Requests, c, k)) = Repeats
  <1> DEFINE I == 0..(Repeats - 1)
             f == [i \in I |-> Sample(c, i, k)]
             S == Cell(Requests, c, k)
  <1>1. ASSUME NEW i \in I PROVE f[i] \in S
    <2>1. PICK w \in DOMAIN Spans : i \in Span(w)
      <3> DEFINE all == UNION {Span(v) : v \in DOMAIN Spans}
      <3>1. all = 0..(Repeats - 1) BY StudyAssumption
      <3> QED BY <3>1
    <2>2. PICK j \in DOMAIN Conditions : c = Conditions[j] BY DEF Range
    <2>3. PICK b \in 1..Blocks : WaveOf(b) = w /\ ConditionOf(b) = c
      BY <2>1, <2>2, EveryCondition, Shape
    <2>4. Sample(c, i, k) \in Samples(b) BY <2>1, <2>3 DEF Samples
    <2>5. Sample(c, i, k) \in Requests BY <2>4, RequestIsPlanned
    <2> QED BY <2>5 DEF Cell, Sample
  <1>2. ASSUME NEW r \in S PROVE \E i \in I : f[i] = r
    <2>1. r \in Requests /\ r.kind = "grid" /\ r.condition = c /\ r.case = k BY DEF Cell
    <2>2. r.replicate \in I /\ r = Sample(c, r.replicate, k) BY <2>1, GridRequest
    <2> QED BY <2>2
  <1>3. \A i, h \in I : f[i] = f[h] => i = h
    <2>1. \A i \in I : f[i].replicate = i BY DEF Sample
    <2> QED BY <2>1
  <1>4. f \in Bijection(I, S)
    <2>1. f \in [I -> S] BY <1>1
    <2> HIDE DEF I, f, S
    <2>2. f \in Injection(I, S) BY <1>3, <2>1 DEF Injection, IsInjective
    <2>3. f \in Surjection(I, S) BY <1>2, <2>1 DEF Surjection
    <2> QED BY <2>2, <2>3 DEF Bijection
  <1>5. IsFiniteSet(I) /\ Cardinality(I) = Repeats
    <2>1. Repeats \in Nat /\ 0 \in Int /\ Repeats - 1 \in Int BY Shape
    <2> QED BY <2>1, FS_Interval
  <1> HIDE DEF I, S, f
  <1>6. Cardinality(S) = Cardinality(I)
    <2>1. ExistsBijection(I, S) BY <1>4 DEF ExistsBijection
    <2> QED BY <1>5, <2>1, FS_Bijection
  <1> QED BY <1>5, <1>6 DEF S

-----------------------------------------------------------------------------
(* The table of the summary *)

LEMMA CasesAreFinite == IsFiniteSet(1..Cases) /\ Cardinality(1..Cases) = Cases
  <1>1. Cases \in Int /\ 1 \in Int /\ 1 <= Cases /\ Cases - 1 + 1 = Cases BY Shape
  <1> QED BY <1>1, FS_Interval

CasesFold(f, it) ==
    it = [s \in SUBSET (1..Cases) |->
            IF s = {} THEN 0
            ELSE f[CHOOSE x \in s : TRUE] + it[s \ {CHOOSE x \in s : TRUE}]]

LEMMA OverCasesTotal ==
    ASSUME NEW f, \A k \in 1..Cases : f[k] \in Nat
    PROVE  /\ Counted(1..Cases, f) /\ OverCases(f) = Total(1..Cases, f)
           /\ OverCases(f) \in Nat
  <1> DEFINE S == 1..Cases
  <1>1. Counted(S, f) BY CasesAreFinite DEF Counted
  <1>2. ASSUME NEW it PROVE CasesFold(f, it) <=> Adds(S, f, it) BY DEF CasesFold, Adds
  <1>3. \E it : CasesFold(f, it)
    <2> HIDE DEF S
    <2> QED BY <1>1, <1>2, FoldExists
  <1> DEFINE it == CHOOSE it : CasesFold(f, it)
  <1>4. CasesFold(f, it) BY <1>3
  <1>5. OverCases(f) = it[S] BY DEF OverCases, MapThenSumSet, MapThenFoldSet, CasesFold
  <1> HIDE DEF it, S
  <1>6. it[S] = Total(S, f) BY <1>1, <1>2, <1>4, FoldIsTotal
  <1>7. Total(S, f) \in Nat BY <1>1, UnitsFinite
  <1> QED BY <1>1, <1>5, <1>6, <1>7 DEF S

HonestFold(T, it) ==
    it = [s \in SUBSET T |->
            IF s = {} THEN 0
            ELSE (CHOOSE x \in s : TRUE).honest + it[s \ {CHOOSE x \in s : TRUE}]]

HonestIn(T) == [l \in T |-> l.honest]

LEMMA HonestTotal ==
    ASSUME NEW T, IsFiniteSet(T), \A l \in T : l.honest \in Nat
    PROVE  Counted(T, HonestIn(T)) /\ Honest(T) = Total(T, HonestIn(T))
  <1> DEFINE g == HonestIn(T)
  <1>1. Counted(T, g) BY DEF Counted, HonestIn
  <1>2. ASSUME NEW it PROVE HonestFold(T, it) <=> Adds(T, g, it)
    <2>1. ASSUME NEW s \in SUBSET T, s # {}
          PROVE  g[CHOOSE x \in s : TRUE] = (CHOOSE x \in s : TRUE).honest
      BY <2>1 DEF HonestIn
    <2> HIDE DEF g
    <2> QED BY <2>1 DEF HonestFold, Adds
  <1> HIDE DEF g
  <1>3. \E it : HonestFold(T, it) BY <1>1, <1>2, FoldExists
  <1> DEFINE it == CHOOSE it : HonestFold(T, it)
  <1>4. HonestFold(T, it) BY <1>3
  <1>5. Honest(T) = it[T] BY DEF Honest, MapThenSumSet, MapThenFoldSet, HonestFold
  <1> HIDE DEF it
  <1>6. it[T] = Total(T, g) BY <1>1, <1>2, <1>4, FoldIsTotal
  <1> QED BY <1>1, <1>5, <1>6 DEF g

(* n samples make at least n - 1 pairs. *)
PairsOf(n) == (n * (n - 1)) \div 2

LEMMA Pairs ==
    ASSUME NEW n \in Nat
    PROVE  PairsOf(n) \in Nat /\ n <= PairsOf(n) + 1
  <1> DEFINE m == n * (n - 1)
             q == m \div 2
  <1>1. CASE n = 0
    <2>1. m = 0 BY <1>1
    <2> HIDE DEF m
    <2>2. q = 0 BY <2>1
    <2> QED BY <1>1, <2>2 DEF PairsOf, m
  <1>2. CASE n >= 1
    <2>1. m \in Nat /\ (n >= 2 => 2 * (n - 1) <= m)
      <3>1. n - 1 \in Nat BY <1>2
      <3>2. m \in Nat BY <3>1
      <3>3. n >= 2 => (n - 1) * 2 <= (n - 1) * n BY <3>1, Multiples
      <3>4. (n - 1) * n = m BY <3>1
      <3>5. (n - 1) * 2 = 2 * (n - 1) BY <3>1
      <3> QED BY <3>2, <3>3, <3>4, <3>5
    <2> HIDE DEF m
    <2>2. q \in Nat /\ m <= 2 * q + 1
      <3>1. m % 2 \in 0..1 /\ m = 2 * (m \div 2) + (m % 2) /\ m \div 2 \in Nat BY <2>1
      <3> QED BY <2>1, <3>1
    <2> HIDE DEF q
    <2>3. n <= q + 1 BY <1>2, <2>1, <2>2
    <2> QED BY <2>2, <2>3 DEF PairsOf, q, m
  <1> QED BY <1>1, <1>2

(* One line of the table: what it counts, and how its columns relate. *)
Honesty(c, k) == Replies(Cell(Requests, c, k), outcome)
GridReplies == {r \in Replies(Requests, outcome) : r.kind = "grid"}

LEMMA SigmaLineIs ==
    ASSUME NEW c \in Range(Conditions)
    PROVE  LET l == SigmaLine(Requests, c)
           IN  /\ l.condition = c
               /\ l.honest = Cardinality({r \in GridReplies : r.condition = c})
               /\ l.honest \in Nat /\ l.parsed <= l.honest /\ l.freedom <= l.parsed
               /\ l.pairs >= l.honest - Cases
  <1> DEFINE K == 1..Cases
             parsed == [k \in K |-> Cardinality(With(Cell(Requests, c, k), {"parsed"}))]
             honest == [k \in K |-> Cardinality(With(Cell(Requests, c, k), Answered))]
             pairs == [k \in K |-> PairsOf(honest[k])]
             freedom == [k \in K |-> Freedom(parsed[k])]
             l == SigmaLine(Requests, c)
             ones == [k \in K |-> 1]
             more == [k \in K |-> pairs[k] + 1]
  <1>1. /\ l.condition = c /\ l.honest = OverCases(honest) /\ l.parsed = OverCases(parsed)
        /\ l.pairs = OverCases(pairs) /\ l.freedom = OverCases(freedom)
    BY DEF SigmaLine, PairsOf
  <1> HIDE DEF l
  <1>2. ASSUME NEW k \in K PROVE honest[k] \in Nat /\ parsed[k] \in Nat /\ parsed[k] <= honest[k]
    <2> DEFINE A == With(Cell(Requests, c, k), Answered)
               B == With(Cell(Requests, c, k), {"parsed"})
    <2>1. A \in SUBSET Requests /\ B \in SUBSET A
      BY DEF With, Cell, Answered
    <2>2. honest[k] = Cardinality(A) /\ parsed[k] = Cardinality(B) OBVIOUS
    <2> HIDE DEF A, B, honest, parsed
    <2>3. Cardinality(A) \in Nat /\ Cardinality(B) \in Nat BY <2>1, PartsAreFinite
    <2>4. Cardinality(B) <= Cardinality(A) BY <2>1, SmallerPart
    <2> QED BY <2>2, <2>3, <2>4
  <1>3. /\ \A k \in K : pairs[k] = PairsOf(honest[k]) /\ freedom[k] = Freedom(parsed[k])
        /\ \A k \in K : ones[k] = 1 /\ more[k] = pairs[k] + 1
    OBVIOUS
  <1>4. \A k \in K : honest[k] = Cardinality(Honesty(c, k))
    BY DEF With, Replies, Honesty
  <1> HIDE DEF honest, parsed, pairs, freedom, ones, more
  <1>5. \A k \in K : pairs[k] \in Nat /\ honest[k] <= pairs[k] + 1
    BY <1>2, <1>3, Pairs
  <1>6. \A k \in K : freedom[k] \in Nat /\ freedom[k] <= parsed[k]
    BY <1>2, <1>3 DEF Freedom
  <1>7. /\ Counted(K, honest) /\ OverCases(honest) = Total(K, honest) /\ OverCases(honest) \in Nat
        /\ Counted(K, parsed) /\ OverCases(parsed) = Total(K, parsed)
        /\ Counted(K, pairs) /\ OverCases(pairs) = Total(K, pairs) /\ OverCases(pairs) \in Nat
        /\ Counted(K, freedom) /\ OverCases(freedom) = Total(K, freedom)
    BY <1>2, <1>5, <1>6, OverCasesTotal
  <1>8. Counted(K, ones) /\ Counted(K, more)
    BY <1>3, <1>5, <1>7 DEF Counted
  <1>9. IsFiniteSet(K) /\ Cardinality(K) = Cases BY CasesAreFinite
  <1> HIDE DEF K
  <1>10. Total(K, parsed) <= Total(K, honest) BY <1>2, <1>7, TotalMonotone
  <1>11. Total(K, freedom) <= Total(K, parsed) BY <1>6, <1>7, TotalMonotone
  <1>12. Total(K, ones) = Cases
    <2>1. K \in SUBSET K /\ \A k \in K : ones[k] = IF k \in K THEN 1 ELSE 0 BY <1>3
    <2>2. Total(K, ones) = Cardinality(K) BY <1>9, <2>1, TotalOfOnes
    <2> QED BY <1>9, <2>2
  <1>13. Total(K, honest) <= Total(K, pairs) + Cases
    <2>1. Total(K, more) = Total(K, pairs) + Total(K, ones)
      <3>1. \A k \in K : more[k] = pairs[k] + ones[k] BY <1>3
      <3> QED BY <1>7, <1>8, <3>1, TotalAdd
    <2>2. \A k \in K : honest[k] <= more[k] BY <1>3, <1>5
    <2>3. Total(K, honest) <= Total(K, more) BY <1>7, <1>8, <2>2, TotalMonotone
    <2> QED BY <1>12, <2>1, <2>3
  <1>14. Total(K, honest) = Cardinality({r \in GridReplies : r.condition = c})
    <2> DEFINE S == {r \in GridReplies : r.condition = c}
               g == [r \in S |-> 1]
               key == [r \in S |-> r.case]
    <2>1. S \in SUBSET Requests BY DEF GridReplies, Replies
    <2>2. IsFiniteSet(S) BY <2>1, PartsAreFinite
    <2>3. Counted(S, g) BY <2>2 DEF Counted
    <2>4. \A r \in S : key[r] \in K
      <3> SUFFICES ASSUME NEW r \in S PROVE r.case \in K OBVIOUS
      <3>1. r \in Requests /\ r.kind = "grid" BY DEF GridReplies, Replies
      <3> QED BY <3>1, GridRequest DEF K
    <2>5. ASSUME NEW k \in K PROVE honest[k] = Total({r \in S : key[r] = k}, g)
      <3> DEFINE A == {r \in S : key[r] = k}
      <3>1. A = Honesty(c, k)
        BY DEF Honesty, Replies, Cell, GridReplies
      <3>2. A \in SUBSET S /\ \A r \in A : g[r] = IF r \in A THEN 1 ELSE 0 OBVIOUS
      <3> HIDE DEF A, S, g, key
      <3>3. IsFiniteSet(A) BY <2>2, <3>2, FS_Subset
      <3>4. A \in SUBSET A OBVIOUS
      <3>5. Total(A, g) = Cardinality(A) BY <3>2, <3>3, <3>4, TotalOfOnes
      <3>6. honest[k] = Total(A, g) BY <1>4, <3>1, <3>5
      <3> QED BY <3>6 DEF A
    <2>6. \A r \in S : g[r] = IF r \in S THEN 1 ELSE 0 OBVIOUS
    <2> HIDE DEF S, g, key
    <2>7. Total(K, honest) = Total(S, g) BY <1>9, <2>3, <2>4, <2>5, TotalByKey
    <2>8. S \in SUBSET S OBVIOUS
    <2>9. Total(S, g) = Cardinality(S) BY <2>2, <2>6, <2>8, TotalOfOnes
    <2> QED BY <2>7, <2>9 DEF S
  <1> DEFINE h == OverCases(honest)
             p == OverCases(pairs)
  <1>15. h \in Nat /\ p \in Nat /\ h <= p + Cases BY <1>7, <1>13
  <1>16. p >= h - Cases
    <2> HIDE DEF h, p
    <2> QED BY <1>15, Shape
  <1>17. /\ l.condition = c
         /\ l.honest = Cardinality({r \in GridReplies : r.condition = c})
         /\ l.honest \in Nat /\ l.parsed <= l.honest /\ l.freedom <= l.parsed
         /\ l.pairs >= l.honest - Cases
    BY <1>1, <1>7, <1>10, <1>11, <1>14, <1>16
  <1> QED BY <1>17 DEF l

LEMMA ConditionsAreFinite == IsFiniteSet(Range(Conditions))
  BY Shape, RangeIsFinite

(* The pooled table and the seed probe account for every reply. *)
LEMMA TableAddsUp ==
    LET table == {SigmaLine(Requests, c) : c \in Range(Conditions)}
    IN  Honest(table) + Cardinality(Replies(Planned[Blocks + 1], outcome))
           = Cardinality(Replies(Requests, outcome))
  <1> DEFINE C == Range(Conditions)
             m == [c \in C |-> SigmaLine(Requests, c)]
             table == {SigmaLine(Requests, c) : c \in C}
             f == [c \in C |-> m[c].honest]
             g == HonestIn(table)
             R == Replies(Requests, outcome)
             G == GridReplies
             Q == Replies(Planned[Blocks + 1], outcome)
             ones == [r \in G |-> 1]
             key == [r \in G |-> r.condition]
  <1>1. table = {m[c] : c \in C} OBVIOUS
  <1>2. ASSUME NEW c \in C
        PROVE  /\ m[c] = SigmaLine(Requests, c) /\ f[c] = m[c].honest
               /\ m[c].condition = c /\ f[c] \in Nat
               /\ f[c] = Cardinality({r \in G : r.condition = c})
    <2>1. m[c] = SigmaLine(Requests, c) /\ f[c] = m[c].honest OBVIOUS
    <2> HIDE DEF m, f
    <2> QED BY <2>1, SigmaLineIs
  <1>3. \A r \in G : ones[r] = 1 /\ key[r] = r.condition OBVIOUS
  <1>4. IsFiniteSet(C) BY ConditionsAreFinite
  <1>5. /\ R \in SUBSET Requests /\ G \in SUBSET R /\ Q \in SUBSET R
        /\ G \union Q = R /\ G \intersect Q = {}
    <2>1. /\ Planned[Blocks + 1] \in SUBSET Requests
          /\ \A r \in Requests : r \in Planned[Blocks + 1] <=> r.kind = "seed"
          /\ \A r \in Requests : r.kind \in {"grid", "seed"}
      BY SeedRequests
    <2> QED BY <2>1 DEF Replies, GridReplies
  <1>6. \A r \in G : key[r] \in C
    <2> SUFFICES ASSUME NEW r \in G PROVE r.condition \in C OBVIOUS
    <2>1. r \in Requests /\ r.kind = "grid" BY DEF GridReplies, Replies
    <2> QED BY <2>1, GridRequest
  <1> HIDE DEF C, m, f, R, G, Q, ones, key
  <1>7. \A x, y \in C : m[x] = m[y] => x = y BY <1>2
  <1> HIDE DEF table
  <1>8. \A l \in table : l.honest \in Nat
    <2>1. \A c \in C : m[c].honest \in Nat BY <1>2
    <2> SUFFICES ASSUME NEW l \in table PROVE l.honest \in Nat OBVIOUS
    <2>2. PICK c \in C : l = m[c] BY <1>1
    <2> QED BY <2>1, <2>2
  <1>9. \A c \in C : f[c] \in Nat /\ g[m[c]] = f[c]
    <2>1. \A l \in table : g[l] = l.honest BY DEF HonestIn
    <2> HIDE DEF g
    <2> QED BY <1>1, <1>2, <2>1
  <1> HIDE DEF g
  <1>0. \A x \in C : f[x] \in Nat /\ g[m[x]] = f[x] BY <1>9
  <1>10. IsFiniteSet(table) /\ Total(table, g) = Total(C, f)
    <2>1. /\ IsFiniteSet({m[x] : x \in C})
          /\ Total({m[x] : x \in C}, g) = Total(C, f)
      BY <1>0, <1>4, <1>7, TotalMoved
    <2> QED BY <1>1, <2>1
  <1>11. Honest(table) = Total(table, g) BY <1>8, <1>10, HonestTotal DEF g
  <1>12. IsFiniteSet(R) /\ IsFiniteSet(G) /\ IsFiniteSet(Q) /\ Cardinality(G) \in Nat
         /\ Cardinality(Q) \in Nat
    <2>1. G \in SUBSET Requests /\ Q \in SUBSET Requests BY <1>5
    <2> QED BY <1>5, <2>1, PartsAreFinite
  <1>13. Counted(G, ones) BY <1>3, <1>12 DEF Counted
  <1>14. ASSUME NEW c \in C PROVE f[c] = Total({r \in G : key[r] = c}, ones)
    <2> DEFINE A == {r \in G : key[r] = c}
    <2>1. A = {r \in G : r.condition = c} BY <1>3
    <2>2. A \in SUBSET G /\ \A r \in A : ones[r] = IF r \in A THEN 1 ELSE 0 BY <1>3
    <2> HIDE DEF A
    <2>3. IsFiniteSet(A) /\ A \in SUBSET A BY <1>12, <2>2, FS_Subset
    <2>4. Total(A, ones) = Cardinality(A) BY <2>2, <2>3, TotalOfOnes
    <2>5. f[c] = Total(A, ones) BY <1>2, <2>1, <2>4
    <2> QED BY <2>5 DEF A
  <1>15. Total(C, f) = Total(G, ones)
    <2>1. \A a \in C : f[a] = Total({x \in G : key[x] = a}, ones) BY <1>14
    <2>2. ASSUME NEW h, \A a \in C : h[a] = Total({x \in G : key[x] = a}, ones)
          PROVE  Total(C, h) = Total(G, ones)
      BY <1>4, <1>6, <1>13, <2>2, TotalByKey
    <2> QED BY <2>1, <2>2
  <1>16. Total(G, ones) = Cardinality(G)
    <2>1. G \in SUBSET G /\ \A r \in G : ones[r] = IF r \in G THEN 1 ELSE 0 BY <1>3
    <2> QED BY <1>12, <2>1, TotalOfOnes
  <1>17. Cardinality(R) = Cardinality(G) + Cardinality(Q)
    <2>1. Cardinality(G \union Q) = Cardinality(G) + Cardinality(Q) - Cardinality(G \intersect Q)
      BY <1>12, FS_Union
    <2>2. Cardinality(G \intersect Q) = 0 BY <1>5, FS_EmptySet
    <2> QED BY <1>5, <1>12, <2>1, <2>2
  <1>18. Honest(table) + Cardinality(Q) = Cardinality(R)
    BY <1>10, <1>11, <1>15, <1>16, <1>17
  <1> QED BY <1>18 DEF table, C, Q, R

LEMMA SummaryIs == AddsUp(Summary(Requests), outcome)
  <1> DEFINE s == Summary(Requests)
             table == {SigmaLine(Requests, c) : c \in Range(Conditions)}
             seeds == Planned[Blocks + 1]
  <1>1. s.total = Tally(Requests, outcome) BY CompletionIs DEF Summary
  <1>2. s.table = table /\ s.seed = SeedStatus(Requests) BY DEF Summary
  <1>3. Honest(table) + Cardinality(Replies(seeds, outcome)) = Cardinality(Replies(Requests, outcome))
    BY TableAddsUp
  <1>4. \A l \in table : /\ l.parsed <= l.honest /\ l.freedom <= l.parsed
                         /\ l.pairs >= l.honest - Cases
    BY SigmaLineIs
  <1>5. s.seed = "accepted" => Replies(seeds, outcome) = seeds
    <2>1. SeedStatus(Requests) = "accepted" =>
             With({r \in Requests : r.kind = "seed"}, Answered) = seeds
      BY DEF SeedStatus
    <2> QED BY <1>2, <2>1, SeedRequests DEF With, Replies
  <1> HIDE DEF s, table, seeds
  <1>6. Honest(s.table) + Cardinality(Replies(seeds, outcome)) = Cardinality(Replies(Requests, outcome))
    BY <1>2, <1>3
  <1> QED BY <1>1, <1>2, <1>4, <1>5, <1>6 DEF AddsUp, s, seeds

LEMMA SummariseKeeps ==
    ASSUME StudyInv, Summarise
    PROVE  StudyInv'
  <1>1. /\ StudyTypes /\ Progress /\ OnFile /\ Claims(mem) /\ Claims(disk) /\ Smooth /\ Verdicts
        /\ IsManifest(mem) /\ IsManifest(disk) /\ task \in [Requests -> States]
    BY DEF StudyInv, StudyTypes
  <1> DEFINE n == [Synced(mem) EXCEPT !.rows = Completion(Held), !.summary = Summary(Held)]
  <1>2. /\ pc = "summarise" /\ block' = block /\ task' = task /\ outcome' = outcome
        /\ log' = log /\ provider' = provider /\ private' = private /\ public' = public
        /\ mem' = n
        /\ \/ disk' = n /\ pc' = "export"
           \/ disk' \in {disk, n} /\ pc' = "fail"
    BY DEF Summarise, Written, Raise, work, files
  <1>3. /\ Past /\ Gathered /\ block = Blocks + 1 /\ Whole(block) = Requests
        /\ Held = Requests /\ public = Requests /\ private = Requests
        /\ \A r \in Requests : task[r] = "done"
    <2>1. Past /\ Gathered BY <1>2 DEF Past, Gathered
    <2>2. block = Blocks + 1 BY <1>1, <2>1 DEF Progress
    <2>3. Whole(block) = Requests BY <2>2, Wholes
    <2>4. Held = Requests BY <1>2, <2>3 DEF Held
    <2>5. public = Requests /\ private = Requests BY <1>1, <2>1, <2>3 DEF OnFile
    <2>6. \A r \in Requests : task[r] = "done"
      <3>1. Whole(block) = Whole(block - 1) \union Planned[block] BY <1>1, AtBlock
      <3> QED BY <1>1, <2>1, <2>3, <3>1 DEF Progress
    <2> QED BY <2>1, <2>2, <2>3, <2>4, <2>5, <2>6
  <1>4. /\ Alike(mem, Synced(mem)) /\ Synced(mem).attempted = mem.attempted
        /\ Synced(mem).completed = provider.responses
    BY SyncedCounts
  <1>5. /\ IsManifest(n) /\ n.attempted = mem.attempted /\ n.completed = provider.responses
        /\ n.status = mem.status /\ n.dry = mem.dry
        /\ n.rows = Completion(Held) /\ n.summary = Summary(Held)
    <2>1. /\ Counts(n, Synced(mem)) /\ n.rows = Completion(Held) /\ n.summary = Summary(Held)
          /\ n.status = Synced(mem).status /\ n.dry = Synced(mem).dry
      <3> DEFINE m == Synced(mem)
                 x == Completion(Held)
                 y == Summary(Held)
      <3>1. IsManifest(m) BY <1>4 DEF Alike
      <3> DEFINE o == [m EXCEPT !.rows = x]
      <3>3. TellsSummary(o, y, n) /\ TellsRows(m, x, o) BY DEF TellsSummary, TellsRows
      <3> HIDE DEF n, m, x, y, o
      <3>5. Counts(n, m) /\ n.rows = x /\ n.summary = y /\ n.status = m.status /\ n.dry = m.dry
        BY <3>1, <3>3, SummaryTold
      <3> QED BY <3>5 DEF m, x, y
    <2> HIDE DEF n
    <2> QED BY <1>4, <2>1 DEF Alike, Counts
  <1> HIDE DEF n
  <1>6. mem.status = "running" /\ disk.status = "running" BY <1>1, <1>2 DEF Verdicts
  <1>7. n.rows = Tally(Whole(block), outcome) BY <1>3, <1>5, CompletionIs
  <1>8. AddsUp(n.summary, outcome) BY <1>3, <1>5, SummaryIs
  <1>9. Calm BY <1>2 DEF Calm
  <1>10. Accounts' /\ Smooth' /\ IsManifest(disk')
    <2>1. Calm' => disk' = mem' BY <1>2 DEF Calm
    <2> QED BY <1>2, <1>5, <1>9, <2>1, AccountsStay
  <1>11. StudyTypes' BY <1>1, <1>2, <1>5, <1>10 DEF StudyTypes, Places
  <1>12. mem'.status = "running" /\ disk'.status = "running" BY <1>2, <1>5, <1>6
  <1>13. Verdicts' BY <1>2, <1>12 DEF Verdicts
  <1>14. pc' \in {"export", "fail"} BY <1>2
  <1>15. Progress' BY <1>1, <1>2, <1>3, <1>14 DEF Progress
  <1>16. OnFile' BY <1>1, <1>2, <1>3, <1>14 DEF OnFile
  <1>17. Told' BY <1>2, <1>3, <1>14, AtBlock, <1>1 DEF Told
  <1>18. Claims(mem)' /\ Claims(disk)' BY <1>1, <1>2, <1>7, <1>17 DEF Claims
  <1>19. Sealed'
    <2>1. TriedIn(task) = Requests /\ RepliedIn(task, outcome) = Replies(Requests, outcome)
      BY <1>3 DEF TriedIn, RepliedIn, Replies
    <2>2. /\ mem.attempted = Cardinality(TriedIn(task))
          /\ provider.responses = Cardinality(RepliedIn(task, outcome))
      BY <1>1, <1>2 DEF Smooth
    <2>3. Complete(mem)'
      BY <1>2, <1>3, <1>5, <1>8, <2>1, <2>2 DEF Complete
    <2> QED BY <1>12, <2>3 DEF Sealed
  <1> QED BY <1>10, <1>11, <1>13, <1>15, <1>16, <1>18, <1>19 DEF StudyInv

LEMMA StudyStays ==
    ASSUME StudyInv, UNCHANGED study
    PROVE  StudyInv'
  <1>1. /\ pc' = pc /\ block' = block /\ task' = task /\ outcome' = outcome /\ log' = log
        /\ provider' = provider /\ private' = private /\ public' = public
        /\ mem' = mem /\ disk' = disk
    BY DEF study, files
  <1>2. (Past' <=> Past) /\ (Gathered' <=> Gathered) /\ (Told' <=> Told)
    BY <1>1 DEF Past, Gathered, Told
  <1>3. StudyTypes' BY <1>1 DEF StudyInv, StudyTypes
  <1>4. Progress' BY <1>1, <1>2 DEF StudyInv, Progress
  <1>5. OnFile' BY <1>1, <1>2 DEF StudyInv, OnFile
  <1>6. Claims(mem)' /\ Claims(disk)' BY <1>1, <1>2 DEF StudyInv, Claims
  <1>7. Accounts' BY <1>1 DEF StudyInv, Accounts
  <1>8. Smooth' BY <1>1 DEF StudyInv, Smooth
  <1>9. Verdicts' BY <1>1 DEF StudyInv, Verdicts
  <1>10. Sealed' BY <1>1 DEF StudyInv, Sealed, Complete
  <1> QED BY <1>3, <1>4, <1>5, <1>6, <1>7, <1>8, <1>9, <1>10 DEF StudyInv

LEMMA StudyInvariance == StudySpec => []StudyInv
  <1>1. StudyInit => StudyInv BY StudyStarts
  <1>2. StudyInv /\ [StudyNext]_study => StudyInv'
    <2> SUFFICES ASSUME StudyInv, [StudyNext]_study PROVE StudyInv' OBVIOUS
    <2>1. CASE Coroutine
      BY <2>1, SendKeeps, ReceiveKeeps DEF Coroutine
    <2>2. CASE Study
      BY <2>2, GuardKeeps, StartBlockKeeps, GatherReturnsKeeps, AppendPrivateKeeps,
         AppendPublicKeeps, CheckpointKeeps, LastCheckpointKeeps, ClosedKeeps,
         SummariseKeeps, ExportKeeps, FinishKeeps, FailKeeps
      DEF Study
    <2>3. CASE Interrupt
      BY <2>3, InterruptKeeps
    <2>4. CASE Kill
      BY <2>4, KillKeeps
    <2>5. CASE Terminated
      BY <2>5, StudyStays DEF Terminated
    <2>6. CASE UNCHANGED study
      BY <2>6, StudyStays
    <2> QED BY <2>1, <2>2, <2>3, <2>4, <2>5, <2>6 DEF StudyNext
  <1> QED BY <1>1, <1>2, PTL DEF StudySpec

-----------------------------------------------------------------------------
(* The theorems of the endpoint study *)

(* Whatever raises, is interrupted or dies, the files and the manifest lose *)
(* at most the block under way, and the rows the manifest claims are those  *)
(* of whole blocks that both files hold: for every schedule.                *)
THEOREM OneBlockIsLost == StudySpec => []LossIsOneBlock
  <1>1. StudyInv => LossIsOneBlock
    <2> SUFFICES ASSUME StudyInv PROVE LossIsOneBlock OBVIOUS
    <2>1. StudyTypes /\ OnFile /\ Claims(disk) BY DEF StudyInv
    <2>2. /\ Whole(block - 1) \subseteq public /\ public \subseteq private
          /\ private \subseteq Whole(block)
      BY <2>1 DEF OnFile
    <2>3. block \in 0..(Blocks + 1) /\ block - 1 \in 0..(Blocks + 1)
      BY <2>1, Shape DEF StudyTypes
    <2>4. \E m \in {block - 1, block} :
             Whole(m) \subseteq public /\ disk.rows = Tally(Whole(m), outcome)
      BY <2>1, <2>2 DEF Claims, Told
    <2>5. \E m \in 0..(Blocks + 1) :
             Whole(m) \subseteq public /\ disk.rows = Completion(Whole(m))
      BY <2>3, <2>4, CompletionIs
    <2> QED BY <2>2, <2>5 DEF LossIsOneBlock
  <1> QED BY <1>1, StudyInvariance, PTL

(* The manifest never claims an exchange that did not take place; once it   *)
(* has a verdict it counts every response of the provider, is not behind    *)
(* the rows on file, and no coroutine is left.                              *)
THEOREM VerdictsAreQuiet == StudySpec => []VerdictIsQuiet
  <1>1. StudyInv => VerdictIsQuiet
    <2> SUFFICES ASSUME StudyInv PROVE VerdictIsQuiet OBVIOUS
    <2>1. /\ StudyTypes /\ Progress /\ Claims(disk) /\ Accounts /\ Verdicts
      BY DEF StudyInv
    <2>2. /\ mem.attempted \in Nat /\ mem.completed \in Nat
          /\ provider.requests \in Nat /\ provider.responses \in Nat
          /\ provider.requests <= mem.attempted /\ mem.completed <= provider.responses
      BY SyncedCounts
    <2> DEFINE tried == Cardinality(TriedIn(task))
               replied == Cardinality(RepliedIn(task, outcome))
               noted == Cardinality(Noted(log))
    <2>3. tried \in Nat /\ replied \in Nat /\ noted \in Nat BY Groups
    <2>4. /\ tried <= provider.requests /\ replied <= provider.responses
          /\ mem.attempted <= noted /\ disk.completed <= disk.attempted
      BY <2>1 DEF Accounts
    <2>5. Events("LLMRequestRecorded", log) = noted BY EventsAre
    <2>6. ASSUME disk.status # "running"
          PROVE  /\ \A r \in Requests : task[r] \notin {"waiting", "asked"}
                 /\ provider.requests <= disk.attempted /\ disk.attempted <= noted
                 /\ disk.completed = provider.responses
                 /\ disk.attempted >= disk.rows.attempted
                 /\ disk.completed >= disk.rows.completed
      <3>1. pc = "over" /\ disk = mem /\ mem.completed = provider.responses
        BY <2>1, <2>6 DEF Verdicts
      <3>2. \A r \in Requests : task[r] \notin {"waiting", "asked"}
        BY <2>1, <3>1 DEF Progress
      <3>3. PICK W \in SUBSET Requests :
               disk.rows = Tally(W, outcome) /\ \A r \in W : task[r] = "done"
        <4>1. /\ Whole(block) = Whole(block - 1) \union Planned[block]
              /\ Whole(block) \in SUBSET Requests /\ Whole(block - 1) \in SUBSET Requests
          BY <2>1, AtBlock
        <4>2. \A r \in Whole(block - 1) : task[r] = "done" BY <2>1 DEF Progress
        <4>3. Told => \A r \in Whole(block) : task[r] = "done" BY <4>1, <4>2 DEF Told
        <4> QED BY <2>1, <4>1, <4>2, <4>3 DEF Claims
      <3>4. W \in SUBSET TriedIn(task) /\ Replies(W, outcome) \in SUBSET RepliedIn(task, outcome)
        BY <3>3 DEF TriedIn, RepliedIn, Replies
      <3>5. Cardinality(W) <= tried /\ Cardinality(Replies(W, outcome)) <= replied
        BY <3>4, Groups, SmallerPart
      <3>6. Cardinality(W) \in Nat /\ Cardinality(Replies(W, outcome)) \in Nat
        <4>1. Replies(W, outcome) \in SUBSET Requests BY DEF Replies
        <4> QED BY <4>1, PartsAreFinite
      <3>7. disk.rows.attempted = Cardinality(W)
            /\ disk.rows.completed = Cardinality(Replies(W, outcome))
        BY <3>3 DEF Tally
      <3> HIDE DEF tried, replied, noted
      <3> QED BY <2>2, <2>3, <2>4, <3>1, <3>2, <3>5, <3>6, <3>7
    <2>7. provider.requests <= noted
      <3> HIDE DEF noted
      <3> QED BY <2>2, <2>3, <2>4
    <2> HIDE DEF tried, replied, noted
    <2> QED BY <2>4, <2>5, <2>6, <2>7 DEF VerdictIsQuiet
  <1> QED BY <1>1, StudyInvariance, PTL

(* Between undisturbed blocks the two accounts of the manifest agree, and a *)
(* finished study has every planned sample once in every cell, in a summary *)
(* whose table adds up to both.                                             *)
THEOREM SummariesAddUp == StudySpec => []SummaryAddsUp
  <1>1. StudyInv => SummaryAddsUp
    <2> SUFFICES ASSUME StudyInv PROVE SummaryAddsUp OBVIOUS
    <2>1. StudyTypes /\ Progress /\ Claims(disk) /\ Smooth /\ Sealed BY DEF StudyInv
    <2>2. ASSUME pc = "block"
          PROVE  disk.attempted = disk.rows.attempted /\ disk.completed = disk.rows.completed
      <3> DEFINE W == Whole(block - 1)
      <3>1. disk.rows = Tally(W, outcome) BY <2>1, <2>2 DEF Claims, Told
      <3>2. /\ disk.attempted = Cardinality(TriedIn(task))
            /\ disk.completed = Cardinality(RepliedIn(task, outcome))
        BY <2>1, <2>2 DEF Smooth
      <3>3. /\ Whole(block) = W \union Planned[block] /\ W \in SUBSET Requests
        BY <2>1, AtBlock
      <3>4. /\ \A r \in W : task[r] = "done"
            /\ \A r \in Requests \ W : task[r] = "planned"
        BY <2>1, <2>2, <3>3 DEF Progress
      <3> HIDE DEF W
      <3>5. TriedIn(task) = W /\ RepliedIn(task, outcome) = Replies(W, outcome)
        BY <3>3, <3>4 DEF TriedIn, RepliedIn, Replies
      <3> QED BY <3>1, <3>2, <3>5 DEF Tally
    <2>3. ASSUME disk.status = "finished", ~disk.dry
          PROVE  LET s == disk.summary
                     seeds == Planned[Blocks + 1]
                 IN  /\ public = private /\ public = Requests
                     /\ \A c \in Range(Conditions), k \in 1..Cases :
                            Cardinality(Cell(public, c, k)) = Repeats
                     /\ s.total = Completion(public)
                     /\ disk.attempted = s.total.attempted /\ disk.completed = s.total.completed
                     /\ MapThenSumSet(LAMBDA l : l.honest, s.table)
                           + Cardinality(With(seeds, Answered)) = disk.completed
                     /\ \A l \in s.table :
                           /\ l.parsed <= l.honest /\ l.freedom <= l.parsed
                           /\ l.pairs >= l.honest - Cases
                     /\ s.seed = "accepted" => With(seeds, Answered) = seeds
      <3> DEFINE s == disk.summary
                 seeds == Planned[Blocks + 1]
      <3>1. /\ public = Requests /\ private = Requests
            /\ disk.attempted = Cardinality(Requests)
            /\ disk.completed = Cardinality(Replies(Requests, outcome))
            /\ AddsUp(s, outcome)
        BY <2>1, <2>3 DEF Sealed, Complete
      <3>2. With(seeds, Answered) = Replies(seeds, outcome) BY DEF With, Replies
      <3>3. Honest(s.table) = MapThenSumSet(LAMBDA l : l.honest, s.table) BY DEF Honest
      <3>4. /\ s.total = Tally(Requests, outcome)
            /\ Honest(s.table) + Cardinality(Replies(seeds, outcome))
                  = Cardinality(Replies(Requests, outcome))
            /\ \A l \in s.table :
                  /\ l.parsed <= l.honest /\ l.freedom <= l.parsed
                  /\ l.pairs >= l.honest - Cases
            /\ s.seed = "accepted" => Replies(seeds, outcome) = seeds
        BY <3>1 DEF AddsUp
      <3>5. s.total = Completion(public) BY <3>1, <3>4, CompletionIs
      <3>6. disk.attempted = s.total.attempted /\ disk.completed = s.total.completed
        BY <3>1, <3>4 DEF Tally
      <3>7. MapThenSumSet(LAMBDA l : l.honest, s.table) + Cardinality(With(seeds, Answered))
               = disk.completed
        BY <3>1, <3>2, <3>3, <3>4
      <3>8. \A c \in Range(Conditions), k \in 1..Cases : Cardinality(Cell(public, c, k)) = Repeats
        BY <3>1, CellIsFull
      <3> QED BY <3>1, <3>2, <3>4, <3>5, <3>6, <3>7, <3>8
    <2> QED BY <2>2, <2>3 DEF SummaryAddsUp
  <1> QED BY <1>1, StudyInvariance, PTL

=============================================================================
