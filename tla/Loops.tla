------------------------------- MODULE Loops -------------------------------
(***************************************************************************)
(* What the proofs about loops rest on.  The loops of the scheduler's      *)
(* queue and of the daemon's cache are folds in the model.  Induction is   *)
(* stated with sets here, and so follows from the fact that the natural    *)
(* numbers are well founded; with it a fold is shown to go through a       *)
(* sequence of values, one for each element.                               *)
(***************************************************************************)
EXTENDS Integers, FiniteSetsExt, FiniteSetTheorems, TLAPS

-----------------------------------------------------------------------------
(* Numbers *)

\* A nonempty set of numbers has a least one.
LEMMA Least ==
    ASSUME NEW T, T \subseteq Nat, T # {}
    PROVE  \E x \in T : \A y \in T : x <= y
  <1> DEFINE R == {ss \in Nat \X Nat : ss[1] < ss[2]}
  <1>1. IsWellFoundedOn(R, Nat)
    BY NatLessThanWellFounded DEF OpToRel
  <1>2. PICK x \in T : \A y \in T : ~(<<y, x>> \in R)
    <2> HIDE DEF R
    <2> QED BY <1>1, WFMin
  <1>3. ASSUME NEW y \in T PROVE x <= y
    <2>1. x \in Nat /\ y \in Nat
      OBVIOUS
    <2>2. y < x => <<y, x>> \in R
      BY <2>1
    <2> QED BY <1>2, <2>1, <2>2
  <1> QED BY <1>3

\* Induction: what holds of 0, and of n + 1 if it holds of n, holds of every number.
LEMMA Induct ==
    ASSUME NEW S, 0 \in S, \A n \in Nat : n \in S => n + 1 \in S
    PROVE  \A n \in Nat : n \in S
  <1> SUFFICES ASSUME NEW m \in Nat, m \notin S PROVE FALSE
    OBVIOUS
  <1> DEFINE T == Nat \ S
  <1>1. PICK x \in T : \A y \in T : x <= y
    <2>1. T # {} /\ T \subseteq Nat
      OBVIOUS
    <2> HIDE DEF T
    <2> QED BY <2>1, Least
  <1>2. x - 1 \in Nat /\ x - 1 \notin T
    BY <1>1
  <1> QED BY <1>2

\* The same, up to a bound.
LEMMA InductTo ==
    ASSUME NEW N \in Nat, NEW S, 0 \in S, \A n \in 1 .. N : n - 1 \in S => n \in S
    PROVE  \A n \in 0 .. N : n \in S
  <1> DEFINE T == {n \in Nat : n <= N => n \in S}
  <1>1. 0 \in T
    OBVIOUS
  <1>2. ASSUME NEW n \in Nat, n \in T PROVE n + 1 \in T
    <2>1. CASE n + 1 <= N
      <3>1. n + 1 \in 1 .. N /\ (n + 1) - 1 = n /\ n \in S
        BY <1>2, <2>1
      <3> QED BY <3>1
    <2>2. CASE ~(n + 1 <= N)
      BY <2>2
    <2> QED BY <2>1, <2>2
  <1>3. \A n \in Nat : n \in T
    <2> HIDE DEF T
    <2> QED BY <1>1, <1>2, Induct
  <1> QED BY <1>3

\* The largest number of a set that ends with it.
LEMMA MaxOf ==
    ASSUME NEW s, s \subseteq Int, NEW m \in s, \A y \in s : y <= m
    PROVE  Max(s) = m
  <1>1. m \in s /\ \A y \in s : m >= y
    OBVIOUS
  <1>2. \A x \in s : (\A y \in s : x >= y) => x = m
    OBVIOUS
  <1> QED BY <1>1, <1>2 DEF Max

\* A nonempty set of positions has a largest one.
LEMMA MaxIn ==
    ASSUME NEW N \in Nat, NEW s, s \subseteq 1 .. N, s # {}
    PROVE  Max(s) \in s /\ \A y \in s : y <= Max(s)
  <1> DEFINE T == {n \in Nat : \A y \in s : y <= n}
  <1>1. N \in T /\ T \subseteq Nat
    OBVIOUS
  <1>2. PICK m \in T : \A y \in T : m <= y
    <2> HIDE DEF T
    <2> QED BY <1>1, Least
  <1>3. m \in s
    <2> SUFFICES ASSUME m \notin s PROVE FALSE
      OBVIOUS
    <2>1. PICK z \in s : TRUE
      OBVIOUS
    <2>2. z \in 1 .. N /\ z <= m /\ m \in Nat
      OBVIOUS
    <2>3. \A y \in s : y \in Int /\ y <= m /\ y # m
      OBVIOUS
    <2>4. m - 1 \in Nat /\ \A y \in s : y <= m - 1
      BY <2>2, <2>3
    <2>5. ~(m <= m - 1)
      BY <2>2
    <2> QED BY <1>2, <2>4, <2>5
  <1>4. \A y \in s : y <= m
    OBVIOUS
  <1> HIDE DEF T
  <1>5. s \subseteq Int
    OBVIOUS
  <1>6. Max(s) = m
    BY <1>3, <1>4, <1>5, MaxOf
  <1> QED BY <1>3, <1>4, <1>6

\* The positions of a fold.
LEMMA Positions ==
    ASSUME NEW N \in Nat, NEW i \in 1 .. N
    PROVE  /\ 1 .. i \in SUBSET (1 .. N) /\ 1 .. i # {} /\ Max(1 .. i) = i
           /\ (1 .. i) \ {i} = 1 .. i - 1 /\ 1 .. i - 1 \in SUBSET (1 .. N)
  <1>1. 1 .. i \subseteq Int /\ i \in 1 .. i /\ \A y \in 1 .. i : y <= i
    OBVIOUS
  <1>2. Max(1 .. i) = i
    BY <1>1, MaxOf
  <1> QED BY <1>2

-----------------------------------------------------------------------------
(* Folds *)

\* A table for the sets of positions up to n: what the fold over the positions of s is.
IsTable(g, T, n, base, F) ==
    /\ g \in [SUBSET (1 .. n) -> T]
    /\ g[{}] = base
    /\ \A s \in SUBSET (1 .. n) : s # {} => g[s] = F[<<g[s \ {Max(s)}], Max(s)>>]

\* There is such a table, whatever function F takes the steps.
LEMMA FoldTable ==
    ASSUME NEW T, NEW N \in Nat, NEW base \in T, NEW F \in [T \X (1 .. N) -> T]
    PROVE  \E g : IsTable(g, T, N, base, F)
  <1> DEFINE S == {n \in Nat : \E g : IsTable(g, T, n, base, F)}
  <1>1. 0 \in S
    <2> DEFINE g == [s \in SUBSET (1 .. 0) |-> base]
    <2>1. 1 .. 0 = {} /\ SUBSET (1 .. 0) = {{}}
      OBVIOUS
    <2>2. g \in [SUBSET (1 .. 0) -> T] /\ g[{}] = base
      BY <2>1
    <2>3. \A s \in SUBSET (1 .. 0) : s = {}
      BY <2>1
    <2> HIDE DEF g
    <2>4. IsTable(g, T, 0, base, F)
      BY <2>2, <2>3 DEF IsTable
    <2> QED BY <2>4
  <1>2. ASSUME NEW n \in 1 .. N, n - 1 \in S PROVE n \in S
    <2>1. PICK h : IsTable(h, T, n - 1, base, F)
      BY <1>2
    <2> DEFINE g == [s \in SUBSET (1 .. n) |-> IF n \in s THEN F[<<h[s \ {n}], n>>] ELSE h[s]]
    <2>2. ASSUME NEW s \in SUBSET (1 .. n) PROVE s \ {n} \in SUBSET (1 .. n - 1)
      OBVIOUS
    <2>3. h \in [SUBSET (1 .. n - 1) -> T]
      BY <2>1 DEF IsTable
    <2>4. g \in [SUBSET (1 .. n) -> T]
      <3> SUFFICES ASSUME NEW s \in SUBSET (1 .. n)
                   PROVE  (IF n \in s THEN F[<<h[s \ {n}], n>>] ELSE h[s]) \in T
        OBVIOUS
      <3>1. h[s \ {n}] \in T
        BY <2>2, <2>3
      <3>2. n \notin s => s \ {n} = s
        OBVIOUS
      <3>3. <<h[s \ {n}], n>> \in T \X (1 .. N)
        BY <3>1
      <3> QED BY <3>1, <3>2, <3>3
    <2>5. g[{}] = base
      <3>1. h[{}] = base
        BY <2>1 DEF IsTable
      <3> QED BY <3>1
    <2>6. ASSUME NEW s \in SUBSET (1 .. n), s # {}
          PROVE  g[s] = F[<<g[s \ {Max(s)}], Max(s)>>]
      <3>1. CASE n \in s
        <4>1. Max(s) = n
          <5>1. s \subseteq Int /\ \A y \in s : y <= n
            OBVIOUS
          <5> QED BY <3>1, <5>1, MaxOf
        <4>2. g[s \ {n}] = h[s \ {n}]
          OBVIOUS
        <4> QED BY <3>1, <4>1, <4>2
      <3>2. CASE n \notin s
        <4>1. s \in SUBSET (1 .. n - 1)
          BY <2>2, <3>2
        <4>2. h[s] = F[<<h[s \ {Max(s)}], Max(s)>>]
          BY <2>1, <2>6, <4>1 DEF IsTable
        <4>3. g[s \ {Max(s)}] = h[s \ {Max(s)}] /\ g[s] = h[s]
          BY <3>2
        <4> QED BY <4>2, <4>3
      <3> QED BY <3>1, <3>2
    <2> HIDE DEF g
    <2>7. IsTable(g, T, n, base, F)
      BY <2>4, <2>5, <2>6 DEF IsTable
    <2> QED BY <2>7
  <1> HIDE DEF S
  <1>3. \A n \in 0 .. N : n \in S
    BY <1>1, <1>2, InductTo
  <1>4. N \in S
    BY <1>3
  <1> QED BY <1>4 DEF S

-----------------------------------------------------------------------------
(* Sums *)

\* As many elements for each member of s as its weight says.
Units(w, s) == {p \in s \X Nat : p[2] < w[p[1]]}

\* The member with which a fold over a set goes on.
PickOf(s) == CHOOSE x \in s : TRUE

\* The elements of s are those of one member and of the others.
LEMMA UnitsSplit ==
    ASSUME NEW D, NEW w \in [D -> Nat], NEW s \in SUBSET D, NEW x \in s, IsFiniteSet(Units(w, s \ {x}))
    PROVE  /\ IsFiniteSet(Units(w, s)) /\ Cardinality(Units(w, s)) \in Nat
           /\ Cardinality(Units(w, s \ {x})) \in Nat
           /\ Cardinality(Units(w, s)) = Cardinality(Units(w, s \ {x})) + w[x]
  <1> DEFINE rest == Units(w, s \ {x})
             own == 0 .. w[x] - 1
             part == {x} \X own
  <1>1. w[x] \in Nat
    OBVIOUS
  <1>2. IsFiniteSet(own) /\ Cardinality(own) = w[x]
    <2>1. 0 \in Int /\ w[x] - 1 \in Int
      BY <1>1
    <2>2. IsFiniteSet(own) /\ Cardinality(own) = IF 0 > w[x] - 1 THEN 0 ELSE (w[x] - 1) - 0 + 1
      BY <2>1, FS_Interval
    <2> QED BY <1>1, <2>2
  <1>3. IsFiniteSet({x}) /\ Cardinality({x}) = 1
    BY FS_Singleton
  <1>4. IsFiniteSet(part) /\ Cardinality(part) = w[x]
    <2> HIDE DEF own
    <2>1. IsFiniteSet(part) /\ Cardinality(part) = Cardinality({x}) * Cardinality(own)
      BY <1>2, <1>3, FS_Product
    <2>2. 1 * w[x] = w[x]
      BY <1>1
    <2> QED BY <1>2, <1>3, <2>1, <2>2
  <1>5. \A k \in s : w[k] \in Nat
    OBVIOUS
  <1>6. Units(w, s) = rest \cup part
    <2>1. ASSUME NEW p \in Units(w, s) PROVE p \in rest \cup part
      <3>1. p \in s \X Nat /\ p[2] < w[p[1]]
        BY DEF Units
      <3>2. CASE p[1] = x
        <4>1. p[2] \in own /\ p = <<p[1], p[2]>>
          BY <1>1, <3>1, <3>2
        <4> QED BY <3>2, <4>1
      <3>3. CASE p[1] # x
        BY <3>1, <3>3 DEF Units
      <3> QED BY <3>2, <3>3
    <2>2. ASSUME NEW p \in rest PROVE p \in Units(w, s)
      BY DEF Units
    <2>3. ASSUME NEW p \in part PROVE p \in Units(w, s)
      <3>1. p[1] = x /\ p[2] \in own /\ p = <<p[1], p[2]>>
        OBVIOUS
      <3>2. p[2] \in Nat /\ p[2] < w[x]
        BY <1>1, <3>1
      <3> QED BY <3>1, <3>2 DEF Units
    <2> HIDE DEF rest, part
    <2> QED BY <2>1, <2>2, <2>3
  <1>7. rest \cap part = {}
    BY DEF Units
  <1> HIDE DEF part, rest
  <1>8. /\ IsFiniteSet(rest \cup part)
        /\ Cardinality(rest \cup part) = Cardinality(rest) + Cardinality(part) - Cardinality(rest \cap part)
    BY <1>4, FS_Union DEF rest
  <1>9. Cardinality(rest) \in Nat /\ Cardinality(rest \cap part) = 0
    BY <1>7, FS_CardinalityType, FS_EmptySet DEF rest
  <1> QED BY <1>1, <1>4, <1>6, <1>8, <1>9 DEF rest

LEMMA UnitsFinite ==
    ASSUME NEW D, IsFiniteSet(D), NEW w \in [D -> Nat]
    PROVE  \A s \in SUBSET D : IsFiniteSet(Units(w, s))
  <1> DEFINE S == {n \in Nat : \A s \in SUBSET D : Cardinality(s) = n => IsFiniteSet(Units(w, s))}
  <1>1. \A s \in SUBSET D : IsFiniteSet(s) /\ Cardinality(s) \in Nat
    BY FS_Subset, FS_CardinalityType
  <1>2. 0 \in S
    <2>1. ASSUME NEW s \in SUBSET D, Cardinality(s) = 0 PROVE IsFiniteSet(Units(w, s))
      <3>1. s = {}
        BY <1>1, <2>1, FS_EmptySet
      <3>2. Units(w, s) = {}
        BY <3>1 DEF Units
      <3> QED BY <3>2, FS_EmptySet
    <2> QED BY <2>1
  <1>3. ASSUME NEW n \in Nat, n \in S PROVE n + 1 \in S
    <2>1. ASSUME NEW s \in SUBSET D, Cardinality(s) = n + 1 PROVE IsFiniteSet(Units(w, s))
      <3>1. s # {}
        BY <2>1, FS_EmptySet
      <3>2. PICK x \in s : TRUE
        BY <3>1
      <3>3. Cardinality(s \ {x}) = Cardinality(s) - 1
        BY <1>1, FS_RemoveElement
      <3>4. Cardinality(s \ {x}) = n /\ s \ {x} \in SUBSET D
        BY <2>1, <3>3
      <3>5. IsFiniteSet(Units(w, s \ {x}))
        BY <1>3, <3>4
      <3> QED BY <3>5, UnitsSplit
    <2> QED BY <2>1
  <1> HIDE DEF S
  <1>4. \A n \in Nat : n \in S
    BY <1>2, <1>3, Induct
  <1> QED BY <1>1, <1>4 DEF S

\* The table that a fold over D makes: the sums of the weights.
IsSum(h, D, w) ==
    h = [s \in SUBSET D |-> IF s = {} THEN 0 ELSE h[s \ {PickOf(s)}] + w[PickOf(s)]]

\* There is one, and it counts the units.
LEMMA SumExists ==
    ASSUME NEW D, IsFiniteSet(D), NEW w \in [D -> Nat]
    PROVE  \E h : IsSum(h, D, w)
  <1> DEFINE h == [s \in SUBSET D |-> Cardinality(Units(w, s))]
  <1>1. h[{}] = 0
    <2>1. Units(w, {}) = {}
      BY DEF Units
    <2> QED BY <2>1, FS_EmptySet
  <1>2. ASSUME NEW s \in SUBSET D, s # {} PROVE h[s] = h[s \ {PickOf(s)}] + w[PickOf(s)]
    <2> DEFINE x == PickOf(s)
    <2>1. x \in s
      BY <1>2 DEF PickOf
    <2> HIDE DEF x
    <2>2. IsFiniteSet(Units(w, s \ {x}))
      BY UnitsFinite
    <2>3. Cardinality(Units(w, s)) = Cardinality(Units(w, s \ {x})) + w[x]
      BY <2>1, <2>2, UnitsSplit
    <2>4. h[s] = h[s \ {x}] + w[x]
      BY <2>3
    <2> QED BY <2>4 DEF x
  <1>3. h = [s \in SUBSET D |-> h[s]]
    OBVIOUS
  <1> HIDE DEF h
  <1>4. IsSum(h, D, w)
    BY <1>1, <1>2, <1>3 DEF IsSum
  <1> QED BY <1>4

LEMMA SumIs ==
    ASSUME NEW D, IsFiniteSet(D), NEW w \in [D -> Nat], NEW h, IsSum(h, D, w)
    PROVE  h[D] = Cardinality(Units(w, D))
  <1> DEFINE S == {n \in Nat : \A s \in SUBSET D : Cardinality(s) = n => h[s] = Cardinality(Units(w, s))}
  <1>1. \A s \in SUBSET D : IsFiniteSet(s) /\ Cardinality(s) \in Nat
    BY FS_Subset, FS_CardinalityType
  <1>2. 0 \in S
    <2>1. ASSUME NEW s \in SUBSET D, Cardinality(s) = 0 PROVE h[s] = Cardinality(Units(w, s))
      <3>1. s = {}
        BY <1>1, <2>1, FS_EmptySet
      <3>2. Units(w, s) = {}
        BY <3>1 DEF Units
      <3>3. h[s] = 0
        BY <3>1 DEF IsSum
      <3> QED BY <3>2, <3>3, FS_EmptySet
    <2> QED BY <2>1
  <1>3. ASSUME NEW n \in Nat, n \in S PROVE n + 1 \in S
    <2>1. ASSUME NEW s \in SUBSET D, Cardinality(s) = n + 1 PROVE h[s] = Cardinality(Units(w, s))
      <3>1. s # {}
        BY <2>1, FS_EmptySet
      <3> DEFINE x == PickOf(s)
      <3>2. x \in s
        BY <3>1 DEF PickOf
      <3>3. h[s] = h[s \ {x}] + w[x]
        BY <3>1 DEF IsSum
      <3> HIDE DEF x
      <3>4. Cardinality(s \ {x}) = Cardinality(s) - 1
        BY <1>1, <3>2, FS_RemoveElement
      <3>5. Cardinality(s \ {x}) = n /\ s \ {x} \in SUBSET D
        BY <2>1, <3>4
      <3>6. h[s \ {x}] = Cardinality(Units(w, s \ {x}))
        BY <1>3, <3>5
      <3>7. IsFiniteSet(Units(w, s \ {x}))
        BY UnitsFinite
      <3>8. Cardinality(Units(w, s)) = Cardinality(Units(w, s \ {x})) + w[x]
        BY <3>2, <3>7, UnitsSplit
      <3> QED BY <3>3, <3>6, <3>8
    <2> QED BY <2>1
  <1> HIDE DEF S
  <1>4. \A n \in Nat : n \in S
    BY <1>2, <1>3, Induct
  <1>5. Cardinality(D) \in S
    BY <1>4, FS_CardinalityType
  <1> QED BY <1>5 DEF S
=============================================================================
