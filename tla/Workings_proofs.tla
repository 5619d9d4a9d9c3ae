--------------------------- MODULE Workings_proofs ---------------------------
(***************************************************************************)
(* Proofs about the money of a household, for any people, homes, parts of  *)
(* homes, payers, prices and costs: what the headline's two figures and    *)
(* the one total have to do with each other, and what a purchase takes.    *)
(***************************************************************************)
EXTENDS HousingCost, FiniteSetTheorems, NaturalsInduction, WellFoundedInduction, TLAPS

-----------------------------------------------------------------------------
(***************************************************************************)
(* Induction, on numbers and on finite sets.  What is to be shown of a set *)
(* is a set itself: of the numbers, or the subsets, of which it is true.   *)
(***************************************************************************)
LEMMA UpTo ==
    ASSUME NEW n \in Nat, NEW T \in SUBSET (0..n), 0 \in T,
           \A i \in 1..n : i - 1 \in T => i \in T
    PROVE  T = 0..n
<1>. SUFFICES ASSUME T # 0..n PROVE FALSE  OBVIOUS
<1>. DEFINE missing == (0..n) \ T
            before == OpToRel(<, Nat)
<1>1. missing \subseteq Nat /\ missing # {}
  <2>1. \E i \in 0..n : i \notin T  OBVIOUS
  <2>. QED  BY <2>1
<1>2. PICK i \in missing : \A j \in missing : ~ (<<j, i>> \in before)
  BY <1>1, NatLessThanWellFounded, WFMin, Zenon
<1>3. \A j, k \in Nat : j < k => <<j, k>> \in before
  <2>1. \A j, k \in Nat : j < k => <<j, k>> \in {p \in Nat \X Nat : p[1] < p[2]}  BY SMT
  <2>. QED  BY <2>1, Zenon DEF OpToRel
<1>. HIDE DEF before
<1>4. i \in 1..n /\ i - 1 \in 0..n /\ i - 1 \in Nat /\ i \in Nat /\ i - 1 < i  BY <1>2, SMT
<1>5. i - 1 \notin missing
  <2>1. <<i - 1, i>> \in before  BY <1>3, <1>4
  <2>. QED  BY <2>1, <1>2, Zenon
<1>. QED  BY <1>2, <1>4, <1>5, SMT

\* The subsets of S with k elements.
OfSize(S, k) == {T \in SUBSET S : Cardinality(T) = k}

LEMMA SizeHolds ==
    ASSUME NEW S, IsFiniteSet(S), NEW T \in SUBSET S
    PROVE  /\ IsFiniteSet(T) /\ Cardinality(T) \in Nat
           /\ Cardinality(T) <= Cardinality(S) /\ Cardinality(S) \in Nat
           /\ Cardinality(T) = 0 <=> T = {}
           /\ \A x \in T : /\ T \ {x} \in SUBSET S /\ T \ {x} # T
                           /\ Cardinality(T \ {x}) = Cardinality(T) - 1
BY FS_Subset, FS_CardinalityType, FS_EmptySet, FS_RemoveElement

\* By the number of elements.
LEMMA BySize ==
    ASSUME NEW S, IsFiniteSet(S), NEW G, {} \in G,
           \A k \in Nat : OfSize(S, k) \subseteq G => OfSize(S, k + 1) \subseteq G
    PROVE  SUBSET S \subseteq G
<1>. DEFINE n == Cardinality(S)
            T == {k \in 0..n : OfSize(S, k) \subseteq G}
<1>1. n \in Nat  BY FS_CardinalityType
<1>2. \A U \in SUBSET S : Cardinality(U) \in 0..n /\ (Cardinality(U) = 0 => U = {})
  BY <1>1, SizeHolds
<1>. HIDE DEF n
<1>3. 0 \in T
  <2>1. ASSUME NEW U \in OfSize(S, 0) PROVE U \in G
    <3>1. U = {}  BY <1>2 DEF OfSize
    <3>. QED  BY <3>1
  <2>. QED  BY <1>1, <2>1
<1>4. \A i \in 1..n : i - 1 \in T => i \in T
  <2>1. ASSUME NEW i \in 1..n, i - 1 \in T PROVE i \in T
    <3>1. i - 1 \in Nat /\ (i - 1) + 1 = i /\ i \in 0..n  BY <1>1
    <3>2. OfSize(S, i - 1) \subseteq G  BY <2>1
    <3>3. OfSize(S, (i - 1) + 1) \subseteq G  BY <3>1, <3>2
    <3>. QED  BY <3>1, <3>3
  <2>. QED  BY <2>1
<1>5. T = 0..n
  <2>1. T \subseteq 0..n  OBVIOUS
  <2>. HIDE DEF T
  <2>. QED  BY <1>1, <1>3, <1>4, <2>1, UpTo
<1>6. ASSUME NEW U \in SUBSET S PROVE U \in G
  <2>1. Cardinality(U) \in T  BY <1>2, <1>5
  <2>. QED  BY <2>1 DEF OfSize
<1>. QED  BY <1>6

\* One element at a time.
LEMMA ByElement ==
    ASSUME NEW S, IsFiniteSet(S), NEW G, {} \in G,
           \A T \in SUBSET S : \A x \in S \ T : T \in G => T \cup {x} \in G
    PROVE  S \in G
<1>1. ASSUME NEW k \in Nat, OfSize(S, k) \subseteq G PROVE OfSize(S, k + 1) \subseteq G
  <2>1. ASSUME NEW U \in OfSize(S, k + 1) PROVE U \in G
    <3>1. U \in SUBSET S /\ Cardinality(U) = k + 1  BY DEF OfSize
    <3>2. PICK x : x \in U
      <4>1. U # {}  BY <3>1, SizeHolds
      <4>. QED  BY <4>1
    <3>3. U \ {x} \in SUBSET S /\ Cardinality(U \ {x}) = k  BY <3>1, <3>2, SizeHolds
    <3>4. U \ {x} \in G  BY <1>1, <3>3 DEF OfSize
    <3>5. (U \ {x}) \cup {x} = U /\ x \in S \ (U \ {x})  BY <3>1, <3>2
    <3>. QED  BY <3>3, <3>4, <3>5
  <2>. QED  BY <2>1
<1>2. SUBSET S \subseteq G  BY <1>1, BySize
<1>. QED  BY <1>2

-----------------------------------------------------------------------------
(***************************************************************************)
(* Sums.                                                                   *)
(***************************************************************************)
One(s) == CHOOSE x \in s : TRUE

\* The recursion by which f is summed over the subsets of S with no more than k elements.
Summed(f, S, g) == \A s \in SUBSET S : g[s] = IF s = {} THEN 0 ELSE f[One(s)] + g[s \ {One(s)}]
Partly(f, S, k, g) ==
    \A s \in SUBSET S : Cardinality(s) <= k =>
        g[s] = IF s = {} THEN 0 ELSE f[One(s)] + g[s \ {One(s)}]

LEMMA OneIsIn == ASSUME NEW s, s # {} PROVE One(s) \in s
BY DEF One

\* A set with k + 1 elements has one, and k others.
LEMMA OneLess ==
    ASSUME NEW S, IsFiniteSet(S), NEW k \in Nat, NEW U \in OfSize(S, k + 1)
    PROVE  /\ U \in SUBSET S /\ U # {} /\ One(U) \in U
           /\ \A x \in U : U \ {x} \in OfSize(S, k)
<1>1. U \in SUBSET S /\ Cardinality(U) = k + 1  BY DEF OfSize
<1>2. U # {}
  <2>1. k + 1 # 0  OBVIOUS
  <2>. QED  BY <1>1, <2>1, SizeHolds
<1>3. ASSUME NEW x \in U PROVE U \ {x} \in OfSize(S, k)
  <2>1. U \ {x} \in SUBSET S /\ Cardinality(U \ {x}) = Cardinality(U) - 1  BY <1>1, SizeHolds
  <2>2. (k + 1) - 1 = k  OBVIOUS
  <2>. QED  BY <1>1, <2>1, <2>2 DEF OfSize
<1>. QED  BY <1>1, <1>2, <1>3, OneIsIn

\* The recursion has a solution.
LEMMA SummedExists ==
    ASSUME NEW f, NEW S, IsFiniteSet(S)
    PROVE  \E g : g = [s \in SUBSET S |-> g[s]] /\ Summed(f, S, g)
<1>. DEFINE n == Cardinality(S)
            T == {k \in 0..n : \E g : Partly(f, S, k, g)}
<1>1. n \in Nat  BY FS_CardinalityType
<1>2. \A s \in SUBSET S : /\ Cardinality(s) \in Nat /\ Cardinality(s) <= n
                          /\ Cardinality(s) = 0 <=> s = {}
                          /\ s # {} => /\ s \ {One(s)} \in SUBSET S
                                       /\ Cardinality(s \ {One(s)}) = Cardinality(s) - 1
  BY SizeHolds, OneIsIn
<1>. HIDE DEF n
<1>3. 0 \in T
  <2>. DEFINE g == [s \in SUBSET S |-> 0]
  <2>1. ASSUME NEW s \in SUBSET S, Cardinality(s) <= 0
        PROVE  g[s] = IF s = {} THEN 0 ELSE f[One(s)] + g[s \ {One(s)}]
    <3>1. Cardinality(s) \in Nat  BY <1>2
    <3>2. Cardinality(s) = 0  BY <2>1, <3>1
    <3>3. s = {}  BY <1>2, <3>2
    <3>. QED  BY <3>3
  <2>2. Partly(f, S, 0, g)
    <3>. HIDE DEF g
    <3>. QED  BY <2>1 DEF Partly
  <2>. HIDE DEF g
  <2>. QED  BY <1>1, <2>2
<1>4. ASSUME NEW i \in 1..n, i - 1 \in T PROVE i \in T
  <2>1. PICK g : Partly(f, S, i - 1, g)  BY <1>4
  <2>. DEFINE h == [s \in SUBSET S |-> IF Cardinality(s) < i THEN g[s]
                                       ELSE f[One(s)] + g[s \ {One(s)}]]
  <2>2. ASSUME NEW s \in SUBSET S, Cardinality(s) <= i
        PROVE  h[s] = IF s = {} THEN 0 ELSE f[One(s)] + h[s \ {One(s)}]
    <3>0. Cardinality(s) \in Nat /\ i \in Nat /\ i # 0
      <4>1. Cardinality(s) \in Nat  BY <1>2
      <4>2. i \in Nat /\ i # 0  BY <1>1
      <4>. QED  BY <4>1, <4>2
    <3>1. CASE Cardinality(s) < i
      <4>1. Cardinality(s) <= i - 1  BY <3>0, <3>1
      <4>2. h[s] = g[s] /\ g[s] = IF s = {} THEN 0 ELSE f[One(s)] + g[s \ {One(s)}]
        BY <2>1, <3>1, <4>1 DEF Partly
      <4>3. s # {} => h[s \ {One(s)}] = g[s \ {One(s)}]  BY <1>1, <1>2, <3>1
      <4>. QED  BY <4>2, <4>3
    <3>2. CASE ~(Cardinality(s) < i)
      <4>0. Cardinality(s) = i /\ Cardinality(s) # 0 /\ Cardinality(s) - 1 < i  BY <2>2, <3>0, <3>2
      <4>1. s # {} /\ Cardinality(s) - 1 < i  BY <1>2, <4>0
      <4>2. h[s] = f[One(s)] + g[s \ {One(s)}]  BY <3>2
      <4>3. h[s \ {One(s)}] = g[s \ {One(s)}]  BY <1>2, <4>1
      <4>. QED  BY <4>1, <4>2, <4>3
    <3>. QED  BY <3>1, <3>2
  <2>3. Partly(f, S, i, h)
    <3>. HIDE DEF h
    <3>. QED  BY <2>2 DEF Partly
  <2>. HIDE DEF h
  <2>. QED  BY <1>1, <2>3
<1>5. T = 0..n
  <2>1. T \subseteq 0..n  OBVIOUS
  <2>. HIDE DEF T
  <2>. QED  BY <1>1, <1>3, <1>4, <2>1, UpTo
<1>6. PICK h : Partly(f, S, n, h)
  <2>1. n \in T  BY <1>1, <1>5
  <2>. QED  BY <2>1
<1>. DEFINE g == [s \in SUBSET S |-> h[s]]
<1>7. Summed(f, S, g)
  <2>1. \A s \in SUBSET S : s \ {One(s)} \in SUBSET S  OBVIOUS
  <2>. QED  BY <1>2, <1>6, <2>1 DEF Summed, Partly
<1>. QED  BY <1>7

\* SumFunctionOnSet is that solution.
LEMMA SumIsSummed ==
    ASSUME NEW f, NEW S, IsFiniteSet(S)
    PROVE  \E g : Summed(f, S, g) /\ SumFunctionOnSet(f, S) = g[S]
<1>. DEFINE Solves(g) == g = [s \in SUBSET S |->
                               IF s = {} THEN 0 ELSE f[CHOOSE x \in s : TRUE] + g[s \ {CHOOSE x \in s : TRUE}]]
<1>1. PICK g : g = [s \in SUBSET S |-> g[s]] /\ Summed(f, S, g)  BY SummedExists
<1>2. Solves(g)  BY <1>1 DEF Summed, One
<1>. DEFINE h == CHOOSE h : Solves(h)
<1>3. Solves(h)
  <2>. HIDE DEF Solves
  <2>. QED  BY <1>2
<1>4. SumFunctionOnSet(f, S) = h[S]
  BY DEF SumFunctionOnSet, FoldFunctionOnSet, MapThenFoldSet
<1>. HIDE DEF h
<1>5. Summed(f, S, h)  BY <1>3 DEF Summed, One
<1>. QED  BY <1>4, <1>5

SumOn(f, S) == SumFunctionOnSet(f, S)

\* Two solutions agree where both are defined.
LEMMA SummedOnce ==
    ASSUME NEW f, NEW S, IsFiniteSet(S), NEW T \in SUBSET S, NEW g, NEW h, Summed(f, S, g), Summed(f, T, h)
    PROVE  g[T] = h[T]
<1>. DEFINE G == {U \in SUBSET T : g[U] = h[U]}
<1>1. IsFiniteSet(T)  BY FS_Subset
<1>2. {} \in G  BY DEF Summed
<1>3. ASSUME NEW k \in Nat, OfSize(T, k) \subseteq G PROVE OfSize(T, k + 1) \subseteq G
  <2>1. ASSUME NEW U \in OfSize(T, k + 1) PROVE U \in G
    <3>1. U \in SUBSET T /\ U # {} /\ One(U) \in U /\ U \ {One(U)} \in OfSize(T, k)
      BY <1>1, <2>1, OneLess
    <3>2. U \ {One(U)} \in G  BY <1>3, <3>1
    <3>. QED  BY <3>1, <3>2 DEF Summed
  <2>. QED  BY <2>1
<1>4. SUBSET T \subseteq G
  <2>. HIDE DEF G
  <2>. QED  BY <1>1, <1>2, <1>3, BySize
<1>. QED  BY <1>4

LEMMA SumRecursive ==
    ASSUME NEW f, NEW S, IsFiniteSet(S)
    PROVE  /\ SumOn(f, {}) = 0
           /\ \A T \in SUBSET S : T # {} => SumOn(f, T) = f[One(T)] + SumOn(f, T \ {One(T)})
<1>1. PICK g : Summed(f, S, g) /\ SumOn(f, S) = g[S]  BY SumIsSummed DEF SumOn
<1>2. ASSUME NEW T \in SUBSET S PROVE SumOn(f, T) = g[T]
  <2>1. IsFiniteSet(T)  BY FS_Subset
  <2>2. PICK h : Summed(f, T, h) /\ SumOn(f, T) = h[T]  BY <2>1, SumIsSummed DEF SumOn
  <2>. QED  BY <1>1, <2>2, SummedOnce
<1>3. \A T \in SUBSET S : T \ {One(T)} \in SUBSET S  OBVIOUS
<1>. QED  BY <1>1, <1>2, <1>3 DEF Summed

\* f has integer values on S.
Whole(f, S) == \A x \in S : f[x] \in Int

LEMMA SumInt ==
    ASSUME NEW S, IsFiniteSet(S), NEW f, Whole(f, S)
    PROVE  \A T \in SUBSET S : SumOn(f, T) \in Int
<1>. DEFINE G == {T \in SUBSET S : SumOn(f, T) \in Int}
<1>1. /\ SumOn(f, {}) = 0
      /\ \A T \in SUBSET S : T # {} => SumOn(f, T) = f[One(T)] + SumOn(f, T \ {One(T)})
  BY SumRecursive
<1>2. {} \in G  BY <1>1
<1>3. ASSUME NEW k \in Nat, OfSize(S, k) \subseteq G PROVE OfSize(S, k + 1) \subseteq G
  <2>1. ASSUME NEW T \in OfSize(S, k + 1) PROVE T \in G
    <3>1. T \in SUBSET S /\ T # {} /\ One(T) \in T /\ T \ {One(T)} \in OfSize(S, k)
      BY <2>1, OneLess
    <3>2. SumOn(f, T \ {One(T)}) \in Int /\ f[One(T)] \in Int  BY <1>3, <3>1 DEF Whole
    <3>. QED  BY <1>1, <3>1, <3>2
  <2>. QED  BY <2>1
<1>4. SUBSET S \subseteq G
  <2>. HIDE DEF G
  <2>. QED  BY <1>2, <1>3, BySize
<1>. QED  BY <1>4

\* The order of summation does not matter: any element may be taken first.
LEMMA SumTakes ==
    ASSUME NEW S, IsFiniteSet(S), NEW f, Whole(f, S)
    PROVE  /\ SumOn(f, S) \in Int
           /\ \A x \in S : SumOn(f, S) = f[x] + SumOn(f, S \ {x})
<1>. DEFINE Takes(T) == /\ SumOn(f, T) \in Int
                        /\ \A x \in T : SumOn(f, T) = f[x] + SumOn(f, T \ {x})
            G == {T \in SUBSET S : Takes(T)}
<1>1. /\ SumOn(f, {}) = 0
      /\ \A T \in SUBSET S : T # {} => SumOn(f, T) = f[One(T)] + SumOn(f, T \ {One(T)})
  BY SumRecursive
<1>2. {} \in G  BY <1>1
<1>3. ASSUME NEW k \in Nat, OfSize(S, k) \subseteq G PROVE OfSize(S, k + 1) \subseteq G
  <2>1. ASSUME NEW T \in OfSize(S, k + 1) PROVE T \in G
    <3>. DEFINE c == One(T)
    <3>1. T \in SUBSET S /\ T # {} /\ c \in T /\ \A x \in T : T \ {x} \in OfSize(S, k)
      BY <2>1, OneLess
    <3>3. SumOn(f, T) = f[c] + SumOn(f, T \ {c})  BY <1>1, <3>1
    <3>. HIDE DEF c
    <3>4. \A x \in T : T \ {x} \in G /\ SumOn(f, T \ {x}) \in Int /\ f[x] \in Int
      <4>1. \A x \in T : T \ {x} \in G  BY <1>3, <3>1
      <4>. QED  BY <3>1, <4>1 DEF Whole
    <3>5. ASSUME NEW x \in T PROVE SumOn(f, T) = f[x] + SumOn(f, T \ {x})
      <4>1. CASE x = c  BY <3>3, <4>1
      <4>2. CASE x # c
        <5>. DEFINE R == (T \ {c}) \ {x}
        <5>1. R = (T \ {x}) \ {c} /\ x \in T \ {c} /\ c \in T \ {x}  BY <3>1, <4>2
        <5>2. SumOn(f, T \ {c}) = f[x] + SumOn(f, R)  BY <3>1, <3>4, <5>1
        <5>3. SumOn(f, T \ {x}) = f[c] + SumOn(f, R)
          <6>1. SumOn(f, T \ {x}) = f[c] + SumOn(f, (T \ {x}) \ {c})  BY <3>1, <3>4, <5>1
          <6>. QED  BY <5>1, <6>1
        <5>4. SumOn(f, R) \in Int  BY <3>1, SumInt
        <5>. HIDE DEF R
        <5>. QED  BY <3>1, <3>3, <3>4, <5>2, <5>3, <5>4
      <4>. QED  BY <4>1, <4>2
    <3>6. SumOn(f, T) \in Int  BY <3>1, <3>3, <3>4
    <3>. QED  BY <3>1, <3>5, <3>6
  <2>. QED  BY <2>1
<1>4. SUBSET S \subseteq G
  <2>. HIDE DEF G
  <2>. QED  BY <1>2, <1>3, BySize
<1>. QED  BY <1>4

LEMMA SumAdds ==
    ASSUME NEW S, IsFiniteSet(S), NEW f, Whole(f, S), NEW T \in SUBSET S, NEW x \in S \ T
    PROVE  /\ SumOn(f, T \cup {x}) = f[x] + SumOn(f, T)
           /\ SumOn(f, T) \in Int /\ f[x] \in Int
<1>1. IsFiniteSet(T \cup {x}) /\ Whole(f, T \cup {x})
  <2>1. T \cup {x} \in SUBSET S  OBVIOUS
  <2>. QED  BY <2>1, FS_Subset DEF Whole
<1>2. (T \cup {x}) \ {x} = T /\ x \in T \cup {x}  OBVIOUS
<1>3. SumOn(f, T \cup {x}) = f[x] + SumOn(f, (T \cup {x}) \ {x})  BY <1>1, <1>2, SumTakes
<1>4. SumOn(f, T) \in Int  BY SumInt
<1>. QED  BY <1>2, <1>3, <1>4 DEF Whole

LEMMA SumNone == ASSUME NEW f PROVE SumOn(f, {}) = 0
BY SumRecursive, FS_EmptySet

LEMMA SumPlus ==
    ASSUME NEW S, IsFiniteSet(S), NEW f, Whole(f, S), NEW g, Whole(g, S),
           NEW h, \A x \in S : h[x] = f[x] + g[x]
    PROVE  SumOn(h, S) = SumOn(f, S) + SumOn(g, S)
<1>. DEFINE G == {T \in SUBSET S : SumOn(h, T) = SumOn(f, T) + SumOn(g, T)}
<1>1. Whole(h, S)  BY DEF Whole
<1>2. {} \in G  BY SumNone
<1>3. ASSUME NEW T \in SUBSET S, NEW x \in S \ T, T \in G PROVE T \cup {x} \in G
  <2>1. /\ SumOn(f, T \cup {x}) = f[x] + SumOn(f, T)
        /\ SumOn(f, T) \in Int
        /\ f[x] \in Int
    <3>1. SumOn(f, T \cup {x}) = f[x] + SumOn(f, T)  BY SumAdds
    <3>2. SumOn(f, T) \in Int  BY SumInt
    <3>3. f[x] \in Int  BY DEF Whole
    <3>. QED  BY <3>1, <3>2, <3>3
  <2>2. /\ SumOn(g, T \cup {x}) = g[x] + SumOn(g, T)
        /\ SumOn(g, T) \in Int
        /\ g[x] \in Int
    <3>1. SumOn(g, T \cup {x}) = g[x] + SumOn(g, T)  BY SumAdds
    <3>2. SumOn(g, T) \in Int  BY SumInt
    <3>3. g[x] \in Int  BY DEF Whole
    <3>. QED  BY <3>1, <3>2, <3>3
  <2>3. SumOn(h, T \cup {x}) = h[x] + SumOn(h, T)  BY <1>1, SumAdds
  <2>4. SumOn(h, T \cup {x}) = SumOn(f, T \cup {x}) + SumOn(g, T \cup {x})
    BY <1>3, <2>1, <2>2, <2>3
  <2>. QED  BY <2>4
<1>4. S \in G
  <2>. HIDE DEF G
  <2>. QED  BY <1>2, <1>3, ByElement
<1>. QED  BY <1>4

LEMMA SumTimes ==
    ASSUME NEW S, IsFiniteSet(S), NEW f, Whole(f, S), NEW k \in Int,
           NEW h, \A x \in S : h[x] = k * f[x]
    PROVE  SumOn(h, S) = k * SumOn(f, S)
<1>. DEFINE G == {T \in SUBSET S : SumOn(h, T) = k * SumOn(f, T)}
<1>1. Whole(h, S)  BY DEF Whole
<1>2. {} \in G  BY SumNone
<1>3. ASSUME NEW T \in SUBSET S, NEW x \in S \ T, T \in G PROVE T \cup {x} \in G
  <2>1. /\ SumOn(f, T \cup {x}) = f[x] + SumOn(f, T)
        /\ SumOn(f, T) \in Int
        /\ f[x] \in Int
    <3>1. SumOn(f, T \cup {x}) = f[x] + SumOn(f, T)  BY SumAdds
    <3>2. SumOn(f, T) \in Int  BY SumInt
    <3>3. f[x] \in Int  BY DEF Whole
    <3>. QED  BY <3>1, <3>2, <3>3
  <2>2. SumOn(h, T \cup {x}) = h[x] + SumOn(h, T)  BY <1>1, SumAdds
  <2>3. k * (f[x] + SumOn(f, T)) = k * f[x] + k * SumOn(f, T)  BY <2>1
  <2>4. SumOn(h, T \cup {x}) = k * SumOn(f, T \cup {x})  BY <1>3, <2>1, <2>2, <2>3
  <2>. QED  BY <2>4
<1>4. S \in G
  <2>. HIDE DEF G
  <2>. QED  BY <1>2, <1>3, ByElement
<1>. QED  BY <1>4

LEMMA SumSame ==
    ASSUME NEW S, IsFiniteSet(S), NEW f, Whole(f, S), NEW h, \A x \in S : h[x] = f[x]
    PROVE  SumOn(h, S) = SumOn(f, S)
<1>. DEFINE G == {T \in SUBSET S : SumOn(h, T) = SumOn(f, T)}
<1>1. Whole(h, S)  BY DEF Whole
<1>2. {} \in G  BY SumNone
<1>3. ASSUME NEW T \in SUBSET S, NEW x \in S \ T, T \in G PROVE T \cup {x} \in G
  <2>1. /\ SumOn(f, T \cup {x}) = f[x] + SumOn(f, T) /\ SumOn(h, T \cup {x}) = h[x] + SumOn(h, T)
    BY <1>1, SumAdds
  <2>. QED  BY <1>3, <2>1
<1>4. S \in G
  <2>. HIDE DEF G
  <2>. QED  BY <1>2, <1>3, ByElement
<1>. QED  BY <1>4

LEMMA SumZero ==
    ASSUME NEW S, IsFiniteSet(S), NEW f, \A x \in S : f[x] = 0
    PROVE  SumOn(f, S) = 0
<1>. DEFINE G == {T \in SUBSET S : SumOn(f, T) = 0}
<1>1. Whole(f, S)  BY DEF Whole
<1>2. {} \in G  BY SumNone
<1>3. ASSUME NEW T \in SUBSET S, NEW x \in S \ T, T \in G PROVE T \cup {x} \in G
  <2>1. SumOn(f, T \cup {x}) = f[x] + SumOn(f, T)  BY <1>1, SumAdds
  <2>. QED  BY <1>3, <2>1
<1>4. S \in G
  <2>. HIDE DEF G
  <2>. QED  BY <1>2, <1>3, ByElement
<1>. QED  BY <1>4

LEMMA SumNotNegative ==
    ASSUME NEW S, IsFiniteSet(S), NEW f, \A x \in S : f[x] \in Nat
    PROVE  SumOn(f, S) \in Nat
<1>. DEFINE G == {T \in SUBSET S : SumOn(f, T) \in Nat}
<1>1. Whole(f, S)  BY DEF Whole
<1>2. {} \in G  BY SumNone
<1>3. ASSUME NEW T \in SUBSET S, NEW x \in S \ T, T \in G PROVE T \cup {x} \in G
  <2>1. SumOn(f, T \cup {x}) = f[x] + SumOn(f, T)  BY <1>1, SumAdds
  <2>. QED  BY <1>3, <2>1
<1>4. S \in G
  <2>. HIDE DEF G
  <2>. QED  BY <1>2, <1>3, ByElement
<1>. QED  BY <1>4

\* A sum over two sets that have nothing in common is the two sums.
LEMMA SumJoins ==
    ASSUME NEW A, NEW B, IsFiniteSet(A \cup B), A \cap B = {}, NEW f, Whole(f, A \cup B)
    PROVE  /\ SumOn(f, A \cup B) = SumOn(f, A) + SumOn(f, B)
           /\ SumOn(f, A) \in Int /\ SumOn(f, B) \in Int
<1>. DEFINE S == A \cup B
            G == {T \in SUBSET B : SumOn(f, A \cup T) = SumOn(f, A) + SumOn(f, T)}
<1>1. A \in SUBSET S /\ B \in SUBSET S /\ IsFiniteSet(S) /\ Whole(f, S)  OBVIOUS
<1>2. SumOn(f, A) \in Int /\ SumOn(f, B) \in Int
  <2>. HIDE DEF S
  <2>. QED  BY <1>1, SumInt
<1>3. {} \in G
  <2>1. A \cup {} = A  OBVIOUS
  <2>. QED  BY <1>2, <2>1, SumNone
<1>4. ASSUME NEW T \in SUBSET B, NEW x \in B \ T, T \in G PROVE T \cup {x} \in G
  <2>1. T \in SUBSET S /\ x \in S \ T /\ A \cup T \in SUBSET S /\ x \in S \ (A \cup T)
    OBVIOUS
  <2>. HIDE DEF S
  <2>2. /\ SumOn(f, T \cup {x}) = f[x] + SumOn(f, T) /\ SumOn(f, T) \in Int /\ f[x] \in Int
        /\ SumOn(f, (A \cup T) \cup {x}) = f[x] + SumOn(f, A \cup T)
    BY <1>1, <2>1, SumAdds
  <2>3. (A \cup T) \cup {x} = A \cup (T \cup {x})  OBVIOUS
  <2>4. SumOn(f, A \cup (T \cup {x})) = f[x] + SumOn(f, A \cup T)  BY <2>2, <2>3
  <2>5. SumOn(f, A \cup T) = SumOn(f, A) + SumOn(f, T)  BY <1>4
  <2>6. SumOn(f, A \cup (T \cup {x})) = SumOn(f, A) + SumOn(f, T \cup {x})
    BY <1>2, <2>2, <2>4, <2>5
  <2>. QED  BY <2>6
<1>5. IsFiniteSet(B)  BY <1>1, FS_Subset
<1>6. B \in G
  <2>. HIDE DEF G
  <2>. QED  BY <1>3, <1>4, <1>5, ByElement
<1>. QED  BY <1>2, <1>6

LEMMA SumOfOne == ASSUME NEW x, NEW f, f[x] \in Int PROVE SumOn(f, {x}) = f[x]
<1>1. IsFiniteSet({x}) /\ Whole(f, {x})  BY FS_Singleton DEF Whole
<1>2. SumOn(f, {x}) = f[x] + SumOn(f, {x} \ {x})  BY <1>1, SumTakes
<1>3. {x} \ {x} = {}  OBVIOUS
<1>. QED  BY <1>2, <1>3, SumNone

\* SumFunction is the sum over a function's domain.
LEMMA SumIsOn == \A f : SumFunction(f) = SumOn(f, DOMAIN f)
BY DEF SumFunction, SumOn

\* A sum may be taken of a restriction of the function.
LEMMA SumOfSome ==
    ASSUME NEW S, IsFiniteSet(S), NEW f, Whole(f, S), NEW T \in SUBSET S
    PROVE  /\ \A h : DOMAIN h = T /\ (\A x \in T : h[x] = f[x]) => SumFunction(h) = SumOn(f, T)
           /\ SumOn(f, T) \in Int
<1>1. IsFiniteSet(T) /\ Whole(f, T)  BY FS_Subset DEF Whole
<1>2. ASSUME NEW h, DOMAIN h = T, \A x \in T : h[x] = f[x] PROVE SumFunction(h) = SumOn(f, T)
  <2>1. SumOn(h, T) = SumOn(f, T)  BY <1>1, <1>2, SumSame
  <2>. QED  BY <1>2, <2>1, SumIsOn
<1>. QED  BY <1>2, SumInt

-----------------------------------------------------------------------------
(***************************************************************************)
(* Rounded shares.  Two shares that make up a whole are rounded so that    *)
(* they still do, unless both end in exactly half a ten-thousandth, and    *)
(* that takes thirty-two payers.                                           *)
(***************************************************************************)
LEMMA Division ==
    ASSUME NEW x \in Int, NEW d \in Nat \ {0}
    PROVE  x \div d \in Int /\ \E r \in 0 .. d - 1 : x = d * (x \div d) + r
<1>1. x \div d \in Int /\ x % d \in 0 .. d - 1 /\ x = d * (x \div d) + (x % d)  OBVIOUS
<1>. QED  BY <1>1

LEMMA Halved ==
    ASSUME NEW q \in Int, NEW c \in Int, NEW v \in Int, NEW u \in Int, v = 2 * u, u = v * q - 2 * c
    PROVE  u = 2 * (u * q - c) /\ u * q - c \in Int
<1>1. v * q = 2 * (u * q)
  <2>1. (2 * u) * q = 2 * (u * q)  OBVIOUS
  <2>. QED  BY <2>1
<1>2. u * q \in Int  OBVIOUS
<1>. QED  BY <1>1, <1>2

LEMMA NoTie ==
    ASSUME NEW w \in 1 .. 31, NEW a \in Int, NEW q \in Int
    PROVE  20000 * a + w # (2 * w) * q
<1>. SUFFICES ASSUME 20000 * a + w = (2 * w) * q PROVE FALSE  OBVIOUS
<1>. DEFINE u1 == w * q - 10000 * a
            u2 == u1 * q - 5000 * a
            u3 == u2 * q - 2500 * a
            u4 == u3 * q - 1250 * a
            u5 == u4 * q - 625 * a
<1>1. w \in Int /\ w = 2 * u1 /\ u1 \in Int
  <2>1. (2 * w) * q = 2 * (w * q) /\ w * q \in Int  OBVIOUS
  <2>. QED  BY <2>1
<1>2. u1 = w * q - 2 * (5000 * a) /\ 5000 * a \in Int  BY <1>1
<1>3. u1 = 2 * u2 /\ u2 \in Int
  <2>. HIDE DEF u1
  <2>. QED  BY <1>1, <1>2, Halved
<1>4. u2 = u1 * q - 2 * (2500 * a) /\ 2500 * a \in Int  BY <1>3
<1>5. u2 = 2 * u3 /\ u3 \in Int
  <2>. HIDE DEF u1, u2
  <2>. QED  BY <1>1, <1>3, <1>4, Halved
<1>6. u3 = u2 * q - 2 * (1250 * a) /\ 1250 * a \in Int  BY <1>5
<1>7. u3 = 2 * u4 /\ u4 \in Int
  <2>. HIDE DEF u2, u3
  <2>. QED  BY <1>3, <1>5, <1>6, Halved
<1>8. u4 = u3 * q - 2 * (625 * a) /\ 625 * a \in Int  BY <1>7
<1>9. u4 = 2 * u5 /\ u5 \in Int
  <2>. HIDE DEF u3, u4
  <2>. QED  BY <1>5, <1>7, <1>8, Halved
<1>. HIDE DEF u1, u2, u3, u4, u5
<1>10. w = 32 * u5  BY <1>1, <1>3, <1>5, <1>7, <1>9
<1>. QED  BY <1>9, <1>10

\* Two numbers of people that make up a number, and two shares that make up all.
Parts(a, b, w) == a \in Nat /\ b \in Nat /\ a + b = w
AllShared(c, o) == c \in Int /\ o \in Int /\ c + o = 10000

LEMMA SharesMakeAWhole ==
    ASSUME NEW w \in 1 .. 31, NEW a, NEW b, Parts(a, b, w)
    PROVE  AllShared(Share(a, w), Share(b, w))
<1>. USE DEF Parts
<1>. DEFINE p == (20000 * a + w) \div (2 * w)
            q == (20000 * b + w) \div (2 * w)
<1>1. 2 * w \in Nat \ {0} /\ 20000 * a + w \in Int /\ 20000 * b + w \in Int  OBVIOUS
<1>2. \A x \in Int : \E r \in 0 .. 2 * w - 1 : x = (2 * w) * (x \div (2 * w)) + r
  <2>. DEFINE d == 2 * w
  <2>1. d \in Nat \ {0}  BY <1>1
  <2>. HIDE DEF d
  <2>2. \A x \in Int : \E r \in 0 .. d - 1 : x = d * (x \div d) + r  BY <2>1, Division
  <2>. QED  BY <2>2 DEF d
<1>2a. PICK r \in 0 .. 2 * w - 1 : 20000 * a + w = (2 * w) * p + r  BY <1>1, <1>2
<1>3. PICK s \in 0 .. 2 * w - 1 : 20000 * b + w = (2 * w) * q + s  BY <1>1, <1>2
<1>4. p \in Int /\ q \in Int  BY <1>1
<1>. HIDE DEF p, q
<1>5. r \in Int /\ s \in Int /\ w \in Int /\ r > 0 /\ s > 0 /\ r < 2 * w /\ s < 2 * w
  <2>1. 20000 * a + w # (2 * w) * p /\ 20000 * b + w # (2 * w) * q  BY <1>4, NoTie
  <2>2. (2 * w) * p \in Int /\ (2 * w) * q \in Int  BY <1>4
  <2>. QED  BY <1>2a, <1>3, <2>1, <2>2
<1>6. r + s = (2 * w) * (10001 - (p + q))
  <2>1. (2 * w) * (10001 - (p + q)) = 20002 * w - ((2 * w) * p + (2 * w) * q)  BY <1>4
  <2>2. (2 * w) * p \in Int /\ (2 * w) * q \in Int  BY <1>4
  <2>. QED  BY <1>2a, <1>3, <1>5, <2>1, <2>2
<1>. DEFINE k == 10001 - (p + q)
<1>7. k \in Int  BY <1>4
<1>8. k = 1
  <2>. HIDE DEF k
  <2>1. ASSUME k <= 0 PROVE FALSE
    <3>1. (2 * w) * k <= 0  BY <1>5, <1>7, <2>1
    <3>. QED  BY <1>5, <1>6, <3>1 DEF k
  <2>2. ASSUME k >= 2 PROVE FALSE
    <3>1. (2 * w) * k >= 4 * w  BY <1>5, <1>7, <2>2
    <3>. QED  BY <1>5, <1>6, <3>1 DEF k
  <2>. QED  BY <1>7, <2>1, <2>2
<1>9. p + q = 10000  BY <1>4, <1>8
<1>. QED  BY <1>4, <1>9 DEF p, q, Share, AllShared

\* The payers of a bill are those of the one group and those of the other.
LEMMA PayersSplit ==
    ASSUME NEW payers, IsFiniteSet(payers), NEW C, NEW O, payers \subseteq C \cup O, C \cap O = {}
    PROVE  Parts(Cardinality(C \cap payers), Cardinality(O \cap payers), Cardinality(payers))
<1>. DEFINE c == C \cap payers
            o == O \cap payers
<1>1. c \in SUBSET payers /\ o \in SUBSET payers /\ payers = c \cup o /\ c \cap o = {}  OBVIOUS
<1>. HIDE DEF c, o
<1>2. IsFiniteSet(c) /\ IsFiniteSet(o)  BY <1>1, FS_Subset
<1>3. Cardinality(c) \in Nat /\ Cardinality(o) \in Nat  BY <1>2, FS_CardinalityType
<1>4. Cardinality(c \cup o) = Cardinality(c) + Cardinality(o) - Cardinality(c \cap o)
  BY <1>2, FS_Union
<1>5. Cardinality(c \cap o) = 0  BY <1>1, FS_EmptySet
<1>6. Cardinality(payers) = Cardinality(c) + Cardinality(o) - 0  BY <1>1, <1>4, <1>5
<1>7. Cardinality(c) + Cardinality(o) = Cardinality(payers)  BY <1>3, <1>6
<1>. QED  BY <1>3, <1>7 DEF c, o, Parts

-----------------------------------------------------------------------------
(***************************************************************************)
(* The headline's two figures and the one total.                           *)
(***************************************************************************)
\* What a person's commute and insurance cost a month, and the rent they pay.
Commute(h) == [p \in People |-> Monthly(CommuteYearly(h, p))]
Premium(h) == [p \in People |-> h.persons[p].insurance]
RentOf(h) == [p \in People |-> h.persons[p].rent]

LEMMA PeopleAreFinite ==
    /\ IsFiniteSet(People) /\ IsFiniteSet(Adults) /\ IsFiniteSet(Children)
    /\ Adults \cup Children = People /\ Adults \cap Children = {}
    /\ Adults \in SUBSET People /\ Children \in SUBSET People
BY HouseholdAssumption, FS_Union DEF People

\* Twelve months of a commute are a year of it.
LEMMA CommuteIsMonthly ==
    ASSUME NEW h, WellFormed(h), NEW p \in People
    PROVE  /\ CommuteYearly(h, p) \in Int
           /\ Commute(h)[p] \in Int
           /\ CommuteYearly(h, p) = 12 * Commute(h)[p]
<1>1. {h.persons[p].daily, h.persons[p].trips, h.persons[p].weeks} \subseteq Int
  BY DEF WellFormed
<1>2. CommuteYearly(h, p) \in Int
  <2>1. h.persons[p].daily \in Int /\ h.persons[p].trips \in Int /\ h.persons[p].weeks \in Int
    BY <1>1
  <2>. QED  BY <2>1 DEF CommuteYearly
<1>3. CommuteYearly(h, p) % 12 = 0  BY DEF WellFormed
<1>4. Commute(h)[p] = CommuteYearly(h, p) \div 12  BY DEF Commute, Monthly
<1>. QED  BY <1>2, <1>3, <1>4

LEMMA CostsAreWhole ==
    ASSUME NEW h, WellFormed(h)
    PROVE  Whole(Commute(h), People) /\ Whole(Premium(h), People) /\ Whole(RentOf(h), People)
<1>1. \A p \in People : Commute(h)[p] \in Int  BY CommuteIsMonthly
<1>2. \A p \in People : Premium(h)[p] \in Int
  <2>1. \A p \in People : {h.persons[p].insurance} \subseteq Int  BY DEF WellFormed
  <2>. QED  BY <2>1 DEF Premium
<1>3. \A p \in People : RentOf(h)[p] \in Int
  <2>1. \A p \in People : {h.persons[p].rent} \subseteq Int  BY DEF WellFormed
  <2>. QED  BY <2>1 DEF RentOf
<1>. QED  BY <1>1, <1>2, <1>3 DEF Whole

\* What a group pays is a sum over its members.
LEMMA GroupSums ==
    ASSUME NEW h, WellFormed(h), NEW group \in SUBSET People
    PROVE  /\ Commutes(h, group) = SumOn(Commute(h), group)
           /\ Insurance(h, group) = IF h.current THEN 0 ELSE SumOn(Premium(h), group)
           /\ RentPaid(h, group) = IF h.current THEN SumOn(RentOf(h), group) ELSE 0
           /\ SumOn(Commute(h), group) \in Int
           /\ SumOn(Premium(h), group) \in Int
           /\ SumOn(RentOf(h), group) \in Int
<1>1. IsFiniteSet(People)  BY PeopleAreFinite
<1>2. Whole(Commute(h), People) /\ Whole(Premium(h), People) /\ Whole(RentOf(h), People)
  BY CostsAreWhole
<1>3. Commutes(h, group) = SumOn(Commute(h), group)
  <2>. DEFINE f == [p \in group |-> Monthly(CommuteYearly(h, p))]
  <2>1. DOMAIN f = group /\ \A p \in group : f[p] = Commute(h)[p]  BY DEF Commute
  <2>2. Commutes(h, group) = SumFunction(f)  BY DEF Commutes
  <2>. HIDE DEF f
  <2>. QED  BY <1>1, <1>2, <2>1, <2>2, SumOfSome
<1>4. SumFunction([p \in group |-> h.persons[p].insurance]) = SumOn(Premium(h), group)
  <2>. DEFINE f == [p \in group |-> h.persons[p].insurance]
  <2>1. DOMAIN f = group /\ \A p \in group : f[p] = Premium(h)[p]  BY DEF Premium
  <2>. HIDE DEF f
  <2>2. SumFunction(f) = SumOn(Premium(h), group)  BY <1>1, <1>2, <2>1, SumOfSome
  <2>. QED  BY <2>2 DEF f
<1>5. SumFunction([p \in group |-> h.persons[p].rent]) = SumOn(RentOf(h), group)
  <2>. DEFINE f == [p \in group |-> h.persons[p].rent]
  <2>1. DOMAIN f = group /\ \A p \in group : f[p] = RentOf(h)[p]  BY DEF RentOf
  <2>. HIDE DEF f
  <2>2. SumFunction(f) = SumOn(RentOf(h), group)  BY <1>1, <1>2, <2>1, SumOfSome
  <2>. QED  BY <2>2 DEF f
<1>6. /\ SumOn(Commute(h), group) \in Int
      /\ SumOn(Premium(h), group) \in Int
      /\ SumOn(RentOf(h), group) \in Int
  <2>1. SumOn(Commute(h), group) \in Int  BY <1>1, <1>2, SumInt
  <2>2. SumOn(Premium(h), group) \in Int  BY <1>1, <1>2, SumInt
  <2>3. SumOn(RentOf(h), group) \in Int  BY <1>1, <1>2, SumInt
  <2>. QED  BY <2>1, <2>2, <2>3
<1>. QED  BY <1>3, <1>4, <1>5, <1>6 DEF Insurance, RentPaid

\* The sums of the one total, in the same terms.
LEMMA TotalSums ==
    ASSUME NEW h, WellFormed(h)
    PROVE  /\ Monthly(CommuteTotal(h)) = SumOn(Commute(h), People)
           /\ LifeInsuranceTotal(h) = SumOn(Premium(h), People)
           /\ ChildCosts(h) = SumOn(Commute(h), Children)
                                 + (IF h.current THEN 0 ELSE SumOn(Premium(h), Children))
<1>1. IsFiniteSet(People)  BY PeopleAreFinite
<1>2. Whole(Commute(h), People) /\ Whole(Premium(h), People)  BY CostsAreWhole
<1>3. Monthly(CommuteTotal(h)) = SumOn(Commute(h), People)
  <2>. DEFINE y == [p \in People |-> CommuteYearly(h, p)]
  <2>1. \A p \in People : y[p] = 12 * Commute(h)[p]  BY CommuteIsMonthly
  <2>2. CommuteTotal(h) = SumFunction(y) /\ DOMAIN y = People  BY DEF CommuteTotal
  <2>. HIDE DEF y
  <2>3. CommuteTotal(h) = SumOn(y, People)  BY <2>2, SumIsOn
  <2>4. SumOn(y, People) = 12 * SumOn(Commute(h), People)
    <3>1. 12 \in Int  OBVIOUS
    <3>. QED  BY <1>1, <1>2, <2>1, <3>1, SumTimes
  <2>5. SumOn(Commute(h), People) \in Int  BY <1>1, <1>2, SumInt
  <2>6. \A n \in Int : (12 * n) \div 12 = n  OBVIOUS
  <2>. QED  BY <2>3, <2>4, <2>5, <2>6 DEF Monthly
<1>4. LifeInsuranceTotal(h) = SumOn(Premium(h), People)
  <2>1. LifeInsuranceTotal(h) = SumFunction(Premium(h)) /\ DOMAIN Premium(h) = People
    BY DEF LifeInsuranceTotal, Premium
  <2>. QED  BY <2>1, SumIsOn
<1>5. Children \in SUBSET People  BY PeopleAreFinite
<1>6. SumFunction([p \in Children |-> Monthly(CommuteYearly(h, p))]) = SumOn(Commute(h), Children)
  BY <1>5, GroupSums DEF Commutes
<1>7. SumFunction([p \in Children |-> h.persons[p].insurance]) = SumOn(Premium(h), Children)
  <2>. DEFINE f == [p \in Children |-> h.persons[p].insurance]
  <2>1. DOMAIN f = Children /\ \A p \in Children : f[p] = Premium(h)[p]  BY <1>5 DEF Premium
  <2>. HIDE DEF f
  <2>2. SumFunction(f) = SumOn(Premium(h), Children)  BY <1>1, <1>2, <1>5, <2>1, SumOfSome
  <2>. QED  BY <2>2 DEF f
<1>. QED  BY <1>3, <1>4, <1>6, <1>7 DEF ChildCosts

\* Two groups that make up the adults pay what the adults pay.
LEMMA GroupsJoin ==
    ASSUME NEW f, Whole(f, People), NEW C, NEW O, C \cup O = Adults, C \cap O = {}
    PROVE  /\ SumOn(f, People) = SumOn(f, C) + SumOn(f, O) + SumOn(f, Children)
           /\ SumOn(f, Adults) = SumOn(f, C) + SumOn(f, O)
<1>1. IsFiniteSet(Adults \cup Children) /\ Whole(f, Adults \cup Children)
  BY PeopleAreFinite
<1>2. IsFiniteSet(C \cup O) /\ Whole(f, C \cup O)  BY PeopleAreFinite DEF Whole
<1>3. /\ SumOn(f, Adults \cup Children) = SumOn(f, Adults) + SumOn(f, Children)
      /\ SumOn(f, Adults) \in Int /\ SumOn(f, Children) \in Int
  BY <1>1, PeopleAreFinite, SumJoins
<1>4. /\ SumOn(f, C \cup O) = SumOn(f, C) + SumOn(f, O)
      /\ SumOn(f, C) \in Int /\ SumOn(f, O) \in Int
  BY <1>2, SumJoins
<1>5. SumOn(f, People) = SumOn(f, Adults) + SumOn(f, Children)  BY <1>3, PeopleAreFinite
<1>. QED  BY <1>3, <1>4, <1>5

\* Below thirty-two adults no two shares of a bill are rounded apart.
FewAdults == Cardinality(Adults) < 32

\* The shares the two groups have in the payers of a bill make up the bill.
LEMMA BillIsShared ==
    ASSUME FewAdults, NEW C, NEW O, C \cup O = Adults, C \cap O = {},
           NEW payers \in SUBSET Adults, payers # {}
    PROVE  AllShared(Share(Cardinality(C \cap payers), Cardinality(payers)),
                     Share(Cardinality(O \cap payers), Cardinality(payers)))
<1>. DEFINE w == Cardinality(payers)
<1>1. IsFiniteSet(payers) /\ w <= Cardinality(Adults) /\ Cardinality(Adults) \in Nat
  BY PeopleAreFinite, FS_Subset, FS_CardinalityType
<1>2. w \in Nat /\ w # 0  BY <1>1, FS_CardinalityType, FS_EmptySet
<1>3. w \in 1 .. 31
  <2>. HIDE DEF w
  <2>. QED  BY <1>1, <1>2 DEF FewAdults
<1>4. Parts(Cardinality(C \cap payers), Cardinality(O \cap payers), w)  BY <1>1, PayersSplit
<1>. QED  BY <1>3, <1>4, SharesMakeAWhole

LEMMA Allotted ==
    ASSUME NEW m \in Int, NEW c, NEW o, AllShared(c, o)
    PROVE  m * c + m * o = 10000 * m /\ m * c \in Int /\ m * o \in Int
<1>. USE DEF AllShared
<1>1. m * c + m * o = m * (c + o)  OBVIOUS
<1>2. m * c \in Int /\ m * o \in Int  OBVIOUS
<1>. QED  BY <1>1, <1>2

LEMMA MonthlyIsWhole == ASSUME NEW n \in Int PROVE Monthly(n) \in Int
BY DEF Monthly

\* The council tax, the annexe's and the sinking fund are allocated in full.
LEMMA BillsAreAllocated ==
    ASSUME FewAdults, NEW h, WellFormed(h), OwnersKnown(h)
    PROVE  /\ MainShare(h, Couple(h), OwnerShare(h)) + MainShare(h, Others(h), OthersShare(h))
                = 10000 * Monthly(h.council)
           /\ AnnexeShare(h, Couple(h)) + AnnexeShare(h, Others(h)) = 10000 * AnnexeMonthly(h)
           /\ SinkingShare(h, OwnerShare(h)) + SinkingShare(h, OthersShare(h))
                = IF h.current THEN 0 ELSE 10000 * MonthlySinkingFund(h)
           /\ {MainShare(h, Couple(h), OwnerShare(h)), MainShare(h, Others(h), OthersShare(h)),
               AnnexeShare(h, Couple(h)), AnnexeShare(h, Others(h)),
               SinkingShare(h, OwnerShare(h)), SinkingShare(h, OthersShare(h))} \subseteq Int
<1>. DEFINE C == Couple(h)
            O == Others(h)
            c == OwnerShare(h)
            o == OthersShare(h)
<1>1. C \cup O = Adults /\ C \cap O = {} /\ Adults \in SUBSET Adults /\ Adults # {}
  BY HouseholdAssumption DEF Couple, Others
<1>2. Monthly(h.council) \in Int /\ AnnexeMonthly(h) \in Int /\ MonthlySinkingFund(h) \in Int
  <2>1. h.council \in Int /\ h.annexe \in Int /\ h.sinking \in Int  BY DEF WellFormed
  <2>. QED  BY <2>1, MonthlyIsWhole DEF AnnexeMonthly, MonthlySinkingFund
<1>3. AllShared(c, o)
  <2>1. C \cap Adults = JointOwnerNames(h) /\ O \cap Adults = Others(h)
    BY DEF OwnersKnown, Couple, Others
  <2>2. /\ c = Share(Cardinality(C \cap Adults), Cardinality(Adults))
        /\ o = Share(Cardinality(O \cap Adults), Cardinality(Adults))
    BY <2>1 DEF OwnerShare, OthersShare
  <2>. HIDE DEF C, O, c, o
  <2>. QED  BY <1>1, <2>2, BillIsShared
<1>4. /\ MainShare(h, C, c) + MainShare(h, O, o) = 10000 * Monthly(h.council)
      /\ MainShare(h, C, c) \in Int /\ MainShare(h, O, o) \in Int
  <2>. DEFINE payers == MatchedPayers(h.councilPayers)
  <2>1. payers \in SUBSET Adults  BY DEF MatchedPayers
  <2>. HIDE DEF C, O, c, o
  <2>2. CASE payers = {}
    <3>1. MainShare(h, C, c) = Monthly(h.council) * c /\ MainShare(h, O, o) = Monthly(h.council) * o
      BY <2>2 DEF MainShare
    <3>. QED  BY <1>2, <1>3, <3>1, Allotted
  <2>3. CASE payers # {}
    <3>. DEFINE cp == Share(Cardinality(C \cap payers), Cardinality(payers))
                op == Share(Cardinality(O \cap payers), Cardinality(payers))
    <3>1. MainShare(h, C, c) = Monthly(h.council) * cp /\ MainShare(h, O, o) = Monthly(h.council) * op
      BY <2>3 DEF MainShare
    <3>2. /\ Monthly(h.council) * cp + Monthly(h.council) * op = 10000 * Monthly(h.council)
          /\ Monthly(h.council) * cp \in Int /\ Monthly(h.council) * op \in Int
      <4>. HIDE DEF payers
      <4>1. AllShared(cp, op)  BY <1>1, <2>1, <2>3, BillIsShared
      <4>. HIDE DEF cp, op
      <4>. QED  BY <1>2, <4>1, Allotted
    <3>. HIDE DEF cp, op
    <3>. QED  BY <3>1, <3>2
  <2>. QED  BY <2>2, <2>3
<1>5. /\ AnnexeShare(h, C) + AnnexeShare(h, O) = 10000 * AnnexeMonthly(h)
      /\ AnnexeShare(h, C) \in Int /\ AnnexeShare(h, O) \in Int
  <2>. DEFINE payers == AnnexePayers(h)
  <2>. HIDE DEF C, O
  <2>1. payers \in SUBSET Adults  BY <1>1 DEF AnnexePayers, MatchedPayers
  <2>2. CASE payers = {}
    <3>1. AnnexeMonthly(h) = 0  BY <1>1, <2>2 DEF AnnexePayers
    <3>. QED  BY <2>2, <3>1 DEF AnnexeShare
  <2>3. CASE payers # {}
    <3>. DEFINE cp == Share(Cardinality(C \cap payers), Cardinality(payers))
                op == Share(Cardinality(O \cap payers), Cardinality(payers))
    <3>1. AnnexeShare(h, C) = AnnexeMonthly(h) * cp /\ AnnexeShare(h, O) = AnnexeMonthly(h) * op
      BY <2>3 DEF AnnexeShare
    <3>2. /\ AnnexeMonthly(h) * cp + AnnexeMonthly(h) * op = 10000 * AnnexeMonthly(h)
          /\ AnnexeMonthly(h) * cp \in Int /\ AnnexeMonthly(h) * op \in Int
      <4>. HIDE DEF payers
      <4>1. AllShared(cp, op)  BY <1>1, <2>1, <2>3, BillIsShared
      <4>. HIDE DEF cp, op
      <4>. QED  BY <1>2, <4>1, Allotted
    <3>. HIDE DEF cp, op
    <3>. QED  BY <3>1, <3>2
  <2>. QED  BY <2>2, <2>3
<1>6. /\ SinkingShare(h, c) + SinkingShare(h, o) = IF h.current THEN 0 ELSE 10000 * MonthlySinkingFund(h)
      /\ SinkingShare(h, c) \in Int /\ SinkingShare(h, o) \in Int
  <2>. DEFINE m == MonthlySinkingFund(h)
  <2>. HIDE DEF C, O, c, o
  <2>1. c \in Int /\ o \in Int  BY <1>3 DEF AllShared
  <2>. HIDE DEF m
  <2>2. m * c + m * o = 10000 * m /\ m * c \in Int /\ m * o \in Int
    <3>1. m \in Int  BY <1>2 DEF m
    <3>. QED  BY <1>3, <3>1, Allotted
  <2>3. c * m = m * c /\ o * m = m * o  BY <1>2, <2>1 DEF m
  <2>4. SinkingShare(h, c) = (IF h.current THEN 0 ELSE c * m) /\ SinkingShare(h, o) = (IF h.current THEN 0 ELSE o * m)
    BY DEF SinkingShare, m
  <2>5. 10000 * MonthlySinkingFund(h) = 10000 * m  BY DEF m
  <2>. QED  BY <2>2, <2>3, <2>4, <2>5
<1>. QED  BY <1>4, <1>5, <1>6

\* The terms of the first and of the second figure add up, bill by bill.
LEMMA TermsAddUp ==
    ASSUME NEW x1 \in Int, NEW x2 \in Int, NEW mC \in Int, NEW mO \in Int,
           NEW aC \in Int, NEW aO \in Int, NEW sC \in Int, NEW sO \in Int,
           NEW council \in Int, NEW annexe \in Int, NEW sinking \in Int, NEW loan \in Int,
           mC + mO = 10000 * council, aC + aO = 10000 * annexe, sC + sO = 10000 * sinking
    PROVE  (10000 * x1 + mC + aC + sC + 10000 * loan) + (10000 * x2 + mO + aO + sO)
             = 10000 * (x1 + x2 + council + annexe + sinking + loan)
OBVIOUS

\* The two figures and the total of one household.
LEMMA FiguresOf ==
    ASSUME FewAdults, NEW h, WellFormed(h), OwnersKnown(h)
    PROVE  CoupleValue(h) + OthersValue(h)
             = 10000 * (TotalMonthlyHousingCost(h) + AnnexeMonthly(h) + RentPaid(h, Adults) - ChildCosts(h))
<1>. DEFINE C == Couple(h)
            O == Others(h)
<1>1. C \cup O = Adults /\ C \cap O = {} /\ C \in SUBSET People /\ O \in SUBSET People /\ Adults \in SUBSET People
  BY PeopleAreFinite DEF Couple, Others, People
<1>2. h.payment \in Int /\ h.rental \in Int /\ Monthly(h.council) \in Int
      /\ AnnexeMonthly(h) \in Int /\ MonthlySinkingFund(h) \in Int
  <2>1. h.council \in Int /\ h.annexe \in Int /\ h.sinking \in Int /\ h.payment \in Int /\ h.rental \in Int
    BY DEF WellFormed
  <2>. QED  BY <2>1, MonthlyIsWhole DEF AnnexeMonthly, MonthlySinkingFund
<1>. DEFINE mC == MainShare(h, C, OwnerShare(h))
            mO == MainShare(h, O, OthersShare(h))
            aC == AnnexeShare(h, C)
            aO == AnnexeShare(h, O)
            sC == SinkingShare(h, OwnerShare(h))
            sO == SinkingShare(h, OthersShare(h))
            co(g) == SumOn(Commute(h), g)
            pr(g) == SumOn(Premium(h), g)
            re(g) == SumOn(RentOf(h), g)
            buying(n) == IF h.current THEN 0 ELSE n
            renting(n) == IF h.current THEN n ELSE 0
<1>3. /\ mC + mO = 10000 * Monthly(h.council)
      /\ aC + aO = 10000 * AnnexeMonthly(h)
      /\ sC + sO = buying(10000 * MonthlySinkingFund(h))
      /\ mC \in Int /\ mO \in Int /\ aC \in Int /\ aO \in Int /\ sC \in Int /\ sO \in Int
  BY BillsAreAllocated
<1>4. CoupleValue(h) = 10000 * (co(C) + buying(pr(C)) + renting(re(C))) + mC + aC + sC
                         + 10000 * (h.payment - h.rental)
  BY <1>1, GroupSums DEF CoupleValue, GroupFigure
<1>5. OthersValue(h) = 10000 * (co(O) + buying(pr(O)) + renting(re(O))) + mO + aO + sO
  BY <1>1, GroupSums DEF OthersValue, GroupFigure
<1>6. TotalMonthlyHousingCost(h) = h.payment + buying(MonthlySinkingFund(h) + pr(People)) + co(People)
                                     + Monthly(h.council) - h.rental
  BY TotalSums DEF TotalMonthlyHousingCost
<1>7. RentPaid(h, Adults) = renting(re(Adults))  BY <1>1, GroupSums
<1>8. ChildCosts(h) = co(Children) + buying(pr(Children))  BY TotalSums
<1>9. /\ co(People) = co(C) + co(O) + co(Children)
      /\ pr(People) = pr(C) + pr(O) + pr(Children)
      /\ re(Adults) = re(C) + re(O)
  BY <1>1, CostsAreWhole, GroupsJoin
<1>10. /\ co(C) \in Int /\ co(O) \in Int /\ co(Children) \in Int
       /\ pr(C) \in Int /\ pr(O) \in Int /\ pr(Children) \in Int
       /\ re(C) \in Int /\ re(O) \in Int
  BY <1>1, PeopleAreFinite, GroupSums
<1>. DEFINE council == Monthly(h.council)
            annexe == AnnexeMonthly(h)
            sinking == MonthlySinkingFund(h)
<1>11. council \in Int /\ annexe \in Int /\ sinking \in Int  BY <1>2
<1>. HIDE DEF mC, mO, aC, aO, sC, sO, co, pr, re, council, annexe, sinking, C, O
<1>12. CASE h.current
  <2>1. CoupleValue(h) = 10000 * (co(C) + re(C)) + mC + aC + sC + 10000 * (h.payment - h.rental)
    BY <1>4, <1>10, <1>12
  <2>2. OthersValue(h) = 10000 * (co(O) + re(O)) + mO + aO + sO  BY <1>5, <1>10, <1>12
  <2>3. TotalMonthlyHousingCost(h) = h.payment + co(People) + council - h.rental
    BY <1>2, <1>6, <1>9, <1>10, <1>12 DEF council
  <2>4. RentPaid(h, Adults) = re(C) + re(O) /\ ChildCosts(h) = co(Children)
    BY <1>7, <1>8, <1>9, <1>10, <1>12
  <2>5. mC + mO = 10000 * council /\ aC + aO = 10000 * annexe /\ sC + sO = 0
    BY <1>3, <1>12 DEF council, annexe
  <2>6. CoupleValue(h) + OthersValue(h)
          = 10000 * (TotalMonthlyHousingCost(h) + annexe + RentPaid(h, Adults) - ChildCosts(h))
    <3>. DEFINE loan == h.payment - h.rental
                x1 == co(C) + re(C)
                x2 == co(O) + re(O)
    <3>1. loan \in Int /\ x1 \in Int /\ x2 \in Int  BY <1>2, <1>10
    <3>2. CoupleValue(h) + OthersValue(h) = (10000 * x1 + mC + aC + sC + 10000 * loan) + (10000 * x2 + mO + aO + sO)
      BY <2>1, <2>2
    <3>3. TotalMonthlyHousingCost(h) + annexe + RentPaid(h, Adults) - ChildCosts(h)
            = x1 + x2 + council + annexe + 0 + loan
      BY <1>2, <1>9, <1>10, <1>11, <2>3, <2>4
    <3>. HIDE DEF loan, x1, x2
    <3>4. sC + sO = 10000 * 0 /\ 0 \in Int  BY <2>5
    <3>5. (10000 * x1 + mC + aC + sC + 10000 * loan) + (10000 * x2 + mO + aO + sO)
            = 10000 * (x1 + x2 + council + annexe + 0 + loan)
      BY <1>3, <1>11, <2>5, <3>1, <3>4, TermsAddUp
    <3>. QED  BY <3>2, <3>3, <3>5
  <2>. QED  BY <2>6 DEF annexe
<1>13. CASE ~h.current
  <2>1. CoupleValue(h) = 10000 * (co(C) + pr(C)) + mC + aC + sC + 10000 * (h.payment - h.rental)
    BY <1>4, <1>10, <1>13
  <2>2. OthersValue(h) = 10000 * (co(O) + pr(O)) + mO + aO + sO  BY <1>5, <1>10, <1>13
  <2>3. TotalMonthlyHousingCost(h) = h.payment + (sinking + pr(People)) + co(People) + council - h.rental
    BY <1>2, <1>6, <1>9, <1>10, <1>13 DEF council, sinking
  <2>4. RentPaid(h, Adults) = 0 /\ ChildCosts(h) = co(Children) + pr(Children)
    BY <1>7, <1>8, <1>10, <1>13
  <2>5. mC + mO = 10000 * council /\ aC + aO = 10000 * annexe /\ sC + sO = 10000 * sinking
    BY <1>3, <1>13 DEF council, annexe, sinking
  <2>6. CoupleValue(h) + OthersValue(h)
          = 10000 * (TotalMonthlyHousingCost(h) + annexe + RentPaid(h, Adults) - ChildCosts(h))
    <3>. DEFINE loan == h.payment - h.rental
                x1 == co(C) + pr(C)
                x2 == co(O) + pr(O)
    <3>1. loan \in Int /\ x1 \in Int /\ x2 \in Int  BY <1>2, <1>10
    <3>2. CoupleValue(h) + OthersValue(h) = (10000 * x1 + mC + aC + sC + 10000 * loan) + (10000 * x2 + mO + aO + sO)
      BY <2>1, <2>2
    <3>3. TotalMonthlyHousingCost(h) + annexe + RentPaid(h, Adults) - ChildCosts(h)
            = x1 + x2 + council + annexe + sinking + loan
      BY <1>2, <1>9, <1>10, <1>11, <2>3, <2>4
    <3>. HIDE DEF loan, x1, x2
    <3>5. (10000 * x1 + mC + aC + sC + 10000 * loan) + (10000 * x2 + mO + aO + sO)
            = 10000 * (x1 + x2 + council + annexe + sinking + loan)
      BY <1>3, <1>11, <2>5, <3>1, TermsAddUp
    <3>. QED  BY <3>2, <3>3, <3>5
  <2>. QED  BY <2>6 DEF annexe
<1>. QED  BY <1>12, <1>13

\* The two figures of the headline and the one total are the same money, whatever the
\* household, its homes, the payers stored and the costs, as long as fewer than thirty-two
\* adults share them: with thirty-two, two halves of a ten-thousandth are both rounded up.
\* A household is priced, or none is.
THEOREM HeadlineAgreesWithTotal ==
    ASSUME FewAdults
    PROVE  [](household \in Households \cup {NoHousehold}) => []FiguresAgree
<1>1. household \in Households \cup {NoHousehold} => FiguresAgree
  <2>. SUFFICES ASSUME household \in Households \cup {NoHousehold},
                       household # NoHousehold, OwnersKnown(household)
                PROVE  CoupleValue(household) + OthersValue(household)
                          = 10000 * (TotalMonthlyHousingCost(household) + AnnexeMonthly(household)
                                     + RentPaid(household, Adults) - ChildCosts(household))
    BY DEF FiguresAgree
  <2>1. WellFormed(household)  BY AmountsAssumption
  <2>. QED  BY <2>1, FiguresOf
<1>. QED  BY <1>1, PTL

-----------------------------------------------------------------------------
(***************************************************************************)
(* What a purchase takes.  The duty first: the band of a price is known    *)
(* between two boundaries, and so are the bands it fills.                  *)
(***************************************************************************)
LEMMA SumUpTo ==
    ASSUME NEW n \in Nat \ {0}, NEW f, Whole(f, 1 .. n)
    PROVE  SumOn(f, 1 .. n) = f[n] + SumOn(f, 1 .. n - 1)
<1>1. IsFiniteSet(1 .. n) /\ n \in 1 .. n  BY FS_Interval
<1>2. (1 .. n) \ {n} = 1 .. n - 1  OBVIOUS
<1>3. SumOn(f, 1 .. n) = f[n] + SumOn(f, (1 .. n) \ {n})  BY <1>1, SumTakes
<1>. QED  BY <1>2, <1>3

LEMMA SumOfFew ==
    ASSUME NEW f
    PROVE  /\ SumOn(f, 1 .. 0) = 0
           /\ Whole(f, 1 .. 1) => SumOn(f, 1 .. 1) = f[1]
           /\ Whole(f, 1 .. 2) => SumOn(f, 1 .. 2) = f[1] + f[2]
           /\ Whole(f, 1 .. 3) => SumOn(f, 1 .. 3) = f[1] + f[2] + f[3]
           /\ Whole(f, 1 .. 4) => SumOn(f, 1 .. 4) = f[1] + f[2] + f[3] + f[4]
<1>1. SumOn(f, 1 .. 0) = 0
  <2>1. 1 .. 0 = {}  OBVIOUS
  <2>. QED  BY <2>1, SumNone
<1>2. ASSUME NEW n \in 1 .. 4, Whole(f, 1 .. n)
      PROVE  /\ \A i \in 1 .. n : f[i] \in Int
             /\ \A i \in 1 .. n : SumOn(f, 1 .. i) = f[i] + SumOn(f, 1 .. i - 1)
  <2>1. \A i \in 1 .. n : f[i] \in Int  BY <1>2 DEF Whole
  <2>2. ASSUME NEW i \in 1 .. n PROVE SumOn(f, 1 .. i) = f[i] + SumOn(f, 1 .. i - 1)
    <3>1. i \in Nat \ {0} /\ Whole(f, 1 .. i)  BY <2>1 DEF Whole
    <3>. QED  BY <3>1, SumUpTo
  <2>. QED  BY <2>1, <2>2
<1>3. Whole(f, 1 .. 1) => SumOn(f, 1 .. 1) = f[1] /\ f[1] \in Int
  <2>1. ASSUME Whole(f, 1 .. 1) PROVE f[1] \in Int /\ SumOn(f, 1 .. 1) = f[1] + SumOn(f, 1 .. 1 - 1)
    BY <1>2, <2>1
  <2>2. 1 .. 1 - 1 = 1 .. 0  OBVIOUS
  <2>. QED  BY <1>1, <2>1, <2>2
<1>4. \A n \in 2 .. 4 : Whole(f, 1 .. n) => Whole(f, 1 .. n - 1)  BY DEF Whole
<1>5. Whole(f, 1 .. 2) => SumOn(f, 1 .. 2) = f[1] + f[2] /\ f[2] \in Int
  <2>1. ASSUME Whole(f, 1 .. 2) PROVE f[2] \in Int /\ SumOn(f, 1 .. 2) = f[2] + SumOn(f, 1 .. 2 - 1)
    BY <1>2, <2>1
  <2>2. 1 .. 2 - 1 = 1 .. 1  OBVIOUS
  <2>. QED  BY <1>3, <1>4, <2>1, <2>2
<1>6. Whole(f, 1 .. 3) => SumOn(f, 1 .. 3) = f[1] + f[2] + f[3] /\ f[3] \in Int
  <2>1. ASSUME Whole(f, 1 .. 3)
        PROVE  /\ f[1] \in Int /\ f[2] \in Int /\ f[3] \in Int
               /\ SumOn(f, 1 .. 3) = f[3] + SumOn(f, 1 .. 3 - 1)
    BY <1>2, <2>1
  <2>2. 1 .. 3 - 1 = 1 .. 2  OBVIOUS
  <2>. QED  BY <1>4, <1>5, <2>1, <2>2
<1>7. Whole(f, 1 .. 4) => SumOn(f, 1 .. 4) = f[1] + f[2] + f[3] + f[4]
  <2>1. ASSUME Whole(f, 1 .. 4)
        PROVE  /\ f[1] \in Int /\ f[2] \in Int /\ f[3] \in Int /\ f[4] \in Int
               /\ SumOn(f, 1 .. 4) = f[4] + SumOn(f, 1 .. 4 - 1)
    BY <1>2, <2>1
  <2>2. 1 .. 4 - 1 = 1 .. 3  OBVIOUS
  <2>. QED  BY <1>4, <1>6, <2>1, <2>2
<1>. QED  BY <1>1, <1>3, <1>5, <1>6, <1>7

LEMMA TheBands ==
    /\ DOMAIN Bands = 1 .. 4
    /\ Bands[1].from = 0 /\ Bands[1].to = 250 /\ Bands[1].rate = 0
    /\ Bands[2].from = 250 /\ Bands[2].to = 925 /\ Bands[2].rate = 5
    /\ Bands[3].from = 925 /\ Bands[3].to = 1500 /\ Bands[3].rate = 10
    /\ Bands[4].from = 1500 /\ Bands[4].to = Open /\ Bands[4].rate = 12
BY DEF Bands

\* The first band a price is in.
FirstBand(price) == IF price <= 250 THEN 1 ELSE IF price <= 925 THEN 2 ELSE IF price <= 1500 THEN 3 ELSE 4

LEMMA BandOfPrice ==
    ASSUME NEW price \in Nat
    PROVE  TieredRate(price) = TaxAt(price, FirstBand(price))
<1>. DEFINE bands == {i \in DOMAIN Bands : InBand(price, i)}
            b == FirstBand(price)
<1>1. /\ InBand(price, 1) <=> price <= 250
      /\ InBand(price, 2) <=> 250 <= price /\ price <= 925
      /\ InBand(price, 3) <=> 925 <= price /\ price <= 1500
      /\ InBand(price, 4) <=> 1500 <= price
  BY TheBands DEF InBand, Open
<1>2. b \in bands /\ \A i \in bands : b <= i
  <2>1. \A i \in 1 .. 4 : i = 1 \/ i = 2 \/ i = 3 \/ i = 4  OBVIOUS
  <2>2. b \in 1 .. 4 /\ InBand(price, b)  BY <1>1 DEF FirstBand
  <2>3. \A i \in 1 .. 4 : InBand(price, i) => b <= i  BY <1>1, <2>1 DEF FirstBand
  <2>. QED  BY <2>2, <2>3, TheBands
<1>3. bands \subseteq Int /\ b \in Int  BY TheBands DEF FirstBand
<1>. HIDE DEF bands, b
<1>4. Min(bands) = b
  <2>1. \E x \in bands : \A y \in bands : x =< y  BY <1>2
  <2>2. Min(bands) \in bands /\ \A y \in bands : Min(bands) =< y  BY <2>1 DEF Min
  <2>3. Min(bands) <= b /\ b <= Min(bands) /\ Min(bands) \in Int  BY <1>2, <1>3, <2>2
  <2>. QED  BY <1>3, <2>3
<1>5. bands # {}  BY <1>2
<1>. QED  BY <1>4, <1>5 DEF TieredRate, bands, b

\* Stamp duty is the marginal tax, for every price.
LEMMA DutyOfPrice == ASSUME NEW price \in Nat PROVE DutyIsMarginal(price)
<1>. DEFINE full == [j \in 1 .. 4 |-> (Bands[j].to - Bands[j].from) * Bands[j].rate]
            taxed(i) == LET end == IF Bands[i].to = Open \/ price < Bands[i].to THEN price ELSE Bands[i].to
                        IN  AtLeastZero(end - Bands[i].from) * Bands[i].rate
            part == [i \in DOMAIN Bands |-> taxed(i)]
            b == FirstBand(price)
<1>1. /\ Whole(full, 1 .. 3)
      /\ full[1] = 0 /\ full[2] = 3375 /\ full[3] = 5750
  BY TheBands DEF Whole, Open
<1>2. /\ DOMAIN part = 1 .. 4
      /\ part[1] = 0
      /\ part[2] = 5 * AtLeastZero((IF price < 925 THEN price ELSE 925) - 250)
      /\ part[3] = 10 * AtLeastZero((IF price < 1500 THEN price ELSE 1500) - 925)
      /\ part[4] = 12 * AtLeastZero(price - 1500)
  <2>1. DOMAIN part = 1 .. 4  BY TheBands
  <2>2. part[1] = 0  BY TheBands DEF Open, AtLeastZero
  <2>3. part[2] = 5 * AtLeastZero((IF price < 925 THEN price ELSE 925) - 250)  BY TheBands DEF Open, AtLeastZero
  <2>4. part[3] = 10 * AtLeastZero((IF price < 1500 THEN price ELSE 1500) - 925)  BY TheBands DEF Open, AtLeastZero
  <2>5. part[4] = 12 * AtLeastZero(price - 1500)  BY TheBands DEF Open, AtLeastZero
  <2>. QED  BY <2>1, <2>2, <2>3, <2>4, <2>5
<1>3. DutyIsMarginal(price) <=> TieredRate(price) = SumFunction(part)  BY DEF DutyIsMarginal
<1>4. ASSUME NEW i \in 1 .. 4
      PROVE  TaxAt(price, i) = (price - Bands[i].from) * Bands[i].rate + SumOn(full, 1 .. i - 1)
  <2>. DEFINE before == [j \in 1 .. i - 1 |-> (Bands[j].to - Bands[j].from) * Bands[j].rate]
  <2>1. TaxAt(price, i) = (price - Bands[i].from) * Bands[i].rate + SumFunction(before)  BY DEF TaxAt
  <2>2. DOMAIN before = 1 .. i - 1 /\ \A j \in 1 .. i - 1 : before[j] = full[j]  OBVIOUS
  <2>3. IsFiniteSet(1 .. 3) /\ 1 .. i - 1 \in SUBSET (1 .. 3)
    <3>1. IsFiniteSet(1 .. 3)
      <4>1. \A n \in Nat : IsFiniteSet(1 .. n)  BY FS_Interval
      <4>2. 3 \in Nat  OBVIOUS
      <4>. QED  BY <4>1, <4>2, Zenon
    <3>2. 1 .. i - 1 \subseteq 1 .. 3  OBVIOUS
    <3>. QED  BY <3>1, <3>2
  <2>. HIDE DEF before, full
  <2>4. SumFunction(before) = SumOn(full, 1 .. i - 1)  BY <1>1, <2>2, <2>3, SumOfSome
  <2>. QED  BY <2>1, <2>4
<1>. HIDE DEF full, part, taxed
<1>5. Whole(part, 1 .. 4)
  <2>1. \A i \in 1 .. 4 : i = 1 \/ i = 2 \/ i = 3 \/ i = 4  OBVIOUS
  <2>. QED  BY <1>2, <2>1 DEF Whole, AtLeastZero
<1>6. SumFunction(part) = part[1] + part[2] + part[3] + part[4]
  <2>1. SumFunction(part) = SumOn(part, 1 .. 4)  BY <1>2, SumIsOn
  <2>. QED  BY <1>5, <2>1, SumOfFew
<1>7. SumOn(full, 1 .. 0) = 0 /\ SumOn(full, 1 .. 1) = 0 /\ SumOn(full, 1 .. 2) = 3375 /\ SumOn(full, 1 .. 3) = 9125
  <2>1. Whole(full, 1 .. 1) /\ Whole(full, 1 .. 2)  BY <1>1 DEF Whole
  <2>. QED  BY <1>1, <2>1, SumOfFew
<1>8. TaxAt(price, b) = part[1] + part[2] + part[3] + part[4]
  <2>1. CASE price <= 250
    <3>1. TaxAt(price, 1) = (price - Bands[1].from) * Bands[1].rate + SumOn(full, 1 .. 1 - 1)  BY <1>4
    <3>2. 1 .. 1 - 1 = 1 .. 0  OBVIOUS
    <3>3. TaxAt(price, 1) = 0  BY <1>7, <3>1, <3>2, TheBands
    <3>. QED  BY <1>2, <2>1, <3>3 DEF FirstBand, AtLeastZero
  <2>2. CASE price > 250 /\ price <= 925
    <3>1. TaxAt(price, 2) = (price - Bands[2].from) * Bands[2].rate + SumOn(full, 1 .. 2 - 1)  BY <1>4
    <3>2. 1 .. 2 - 1 = 1 .. 1  OBVIOUS
    <3>3. TaxAt(price, 2) = (price - 250) * 5  BY <1>7, <3>1, <3>2, TheBands
    <3>. QED  BY <1>2, <2>2, <3>3 DEF FirstBand, AtLeastZero
  <2>3. CASE price > 925 /\ price <= 1500
    <3>1. TaxAt(price, 3) = (price - Bands[3].from) * Bands[3].rate + SumOn(full, 1 .. 3 - 1)  BY <1>4
    <3>2. 1 .. 3 - 1 = 1 .. 2  OBVIOUS
    <3>3. TaxAt(price, 3) = (price - 925) * 10 + 3375  BY <1>7, <3>1, <3>2, TheBands
    <3>. QED  BY <1>2, <2>3, <3>3 DEF FirstBand, AtLeastZero
  <2>4. CASE price > 1500
    <3>1. TaxAt(price, 4) = (price - Bands[4].from) * Bands[4].rate + SumOn(full, 1 .. 4 - 1)  BY <1>4
    <3>2. 1 .. 4 - 1 = 1 .. 3  OBVIOUS
    <3>3. TaxAt(price, 4) = (price - 1500) * 12 + 9125  BY <1>7, <3>1, <3>2, TheBands
    <3>. QED  BY <1>2, <2>4, <3>3 DEF FirstBand, AtLeastZero
  <2>. QED  BY <2>1, <2>2, <2>3, <2>4
<1>. QED  BY <1>3, <1>6, <1>8, BandOfPrice

-----------------------------------------------------------------------------
(***************************************************************************)
(* The loan.  A quantity that is multiplied and reduced every month has    *)
(* one history.                                                            *)
(***************************************************************************)
History(a, k, c, n, h) == h = [m \in 0 .. n |-> IF m = 0 THEN a ELSE k * h[m - 1] - c]

LEMMA HistoryExists ==
    ASSUME NEW a, NEW k, NEW c, NEW n \in Nat
    PROVE  \E h : History(a, k, c, n, h)
<1>. DEFINE T == {i \in 0 .. n : \E h : History(a, k, c, i, h)}
<1>1. 0 \in T
  <2>1. History(a, k, c, 0, [m \in 0 .. 0 |-> a])  BY DEF History
  <2>. QED  BY <2>1
<1>2. ASSUME NEW i \in 1 .. n, i - 1 \in T PROVE i \in T
  <2>1. PICK h : History(a, k, c, i - 1, h)  BY <1>2
  <2>. DEFINE g == [m \in 0 .. i |-> IF m = i THEN k * h[i - 1] - c ELSE h[m]]
  <2>2. ASSUME NEW m \in 0 .. i PROVE g[m] = IF m = 0 THEN a ELSE k * g[m - 1] - c
    <3>1. CASE m = i
      <4>1. m # 0 /\ m - 1 \in 0 .. i /\ m - 1 # i  BY <3>1
      <4>. QED  BY <3>1, <4>1
    <3>2. CASE m # i
      <4>1. m \in 0 .. i - 1  BY <3>2
      <4>2. g[m] = h[m] /\ h[m] = IF m = 0 THEN a ELSE k * h[m - 1] - c  BY <2>1, <3>2, <4>1 DEF History
      <4>3. m # 0 => m - 1 \in 0 .. i /\ m - 1 # i  OBVIOUS
      <4>. QED  BY <4>2, <4>3
    <3>. QED  BY <3>1, <3>2
  <2>3. g = [m \in 0 .. i |-> g[m]]  OBVIOUS
  <2>. HIDE DEF g
  <2>4. History(a, k, c, i, g)  BY <2>2, <2>3 DEF History
  <2>. QED  BY <2>4
<1>3. T = 0 .. n
  <2>1. T \subseteq 0 .. n  OBVIOUS
  <2>. HIDE DEF T
  <2>. QED  BY <1>1, <1>2, <2>1, UpTo
<1>. QED  BY <1>3

\* What holds at first and is kept from month to month holds in every month.
LEMMA Monthwise ==
    ASSUME NEW n \in Nat, NEW G, 0 \in G, \A m \in 1 .. n : m - 1 \in G => m \in G
    PROVE  0 .. n \subseteq G
<1>. DEFINE T == G \cap (0 .. n)
<1>1. T \in SUBSET (0 .. n) /\ 0 \in T  OBVIOUS
<1>2. \A i \in 1 .. n : i - 1 \in T => i \in T  OBVIOUS
<1>. HIDE DEF T
<1>3. T = 0 .. n  BY <1>1, <1>2, UpTo
<1>. QED  BY <1>3 DEF T

\* The compound growth over some months is that of a month more than one month less.
LEMMA CompoundIsHistory ==
    ASSUME NEW rate \in Nat, NEW n \in Nat
    PROVE  \E g : /\ g[0] = 1 /\ \A m \in 1 .. n : g[m] = (1 + rate) * g[m - 1]
                  /\ Compound(rate, n) = g[n]
<1>. DEFINE Grows(g) == g = [m \in 0 .. n |-> IF m = 0 THEN 1 ELSE (1 + rate) * g[m - 1]]
            G == CHOOSE g : Grows(g)
<1>1. PICK h : History(1, 1 + rate, 0, n, h)  BY HistoryExists
<1>2. \A m \in 0 .. n : h[m] \in Int
  <2>. DEFINE Z == {m \in 0 .. n : h[m] \in Int}
  <2>1. 0 \in Z  BY <1>1 DEF History
  <2>2. ASSUME NEW m \in 1 .. n, m - 1 \in Z PROVE m \in Z
    <3>1. m \in 0 .. n /\ m # 0  OBVIOUS
    <3>2. h[m] = (1 + rate) * h[m - 1] - 0  BY <1>1, <3>1 DEF History
    <3>3. h[m - 1] \in Int  BY <2>2
    <3>. QED  BY <3>1, <3>2, <3>3
  <2>. HIDE DEF Z
  <2>3. 0 .. n \subseteq Z  BY <2>1, <2>2, Monthwise
  <2>. QED  BY <2>3 DEF Z
<1>3. Grows(h)
  <2>1. h = [m \in 0 .. n |-> h[m]]  BY <1>1 DEF History
  <2>2. ASSUME NEW m \in 0 .. n PROVE h[m] = IF m = 0 THEN 1 ELSE (1 + rate) * h[m - 1]
    <3>1. h[m] = IF m = 0 THEN 1 ELSE (1 + rate) * h[m - 1] - 0  BY <1>1 DEF History
    <3>2. m # 0 => h[m - 1] \in Int /\ (1 + rate) * h[m - 1] \in Int  BY <1>2
    <3>. QED  BY <3>1, <3>2
  <2>. QED  BY <2>1, <2>2
<1>4. Grows(G)
  <2>. HIDE DEF Grows
  <2>. QED  BY <1>3
<1>5. Compound(rate, n) = G[n]  BY DEF Compound
<1>. HIDE DEF G
<1>6. G[0] = 1 /\ \A m \in 1 .. n : G[m] = (1 + rate) * G[m - 1]
  <2>1. \A m \in 0 .. n : G[m] = IF m = 0 THEN 1 ELSE (1 + rate) * G[m - 1]  BY <1>4
  <2>2. 0 \in 0 .. n /\ \A m \in 1 .. n : m \in 0 .. n /\ m # 0  OBVIOUS
  <2>. QED  BY <2>1, <2>2
<1>. QED  BY <1>5, <1>6

\* At a positive rate it grows every month.
LEMMA CompoundGrows ==
    ASSUME NEW rate \in Nat \ {0}, NEW n \in Nat, NEW g, g[0] = 1,
           \A m \in 1 .. n : g[m] = (1 + rate) * g[m - 1]
    PROVE  /\ \A m \in 0 .. n : g[m] \in Nat \ {0}
           /\ \A m \in 0 .. n : g[m] = g[n] => m = n
<1>1. \A m \in 0 .. n : g[m] \in Nat \ {0}
  <2>. DEFINE Z == {m \in 0 .. n : g[m] \in Nat \ {0}}
  <2>1. 0 \in Z  OBVIOUS
  <2>2. ASSUME NEW m \in 1 .. n, m - 1 \in Z PROVE m \in Z
    <3>1. g[m] = (1 + rate) * g[m - 1] /\ g[m - 1] \in Nat \ {0} /\ m \in 0 .. n  BY <2>2
    <3>. DEFINE y == g[m - 1]
    <3>2. y \in Nat \ {0} /\ g[m] = (1 + rate) * y  BY <3>1
    <3>. HIDE DEF y
    <3>3. (1 + rate) * y = y + rate * y /\ rate * y \in Nat  BY <3>2
    <3>4. g[m] \in Nat \ {0}  BY <3>2, <3>3
    <3>. QED  BY <3>1, <3>4
  <2>. HIDE DEF Z
  <2>3. 0 .. n \subseteq Z  BY <2>1, <2>2, Monthwise
  <2>. QED  BY <2>3 DEF Z
<1>2. ASSUME NEW m \in 1 .. n PROVE g[m - 1] < g[m]
  <2>. DEFINE y == g[m - 1]
  <2>1. m - 1 \in 0 .. n  OBVIOUS
  <2>2. y \in Nat \ {0} /\ g[m] = (1 + rate) * y  BY <1>1, <2>1
  <2>. HIDE DEF y
  <2>3. (1 + rate) * y = y + rate * y /\ rate * y >= 1  BY <2>2
  <2>4. y < g[m]
    <3>1. rate * y \in Int  BY <2>2
    <3>. QED  BY <2>2, <2>3, <3>1
  <2>. QED  BY <2>4 DEF y
<1>3. ASSUME NEW i \in 0 .. n, i # n PROVE g[i] < g[n]
  \* from month i + 1 on, the growth is more than that of month i
  <2>. DEFINE Z == {m \in 0 .. n : m > i => g[i] < g[m]}
  <2>1. 0 \in Z  OBVIOUS
  <2>2. ASSUME NEW m \in 1 .. n, m - 1 \in Z PROVE m \in Z
    <3>1. m \in 0 .. n /\ m - 1 \in 0 .. n  OBVIOUS
    <3>2. g[m - 1] < g[m] /\ g[m - 1] \in Int /\ g[m] \in Int /\ g[i] \in Int  BY <1>1, <1>2, <3>1
    <3>3. ASSUME m > i PROVE g[i] < g[m]
      <4>1. CASE m - 1 = i  BY <3>2, <4>1
      <4>2. CASE m - 1 # i
        <5>1. m - 1 > i  BY <3>3, <4>2
        <5>2. g[i] < g[m - 1]  BY <2>2, <5>1
        <5>. QED  BY <3>2, <5>2
      <4>. QED  BY <4>1, <4>2
    <3>. QED  BY <3>1, <3>3
  <2>. HIDE DEF Z
  <2>3. 0 .. n \subseteq Z  BY <2>1, <2>2, Monthwise
  <2>4. n \in 0 .. n /\ n > i  BY <1>3
  <2>. QED  BY <2>3, <2>4 DEF Z
<1>4. ASSUME NEW m \in 0 .. n, g[m] = g[n] PROVE m = n
  <2>1. g[m] \in Int /\ g[n] \in Int  BY <1>1
  <2>. QED  BY <1>3, <1>4, <2>1
<1>. QED  BY <1>1, <1>4

\* Paying PMT every month repays any loan, at any rate, in the last month and not before.
LEMMA LoanOf ==
    ASSUME NEW loan \in Nat \ {0}, NEW rate \in Nat, NEW n \in Nat \ {0}
    PROVE  LoanIsRepaid(loan, rate, n)
<1>. DEFINE a == Annuity(rate, n)
            c == PMT(loan, rate, n)
            Pays(b) == b = [m \in 0 .. n |-> IF m = 0 THEN loan * a ELSE (1 + rate) * b[m - 1] - c]
            B == CHOOSE b : Pays(b)
<1>1. n \in Nat  OBVIOUS
<1>2. Pays(B)
  <2>1. \E b : Pays(b)
    <3>. DEFINE owed == loan * a
                k == 1 + rate
    <3>. HIDE DEF a, c, owed, k
    <3>1. \E b : History(owed, k, c, n, b)  BY <1>1, HistoryExists
    <3>. QED  BY <3>1 DEF History, owed, k
  <2>. HIDE DEF Pays
  <2>. QED  BY <2>1
<1>3. /\ B[0] = loan * a
      /\ \A m \in 1 .. n : B[m] = (1 + rate) * B[m - 1] - c
  <2>1. \A m \in 0 .. n : B[m] = IF m = 0 THEN loan * a ELSE (1 + rate) * B[m - 1] - c
    <3>. HIDE DEF B, a, c
    <3>. QED  BY <1>2
  <2>2. 0 \in 0 .. n /\ \A m \in 1 .. n : m \in 0 .. n /\ m # 0  OBVIOUS
  <2>. HIDE DEF B, a, c
  <2>. QED  BY <2>1, <2>2
<1>4. LoanIsRepaid(loan, rate, n) <=> \A m \in 0 .. n : B[m] = 0 <=> m = n
  BY DEF LoanIsRepaid
<1>5. \A m \in 0 .. n : B[m] = 0 <=> m = n
  <2>1. CASE rate = 0
    <3>. DEFINE Z == {m \in 0 .. n : B[m] = loan * (n - m)}
    <3>1. a = n /\ c = loan  BY <2>1 DEF Annuity, PMT
    <3>. HIDE DEF B, a, c
    <3>2. 0 \in Z
      <4>1. B[0] = loan * (n - 0) /\ 0 \in 0 .. n  BY <1>3, <3>1
      <4>. QED  BY <4>1
    <3>3. ASSUME NEW m \in 1 .. n, m - 1 \in Z PROVE m \in Z
      <4>1. B[m] = (1 + 0) * B[m - 1] - loan  BY <1>3, <2>1, <3>1
      <4>2. B[m - 1] = loan * (n - (m - 1))  BY <3>3
      <4>3. loan * (n - (m - 1)) = loan * (n - m) + loan
        <5>1. n - (m - 1) = (n - m) + 1  OBVIOUS
        <5>2. loan * ((n - m) + 1) = loan * (n - m) + loan  OBVIOUS
        <5>. QED  BY <5>1, <5>2
      <4>4. loan * (n - m) \in Int  OBVIOUS
      <4>5. B[m] = loan * (n - m)  BY <4>1, <4>2, <4>3, <4>4
      <4>. QED  BY <4>5
    <3>. HIDE DEF Z
    <3>4. 0 .. n \subseteq Z  BY <1>1, <3>2, <3>3, Monthwise
    <3>5. ASSUME NEW m \in 0 .. n PROVE B[m] = 0 <=> m = n
      <4>1. B[m] = loan * (n - m)  BY <3>4 DEF Z
      <4>2. loan * (n - m) = 0 <=> n - m = 0  OBVIOUS
      <4>. QED  BY <4>1, <4>2
    <3>. QED  BY <3>5
  <2>2. CASE rate # 0
    <3>1. PICK g : /\ g[0] = 1 /\ \A m \in 1 .. n : g[m] = (1 + rate) * g[m - 1]
                   /\ Compound(rate, n) = g[n]
      BY <1>1, CompoundIsHistory
    <3>2. /\ \A m \in 0 .. n : g[m] \in Nat \ {0}
          /\ \A m \in 0 .. n : g[m] = g[n] => m = n
      BY <1>1, <2>2, <3>1, CompoundGrows
    <3>. DEFINE whole == g[n]
                Z == {m \in 0 .. n : B[m] = loan * (whole - g[m])}
    <3>3. whole \in Nat \ {0}  BY <3>2
    <3>4. a = whole - 1 /\ c = (loan * rate) * whole  BY <2>2, <3>1 DEF Annuity, PMT
    <3>. HIDE DEF B, a, c, whole
    <3>5. 0 \in Z
      <4>1. B[0] = loan * (whole - g[0]) /\ 0 \in 0 .. n  BY <1>3, <3>1, <3>4
      <4>. QED  BY <4>1
    <3>6. ASSUME NEW m \in 1 .. n, m - 1 \in Z PROVE m \in Z
      <4>. DEFINE y == g[m - 1]
      <4>1. m \in 0 .. n /\ m - 1 \in 0 .. n  OBVIOUS
      <4>2. y \in Int /\ g[m] = (1 + rate) * y  BY <3>1, <3>2, <4>1
      <4>3. B[m] = (1 + rate) * (loan * (whole - y)) - (loan * rate) * whole  BY <1>3, <3>4, <3>6
      <4>. HIDE DEF y
      <4>4. (1 + rate) * (loan * (whole - y)) - (loan * rate) * whole = loan * (whole - (1 + rate) * y)
        <5>1. loan * (whole - y) = loan * whole - loan * y
              /\ loan * whole \in Int /\ loan * y \in Int  BY <3>3, <4>2
        <5>. DEFINE lw == loan * whole
                    ly == loan * y
        <5>2. (loan * rate) * whole = rate * lw  BY <3>3
        <5>3. loan * (whole - (1 + rate) * y) = lw - (1 + rate) * ly
          <6>1. (1 + rate) * y \in Int  BY <4>2
          <6>2. loan * (whole - (1 + rate) * y) = loan * whole - loan * ((1 + rate) * y)  BY <3>3, <6>1
          <6>3. loan * ((1 + rate) * y) = (1 + rate) * (loan * y)  BY <4>2
          <6>. QED  BY <6>2, <6>3
        <5>4. lw \in Int /\ ly \in Int /\ loan * (whole - y) = lw - ly  BY <5>1
        <5>. HIDE DEF lw, ly
        <5>5. (1 + rate) * (lw - ly) = (1 + rate) * lw - (1 + rate) * ly /\ (1 + rate) * lw = lw + rate * lw
          BY <5>4
        <5>6. rate * lw \in Int /\ (1 + rate) * ly \in Int  BY <5>4
        <5>. QED  BY <5>2, <5>3, <5>4, <5>5, <5>6
      <4>5. B[m] = loan * (whole - g[m])  BY <4>2, <4>3, <4>4
      <4>. QED  BY <4>1, <4>5
    <3>. HIDE DEF Z
    <3>7. 0 .. n \subseteq Z  BY <1>1, <3>5, <3>6, Monthwise
    <3>8. ASSUME NEW m \in 0 .. n PROVE B[m] = 0 <=> m = n
      <4>1. B[m] = loan * (whole - g[m]) /\ g[m] \in Int  BY <3>2, <3>7 DEF Z
      <4>. DEFINE left == whole - g[m]
      <4>2. left \in Int /\ (left = 0 <=> g[m] = whole)  BY <3>3, <4>1
      <4>3. loan * left = 0 <=> left = 0
        <5>. HIDE DEF left
        <5>. QED  BY <4>2
      <4>4. g[m] = whole <=> m = n  BY <3>2 DEF whole
      <4>. QED  BY <4>1, <4>2, <4>3, <4>4
    <3>. QED  BY <3>8
  <2>. QED  BY <2>1, <2>2
<1>. QED  BY <1>4, <1>5

-----------------------------------------------------------------------------
(***************************************************************************)
(* The deposit.  What a home brings is counted once in all the shares the  *)
(* household has in it.                                                    *)
(***************************************************************************)
\* The rows and the columns of a table.
Row(z, a, B) == [b \in B |-> z[<<a, b>>]]
Column(z, b, A) == [a \in A |-> z[<<a, b>>]]
Table(z, A, B) == Whole(z, A \X B)
RowSums(rows, z, A, B) == \A a \in A : rows[a] = SumOn(Row(z, a, B), B)
ColumnSums(cols, z, A, B) == \A b \in B : cols[b] = SumOn(Column(z, b, A), A)

\* Sums may be taken in either order.
LEMMA SumSwap ==
    ASSUME NEW A, IsFiniteSet(A), NEW B, IsFiniteSet(B), NEW z, Table(z, A, B),
           NEW rows, RowSums(rows, z, A, B), NEW cols, ColumnSums(cols, z, A, B)
    PROVE  SumOn(rows, A) = SumOn(cols, B)
<1>. USE DEF Row, Column, Table, RowSums, ColumnSums
<1>. DEFINE row(a) == Row(z, a, B)
            col(b) == Column(z, b, A)
            part(T) == [b \in B |-> SumOn(col(b), T)]
            G == {T \in SUBSET A : SumOn(rows, T) = SumOn(part(T), B)}
<1>1. \A a \in A : Whole(row(a), B)  BY DEF Whole
<1>2. \A b \in B : Whole(col(b), A)  BY DEF Whole
<1>3. Whole(rows, A)
  <2>1. ASSUME NEW a \in A PROVE rows[a] \in Int
    <3>1. rows[a] = SumOn(row(a), B)  OBVIOUS
    <3>2. Whole(row(a), B)  BY <1>1
    <3>. HIDE DEF row
    <3>3. SumOn(row(a), B) \in Int  BY <3>2, SumInt
    <3>. QED  BY <3>1, <3>3
  <2>. QED  BY <2>1 DEF Whole
<1>4. \A T \in SUBSET A : Whole(part(T), B)
  <2>. HIDE DEF col
  <2>1. \A T \in SUBSET A : \A b \in B : SumOn(col(b), T) \in Int  BY <1>2, SumInt
  <2>. QED  BY <2>1 DEF Whole
<1>5. {} \in G
  <2>1. SumOn(rows, {}) = 0  BY SumNone
  <2>2. \A b \in B : part({})[b] = 0
    <3>. HIDE DEF col
    <3>. QED  BY SumNone
  <2>. DEFINE none == part({})
  <2>3. \A b \in B : none[b] = 0  BY <2>2
  <2>. HIDE DEF none, part
  <2>4. SumOn(none, B) = 0  BY <2>3, SumZero
  <2>. QED  BY <2>1, <2>4 DEF none
<1>6. ASSUME NEW T \in SUBSET A, NEW x \in A \ T, T \in G PROVE T \cup {x} \in G
  <2>1. SumOn(rows, T \cup {x}) = rows[x] + SumOn(rows, T)  BY <1>3, SumAdds
  <2>2. rows[x] = SumOn(row(x), B)  OBVIOUS
  <2>. DEFINE f == row(x)
              g == part(T)
              h == part(T \cup {x})
  <2>3. \A b \in B : h[b] = f[b] + g[b]
    <3>1. ASSUME NEW b \in B PROVE h[b] = f[b] + g[b]
      <4>1. col(b)[x] = f[b]  OBVIOUS
      <4>2. h[b] = SumOn(col(b), T \cup {x}) /\ g[b] = SumOn(col(b), T)
        <5>. HIDE DEF col
        <5>. QED  OBVIOUS
      <4>. HIDE DEF col, f, g, h, part
      <4>3. SumOn(col(b), T \cup {x}) = col(b)[x] + SumOn(col(b), T)  BY <1>2, SumAdds
      <4>. QED  BY <4>1, <4>2, <4>3
    <3>. QED  BY <3>1
  <2>4. Whole(f, B) /\ Whole(g, B)
    <3>1. T \in SUBSET A /\ x \in A  OBVIOUS
    <3>2. Whole(row(x), B)  BY <1>1, <3>1
    <3>3. Whole(part(T), B)  BY <1>4, <3>1
    <3>. QED  BY <3>2, <3>3
  <2>5. SumOn(rows, T) = SumOn(g, B)  BY <1>6
  <2>. HIDE DEF f, g, h, part
  <2>6. SumOn(h, B) = SumOn(f, B) + SumOn(g, B)  BY <2>3, <2>4, SumPlus
  <2>7. SumOn(rows, T \cup {x}) = SumOn(h, B)  BY <2>1, <2>2, <2>5, <2>6 DEF f
  <2>. QED  BY <2>7 DEF h
<1>7. A \in G
  <2>. HIDE DEF G
  <2>. QED  BY <1>5, <1>6, ByElement
<1>8. \A b \in B : part(A)[b] = cols[b]  OBVIOUS
<1>9. SumOn(cols, B) = SumOn(part(A), B)
  <2>. DEFINE all == part(A)
  <2>1. Whole(all, B)
    <3>1. A \in SUBSET A  OBVIOUS
    <3>. HIDE DEF part
    <3>. QED  BY <1>4, <3>1
  <2>2. \A b \in B : cols[b] = all[b]  BY <1>8
  <2>. HIDE DEF all, part
  <2>3. SumOn(cols, B) = SumOn(all, B)  BY <2>1, <2>2, SumSame
  <2>. QED  BY <2>3 DEF all
<1>10. SumOn(rows, A) = SumOn(part(A), B)
  <2>. HIDE DEF part
  <2>. QED  BY <1>7
<1>. QED  BY <1>9, <1>10

\* The places at which a name stands, and those at which one of some names does.
At(D, nm, n) == {i \in D : nm[i] = n}
AtAny(D, nm, N) == {i \in D : nm[i] \in N}

\* What is filed under some names is the sum of what is filed under each.
LEMMA SumByName ==
    ASSUME NEW D, IsFiniteSet(D), NEW f, Whole(f, D), NEW nm, NEW N, IsFiniteSet(N),
           NEW filed, \A n \in N : filed[n] = SumOn(f, At(D, nm, n))
    PROVE  SumOn(filed, N) = SumOn(f, AtAny(D, nm, N))
<1>. USE DEF At, AtAny
<1>. DEFINE under(T) == AtAny(D, nm, T)
            G == {T \in SUBSET N : SumOn(filed, T) = SumOn(f, under(T))}
<1>1. \A T : under(T) \in SUBSET D  OBVIOUS
<1>2. Whole(filed, N)
  <2>1. ASSUME NEW n \in N PROVE filed[n] \in Int
    <3>. DEFINE U == At(D, nm, n)
    <3>1. filed[n] = SumOn(f, U) /\ U \in SUBSET D  OBVIOUS
    <3>. HIDE DEF U
    <3>. QED  BY <3>1, SumInt
  <2>. QED  BY <2>1 DEF Whole
<1>3. {} \in G
  <2>1. under({}) = {}  OBVIOUS
  <2>. HIDE DEF under
  <2>. QED  BY <2>1, SumNone
<1>4. ASSUME NEW T \in SUBSET N, NEW x \in N \ T, T \in G PROVE T \cup {x} \in G
  <2>. DEFINE U == At(D, nm, x)
  <2>1. under(T \cup {x}) = under(T) \cup U /\ under(T) \cap U = {} /\ under(T) \cup U \in SUBSET D  OBVIOUS
  <2>2. filed[x] = SumOn(f, U)  OBVIOUS
  <2>3. SumOn(filed, T \cup {x}) = filed[x] + SumOn(filed, T)  BY <1>2, SumAdds
  <2>4. SumOn(filed, T) = SumOn(f, under(T))  BY <1>4
  <2>. HIDE DEF under, U
  <2>5. IsFiniteSet(under(T) \cup U) /\ Whole(f, under(T) \cup U)  BY <2>1, FS_Subset DEF Whole
  <2>6. /\ SumOn(f, under(T) \cup U) = SumOn(f, under(T)) + SumOn(f, U)
        /\ SumOn(f, under(T)) \in Int /\ SumOn(f, U) \in Int
    BY <2>1, <2>5, SumJoins
  <2>7. SumOn(filed, T \cup {x}) = SumOn(f, under(T) \cup U)  BY <2>2, <2>3, <2>4, <2>6
  <2>8. SumOn(filed, T \cup {x}) = SumOn(f, under(T \cup {x}))  BY <2>1, <2>7, Zenon
  <2>. QED  BY <2>8
<1>5. N \in G
  <2>. HIDE DEF G
  <2>. QED  BY <1>3, <1>4, ByElement
<1>. QED  BY <1>5

\* Whose homes are sold, what they bring, and the parts of them that are given away.
LEMMA SellersAreAdults ==
    ASSUME NEW h
    PROVE  /\ Sellers(h) \in SUBSET Adults /\ IsFiniteSet(Sellers(h)) /\ IsFiniteSet(Adults)
           /\ Adults \subseteq People
<1>1. Sellers(h) \in SUBSET Adults /\ Adults \subseteq People  BY DEF Sellers, People
<1>2. IsFiniteSet(Adults)  BY PeopleAreFinite
<1>. QED  BY <1>1, <1>2, FS_Subset

LEMMA GrossIsNat ==
    ASSUME NEW h, WellFormed(h), NEW p \in People
    PROVE  Gross(h, p) \in Nat /\ h.persons[p].sale \in Int /\ h.persons[p].owed \in Int
           /\ h.persons[p].cash \in Int
<1>1. {h.persons[p].sale, h.persons[p].owed, h.persons[p].cash} \subseteq Int  BY DEF WellFormed
<1>2. h.persons[p].sale \in Int /\ h.persons[p].owed \in Int /\ h.persons[p].cash \in Int  BY <1>1
<1>. QED  BY <1>2 DEF Gross, AtLeastZero

\* The parts of a home that are given away: the i-th is Part[i], to Holder[i].
Places(person) == DOMAIN person.coOwners
Part(person) == [i \in Places(person) |-> person.coOwners[i].share]
Holder(person) == [i \in Places(person) |-> person.coOwners[i].name]

LEMMA SeqElement == ASSUME NEW R, NEW s \in Seq(R), NEW i \in DOMAIN s PROVE s[i] \in R
OBVIOUS

LEMMA PartIsNat ==
    ASSUME NEW h, WellFormed(h), NEW p \in People, NEW i \in Places(h.persons[p])
    PROVE  Part(h.persons[p])[i] \in Nat
<1>. DEFINE co == h.persons[p].coOwners
            R == [name : STRING, share : 1 .. 100]
<1>1. co \in Seq(R) /\ i \in DOMAIN co /\ Part(h.persons[p])[i] = co[i].share
  BY DEF WellFormed, Places, Part
<1>2. co[i] \in R
  <2>. HIDE DEF co, R
  <2>. QED  BY <1>1, SeqElement
<1>3. co[i].share \in 1 .. 100
  <2>. HIDE DEF co
  <2>. QED  BY <1>2
<1>4. co[i].share \in Nat  BY <1>3
<1>. QED  BY <1>1, <1>4, Zenon

LEMMA PartsOf ==
    ASSUME NEW h, WellFormed(h), NEW p \in People
    PROVE  LET person == h.persons[p]
           IN  /\ IsFiniteSet(Places(person))
               /\ Whole(Part(person), Places(person))
               /\ GivenAway(person) = SumOn(Part(person), Places(person))
               /\ GivenAway(person) \in Nat
               /\ GivenAway(person) <= 100
               /\ IsFiniteSet(CoOwnersOf(person))
               /\ \A i \in Places(person) : Holder(person)[i] \in CoOwnersOf(person)
<1>. DEFINE person == h.persons[p]
            co == person.coOwners
            D == Places(person)
<1>1. co \in Seq([name : STRING, share : 1 .. 100]) /\ GivenAway(person) <= 100
  BY DEF WellFormed
<1>2. IsFiniteSet(D) /\ D = 1 .. Len(co)
  <2>1. D = DOMAIN co  BY DEF Places
  <2>. HIDE DEF D, co
  <2>2. D = 1 .. Len(co) /\ Len(co) \in Nat  BY <1>1, <2>1
  <2>. QED  BY <2>2, FS_Interval
<1>3. \A i \in D : Part(person)[i] \in Nat  BY PartIsNat
<1>4. Whole(Part(person), D)
  <2>. HIDE DEF D, person
  <2>. QED  BY <1>3 DEF Whole
<1>5. GivenAway(person) = SumOn(Part(person), D)
  <2>1. GivenAway(person) = SumFunction(Part(person)) /\ DOMAIN Part(person) = D
    BY DEF GivenAway, Part, Places
  <2>. HIDE DEF person, D
  <2>. QED  BY <2>1, SumIsOn
<1>6. GivenAway(person) \in Nat
  <2>. HIDE DEF person, D
  <2>. QED  BY <1>2, <1>3, <1>5, SumNotNegative
<1>7. CoOwnersOf(person) = {Holder(person)[i] : i \in D}  BY DEF CoOwnersOf, Holder, Places
<1>8. IsFiniteSet(CoOwnersOf(person))
  <2>. DEFINE C == CoOwnersOf(person)
              f == Holder(person)
  <2>1. f \in [D -> C] /\ \A t \in C : \E i \in D : f[i] = t  BY <1>7 DEF Holder
  <2>. HIDE DEF C, f, D
  <2>2. f \in Surjection(D, C)  BY <2>1 DEF Surjection
  <2>3. IsFiniteSet(C)  BY <1>2, <2>2, FS_Surjection
  <2>. QED  BY <2>3 DEF C
<1>9. \A i \in D : Holder(person)[i] \in CoOwnersOf(person)  BY <1>7
<1>. QED  BY <1>1, <1>2, <1>4, <1>5, <1>6, <1>8, <1>9

\* The part a name has is the sum of what is filed under it, and nothing under other names.
LEMMA ShareIsFiled ==
    ASSUME NEW h, WellFormed(h), NEW p \in People, NEW n
    PROVE  LET person == h.persons[p]
           IN  /\ ShareOf(person, n) = SumOn(Part(person), At(Places(person), Holder(person), n))
               /\ ShareOf(person, n) \in Nat
               /\ n \notin CoOwnersOf(person) => ShareOf(person, n) = 0
<1>. DEFINE person == h.persons[p]
            D == Places(person)
            parts == Part(person)
            of == At(D, Holder(person), n)
            some == [i \in {j \in DOMAIN person.coOwners : person.coOwners[j].name = n}
                        |-> person.coOwners[i].share]
<1>1. ShareOf(person, n) = SumFunction(some)  BY DEF ShareOf, EntriesOf
<1>2. DOMAIN some = of /\ of \in SUBSET D /\ \A i \in of : some[i] = parts[i]
  BY DEF At, Holder, Part, Places
<1>3. \A i \in D : parts[i] \in Nat  BY PartIsNat
<1>4. IsFiniteSet(D) /\ Whole(parts, D)  BY PartsOf
<1>5. n \notin CoOwnersOf(person) => of = {}  BY DEF At, Holder, Places, CoOwnersOf
<1>. HIDE DEF some, parts, of, D, person
<1>6. SumFunction(some) = SumOn(parts, of)  BY <1>2, <1>4, SumOfSome
<1>7. SumOn(parts, of) \in Nat
  <2>1. IsFiniteSet(of) /\ \A i \in of : parts[i] \in Nat  BY <1>2, <1>3, <1>4, FS_Subset
  <2>. QED  BY <2>1, SumNotNegative
<1>8. SumOn(parts, {}) = 0  BY SumNone
<1>9. /\ ShareOf(person, n) = SumOn(parts, of)
      /\ ShareOf(person, n) \in Nat
      /\ n \notin CoOwnersOf(person) => ShareOf(person, n) = 0
  BY <1>1, <1>5, <1>6, <1>7, <1>8
<1>. QED  BY <1>9 DEF person, parts, of, D

\* What a home gives away goes to adults of the household, or is lost to it.
Kept(h, q) == SumOn([n \in Adults \ {q} |-> ShareOf(h.persons[q], n)], Adults \ {q})
Lost(h, q) == SumFunction([n \in CoOwnersOf(h.persons[q]) \ (Adults \ {q}) |-> ShareOf(h.persons[q], n)])

LEMMA GivenToSomebody ==
    ASSUME NEW h, WellFormed(h), NEW q \in Adults
    PROVE  GivenAway(h.persons[q]) = Kept(h, q) + Lost(h, q) /\ Kept(h, q) \in Int /\ Lost(h, q) \in Int
<1>. DEFINE person == h.persons[q]
            D == Places(person)
            parts == Part(person)
            names == Holder(person)
            here == Adults \ {q}
            away == CoOwnersOf(person) \ here
            share == [n \in here \cup away |-> ShareOf(person, n)]
<1>1. q \in People /\ IsFiniteSet(Adults)  BY PeopleAreFinite
<1>2. /\ IsFiniteSet(D) /\ Whole(parts, D)
      /\ GivenAway(person) = SumOn(parts, D)
      /\ IsFiniteSet(CoOwnersOf(person))
      /\ \A i \in D : names[i] \in CoOwnersOf(person)
  BY <1>1, PartsOf
<1>2a. \A n : ShareOf(person, n) = SumOn(parts, At(D, names, n)) /\ ShareOf(person, n) \in Nat
  BY <1>1, ShareIsFiled
<1>3. IsFiniteSet(here \cup away) /\ here \cap away = {}
  <2>1. IsFiniteSet(here) /\ IsFiniteSet(away)
    <3>1. here \in SUBSET Adults /\ away \in SUBSET CoOwnersOf(person)  OBVIOUS
    <3>. HIDE DEF here, away, person
    <3>. QED  BY <1>1, <1>2, <3>1, FS_Subset
  <2>2. here \cap away = {}  OBVIOUS
  <2>. HIDE DEF here, away
  <2>. QED  BY <2>1, <2>2, FS_Union
<1>4. Whole(share, here \cup away)
  <2>1. \A n \in here \cup away : share[n] \in Nat
    <3>. HIDE DEF person
    <3>. QED  BY <1>2a
  <2>. HIDE DEF share
  <2>. QED  BY <2>1 DEF Whole
<1>5. \A n \in here \cup away : share[n] = SumOn(parts, At(D, names, n))
  <2>. HIDE DEF parts, D, names, person
  <2>. QED  BY <1>2a
<1>6. AtAny(D, names, here \cup away) = D
  <2>. HIDE DEF D, names, person
  <2>. QED  BY <1>2 DEF AtAny
<1>. HIDE DEF D, parts, names
<1>7. SumOn(share, here \cup away) = SumOn(parts, AtAny(D, names, here \cup away))
  <2>. HIDE DEF share, here, away
  <2>. QED  BY <1>2, <1>3, <1>5, SumByName
<1>8. SumOn(share, here \cup away) = GivenAway(person)  BY <1>2, <1>6, <1>7
<1>9. /\ SumOn(share, here \cup away) = SumOn(share, here) + SumOn(share, away)
      /\ SumOn(share, here) \in Int /\ SumOn(share, away) \in Int
  <2>. HIDE DEF share, here, away
  <2>. QED  BY <1>3, <1>4, SumJoins
<1>10. Kept(h, q) = SumOn(share, here)
  <2>. DEFINE f == [n \in here |-> ShareOf(person, n)]
  <2>1. \A n \in here : f[n] = share[n]  OBVIOUS
  <2>2. Kept(h, q) = SumFunction(f) /\ DOMAIN f = here  BY SumIsOn DEF Kept
  <2>3. here \in SUBSET (here \cup away)  OBVIOUS
  <2>. HIDE DEF f, share, here, away
  <2>. QED  BY <1>3, <1>4, <2>1, <2>2, <2>3, SumOfSome
<1>11. Lost(h, q) = SumOn(share, away)
  <2>. DEFINE f == [n \in away |-> ShareOf(person, n)]
  <2>1. \A n \in away : f[n] = share[n]  OBVIOUS
  <2>2. Lost(h, q) = SumFunction(f) /\ DOMAIN f = away  BY DEF Lost
  <2>3. away \in SUBSET (here \cup away)  OBVIOUS
  <2>. HIDE DEF f, share, here, away
  <2>. QED  BY <1>3, <1>4, <2>1, <2>2, <2>3, SumOfSome
<1>. QED  BY <1>8, <1>9, <1>10, <1>11

\* What q's home brings p, of whom it is not; and what p keeps of their own.
Brings(h) == [pq \in Adults \X Sellers(h) |->
                IF pq[2] = pq[1] THEN 0 ELSE Gross(h, pq[2]) * ShareOf(h.persons[pq[2]], pq[1])]
Keeps(h) == [p \in Adults |-> IF p \in Sellers(h) THEN Gross(h, p) * (100 - GivenAway(h.persons[p])) ELSE 0]
FromOthers(h) == [p \in Adults |-> SumOn(Row(Brings(h), p, Sellers(h)), Sellers(h))]
ToOthers(h) == [q \in Sellers(h) |-> SumOn(Column(Brings(h), q, Adults), Adults)]

LEMMA BringsIsNat ==
    ASSUME NEW h, WellFormed(h), NEW p \in Adults, NEW q \in Sellers(h)
    PROVE  /\ Brings(h)[<<p, q>>] = IF q = p THEN 0 ELSE Gross(h, q) * ShareOf(h.persons[q], p)
           /\ Brings(h)[<<p, q>>] \in Nat
<1>1. Brings(h)[<<p, q>>] = IF q = p THEN 0 ELSE Gross(h, q) * ShareOf(h.persons[q], p)
  BY DEF Brings
<1>2. Gross(h, q) \in Nat /\ ShareOf(h.persons[q], p) \in Nat
  <2>1. q \in People  BY SellersAreAdults
  <2>. QED  BY <2>1, GrossIsNat, ShareIsFiled
<1>3. Gross(h, q) * ShareOf(h.persons[q], p) \in Nat  BY <1>2
<1>. QED  BY <1>1, <1>3

LEMMA KeepsIsNat ==
    ASSUME NEW h, WellFormed(h), NEW p \in Adults
    PROVE  /\ Keeps(h)[p] = IF p \in Sellers(h) THEN Gross(h, p) * (100 - GivenAway(h.persons[p])) ELSE 0
           /\ Keeps(h)[p] \in Nat
<1>1. Keeps(h)[p] = IF p \in Sellers(h) THEN Gross(h, p) * (100 - GivenAway(h.persons[p])) ELSE 0
  BY DEF Keeps
<1>2. Gross(h, p) \in Nat /\ 100 - GivenAway(h.persons[p]) \in Nat
  <2>1. p \in People  BY SellersAreAdults
  <2>2. Gross(h, p) \in Nat  BY <2>1, GrossIsNat
  <2>3. GivenAway(h.persons[p]) \in Nat /\ GivenAway(h.persons[p]) <= 100  BY <2>1, PartsOf
  <2>4. 100 - GivenAway(h.persons[p]) \in Nat  BY <2>3
  <2>. QED  BY <2>2, <2>4
<1>3. Gross(h, p) * (100 - GivenAway(h.persons[p])) \in Nat  BY <1>2
<1>. QED  BY <1>1, <1>3

\* The equity of a person, in these terms.
LEMMA EquityOf ==
    ASSUME NEW h, WellFormed(h), NEW p \in Adults
    PROVE  /\ EquityFor(h, p) = Keeps(h)[p] + FromOthers(h)[p]
           /\ FromOthers(h)[p] \in Nat
<1>. DEFINE S == Sellers(h)
            f == [q \in S |-> Brings(h)[<<p, q>>]]
            g == [q \in S \ {p} |-> Gross(h, q) * ShareOf(h.persons[q], p)]
<1>1. IsFiniteSet(S) /\ S \ {p} \in SUBSET S /\ DOMAIN g = S \ {p}  BY SellersAreAdults
<1>2. \A q \in S : f[q] \in Nat /\ f[q] = IF q = p THEN 0 ELSE Gross(h, q) * ShareOf(h.persons[q], p)
  BY BringsIsNat
<1>3. Whole(f, S)
  <2>. HIDE DEF f, S
  <2>. QED  BY <1>2 DEF Whole
<1>4. \A q \in S \ {p} : g[q] = f[q]
  <2>. HIDE DEF f, S
  <2>. QED  BY <1>2
<1>5. EquityFor(h, p) = Keeps(h)[p] + SumFunction(g)  BY DEF EquityFor, Keeps
<1>6. FromOthers(h)[p] = SumOn(f, S)  BY DEF FromOthers, Row
<1>. HIDE DEF f, g, S
<1>7. SumFunction(g) = SumOn(f, S \ {p}) /\ SumOn(f, S \ {p}) \in Int  BY <1>1, <1>3, <1>4, SumOfSome
<1>8. SumOn(f, S \ {p}) = SumOn(f, S)
  <2>1. CASE p \in S
    <3>1. SumOn(f, S) = f[p] + SumOn(f, S \ {p}) /\ f[p] = 0  BY <1>1, <1>2, <1>3, <2>1, SumTakes
    <3>. QED  BY <1>7, <3>1
  <2>2. CASE p \notin S
    <3>1. S \ {p} = S  BY <2>2
    <3>. QED  BY <3>1
  <2>. QED  BY <2>1, <2>2
<1>9. SumOn(f, S) \in Nat  BY <1>1, <1>2, SumNotNegative
<1>. QED  BY <1>5, <1>6, <1>7, <1>8, <1>9

\* What q's home brings the others is its value times the parts they have.
LEMMA BroughtByHome ==
    ASSUME NEW h, WellFormed(h), NEW q \in Sellers(h)
    PROVE  ToOthers(h)[q] = Gross(h, q) * Kept(h, q)
<1>. DEFINE f == [p \in Adults |-> Brings(h)[<<p, q>>]]
            g == [p \in Adults \ {q} |-> ShareOf(h.persons[q], p)]
            rest == Adults \ {q}
            k == Gross(h, q)
<1>1. q \in Adults /\ q \in People /\ IsFiniteSet(Adults) /\ rest \in SUBSET Adults /\ DOMAIN g = rest
  BY SellersAreAdults
<1>2. IsFiniteSet(rest)  BY <1>1, FS_Subset
<1>3. k \in Int  BY <1>1, GrossIsNat
<1>4. \A p \in Adults : f[p] \in Nat /\ f[p] = IF q = p THEN 0 ELSE k * ShareOf(h.persons[q], p)
  BY BringsIsNat
<1>5. \A p \in rest : g[p] \in Nat /\ g[p] = ShareOf(h.persons[q], p)  BY <1>1, ShareIsFiled
<1>6. ToOthers(h)[q] = SumOn(f, Adults) /\ Kept(h, q) = SumOn(g, rest)  BY DEF ToOthers, Kept, Column
<1>7. \A p \in rest : f[p] = k * g[p]
  <2>. HIDE DEF f, g, k
  <2>. QED  BY <1>4, <1>5
<1>. HIDE DEF f, g, k
<1>8. Whole(f, Adults) /\ Whole(g, rest)
  <2>1. Whole(f, Adults)  BY <1>4 DEF Whole
  <2>. HIDE DEF rest
  <2>2. Whole(g, rest)  BY <1>5 DEF Whole
  <2>. QED  BY <2>1, <2>2
<1>9. SumOn(f, Adults) = f[q] + SumOn(f, rest) /\ f[q] = 0 /\ SumOn(f, rest) \in Int
  <2>1. SumOn(f, Adults) = f[q] + SumOn(f, rest)  BY <1>1, <1>8, SumTakes
  <2>2. SumOn(f, rest) \in Int  BY <1>1, <1>8, SumInt
  <2>. QED  BY <1>1, <1>4, <2>1, <2>2
<1>10. SumOn(f, rest) = k * SumOn(g, rest)
  <2>. HIDE DEF rest
  <2>. QED  BY <1>2, <1>3, <1>7, <1>8, SumTimes
<1>. QED  BY <1>6, <1>9, <1>10 DEF k

\* The value of the homes that are sold, less what is lost to the household.
Homes(h) == [q \in Sellers(h) |-> 100 * Gross(h, q) - Gross(h, q) * Lost(h, q)]

LEMMA EquityIsShared ==
    ASSUME NEW h, WellFormed(h), NEW e, \A p \in Adults : e[p] = EquityFor(h, p)
    PROVE  SumOn(e, Adults) = SumOn(Homes(h), Sellers(h)) /\ Whole(e, Adults)
<1>. DEFINE S == Sellers(h)
            own == Keeps(h)
            rows == FromOthers(h)
            cols == ToOthers(h)
            z == Brings(h)
<1>1. S \in SUBSET Adults /\ IsFiniteSet(S) /\ IsFiniteSet(Adults) /\ Adults \subseteq People
  BY SellersAreAdults
<1>2. /\ \A p \in Adults : own[p] \in Nat /\ rows[p] \in Nat /\ e[p] = own[p] + rows[p]
      /\ Whole(own, Adults) /\ Whole(rows, Adults) /\ Whole(e, Adults)
  <2>1. \A p \in Adults : own[p] \in Nat /\ rows[p] \in Nat /\ e[p] = own[p] + rows[p]
    BY KeepsIsNat, EquityOf
  <2>. HIDE DEF own, rows
  <2>. QED  BY <2>1 DEF Whole
<1>3. SumOn(e, Adults) = SumOn(own, Adults) + SumOn(rows, Adults)
  <2>. HIDE DEF own, rows
  <2>. QED  BY <1>1, <1>2, SumPlus
<1>4. SumOn(rows, Adults) = SumOn(cols, S)
  <2>1. Table(z, Adults, S)
    <3>1. ASSUME NEW pq \in Adults \X S PROVE z[pq] \in Int
      <4>1. PICK p \in Adults, q \in S : pq = <<p, q>>  OBVIOUS
      <4>2. z[<<p, q>>] \in Nat  BY BringsIsNat
      <4>. QED  BY <4>1, <4>2
    <3>. HIDE DEF z, S
    <3>. QED  BY <3>1 DEF Whole, Table
  <2>2. RowSums(rows, z, Adults, S)  BY DEF FromOthers, RowSums
  <2>3. ColumnSums(cols, z, Adults, S)  BY DEF ToOthers, ColumnSums
  <2>. HIDE DEF rows, cols, z, S
  <2>. QED  BY <1>1, <2>1, <2>2, <2>3, SumSwap
<1>5. SumOn(own, Adults) = SumOn(own, S)
  <2>1. S \cup (Adults \ S) = Adults /\ S \cap (Adults \ S) = {}  BY <1>1
  <2>2. \A p \in Adults \ S : own[p] = 0  BY KeepsIsNat
  <2>3. IsFiniteSet(Adults \ S)  BY <1>1, FS_Subset
  <2>. DEFINE R == Adults \ S
  <2>. HIDE DEF own, S
  <2>4. SumOn(own, R) = 0  BY <2>2, <2>3, SumZero
  <2>5. IsFiniteSet(S \cup R) /\ S \cap R = {} /\ Whole(own, S \cup R) /\ S \cup R = Adults  BY <1>1, <1>2, <2>1
  <2>. HIDE DEF R
  <2>6. SumOn(own, S \cup R) = SumOn(own, S) + SumOn(own, R) /\ SumOn(own, S) \in Int  BY <2>5, SumJoins
  <2>. QED  BY <2>4, <2>5, <2>6
<1>6. \A q \in S : Homes(h)[q] = own[q] + cols[q] /\ own[q] \in Int /\ cols[q] \in Int
  <2>1. ASSUME NEW q \in S PROVE Homes(h)[q] = own[q] + cols[q] /\ own[q] \in Int /\ cols[q] \in Int
    <3>. DEFINE k == Gross(h, q)
                given == GivenAway(h.persons[q])
                kept == Kept(h, q)
                lost == Lost(h, q)
    <3>1. q \in Adults /\ q \in People  BY <1>1
    <3>2. k \in Int /\ given = kept + lost /\ kept \in Int /\ lost \in Int
      BY <3>1, GrossIsNat, GivenToSomebody
    <3>3. Homes(h)[q] = 100 * k - k * lost  BY DEF Homes
    <3>4. own[q] = k * (100 - given)  BY <3>1, KeepsIsNat
    <3>5. cols[q] = k * kept  BY BroughtByHome
    <3>. HIDE DEF k, given, kept, lost
    <3>6. k * (100 - given) = 100 * k - k * kept - k * lost
      <4>1. k * (100 - (kept + lost)) = 100 * k - k * kept - k * lost  BY <3>2
      <4>. QED  BY <3>2, <4>1
    <3>7. k * kept \in Int /\ k * lost \in Int /\ 100 * k \in Int  BY <3>2
    <3>8. own[q] \in Int /\ cols[q] \in Int  BY <3>4, <3>5, <3>6, <3>7
    <3>9. Homes(h)[q] = own[q] + cols[q]  BY <3>3, <3>4, <3>5, <3>6, <3>7
    <3>. QED  BY <3>8, <3>9
  <2>. QED  BY <2>1
<1>. HIDE DEF own, rows, cols, S
<1>7. Whole(own, S) /\ Whole(cols, S)  BY <1>6 DEF Whole
<1>8. SumOn(Homes(h), S) = SumOn(own, S) + SumOn(cols, S)  BY <1>1, <1>6, <1>7, SumPlus
<1>9. SumOn(e, Adults) = SumOn(Homes(h), S)  BY <1>3, <1>4, <1>5, <1>8
<1>. QED  BY <1>2, <1>9 DEF S

\* The household's deposit is what its homes bring, less what is lost, and its cash.
LEMMA DepositOfHousehold == ASSUME NEW h, WellFormed(h) PROVE DepositIsShared(h)
<1>. DEFINE e == HomeEquityContributions(h)
            cash == [p \in Adults |-> 100 * h.persons[p].cash]
            counted == [p \in Adults |-> IF h.current THEN 0 ELSE 100 * h.persons[p].cash]
            total == [p \in Adults |-> HomeEquityContributions(h)[p]
                                         + (IF h.current THEN 0 ELSE 100 * h.persons[p].cash)]
            deposit == [p \in Adults |-> DepositOf(h, p)]
            homes == SumOn(Homes(h), Sellers(h))
<1>1. IsFiniteSet(Adults) /\ Adults \subseteq People  BY SellersAreAdults
<1>2. SumOn(e, Adults) = homes /\ Whole(e, Adults)
  <2>1. \A p \in Adults : e[p] = EquityFor(h, p)  BY DEF HomeEquityContributions
  <2>. HIDE DEF e
  <2>. QED  BY <2>1, EquityIsShared
<1>3. \A p \in Adults : cash[p] \in Int /\ counted[p] \in Int
  <2>1. \A p \in Adults : h.persons[p].cash \in Int  BY <1>1, GrossIsNat
  <2>. QED  BY <2>1
<1>4. /\ \A p \in Adults : total[p] = e[p] + counted[p] /\ deposit[p] = e[p] + cash[p]
      /\ DOMAIN total = Adults /\ DOMAIN deposit = Adults /\ DOMAIN cash = Adults
      /\ h.current => \A p \in Adults : counted[p] = 0
      /\ ~h.current => \A p \in Adults : counted[p] = cash[p]
  BY DEF DepositOf
<1>5. EquityTotal(h) = SumFunction(total) /\ DepositTotal(h) = SumFunction(deposit)
  BY DEF EquityTotal, DepositTotal
<1>6. SumFunction([q \in Sellers(h) |-> 100 * Gross(h, q) - Gross(h, q) * Lost(h, q)]) = homes
  <2>1. SumFunction(Homes(h)) = SumOn(Homes(h), DOMAIN Homes(h))  BY SumIsOn
  <2>. QED  BY <2>1 DEF Homes
<1>7. DepositIsShared(h) <=> /\ EquityTotal(h) = homes + (IF h.current THEN 0 ELSE SumFunction(cash))
                             /\ DepositTotal(h) = homes + SumFunction(cash)
  BY <1>6 DEF DepositIsShared, Lost
<1>. HIDE DEF e, cash, counted, total, deposit, homes
<1>8. Whole(cash, Adults) /\ Whole(counted, Adults)  BY <1>3 DEF Whole
<1>9. DepositTotal(h) = homes + SumFunction(cash)
  <2>1. SumOn(deposit, Adults) = SumOn(e, Adults) + SumOn(cash, Adults)  BY <1>1, <1>2, <1>4, <1>8, SumPlus
  <2>2. SumFunction(deposit) = SumOn(deposit, Adults) /\ SumFunction(cash) = SumOn(cash, Adults)
    BY <1>4, SumIsOn
  <2>. QED  BY <1>2, <1>5, <2>1, <2>2
<1>10. EquityTotal(h) = homes + (IF h.current THEN 0 ELSE SumFunction(cash))
  <2>1. SumOn(total, Adults) = SumOn(e, Adults) + SumOn(counted, Adults)  BY <1>1, <1>2, <1>4, <1>8, SumPlus
  <2>2. SumFunction(total) = SumOn(total, Adults) /\ SumFunction(cash) = SumOn(cash, Adults)
    BY <1>4, SumIsOn
  <2>3. h.current => SumOn(counted, Adults) = 0  BY <1>1, <1>4, SumZero
  <2>4. ~h.current => SumOn(counted, Adults) = SumOn(cash, Adults)  BY <1>1, <1>4, <1>8, SumSame
  <2>. QED  BY <1>2, <1>5, <2>1, <2>2, <2>3, <2>4
<1>. QED  BY <1>7, <1>9, <1>10

\* What others' homes bring p is what the homes in which p has a part bring.
LEMMA EquityFromSources ==
    ASSUME NEW h, WellFormed(h), NEW p \in Adults
    PROVE  FromOthers(h)[p] = SumOn(Row(Brings(h), p, Sellers(h)), Sources(h, p))
<1>. DEFINE S == Sellers(h)
            W == Sources(h, p)
            R == S \ W
            f == Row(Brings(h), p, S)
<1>1. S \in SUBSET Adults /\ IsFiniteSet(S) /\ Adults \subseteq People  BY SellersAreAdults
<1>2. W \cup R = S /\ W \cap R = {}  BY DEF Sources
<1>3. \A q \in S : f[q] \in Nat /\ f[q] = IF q = p THEN 0 ELSE Gross(h, q) * ShareOf(h.persons[q], p)
  BY BringsIsNat DEF Row
<1>4. \A q \in R : f[q] = 0
  <2>1. ASSUME NEW q \in R, q # p PROVE f[q] = 0
    <3>1. q \in S /\ q \in People /\ p \notin CoOwnersOf(h.persons[q])  BY <1>1, <2>1 DEF Sources
    <3>2. ShareOf(h.persons[q], p) = 0 /\ Gross(h, q) \in Nat  BY <3>1, ShareIsFiled, GrossIsNat
    <3>3. Gross(h, q) * 0 = 0  BY <3>2
    <3>. HIDE DEF f, S
    <3>. QED  BY <1>3, <2>1, <3>1, <3>2, <3>3
  <2>2. \A q \in R : q \in S  OBVIOUS
  <2>. HIDE DEF f, R, S
  <2>. QED  BY <1>3, <2>1, <2>2
<1>5. FromOthers(h)[p] = SumOn(f, S)  BY DEF FromOthers
<1>. HIDE DEF f, R, W, S
<1>6. IsFiniteSet(R) /\ IsFiniteSet(W \cup R) /\ Whole(f, W \cup R)
  <2>1. R \in SUBSET S  BY <1>2
  <2>2. IsFiniteSet(R)  BY <1>1, <2>1, FS_Subset
  <2>3. IsFiniteSet(W \cup R)  BY <1>1, <1>2, Zenon
  <2>4. Whole(f, S)  BY <1>3 DEF Whole
  <2>5. Whole(f, W \cup R)  BY <1>2, <2>4, Zenon
  <2>. QED  BY <2>2, <2>3, <2>5
<1>7. SumOn(f, R) = 0  BY <1>4, <1>6, SumZero
<1>8. SumOn(f, W \cup R) = SumOn(f, W) + SumOn(f, R) /\ SumOn(f, W) \in Int  BY <1>2, <1>6, SumJoins
<1>9. SumOn(f, S) = SumOn(f, W)
  <2>1. SumOn(f, W \cup R) = SumOn(f, W)  BY <1>7, <1>8
  <2>. QED  BY <1>2, <2>1, Zenon
<1>. QED  BY <1>5, <1>9 DEF f, S, W

\* The terms of a line, added up.
Added(terms) == SumFunction([t \in terms |-> t[2]])

LEMMA SumOfTwo ==
    ASSUME NEW x, NEW y, x # y, NEW f, f[x] \in Int, f[y] \in Int
    PROVE  SumOn(f, {x} \cup {y}) = f[x] + f[y] /\ IsFiniteSet({x} \cup {y})
<1>1. IsFiniteSet({x} \cup {y})
  <2>1. IsFiniteSet({x})  BY FS_Singleton
  <2>. QED  BY <2>1, FS_AddElement
<1>2. {x} \cap {y} = {} /\ Whole(f, {x} \cup {y})  BY DEF Whole
<1>3. SumOn(f, {x} \cup {y}) = SumOn(f, {x}) + SumOn(f, {y})  BY <1>1, <1>2, SumJoins
<1>. QED  BY <1>1, <1>3, SumOfOne

AllThree(x, y, z) == ({x} \cup {y}) \cup {z}

LEMMA SumOfThree ==
    ASSUME NEW x, NEW y, NEW z, x # y, x # z, y # z, NEW f, f[x] \in Int, f[y] \in Int, f[z] \in Int
    PROVE  SumOn(f, AllThree(x, y, z)) = f[x] + f[y] + f[z]
<1>. DEFINE two == {x} \cup {y}
<1>1. IsFiniteSet(two) /\ SumOn(f, two) = f[x] + f[y]  BY SumOfTwo
<1>2. two \cap {z} = {} /\ Whole(f, two \cup {z})  BY DEF Whole
<1>. HIDE DEF two
<1>3. IsFiniteSet(two \cup {z})  BY <1>1, FS_AddElement
<1>4. SumOn(f, two \cup {z}) = SumOn(f, two) + SumOn(f, {z})  BY <1>2, <1>3, SumJoins
<1>5. SumOn(f, {z}) = f[z]  BY SumOfOne
<1>6. SumOn(f, two \cup {z}) = f[x] + f[y] + f[z]  BY <1>1, <1>4, <1>5
<1>. QED  BY <1>6 DEF two, AllThree

LEMMA AddedThree ==
    ASSUME NEW x, NEW y, NEW z, x # y, x # z, y # z, x[2] \in Int, y[2] \in Int, z[2] \in Int
    PROVE  Added({x, y, z}) = x[2] + y[2] + z[2]
<1>. DEFINE S == AllThree(x, y, z)
            f == [t \in S |-> t[2]]
<1>1. f[x] = x[2] /\ f[y] = y[2] /\ f[z] = z[2] /\ {x, y, z} = S  BY DEF AllThree
<1>2. Added(S) = SumFunction(f) /\ DOMAIN f = S  BY DEF Added
<1>. HIDE DEF f
<1>3. f[x] \in Int /\ f[y] \in Int /\ f[z] \in Int  BY <1>1
<1>4. SumOn(f, AllThree(x, y, z)) = f[x] + f[y] + f[z]  BY <1>3, SumOfThree
<1>5. SumFunction(f) = SumOn(f, S)  BY <1>2, SumIsOn
<1>6. Added(S) = x[2] + y[2] + z[2]  BY <1>1, <1>2, <1>4, <1>5
<1>. HIDE DEF S
<1>. QED  BY <1>1, <1>6, Zenon

\* The terms the line of a person may have.
LEMMA AddedLines ==
    ASSUME NEW cash \in Int, NEW sale \in Int, NEW owed \in Int, NEW share \in Int, NEW whole \in Int
    PROVE  /\ Added({<<"cash", cash>>}) = cash
           /\ Added({<<"sale", sale>>, <<"mortgage", owed>>, <<"cash", cash>>}) = sale + owed + cash
           /\ Added({<<"home", whole>>, <<"home share", share>>, <<"cash", cash>>}) = whole + share + cash
           /\ Added({<<"part", share>>, <<"cash", cash>>}) = share + cash
<1>. DEFINE c == <<"cash", cash>>
            s == <<"sale", sale>>
            m == <<"mortgage", owed>>
            w == <<"home", whole>>
            k == <<"home share", share>>
            q == <<"part", share>>
            f(S) == [t \in S |-> t[2]]
<1>1. c # s /\ c # m /\ s # m /\ s # c /\ m # c /\ w # k /\ w # c /\ k # c /\ q # c  OBVIOUS
<1>2. \A S : /\ Added(S) = SumOn(f(S), S)
             /\ c \in S => f(S)[c] = cash
             /\ s \in S => f(S)[s] = sale
             /\ m \in S => f(S)[m] = owed
             /\ w \in S => f(S)[w] = whole
             /\ k \in S => f(S)[k] = share
             /\ q \in S => f(S)[q] = share
  <2>1. ASSUME NEW S PROVE Added(S) = SumOn(f(S), S)
    <3>1. Added(S) = SumFunction(f(S)) /\ DOMAIN f(S) = S  BY DEF Added
    <3>. HIDE DEF f
    <3>. QED  BY <3>1, SumIsOn
  <2>. QED  BY <2>1
<1>. HIDE DEF c, s, m, w, k, q, f
<1>3. Added({c}) = cash
  <2>1. f({c})[c] = cash  BY <1>2
  <2>. QED  BY <1>2, <2>1, SumOfOne
<1>5. Added({q, c}) = share + cash
  <2>. DEFINE S == {q} \cup {c}
  <2>1. f(S)[q] = share /\ f(S)[c] = cash /\ {q, c} = S  BY <1>2
  <2>2. SumOn(f(S), S) = share + cash
    <3>. DEFINE g == f(S)
    <3>1. g[q] = share /\ g[c] = cash  BY <2>1
    <3>. HIDE DEF g
    <3>2. SumOn(g, {q} \cup {c}) = g[q] + g[c]  BY <1>1, <3>1, SumOfTwo
    <3>. QED  BY <3>1, <3>2 DEF g
  <2>. HIDE DEF S
  <2>3. Added(S) = share + cash  BY <1>2, <2>2
  <2>. QED  BY <2>1, <2>3, Zenon
<1>6. Added({s, m, c}) = sale + owed + cash
  <2>1. s[2] = sale /\ m[2] = owed /\ c[2] = cash  BY DEF s, m, c
  <2>. QED  BY <1>1, <2>1, AddedThree
<1>7. Added({w, k, c}) = whole + share + cash
  <2>1. w[2] = whole /\ k[2] = share /\ c[2] = cash  BY DEF w, k, c
  <2>. QED  BY <1>1, <2>1, AddedThree
<1>. QED  BY <1>3, <1>5, <1>6, <1>7 DEF c, s, m, w, k, q

\* A part that is named once is the only one.
LastShare(person, name) == person.coOwners[Max(EntriesOf(person, name))].share
LEMMA OnePart ==
    ASSUME NEW h, WellFormed(h), NEW q \in People, NEW name, Cardinality(EntriesOf(h.persons[q], name)) = 1
    PROVE  LastShare(h.persons[q], name) = ShareOf(h.persons[q], name)
<1>. DEFINE person == h.persons[q]
            S == EntriesOf(person, name)
            parts == Part(person)
<1>1. S = At(Places(person), Holder(person), name) /\ S \in SUBSET Places(person)
  BY DEF EntriesOf, At, Holder, Places
<1>2. IsFiniteSet(S)  BY <1>1, PartsOf, FS_Subset
<1>3. ShareOf(person, name) = SumOn(parts, S)  BY <1>1, ShareIsFiled
<1>4. \A i \in S : parts[i] \in Nat /\ i \in Nat /\ parts[i] = person.coOwners[i].share
  <2>1. \A i \in Places(person) : parts[i] \in Nat  BY PartIsNat
  <2>2. \A i \in Places(person) : parts[i] = person.coOwners[i].share  BY DEF Part
  <2>3. Places(person) \subseteq Nat
    <3>1. person.coOwners \in Seq([name : STRING, share : 1 .. 100])  BY DEF WellFormed
    <3>. HIDE DEF person
    <3>. QED  BY <3>1 DEF Places
  <2>. HIDE DEF S, parts, person
  <2>. QED  BY <1>1, <2>1, <2>2, <2>3
<1>5. LastShare(person, name) = person.coOwners[Max(S)].share  BY DEF LastShare
<1>6. Cardinality(S) = 1  OBVIOUS
<1>. HIDE DEF S, parts, person
<1>7. PICK i : S = {i}  BY <1>2, <1>6, FS_Singleton
<1>8. i \in Nat /\ parts[i] \in Int /\ parts[i] = person.coOwners[i].share  BY <1>4, <1>7
<1>9. Max(S) = i  BY <1>7, <1>8 DEF Max
<1>10. SumOn(parts, {i}) = parts[i]  BY <1>8, SumOfOne
<1>11. SumOn(parts, S) = parts[i]  BY <1>7, <1>10, Zenon
<1>12. LastShare(person, name) = ShareOf(person, name)  BY <1>3, <1>5, <1>8, <1>9, <1>11
<1>. QED  BY <1>12 DEF person

\* A line of the deposit's provenance adds up, but for a home that is stated twice.
LEMMA LineOf ==
    ASSUME NEW h, WellFormed(h), NEW p \in Adults, OneHome(h, p), NEW cash \in Int
    PROVE  EquityLine(h, p, cash).result + StatedTwice(h, p) = Added(EquityLine(h, p, cash).terms)
<1>. DEFINE person == h.persons[p]
            share == HomeEquityContributions(h)[p]
            W == Sources(h, p)
            sold == p \in Sellers(h)
            holds == share > 0 /\ EffectiveSellingHome(person)
            last == CHOOSE q \in W : TRUE
            home == IF holds /\ GivenAway(person) = 0
                    THEN {<<"sale", 100 * person.sale>>, <<"mortgage", -100 * person.owed>>}
                    ELSE IF holds THEN {<<"home", 100 * Gross(h, p)>>, <<"home share", share>>}
                    ELSE IF share > 0 THEN {<<"part", LastPart(h, p)>>}
                    ELSE {}
            terms == home \cup {<<"cash", cash>>}
<1>1. p \in People  BY SellersAreAdults
<1>2. person.sale \in Int /\ person.owed \in Int /\ Gross(h, p) \in Nat
  BY <1>1, GrossIsNat
<1>3. /\ share = Keeps(h)[p] + FromOthers(h)[p]
      /\ Keeps(h)[p] = (IF sold THEN Gross(h, p) * (100 - GivenAway(person)) ELSE 0)
      /\ Keeps(h)[p] \in Nat /\ FromOthers(h)[p] \in Nat
  BY EquityOf, KeepsIsNat DEF HomeEquityContributions
<1>4. share \in Nat  BY <1>3
<1>5. EffectiveSellingHome(person) <=> sold  BY DEF Sellers
<1>6. EquityLine(h, p, cash).result = share + cash /\ EquityLine(h, p, cash).terms = terms
  BY DEF EquityLine
<1>7. Cardinality(W \cup ({p} \cap Sellers(h))) <= 1  BY DEF OneHome
<1>. DEFINE twice == StatedTwice(h, p)
<1>12. twice = IF sold /\ GivenAway(person) # 0 /\ share > 0 THEN 100 * Gross(h, p) ELSE 0  BY DEF StatedTwice
<1>. HIDE DEF twice
<1>8. IsFiniteSet(W) /\ p \notin W
  <2>1. W \in SUBSET Sellers(h)  BY DEF Sources
  <2>2. IsFiniteSet(W)  BY <2>1, SellersAreAdults, FS_Subset
  <2>. QED  BY <2>2 DEF Sources
<1>9. FromOthers(h)[p] = SumOn(Row(Brings(h), p, Sellers(h)), W)  BY EquityFromSources
<1>10. W = {} => FromOthers(h)[p] = 0
  <2>1. SumOn(Row(Brings(h), p, Sellers(h)), {}) = 0  BY SumNone
  <2>. HIDE DEF W
  <2>. QED  BY <1>9, <2>1
<1>11. share + cash + twice = Added(terms)
  <2>1. CASE share = 0
    <3>1. home = {}
      <4>. HIDE DEF share
      <4>. QED  BY <2>1
    <3>2. terms = {<<"cash", cash>>}  BY <3>1
    <3>4. twice = 0
      <4>. HIDE DEF share, sold
      <4>. QED  BY <1>12, <2>1
    <3>. HIDE DEF terms, share
    <3>3. Added({<<"cash", cash>>}) = cash  BY AddedLines
    <3>. QED  BY <2>1, <3>2, <3>3, <3>4
  <2>2. CASE share # 0 /\ sold
    <3>1. W = {}
      <4>1. W \cup ({p} \cap Sellers(h)) = W \cup {p}  BY <2>2
      <4>. HIDE DEF W, sold
      <4>2. Cardinality(W \cup {p}) <= 1  BY <1>7, <4>1, Zenon
      <4>3. Cardinality(W \cup {p}) = Cardinality(W) + 1 /\ Cardinality(W) \in Nat
        BY <1>8, FS_AddElement, FS_CardinalityType
      <4>4. Cardinality(W) = 0  BY <4>2, <4>3
      <4>. QED  BY <1>8, <4>4, FS_EmptySet
    <3>2. share = Gross(h, p) * (100 - GivenAway(person))
      <4>1. FromOthers(h)[p] = 0  BY <1>10, <3>1
      <4>2. Keeps(h)[p] = Gross(h, p) * (100 - GivenAway(person))  BY <1>3, <2>2
      <4>. QED  BY <1>3, <4>1, <4>2
    <3>3. share > 0
      <4>. HIDE DEF share
      <4>. QED  BY <1>4, <2>2
    <3>4. holds  BY <1>5, <2>2, <3>3
    <3>5. CASE GivenAway(person) = 0
      <4>1. share = 100 * Gross(h, p)  BY <1>2, <3>2, <3>5
      <4>2. Gross(h, p) = person.sale - person.owed
        <5>1. Gross(h, p) # 0  BY <1>2, <3>3, <4>1
        <5>. QED  BY <1>2, <5>1 DEF Gross, AtLeastZero
      <4>. DEFINE sale == 100 * person.sale
                  owed == -100 * person.owed
      <4>3. sale \in Int /\ owed \in Int /\ share = sale + owed  BY <1>2, <4>1, <4>2
      <4>4. home = {<<"sale", sale>>, <<"mortgage", owed>>}
        <5>. HIDE DEF holds
        <5>. QED  BY <3>4, <3>5
      <4>5. terms = {<<"sale", sale>>, <<"mortgage", owed>>, <<"cash", cash>>}
        <5>. HIDE DEF home, sale, owed
        <5>. QED  BY <4>4
      <4>7. twice = 0
        <5>. HIDE DEF share, sold
        <5>. QED  BY <1>12, <3>5
      <4>. HIDE DEF terms, share, sale, owed
      <4>6. Added({<<"sale", sale>>, <<"mortgage", owed>>, <<"cash", cash>>}) = sale + owed + cash
        <5>1. sale \in Int /\ owed \in Int  BY <4>3
        <5>. QED  BY <5>1, AddedLines, ZenonT(60)
      <4>. QED  BY <4>3, <4>5, <4>6, <4>7
    <3>6. CASE GivenAway(person) # 0
      <4>. DEFINE whole == 100 * Gross(h, p)
      <4>1. whole \in Int  BY <1>2
      <4>2. twice = whole
        <5>. HIDE DEF share, sold
        <5>. QED  BY <1>12, <2>2, <3>3, <3>6
      <4>3. home = {<<"home", whole>>, <<"home share", share>>}
        <5>. HIDE DEF holds, share, whole
        <5>. QED  BY <3>4, <3>6 DEF whole
      <4>4. terms = {<<"home", whole>>, <<"home share", share>>, <<"cash", cash>>}
        <5>. HIDE DEF home, share, whole
        <5>. QED  BY <4>3
      <4>. HIDE DEF terms, share, whole
      <4>5. Added({<<"home", whole>>, <<"home share", share>>, <<"cash", cash>>}) = whole + share + cash
        <5>1. share \in Int  BY <1>4
        <5>. QED  BY <4>1, <5>1, AddedLines, ZenonT(60)
      <4>6. whole + share + cash = share + cash + whole
        <5>1. share \in Int  BY <1>4
        <5>. QED  BY <4>1, <5>1
      <4>. QED  BY <4>2, <4>4, <4>5, <4>6
    <3>. QED  BY <3>5, <3>6
  <2>3. CASE share # 0 /\ ~sold
    <3>1. share = FromOthers(h)[p]
      <4>1. Keeps(h)[p] = 0  BY <1>3, <2>3
      <4>. QED  BY <1>3, <4>1
    <3>2. W # {}  BY <1>10, <2>3, <3>1
    <3>3. last \in W  BY <3>2
    <3>4. W = {last}
      <4>1. {p} \cap Sellers(h) = {}  BY <2>3
      <4>2. W \cup ({p} \cap Sellers(h)) = W  BY <4>1
      <4>. HIDE DEF W, last, sold
      <4>3. Cardinality(W) <= 1  BY <1>7, <4>2, Zenon
      <4>4. Cardinality(W) \in Nat /\ Cardinality(W) # 0  BY <1>8, <3>2, FS_CardinalityType, FS_EmptySet
      <4>5. Cardinality(W) = 1  BY <4>3, <4>4
      <4>6. \E x : W = {x}  BY <1>8, <4>5, FS_Singleton
      <4>. QED  BY <3>3, <4>6
    <3>10. twice = 0
      <4>. HIDE DEF share, sold
      <4>. QED  BY <1>12, <2>3
    <3>. DEFINE brought == Gross(h, last) * ShareOf(h.persons[last], p)
    <3>11. LastPart(h, p) = brought
      <4>1. Cardinality(EntriesOf(h.persons[last], p)) = 1  BY <3>3 DEF OneHome
      <4>2. last \in People  BY <3>3, SellersAreAdults DEF Sources
      <4>. HIDE DEF last
      <4>3. LastShare(h.persons[last], p) = ShareOf(h.persons[last], p)  BY <4>1, <4>2, OnePart
      <4>. QED  BY <4>3 DEF LastPart, LastShare, last
    <3>5. share = brought
      <4>. DEFINE f == Row(Brings(h), p, Sellers(h))
      <4>1. last \in Sellers(h) /\ last # p  BY <3>3 DEF Sources
      <4>2. f[last] = brought /\ f[last] \in Int
        <5>. HIDE DEF last
        <5>1. f[last] = Brings(h)[<<p, last>>]  BY <4>1 DEF Row
        <5>. HIDE DEF f
        <5>. QED  BY <4>1, <5>1, BringsIsNat
      <4>. HIDE DEF f, last, W, share, brought
      <4>3. SumOn(f, {last}) = f[last]  BY <4>2, SumOfOne
      <4>4. SumOn(f, W) = SumOn(f, {last})  BY <3>4, Zenon
      <4>. QED  BY <1>9, <3>1, <4>2, <4>3, <4>4 DEF f
    <3>6. ~holds /\ share > 0
      <4>1. ~holds  BY <1>5, <2>3
      <4>. HIDE DEF share
      <4>. QED  BY <1>4, <2>3, <4>1
    <3>7. home = {<<"part", share>>}
      <4>1. home = {<<"part", brought>>}
        <5>. HIDE DEF holds, share, last, brought
        <5>. QED  BY <3>6, <3>11
      <4>. HIDE DEF share, brought, home
      <4>. QED  BY <3>5, <4>1
    <3>8. terms = {<<"part", share>>, <<"cash", cash>>}
      <4>. HIDE DEF home, share
      <4>. QED  BY <3>7
    <3>. HIDE DEF terms, share
    <3>9. Added({<<"part", share>>, <<"cash", cash>>}) = share + cash
      <4>1. share \in Int  BY <1>4
      <4>. QED  BY <4>1, AddedLines, ZenonT(60)
    <3>. QED  BY <1>4, <3>8, <3>9, <3>10
  <2>. QED  BY <2>1, <2>2, <2>3
<1>. HIDE DEF terms, share
<1>. QED  BY <1>6, <1>11 DEF twice

LEMMA LinesAddUp == ASSUME NEW h, WellFormed(h), NEW p \in Adults PROVE LineAddsUp(h, p)
<1>. SUFFICES ASSUME OneHome(h, p), NEW cash \in {0, 100 * h.persons[p].cash}
              PROVE  EquityLine(h, p, cash).result + StatedTwice(h, p) = Added(EquityLine(h, p, cash).terms)
  BY DEF LineAddsUp, Added
<1>1. p \in People  BY SellersAreAdults
<1>2. h.persons[p].cash \in Int  BY <1>1, GrossIsNat
<1>3. cash \in Int  BY <1>2
<1>. QED  BY <1>3, LineOf

\* What a purchase takes, for any household and any price: the settings page and the equity
\* node agree on what the household brings, home equity is attributed without loss, each
\* line of its explanation adds up but for the home a holder with co-owners reads twice, the
\* duty is the marginal tax and the loan is repaid in its last month.
THEOREM PurchaseAlwaysHolds == [](household \in Households \cup {NoHousehold}) => []PurchaseHolds
<1>1. household \in Households \cup {NoHousehold} => PurchaseHolds
  <2>. SUFFICES ASSUME household \in Households \cup {NoHousehold}, household # NoHousehold
                PROVE  PurchaseHolds
    BY DEF PurchaseHolds
  <2>1. WellFormed(household)  BY AmountsAssumption
  <2>2. household.price \in Nat \ {0}  BY <2>1 DEF WellFormed
  <2>3. DepositIsShared(household)  BY <2>1, DepositOfHousehold
  <2>4. \A p \in Adults : LineAddsUp(household, p)  BY <2>1, LinesAddUp
  <2>5. DutyIsMarginal(household.price)
    <3>1. household.price \in Nat  BY <2>2
    <3>. QED  BY <3>1, DutyOfPrice
  <2>6. ASSUME NEW rate \in 0 .. 2, NEW months \in 1 .. 6
        PROVE  LoanIsRepaid(household.price, rate, months)
    <3>1. rate \in Nat /\ months \in Nat \ {0}  OBVIOUS
    <3>. QED  BY <2>2, <3>1, LoanOf
  <2>. QED  BY <2>3, <2>4, <2>5, <2>6 DEF PurchaseHolds
<1>. QED  BY <1>1, PTL
=============================================================================
