-------------------------- MODULE Household_proofs --------------------------
(***************************************************************************)
(* Whatever is written to the household, a property has the pipelines of   *)
(* the destinations that are travelled to, what is shown of them is what   *)
(* the household says, and what is lost is paged.                          *)
(***************************************************************************)
EXTENDS Household, WellFoundedInduction, TLAPS

-----------------------------------------------------------------------------
(* Sequences. *)

\* What holds of 0, and of i when it holds of i - 1, holds up to n.
LEMMA StepUpTo ==
    ASSUME NEW n \in Nat, NEW T \in SUBSET (0..n), 0 \in T,
           \A i \in 1..n : i - 1 \in T => i \in T
    PROVE  T = 0..n
<1>. SUFFICES ASSUME T # 0..n PROVE FALSE  OBVIOUS
<1>. DEFINE missing == (0..n) \ T
            before == OpToRel(<, Nat)
<1>1. missing \subseteq Nat /\ missing # {}
  <2>1. \E i \in 0..n : i \notin T  OBVIOUS
  <2>. QED  BY <2>1
<1>2. PICK i \in missing : \A j \in missing : ~ (<<j, i>> \in before)
  BY <1>1, NatLessThanWellFounded, WFMin, Zenon
<1>3. \A j, k \in Nat : j < k => <<j, k>> \in before
  <2>1. \A j, k \in Nat : j < k => <<j, k>> \in {p \in Nat \X Nat : p[1] < p[2]}  BY SMT
  <2>. QED  BY <2>1, Zenon DEF OpToRel
<1>4. i \in 1..n  OBVIOUS
<1>5. i - 1 \in 0..n /\ i - 1 < i /\ i - 1 \in Nat /\ i \in Nat  BY <1>4
<1>6. i - 1 \notin missing  BY <1>2, <1>3, <1>5, Zenon
<1>. QED  BY <1>4, <1>5, <1>6

IsSeq(s) == s \in Seq(Range(s))

LEMMA SeqIs == ASSUME NEW S, NEW s \in Seq(S)
               PROVE  IsSeq(s) /\ Len(s) \in Nat /\ DOMAIN s = 1..Len(s) /\ Range(s) \subseteq S
<1>1. Len(s) \in Nat /\ DOMAIN s = 1..Len(s)  OBVIOUS
<1>2. \A i \in 1..Len(s) : s[i] \in S /\ s[i] \in Range(s)  BY <1>1 DEF Range
<1>3. Range(s) \subseteq S  BY <1>1, <1>2 DEF Range
<1>4. s = [i \in 1..Len(s) |-> s[i]]  BY <1>1
<1>5. [i \in 1..Len(s) |-> s[i]] \in Seq(Range(s))  BY <1>1, <1>2
<1>. QED  BY <1>1, <1>3, <1>4, <1>5 DEF IsSeq

LEMMA SeqFacts == ASSUME NEW s, IsSeq(s)
               PROVE  /\ s \in Seq(Range(s)) /\ Len(s) \in Nat /\ DOMAIN s = 1..Len(s)
                      /\ \A i \in 1..Len(s) : s[i] \in Range(s)
                      /\ \A x \in Range(s) : \E i \in 1..Len(s) : s[i] = x
<1>1. s \in Seq(Range(s))  BY DEF IsSeq
<1>2. Len(s) \in Nat /\ DOMAIN s = 1..Len(s)  BY <1>1, SeqIs
<1>3. \A i \in 1..Len(s) : s[i] \in Range(s)  BY <1>2 DEF Range
<1>4. \A x \in Range(s) : \E i \in 1..Len(s) : s[i] = x  BY <1>2, Zenon DEF Range
<1>. QED  BY <1>1, <1>2, <1>3, <1>4

\* The rows are sequences, and t is the first n of them on end: its element j is the one at
\* col[j] of row row[j].
Elements(rows) == UNION {Range(rows[i]) : i \in DOMAIN rows}
Rows(rows) == IsSeq(rows) /\ \A i \in 1..Len(rows) : IsSeq(rows[i])
OnEnd(rows, n, t, row, col) ==
    /\ t \in Seq(Elements(rows))
    /\ \A j \in 1..Len(t) : row[j] \in 1..n /\ col[j] \in 1..Len(rows[row[j]])
    /\ \A j \in 1..Len(t) : t[j] = rows[row[j]][col[j]]
    /\ \A j, k \in 1..Len(t) : j < k => row[j] < row[k] \/ (row[j] = row[k] /\ col[j] < col[k])
    /\ \A i \in 1..n : \A m \in 1..Len(rows[i]) : \E j \in 1..Len(t) : row[j] = i /\ col[j] = m

LEMMA OneRowMore ==
    ASSUME NEW rows, Rows(rows), NEW n \in 1..Len(rows), NEW t, NEW row, NEW col,
           OnEnd(rows, n - 1, t, row, col)
    PROVE  \E r, c : OnEnd(rows, n, t \o rows[n], r, c)
<1>. DEFINE last == rows[n]
            u == t \o last
            r == [j \in 1..Len(u) |-> IF j \in 1..Len(t) THEN row[j] ELSE n]
            c == [j \in 1..Len(u) |-> IF j \in 1..Len(t) THEN col[j] ELSE j - Len(t)]
<1>0. IsSeq(rows) /\ IsSeq(last)  BY DEF Rows
<1>1. /\ IsSeq(last) /\ Len(last) \in Nat /\ DOMAIN rows = 1..Len(rows) /\ Len(rows) \in Nat /\ n \in Nat
      /\ last \in Seq(Range(last))
  <2>. HIDE DEF last
  <2>1. DOMAIN rows = 1..Len(rows) /\ Len(rows) \in Nat  BY <1>0, SeqFacts
  <2>2. Len(last) \in Nat /\ last \in Seq(Range(last))  BY <1>0, SeqFacts
  <2>. QED  BY <1>0, <2>1, <2>2
<1>2. Range(last) \subseteq Elements(rows)  BY <1>1 DEF Elements
<1>3. last \in Seq(Elements(rows))  BY <1>1, <1>2
<1>4. t \in Seq(Elements(rows)) /\ Len(t) \in Nat  BY DEF OnEnd
<1>5. /\ u \in Seq(Elements(rows)) /\ Len(u) = Len(t) + Len(last)
      /\ \A j \in 1..Len(t) : u[j] = t[j]
      /\ \A j \in 1..Len(last) : u[Len(t) + j] = last[j]
  BY <1>3, <1>4
<1>6. \A j \in 1..Len(t) : j \in 1..Len(u) /\ r[j] = row[j] /\ c[j] = col[j]  BY <1>1, <1>4, <1>5
<1>7. \A j \in 1..Len(last) : /\ Len(t) + j \in 1..Len(u) /\ r[Len(t) + j] = n /\ c[Len(t) + j] = j
  BY <1>1, <1>4, <1>5
<1>8. \A j \in 1..Len(u) : j \in 1..Len(t) \/ \E m \in 1..Len(last) : j = Len(t) + m
  <2>. TAKE j \in 1..Len(u)
  <2>. SUFFICES ASSUME j \notin 1..Len(t) PROVE \E m \in 1..Len(last) : j = Len(t) + m  OBVIOUS
  <2>1. j - Len(t) \in 1..Len(last) /\ j = Len(t) + (j - Len(t))  BY <1>1, <1>4, <1>5
  <2>. QED  BY <2>1
<1>. HIDE DEF u, r, c
<1>9. \A j \in 1..Len(u) : r[j] \in 1..n /\ c[j] \in 1..Len(rows[r[j]]) /\ u[j] = rows[r[j]][c[j]]
  <2>. TAKE j \in 1..Len(u)
  <2>1. CASE j \in 1..Len(t)
    <3>1. row[j] \in 1..n-1 /\ col[j] \in 1..Len(rows[row[j]]) /\ t[j] = rows[row[j]][col[j]]  BY <2>1 DEF OnEnd
    <3>. QED  BY <2>1, <3>1, <1>5, <1>6, <1>1, SMTT(30)
  <2>2. CASE \E m \in 1..Len(last) : j = Len(t) + m
    <3>1. PICK m \in 1..Len(last) : j = Len(t) + m  BY <2>2
    <3>. QED  BY <3>1, <1>5, <1>7, <1>1
  <2>. QED  BY <2>1, <2>2, <1>8
<1>10. ASSUME NEW j \in 1..Len(u), NEW k \in 1..Len(u), j < k
       PROVE  r[j] < r[k] \/ (r[j] = r[k] /\ c[j] < c[k])
  <2>1. CASE k \in 1..Len(t)
    <3>1. j \in 1..Len(t)  BY <2>1, <1>10, <1>4
    <3>. QED  BY <2>1, <3>1, <1>6, <1>10 DEF OnEnd
  <2>2. ASSUME NEW m \in 1..Len(last), k = Len(t) + m PROVE r[j] < r[k] \/ (r[j] = r[k] /\ c[j] < c[k])
    <3>1. CASE j \in 1..Len(t)
      <4>1. row[j] \in 1..n-1  BY <3>1 DEF OnEnd
      <4>. QED  BY <4>1, <3>1, <2>2, <1>6, <1>7, <1>1
    <3>2. ASSUME NEW l \in 1..Len(last), j = Len(t) + l PROVE r[j] = r[k] /\ c[j] < c[k]
      BY <3>2, <2>2, <1>7, <1>10, <1>4, <1>1
    <3>. QED  BY <3>1, <3>2, <1>8
  <2>. QED  BY <2>1, <2>2, <1>8
<1>11. ASSUME NEW i \in 1..n, NEW m \in 1..Len(rows[i]) PROVE \E j \in 1..Len(u) : r[j] = i /\ c[j] = m
  <2>1. CASE i = n  BY <2>1, <1>7
  <2>2. CASE i \in 1..n-1
    <3>1. PICK j \in 1..Len(t) : row[j] = i /\ col[j] = m  BY <2>2 DEF OnEnd
    <3>. QED  BY <3>1, <1>6
  <2>. QED  BY <2>1, <2>2, <1>1
<1>12. OnEnd(rows, n, u, r, c)  BY <1>5, <1>9, <1>10, <1>11 DEF OnEnd
<1>. QED  BY <1>12 DEF u

\* FlattenSeq is the function its definition says: there is one.
Flat(rows, f) == \A i \in 1..Len(rows) : f[i] = IF i = 1 THEN rows[i] ELSE f[i - 1] \o rows[i]
LEMMA FlatExists ==
    ASSUME NEW rows, NEW n \in Nat
    PROVE  \E f : f = [i \in 1..n |-> IF i = 1 THEN rows[i] ELSE f[i - 1] \o rows[i]]
<1>. DEFINE Is(f, m) == f = [i \in 1..m |-> IF i = 1 THEN rows[i] ELSE f[i - 1] \o rows[i]]
            T == {m \in 0..n : \E f : Is(f, m)}
<1>1. 0 \in T
  <2>1. Is([i \in 1..0 |-> rows], 0)  OBVIOUS
  <2>. HIDE DEF Is
  <2>. QED  BY <2>1
<1>2. ASSUME NEW m \in 1..n, m - 1 \in T PROVE m \in T
  <2>1. PICK f : Is(f, m - 1)  BY <1>2
  <2>. DEFINE g == [i \in 1..m |-> IF i = m THEN IF m = 1 THEN rows[m] ELSE f[m - 1] \o rows[m] ELSE f[i]]
  <2>2. ASSUME NEW i \in 1..m PROVE g[i] = IF i = 1 THEN rows[i] ELSE g[i - 1] \o rows[i]
    <3>1. CASE i = m
      <4>1. i # 1 => i - 1 \in 1..m /\ i - 1 # m  BY <3>1
      <4>. QED  BY <3>1, <4>1
    <3>2. CASE i # m
      <4>1. i \in 1..m-1  BY <3>2
      <4>2. g[i] = f[i] /\ f[i] = IF i = 1 THEN rows[i] ELSE f[i - 1] \o rows[i]  BY <2>1, <3>2, <4>1
      <4>3. i # 1 => i - 1 \in 1..m /\ i - 1 # m  BY <4>1
      <4>. QED  BY <4>2, <4>3
    <3>. QED  BY <3>1, <3>2
  <2>3. g = [i \in 1..m |-> g[i]]  OBVIOUS
  <2>. HIDE DEF g
  <2>4. Is(g, m)  BY <2>2, <2>3
  <2>. HIDE DEF Is
  <2>. QED  BY <2>4
<1>3. T = 0..n
  <2>1. T \subseteq 0..n  OBVIOUS
  <2>. HIDE DEF T
  <2>. QED  BY <1>1, <1>2, <2>1, StepUpTo
<1>4. n \in T
  <2>. HIDE DEF T
  <2>. QED  BY <1>3
<1>5. \E f : Is(f, n)
  <2>. HIDE DEF Is
  <2>. QED  BY <1>4
<1>. QED  BY <1>5

LEMMA FlattenIs ==
    ASSUME NEW rows, Len(rows) \in Nat \ {0}
    PROVE  \E f : Flat(rows, f) /\ FlattenSeq(rows) = f[Len(rows)]
<1>. DEFINE Is(f) == f = [i \in 1..Len(rows) |-> IF i = 1 THEN rows[i] ELSE f[i - 1] \o rows[i]]
            F == CHOOSE f : Is(f)
<1>1. \E f : Is(f)  BY FlatExists
<1>2. Is(F)
  <2>. HIDE DEF Is
  <2>. QED  BY <1>1
<1>3. FlattenSeq(rows) = F[Len(rows)]  BY DEF FlattenSeq
<1>. HIDE DEF F
<1>4. Flat(rows, F)  BY <1>2 DEF Flat
<1>. QED  BY <1>3, <1>4

\* The rows on end.
LEMMA FlattenHolds ==
    ASSUME NEW rows, Rows(rows)
    PROVE  \E row, col : OnEnd(rows, Len(rows), FlattenSeq(rows), row, col)
<1>1. Len(rows) \in Nat /\ DOMAIN rows = 1..Len(rows)  BY SeqFacts DEF Rows
<1>. DEFINE none == << >>
<1>2. OnEnd(rows, 0, none, none, none)  BY DEF OnEnd
<1>3. CASE Len(rows) = 0
  <2>1. FlattenSeq(rows) = rows  BY <1>3 DEF FlattenSeq
  <2>2. rows = << >>  BY <1>3 DEF Rows, IsSeq
  <2>. QED  BY <1>2, <1>3, <2>1, <2>2
<1>4. CASE Len(rows) # 0
  <2>1. PICK f : Flat(rows, f) /\ FlattenSeq(rows) = f[Len(rows)]  BY <1>1, <1>4, FlattenIs
  <2>. DEFINE T == {i \in 0..Len(rows) : i = 0 \/ \E row, col : OnEnd(rows, i, f[i], row, col)}
  <2>2. 0 \in T  BY <1>1
  <2>3. ASSUME NEW i \in 1..Len(rows), i - 1 \in T PROVE i \in T
    <3>1. i \in 0..Len(rows)  BY <1>1
    <3>2. CASE i = 1
      <4>1. IsSeq(rows[1]) /\ rows[1] \in Seq(Range(rows[1]))  BY <3>2, SeqFacts DEF Rows
      <4>2. f[1] = none \o rows[1]  BY <2>1, <3>2, <4>1 DEF Flat
      <4>3. \E r, c : OnEnd(rows, 1, none \o rows[1], r, c)
        <5>1. OnEnd(rows, 1 - 1, none, none, none)  BY <1>2
        <5>. HIDE DEF none
        <5>. QED  BY <3>2, <5>1, OneRowMore
      <4>. QED  BY <3>1, <3>2, <4>2, <4>3
    <3>3. CASE i # 1
      <4>1. PICK row, col : OnEnd(rows, i - 1, f[i - 1], row, col)  BY <2>3, <3>3
      <4>2. f[i] = f[i - 1] \o rows[i]  BY <2>1, <3>3 DEF Flat
      <4>3. \E r, c : OnEnd(rows, i, f[i - 1] \o rows[i], r, c)  BY <4>1, OneRowMore
      <4>. QED  BY <3>1, <4>2, <4>3
    <3>. QED  BY <3>2, <3>3
  <2>4. T = 0..Len(rows)
    <3>1. T \subseteq 0..Len(rows)  OBVIOUS
    <3>. HIDE DEF T
    <3>. QED  BY <1>1, <2>2, <2>3, <3>1, StepUpTo
  <2>5. Len(rows) \in T  BY <1>1, <2>4
  <2>. QED  BY <1>4, <2>1, <2>5
<1>. QED  BY <1>3, <1>4

LEMMA FlattenElements ==
    ASSUME NEW rows, Rows(rows)
    PROVE  IsSeq(FlattenSeq(rows)) /\ Range(FlattenSeq(rows)) = Elements(rows)
<1>. DEFINE t == FlattenSeq(rows)
<1>1. PICK row, col : OnEnd(rows, Len(rows), t, row, col)  BY FlattenHolds
<1>. HIDE DEF t
<1>2. t \in Seq(Elements(rows))  BY <1>1 DEF OnEnd
<1>3. IsSeq(t) /\ Range(t) \subseteq Elements(rows) /\ DOMAIN t = 1..Len(t)  BY <1>2, SeqIs
<1>4. ASSUME NEW x \in Elements(rows) PROVE x \in Range(t)
  <2>1. IsSeq(rows) /\ DOMAIN rows = 1..Len(rows)  BY SeqFacts DEF Rows
  <2>2. PICK i \in 1..Len(rows) : x \in Range(rows[i])  BY <2>1 DEF Elements
  <2>3. IsSeq(rows[i])  BY DEF Rows
  <2>4. PICK m \in 1..Len(rows[i]) : rows[i][m] = x  BY <2>2, <2>3, SeqFacts
  <2>5. PICK j \in 1..Len(t) : row[j] = i /\ col[j] = m  BY <1>1 DEF OnEnd
  <2>6. t[j] = x  BY <1>1, <2>4, <2>5 DEF OnEnd
  <2>. QED  BY <1>3, <2>6 DEF Range
<1>5. Range(t) = Elements(rows)  BY <1>3, <1>4
<1>. QED  BY <1>3, <1>5 DEF t

\* t is what s has in T: its element j is the one at pick[j] of s.
Keeps(s, T, t, pick) ==
    /\ IsSeq(t) /\ Range(t) = Range(s) \cap T
    /\ \A j \in 1..Len(t) : pick[j] \in 1..Len(s) /\ t[j] = s[pick[j]] /\ t[j] \in T
    /\ \A j, k \in 1..Len(t) : j < k => pick[j] < pick[k]

LEMMA AmongKeeps ==
    ASSUME NEW s, IsSeq(s), NEW T
    PROVE  \E pick : Keeps(s, T, Among(s, T), pick)
<1>. DEFINE rows == [i \in DOMAIN s |-> IF s[i] \in T THEN <<s[i]>> ELSE <<>>]
            t == Among(s, T)
<1>1. /\ Len(s) \in Nat /\ DOMAIN s = 1..Len(s)
      /\ \A i \in 1..Len(s) : s[i] \in Range(s)
      /\ \A x \in Range(s) : \E i \in 1..Len(s) : s[i] = x
  BY SeqFacts
<1>2. \A i \in 1..Len(s) : /\ s[i] \in T => rows[i] = <<s[i]>>
                           /\ s[i] \notin T => rows[i] = <<>>
  BY <1>1
<1>3. \A i \in 1..Len(s) : rows[i] \in Seq(Range(s))  BY <1>1
<1>4. rows \in Seq(Seq(Range(s))) /\ Len(rows) = Len(s)  BY <1>1, <1>3
<1>5. t = FlattenSeq(rows)  BY DEF Among
<1>. HIDE DEF rows, t
<1>6. Rows(rows)
  <2>1. IsSeq(rows)  BY <1>4, SeqIs
  <2>2. \A i \in 1..Len(rows) : IsSeq(rows[i])  BY <1>3, <1>4, SeqIs
  <2>. QED  BY <2>1, <2>2 DEF Rows
<1>7. PICK row, col : OnEnd(rows, Len(s), t, row, col)  BY <1>4, <1>5, <1>6, FlattenHolds
<1>8. IsSeq(t) /\ Len(t) \in Nat /\ DOMAIN t = 1..Len(t)
  <2>1. IsSeq(t)  BY <1>5, <1>6, FlattenElements
  <2>. QED  BY <2>1, SeqFacts
<1>9. ASSUME NEW j \in 1..Len(t)
      PROVE  row[j] \in 1..Len(s) /\ t[j] = s[row[j]] /\ t[j] \in T /\ col[j] = 1
  <2>1. row[j] \in 1..Len(s) /\ col[j] \in 1..Len(rows[row[j]]) /\ t[j] = rows[row[j]][col[j]]
    BY <1>7 DEF OnEnd
  <2>2. s[row[j]] \in T
    <3>1. SUFFICES ASSUME s[row[j]] \notin T PROVE FALSE  OBVIOUS
    <3>2. rows[row[j]] = << >>  BY <1>2, <2>1, <3>1
    <3>. QED  BY <2>1, <3>2
  <2>3. rows[row[j]] = <<s[row[j]]>>  BY <1>2, <2>1, <2>2
  <2>4. col[j] = 1  BY <2>1, <2>3
  <2>. QED  BY <2>1, <2>2, <2>3, <2>4
<1>10. \A j, k \in 1..Len(t) : j < k => row[j] < row[k]
  <2>. SUFFICES ASSUME NEW j \in 1..Len(t), NEW k \in 1..Len(t), j < k PROVE row[j] < row[k]  OBVIOUS
  <2>1. row[j] < row[k] \/ (row[j] = row[k] /\ col[j] < col[k])  BY <1>7 DEF OnEnd
  <2>2. col[j] = 1 /\ col[k] = 1  BY <1>9
  <2>. QED  BY <2>1, <2>2
<1>11. Range(t) = Range(s) \cap T
  <2>1. ASSUME NEW x \in Range(t) PROVE x \in Range(s) \cap T
    <3>1. PICK j \in 1..Len(t) : t[j] = x  BY <1>8, SeqFacts
    <3>. QED  BY <1>1, <1>9, <3>1
  <2>2. ASSUME NEW x \in Range(s) \cap T PROVE x \in Range(t)
    <3>1. PICK i \in 1..Len(s) : s[i] = x  BY <1>1
    <3>2. rows[i] = <<x>> /\ i \in 1..Len(s)  BY <1>2, <3>1
    <3>3. 1 \in 1..Len(rows[i])  BY <3>2
    <3>4. PICK j \in 1..Len(t) : row[j] = i  BY <1>7, <3>2, <3>3 DEF OnEnd
    <3>5. t[j] = x  BY <1>9, <3>1, <3>4
    <3>. QED  BY <1>8, <3>5 DEF Range
  <2>. QED  BY <2>1, <2>2
<1>12. Keeps(s, T, t, row)  BY <1>8, <1>9, <1>10, <1>11 DEF Keeps
<1>. QED  BY <1>12 DEF t

LEMMA AmongHolds ==
    ASSUME NEW s, IsSeq(s), NEW T
    PROVE  /\ IsSeq(Among(s, T)) /\ Range(Among(s, T)) = Range(s) \cap T
           /\ IsInjective(s) => IsInjective(Among(s, T))
<1>. DEFINE t == Among(s, T)
<1>1. PICK pick : Keeps(s, T, t, pick)  BY AmongKeeps
<1>. HIDE DEF t
<1>2. IsSeq(t) /\ Range(t) = Range(s) \cap T  BY <1>1 DEF Keeps
<1>3. ASSUME IsInjective(s) PROVE IsInjective(t)
  <2>1. DOMAIN t = 1..Len(t) /\ Len(t) \in Nat /\ DOMAIN s = 1..Len(s) /\ Len(s) \in Nat  BY <1>2, SeqFacts
  <2>. SUFFICES ASSUME NEW j \in 1..Len(t), NEW k \in 1..Len(t), t[j] = t[k] PROVE j = k
    BY <2>1 DEF IsInjective
  <2>2. pick[j] \in 1..Len(s) /\ pick[k] \in 1..Len(s) /\ s[pick[j]] = s[pick[k]]  BY <1>1 DEF Keeps
  <2>3. pick[j] = pick[k]  BY <1>3, <2>1, <2>2 DEF IsInjective
  <2>4. ~(j < k) /\ ~(k < j)  BY <1>1, <2>2, <2>3 DEF Keeps
  <2>. QED  BY <2>1, <2>4
<1>. QED  BY <1>2, <1>3 DEF t

\* One sequence behind another.
LEMMA JoinHolds ==
    ASSUME NEW s, IsSeq(s), NEW t, IsSeq(t)
    PROVE  /\ IsSeq(s \o t) /\ Range(s \o t) = Range(s) \cup Range(t) /\ Len(s \o t) = Len(s) + Len(t)
           /\ \A i \in 1..Len(s) : (s \o t)[i] = s[i]
           /\ \A i \in 1..Len(t) : (s \o t)[Len(s) + i] = t[i]
           /\ IsInjective(s) /\ IsInjective(t) /\ Range(s) \cap Range(t) = {} => IsInjective(s \o t)
<1>. DEFINE S == Range(s) \cup Range(t)
            u == s \o t
<1>1. /\ s \in Seq(S) /\ t \in Seq(S) /\ Len(s) \in Nat /\ Len(t) \in Nat
      /\ DOMAIN s = 1..Len(s) /\ DOMAIN t = 1..Len(t)
  <2>1. s \in Seq(Range(s)) /\ t \in Seq(Range(t))  BY DEF IsSeq
  <2>2. s \in Seq(S) /\ t \in Seq(S)  BY <2>1
  <2>. QED  BY <2>2, SeqFacts
<1>2. /\ u \in Seq(S) /\ Len(u) = Len(s) + Len(t) /\ DOMAIN u = 1..Len(s) + Len(t)
      /\ \A i \in 1..Len(s) : u[i] = s[i]
      /\ \A i \in 1..Len(t) : u[Len(s) + i] = t[i]
  <2>. HIDE DEF S
  <2>. QED  BY <1>1
<1>. HIDE DEF u
<1>3. \A i \in 1..Len(u) : i \in 1..Len(s) \/ (i - Len(s) \in 1..Len(t) /\ i = Len(s) + (i - Len(s)))
  BY <1>1, <1>2
<1>4. \A i \in 1..Len(u) : /\ i \in 1..Len(s) => u[i] = s[i] /\ u[i] \in Range(s)
                           /\ i \notin 1..Len(s) => /\ i - Len(s) \in 1..Len(t) /\ u[i] = t[i - Len(s)]
                                                    /\ u[i] \in Range(t)
  <2>. TAKE i \in 1..Len(u)
  <2>1. \A k \in 1..Len(s) : s[k] \in Range(s)  BY SeqFacts
  <2>2. \A k \in 1..Len(t) : t[k] \in Range(t)  BY SeqFacts
  <2>3. CASE i \in 1..Len(s)  BY <2>1, <2>3, <1>2
  <2>4. CASE i \notin 1..Len(s)
    <3>1. i - Len(s) \in 1..Len(t) /\ i = Len(s) + (i - Len(s))  BY <2>4, <1>3
    <3>2. u[i] = t[i - Len(s)]  BY <3>1, <1>2
    <3>. QED  BY <2>2, <2>4, <3>1, <3>2
  <2>. QED  BY <2>3, <2>4
<1>5. IsSeq(u) /\ Range(u) \subseteq S  BY <1>2, SeqIs
<1>6. S \subseteq Range(u)
  <2>1. ASSUME NEW x \in Range(s) PROVE x \in Range(u)
    <3>1. PICK i \in 1..Len(s) : s[i] = x  BY SeqFacts
    <3>2. i \in DOMAIN u /\ u[i] = x  BY <1>1, <1>2, <3>1
    <3>. QED  BY <3>2 DEF Range
  <2>2. ASSUME NEW x \in Range(t) PROVE x \in Range(u)
    <3>1. PICK i \in 1..Len(t) : t[i] = x  BY SeqFacts
    <3>2. Len(s) + i \in DOMAIN u /\ u[Len(s) + i] = x  BY <1>1, <1>2, <3>1
    <3>. QED  BY <3>2 DEF Range
  <2>. QED  BY <2>1, <2>2
<1>7. ASSUME IsInjective(s), IsInjective(t), Range(s) \cap Range(t) = {} PROVE IsInjective(u)
  <2>. SUFFICES ASSUME NEW i \in 1..Len(u), NEW k \in 1..Len(u), u[i] = u[k] PROVE i = k
    BY <1>2 DEF IsInjective
  <2>1. CASE i \in 1..Len(s) /\ k \in 1..Len(s)  BY <2>1, <1>1, <1>4, <1>7 DEF IsInjective
  <2>2. CASE i \notin 1..Len(s) /\ k \notin 1..Len(s)
    <3>1. i - Len(s) = k - Len(s)  BY <2>2, <1>1, <1>4, <1>7 DEF IsInjective
    <3>. QED  BY <3>1, <1>1
  <2>3. (i \in 1..Len(s)) = (k \in 1..Len(s))  BY <1>4, <1>7
  <2>. QED  BY <2>1, <2>2, <2>3
<1>. QED  BY <1>2, <1>5, <1>6, <1>7 DEF u

-----------------------------------------------------------------------------
(***************************************************************************)
(* What the operations leave of the graph.                                 *)
(***************************************************************************)
Fields == {"memory", "rows", "selectors", "slots", "queue", "scheduled", "registered", "clock"}
IsGraph(g) == g = [field \in Fields |-> g[field]]
\* Only the queue is another.
Requeued(g, h) ==
    /\ h.memory = g.memory /\ h.rows = g.rows /\ h.selectors = g.selectors
    /\ h.slots = g.slots /\ h.registered = g.registered /\ h.clock = g.clock

Due(g, ns) == Among(ns, {n \in Range(ns) : Id(n) \notin g.scheduled})

LEMMA ScheduleDoes ==
    ASSUME NEW g, IsGraph(g), NEW ns
    PROVE  LET h == Schedule(g, ns)
           IN  /\ IsGraph(h) /\ Requeued(g, h)
               /\ h.queue = g.queue \o Due(g, ns) /\ h.scheduled = g.scheduled \cup Ids(Due(g, ns))
BY DEF IsGraph, Fields, Requeued, Schedule, Due

LEMMA NotifyRequeues ==
    ASSUME NEW g, IsGraph(g), NEW ns
    PROVE  IsGraph(Notify(g, ns)) /\ Requeued(g, Notify(g, ns))
BY ScheduleDoes DEF Notify

\* What is taken down stays in memory; it listens no longer, and is scheduled no longer.
Kept(ns, gone) == Among(ns, {n \in Range(ns) : n.key \notin gone})
KeptIds(ids, gone) == {i \in ids : i[2] \notin gone}

LEMMA TearDownDoes ==
    ASSUME NEW g, IsGraph(g), NEW gone
    PROVE  LET h == TearDown(g, gone)
           IN  /\ IsGraph(h) /\ h.memory = g.memory /\ h.rows = g.rows /\ h.clock = g.clock
               /\ h.queue = g.queue
               /\ h.slots = Kept(g.slots, gone) /\ h.selectors = Kept(g.selectors, gone)
               /\ h.scheduled = KeptIds(g.scheduled, gone)
               /\ h.registered = KeptIds(g.registered, gone)
BY DEF IsGraph, Fields, TearDown, Kept, KeptIds

LEMMA SetDepsDoes ==
    ASSUME NEW g, IsGraph(g)
    PROVE  LET h == SetDeps(g)
           IN  /\ IsGraph(h) /\ h.memory = g.memory /\ h.rows = g.rows /\ h.clock = g.clock
               /\ h.queue = g.queue /\ h.selectors = g.selectors /\ h.scheduled = g.scheduled
               /\ h.registered = g.registered
               /\ h.slots = Append(Among(g.slots, Range(g.slots) \ {Breakdown}), Breakdown)
BY DEF IsGraph, Fields, SetDeps

\* The graph with those nodes in it, before any of them is scheduled.
Restored(g, n) == IF Id(n) \in DOMAIN g.rows THEN g.rows[Id(n)] ELSE Never
Wired(g, ns) ==
    [g EXCEPT !.memory = [m \in DOMAIN @ \cup Range(ns) |-> IF m \in Range(ns) THEN Restored(g, m) ELSE @[m]],
              !.slots = @ \o Among(ns, {n \in Range(ns) : Persons \in Inputs(g, n)}),
              !.registered = @ \cup Ids(ns)]
Remembered(g, ns) ==
    [m \in DOMAIN g.memory \cup Range(ns) |-> IF m \in Range(ns) THEN Restored(g, m) ELSE g.memory[m]]
Listening(g, ns) == Among(ns, {n \in Range(ns) : Persons \in Inputs(g, n)})

LEMMA WiredDoes ==
    ASSUME NEW g, IsGraph(g), NEW ns
    PROVE  LET h == Wired(g, ns)
           IN  /\ IsGraph(h) /\ h.rows = g.rows /\ h.clock = g.clock
               /\ h.queue = g.queue /\ h.selectors = g.selectors /\ h.scheduled = g.scheduled
               /\ h.memory = Remembered(g, ns) /\ h.slots = g.slots \o Listening(g, ns)
               /\ h.registered = g.registered \cup Ids(ns)
BY DEF IsGraph, Fields, Wired, Remembered, Listening

LEMMA ConstructIs ==
    ASSUME NEW g, NEW ns
    PROVE  Construct(g, ns) = Notify(Wired(g, ns), ns)
BY DEF Construct, Wired, Restored

-----------------------------------------------------------------------------
(***************************************************************************)
(* The nodes of a pipeline.                                                *)
(***************************************************************************)
Rank(kind) == IF kind \in {"place", "school"} THEN 1 ELSE IF kind = "route" THEN 2
              ELSE IF kind = "mpg" THEN 3 ELSE 4
\* Of two nodes with the same key the one that comes first reads nothing of the other.
Ranked(s) == \A j, k \in 1..Len(s) : j < k /\ s[j].key = s[k].key => Rank(s[j].kind) < Rank(s[k].kind)

LEMMA RankedIsInjective == ASSUME NEW s, IsSeq(s), Ranked(s) PROVE IsInjective(s)
<1>1. Len(s) \in Nat /\ DOMAIN s = 1..Len(s)  BY SeqFacts
<1>2. \A k : Rank(k) \in Nat  BY DEF Rank
<1>. SUFFICES ASSUME NEW j \in 1..Len(s), NEW k \in 1..Len(s), s[j] = s[k] PROVE j = k
  BY <1>1 DEF IsInjective
<1>3. ~(j < k) /\ ~(k < j)  BY <1>2 DEF Ranked
<1>. QED  BY <1>1, <1>3

LEMMA RankedAmong == ASSUME NEW s, IsSeq(s), Ranked(s), NEW T PROVE Ranked(Among(s, T))
<1>. DEFINE t == Among(s, T)
<1>1. PICK pick : Keeps(s, T, t, pick)  BY AmongKeeps
<1>. HIDE DEF t
<1>2. ASSUME NEW j \in 1..Len(t), NEW k \in 1..Len(t), j < k, t[j].key = t[k].key
      PROVE  Rank(t[j].kind) < Rank(t[k].kind)
  <2>1. /\ pick[j] \in 1..Len(s) /\ pick[k] \in 1..Len(s) /\ pick[j] < pick[k]
        /\ t[j] = s[pick[j]] /\ t[k] = s[pick[k]]
    BY <1>1, <1>2 DEF Keeps
  <2>. QED  BY <1>2, <2>1 DEF Ranked
<1>3. Ranked(t)  BY <1>2 DEF Ranked
<1>. QED  BY <1>3 DEF t

HomeIn(people, key) == IF OwnerIn(people, key).child THEN "school" ELSE "place"
Kinds == {"place", "school", "route", "mpg", "entry"}
KindsIn(people, key) == {HomeIn(people, key), "route", "mpg", "entry"}
\* The node of that kind which the builder makes for a destination.
Made(people, key, born, kind) == Node(kind, key, born, OwnerIn(people, key).car)

LEMMA PipelineIs ==
    ASSUME NEW people, NEW key, NEW born
    PROVE  LET p == Pipeline(people, key, born)
           IN  /\ p = << Made(people, key, born, HomeIn(people, key)), Made(people, key, born, "route"),
                         Made(people, key, born, "mpg"), Made(people, key, born, "entry") >>
               /\ IsSeq(p) /\ Len(p) = 4
               /\ Range(p) = {Made(people, key, born, kind) : kind \in KindsIn(people, key)}
<1>. DEFINE p == Pipeline(people, key, born)
            a == Made(people, key, born, HomeIn(people, key))
            b == Made(people, key, born, "route")
            c == Made(people, key, born, "mpg")
            d == Made(people, key, born, "entry")
<1>1. p = <<a, b, c, d>>  BY DEF Pipeline, Made, HomeIn
<1>2. Range(<<a, b, c, d>>) = {a, b, c, d}
  <2>. HIDE DEF a, b, c, d
  <2>1. DOMAIN <<a, b, c, d>> = {1, 2, 3, 4}  OBVIOUS
  <2>. QED  BY <2>1 DEF Range
<1>3. <<a, b, c, d>> \in Seq({a, b, c, d})
  <2>. HIDE DEF a, b, c, d
  <2>. QED  OBVIOUS
<1>4. {a, b, c, d} = {Made(people, key, born, kind) : kind \in KindsIn(people, key)}  BY DEF KindsIn
<1>. HIDE DEF a, b, c, d
<1>5. Len(p) = 4  BY <1>1
<1>6. IsSeq(p)  BY <1>1, <1>3, SeqIs
<1>. HIDE DEF p
<1>7. Range(p) = {Made(people, key, born, kind) : kind \in KindsIn(people, key)}  BY <1>1, <1>2, <1>4
<1>. QED  BY <1>1, <1>5, <1>6, <1>7 DEF p, a, b, c, d

Pipelines(people, routed, born) == [i \in DOMAIN routed |-> Pipeline(people, routed[i], born)]
AllMade(people, keys, born) == UNION {{Made(people, key, born, kind) : kind \in KindsIn(people, key)} : key \in keys}

LEMMA MadeIs ==
    ASSUME NEW people, NEW key, NEW born, NEW kind
    PROVE  LET n == Made(people, key, born, kind)
           IN  /\ n.kind = kind /\ n.key = key /\ n.born = born /\ n.car = OwnerIn(people, key).car
               /\ n = Node(n.kind, n.key, n.born, n.car)
               /\ \A other : Sibling(n, other) = Made(people, key, born, other)
BY DEF Made, Node, Sibling

\* The nodes that are built at once.
LEMMA PipelinesHold ==
    ASSUME NEW people, NEW routed, IsSeq(routed), IsInjective(routed), NEW born
    PROVE  LET ns == FlattenSeq(Pipelines(people, routed, born))
           IN  IsSeq(ns) /\ Range(ns) = AllMade(people, Range(routed), born) /\ Ranked(ns)
<1>. DEFINE rows == Pipelines(people, routed, born)
            ns == FlattenSeq(rows)
<1>1. Len(routed) \in Nat /\ DOMAIN routed = 1..Len(routed)  BY SeqFacts
<1>2. /\ DOMAIN rows = 1..Len(routed) /\ rows = [i \in 1..Len(routed) |-> rows[i]]
      /\ \A i \in 1..Len(routed) : rows[i] = Pipeline(people, routed[i], born)
  BY <1>1 DEF Pipelines
<1>3. \A i \in 1..Len(routed) : rows[i] \in Range(rows)  BY <1>2 DEF Range
<1>. HIDE DEF rows
<1>4. rows \in Seq(Range(rows)) /\ Len(rows) = Len(routed)  BY <1>1, <1>2, <1>3
<1>5. Rows(rows)
  <2>1. \A i \in 1..Len(rows) : IsSeq(rows[i])  BY <1>2, <1>4, PipelineIs
  <2>. QED  BY <1>4, <2>1 DEF Rows, IsSeq
<1>6. PICK row, col : OnEnd(rows, Len(routed), ns, row, col)  BY <1>4, <1>5, FlattenHolds
<1>7. IsSeq(ns) /\ Range(ns) = Elements(rows)  BY <1>5, FlattenElements
<1>. HIDE DEF ns
<1>8. Elements(rows) = AllMade(people, Range(routed), born)
  <2>1. \A i \in 1..Len(routed) :
           Range(rows[i]) = {Made(people, routed[i], born, kind) : kind \in KindsIn(people, routed[i])}
    BY <1>2, PipelineIs
  <2>2. Range(routed) = {routed[i] : i \in 1..Len(routed)}  BY <1>1 DEF Range
  <2>3. Elements(rows) = UNION {Range(rows[i]) : i \in 1..Len(routed)}  BY <1>2 DEF Elements
  <2>4. ASSUME NEW n \in Elements(rows) PROVE n \in AllMade(people, Range(routed), born)
    <3>1. PICK i \in 1..Len(routed) : n \in Range(rows[i])  BY <2>3
    <3>2. routed[i] \in Range(routed)  BY <2>2
    <3>3. n \in {Made(people, routed[i], born, kind) : kind \in KindsIn(people, routed[i])}  BY <2>1, <3>1
    <3>. QED  BY <3>2, <3>3 DEF AllMade
  <2>5. ASSUME NEW n \in AllMade(people, Range(routed), born) PROVE n \in Elements(rows)
    <3>1. PICK key \in Range(routed) : n \in {Made(people, key, born, kind) : kind \in KindsIn(people, key)}
      BY DEF AllMade
    <3>2. PICK i \in 1..Len(routed) : routed[i] = key  BY <2>2
    <3>3. n \in Range(rows[i])  BY <2>1, <3>1, <3>2
    <3>. QED  BY <2>3, <3>3
  <2>. QED  BY <2>4, <2>5
<1>9. Ranked(ns)
  <2>. SUFFICES ASSUME NEW j \in 1..Len(ns), NEW k \in 1..Len(ns), j < k, ns[j].key = ns[k].key
                PROVE  Rank(ns[j].kind) < Rank(ns[k].kind)
    BY DEF Ranked
  <2>1. \A m \in 1..Len(ns) : row[m] \in 1..Len(routed) /\ col[m] \in 1..4
                              /\ ns[m] = Pipeline(people, routed[row[m]], born)[col[m]]
    <3>. TAKE m \in 1..Len(ns)
    <3>1. row[m] \in 1..Len(routed) /\ col[m] \in 1..Len(rows[row[m]]) /\ ns[m] = rows[row[m]][col[m]]
      BY <1>6 DEF OnEnd
    <3>2. rows[row[m]] = Pipeline(people, routed[row[m]], born) /\ Len(rows[row[m]]) = 4
      BY <1>2, <3>1, PipelineIs
    <3>. QED  BY <3>1, <3>2
  <2>2. ASSUME NEW key, NEW c \in 1..4
        PROVE  /\ Pipeline(people, key, born)[c].key = key
               /\ Rank(Pipeline(people, key, born)[c].kind) = c
    <3>1. CASE c = 1
      <4>1. Pipeline(people, key, born)[1] = Made(people, key, born, HomeIn(people, key))  BY PipelineIs
      <4>2. HomeIn(people, key) \in {"place", "school"}  BY DEF HomeIn
      <4>. QED  BY <3>1, <4>1, <4>2, MadeIs DEF Rank
    <3>2. CASE c = 2
      <4>1. Pipeline(people, key, born)[2] = Made(people, key, born, "route")  BY PipelineIs
      <4>. QED  BY <3>2, <4>1, MadeIs DEF Rank
    <3>3. CASE c = 3
      <4>1. Pipeline(people, key, born)[3] = Made(people, key, born, "mpg")  BY PipelineIs
      <4>. QED  BY <3>3, <4>1, MadeIs DEF Rank
    <3>4. CASE c = 4
      <4>1. Pipeline(people, key, born)[4] = Made(people, key, born, "entry")  BY PipelineIs
      <4>. QED  BY <3>4, <4>1, MadeIs DEF Rank
    <3>. QED  BY <3>1, <3>2, <3>3, <3>4
  <2>7. \A m \in 1..Len(ns) : ns[m].key = routed[row[m]] /\ Rank(ns[m].kind) = col[m]
    <3>. TAKE m \in 1..Len(ns)
    <3>1. /\ Pipeline(people, routed[row[m]], born)[col[m]].key = routed[row[m]]
          /\ Rank(Pipeline(people, routed[row[m]], born)[col[m]].kind) = col[m]
      BY <2>1, <2>2, SMTT(30)
    <3>. QED  BY <2>1, <3>1
  <2>3. routed[row[j]] = routed[row[k]]  BY <2>7
  <2>4. row[j] = row[k]  BY <1>1, <2>1, <2>3 DEF IsInjective
  <2>5. row[j] < row[k] \/ col[j] < col[k]  BY <1>6 DEF OnEnd
  <2>6. col[j] < col[k]  BY <2>1, <2>4, <2>5
  <2>. QED  BY <2>6, <2>7
<1>. QED  BY <1>7, <1>8, <1>9 DEF ns, rows

-----------------------------------------------------------------------------
(***************************************************************************)
(* The pipelines that stand.                                               *)
(***************************************************************************)
AllKeys == UNION {Range(Keys(people)) : people \in Documents}

\* No two destinations of a household have the same person and the same label.
KeysAreUnique == \A people \in Documents : IsInjective(Keys(people))
\* The owner of a destination does not come of age, or turn into a child, from one write to another.
ChildrenStayChildren ==
    \A old, new \in Documents : \A key \in Range(Keys(old)) \cap Range(Keys(new)) :
        OwnerIn(old, key).child = OwnerIn(new, key).child
\* A name is the name of one person, in whichever write it stands.
NamesStay ==
    \A old, new \in Documents : \A p \in Range(old), q \in Range(new) :
        p.name = q.name => PersonId(p) = PersonId(q)

\* Whoever and whatever is written has a name, and no two persons of a household have the same.
NamesTell ==
    \A people \in Documents : \A i \in DOMAIN people :
        /\ people[i].name # "" /\ \A j \in DOMAIN people : people[i].name = people[j].name => i = j
        /\ \A q \in Range(people[i].places) : q.label # ""

\* Where a pipeline begins.
HomeKind(key) ==
    IF \E people \in Documents : key \in Range(Keys(people)) /\ OwnerIn(people, key).child
    THEN "school" ELSE "place"
HomeOf(e) == Sibling(e, HomeKind(e.key))
RouteOf(e) == Sibling(e, "route")
MpgOf(e) == Sibling(e, "mpg")
Circle(e) == {HomeOf(e), RouteOf(e), MpgOf(e), e}
Pipes(g) == UNION {Circle(e) : e \in Range(g.selectors)}
PartsOf(g) == {n \in DOMAIN g.memory : Connected(g, n)}

IsPart(n, last) ==
    /\ n = Node(n.kind, n.key, n.born, n.car)
    /\ n.kind \in {HomeKind(n.key), "route", "mpg", "entry"}
    /\ n.key \in AllKeys /\ n.born \in 1..last /\ n.car \in BOOLEAN
OneEach(s) == \A i, j \in 1..Len(s) : s[i].key = s[j].key => i = j
EntriesStand(g, keys, last) ==
    /\ IsSeq(g.selectors) /\ OneEach(g.selectors)
    /\ \A e \in Range(g.selectors) : e.kind = "entry" /\ IsPart(e, last)
    /\ {e.key : e \in Range(g.selectors)} = keys
MemoryStands(g, last) ==
    /\ Persons \in DOMAIN g.memory
    /\ \A n \in DOMAIN g.memory : n \in {Persons, Breakdown} \/ IsPart(n, last)
    /\ \A e \in Range(g.selectors) : {n \in DOMAIN g.memory : n.key = e.key /\ n.born = e.born} = Circle(e)
SlotsStand(g, rest) ==
    /\ IsSeq(g.slots) /\ IsInjective(g.slots)
    /\ Range(g.slots) = {n \in Pipes(g) : n.kind \in {"place", "mpg"}} \cup rest
RegisteredStand(g, rest) == g.registered = {Id(n) : n \in Pipes(g)} \cup rest
Stands(g, keys, last) == IsGraph(g) /\ EntriesStand(g, keys, last) /\ MemoryStands(g, last)

LEMMA KeysAre ==
    ASSUME NEW people \in Documents
    PROVE  /\ IsSeq(Keys(people)) /\ IsSeq(people)
           /\ Range(Keys(people)) =
                UNION {{<<PersonId(p), p.places[i].label>> : i \in DOMAIN p.places} : p \in Range(people)}
           /\ Range(Keys(people)) \subseteq AllKeys
<1>1. people \in Seq(Person)  BY DocumentsAssumption
<1>2. IsSeq(people) /\ Len(people) \in Nat /\ DOMAIN people = 1..Len(people) /\ Range(people) \subseteq Person
  BY <1>1, SeqIs
<1>. DEFINE rows == [i \in DOMAIN people |-> KeysOf(people[i])]
<1>3. /\ DOMAIN rows = 1..Len(people) /\ rows = [i \in 1..Len(people) |-> rows[i]]
      /\ \A i \in 1..Len(people) : rows[i] = KeysOf(people[i]) /\ people[i] \in Person /\ people[i] \in Range(people)
  BY <1>1, <1>2 DEF Range
<1>4. ASSUME NEW p \in Person
      PROVE  /\ IsSeq(KeysOf(p))
             /\ Range(KeysOf(p)) = {<<PersonId(p), p.places[i].label>> : i \in DOMAIN p.places}
  <2>1. p.places \in Seq([label : STRING, address : STRING])  BY DEF Person
  <2>2. DOMAIN p.places = 1..Len(p.places) /\ Len(p.places) \in Nat  BY <2>1
  <2>. DEFINE ks == KeysOf(p)
  <2>3. ks = [i \in 1..Len(p.places) |-> <<PersonId(p), p.places[i].label>>]  BY <2>2 DEF KeysOf
  <2>4. Range(ks) = {<<PersonId(p), p.places[i].label>> : i \in DOMAIN p.places}  BY <2>2, <2>3 DEF Range
  <2>5. \A i \in 1..Len(p.places) : ks[i] \in Range(ks)  BY <2>3 DEF Range
  <2>6. ks = [i \in 1..Len(p.places) |-> ks[i]]  BY <2>3
  <2>. HIDE DEF ks
  <2>7. ks \in Seq(Range(ks))  BY <2>2, <2>5, <2>6
  <2>. QED  BY <2>4, <2>7 DEF ks, IsSeq
<1>5. \A i \in 1..Len(people) : rows[i] \in Range(rows)  BY <1>3 DEF Range
<1>6. Keys(people) = FlattenSeq(rows)  BY DEF Keys
<1>. HIDE DEF rows
<1>7. rows \in Seq(Range(rows)) /\ Len(rows) = Len(people)  BY <1>2, <1>3, <1>5
<1>8. Rows(rows)
  <2>1. \A i \in 1..Len(rows) : IsSeq(rows[i])  BY <1>3, <1>4, <1>7
  <2>. QED  BY <1>7, <2>1 DEF Rows, IsSeq
<1>9. IsSeq(Keys(people)) /\ Range(Keys(people)) = Elements(rows)  BY <1>6, <1>8, FlattenElements
<1>10. Elements(rows) = UNION {{<<PersonId(p), p.places[i].label>> : i \in DOMAIN p.places} : p \in Range(people)}
  <2>1. Range(people) = {people[i] : i \in 1..Len(people)}  BY <1>2 DEF Range
  <2>2. \A i \in 1..Len(people) :
           Range(rows[i]) = {<<PersonId(people[i]), people[i].places[j].label>> : j \in DOMAIN people[i].places}
    BY <1>3, <1>4
  <2>3. Elements(rows) = UNION {Range(rows[i]) : i \in 1..Len(people)}  BY <1>3 DEF Elements
  <2>. DEFINE S(p) == {<<PersonId(p), p.places[i].label>> : i \in DOMAIN p.places}
  <2>4. \A i \in 1..Len(people) : Range(rows[i]) = S(people[i])  BY <2>2
  <2>. HIDE DEF S
  <2>5. UNION {Range(rows[i]) : i \in 1..Len(people)} = UNION {S(p) : p \in Range(people)}
    <3>1. ASSUME NEW x, NEW i \in 1..Len(people), x \in Range(rows[i]) PROVE x \in UNION {S(p) : p \in Range(people)}
      BY <2>1, <2>4, <3>1
    <3>2. ASSUME NEW x, NEW p \in Range(people), x \in S(p) PROVE x \in UNION {Range(rows[i]) : i \in 1..Len(people)}
      <4>1. PICK i \in 1..Len(people) : people[i] = p  BY <2>1
      <4>. QED  BY <2>4, <3>2, <4>1
    <3>. QED  BY <3>1, <3>2
  <2>. QED  BY <2>3, <2>5 DEF S
<1>. QED  BY <1>2, <1>9, <1>10 DEF AllKeys

LEMMA KeyIs ==
    ASSUME NEW key \in AllKeys
    PROVE  key # <<>> /\ \E p : \E label : key = <<PersonId(p), label>>
<1>1. PICK people \in Documents : key \in Range(Keys(people))  BY DEF AllKeys
<1>2. PICK p \in Range(people) : \E i \in DOMAIN p.places : key = <<PersonId(p), p.places[i].label>>
  BY <1>1, KeysAre
<1>. QED  BY <1>2

\* A pipeline begins with a school where its person is a child.
LEMMA HomeIs ==
    ASSUME ChildrenStayChildren, NEW people \in Documents, NEW key \in Range(Keys(people))
    PROVE  HomeIn(people, key) = HomeKind(key)
<1>. USE DEF HomeIn, HomeKind
<1>1. CASE OwnerIn(people, key).child  BY <1>1
<1>2. CASE ~ OwnerIn(people, key).child
  <2>1. SUFFICES ASSUME NEW old \in Documents, key \in Range(Keys(old)), OwnerIn(old, key).child PROVE FALSE
    BY <1>2
  <2>2. OwnerIn(old, key).child = OwnerIn(people, key).child  BY <2>1 DEF ChildrenStayChildren
  <2>. QED  BY <1>2, <2>1, <2>2
<1>. QED  BY <1>1, <1>2

LEMMA OwnerIs ==
    ASSUME NEW people \in Documents, NEW key \in Range(Keys(people))
    PROVE  /\ OwnerIn(people, key) \in Range(people) /\ OwnerIn(people, key) \in Person
           /\ PersonId(OwnerIn(people, key)) = key[1]
<1>1. people \in Seq(Person)  BY DocumentsAssumption
<1>2. Range(people) \subseteq Person  BY <1>1, SeqIs
<1>3. PICK p \in Range(people) : \E i \in DOMAIN p.places : key = <<PersonId(p), p.places[i].label>>
  BY KeysAre
<1>4. PersonId(p) = key[1]  BY <1>3
<1>5. OwnerIn(people, key) \in Range(people) /\ PersonId(OwnerIn(people, key)) = key[1]  BY <1>4 DEF OwnerIn
<1>. QED  BY <1>2, <1>5

LEMMA SiblingIs ==
    ASSUME NEW n, n = Node(n.kind, n.key, n.born, n.car), NEW kind
    PROVE  /\ Sibling(n, kind) = Node(kind, n.key, n.born, n.car)
           /\ Sibling(n, kind).kind = kind /\ Sibling(n, kind).key = n.key
           /\ Sibling(n, kind).born = n.born /\ Sibling(n, kind).car = n.car
<1>1. Sibling([kind |-> n.kind, key |-> n.key, born |-> n.born, car |-> n.car], kind)
        = [kind |-> kind, key |-> n.key, born |-> n.born, car |-> n.car]
  BY DEF Sibling
<1>. QED  BY <1>1 DEF Node

LEMMA CircleIs ==
    ASSUME NEW e, e = Node(e.kind, e.key, e.born, e.car), NEW n \in Circle(e)
    PROVE  n.key = e.key /\ n.born = e.born /\ n.car = e.car /\ n = Node(n.kind, n.key, n.born, n.car)
BY SiblingIs DEF Circle, HomeOf, RouteOf, MpgOf, Node

\* The entries of a graph that stands, and the nodes of their pipelines.
LEMMA EntriesAre ==
    ASSUME NEW g, NEW keys, NEW last, EntriesStand(g, keys, last)
    PROVE  /\ \A e \in Range(g.selectors) : /\ e = Node("entry", e.key, e.born, e.car)
                                            /\ e = Node(e.kind, e.key, e.born, e.car)
                                            /\ e.born \in 1..last /\ e.key \in keys /\ e.key \in AllKeys
           /\ \A n \in Pipes(g) : /\ n.key \in keys /\ n.born \in 1..last
                                  /\ \E e \in Range(g.selectors) : n \in Circle(e) /\ e.key = n.key /\ e.born = n.born
           /\ keys \subseteq AllKeys
           /\ \A d, e \in Range(g.selectors) : d.key = e.key => d = e
<1>1. \A e \in Range(g.selectors) : /\ e = Node("entry", e.key, e.born, e.car)
                                    /\ e = Node(e.kind, e.key, e.born, e.car)
                                    /\ e.born \in 1..last /\ e.key \in keys /\ e.key \in AllKeys
  BY DEF EntriesStand, IsPart
<1>2. ASSUME NEW n \in Pipes(g)
      PROVE  /\ n.key \in keys /\ n.born \in 1..last
             /\ \E e \in Range(g.selectors) : n \in Circle(e) /\ e.key = n.key /\ e.born = n.born
  <2>1. PICK e \in Range(g.selectors) : n \in Circle(e)  BY DEF Pipes
  <2>2. n.key = e.key /\ n.born = e.born  BY <1>1, <2>1, CircleIs
  <2>. QED  BY <1>1, <2>1, <2>2
<1>3. keys \subseteq AllKeys
  <2>1. keys = {e.key : e \in Range(g.selectors)}  BY DEF EntriesStand
  <2>. QED  BY <1>1, <2>1
<1>4. \A d, e \in Range(g.selectors) : d.key = e.key => d = e
  <2>1. IsSeq(g.selectors) /\ OneEach(g.selectors)  BY DEF EntriesStand
  <2>. SUFFICES ASSUME NEW d \in Range(g.selectors), NEW e \in Range(g.selectors), d.key = e.key PROVE d = e
    OBVIOUS
  <2>2. PICK i \in 1..Len(g.selectors) : g.selectors[i] = d  BY <2>1, SeqFacts
  <2>3. PICK j \in 1..Len(g.selectors) : g.selectors[j] = e  BY <2>1, SeqFacts
  <2>4. i = j  BY <2>1, <2>2, <2>3 DEF OneEach
  <2>. QED  BY <2>2, <2>3, <2>4
<1>. QED  BY <1>1, <1>2, <1>3, <1>4

LEMMA PartsArePipes ==
    ASSUME NEW g, NEW keys, NEW last, Stands(g, keys, last)
    PROVE  PartsOf(g) = Pipes(g)
<1>1. /\ \A e \in Range(g.selectors) : {n \in DOMAIN g.memory : n.key = e.key /\ n.born = e.born} = Circle(e)
      /\ EntriesStand(g, keys, last)
  BY DEF Stands, MemoryStands
<1>2. ASSUME NEW n \in PartsOf(g) PROVE n \in Pipes(g)
  <2>1. n \in DOMAIN g.memory /\ \E e \in Range(g.selectors) : e.key = n.key /\ e.born = n.born
    BY DEF PartsOf, Connected
  <2>2. PICK e \in Range(g.selectors) : e.key = n.key /\ e.born = n.born  BY <2>1
  <2>3. n \in {m \in DOMAIN g.memory : m.key = e.key /\ m.born = e.born}  BY <2>1, <2>2
  <2>4. n \in Circle(e)  BY <1>1, <2>3
  <2>. QED  BY <2>4 DEF Pipes
<1>3. ASSUME NEW n \in Pipes(g) PROVE n \in PartsOf(g)
  <2>1. PICK e \in Range(g.selectors) : n \in Circle(e) /\ e.key = n.key /\ e.born = n.born  BY <1>1, EntriesAre
  <2>2. n \in {m \in DOMAIN g.memory : m.key = e.key /\ m.born = e.born}  BY <1>1, <2>1
  <2>. QED  BY <2>1, <2>2 DEF PartsOf, Connected
<1>. QED  BY <1>2, <1>3

\* Taking down.
EntriesLeft(g, gone) == {e \in Range(g.selectors) : e.key \notin gone}

LEMMA TearDownStands ==
    ASSUME NEW g, NEW keys, NEW last, Stands(g, keys, last), NEW gone \in SUBSET keys,
           NEW rest, SlotsStand(g, rest), \A n \in rest : n.key \notin gone,
           NEW ids, RegisteredStand(g, ids), \A i \in ids : i[2] \notin gone
    PROVE  LET h == TearDown(g, gone)
           IN  /\ Stands(h, keys \ gone, last) /\ SlotsStand(h, rest) /\ RegisteredStand(h, ids)
               /\ Range(h.selectors) = EntriesLeft(g, gone)
<1>. DEFINE h == TearDown(g, gone)
<1>1. /\ IsGraph(g) /\ EntriesStand(g, keys, last) /\ MemoryStands(g, last)
      /\ IsSeq(g.selectors) /\ OneEach(g.selectors) /\ IsSeq(g.slots)
  BY DEF Stands, EntriesStand, SlotsStand
<1>2. /\ IsGraph(h) /\ h.memory = g.memory
      /\ h.slots = Among(g.slots, {n \in Range(g.slots) : n.key \notin gone})
      /\ h.selectors = Among(g.selectors, {n \in Range(g.selectors) : n.key \notin gone})
      /\ h.registered = {i \in g.registered : i[2] \notin gone}
  <2>1. IsGraph(g)  BY <1>1
  <2>2. /\ IsGraph(h) /\ h.memory = g.memory /\ h.slots = Kept(g.slots, gone)
        /\ h.selectors = Kept(g.selectors, gone) /\ h.registered = KeptIds(g.registered, gone)
    BY <2>1, TearDownDoes
  <2>. QED  BY <2>2 DEF Kept, KeptIds
<1>. HIDE DEF h
<1>3. IsSeq(h.selectors) /\ Range(h.selectors) = {e \in Range(g.selectors) : e.key \notin gone}
  BY <1>1, <1>2, AmongHolds
<1>4. OneEach(h.selectors)
  <2>. DEFINE T == {n \in Range(g.selectors) : n.key \notin gone}
  <2>0. IsSeq(g.selectors) /\ h.selectors = Among(g.selectors, T)  BY <1>1, <1>2
  <2>. HIDE DEF T
  <2>1. PICK pick : Keeps(g.selectors, T, h.selectors, pick)
    <3>1. \E pick : Keeps(g.selectors, T, Among(g.selectors, T), pick)  BY <2>0, AmongKeeps
    <3>. QED  BY <2>0, <3>1
  <2>2. \A i, j \in 1..Len(h.selectors) : i < j => pick[i] < pick[j]  BY <2>1 DEF Keeps
  <2>3. \A i \in 1..Len(h.selectors) : pick[i] \in 1..Len(g.selectors) /\ h.selectors[i] = g.selectors[pick[i]]
    BY <2>1 DEF Keeps
  <2>4. Len(h.selectors) \in Nat /\ Len(g.selectors) \in Nat  BY <1>1, <1>3, SeqFacts
  <2>5. ASSUME NEW i \in 1..Len(h.selectors), NEW j \in 1..Len(h.selectors), h.selectors[i].key = h.selectors[j].key
        PROVE  i = j
    <3>0. /\ pick[i] \in 1..Len(g.selectors) /\ pick[j] \in 1..Len(g.selectors)
          /\ g.selectors[pick[i]].key = g.selectors[pick[j]].key
      BY <2>3, <2>5
    <3>1. pick[i] = pick[j]  BY <1>1, <3>0 DEF OneEach
    <3>2. ~(i < j) /\ ~(j < i)  BY <2>2, <2>3, <3>1
    <3>. QED  BY <2>4, <3>2
  <2>. QED  BY <2>5 DEF OneEach
<1>5. {e.key : e \in Range(h.selectors)} = keys \ gone
  <2>1. keys = {e.key : e \in Range(g.selectors)}  BY <1>1 DEF EntriesStand
  <2>. QED  BY <1>3, <2>1
<1>6. EntriesStand(h, keys \ gone, last)  BY <1>1, <1>3, <1>4, <1>5 DEF EntriesStand
<1>7. MemoryStands(h, last)  BY <1>1, <1>2, <1>3 DEF MemoryStands
<1>8. Pipes(h) = {n \in Pipes(g) : n.key \notin gone}
  <2>1. \A e \in Range(g.selectors) : \A n \in Circle(e) : n.key = e.key  BY <1>1, EntriesAre, CircleIs
  <2>. QED  BY <1>3, <2>1 DEF Pipes
<1>9. SlotsStand(h, rest)
  <2>1. IsSeq(h.slots) /\ IsInjective(h.slots) /\ Range(h.slots) = {n \in Range(g.slots) : n.key \notin gone}
    BY <1>1, <1>2, AmongHolds DEF SlotsStand
  <2>2. Range(g.slots) = {n \in Pipes(g) : n.kind \in {"place", "mpg"}} \cup rest  BY DEF SlotsStand
  <2>3. Range(h.slots) = {n \in Pipes(h) : n.kind \in {"place", "mpg"}} \cup rest  BY <1>8, <2>1, <2>2
  <2>. QED  BY <2>1, <2>3 DEF SlotsStand
<1>10. RegisteredStand(h, ids)
  <2>1. g.registered = {Id(n) : n \in Pipes(g)} \cup ids  BY DEF RegisteredStand
  <2>2. \A n : Id(n)[2] = n.key  BY DEF Id
  <2>3. h.registered = {Id(n) : n \in Pipes(h)} \cup ids
    <3>1. ASSUME NEW i \in h.registered PROVE i \in {Id(n) : n \in Pipes(h)} \cup ids
      <4>1. i \in g.registered /\ i[2] \notin gone  BY <1>2
      <4>2. CASE i \in ids  BY <4>2
      <4>3. CASE \E n \in Pipes(g) : i = Id(n)  BY <1>8, <2>2, <4>1, <4>3
      <4>. QED  BY <2>1, <4>1, <4>2, <4>3
    <3>2. ASSUME NEW n \in Pipes(h) PROVE Id(n) \in h.registered
      <4>1. n \in Pipes(g) /\ n.key \notin gone  BY <1>8
      <4>2. Id(n) \in g.registered /\ Id(n)[2] \notin gone  BY <2>1, <2>2, <4>1
      <4>. QED  BY <1>2, <4>2
    <3>3. ASSUME NEW i \in ids PROVE i \in h.registered  BY <1>2, <2>1
    <3>. QED  BY <3>1, <3>2, <3>3
  <2>. QED  BY <2>3 DEF RegisteredStand
<1>11. Stands(h, keys \ gone, last)  BY <1>2, <1>6, <1>7 DEF Stands
<1>. QED  BY <1>3, <1>9, <1>10, <1>11 DEF h, EntriesLeft

-----------------------------------------------------------------------------
(* Building. *)
NewKeys(people, keys) == Among(Keys(people), {key \in keys : Routed(people, key)})
NewNodes(people, keys, born) == FlattenSeq(Pipelines(people, NewKeys(people, keys), born))
NewEntries(people, keys, born) ==
    [i \in DOMAIN NewKeys(people, keys) |-> Made(people, NewKeys(people, keys)[i], born, "entry")]
\* What the destinations of keys come to for which something is built.
RoutedOf(people, keys) == {key \in Range(Keys(people)) \cap keys : Routed(people, key)}

LEMMA NewKeysAre ==
    ASSUME KeysAreUnique, NEW people \in Documents, NEW keys
    PROVE  /\ IsSeq(NewKeys(people, keys)) /\ IsInjective(NewKeys(people, keys))
           /\ Range(NewKeys(people, keys)) = RoutedOf(people, keys)
<1>. DEFINE T == {key \in keys : Routed(people, key)}
<1>1. IsSeq(Keys(people)) /\ IsInjective(Keys(people))  BY KeysAre DEF KeysAreUnique
<1>2. Range(Keys(people)) \cap T = RoutedOf(people, keys)  BY DEF RoutedOf
<1>3. NewKeys(people, keys) = Among(Keys(people), T)  BY DEF NewKeys
<1>. HIDE DEF T
<1>. QED  BY <1>1, <1>2, <1>3, AmongHolds

LEMMA NewNodesAre ==
    ASSUME KeysAreUnique, NEW people \in Documents, NEW keys, NEW born
    PROVE  /\ IsSeq(NewNodes(people, keys, born)) /\ Ranked(NewNodes(people, keys, born))
           /\ IsInjective(NewNodes(people, keys, born))
           /\ Range(NewNodes(people, keys, born)) = AllMade(people, RoutedOf(people, keys), born)
<1>1. /\ IsSeq(NewNodes(people, keys, born)) /\ Ranked(NewNodes(people, keys, born))
      /\ Range(NewNodes(people, keys, born)) = AllMade(people, Range(NewKeys(people, keys)), born)
  BY NewKeysAre, PipelinesHold DEF NewNodes
<1>. QED  BY <1>1, NewKeysAre, RankedIsInjective

LEMMA NewEntriesAre ==
    ASSUME KeysAreUnique, NEW people \in Documents, NEW keys, NEW born
    PROVE  LET es == NewEntries(people, keys, born)
           IN  /\ IsSeq(es) /\ OneEach(es)
               /\ Range(es) = {Made(people, key, born, "entry") : key \in RoutedOf(people, keys)}
<1>. DEFINE es == NewEntries(people, keys, born)
            ks == NewKeys(people, keys)
<1>1. IsSeq(ks) /\ IsInjective(ks) /\ Range(ks) = RoutedOf(people, keys)  BY NewKeysAre
<1>2. Len(ks) \in Nat /\ DOMAIN ks = 1..Len(ks)  BY <1>1, SeqFacts
<1>3. es = [i \in DOMAIN ks |-> Made(people, ks[i], born, "entry")]  BY DEF NewEntries
<1>. HIDE DEF es, ks
<1>4. /\ DOMAIN es = 1..Len(ks) /\ \A i \in 1..Len(ks) : es[i] = Made(people, ks[i], born, "entry")
      /\ es = [i \in 1..Len(ks) |-> es[i]]
  BY <1>2, <1>3
<1>5. \A i \in 1..Len(ks) : es[i] \in Range(es)  BY <1>4 DEF Range
<1>6. es \in Seq(Range(es)) /\ Len(es) = Len(ks)  BY <1>2, <1>4, <1>5
<1>7. Range(es) = {Made(people, key, born, "entry") : key \in Range(ks)}
  <2>1. ASSUME NEW e \in Range(es) PROVE e \in {Made(people, key, born, "entry") : key \in Range(ks)}
    <3>1. PICK i \in 1..Len(ks) : es[i] = e  BY <1>4 DEF Range
    <3>2. ks[i] \in Range(ks)  BY <1>2 DEF Range
    <3>. QED  BY <1>4, <3>1, <3>2
  <2>2. ASSUME NEW key \in Range(ks) PROVE Made(people, key, born, "entry") \in Range(es)
    <3>1. PICK i \in 1..Len(ks) : ks[i] = key  BY <1>2 DEF Range
    <3>. QED  BY <1>4, <1>5, <3>1
  <2>. QED  BY <2>1, <2>2
<1>8. OneEach(es)
  <2>1. \A i \in 1..Len(ks) : es[i].key = ks[i]  BY <1>4, MadeIs
  <2>. QED  BY <1>1, <1>2, <1>6, <2>1 DEF OneEach, IsInjective
<1>. QED  BY <1>1, <1>6, <1>7, <1>8 DEF IsSeq, es

LEMMA BuildDoes ==
    ASSUME NEW g, IsGraph(g), NEW people, NEW keys, NEW born
    PROVE  LET ns == NewNodes(people, keys, born)
               built == Notify(Wired(g, ns), ns)
               h == BuildPipelines(g, people, keys, born)
           IN  /\ IsGraph(h) /\ IsGraph(built)
               /\ h.memory = Remembered(g, ns) /\ h.rows = g.rows /\ h.clock = g.clock
               /\ h.slots = g.slots \o Listening(g, ns)
               /\ h.registered = g.registered \cup Ids(ns)
               /\ h.selectors = g.selectors \o NewEntries(people, keys, born)
               /\ h.queue = built.queue /\ h.scheduled = built.scheduled
<1>. DEFINE ks == NewKeys(people, keys)
            rows == Pipelines(people, ks, born)
            ns == NewNodes(people, keys, born)
            built == Notify(Wired(g, ns), ns)
            h == BuildPipelines(g, people, keys, born)
            es == NewEntries(people, keys, born)
<1>1. [i \in DOMAIN ks |-> rows[i][4]] = es
  <2>1. \A i \in DOMAIN ks : rows[i][4] = Made(people, ks[i], born, "entry")
    <3>. TAKE i \in DOMAIN ks
    <3>1. rows[i] = Pipeline(people, ks[i], born)  BY DEF Pipelines
    <3>2. Pipeline(people, ks[i], born)[4] = Made(people, ks[i], born, "entry")  BY PipelineIs
    <3>. QED  BY <3>1, <3>2
  <2>. QED  BY <2>1 DEF NewEntries
<1>2. h = [built EXCEPT !.selectors = @ \o es]
  <2>1. h = [Construct(g, FlattenSeq(rows)) EXCEPT !.selectors = @ \o [i \in DOMAIN ks |-> rows[i][4]]]
    BY DEF BuildPipelines, Pipelines, NewKeys
  <2>2. FlattenSeq(rows) = ns  BY DEF NewNodes
  <2>. HIDE DEF rows, ks, ns, es, h
  <2>. QED  BY <1>1, <2>1, <2>2, ConstructIs
<1>. HIDE DEF ks, rows, ns, es, h
<1>3. /\ IsGraph(Wired(g, ns)) /\ Wired(g, ns).rows = g.rows /\ Wired(g, ns).clock = g.clock
      /\ Wired(g, ns).selectors = g.selectors /\ Wired(g, ns).memory = Remembered(g, ns)
      /\ Wired(g, ns).slots = g.slots \o Listening(g, ns)
      /\ Wired(g, ns).registered = g.registered \cup Ids(ns)
  BY WiredDoes
<1>4. IsGraph(built) /\ Requeued(Wired(g, ns), built)  BY <1>3, NotifyRequeues
<1>. HIDE DEF built
<1>5. /\ built.memory = Remembered(g, ns) /\ built.rows = g.rows /\ built.clock = g.clock
      /\ built.selectors = g.selectors /\ built.slots = g.slots \o Listening(g, ns)
      /\ built.registered = g.registered \cup Ids(ns)
  BY <1>3, <1>4 DEF Requeued
<1>6. /\ IsGraph(h) /\ h.memory = built.memory /\ h.rows = built.rows /\ h.clock = built.clock
      /\ h.slots = built.slots /\ h.registered = built.registered /\ h.queue = built.queue
      /\ h.scheduled = built.scheduled /\ h.selectors = built.selectors \o es
  BY <1>2, <1>4 DEF IsGraph, Fields
<1>. QED  BY <1>4, <1>5, <1>6 DEF h, es, ns, built

LEMMA ReadsPersons ==
    ASSUME NEW g, NEW n, n = Node(n.kind, n.key, n.born, n.car), n.kind \in Kinds
    PROVE  Persons \in Inputs(g, n) <=> n.kind \in {"place", "mpg"}
<1>1. \A kind : Sibling(n, kind).kind = kind  BY SiblingIs
<1>2. Persons.kind = "persons"  BY DEF Persons, Node
<1>3. CASE n.kind \in {"place", "mpg"}  BY <1>3 DEF Inputs
<1>4. CASE n.kind = "school"  BY <1>4 DEF Inputs
<1>5. CASE n.kind = "route"
  <2>1. Persons \notin Home(g, n)  BY <1>1, <1>2 DEF Home
  <2>. QED  BY <1>5, <2>1 DEF Inputs
<1>6. CASE n.kind = "entry"
  <2>1. Inputs(g, n) = {Sibling(n, "route"), Sibling(n, "mpg")}  BY <1>6 DEF Inputs
  <2>. QED  BY <1>1, <1>2, <1>6, <2>1
<1>. QED  BY <1>3, <1>4, <1>5, <1>6 DEF Kinds

LEMMA NewPartsAre ==
    ASSUME ChildrenStayChildren, NEW people \in Documents, NEW keys, NEW born \in Nat \ {0},
           NEW n \in AllMade(people, RoutedOf(people, keys), born)
    PROVE  /\ IsPart(n, born) /\ n.born = born /\ n.key \in RoutedOf(people, keys) /\ n.kind \in Kinds
           /\ n = Made(people, n.key, born, n.kind)
           /\ Circle(Made(people, n.key, born, "entry"))
                = {Made(people, n.key, born, kind) : kind \in KindsIn(people, n.key)}
           /\ n.kind \in KindsIn(people, n.key)
<1>1. PICK key \in RoutedOf(people, keys) : \E kind \in KindsIn(people, key) : n = Made(people, key, born, kind)
  BY DEF AllMade
<1>2. PICK kind \in KindsIn(people, key) : n = Made(people, key, born, kind)  BY <1>1
<1>3. /\ n.kind = kind /\ n.key = key /\ n.born = born /\ n.car = OwnerIn(people, key).car
      /\ n = Node(n.kind, n.key, n.born, n.car)
  BY <1>2, MadeIs
<1>4. key \in Range(Keys(people)) /\ key \in AllKeys  BY KeysAre DEF RoutedOf
<1>5. OwnerIn(people, key).car \in BOOLEAN  BY <1>4, OwnerIs DEF Person
<1>6. HomeIn(people, key) = HomeKind(key)  BY <1>4, HomeIs
<1>7. KindsIn(people, key) = {HomeKind(key), "route", "mpg", "entry"}  BY <1>6 DEF KindsIn
<1>8. HomeKind(key) \in {"school", "place"}  BY DEF HomeKind
<1>9. kind \in Kinds  BY <1>7, <1>8 DEF Kinds
<1>10. IsPart(n, born)
  <2>1. born \in 1..born  OBVIOUS
  <2>. QED  BY <1>3, <1>4, <1>5, <1>7, <2>1 DEF IsPart
<1>11. Circle(Made(people, key, born, "entry")) = {Made(people, key, born, k) : k \in KindsIn(people, key)}
  <2>. DEFINE e == Made(people, key, born, "entry")
  <2>1. e.key = key /\ \A k : Sibling(e, k) = Made(people, key, born, k)  BY MadeIs
  <2>2. Circle(e) = {Made(people, key, born, HomeKind(key)), Made(people, key, born, "route"),
                     Made(people, key, born, "mpg"), Made(people, key, born, "entry")}
    BY <2>1 DEF Circle, HomeOf, RouteOf, MpgOf
  <2>. HIDE DEF e
  <2>3. {Made(people, key, born, HomeKind(key)), Made(people, key, born, "route"),
         Made(people, key, born, "mpg"), Made(people, key, born, "entry")}
          = {Made(people, key, born, k) : k \in KindsIn(people, key)}
    BY <1>7
  <2>. QED  BY <2>2, <2>3 DEF e
<1>. QED  BY <1>1, <1>2, <1>3, <1>9, <1>10, <1>11

LEMMA PartLater ==
    ASSUME NEW n, NEW last \in Nat, NEW later \in Nat, last <= later, IsPart(n, last)
    PROVE  IsPart(n, later)
BY DEF IsPart

Apart(a, b) == a \cap b = {}
Unborn(ns) == \A n \in ns : n.born = 0
EntriesMade(people, keys, born) == {Made(people, key, born, "entry") : key \in keys}

CanBuild(g, old, last, keys, born, rest, ids) ==
    /\ born \in Nat /\ last \in Nat /\ last < born
    /\ Stands(g, old, last) /\ Apart(old, keys)
    /\ SlotsStand(g, rest) /\ Unborn(rest) /\ RegisteredStand(g, ids)

LEMMA BuildStands ==
    ASSUME KeysAreUnique, ChildrenStayChildren, NEW people \in Documents, NEW keys, NEW born,
           NEW g, NEW old, NEW last, NEW rest, NEW ids, CanBuild(g, old, last, keys, born, rest, ids)
    PROVE  LET h == BuildPipelines(g, people, keys, born)
           IN  /\ Stands(h, old \cup RoutedOf(people, keys), born)
               /\ SlotsStand(h, rest) /\ RegisteredStand(h, ids)
               /\ Range(h.selectors) = Range(g.selectors) \cup EntriesMade(people, RoutedOf(people, keys), born)
<1>. DEFINE h == BuildPipelines(g, people, keys, born)
            ns == NewNodes(people, keys, born)
            es == NewEntries(people, keys, born)
            R == RoutedOf(people, keys)
            made == AllMade(people, R, born)
            entries == {Made(people, key, born, "entry") : key \in R}
<1>0. /\ born \in Nat /\ last \in Nat /\ last < born /\ born \in Nat \ {0}
      /\ Stands(g, old, last) /\ Apart(old, keys)
      /\ SlotsStand(g, rest) /\ Unborn(rest) /\ RegisteredStand(g, ids)
  BY DEF CanBuild
<1>1. IsGraph(g) /\ EntriesStand(g, old, last) /\ MemoryStands(g, last)  BY <1>0 DEF Stands
<1>2. IsSeq(ns) /\ Ranked(ns) /\ IsInjective(ns) /\ Range(ns) = made  BY NewNodesAre
<1>3. IsSeq(es) /\ OneEach(es) /\ Range(es) = entries  BY NewEntriesAre
<1>4. /\ IsGraph(h) /\ h.memory = Remembered(g, ns) /\ h.slots = g.slots \o Listening(g, ns)
      /\ h.registered = g.registered \cup Ids(ns) /\ h.selectors = g.selectors \o es
  BY <1>1, BuildDoes
<1>5. \A n \in made : /\ IsPart(n, born) /\ n.born = born /\ n.key \in R /\ n.kind \in Kinds
                      /\ n = Made(people, n.key, born, n.kind) /\ n.kind \in KindsIn(people, n.key)
                      /\ Circle(Made(people, n.key, born, "entry"))
                           = {Made(people, n.key, born, kind) : kind \in KindsIn(people, n.key)}
  BY <1>0, NewPartsAre, SMTT(30)
<1>6. \A key \in R : \A kind \in KindsIn(people, key) : Made(people, key, born, kind) \in made  BY DEF AllMade
<1>7. \A key \in R : "entry" \in KindsIn(people, key)  BY DEF KindsIn
<1>8. R \subseteq keys  BY DEF RoutedOf
<1>9. DOMAIN h.memory = DOMAIN g.memory \cup made  BY <1>2, <1>4 DEF Remembered
<1>. HIDE DEF h, ns, es, R, made
<1>10. \A key \in R : /\ Made(people, key, born, "entry").key = key
                      /\ Made(people, key, born, "entry").kind = "entry"
                      /\ Made(people, key, born, "entry").born = born
  BY MadeIs
<1>11. IsSeq(g.selectors) /\ OneEach(g.selectors)  BY <1>1 DEF EntriesStand
<1>12. /\ IsSeq(h.selectors) /\ Range(h.selectors) = Range(g.selectors) \cup entries
       /\ Len(h.selectors) = Len(g.selectors) + Len(es)
       /\ \A i \in 1..Len(g.selectors) : h.selectors[i] = g.selectors[i]
       /\ \A i \in 1..Len(es) : h.selectors[Len(g.selectors) + i] = es[i]
  <2>. HIDE DEF entries
  <2>. QED  BY <1>3, <1>4, <1>11, JoinHolds
<1>13. OneEach(h.selectors)
  <2>1. Len(es) \in Nat /\ Len(g.selectors) \in Nat  BY <1>3, <1>11, SeqFacts
  <2>2. \A i \in 1..Len(g.selectors) : h.selectors[i].key \in old
    <3>. TAKE i \in 1..Len(g.selectors)
    <3>1. g.selectors[i] \in Range(g.selectors)  BY <1>11, SeqFacts
    <3>. QED  BY <1>1, <1>12, <3>1, EntriesAre
  <2>3. \A i \in 1..Len(es) : h.selectors[Len(g.selectors) + i].key \in R
    <3>. TAKE i \in 1..Len(es)
    <3>1. es[i] \in entries  BY <1>3, SeqFacts
    <3>. QED  BY <1>10, <1>12, <3>1
  <2>. SUFFICES ASSUME NEW i \in 1..Len(h.selectors), NEW j \in 1..Len(h.selectors),
                       h.selectors[i].key = h.selectors[j].key
                PROVE  i = j
    BY DEF OneEach
  <2>. DEFINE m == Len(g.selectors)
  <2>4. \A k \in 1..Len(h.selectors) : k \in 1..m \/ (k - m \in 1..Len(es) /\ k = m + (k - m))
    BY <1>12, <2>1
  <2>5. CASE i \in 1..m /\ j \in 1..m  BY <2>5, <1>11, <1>12 DEF OneEach
  <2>6. CASE i \notin 1..m /\ j \notin 1..m
    <3>1. i - m \in 1..Len(es) /\ j - m \in 1..Len(es) /\ i = m + (i - m) /\ j = m + (j - m)  BY <2>4, <2>6
    <3>2. es[i - m].key = es[j - m].key  BY <3>1, <1>12
    <3>3. i - m = j - m  BY <3>1, <3>2, <1>3 DEF OneEach
    <3>. QED  BY <3>3, <2>1
  <2>7. \A k \in 1..Len(h.selectors) : /\ k \in 1..m => h.selectors[k].key \in old
                                       /\ k \notin 1..m => h.selectors[k].key \in R
    <3>. TAKE k \in 1..Len(h.selectors)
    <3>1. CASE k \in 1..m  BY <3>1, <2>2
    <3>2. CASE k \notin 1..m  BY <3>2, <2>3, <2>4
    <3>. QED  BY <3>1, <3>2
  <2>8. old \cap R = {}  BY <1>0, <1>8 DEF Apart
  <2>9. i \in 1..m <=> j \in 1..m  BY <2>7, <2>8
  <2>. QED  BY <2>5, <2>6, <2>9
<1>14. EntriesStand(h, old \cup R, born)
  <2>1. \A e \in Range(g.selectors) : e.kind = "entry" /\ IsPart(e, born)
    <3>1. \A e \in Range(g.selectors) : e.kind = "entry" /\ IsPart(e, last)  BY <1>1 DEF EntriesStand
    <3>. QED  BY <3>1, <1>0, PartLater
  <2>2. \A e \in entries : e.kind = "entry" /\ IsPart(e, born)  BY <1>5, <1>6, <1>7, <1>10
  <2>3. {e.key : e \in Range(h.selectors)} = old \cup R
    <3>1. {e.key : e \in Range(g.selectors)} = old  BY <1>1 DEF EntriesStand
    <3>2. {e.key : e \in entries} = R  BY <1>10
    <3>. HIDE DEF entries
    <3>. QED  BY <3>1, <3>2, <1>12
  <2>. QED  BY <1>12, <1>13, <2>1, <2>2, <2>3 DEF EntriesStand
<1>15. \A n \in DOMAIN g.memory : n.born \in Nat /\ n.born # born
  <2>1. Persons.born = 0 /\ Breakdown.born = 0  BY DEF Persons, Breakdown, Node
  <2>. QED  BY <1>0, <1>1, <2>1 DEF MemoryStands, IsPart
<1>16. MemoryStands(h, born)
  <2>1. Persons \in DOMAIN h.memory  BY <1>1, <1>9 DEF MemoryStands
  <2>2. \A n \in DOMAIN h.memory : n \in {Persons, Breakdown} \/ IsPart(n, born)
    <3>1. \A n \in DOMAIN g.memory : n \in {Persons, Breakdown} \/ IsPart(n, last)  BY <1>1 DEF MemoryStands
    <3>. QED  BY <3>1, <1>5, <1>9, <1>0, PartLater
  <2>3. ASSUME NEW e \in Range(g.selectors)
        PROVE  {n \in DOMAIN h.memory : n.key = e.key /\ n.born = e.born} = Circle(e)
    <3>1. e.born \in 1..last  BY <1>1, EntriesAre
    <3>2. {n \in DOMAIN g.memory : n.key = e.key /\ n.born = e.born} = Circle(e)  BY <1>1 DEF MemoryStands
    <3>3. \A n \in made : n.born # e.born  BY <1>0, <1>5, <3>1
    <3>. QED  BY <3>2, <3>3, <1>9
  <2>4. ASSUME NEW e \in entries
        PROVE  {n \in DOMAIN h.memory : n.key = e.key /\ n.born = e.born} = Circle(e)
    <3>1. e \in made /\ e.born = born /\ e.key \in R /\ e = Made(people, e.key, born, "entry")
      BY <1>6, <1>7, <1>10
    <3>2. Circle(e) = {Made(people, e.key, born, kind) : kind \in KindsIn(people, e.key)}  BY <1>0, <1>5, <3>1
    <3>3. {n \in DOMAIN h.memory : n.key = e.key /\ n.born = e.born} = {n \in made : n.key = e.key}
      BY <1>5, <1>9, <1>15, <3>1
    <3>4. ASSUME NEW n \in made, n.key = e.key PROVE n \in Circle(e)  BY <1>5, <3>2, <3>4
    <3>5. ASSUME NEW n \in Circle(e) PROVE n \in made /\ n.key = e.key  BY <1>6, <3>1, <3>2, MadeIs
    <3>. QED  BY <3>3, <3>4, <3>5
  <2>. QED  BY <1>12, <2>1, <2>2, <2>3, <2>4 DEF MemoryStands
<1>17. Pipes(h) = Pipes(g) \cup made
  <2>1. UNION {Circle(e) : e \in entries} = made
    <3>1. ASSUME NEW e \in entries, NEW n \in Circle(e) PROVE n \in made
      <4>1. e \in made /\ e.key \in R /\ e = Made(people, e.key, born, "entry")  BY <1>6, <1>7, <1>10
      <4>2. Circle(e) = {Made(people, e.key, born, kind) : kind \in KindsIn(people, e.key)}  BY <1>5, <4>1
      <4>. QED  BY <1>6, <4>1, <4>2, <3>1
    <3>2. ASSUME NEW n \in made PROVE \E e \in entries : n \in Circle(e)
      <4>1. n.key \in R /\ n = Made(people, n.key, born, n.kind) /\ n.kind \in KindsIn(people, n.key)
        BY <1>5
      <4>2. n \in Circle(Made(people, n.key, born, "entry"))  BY <1>5, <4>1
      <4>. QED  BY <4>1, <4>2
    <3>. HIDE DEF entries
    <3>. QED  BY <3>1, <3>2
  <2>. HIDE DEF entries
  <2>. QED  BY <2>1, <1>12 DEF Pipes
<1>18. SlotsStand(h, rest)
  <2>1. /\ IsSeq(g.slots) /\ IsInjective(g.slots)
        /\ Range(g.slots) = {n \in Pipes(g) : n.kind \in {"place", "mpg"}} \cup rest
    BY <1>0 DEF SlotsStand
  <2>2. \A n \in made : Persons \in Inputs(g, n) <=> n.kind \in {"place", "mpg"}
    BY <1>5, ReadsPersons DEF IsPart
  <2>3. {n \in Range(ns) : Persons \in Inputs(g, n)} = {n \in made : n.kind \in {"place", "mpg"}}
    BY <1>2, <2>2
  <2>4. /\ IsSeq(Listening(g, ns)) /\ IsInjective(Listening(g, ns))
        /\ Range(Listening(g, ns)) = {n \in made : n.kind \in {"place", "mpg"}}
    <3>. DEFINE T == {n \in made : n.kind \in {"place", "mpg"}}
    <3>1. Listening(g, ns) = Among(ns, T)  BY <2>3 DEF Listening
    <3>2. made \cap T = T  OBVIOUS
    <3>. HIDE DEF T
    <3>3. IsSeq(Among(ns, T)) /\ Range(Among(ns, T)) = made \cap T /\ IsInjective(Among(ns, T))
      BY <1>2, AmongHolds
    <3>. QED  BY <3>1, <3>2, <3>3 DEF T
  <2>5. Range(g.slots) \cap Range(Listening(g, ns)) = {}
    <3>1. \A n \in Pipes(g) : n.born \in 1..last  BY <1>1, EntriesAre
    <3>2. \A n \in Range(g.slots) : n.born # born  BY <1>0, <2>1, <3>1 DEF Unborn
    <3>. QED  BY <2>4, <3>2, <1>5
  <2>6. IsSeq(h.slots) /\ IsInjective(h.slots) /\ Range(h.slots) = Range(g.slots) \cup Range(Listening(g, ns))
    BY <1>4, <2>1, <2>4, <2>5, JoinHolds
  <2>7. Range(h.slots) = {n \in Pipes(h) : n.kind \in {"place", "mpg"}} \cup rest  BY <1>17, <2>1, <2>4, <2>6
  <2>. QED  BY <2>6, <2>7 DEF SlotsStand
<1>19. RegisteredStand(h, ids)
  <2>1. g.registered = {Id(n) : n \in Pipes(g)} \cup ids  BY <1>0 DEF RegisteredStand
  <2>2. Ids(ns) = {Id(n) : n \in made}  BY <1>2 DEF Ids
  <2>3. h.registered = {Id(n) : n \in Pipes(h)} \cup ids  BY <1>4, <1>17, <2>1, <2>2
  <2>. QED  BY <2>3 DEF RegisteredStand
<1>20. Stands(h, old \cup R, born)  BY <1>4, <1>14, <1>16 DEF Stands
<1>. QED  BY <1>12, <1>18, <1>19, <1>20 DEF h, R, EntriesMade

-----------------------------------------------------------------------------
(* An edit, and an opening. *)
RoutedKeys(people) == {key \in Range(Keys(people)) : Routed(people, key)}
AllStand(g, keys, last) ==
    /\ Stands(g, keys, last) /\ SlotsStand(g, {Property, Breakdown}) /\ RegisteredStand(g, {Id(Breakdown)})
    /\ Breakdown \in DOMAIN g.memory

LEMMA Fixed ==
    /\ \A n \in {Property, Breakdown, Persons} : n.born = 0 /\ n.key = <<>>
    /\ Property.kind = "property" /\ Breakdown.kind = "breakdown" /\ Persons.kind = "persons"
    /\ Id(Breakdown) = <<"breakdown", <<>>>>
BY DEF Property, Breakdown, Persons, Node, Id

LEMMA SetDepsStands ==
    ASSUME NEW g, NEW keys, NEW last, AllStand(g, keys, last)
    PROVE  AllStand(SetDeps(g), keys, last) /\ Range(SetDeps(g).selectors) = Range(g.selectors)
<1>. DEFINE h == SetDeps(g)
            before == Among(g.slots, Range(g.slots) \ {Breakdown})
<1>1. /\ IsGraph(g) /\ EntriesStand(g, keys, last) /\ MemoryStands(g, last)
      /\ SlotsStand(g, {Property, Breakdown}) /\ RegisteredStand(g, {Id(Breakdown)})
      /\ Breakdown \in DOMAIN g.memory
  BY DEF AllStand, Stands
<1>2. /\ IsGraph(h) /\ h.memory = g.memory /\ h.selectors = g.selectors /\ h.registered = g.registered
      /\ h.slots = Append(before, Breakdown)
  BY <1>1, SetDepsDoes
<1>3. Pipes(h) = Pipes(g)  BY <1>2 DEF Pipes
<1>4. EntriesStand(h, keys, last) /\ MemoryStands(h, last) /\ RegisteredStand(h, {Id(Breakdown)})
  BY <1>1, <1>2, <1>3 DEF EntriesStand, MemoryStands, RegisteredStand
<1>5. IsSeq(g.slots) /\ IsInjective(g.slots)  BY <1>1 DEF SlotsStand
<1>6. IsSeq(before) /\ IsInjective(before) /\ Range(before) = Range(g.slots) \ {Breakdown}
  <2>. DEFINE T == Range(g.slots) \ {Breakdown}
  <2>1. Range(g.slots) \cap T = T  OBVIOUS
  <2>. HIDE DEF T
  <2>2. IsSeq(Among(g.slots, T)) /\ IsInjective(Among(g.slots, T)) /\ Range(Among(g.slots, T)) = Range(g.slots) \cap T
    BY <1>5, AmongHolds
  <2>. QED  BY <2>1, <2>2 DEF T
<1>. HIDE DEF h, before
<1>7. IsSeq(<<Breakdown>>) /\ IsInjective(<<Breakdown>>) /\ Range(<<Breakdown>>) = {Breakdown}
  <2>1. Range(<<Breakdown>>) = {Breakdown}  BY DEF Range
  <2>2. <<Breakdown>> \in Seq({Breakdown})  OBVIOUS
  <2>. QED  BY <2>1, <2>2 DEF IsSeq, IsInjective
<1>8. h.slots = before \o <<Breakdown>>
  <2>1. before \in Seq(Range(before))  BY <1>6 DEF IsSeq
  <2>. DEFINE S == Range(before) \cup {Breakdown}
  <2>2. before \in Seq(S) /\ Breakdown \in S  BY <2>1
  <2>. HIDE DEF S
  <2>3. Append(before, Breakdown) = before \o <<Breakdown>>  BY <2>2
  <2>. QED  BY <1>2, <2>3
<1>9. /\ IsSeq(h.slots) /\ IsInjective(h.slots)
      /\ Range(h.slots) = (Range(g.slots) \ {Breakdown}) \cup {Breakdown}
  <2>1. Range(before) \cap Range(<<Breakdown>>) = {}  BY <1>6, <1>7
  <2>2. /\ IsSeq(before \o <<Breakdown>>) /\ IsInjective(before \o <<Breakdown>>)
        /\ Range(before \o <<Breakdown>>) = Range(before) \cup Range(<<Breakdown>>)
    BY <1>6, <1>7, <2>1, JoinHolds
  <2>. QED  BY <1>6, <1>7, <1>8, <2>2
<1>10. SlotsStand(h, {Property, Breakdown})
  <2>1. Range(g.slots) = {n \in Pipes(g) : n.kind \in {"place", "mpg"}} \cup {Property, Breakdown}
    BY <1>1 DEF SlotsStand
  <2>2. Range(h.slots) = {n \in Pipes(h) : n.kind \in {"place", "mpg"}} \cup {Property, Breakdown}
    BY <1>3, <1>9, <2>1
  <2>. QED  BY <1>9, <2>2 DEF SlotsStand
<1>. QED  BY <1>1, <1>2, <1>4, <1>10 DEF AllStand, Stands, h

LEMMA RequeuedStands ==
    ASSUME NEW g, NEW keys, NEW last, AllStand(g, keys, last), NEW h, IsGraph(h),
           DOMAIN h.memory = DOMAIN g.memory, h.selectors = g.selectors, h.slots = g.slots,
           h.registered = g.registered
    PROVE  AllStand(h, keys, last)
<1>1. Pipes(h) = Pipes(g)  BY DEF Pipes
<1>2. EntriesStand(h, keys, last) /\ MemoryStands(h, last)
  BY DEF AllStand, Stands, EntriesStand, MemoryStands
<1>3. SlotsStand(h, {Property, Breakdown}) /\ RegisteredStand(h, {Id(Breakdown)})
  BY <1>1 DEF AllStand, SlotsStand, RegisteredStand
<1>. QED  BY <1>2, <1>3 DEF AllStand, Stands

LEMMA RoutedStays ==
    ASSUME ChildrenStayChildren, NEW old \in Documents, NEW new \in Documents,
           NEW key \in Range(Keys(old)) \cap Range(Keys(new))
    PROVE  Routed(old, key) <=> Routed(new, key)
BY DEF ChildrenStayChildren, Routed

\* What is gone, what is new, and what is left alone.
EntriesAfter(g, old, people, born) ==
    {e \in Range(g.selectors) : e.key \in Range(Keys(people))}
        \cup EntriesMade(people, RoutedKeys(people) \ Range(Keys(old)), born)

LEMMA EditStands ==
    ASSUME KeysAreUnique, ChildrenStayChildren, NEW old \in Documents, NEW people \in Documents,
           NEW last \in Nat, NEW born \in Nat, last < born, NEW g, AllStand(g, RoutedKeys(old), last)
    PROVE  LET h == OnPersonsChanged(g, people, born)
           IN  /\ AllStand(h, RoutedKeys(people), born)
               /\ Range(h.selectors) = EntriesAfter(g, old, people, born)
<1>. DEFINE wanted == Range(Keys(people))
            current == {n.key : n \in Range(g.selectors)}
            gone == current \ wanted
            down == TearDown(g, gone)
            built == BuildPipelines(down, people, wanted \ current, born)
            rest == {Property, Breakdown}
            ids == {Id(Breakdown)}
<1>1. /\ Stands(g, RoutedKeys(old), last) /\ SlotsStand(g, rest) /\ RegisteredStand(g, ids)
      /\ Breakdown \in DOMAIN g.memory /\ EntriesStand(g, RoutedKeys(old), last)
  BY DEF AllStand, Stands
<1>2. current = RoutedKeys(old)  BY <1>1 DEF EntriesStand
<1>3. OnPersonsChanged(g, people, born) = SetDeps(built)  BY DEF OnPersonsChanged
<1>4. \A n \in rest : n.key = <<>> /\ n.born = 0  BY Fixed
<1>5. \A i \in ids : i[2] = <<>>  BY Fixed
<1>. HIDE DEF wanted, current, gone, down, built, rest, ids
<1>6. gone \in SUBSET RoutedKeys(old) /\ <<>> \notin gone
  <2>1. RoutedKeys(old) \subseteq AllKeys  BY KeysAre DEF RoutedKeys
  <2>. QED  BY <1>2, <2>1, KeyIs DEF gone
<1>7. /\ Stands(down, RoutedKeys(old) \ gone, last) /\ SlotsStand(down, rest) /\ RegisteredStand(down, ids)
      /\ Range(down.selectors) = {e \in Range(g.selectors) : e.key \notin gone}
  <2>1. Stands(g, RoutedKeys(old), last) /\ SlotsStand(g, rest) /\ RegisteredStand(g, ids)  BY <1>1
  <2>2. gone \in SUBSET RoutedKeys(old)  BY <1>6
  <2>3. (\A n \in rest : n.key \notin gone) /\ \A i \in ids : i[2] \notin gone  BY <1>4, <1>5, <1>6
  <2>4. /\ Stands(TearDown(g, gone), RoutedKeys(old) \ gone, last) /\ SlotsStand(TearDown(g, gone), rest)
        /\ RegisteredStand(TearDown(g, gone), ids)
        /\ Range(TearDown(g, gone).selectors) = EntriesLeft(g, gone)
    BY <2>1, <2>2, <2>3, TearDownStands
  <2>. QED  BY <2>4 DEF down, EntriesLeft
<1>8. (RoutedKeys(old) \ gone) \cap (wanted \ current) = {}  BY <1>2
<1>9. /\ Stands(built, (RoutedKeys(old) \ gone) \cup RoutedOf(people, wanted \ current), born)
      /\ SlotsStand(built, rest) /\ RegisteredStand(built, ids)
      /\ Range(built.selectors) = Range(down.selectors)
           \cup {Made(people, key, born, "entry") : key \in RoutedOf(people, wanted \ current)}
  <2>1. born \in Nat \ {0}  OBVIOUS
  <2>. DEFINE keys == wanted \ current
              kept == RoutedKeys(old) \ gone
  <2>2. Apart(kept, keys) /\ Stands(down, kept, last)  BY <1>7, <1>8 DEF Apart
  <2>3. SlotsStand(down, rest) /\ RegisteredStand(down, ids) /\ Unborn(rest)  BY <1>4, <1>7 DEF Unborn
  <2>. HIDE DEF keys, kept
  <2>4. /\ Stands(BuildPipelines(down, people, keys, born), kept \cup RoutedOf(people, keys), born)
        /\ SlotsStand(BuildPipelines(down, people, keys, born), rest)
        /\ RegisteredStand(BuildPipelines(down, people, keys, born), ids)
        /\ Range(BuildPipelines(down, people, keys, born).selectors)
             = Range(down.selectors) \cup EntriesMade(people, RoutedOf(people, keys), born)
    <3>1. CanBuild(down, kept, last, keys, born, rest, ids)  BY <2>1, <2>2, <2>3 DEF CanBuild
    <3>. QED  BY <3>1, BuildStands
  <2>. QED  BY <2>4 DEF built, keys, kept, EntriesMade
<1>10. RoutedOf(people, wanted \ current) = RoutedKeys(people) \ Range(Keys(old))
  BY <1>2, RoutedStays DEF RoutedOf, RoutedKeys, wanted
<1>11. RoutedKeys(old) \ gone = RoutedKeys(people) \cap Range(Keys(old))
  BY <1>2, RoutedStays DEF RoutedKeys, wanted, gone
<1>12. (RoutedKeys(old) \ gone) \cup RoutedOf(people, wanted \ current) = RoutedKeys(people)  BY <1>10, <1>11
<1>13. Breakdown \in DOMAIN built.memory
  <2>1. IsGraph(g)  BY <1>1 DEF Stands
  <2>2. IsGraph(down) /\ down.memory = g.memory  BY <2>1, TearDownDoes DEF down
  <2>3. built.memory = Remembered(down, NewNodes(people, wanted \ current, born))
    BY <2>2, BuildDoes DEF built
  <2>. QED  BY <1>1, <2>2, <2>3 DEF Remembered
<1>14. AllStand(built, RoutedKeys(people), born)  BY <1>9, <1>12, <1>13 DEF AllStand, rest, ids
<1>15. /\ AllStand(SetDeps(built), RoutedKeys(people), born)
       /\ Range(SetDeps(built).selectors) = Range(built.selectors)
  BY <1>14, SetDepsStands
<1>16. \A e \in Range(g.selectors) : e.key \notin gone <=> e.key \in wanted
  BY <1>1, <1>2, EntriesAre DEF gone
<1>17. Range(down.selectors) = {e \in Range(g.selectors) : e.key \in wanted}  BY <1>7, <1>16
<1>. QED  BY <1>3, <1>9, <1>10, <1>15, <1>17 DEF wanted, EntriesAfter, EntriesMade

LEMMA AnnounceStands ==
    ASSUME KeysAreUnique, ChildrenStayChildren, NEW old \in Documents, NEW people \in Documents,
           NEW last \in Nat, NEW born \in Nat, last < born, NEW g, AllStand(g, RoutedKeys(old), last)
    PROVE  LET h == Announce(g, people, born)
           IN  /\ AllStand(h, RoutedKeys(people), born)
               /\ Range(h.selectors) = EntriesAfter(g, old, people, born)
<1>. DEFINE at == CHOOSE i \in DOMAIN g.slots : g.slots[i] = Property
            first == Notify(g, SubSeq(g.slots, 1, at - 1))
            edited == OnPersonsChanged(first, people, born)
            h == Notify(edited, SubSeq(g.slots, at + 1, Len(g.slots)))
<1>1. Announce(g, people, born) = h  BY DEF Announce
<1>2. IsGraph(g)  BY DEF AllStand, Stands
<1>. HIDE DEF at
<1>3. IsGraph(first) /\ Requeued(g, first)  BY <1>2, NotifyRequeues
<1>. HIDE DEF first
<1>4. AllStand(first, RoutedKeys(old), last) /\ first.selectors = g.selectors
  BY <1>3, RequeuedStands DEF Requeued
<1>5. /\ AllStand(edited, RoutedKeys(people), born)
      /\ Range(edited.selectors) = EntriesAfter(g, old, people, born)
  <2>1. /\ AllStand(edited, RoutedKeys(people), born)
        /\ Range(edited.selectors) = EntriesAfter(first, old, people, born)
    BY <1>4, EditStands
  <2>. QED  BY <1>4, <2>1 DEF EntriesAfter
<1>. HIDE DEF edited
<1>6. IsGraph(edited)  BY <1>5 DEF AllStand, Stands
<1>7. IsGraph(h) /\ Requeued(edited, h)  BY <1>6, NotifyRequeues
<1>. HIDE DEF h
<1>8. AllStand(h, RoutedKeys(people), born) /\ h.selectors = edited.selectors
  BY <1>5, <1>7, RequeuedStands DEF Requeued
<1>. QED  BY <1>1, <1>5, <1>8

LEMMA OneOf ==
    ASSUME NEW x
    PROVE  IsSeq(<<x>>) /\ IsInjective(<<x>>) /\ Range(<<x>>) = {x}
<1>1. Range(<<x>>) = {x}  BY DEF Range
<1>2. <<x>> \in Seq({x})  OBVIOUS
<1>. QED  BY <1>1, <1>2 DEF IsSeq, IsInjective

LEMMA AppendIsJoin == ASSUME NEW s, IsSeq(s), NEW x PROVE Append(s, x) = s \o <<x>>
<1>1. s \in Seq(Range(s))  BY DEF IsSeq
<1>. DEFINE S == Range(s) \cup {x}
<1>2. s \in Seq(S) /\ x \in S  BY <1>1
<1>. HIDE DEF S
<1>. QED  BY <1>2

\* A property with no pipelines yet.
Empty(g) == [g EXCEPT !.memory = [n \in {Persons} |-> g.memory[Persons]], !.selectors = <<>>, !.slots = <<>>,
                      !.queue = <<>>, !.scheduled = {}, !.registered = {}]

LEMMA EmptyDoes ==
    ASSUME NEW g, IsGraph(g)
    PROVE  LET h == Empty(g)
           IN  /\ IsGraph(h) /\ h.memory = [n \in {Persons} |-> g.memory[Persons]] /\ h.rows = g.rows
               /\ h.clock = g.clock /\ h.selectors = <<>> /\ h.slots = <<>> /\ h.queue = <<>>
               /\ h.scheduled = {} /\ h.registered = {}
BY DEF IsGraph, Fields, Empty

LEMMA EmptyStands ==
    ASSUME NEW g, IsGraph(g), NEW keys, NEW born \in Nat \ {0}
    PROVE  CanBuild(Empty(g), {}, 0, keys, born, {}, {})
<1>. DEFINE h == Empty(g)
<1>1. /\ IsGraph(h) /\ DOMAIN h.memory = {Persons} /\ h.selectors = <<>> /\ h.slots = <<>> /\ h.registered = {}
  BY EmptyDoes
<1>. HIDE DEF h
<1>2. Range(<<>>) = {} /\ IsSeq(<<>>) /\ IsInjective(<<>>)
  <2>1. Range(<<>>) = {}  BY DEF Range
  <2>2. <<>> \in Seq({})  OBVIOUS
  <2>. QED  BY <2>1, <2>2 DEF IsSeq, IsInjective
<1>3. Range(h.selectors) = {}  BY <1>1, <1>2
<1>4. Pipes(h) = {}  BY <1>3 DEF Pipes
<1>5. EntriesStand(h, {}, 0)
  <2>1. OneEach(h.selectors)  BY <1>1 DEF OneEach
  <2>. QED  BY <1>1, <1>2, <1>3, <2>1 DEF EntriesStand
<1>6. MemoryStands(h, 0)  BY <1>1, <1>3 DEF MemoryStands
<1>7. SlotsStand(h, {})  BY <1>1, <1>2, <1>4 DEF SlotsStand
<1>8. RegisteredStand(h, {})  BY <1>1, <1>4 DEF RegisteredStand
<1>9. Apart({}, keys) /\ Unborn({}) /\ 0 < born  BY DEF Apart, Unborn
<1>. QED  BY <1>1, <1>5, <1>6, <1>7, <1>8, <1>9 DEF CanBuild, Stands, h

LEMMA OpenStands ==
    ASSUME KeysAreUnique, ChildrenStayChildren, NEW people \in Documents, NEW born \in Nat \ {0},
           NEW g, IsGraph(g)
    PROVE  LET h == Open(g, people, born)
           IN  /\ AllStand(h, RoutedKeys(people), born)
               /\ Range(h.selectors) = EntriesMade(people, RoutedKeys(people), born)
               /\ DOMAIN h.rows = DOMAIN g.rows
<1>. DEFINE keys == Range(Keys(people))
            a == Empty(g)
            b == BuildPipelines(a, people, keys, born)
            w == Wired(b, <<Breakdown>>)
            c == Notify(w, <<Breakdown>>)
            h == [c EXCEPT !.slots = Append(@, Property)]
<1>1. Open(g, people, born) = h  BY ConstructIs DEF Open, Empty
<1>2. RoutedOf(people, keys) = RoutedKeys(people)  BY DEF RoutedOf, RoutedKeys
<1>3. CanBuild(a, {}, 0, keys, born, {}, {})  BY EmptyStands
<1>4. IsGraph(a) /\ a.rows = g.rows /\ Range(a.selectors) = {}
  <2>1. Range(<<>>) = {}  BY DEF Range
  <2>. QED  BY <2>1, EmptyDoes
<1>. HIDE DEF a, keys
<1>5. /\ Stands(b, {} \cup RoutedKeys(people), born) /\ SlotsStand(b, {}) /\ RegisteredStand(b, {})
      /\ Range(b.selectors) = Range(a.selectors) \cup EntriesMade(people, RoutedKeys(people), born)
  <2>1. /\ Stands(b, {} \cup RoutedOf(people, keys), born) /\ SlotsStand(b, {}) /\ RegisteredStand(b, {})
        /\ Range(b.selectors) = Range(a.selectors) \cup EntriesMade(people, RoutedOf(people, keys), born)
    BY <1>3, BuildStands
  <2>. QED  BY <1>2, <2>1
<1>6. b.rows = g.rows  BY <1>4, BuildDoes
<1>. HIDE DEF b
<1>7. /\ IsGraph(b) /\ EntriesStand(b, RoutedKeys(people), born) /\ MemoryStands(b, born)
      /\ Range(b.selectors) = EntriesMade(people, RoutedKeys(people), born)
  BY <1>4, <1>5 DEF Stands
<1>8. /\ IsGraph(w) /\ w.rows = b.rows /\ w.selectors = b.selectors
      /\ w.memory = Remembered(b, <<Breakdown>>) /\ w.slots = b.slots \o Listening(b, <<Breakdown>>)
      /\ w.registered = b.registered \cup Ids(<<Breakdown>>)
  BY <1>7, WiredDoes
<1>. HIDE DEF w
<1>9. IsGraph(c) /\ Requeued(w, c)  BY <1>8, NotifyRequeues
<1>. HIDE DEF c
<1>10. IsSeq(<<Breakdown>>) /\ IsInjective(<<Breakdown>>) /\ Range(<<Breakdown>>) = {Breakdown}  BY OneOf
<1>11. /\ IsGraph(h) /\ h.memory = c.memory /\ h.rows = c.rows /\ h.selectors = c.selectors
       /\ h.slots = Append(c.slots, Property) /\ h.registered = c.registered
  BY <1>9 DEF IsGraph, Fields
<1>. HIDE DEF h
<1>12. /\ DOMAIN h.memory = DOMAIN b.memory \cup {Breakdown} /\ h.selectors = b.selectors /\ h.rows = g.rows
       /\ h.slots = Append(b.slots \o Listening(b, <<Breakdown>>), Property)
       /\ h.registered = b.registered \cup {Id(Breakdown)}
  <2>1. DOMAIN Remembered(b, <<Breakdown>>) = DOMAIN b.memory \cup {Breakdown}  BY <1>10 DEF Remembered
  <2>2. Ids(<<Breakdown>>) = {Id(Breakdown)}  BY <1>10 DEF Ids
  <2>. QED  BY <1>6, <1>8, <1>9, <1>11, <2>1, <2>2 DEF Requeued
<1>13. /\ IsSeq(Listening(b, <<Breakdown>>)) /\ IsInjective(Listening(b, <<Breakdown>>))
       /\ Range(Listening(b, <<Breakdown>>)) = {Breakdown}
  <2>1. Persons \in Inputs(b, Breakdown)
    <3>1. Breakdown.kind = "breakdown"  BY Fixed
    <3>. QED  BY <3>1 DEF Inputs
  <2>. DEFINE T == {n \in Range(<<Breakdown>>) : Persons \in Inputs(b, n)}
  <2>2. T = {Breakdown}  BY <1>10, <2>1
  <2>3. Listening(b, <<Breakdown>>) = Among(<<Breakdown>>, T)  BY DEF Listening
  <2>. HIDE DEF T
  <2>4. /\ IsSeq(Among(<<Breakdown>>, T)) /\ IsInjective(Among(<<Breakdown>>, T))
        /\ Range(Among(<<Breakdown>>, T)) = Range(<<Breakdown>>) \cap T
    BY <1>10, AmongHolds
  <2>. QED  BY <1>10, <2>2, <2>3, <2>4
<1>14. Pipes(h) = Pipes(b)  BY <1>12 DEF Pipes
<1>15. Property \notin Range(b.slots) /\ Breakdown \notin Range(b.slots) /\ Property # Breakdown
  <2>1. \A n \in Range(b.slots) : n.born \in 1..born
    <3>1. Range(b.slots) = {n \in Pipes(b) : n.kind \in {"place", "mpg"}} \cup {}  BY <1>5 DEF SlotsStand
    <3>. QED  BY <1>7, <3>1, EntriesAre
  <2>. QED  BY <2>1, Fixed
<1>16. SlotsStand(h, {Property, Breakdown})
  <2>. DEFINE s == b.slots \o Listening(b, <<Breakdown>>)
  <2>1. IsSeq(b.slots) /\ IsInjective(b.slots)
        /\ Range(b.slots) = {n \in Pipes(b) : n.kind \in {"place", "mpg"}} \cup {}
    BY <1>5 DEF SlotsStand
  <2>2. Range(b.slots) \cap Range(Listening(b, <<Breakdown>>)) = {}  BY <1>13, <1>15
  <2>3. IsSeq(s) /\ IsInjective(s) /\ Range(s) = Range(b.slots) \cup {Breakdown}
    BY <1>13, <2>1, <2>2, JoinHolds
  <2>4. h.slots = s \o <<Property>>
    <3>1. h.slots = Append(s, Property)  BY <1>12
    <3>. HIDE DEF s
    <3>. QED  BY <2>3, <3>1, AppendIsJoin
  <2>. HIDE DEF s
  <2>5. IsSeq(<<Property>>) /\ IsInjective(<<Property>>) /\ Range(<<Property>>) = {Property}  BY OneOf
  <2>6. Range(s) \cap Range(<<Property>>) = {}  BY <1>15, <2>3, <2>5
  <2>7. IsSeq(h.slots) /\ IsInjective(h.slots) /\ Range(h.slots) = Range(s) \cup Range(<<Property>>)
    <3>1. /\ IsSeq(s \o <<Property>>) /\ IsInjective(s \o <<Property>>)
          /\ Range(s \o <<Property>>) = Range(s) \cup Range(<<Property>>)
      BY <2>3, <2>5, <2>6, JoinHolds
    <3>. QED  BY <2>4, <3>1
  <2>8. Range(h.slots) = {n \in Pipes(h) : n.kind \in {"place", "mpg"}} \cup {Property, Breakdown}
    BY <1>14, <2>1, <2>3, <2>5, <2>7
  <2>. QED  BY <2>7, <2>8 DEF SlotsStand
<1>17. RegisteredStand(h, {Id(Breakdown)})
  <2>1. b.registered = {Id(n) : n \in Pipes(b)} \cup {}  BY <1>5 DEF RegisteredStand
  <2>2. h.registered = {Id(n) : n \in Pipes(h)} \cup {Id(Breakdown)}  BY <1>12, <1>14, <2>1
  <2>. QED  BY <2>2 DEF RegisteredStand
<1>18. EntriesStand(h, RoutedKeys(people), born)  BY <1>7, <1>12 DEF EntriesStand
<1>19. MemoryStands(h, born)
  <2>1. /\ Persons \in DOMAIN b.memory
        /\ \A n \in DOMAIN b.memory : n \in {Persons, Breakdown} \/ IsPart(n, born)
        /\ \A e \in Range(b.selectors) : {n \in DOMAIN b.memory : n.key = e.key /\ n.born = e.born} = Circle(e)
    BY <1>7 DEF MemoryStands
  <2>2. \A e \in Range(b.selectors) : e.born # Breakdown.born
    <3>1. \A e \in Range(b.selectors) : e.born \in 1..born  BY <1>7, EntriesAre
    <3>. QED  BY <3>1, Fixed
  <2>3. \A e \in Range(h.selectors) : {n \in DOMAIN h.memory : n.key = e.key /\ n.born = e.born} = Circle(e)
    <3>. TAKE e \in Range(h.selectors)
    <3>1. e \in Range(b.selectors)  BY <1>12
    <3>2. {n \in DOMAIN h.memory : n.key = e.key /\ n.born = e.born}
            = {n \in DOMAIN b.memory : n.key = e.key /\ n.born = e.born}
      BY <1>12, <2>2, <3>1
    <3>. QED  BY <2>1, <3>1, <3>2
  <2>. QED  BY <1>12, <2>1, <2>3 DEF MemoryStands
<1>20. AllStand(h, RoutedKeys(people), born)
  BY <1>11, <1>12, <1>16, <1>17, <1>18, <1>19 DEF AllStand, Stands
<1>. QED  BY <1>1, <1>7, <1>12, <1>20

-----------------------------------------------------------------------------
(***************************************************************************)
(* What the processor leaves alone.                                        *)
(***************************************************************************)
\* The nodes, and who listens to whom.
Unmoved(g, h) ==
    /\ IsGraph(h) /\ DOMAIN h.memory = DOMAIN g.memory /\ h.selectors = g.selectors
    /\ h.slots = g.slots /\ h.registered = g.registered

LEMMA UnmovedTwice ==
    ASSUME NEW g, NEW h, NEW k, Unmoved(g, h), Unmoved(h, k)
    PROVE  Unmoved(g, k)
BY DEF Unmoved

LEMMA RequeuedUnmoved ==
    ASSUME NEW g, NEW h, IsGraph(h), Requeued(g, h)
    PROVE  Unmoved(g, h)
BY DEF Unmoved, Requeued

\* The row of a node, in memory and in the table.
Stamped(g, row) == [row EXCEPT !.at = g.clock + 1]
Tabled(g, n, row) == [i \in DOMAIN g.rows \cup {Id(n)} |-> IF i = Id(n) THEN row ELSE g.rows[i]]

Recorded(g, n, row) == [g.memory EXCEPT ![n] = row]

LEMMA StoreDoes ==
    ASSUME NEW g, IsGraph(g), NEW n, NEW row
    PROVE  LET h == Store(g, n, row)
           IN  /\ IsGraph(h) /\ h.clock = g.clock + 1
               /\ h.memory = Recorded(g, n, Stamped(g, row))
               /\ h.rows = Tabled(g, n, Stamped(g, row))
               /\ h.selectors = g.selectors /\ h.slots = g.slots /\ h.registered = g.registered
               /\ h.queue = g.queue /\ h.scheduled = g.scheduled
BY DEF IsGraph, Fields, Store, Stamped, Tabled, Recorded

LEMMA StoreUnmoved ==
    ASSUME NEW g, IsGraph(g), NEW n, NEW row
    PROVE  Unmoved(g, Store(g, n, row))
<1>. DEFINE r == Stamped(g, row)
            h == Store(g, n, row)
<1>1. /\ IsGraph(h) /\ h.memory = Recorded(g, n, r) /\ h.selectors = g.selectors
      /\ h.slots = g.slots /\ h.registered = g.registered
  BY StoreDoes
<1>. HIDE DEF r, h
<1>2. DOMAIN Recorded(g, n, r) = DOMAIN g.memory  BY DEF Recorded
<1>3. Unmoved(g, h)  BY <1>1, <1>2 DEF Unmoved
<1>. QED  BY <1>3 DEF h

LEMMA CompleteUnmoved ==
    ASSUME NEW g, IsGraph(g), NEW n, NEW value, NEW basis
    PROVE  Unmoved(g, Complete(g, n, value, basis))
<1>. DEFINE h == Store(g, n, [value |-> value, at |-> 0, basis |-> basis])
            k == Notify(h, Listeners(g, n))
<1>1. Complete(g, n, value, basis) = k  BY DEF Complete
<1>2. Unmoved(g, h)  BY StoreUnmoved
<1>. HIDE DEF h
<1>3. Unmoved(h, k)  BY <1>2, NotifyRequeues, RequeuedUnmoved DEF Unmoved
<1>. HIDE DEF k
<1>. QED  BY <1>1, <1>2, <1>3, UnmovedTwice

LEMMA PutOffUnmoved ==
    ASSUME NEW g, IsGraph(g), NEW n, NEW basis
    PROVE  Unmoved(g, PutOff(g, n, basis))
<1>. DEFINE stored == Store(g, n, [value |-> Pending, at |-> 0, basis |-> basis])
            marked == [stored EXCEPT !.memory[n].value = g.memory[n].value]
            k == Schedule(marked, <<n>>)
<1>1. PutOff(g, n, basis) = IF g.memory[n].value = Pending THEN k ELSE marked  BY DEF PutOff
<1>2. Unmoved(g, stored) /\ IsGraph(stored)  BY StoreUnmoved, StoreDoes
<1>. HIDE DEF stored
<1>3. Unmoved(stored, marked) /\ IsGraph(marked)  BY <1>2 DEF Unmoved, IsGraph, Fields
<1>. HIDE DEF marked
<1>4. Unmoved(marked, k)  BY <1>3, ScheduleDoes, RequeuedUnmoved
<1>. HIDE DEF k
<1>. QED  BY <1>1, <1>2, <1>3, <1>4, UnmovedTwice

LEMMA RefreshUnmoved ==
    ASSUME IsGraph(graph), Refresh
    PROVE  Unmoved(graph, graph')
<1>. DEFINE n == Head(graph.queue)
            g == [graph EXCEPT !.queue = Tail(@), !.scheduled = @ \ {Id(n)}]
            read == Inputs(g, n)
            basis == [i \in {Id(d) : d \in read} |-> g.memory[CHOOSE d \in read : Id(d) = i].at]
<1>1. IsGraph(g) /\ Unmoved(graph, g)  BY DEF Unmoved, IsGraph, Fields
<1>2. \/ graph' = g \/ graph' = Complete(g, n, <<"impossible">>, basis) \/ graph' = PutOff(g, n, basis)
  BY DEF Refresh
<1>. HIDE DEF n, g, basis
<1>3. Unmoved(g, Complete(g, n, <<"impossible">>, basis)) /\ Unmoved(g, PutOff(g, n, basis))
  BY <1>1, CompleteUnmoved, PutOffUnmoved
<1>. QED  BY <1>1, <1>2, <1>3, UnmovedTwice

LEMMA StoreResultUnmoved ==
    ASSUME IsGraph(graph), StoreResult
    PROVE  Unmoved(graph, graph')
<1>. DEFINE n == running.node
            mine == graph.memory[n]
<1>1. \/ graph' = Complete(graph, n, running.value, running.basis)
      \/ graph' = graph
      \/ graph' = Store(graph, n, [mine EXCEPT !.basis = running.basis])
  BY DEF StoreResult
<1>2. Unmoved(graph, graph)  BY DEF Unmoved
<1>3. Unmoved(graph, Complete(graph, n, running.value, running.basis))  BY CompleteUnmoved
<1>4. Unmoved(graph, Store(graph, n, [mine EXCEPT !.basis = running.basis]))  BY StoreUnmoved
<1>. QED  BY <1>1, <1>2, <1>3, <1>4

-----------------------------------------------------------------------------
(***************************************************************************)
(* The pipelines follow the household.                                     *)
(***************************************************************************)
SinceIs(ws, key, i) ==
    /\ i \in 1..Len(ws)
    /\ \A j \in i..Len(ws) : key \in Range(Keys(ws[j].persons))
    /\ i = 1 \/ key \notin Range(Keys(ws[i - 1].persons))
Written(ws) == IsSeq(ws) /\ Len(ws) >= 1 /\ \A i \in 1..Len(ws) : ws[i].persons \in Documents
Dated(ws) == \A key \in Range(Keys(ws[Len(ws)].persons)) : \E i \in 1..Len(ws) : SinceIs(ws, key, i)
BornSince(ws, op, es) == \A e \in es : \E i \in 1..Len(ws) : SinceIs(ws, e.key, i) /\ e.born = Later(op, i)

\* The pipelines stand for the household of today, each since its destination is there or,
\* if that was before, since the server started.
FollowInv ==
    /\ Written(writes) /\ opened \in 1..Len(writes)
    /\ AllStand(graph, RoutedKeys(Household), Len(writes))
    /\ Dated(writes) /\ BornSince(writes, opened, Range(graph.selectors))

LEMMA LastWrite == ASSUME Written(writes) PROVE Household = writes[Len(writes)].persons /\ Household \in Documents
<1>1. Last(writes) = writes[Len(writes)]  BY DEF Last
<1>. QED  BY <1>1, SeqFacts DEF Household, Written

LEMMA SinceIsOne ==
    ASSUME NEW ws, IsSeq(ws), NEW key, NEW i, NEW j, SinceIs(ws, key, i), SinceIs(ws, key, j)
    PROVE  i = j
<1>1. Len(ws) \in Nat  BY SeqFacts
<1>2. ASSUME NEW a, NEW b, SinceIs(ws, key, a), SinceIs(ws, key, b) PROVE ~(a < b)
  <2>1. SUFFICES ASSUME a < b PROVE FALSE  OBVIOUS
  <2>2. b - 1 \in a..Len(ws) /\ b # 1  BY <1>1, <1>2, <2>1 DEF SinceIs
  <2>. QED  BY <1>2, <2>2 DEF SinceIs
<1>3. ~(i < j) /\ ~(j < i)  BY <1>2
<1>. QED  BY <1>1, <1>3 DEF SinceIs

\* One write more.
LEMMA SinceLasts ==
    ASSUME NEW ws, Written(ws), NEW w, w.persons \in Documents
    PROVE  LET us == Append(ws, w)
           IN  /\ Written(us) /\ Len(us) = Len(ws) + 1 /\ us[Len(us)] = w
               /\ \A key \in Range(Keys(w.persons)) : \A i \in 1..Len(ws) :
                     SinceIs(ws, key, i) => SinceIs(us, key, i)
               /\ \A key \in Range(Keys(w.persons)) \ Range(Keys(ws[Len(ws)].persons)) : SinceIs(us, key, Len(us))
<1>. DEFINE us == Append(ws, w)
<1>1. ws \in Seq(Range(ws)) /\ Len(ws) \in Nat /\ Len(ws) >= 1  BY SeqFacts DEF Written
<1>. DEFINE S == Range(ws) \cup {w}
<1>2. ws \in Seq(S) /\ w \in S  BY <1>1
<1>. HIDE DEF S
<1>3. /\ us \in Seq(S) /\ Len(us) = Len(ws) + 1 /\ us[Len(ws) + 1] = w
      /\ \A i \in 1..Len(ws) : us[i] = ws[i]
  BY <1>2
<1>. HIDE DEF us
<1>4. \A i \in 1..Len(us) : i \in 1..Len(ws) \/ i = Len(us)  BY <1>1, <1>3
<1>5. Written(us)
  <2>1. IsSeq(us)  BY <1>3, SeqIs
  <2>2. \A i \in 1..Len(us) : us[i].persons \in Documents  BY <1>3, <1>4 DEF Written
  <2>. QED  BY <1>1, <1>3, <2>1, <2>2 DEF Written
<1>6. ASSUME NEW key \in Range(Keys(w.persons)), NEW i \in 1..Len(ws), SinceIs(ws, key, i)
      PROVE  SinceIs(us, key, i)
  <2>1. i \in 1..Len(us)  BY <1>1, <1>3
  <2>2. ASSUME NEW j \in i..Len(us) PROVE key \in Range(Keys(us[j].persons))
    <3>1. CASE j = Len(us)  BY <3>1, <1>3, <1>6
    <3>2. CASE j \in 1..Len(ws)
      <4>1. j \in i..Len(ws)  BY <3>2, <1>1
      <4>. QED  BY <3>2, <4>1, <1>3, <1>6 DEF SinceIs
    <3>. QED  BY <3>1, <3>2, <1>1, <1>3
  <2>3. i = 1 \/ key \notin Range(Keys(us[i - 1].persons))
    <3>1. CASE i = 1  BY <3>1
    <3>2. CASE i # 1
      <4>1. i - 1 \in 1..Len(ws)  BY <3>2, <1>1
      <4>. QED  BY <4>1, <3>2, <1>3, <1>6 DEF SinceIs
    <3>. QED  BY <3>1, <3>2
  <2>. QED  BY <2>1, <2>2, <2>3 DEF SinceIs
<1>7. ASSUME NEW key \in Range(Keys(w.persons)) \ Range(Keys(ws[Len(ws)].persons))
      PROVE  SinceIs(us, key, Len(us))
  <2>1. Len(us) - 1 = Len(ws) /\ Len(ws) \in 1..Len(ws) /\ Len(us) \in 1..Len(us)  BY <1>1, <1>3
  <2>2. \A j \in Len(us)..Len(us) : j = Len(us)  BY <1>1, <1>3
  <2>3. key \notin Range(Keys(us[Len(us) - 1].persons))  BY <1>3, <1>7, <2>1
  <2>. QED  BY <1>3, <2>1, <2>2, <2>3 DEF SinceIs
<1>. QED  BY <1>3, <1>5, <1>6, <1>7 DEF us

LEMMA FollowInit == ASSUME KeysAreUnique, ChildrenStayChildren, HouseholdInit PROVE FollowInv
<1>1. PICK people \in Documents :
         writes = <<[persons |-> people, source |-> "config", paged |-> FALSE]>>
  BY DEF HouseholdInit
<1>. DEFINE w == [persons |-> people, source |-> "config", paged |-> FALSE]
            g == [memory |-> [n \in {Persons} |-> [Never EXCEPT !.at = 1]], rows |-> <<>>, selectors |-> <<>>,
                  slots |-> <<>>, queue |-> <<>>, scheduled |-> {}, registered |-> {}, clock |-> 1]
<1>2. Len(writes) = 1 /\ writes[1] = w /\ w.persons = people /\ IsSeq(writes)
  <2>1. w.persons = people  OBVIOUS
  <2>. HIDE DEF w
  <2>2. Len(<<w>>) = 1 /\ <<w>>[1] = w  OBVIOUS
  <2>3. writes = <<w>>  BY <1>1 DEF w
  <2>4. IsSeq(<<w>>)  BY OneOf
  <2>. QED  BY <2>1, <2>2, <2>3, <2>4
<1>. HIDE DEF w
<1>3. Written(writes)  BY <1>2 DEF Written
<1>4. Household = people  BY <1>2, <1>3, LastWrite
<1>5. opened = 1 /\ graph = Open(g, Household, 1)  BY DEF HouseholdInit
<1>6. IsGraph(g)  BY DEF IsGraph, Fields
<1>. HIDE DEF g
<1>7. /\ AllStand(graph, RoutedKeys(people), 1)
      /\ Range(graph.selectors) = EntriesMade(people, RoutedKeys(people), 1)
  BY <1>4, <1>5, <1>6, OpenStands
<1>8. \A key \in Range(Keys(people)) : SinceIs(writes, key, 1)
  <2>1. \A j \in 1..1 : j = 1  OBVIOUS
  <2>. QED  BY <1>2, <2>1 DEF SinceIs
<1>9. 1 \in 1..Len(writes)  BY <1>2
<1>10. Dated(writes)  BY <1>2, <1>8, <1>9 DEF Dated
<1>11. BornSince(writes, opened, Range(graph.selectors))
  <2>1. ASSUME NEW e \in Range(graph.selectors) PROVE e.key \in Range(Keys(people)) /\ e.born = 1
    <3>1. PICK key \in RoutedKeys(people) : e = Made(people, key, 1, "entry")  BY <1>7 DEF EntriesMade
    <3>. QED  BY <3>1, MadeIs DEF RoutedKeys
  <2>2. Later(1, 1) = 1  BY DEF Later
  <2>. QED  BY <1>5, <1>8, <1>9, <2>1, <2>2 DEF BornSince
<1>. QED  BY <1>2, <1>3, <1>4, <1>5, <1>7, <1>9, <1>10, <1>11 DEF FollowInv

LEMMA FollowPush ==
    ASSUME KeysAreUnique, ChildrenStayChildren, FollowInv,
           NEW people \in Documents, NEW source, PushPersons(people, source)
    PROVE  FollowInv'
<1>. DEFINE w == [persons |-> people, source |-> source, paged |-> Pages(Household, people, source)]
            g == [graph EXCEPT !.clock = @ + 1, !.memory[Persons].at = graph.clock + 1]
            last == Len(writes)
<1>1. /\ writes' = Append(writes, w) /\ graph' = Announce(g, people, last + 1) /\ opened' = opened
  BY DEF PushPersons
<1>2. /\ Written(writes) /\ opened \in 1..last /\ AllStand(graph, RoutedKeys(Household), last)
      /\ Dated(writes) /\ BornSince(writes, opened, Range(graph.selectors))
  BY DEF FollowInv
<1>3. IsGraph(graph)  BY <1>2 DEF AllStand, Stands
<1>4. IsGraph(g) /\ DOMAIN g.memory = DOMAIN graph.memory /\ g.selectors = graph.selectors
      /\ g.slots = graph.slots /\ g.registered = graph.registered
  BY <1>3 DEF IsGraph, Fields
<1>5. w.persons = people  OBVIOUS
<1>. HIDE DEF w, g
<1>6. AllStand(g, RoutedKeys(Household), last)  BY <1>2, <1>4, RequeuedStands
<1>7. Household \in Documents /\ Household = writes[last].persons /\ last \in Nat /\ IsSeq(writes)
  BY <1>2, LastWrite, SeqFacts DEF Written
<1>8. /\ Written(writes') /\ Len(writes') = last + 1 /\ writes'[Len(writes')] = w
      /\ \A key \in Range(Keys(people)) : \A i \in 1..last :
            SinceIs(writes, key, i) => SinceIs(writes', key, i)
      /\ \A key \in Range(Keys(people)) \ Range(Keys(Household)) : SinceIs(writes', key, last + 1)
  BY <1>1, <1>2, <1>5, <1>7, SinceLasts
<1>9. Household' = people
  <2>1. Last(writes') = writes'[Len(writes')]  BY DEF Last
  <2>. QED  BY <1>5, <1>8, <2>1 DEF Household
<1>. DEFINE made == {Made(people, key, last + 1, "entry") : key \in RoutedKeys(people) \ Range(Keys(Household))}
<1>10. /\ AllStand(graph', RoutedKeys(people), last + 1)
       /\ Range(graph'.selectors) = {e \in Range(graph.selectors) : e.key \in Range(Keys(people))} \cup made
  <2>1. last + 1 \in Nat /\ last < last + 1  BY <1>7
  <2>. HIDE DEF last
  <2>2. /\ AllStand(Announce(g, people, last + 1), RoutedKeys(people), last + 1)
        /\ Range(Announce(g, people, last + 1).selectors)
             = EntriesAfter(g, Household, people, last + 1)
    BY <1>6, <1>7, <2>1, AnnounceStands
  <2>. QED  BY <1>1, <1>4, <2>2 DEF EntriesAfter, EntriesMade
<1>11. Dated(writes')
  <2>1. ASSUME NEW key \in Range(Keys(people)) PROVE \E i \in 1..last + 1 : SinceIs(writes', key, i)
    <3>1. CASE key \in Range(Keys(Household))
      <4>1. PICK i \in 1..last : SinceIs(writes, key, i)  BY <1>2, <1>7, <3>1 DEF Dated
      <4>2. i \in 1..last + 1 /\ SinceIs(writes', key, i)  BY <1>7, <1>8, <4>1
      <4>. QED  BY <4>2
    <3>2. CASE key \notin Range(Keys(Household))
      <4>1. last + 1 \in 1..last + 1  BY <1>7
      <4>. QED  BY <1>8, <3>2, <4>1
    <3>. QED  BY <3>1, <3>2
  <2>. QED  BY <1>5, <1>8, <2>1 DEF Dated
<1>12. BornSince(writes', opened, Range(graph'.selectors))
  <2>1. ASSUME NEW e \in Range(graph.selectors), e.key \in Range(Keys(people))
        PROVE  \E i \in 1..last + 1 : SinceIs(writes', e.key, i) /\ e.born = Later(opened, i)
    <3>1. PICK i \in 1..last : SinceIs(writes, e.key, i) /\ e.born = Later(opened, i)  BY <1>2 DEF BornSince
    <3>2. i \in 1..last + 1 /\ SinceIs(writes', e.key, i)  BY <1>7, <1>8, <2>1, <3>1
    <3>. QED  BY <3>1, <3>2
  <2>2. ASSUME NEW e \in made
        PROVE  \E i \in 1..last + 1 : SinceIs(writes', e.key, i) /\ e.born = Later(opened, i)
    <3>1. PICK key \in RoutedKeys(people) \ Range(Keys(Household)) : e = Made(people, key, last + 1, "entry")
      OBVIOUS
    <3>2. e.key = key /\ e.born = last + 1  BY <3>1, MadeIs
    <3>3. SinceIs(writes', key, last + 1)  BY <1>8, <3>1 DEF RoutedKeys
    <3>4. Later(opened, last + 1) = last + 1 /\ last + 1 \in 1..last + 1  BY <1>2, <1>7 DEF Later
    <3>. QED  BY <3>2, <3>3, <3>4
  <2>. HIDE DEF made
  <2>. QED  BY <1>8, <1>10, <2>1, <2>2 DEF BornSince
<1>13. opened \in 1..last + 1  BY <1>2, <1>7
<1>. QED  BY <1>1, <1>8, <1>9, <1>10, <1>11, <1>12, <1>13 DEF FollowInv

LEMMA FollowRestart ==
    ASSUME KeysAreUnique, ChildrenStayChildren, FollowInv, RestartServer
    PROVE  FollowInv'
<1>. DEFINE last == Len(writes)
<1>1. opened' = last /\ graph' = Open(graph, Household, last) /\ writes' = writes  BY DEF RestartServer
<1>2. Written(writes) /\ Dated(writes) /\ AllStand(graph, RoutedKeys(Household), last)  BY DEF FollowInv
<1>3. Household \in Documents /\ Household = writes[last].persons /\ IsSeq(writes) /\ last \in Nat /\ last \in Nat \ {0}
  BY <1>2, LastWrite, SeqFacts DEF Written
<1>4. Household' = Household  BY <1>1 DEF Household
<1>5. IsGraph(graph)  BY <1>2 DEF AllStand, Stands
<1>. HIDE DEF last
<1>6. /\ AllStand(graph', RoutedKeys(Household), last)
      /\ Range(graph'.selectors) = EntriesMade(Household, RoutedKeys(Household), last)
  BY <1>1, <1>3, <1>5, OpenStands
<1>7. BornSince(writes, last, Range(graph'.selectors))
  <2>. SUFFICES ASSUME NEW e \in Range(graph'.selectors)
                PROVE  \E i \in 1..Len(writes) : SinceIs(writes, e.key, i) /\ e.born = Later(last, i)
    BY DEF BornSince
  <2>1. PICK key \in RoutedKeys(Household) : e = Made(Household, key, last, "entry")  BY <1>6 DEF EntriesMade
  <2>2. e.key = key /\ e.born = last /\ key \in Range(Keys(writes[last].persons))
    BY <1>3, <2>1, MadeIs DEF RoutedKeys
  <2>3. PICK i \in 1..last : SinceIs(writes, key, i)  BY <1>2, <2>2 DEF Dated, last
  <2>4. Later(last, i) = last  BY <1>3 DEF Later
  <2>. QED  BY <2>2, <2>3, <2>4 DEF last
<1>8. last \in 1..Len(writes)  BY <1>3 DEF last
<1>. QED  BY <1>1, <1>2, <1>4, <1>6, <1>7, <1>8 DEF FollowInv, last

LEMMA FollowUnmoved ==
    ASSUME FollowInv, Unmoved(graph, graph'), UNCHANGED <<writes, opened>>
    PROVE  FollowInv'
<1>1. AllStand(graph', RoutedKeys(Household), Len(writes))  BY RequeuedStands DEF FollowInv, Unmoved
<1>2. Household' = Household  BY DEF Household
<1>. QED  BY <1>1, <1>2 DEF FollowInv, Unmoved

LEMMA FollowStep ==
    ASSUME KeysAreUnique, ChildrenStayChildren, FollowInv, [HouseholdNext]_householdVars
    PROVE  FollowInv'
<1>1. IsGraph(graph)  BY DEF FollowInv, AllStand, Stands
<1>2. CASE \E people \in Documents, source \in {"user", "what-if"} : PushPersons(people, source)
  BY <1>2, FollowPush
<1>3. CASE Refresh  BY <1>1, <1>3, RefreshUnmoved, FollowUnmoved DEF Refresh
<1>4. CASE StoreResult  BY <1>1, <1>4, StoreResultUnmoved, FollowUnmoved DEF StoreResult
<1>5. CASE RestartServer  BY <1>5, FollowRestart
<1>6. CASE UNCHANGED householdVars
  <2>1. Unmoved(graph, graph')  BY <1>1, <1>6 DEF Unmoved, householdVars
  <2>. QED  BY <1>6, <2>1, FollowUnmoved DEF householdVars
<1>. QED  BY <1>2, <1>3, <1>4, <1>5, <1>6 DEF HouseholdNext

LEMMA FollowImplies == ASSUME FollowInv PROVE PipelinesFollow
<1>1. /\ Written(writes) /\ AllStand(graph, RoutedKeys(Household), Len(writes))
      /\ BornSince(writes, opened, Live)
  BY DEF FollowInv, Live
<1>2. /\ EntriesStand(graph, RoutedKeys(Household), Len(writes)) /\ SlotsStand(graph, {Property, Breakdown})
      /\ RegisteredStand(graph, {Id(Breakdown)}) /\ Stands(graph, RoutedKeys(Household), Len(writes))
  BY <1>1 DEF AllStand, Stands
<1>3. Parts = Pipes(graph)  BY <1>2, PartsArePipes DEF PartsOf, Parts
<1>. DEFINE keys == [i \in DOMAIN graph.selectors |-> graph.selectors[i].key]
<1>4. IsSeq(graph.selectors) /\ OneEach(graph.selectors)  BY <1>2 DEF EntriesStand
<1>5. DOMAIN graph.selectors = 1..Len(graph.selectors)  BY <1>4, SeqFacts
<1>6. Range(keys) = {key \in Range(Keys(Household)) : Routed(Household, key)}
  <2>1. {e.key : e \in Range(graph.selectors)} = RoutedKeys(Household)  BY <1>2 DEF EntriesStand
  <2>2. Range(keys) = {e.key : e \in Range(graph.selectors)}  BY DEF Range
  <2>. QED  BY <2>1, <2>2 DEF RoutedKeys
<1>7. IsInjective(keys)  BY <1>4, <1>5 DEF IsInjective, OneEach
<1>8. \A e \in Live : e.born = Later(opened, Since(e.key))
  <2>. TAKE e \in Live
  <2>1. PICK i \in 1..Len(writes) : SinceIs(writes, e.key, i) /\ e.born = Later(opened, i)  BY <1>1 DEF BornSince
  <2>2. \E j \in 1..Len(writes) : SinceIs(writes, e.key, j)  BY <2>1
  <2>3. Since(e.key) = CHOOSE j \in 1..Len(writes) : SinceIs(writes, e.key, j)
    <3>1. \A j \in 1..Len(writes) :
             SinceIs(writes, e.key, j) <=>
               /\ \A k \in j..Len(writes) : e.key \in Range(Keys(writes[k].persons))
               /\ j = 1 \/ e.key \notin Range(Keys(writes[j - 1].persons))
      BY DEF SinceIs
    <3>. QED  BY <3>1, Zenon DEF Since
  <2>4. SinceIs(writes, e.key, Since(e.key))  BY <2>2, <2>3
  <2>5. Since(e.key) = i  BY <1>1, <2>1, <2>4, SinceIsOne DEF Written
  <2>. QED  BY <2>1, <2>5
<1>9. Range(graph.slots) = {n \in Parts : n.kind \in {"place", "mpg"}} \cup {Property, Breakdown}
      /\ IsInjective(graph.slots)
  BY <1>2, <1>3 DEF SlotsStand
<1>10. graph.registered = {Id(n) : n \in Parts \cup {Breakdown}}  BY <1>2, <1>3 DEF RegisteredStand
<1>. QED  BY <1>6, <1>7, <1>8, <1>9, <1>10 DEF PipelinesFollow

(***************************************************************************)
(* Whatever is written to the household, and whenever, there is one        *)
(* pipeline for each destination that is travelled to, as old as the       *)
(* destination or as the server, none for what is gone, and each node that *)
(* reads the household listens to it once.                                 *)
(***************************************************************************)
THEOREM PipelinesAlwaysFollow ==
    ASSUME KeysAreUnique, ChildrenStayChildren
    PROVE  HouseholdSpec => []PipelinesFollow
<1>1. HouseholdInit => FollowInv  BY FollowInit
<1>2. FollowInv /\ [HouseholdNext]_householdVars => FollowInv'  BY FollowStep
<1>3. FollowInv => PipelinesFollow  BY FollowImplies
<1>. QED  BY <1>1, <1>2, <1>3, PTL DEF HouseholdSpec

-----------------------------------------------------------------------------
(***************************************************************************)
(* What is lost is paged.                                                  *)
(***************************************************************************)
LEMMA LabelsAre ==
    ASSUME NamesTell, NEW people \in Documents, NEW p \in Range(people)
    PROVE  p.name \in Names(people) /\ NamedLabels(people, p.name) = {q.label : q \in Range(p.places)}
<1>. DEFINE here(k) == people[k].name = p.name /\ \A j \in DOMAIN people : people[j].name = p.name => j <= k
<1>1. people \in Seq(Person)  BY DocumentsAssumption
<1>2. PICK i \in DOMAIN people : people[i] = p  BY DEF Range
<1>3. DOMAIN people = 1..Len(people) /\ Len(people) \in Nat  BY <1>1
<1>4. \A j \in DOMAIN people : people[j].name = p.name => j = i  BY <1>2 DEF NamesTell
<1>5. here(i)  BY <1>2, <1>3, <1>4
<1>6. Named(people, p.name) = CHOOSE k \in DOMAIN people : here(k)  BY DEF Named
<1>7. Named(people, p.name) \in DOMAIN people /\ people[Named(people, p.name)].name = p.name
  <2>. HIDE DEF here
  <2>1. (CHOOSE k \in DOMAIN people : here(k)) \in DOMAIN people /\ here(CHOOSE k \in DOMAIN people : here(k))
    BY <1>2, <1>5
  <2>. QED  BY <1>6, <2>1 DEF here
<1>8. Named(people, p.name) = i  BY <1>4, <1>7
<1>9. NamedLabels(people, p.name) = {q.label : q \in Range(p.places)} \ {""}  BY <1>2, <1>8 DEF NamedLabels
<1>10. "" \notin {q.label : q \in Range(p.places)} /\ p.name # ""  BY <1>2 DEF NamesTell
<1>11. p.name \in Names(people)  BY <1>10 DEF Names
<1>. QED  BY <1>9, <1>10, <1>11

LEMMA LossShrinks ==
    ASSUME NamesTell, NamesStay, NEW old \in Documents, NEW new \in Documents,
           ~(Range(Keys(old)) \subseteq Range(Keys(new)))
    PROVE  Shrinks(old, new)
<1>1. PICK key : key \in Range(Keys(old)) /\ key \notin Range(Keys(new))  OBVIOUS
<1>2. PICK p \in Range(old) : \E i \in DOMAIN p.places : key = <<PersonId(p), p.places[i].label>>
  BY <1>1, KeysAre
<1>3. PICK i \in DOMAIN p.places : key = <<PersonId(p), p.places[i].label>>  BY <1>2
<1>4. p.name \in Names(old)  BY LabelsAre
<1>5. CASE p.name \notin Names(new)  BY <1>4, <1>5 DEF Shrinks
<1>6. CASE p.name \in Names(new)
  <2>1. p.places[i].label \in NamedLabels(old, p.name)  BY <1>3, LabelsAre, SMTT(30) DEF Range
  <2>2. PICK q \in Range(new) : q.name = p.name  BY <1>6 DEF Names
  <2>3. NamedLabels(new, p.name) = {r.label : r \in Range(q.places)}  BY <2>2, LabelsAre
  <2>4. p.places[i].label \notin NamedLabels(new, p.name)
    <3>1. SUFFICES ASSUME p.places[i].label \in NamedLabels(new, p.name) PROVE FALSE  OBVIOUS
    <3>2. PersonId(p) = PersonId(q)  BY <2>2 DEF NamesStay
    <3>3. PICK j \in DOMAIN q.places : q.places[j].label = p.places[i].label  BY <2>3, <3>1 DEF Range
    <3>4. key = <<PersonId(q), q.places[j].label>>  BY <1>3, <3>2, <3>3
    <3>5. key \in Range(Keys(new))  BY <3>4, KeysAre
    <3>. QED  BY <1>1, <3>5
  <2>. QED  BY <1>4, <1>6, <2>1, <2>4 DEF Shrinks
<1>. QED  BY <1>5, <1>6

PageInv == Written(writes) /\ LossIsPaged

LEMMA PageStep ==
    ASSUME NamesTell, NamesStay, PageInv, [HouseholdNext]_householdVars
    PROVE  PageInv'
<1>1. CASE UNCHANGED writes  BY <1>1 DEF PageInv, LossIsPaged
<1>2. ASSUME NEW people \in Documents, NEW source, PushPersons(people, source) PROVE PageInv'
  <2>. DEFINE w == [persons |-> people, source |-> source, paged |-> Pages(Household, people, source)]
              last == Len(writes)
  <2>1. writes' = Append(writes, w)  BY <1>2 DEF PushPersons
  <2>2. w.persons = people /\ w.source = source /\ w.paged = Pages(Household, people, source)  OBVIOUS
  <2>. HIDE DEF w
  <2>3. /\ Written(writes) /\ Household \in Documents /\ Household = writes[last].persons
        /\ last \in Nat /\ last >= 1 /\ writes \in Seq(Range(writes))
    BY LastWrite, SeqFacts DEF PageInv, Written
  <2>4. Written(writes') /\ Len(writes') = last + 1 /\ writes'[Len(writes')] = w
    BY <2>1, <2>2, <2>3, SinceLasts
  <2>5. \A i \in 1..last : writes'[i] = writes[i]
    <3>1. writes' = writes \o <<w>>  BY <2>1, <2>3, AppendIsJoin DEF Written
    <3>2. IsSeq(<<w>>)  BY OneOf
    <3>. QED  BY <2>3, <3>1, <3>2, JoinHolds DEF Written
  <2>6. ASSUME NEW i \in 2..last + 1, writes'[i].source # "user",
               ~(Range(Keys(writes'[i - 1].persons)) \subseteq Range(Keys(writes'[i].persons)))
        PROVE  writes'[i].paged
    <3>1. CASE i \in 2..last
      <4>1. i \in 1..last /\ i - 1 \in 1..last  BY <2>3, <3>1
      <4>2. writes'[i] = writes[i] /\ writes'[i - 1] = writes[i - 1]  BY <2>5, <4>1
      <4>. QED  BY <2>6, <3>1, <4>2 DEF PageInv, LossIsPaged
    <3>2. CASE i = last + 1
      <4>1. i - 1 = last /\ last \in 1..last  BY <2>3, <3>2
      <4>2. writes'[i] = w /\ writes'[i - 1] = writes[last]  BY <2>4, <2>5, <3>2, <4>1
      <4>3. Shrinks(Household, people)  BY <2>2, <2>3, <2>6, <4>2, LossShrinks
      <4>. QED  BY <2>2, <2>6, <4>2, <4>3 DEF Pages
    <3>. QED  BY <2>3, <3>1, <3>2
  <2>7. LossIsPaged'  BY <2>4, <2>6 DEF LossIsPaged
  <2>. QED  BY <2>4, <2>7 DEF PageInv
<1>. QED  BY <1>1, <1>2 DEF HouseholdNext, householdVars, Refresh, StoreResult, RestartServer

(***************************************************************************)
(* A write other than the user's own which takes a destination away is     *)
(* paged, though it is the names of the persons that are compared and not  *)
(* the keys of the destinations.                                           *)
(***************************************************************************)
THEOREM LossAlwaysPaged ==
    ASSUME NamesTell, NamesStay
    PROVE  HouseholdSpec => []LossIsPaged
<1>1. HouseholdInit => PageInv
  <2>. SUFFICES ASSUME HouseholdInit PROVE PageInv  OBVIOUS
  <2>1. PICK people \in Documents :
           writes = <<[persons |-> people, source |-> "config", paged |-> FALSE]>>
    BY DEF HouseholdInit
  <2>. DEFINE w == [persons |-> people, source |-> "config", paged |-> FALSE]
  <2>2. w.persons = people /\ writes = <<w>>  BY <2>1
  <2>. HIDE DEF w
  <2>3. Len(<<w>>) = 1 /\ <<w>>[1] = w  OBVIOUS
  <2>4. IsSeq(<<w>>)  BY OneOf
  <2>5. Written(writes)  BY <2>2, <2>3, <2>4 DEF Written
  <2>6. LossIsPaged  BY <2>2, <2>3 DEF LossIsPaged
  <2>. QED  BY <2>5, <2>6 DEF PageInv
<1>2. PageInv /\ [HouseholdNext]_householdVars => PageInv'  BY PageStep
<1>3. PageInv => LossIsPaged  BY DEF PageInv
<1>. QED  BY <1>1, <1>2, <1>3, PTL DEF HouseholdSpec

-----------------------------------------------------------------------------
(***************************************************************************)
(* What is shown follows the household.                                    *)
(***************************************************************************)
Now(g) == g.memory[Persons].at
Active(g) == Pipes(g) \cup {Breakdown}
LiveKeys(g) == {e.key : e \in Range(g.selectors)}
\* Neither queued nor at work: what a node shows then must be right.  Held is the node at work.
Free(g, held, n) == Id(n) \notin g.scheduled /\ held # n

HomeId(key) == <<HomeKind(key), key>>
RouteId(key) == <<"route", key>>
MpgId(key) == <<"mpg", key>>
EntryId(key) == <<"entry", key>>

\* Records.
ValueOK(kind, v) ==
    \/ v = Pending
    \/ kind = "place" /\ (v = <<"gone">> \/ v = <<"at", v[2]>>)
    \/ kind = "school" /\ v = <<"at", "school">>
    \/ kind = "mpg" /\ v = <<"mpg", v[2]>>
    \/ kind = "route" /\ (v = <<"impossible">> \/ v = <<"to", v[2]>>)
    \/ kind = "entry" /\ (v = <<"impossible">> \/ v = <<"is", v[2], v[3], v[4]>>)
    \/ kind = "breakdown" /\ (v = <<"impossible">> \/ v = <<"sum", v[2]>>)
SourceIds(kind, key) ==
    CASE kind \in {"place", "mpg"} -> {Id(Persons)}
      [] kind = "route" -> {HomeId(key)}
      [] kind = "entry" -> {RouteId(key), MpgId(key)}
      [] OTHER -> {}
Sourced(kind, key, basis) ==
    IF kind = "breakdown" THEN Id(Persons) \in DOMAIN basis ELSE DOMAIN basis = SourceIds(kind, key)
IsRecord(r) == r = [value |-> r.value, at |-> r.at, basis |-> r.basis]
RecordOK(clock, kind, key, r) ==
    /\ IsRecord(r) /\ r.at \in 0..clock /\ ValueOK(kind, r.value)
    /\ \A i \in DOMAIN r.basis : r.basis[i] \in 0..clock
    /\ r.value # Pending => r.at > 0 /\ Sourced(kind, key, r.basis)
Typed(g) ==
    /\ g.clock \in Nat /\ Now(g) \in 1..g.clock
    /\ \A n \in DOMAIN g.memory \ {Persons} : RecordOK(g.clock, n.kind, n.key, g.memory[n])
    /\ \A i \in DOMAIN g.rows : RecordOK(g.clock, i[1], i[2], g.rows[i]) /\ g.rows[i].at > 0
    /\ \A i \in DOMAIN g.rows : i[1] \in {"entry", "breakdown"} \/ g.rows[i].value # Pending
\* A row is of what memory holds, or of a refresh that was put off, or older or newer.
BackedBy(n, r, rows) ==
    /\ r.value # Pending => Id(n) \in DOMAIN rows
    /\ Id(n) \in DOMAIN rows /\ rows[Id(n)].at = r.at => rows[Id(n)].value \in {Pending, r.value}
Backed(g) == \A n \in DOMAIN g.memory \ {Persons} : BackedBy(n, g.memory[n], g.rows)

\* The queue.
OneId(q) == \A i, j \in 1..Len(q) : Id(q[i]) = Id(q[j]) => i = j
Queued(g) ==
    /\ IsSeq(g.queue) /\ OneId(g.queue) /\ Range(g.queue) \subseteq DOMAIN g.memory \ {Persons}
    /\ g.scheduled \subseteq Ids(g.queue)
    /\ \A n \in Active(g) : n \in Range(g.queue) => Id(n) \in g.scheduled
    /\ \A n \in Range(g.queue) \ Active(g) : n.kind \in {"place", "mpg"} /\ n.key \notin LiveKeys(g)
Before(q, n, m) == \E i, j \in 1..Len(q) : i < j /\ q[i] = n /\ q[j] = m

\* What a value must be, given those of the inputs.
PlaceIn(people, key) ==
    IF key \in Range(Keys(people)) THEN <<"at", AddressIn(people, key)>> ELSE <<"gone">>
MpgIn(people, key) ==
    <<"mpg", IF \E p \in Range(people) : PersonId(p) = key[1] THEN OwnerIn(people, key).mpg ELSE DefaultMpg>>
Tells(people, kind, key) == IF kind = "place" THEN PlaceIn(people, key) ELSE MpgIn(people, key)
ToRoute(v) == IF v \in Impossible \/ v[2] \in Unroutable THEN <<"impossible">> ELSE <<"to", v[2]>>
FitsEntry(v, route, mpg) ==
    IF route \in Impossible THEN v = <<"impossible">>
    ELSE \E car \in BOOLEAN : v = <<"is", route[2], mpg[2], car>>

ToldOK(people, now, kind, key, r) ==
    kind \in {"place", "mpg"} /\ r.value # Pending /\ r.basis[Id(Persons)] = now => r.value = Tells(people, kind, key)
RouteFits(key, r, home) ==
    r.value # Pending /\ r.basis[HomeId(key)] = home.at => home.value # Pending /\ r.value = ToRoute(home.value)
EntryCurrent(key, r, route, mpg) ==
    r.value # Pending /\ r.basis[RouteId(key)] = route.at /\ r.basis[MpgId(key)] = mpg.at
EntryOf(r, route, mpg) == route.value # Pending /\ mpg.value # Pending /\ FitsEntry(r.value, route.value, mpg.value)

\* The rows.
RowsTold(g, people) == \A i \in DOMAIN g.rows : ToldOK(people, Now(g), i[1], i[2], g.rows[i])
RoutesRow(key, rows) ==
    RouteId(key) \in DOMAIN rows =>
        HomeId(key) \in DOMAIN rows /\ RouteFits(key, rows[RouteId(key)], rows[HomeId(key)])
EntrysRow(key, rows) ==
    EntryId(key) \in DOMAIN rows /\ rows[EntryId(key)].value # Pending =>
        /\ RouteId(key) \in DOMAIN rows /\ MpgId(key) \in DOMAIN rows
        /\ EntryCurrent(key, rows[EntryId(key)], rows[RouteId(key)], rows[MpgId(key)])
             => EntryOf(rows[EntryId(key)], rows[RouteId(key)], rows[MpgId(key)])
RowsLinked(g) == \A key \in AllKeys : RoutesRow(key, g.rows) /\ EntrysRow(key, g.rows)
SumIds(keys) == {Id(Persons)} \cup {EntryId(key) : key \in keys}
SumOfRows(v, keys, rows) ==
    \/ \E key \in keys : EntryId(key) \in DOMAIN rows => rows[EntryId(key)].value = Pending
    \/ v \in Impossible /\ \E key \in keys : rows[EntryId(key)].value \in Impossible
    \/ /\ \A key \in keys : rows[EntryId(key)].value \notin Impossible
       /\ v = <<"sum", v[2]>> /\ DOMAIN v[2] = keys /\ \A key \in keys : v[2][key] = rows[EntryId(key)].value
SumsRow(now, keys, rows) ==
    LET r == rows[Id(Breakdown)]
    IN  r.value # Pending /\ r.basis[Id(Persons)] = now =>
          /\ DOMAIN r.basis = SumIds(keys)
          /\ (\A key \in keys : EntryId(key) \in DOMAIN rows => rows[EntryId(key)].at = r.basis[EntryId(key)])
               => SumOfRows(r.value, keys, rows)
RowsSummed(g) == Id(Breakdown) \in DOMAIN g.rows => SumsRow(Now(g), LiveKeys(g), g.rows)

\* Memory.
MemoryTold(g, people) ==
    \A n \in DOMAIN g.memory \ {Persons} : ToldOK(people, Now(g), n.kind, n.key, g.memory[n])
\* The route will come to something else than it is.
Changes(g, e) ==
    LET home == g.memory[HomeOf(e)]
        route == g.memory[RouteOf(e)]
    IN  /\ home.value # Pending /\ home.at > route.at
        /\ route.value # ToRoute(home.value) \/ route.value \in Impossible
WillTell(g, held, e) ==
    /\ Changes(g, e)
    /\ held = RouteOf(e) \/ (Id(RouteOf(e)) \in g.scheduled /\ Free(g, held, HomeOf(e)))
EntryFits(g, held, e) == EntryOf(g.memory[e], g.memory[RouteOf(e)], g.memory[MpgOf(e)]) \/ WillTell(g, held, e)
SumOf(g, v) ==
    \/ v \in Impossible /\ \E e \in Range(g.selectors) : g.memory[e].value \in Impossible
    \/ /\ \A e \in Range(g.selectors) : g.memory[e].value \notin Impossible
       /\ v = <<"sum", v[2]>> /\ DOMAIN v[2] = LiveKeys(g)
       /\ \A e \in Range(g.selectors) : v[2][e.key] = g.memory[e].value
SumFits(g, v) ==
    \/ Id(Breakdown) \in DOMAIN g.rows /\ g.rows[Id(Breakdown)].value = Pending
    \/ \E e \in Range(g.selectors) : g.memory[e].value = Pending
    \/ SumOf(g, v)
SumCurrent(g) ==
    LET r == g.memory[Breakdown]
    IN  r.value # Pending /\ r.basis[Id(Persons)] = Now(g) =>
          /\ DOMAIN r.basis = SumIds(LiveKeys(g))
          /\ (\A e \in Range(g.selectors) : g.memory[e].at = r.basis[Id(e)]) => SumFits(g, r.value)

\* Nodes that nobody has in hand are right.
HomeSettled(g, n) ==
    g.memory[n].value # Pending /\ (n.kind # "school" => g.memory[n].basis[Id(Persons)] = Now(g))
RouteSettled(g, e) ==
    g.memory[HomeOf(e)].value # Pending /\ g.memory[RouteOf(e)].value = ToRoute(g.memory[HomeOf(e)].value)
Settled(g, held, e) ==
    /\ Free(g, held, HomeOf(e)) => HomeSettled(g, HomeOf(e))
    /\ Free(g, held, MpgOf(e)) => HomeSettled(g, MpgOf(e))
    /\ Free(g, held, RouteOf(e)) => RouteSettled(g, e)
    /\ Free(g, held, e) => g.memory[e].value # Pending /\ EntryFits(g, held, e)
SumSettled(g) == g.memory[Breakdown].value # Pending /\ SumFits(g, g.memory[Breakdown].value)

\* The order in which the nodes of a pipeline wait.
InOrder(g, held, e) ==
    /\ ~Before(g.queue, RouteOf(e), HomeOf(e))
    /\ ~Before(g.queue, e, MpgOf(e))
    /\ Before(g.queue, e, RouteOf(e)) => Free(g, held, HomeOf(e)) /\ Changes(g, e)
    /\ held = HomeOf(e) /\ Id(HomeOf(e)) \in g.scheduled => Id(e) \notin g.scheduled
    /\ held = RouteOf(e) => Id(RouteOf(e)) \notin g.scheduled

PipeFits(g, held, e) ==
    /\ RouteFits(e.key, g.memory[RouteOf(e)], g.memory[HomeOf(e)])
    /\ EntryCurrent(e.key, g.memory[e], g.memory[RouteOf(e)], g.memory[MpgOf(e)]) => EntryFits(g, held, e)
    /\ Settled(g, held, e) /\ InOrder(g, held, e)
PipesFit(g, held) == \A e \in Range(g.selectors) : PipeFits(g, held, e)
SumStands(g, held) == SumCurrent(g) /\ (Free(g, held, Breakdown) => SumSettled(g))

\* A result, and the stamps of what it was computed from.
RouteGiven(g, n, value, basis) ==
    LET home == HomeOf(n)
    IN  /\ home \in DOMAIN g.memory \ {Persons} /\ g.memory[home].value # Pending
        /\ basis[HomeId(n.key)] = g.memory[home].at /\ value = ToRoute(g.memory[home].value)
EntryGiven(g, n, value, basis) ==
    LET route == RouteOf(n)
        mpg == MpgOf(n)
    IN  /\ {route, mpg} \subseteq DOMAIN g.memory \ {Persons}
        /\ g.memory[route].value # Pending /\ g.memory[mpg].value # Pending
        /\ basis[RouteId(n.key)] = g.memory[route].at /\ basis[MpgId(n.key)] = g.memory[mpg].at
        /\ FitsEntry(value, g.memory[route].value, g.memory[mpg].value)
SumGiven(g, value, basis) ==
    /\ DOMAIN basis = SumIds(LiveKeys(g)) /\ basis[Id(Persons)] = Now(g)
    /\ \A e \in Range(g.selectors) : basis[Id(e)] = g.memory[e].at
    /\ SumOf(g, value)
Given(g, n, value, basis, people) ==
    /\ n \in DOMAIN g.memory \ {Persons}
    /\ value # Pending /\ ValueOK(n.kind, value)
    /\ Sourced(n.kind, n.key, basis) /\ \A i \in DOMAIN basis : basis[i] \in 0..g.clock
    /\ n.kind \in {"place", "mpg"} =>
         /\ basis[Id(Persons)] = Now(g) => value = Tells(people, n.kind, n.key)
         /\ n \in Active(g) /\ Id(n) \notin g.scheduled => basis[Id(Persons)] = Now(g)
    /\ n.kind = "route" => RouteGiven(g, n, value, basis)
    /\ n.kind = "entry" => EntryGiven(g, n, value, basis)
    /\ n = Breakdown => IF Id(Breakdown) \in g.scheduled THEN basis[Id(Persons)] # Now(g) ELSE SumGiven(g, value, basis)
UnderWay(g, run, people) == run.node = Idle \/ Given(g, run.node, run.value, run.basis, people)

Main(g, held, people) ==
    /\ Typed(g) /\ Backed(g) /\ Queued(g) /\ RowsTold(g, people) /\ RowsLinked(g) /\ RowsSummed(g)
    /\ MemoryTold(g, people) /\ PipesFit(g, held) /\ SumStands(g, held)

-----------------------------------------------------------------------------
(* The nodes of a pipeline that stands. *)
Sound(g) == \E keys, last : AllStand(g, keys, last)

\* What is known of a pipeline, its entry given.
Piped(g, e) ==
    /\ HomeOf(e).key = e.key /\ RouteOf(e).key = e.key /\ MpgOf(e).key = e.key
    /\ HomeOf(e).kind = HomeKind(e.key) /\ HomeKind(e.key) \in {"place", "school"}
    /\ RouteOf(e).kind = "route" /\ MpgOf(e).kind = "mpg" /\ e.kind = "entry"
    /\ Id(HomeOf(e)) = HomeId(e.key) /\ Id(RouteOf(e)) = RouteId(e.key)
    /\ Id(MpgOf(e)) = MpgId(e.key) /\ Id(e) = EntryId(e.key)
    /\ {HomeOf(e), RouteOf(e), MpgOf(e), e} \subseteq (DOMAIN g.memory \ {Persons, Breakdown}) \cap Pipes(g)
    /\ e.key \in LiveKeys(g) \cap AllKeys /\ e.key # <<>>

LEMMA SoundIs ==
    ASSUME NEW g, Sound(g)
    PROVE  /\ IsGraph(g) /\ {Persons, Breakdown} \subseteq DOMAIN g.memory
           /\ \E last : /\ Stands(g, LiveKeys(g), last) /\ EntriesStand(g, LiveKeys(g), last)
                        /\ MemoryStands(g, last) /\ SlotsStand(g, {Property, Breakdown})
<1>1. PICK keys, last : AllStand(g, keys, last)  BY DEF Sound
<1>2. Stands(g, keys, last) /\ EntriesStand(g, keys, last) /\ MemoryStands(g, last) /\ IsGraph(g)
      /\ SlotsStand(g, {Property, Breakdown}) /\ Breakdown \in DOMAIN g.memory /\ Persons \in DOMAIN g.memory
  BY <1>1 DEF AllStand, Stands, MemoryStands
<1>3. keys = LiveKeys(g)  BY <1>2 DEF EntriesStand, LiveKeys
<1>. QED  BY <1>2, <1>3

LEMMA PipedIs ==
    ASSUME NEW g, Sound(g), NEW e \in Range(g.selectors)
    PROVE  Piped(g, e)
<1>1. PICK last : EntriesStand(g, LiveKeys(g), last) /\ MemoryStands(g, last)  BY SoundIs
<1>2. /\ e = Node("entry", e.key, e.born, e.car) /\ e = Node(e.kind, e.key, e.born, e.car)
      /\ e.key \in LiveKeys(g) /\ e.key \in AllKeys
  BY <1>1, EntriesAre
<1>3. e.kind = "entry"  BY <1>1 DEF EntriesStand
<1>4. \A kind : /\ Sibling(e, kind).kind = kind /\ Sibling(e, kind).key = e.key
  BY <1>2, SiblingIs
<1>5. HomeKind(e.key) \in {"place", "school"}  BY DEF HomeKind
<1>6. Circle(e) \subseteq DOMAIN g.memory /\ Circle(e) \subseteq Pipes(g)
  <2>1. {n \in DOMAIN g.memory : n.key = e.key /\ n.born = e.born} = Circle(e)  BY <1>1 DEF MemoryStands
  <2>. QED  BY <2>1 DEF Pipes
<1>7. e.key # <<>>  BY <1>2, KeyIs
<1>8. \A n \in Circle(e) : n # Persons /\ n # Breakdown
  <2>1. \A n \in Circle(e) : n.key = e.key  BY <1>2, CircleIs
  <2>2. Persons.key = <<>> /\ Breakdown.key = <<>>  BY Fixed
  <2>. QED  BY <2>1, <2>2, <1>7
<1>9. /\ HomeOf(e).key = e.key /\ RouteOf(e).key = e.key /\ MpgOf(e).key = e.key
      /\ HomeOf(e).kind = HomeKind(e.key) /\ RouteOf(e).kind = "route" /\ MpgOf(e).kind = "mpg"
  BY <1>4 DEF HomeOf, RouteOf, MpgOf
<1>10. /\ Id(HomeOf(e)) = HomeId(e.key) /\ Id(RouteOf(e)) = RouteId(e.key)
       /\ Id(MpgOf(e)) = MpgId(e.key) /\ Id(e) = EntryId(e.key)
  BY <1>3, <1>9 DEF Id, HomeId, RouteId, MpgId, EntryId
<1>11. {HomeOf(e), RouteOf(e), MpgOf(e), e} \subseteq (DOMAIN g.memory \ {Persons, Breakdown}) \cap Pipes(g)
  BY <1>6, <1>8 DEF Circle
<1>. QED  BY <1>2, <1>3, <1>5, <1>7, <1>9, <1>10, <1>11 DEF Piped

\* The pipeline of a node: it has the same one as its entry.
LEMMA PipeIs ==
    ASSUME NEW g, Sound(g), NEW n \in Pipes(g)
    PROVE  \E e \in Range(g.selectors) :
             /\ n \in {HomeOf(e), RouteOf(e), MpgOf(e), e}
             /\ HomeOf(n) = HomeOf(e) /\ RouteOf(n) = RouteOf(e) /\ MpgOf(n) = MpgOf(e)
             /\ Sibling(n, "entry") = e /\ n.key = e.key
<1>1. PICK last : EntriesStand(g, LiveKeys(g), last)  BY SoundIs
<1>2. PICK e \in Range(g.selectors) : n \in Circle(e)  BY DEF Pipes
<1>3. e = Node("entry", e.key, e.born, e.car) /\ e = Node(e.kind, e.key, e.born, e.car)  BY <1>1, EntriesAre
<1>4. n.key = e.key /\ n.born = e.born /\ n.car = e.car /\ n = Node(n.kind, n.key, n.born, n.car)
  BY <1>2, <1>3, CircleIs
<1>5. \A kind : Sibling(n, kind) = Sibling(e, kind)
  <2>. TAKE kind
  <2>1. Sibling(n, kind) = Node(kind, n.key, n.born, n.car)  BY <1>4, SiblingIs
  <2>2. Sibling(e, kind) = Node(kind, e.key, e.born, e.car)  BY <1>3, SiblingIs
  <2>. QED  BY <2>1, <2>2, <1>4
<1>6. Sibling(e, "entry") = e
  <2>1. Sibling(e, "entry") = Node("entry", e.key, e.born, e.car)  BY <1>3, SiblingIs
  <2>. QED  BY <2>1, <1>3
<1>7. HomeOf(n) = HomeOf(e) /\ RouteOf(n) = RouteOf(e) /\ MpgOf(n) = MpgOf(e)
  BY <1>4, <1>5 DEF HomeOf, RouteOf, MpgOf
<1>8. n \in {HomeOf(e), RouteOf(e), MpgOf(e), e}  BY <1>2 DEF Circle
<1>. QED  BY <1>4, <1>5, <1>6, <1>7, <1>8

LEMMA OneEntry ==
    ASSUME NEW g, Sound(g), NEW d \in Range(g.selectors), NEW e \in Range(g.selectors), d.key = e.key
    PROVE  d = e
<1>1. PICK last : EntriesStand(g, LiveKeys(g), last)  BY SoundIs
<1>. QED  BY <1>1, EntriesAre

LEMMA ActiveIds ==
    ASSUME NEW g, Sound(g), NEW n \in Active(g), NEW m \in Active(g), Id(n) = Id(m)
    PROVE  n = m
<1>1. n.kind = m.kind /\ n.key = m.key  BY DEF Id
<1>2. CASE n = Breakdown /\ m = Breakdown  BY <1>2
<1>3. ASSUME NEW x \in Pipes(g) PROVE x.key # <<>> /\ x.key # Breakdown.key
  <2>1. PICK e \in Range(g.selectors) : x.key = e.key  BY <1>3, PipeIs
  <2>. QED  BY <2>1, PipedIs, Fixed DEF Piped
<1>4. CASE n \in Pipes(g) /\ m \in Pipes(g)
  <2>1. PICK d \in Range(g.selectors) : n \in {HomeOf(d), RouteOf(d), MpgOf(d), d} /\ n.key = d.key  BY <1>4, PipeIs
  <2>2. PICK e \in Range(g.selectors) : m \in {HomeOf(e), RouteOf(e), MpgOf(e), e} /\ m.key = e.key  BY <1>4, PipeIs
  <2>3. d = e  BY <1>1, <2>1, <2>2, OneEntry
  <2>4. Piped(g, e)  BY PipedIs
  <2>. QED  BY <1>1, <2>1, <2>2, <2>3, <2>4 DEF Piped
<1>. QED  BY <1>1, <1>2, <1>3, <1>4 DEF Active

\* What each node of a pipeline reads.
LEMMA ReadsAre ==
    ASSUME NEW g, Sound(g), NEW e \in Range(g.selectors)
    PROVE  /\ Inputs(g, HomeOf(e)) = IF HomeKind(e.key) = "place" THEN {Persons} ELSE {}
           /\ Inputs(g, MpgOf(e)) = {Persons}
           /\ Inputs(g, RouteOf(e)) = {HomeOf(e)} /\ Home(g, RouteOf(e)) = {HomeOf(e)}
           /\ Inputs(g, e) = {RouteOf(e), MpgOf(e)}
<1>1. Piped(g, e)  BY PipedIs
<1>2. PICK last : MemoryStands(g, last) /\ EntriesStand(g, LiveKeys(g), last)  BY SoundIs
<1>3. RouteOf(e) \in Pipes(g) /\ HomeOf(e) \in DOMAIN g.memory /\ RouteOf(e).key = e.key  BY <1>1 DEF Piped
<1>4. e = Node(e.kind, e.key, e.born, e.car)  BY <1>2, EntriesAre
<1>5. RouteOf(e) = Node(RouteOf(e).kind, RouteOf(e).key, RouteOf(e).born, RouteOf(e).car)
      /\ RouteOf(e).key = e.key /\ RouteOf(e).born = e.born /\ RouteOf(e).car = e.car
  <2>1. RouteOf(e) \in Circle(e)  BY DEF Circle
  <2>. QED  BY <1>4, <2>1, CircleIs
<1>6. \A kind : Sibling(RouteOf(e), kind) = Sibling(e, kind)
  <2>. TAKE kind
  <2>1. Sibling(RouteOf(e), kind) = Node(kind, e.key, e.born, e.car)  BY <1>5, SiblingIs
  <2>2. Sibling(e, kind) = Node(kind, e.key, e.born, e.car)  BY <1>4, SiblingIs
  <2>. QED  BY <2>1, <2>2
<1>7. \A kind \in {"place", "school"} : Sibling(e, kind) \in DOMAIN g.memory => kind = HomeKind(e.key)
  <2>. TAKE kind \in {"place", "school"}
  <2>. HAVE Sibling(e, kind) \in DOMAIN g.memory
  <2>1. Sibling(e, kind).kind = kind /\ Sibling(e, kind).key = e.key  BY <1>4, SiblingIs
  <2>2. Sibling(e, kind) \notin {Persons, Breakdown}  BY <2>1, <1>1, Fixed DEF Piped
  <2>3. IsPart(Sibling(e, kind), last)  BY <1>2, <2>2 DEF MemoryStands
  <2>. QED  BY <2>1, <2>3 DEF IsPart
<1>8. Home(g, RouteOf(e)) = {HomeOf(e)}
  <2>1. Home(g, RouteOf(e)) = {Sibling(e, "place"), Sibling(e, "school")} \cap DOMAIN g.memory
    BY <1>6 DEF Home
  <2>2. HomeOf(e) \in {Sibling(e, "place"), Sibling(e, "school")}  BY <1>1 DEF HomeOf, Piped
  <2>. QED  BY <1>3, <1>7, <2>1, <2>2 DEF HomeOf
<1>9. Inputs(g, HomeOf(e)) = IF HomeKind(e.key) = "place" THEN {Persons} ELSE {}
  <2>1. HomeOf(e).kind = HomeKind(e.key) /\ HomeKind(e.key) \in {"place", "school"}  BY <1>1 DEF Piped
  <2>2. CASE HomeKind(e.key) = "place"  BY <2>1, <2>2 DEF Inputs
  <2>3. CASE HomeKind(e.key) = "school"  BY <2>1, <2>3 DEF Inputs
  <2>. QED  BY <2>1, <2>2, <2>3
<1>10. Inputs(g, MpgOf(e)) = {Persons}  BY <1>1 DEF Inputs, Piped
<1>11. Inputs(g, RouteOf(e)) = {HomeOf(e)}  BY <1>1, <1>8 DEF Inputs, Piped
<1>12. Inputs(g, e) = {RouteOf(e), MpgOf(e)}  BY <1>1 DEF Inputs, Piped, RouteOf, MpgOf
<1>. QED  BY <1>8, <1>9, <1>10, <1>11, <1>12

LEMMA SumReads ==
    ASSUME NEW g
    PROVE  Inputs(g, Breakdown) = Range(g.selectors) \cup {Persons}
BY Fixed DEF Inputs

LEMMA ConnectedIs ==
    ASSUME NEW g, Sound(g), NEW n \in DOMAIN g.memory
    PROVE  Connected(g, n) <=> n \in Pipes(g)
<1>1. PICK last : Stands(g, LiveKeys(g), last)  BY SoundIs
<1>2. PartsOf(g) = Pipes(g)  BY <1>1, PartsArePipes
<1>. QED  BY <1>2 DEF PartsOf

\* Whom a node tells.
Followers(g, n) ==
    IF n \notin Pipes(g) THEN {}
    ELSE IF n.kind \in {"place", "school"} THEN {RouteOf(n)}
    ELSE IF n.kind \in {"route", "mpg"} THEN {Sibling(n, "entry")} ELSE {Breakdown}
LEMMA ListenersAre ==
    ASSUME NEW g, Sound(g), NEW n \in DOMAIN g.memory
    PROVE  \/ Followers(g, n) = {} /\ Listeners(g, n) = <<>>
           \/ \E l \in Active(g) : Followers(g, n) = {l} /\ Listeners(g, n) = <<l>> /\ l \in DOMAIN g.memory \ {Persons}
<1>1. CASE n \notin Pipes(g)  BY <1>1, ConnectedIs DEF Listeners, Followers
<1>2. CASE n \in Pipes(g)
  <2>1. Connected(g, n)  BY <1>2, ConnectedIs
  <2>2. PICK e \in Range(g.selectors) :
             /\ n \in {HomeOf(e), RouteOf(e), MpgOf(e), e} /\ RouteOf(n) = RouteOf(e) /\ Sibling(n, "entry") = e
    BY <1>2, PipeIs
  <2>3. Piped(g, e)  BY PipedIs
  <2>4. Breakdown \in Active(g) /\ Breakdown \in DOMAIN g.memory \ {Persons}
    BY SoundIs, Fixed DEF Active
  <2>5. {RouteOf(e), e} \subseteq Active(g) \cap (DOMAIN g.memory \ {Persons})  BY <2>3 DEF Piped, Active
  <2>6. CASE n = HomeOf(e)
    <3>1. n.kind \in {"place", "school"}  BY <2>3, <2>6 DEF Piped
    <3>2. Listeners(g, n) = <<RouteOf(e)>> /\ Followers(g, n) = {RouteOf(e)}
      BY <1>2, <2>1, <2>2, <3>1 DEF Listeners, Followers, RouteOf
    <3>. QED  BY <2>5, <3>2
  <2>7. CASE n \in {RouteOf(e), MpgOf(e)}
    <3>1. n.kind \in {"route", "mpg"} /\ n.kind \notin {"place", "school"}  BY <2>3, <2>7 DEF Piped
    <3>2. Listeners(g, n) = <<e>> /\ Followers(g, n) = {e}
      BY <1>2, <2>1, <2>2, <3>1 DEF Listeners, Followers
    <3>. QED  BY <2>5, <3>2
  <2>8. CASE n = e
    <3>1. n.kind = "entry" /\ n.kind \notin {"place", "school", "route", "mpg"}  BY <2>3, <2>8 DEF Piped
    <3>2. Listeners(g, n) = <<Breakdown>> /\ Followers(g, n) = {Breakdown}
      BY <1>2, <2>1, <3>1 DEF Listeners, Followers
    <3>. QED  BY <2>4, <3>2
  <2>. QED  BY <2>2, <2>6, <2>7, <2>8
<1>. QED  BY <1>1, <1>2

-----------------------------------------------------------------------------
(* A record is put. *)
Put(g, h, n, row, mem) ==
    /\ IsGraph(h) /\ h.clock = g.clock + 1 /\ h.selectors = g.selectors
    /\ n \in DOMAIN g.memory \ {Persons}
    /\ h.memory = Recorded(g, n, mem) /\ h.rows = Tabled(g, n, row)

LEMMA PartIs ==
    ASSUME NEW g, Sound(g), NEW n \in DOMAIN g.memory \ {Persons, Breakdown}
    PROVE  /\ n = Node(n.kind, n.key, n.born, n.car) /\ n.car \in BOOLEAN /\ n.key \in AllKeys /\ n.key # <<>>
           /\ n.kind \in {HomeKind(n.key), "route", "mpg", "entry"} /\ HomeKind(n.key) \in {"place", "school"}
           /\ Id(HomeOf(n)) = HomeId(n.key) /\ Id(RouteOf(n)) = RouteId(n.key) /\ Id(MpgOf(n)) = MpgId(n.key)
           /\ HomeOf(n).kind = HomeKind(n.key) /\ RouteOf(n).kind = "route" /\ MpgOf(n).kind = "mpg"
<1>1. PICK last : MemoryStands(g, last)  BY SoundIs
<1>2. IsPart(n, last)  BY <1>1 DEF MemoryStands
<1>3. n = Node(n.kind, n.key, n.born, n.car) /\ n.key \in AllKeys /\ n.car \in BOOLEAN  BY <1>2 DEF IsPart
<1>4. \A kind : Sibling(n, kind).kind = kind /\ Sibling(n, kind).key = n.key  BY <1>3, SiblingIs
<1>5. HomeKind(n.key) \in {"place", "school"}  BY DEF HomeKind
<1>6. Id(HomeOf(n)) = HomeId(n.key) /\ Id(RouteOf(n)) = RouteId(n.key) /\ Id(MpgOf(n)) = MpgId(n.key)
      /\ HomeOf(n).kind = HomeKind(n.key) /\ RouteOf(n).kind = "route" /\ MpgOf(n).kind = "mpg"
  BY <1>4 DEF HomeOf, RouteOf, MpgOf, Id, HomeId, RouteId, MpgId
<1>7. n.key # <<>>  BY <1>3, KeyIs
<1>. QED  BY <1>2, <1>3, <1>5, <1>6, <1>7 DEF IsPart

LEMMA PutReads ==
    ASSUME NEW g, Sound(g), NEW h, NEW n, NEW row, NEW mem, Put(g, h, n, row, mem)
    PROVE  /\ DOMAIN h.memory = DOMAIN g.memory /\ h.memory[n] = mem /\ n \in DOMAIN g.memory \ {Persons}
           /\ \A m \in DOMAIN g.memory : m # n => h.memory[m] = g.memory[m]
           /\ DOMAIN h.rows = DOMAIN g.rows \cup {Id(n)} /\ h.rows[Id(n)] = row
           /\ \A i \in DOMAIN g.rows : i # Id(n) => h.rows[i] = g.rows[i]
           /\ Now(h) = Now(g) /\ Pipes(h) = Pipes(g) /\ Active(h) = Active(g) /\ LiveKeys(h) = LiveKeys(g)
           /\ h.clock = g.clock + 1 /\ h.selectors = g.selectors
<1>1. Persons \in DOMAIN g.memory  BY SoundIs
<1>. QED  BY <1>1 DEF Put, Recorded, Tabled, Now, Pipes, Active, LiveKeys

PutOK(g, n, row, mem, people) ==
    /\ RecordOK(g.clock + 1, n.kind, n.key, row) /\ RecordOK(g.clock + 1, n.kind, n.key, mem)
    /\ row.at = g.clock + 1 /\ mem.at = g.clock + 1
    /\ row.value \in {Pending, mem.value} /\ (n.kind \in {"entry", "breakdown"} \/ row.value # Pending)
    /\ ToldOK(people, Now(g), n.kind, n.key, row) /\ ToldOK(people, Now(g), n.kind, n.key, mem)
    /\ n.kind = "route" => RouteGiven(g, n, row.value, row.basis)
    /\ n.kind = "entry" /\ row.value # Pending => EntryGiven(g, n, row.value, row.basis)
    /\ n = Breakdown /\ row.value # Pending /\ row.basis[Id(Persons)] = Now(g) => SumGiven(g, row.value, row.basis)

LEMMA RecordLater ==
    ASSUME NEW clock \in Nat, NEW kind, NEW key, NEW r, RecordOK(clock, kind, key, r)
    PROVE  RecordOK(clock + 1, kind, key, r)
BY DEF RecordOK

LEMMA PutTyped ==
    ASSUME NEW g, Sound(g), NEW h, NEW n, NEW row, NEW mem, NEW people, Put(g, h, n, row, mem),
           PutOK(g, n, row, mem, people), Typed(g), Backed(g)
    PROVE  Typed(h) /\ Backed(h)
<1>1. /\ DOMAIN h.memory = DOMAIN g.memory /\ h.memory[n] = mem /\ n \in DOMAIN g.memory \ {Persons}
      /\ \A m \in DOMAIN g.memory : m # n => h.memory[m] = g.memory[m]
      /\ DOMAIN h.rows = DOMAIN g.rows \cup {Id(n)} /\ h.rows[Id(n)] = row
      /\ \A i \in DOMAIN g.rows : i # Id(n) => h.rows[i] = g.rows[i]
      /\ Now(h) = Now(g) /\ h.clock = g.clock + 1
  BY PutReads
<1>2. /\ RecordOK(g.clock + 1, n.kind, n.key, row) /\ RecordOK(g.clock + 1, n.kind, n.key, mem)
      /\ row.at = g.clock + 1 /\ mem.at = g.clock + 1
      /\ row.value \in {Pending, mem.value} /\ (n.kind \in {"entry", "breakdown"} \/ row.value # Pending)
  BY DEF PutOK
<1>3. Id(n)[1] = n.kind /\ Id(n)[2] = n.key  BY DEF Id
<1>4. g.clock \in Nat /\ Now(g) \in 1..g.clock  BY DEF Typed
<1>5. \A m \in DOMAIN h.memory \ {Persons} : RecordOK(h.clock, m.kind, m.key, h.memory[m])
  <2>. TAKE m \in DOMAIN h.memory \ {Persons}
  <2>1. CASE m = n  BY <1>1, <1>2, <2>1
  <2>2. CASE m # n
    <3>1. RecordOK(g.clock, m.kind, m.key, g.memory[m])  BY <1>1 DEF Typed
    <3>. QED  BY <1>1, <1>4, <2>2, <3>1, RecordLater
  <2>. QED  BY <2>1, <2>2
<1>6. \A i \in DOMAIN h.rows : RecordOK(h.clock, i[1], i[2], h.rows[i]) /\ h.rows[i].at > 0
  <2>. TAKE i \in DOMAIN h.rows
  <2>1. CASE i = Id(n)
    <3>1. h.rows[i] = row /\ h.rows[i].at = g.clock + 1  BY <1>1, <1>2, <2>1
    <3>2. RecordOK(h.clock, i[1], i[2], h.rows[i])  BY <1>1, <1>2, <1>3, <2>1, <3>1
    <3>. QED  BY <1>4, <3>1, <3>2
  <2>2. CASE i # Id(n)
    <3>1. i \in DOMAIN g.rows /\ h.rows[i] = g.rows[i]  BY <1>1, <2>2
    <3>2. RecordOK(g.clock, i[1], i[2], g.rows[i]) /\ g.rows[i].at > 0  BY <3>1 DEF Typed
    <3>. QED  BY <1>1, <1>4, <3>1, <3>2, RecordLater
  <2>. QED  BY <2>1, <2>2
<1>7. \A i \in DOMAIN h.rows : i[1] \in {"entry", "breakdown"} \/ h.rows[i].value # Pending
  <2>. TAKE i \in DOMAIN h.rows
  <2>1. CASE i = Id(n)  BY <1>1, <1>2, <1>3, <2>1
  <2>2. CASE i # Id(n)  BY <1>1, <2>2 DEF Typed
  <2>. QED  BY <2>1, <2>2
<1>8. h.clock \in Nat /\ Now(h) \in 1..h.clock  BY <1>1, <1>4
<1>9. \A m \in DOMAIN h.memory \ {Persons} : BackedBy(m, h.memory[m], h.rows)
  <2>. TAKE m \in DOMAIN h.memory \ {Persons}
  <2>1. CASE m = n  BY <1>1, <1>2, <2>1 DEF BackedBy
  <2>2. CASE m # n
    <3>1. BackedBy(m, g.memory[m], g.rows) /\ h.memory[m] = g.memory[m]  BY <1>1, <2>2 DEF Backed
    <3>2. CASE Id(m) # Id(n)  BY <1>1, <3>1, <3>2 DEF BackedBy
    <3>3. CASE Id(m) = Id(n)
      <4>1. g.memory[m].at \in 0..g.clock  BY <1>1 DEF Typed, RecordOK
      <4>2. h.rows[Id(m)].at # h.memory[m].at  BY <1>1, <1>2, <1>4, <3>1, <3>3, <4>1
      <4>. QED  BY <1>1, <3>3, <4>2 DEF BackedBy
    <3>. QED  BY <3>2, <3>3
  <2>. QED  BY <2>1, <2>2
<1>. QED  BY <1>5, <1>6, <1>7, <1>8, <1>9 DEF Typed, Backed

LEMMA PutTold ==
    ASSUME NEW g, Sound(g), NEW h, NEW n, NEW row, NEW mem, NEW people, Put(g, h, n, row, mem),
           PutOK(g, n, row, mem, people), RowsTold(g, people), MemoryTold(g, people)
    PROVE  RowsTold(h, people) /\ MemoryTold(h, people)
<1>1. /\ DOMAIN h.memory = DOMAIN g.memory /\ h.memory[n] = mem /\ n \in DOMAIN g.memory \ {Persons}
      /\ \A m \in DOMAIN g.memory : m # n => h.memory[m] = g.memory[m]
      /\ DOMAIN h.rows = DOMAIN g.rows \cup {Id(n)} /\ h.rows[Id(n)] = row
      /\ \A i \in DOMAIN g.rows : i # Id(n) => h.rows[i] = g.rows[i]
      /\ Now(h) = Now(g)
  BY PutReads
<1>2. ToldOK(people, Now(g), n.kind, n.key, row) /\ ToldOK(people, Now(g), n.kind, n.key, mem)  BY DEF PutOK
<1>3. Id(n)[1] = n.kind /\ Id(n)[2] = n.key  BY DEF Id
<1>4. \A i \in DOMAIN h.rows : ToldOK(people, Now(h), i[1], i[2], h.rows[i])
  <2>. TAKE i \in DOMAIN h.rows
  <2>1. CASE i = Id(n)  BY <1>1, <1>2, <1>3, <2>1
  <2>2. CASE i # Id(n)  BY <1>1, <2>2 DEF RowsTold
  <2>. QED  BY <2>1, <2>2
<1>5. \A m \in DOMAIN h.memory \ {Persons} : ToldOK(people, Now(h), m.kind, m.key, h.memory[m])
  <2>. TAKE m \in DOMAIN h.memory \ {Persons}
  <2>1. CASE m = n  BY <1>1, <1>2, <2>1
  <2>2. CASE m # n  BY <1>1, <2>2 DEF MemoryTold
  <2>. QED  BY <2>1, <2>2
<1>. QED  BY <1>4, <1>5 DEF RowsTold, MemoryTold

\* A row that says when memory was stored holds what memory does.
LEMMA RowOfMemory ==
    ASSUME NEW g, Typed(g), Backed(g), NEW n \in DOMAIN g.memory \ {Persons}, n.kind \notin {"entry", "breakdown"},
           g.memory[n].value # Pending
    PROVE  Id(n) \in DOMAIN g.rows /\ (g.rows[Id(n)].at = g.memory[n].at => g.rows[Id(n)].value = g.memory[n].value)
<1>1. BackedBy(n, g.memory[n], g.rows)  BY DEF Backed
<1>2. Id(n) \in DOMAIN g.rows  BY <1>1 DEF BackedBy
<1>3. Id(n)[1] = n.kind  BY DEF Id
<1>4. g.rows[Id(n)].value # Pending  BY <1>2, <1>3 DEF Typed
<1>. QED  BY <1>1, <1>2, <1>4 DEF BackedBy

LEMMA PutLinked ==
    ASSUME NEW g, Sound(g), NEW h, NEW n, NEW row, NEW mem, NEW people, Put(g, h, n, row, mem),
           PutOK(g, n, row, mem, people), Typed(g), Backed(g), RowsLinked(g)
    PROVE  RowsLinked(h)
<1>1. /\ n \in DOMAIN g.memory \ {Persons}
      /\ DOMAIN h.rows = DOMAIN g.rows \cup {Id(n)} /\ h.rows[Id(n)] = row
      /\ \A i \in DOMAIN g.rows : i # Id(n) => h.rows[i] = g.rows[i]
  BY PutReads
<1>2. row.at = g.clock + 1 /\ g.clock \in Nat  BY DEF PutOK, Typed
<1>3. \A i \in DOMAIN g.rows : \A j \in DOMAIN g.rows[i].basis : g.rows[i].basis[j] \in 0..g.clock
  BY DEF Typed, RecordOK
<1>4. \A i \in DOMAIN g.rows : g.rows[i].value # Pending => Sourced(i[1], i[2], g.rows[i].basis)
  BY DEF Typed, RecordOK
<1>. SUFFICES ASSUME NEW key \in AllKeys PROVE RoutesRow(key, h.rows) /\ EntrysRow(key, h.rows)
  BY DEF RowsLinked
<1>5. RoutesRow(key, g.rows) /\ EntrysRow(key, g.rows)  BY DEF RowsLinked
<1>6. /\ HomeId(key)[1] \in {"place", "school"} /\ RouteId(key)[1] = "route"
      /\ MpgId(key)[1] = "mpg" /\ EntryId(key)[1] = "entry"
      /\ \A i \in {HomeId(key), RouteId(key), MpgId(key), EntryId(key)} : i[2] = key
  BY DEF HomeKind, HomeId, RouteId, MpgId, EntryId
<1>7. Id(n)[1] = n.kind /\ Id(n)[2] = n.key  BY DEF Id
<1>8. RoutesRow(key, h.rows)
  <2>. SUFFICES ASSUME RouteId(key) \in DOMAIN h.rows
                PROVE  HomeId(key) \in DOMAIN h.rows /\ RouteFits(key, h.rows[RouteId(key)], h.rows[HomeId(key)])
    BY DEF RoutesRow
  <2>1. CASE Id(n) = RouteId(key)
    <3>1. n.kind = "route" /\ n.key = key  BY <1>6, <1>7, <2>1
    <3>2. n # Breakdown  BY <3>1, Fixed
    <3>3. RouteGiven(g, n, row.value, row.basis)  BY <3>1 DEF PutOK
    <3>4. Id(HomeOf(n)) = HomeId(key) /\ HomeOf(n).kind \in {"place", "school"}  BY <1>1, <3>1, <3>2, PartIs
    <3>5. /\ HomeOf(n) \in DOMAIN g.memory \ {Persons} /\ g.memory[HomeOf(n)].value # Pending
          /\ row.basis[HomeId(key)] = g.memory[HomeOf(n)].at /\ row.value = ToRoute(g.memory[HomeOf(n)].value)
      BY <3>1, <3>3 DEF RouteGiven
    <3>6. /\ HomeId(key) \in DOMAIN g.rows
          /\ g.rows[HomeId(key)].at = g.memory[HomeOf(n)].at => g.rows[HomeId(key)].value = g.memory[HomeOf(n)].value
      BY <3>4, <3>5, RowOfMemory
    <3>7. HomeId(key) # Id(n)  BY <1>6, <2>1
    <3>8. h.rows[HomeId(key)] = g.rows[HomeId(key)] /\ HomeId(key) \in DOMAIN h.rows /\ h.rows[RouteId(key)] = row
      BY <1>1, <2>1, <3>6, <3>7
    <3>. QED  BY <3>5, <3>6, <3>8 DEF RouteFits
  <2>2. CASE Id(n) # RouteId(key)
    <3>1. RouteId(key) \in DOMAIN g.rows /\ h.rows[RouteId(key)] = g.rows[RouteId(key)]  BY <1>1, <2>2
    <3>2. HomeId(key) \in DOMAIN g.rows /\ RouteFits(key, g.rows[RouteId(key)], g.rows[HomeId(key)])
      BY <1>5, <3>1 DEF RoutesRow
    <3>3. CASE Id(n) # HomeId(key)  BY <1>1, <3>1, <3>2, <3>3
    <3>4. CASE Id(n) = HomeId(key)
      <4>1. g.rows[RouteId(key)].value # Pending => g.rows[RouteId(key)].basis[HomeId(key)] \in 0..g.clock
        <5>1. SUFFICES ASSUME g.rows[RouteId(key)].value # Pending
                       PROVE  HomeId(key) \in DOMAIN g.rows[RouteId(key)].basis
          BY <1>3, <3>1
        <5>2. Sourced("route", key, g.rows[RouteId(key)].basis)  BY <1>4, <1>6, <3>1, <5>1
        <5>. QED  BY <5>2 DEF Sourced, SourceIds
      <4>2. h.rows[HomeId(key)].at = g.clock + 1  BY <1>1, <1>2, <3>4
      <4>3. g.rows[RouteId(key)].value # Pending => g.rows[RouteId(key)].basis[HomeId(key)] # g.clock + 1
        BY <1>2, <4>1
      <4>. QED  BY <1>1, <3>1, <3>2, <4>2, <4>3 DEF RouteFits
    <3>. QED  BY <3>3, <3>4
  <2>. QED  BY <2>1, <2>2
<1>9. EntrysRow(key, h.rows)
  <2>. SUFFICES ASSUME EntryId(key) \in DOMAIN h.rows, h.rows[EntryId(key)].value # Pending
                PROVE  /\ RouteId(key) \in DOMAIN h.rows /\ MpgId(key) \in DOMAIN h.rows
                       /\ EntryCurrent(key, h.rows[EntryId(key)], h.rows[RouteId(key)], h.rows[MpgId(key)])
                            => EntryOf(h.rows[EntryId(key)], h.rows[RouteId(key)], h.rows[MpgId(key)])
    BY DEF EntrysRow
  <2>1. CASE Id(n) = EntryId(key)
    <3>1. n.kind = "entry" /\ n.key = key /\ h.rows[EntryId(key)] = row  BY <1>1, <1>6, <1>7, <2>1
    <3>2. n # Breakdown  BY <3>1, Fixed
    <3>3. EntryGiven(g, n, row.value, row.basis)  BY <3>1 DEF PutOK
    <3>4. /\ Id(RouteOf(n)) = RouteId(key) /\ Id(MpgOf(n)) = MpgId(key)
          /\ RouteOf(n).kind = "route" /\ MpgOf(n).kind = "mpg"
      BY <1>1, <3>1, <3>2, PartIs
    <3>5. /\ {RouteOf(n), MpgOf(n)} \subseteq DOMAIN g.memory \ {Persons}
          /\ g.memory[RouteOf(n)].value # Pending /\ g.memory[MpgOf(n)].value # Pending
          /\ row.basis[RouteId(key)] = g.memory[RouteOf(n)].at /\ row.basis[MpgId(key)] = g.memory[MpgOf(n)].at
          /\ FitsEntry(row.value, g.memory[RouteOf(n)].value, g.memory[MpgOf(n)].value)
      BY <3>1, <3>3 DEF EntryGiven
    <3>6. /\ RouteId(key) \in DOMAIN g.rows
          /\ g.rows[RouteId(key)].at = g.memory[RouteOf(n)].at => g.rows[RouteId(key)].value = g.memory[RouteOf(n)].value
      BY <3>4, <3>5, RowOfMemory
    <3>7. /\ MpgId(key) \in DOMAIN g.rows
          /\ g.rows[MpgId(key)].at = g.memory[MpgOf(n)].at => g.rows[MpgId(key)].value = g.memory[MpgOf(n)].value
      BY <3>4, <3>5, RowOfMemory
    <3>8. RouteId(key) # Id(n) /\ MpgId(key) # Id(n)  BY <1>6, <2>1
    <3>9. /\ h.rows[RouteId(key)] = g.rows[RouteId(key)] /\ RouteId(key) \in DOMAIN h.rows
          /\ h.rows[MpgId(key)] = g.rows[MpgId(key)] /\ MpgId(key) \in DOMAIN h.rows
      BY <1>1, <3>6, <3>7, <3>8
    <3>. QED  BY <3>1, <3>5, <3>6, <3>7, <3>9 DEF EntryCurrent, EntryOf
  <2>2. CASE Id(n) # EntryId(key)
    <3>1. EntryId(key) \in DOMAIN g.rows /\ h.rows[EntryId(key)] = g.rows[EntryId(key)]  BY <1>1, <2>2
    <3>2. /\ RouteId(key) \in DOMAIN g.rows /\ MpgId(key) \in DOMAIN g.rows
          /\ EntryCurrent(key, g.rows[EntryId(key)], g.rows[RouteId(key)], g.rows[MpgId(key)])
               => EntryOf(g.rows[EntryId(key)], g.rows[RouteId(key)], g.rows[MpgId(key)])
      BY <1>5, <3>1 DEF EntrysRow
    <3>3. /\ g.rows[EntryId(key)].basis[RouteId(key)] \in 0..g.clock
          /\ g.rows[EntryId(key)].basis[MpgId(key)] \in 0..g.clock
      <4>1. Sourced("entry", key, g.rows[EntryId(key)].basis)  BY <1>4, <1>6, <3>1
      <4>2. {RouteId(key), MpgId(key)} \subseteq DOMAIN g.rows[EntryId(key)].basis
        BY <4>1 DEF Sourced, SourceIds
      <4>. QED  BY <1>3, <3>1, <4>2
    <3>4. CASE Id(n) \in {RouteId(key), MpgId(key)}
      <4>1. ~EntryCurrent(key, h.rows[EntryId(key)], h.rows[RouteId(key)], h.rows[MpgId(key)])
        <5>1. h.rows[Id(n)].at = g.clock + 1  BY <1>1, <1>2
        <5>. QED  BY <1>2, <3>1, <3>3, <3>4, <5>1 DEF EntryCurrent
      <4>. QED  BY <1>1, <3>2, <4>1
    <3>5. CASE Id(n) \notin {RouteId(key), MpgId(key)}
      <4>1. h.rows[RouteId(key)] = g.rows[RouteId(key)] /\ h.rows[MpgId(key)] = g.rows[MpgId(key)]
        BY <1>1, <3>2, <3>5
      <4>. QED  BY <1>1, <3>1, <3>2, <4>1
    <3>. QED  BY <3>4, <3>5
  <2>. QED  BY <2>1, <2>2
<1>. QED  BY <1>8, <1>9

LEMMA SumOfRowsIs ==
    ASSUME NEW g, Sound(g), Backed(g), NEW v, SumOf(g, v),
           \A e \in Range(g.selectors) : Id(e) \in DOMAIN g.rows => g.rows[Id(e)].at = g.memory[e].at
    PROVE  SumOfRows(v, LiveKeys(g), g.rows)
<1>1. \A e \in Range(g.selectors) : Id(e) = EntryId(e.key) /\ e \in DOMAIN g.memory \ {Persons}
  BY PipedIs DEF Piped
<1>2. \A e \in Range(g.selectors) : Id(e) \in DOMAIN g.rows => g.rows[Id(e)].value \in {Pending, g.memory[e].value}
  BY <1>1 DEF Backed, BackedBy
<1>3. CASE \E e \in Range(g.selectors) : Id(e) \in DOMAIN g.rows => g.rows[Id(e)].value = Pending
  <2>1. \E key \in LiveKeys(g) : EntryId(key) \in DOMAIN g.rows => g.rows[EntryId(key)].value = Pending
    BY <1>1, <1>3 DEF LiveKeys
  <2>. QED  BY <2>1 DEF SumOfRows
<1>4. CASE \A e \in Range(g.selectors) : g.rows[Id(e)].value = g.memory[e].value
  <2>1. \A e \in Range(g.selectors) : g.rows[EntryId(e.key)].value = g.memory[e].value  BY <1>1, <1>4
  <2>2. CASE v \in Impossible /\ \E e \in Range(g.selectors) : g.memory[e].value \in Impossible
    <3>1. PICK e \in Range(g.selectors) : g.memory[e].value \in Impossible  BY <2>2
    <3>2. e.key \in LiveKeys(g) /\ g.rows[EntryId(e.key)].value \in Impossible  BY <2>1, <3>1 DEF LiveKeys
    <3>. QED  BY <2>2, <3>2 DEF SumOfRows
  <2>3. CASE /\ \A e \in Range(g.selectors) : g.memory[e].value \notin Impossible
             /\ v = <<"sum", v[2]>> /\ DOMAIN v[2] = LiveKeys(g)
             /\ \A e \in Range(g.selectors) : v[2][e.key] = g.memory[e].value
    <3>1. ASSUME NEW key \in LiveKeys(g)
          PROVE  g.rows[EntryId(key)].value \notin Impossible /\ v[2][key] = g.rows[EntryId(key)].value
      <4>1. PICK e \in Range(g.selectors) : e.key = key  BY DEF LiveKeys
      <4>. QED  BY <2>1, <2>3, <4>1
    <3>. QED  BY <2>3, <3>1 DEF SumOfRows
  <2>. QED  BY <2>2, <2>3 DEF SumOf
<1>. QED  BY <1>2, <1>3, <1>4

\* The entries' rows are the same.
SameRows(keys, a, b) ==
    \A key \in keys : /\ EntryId(key) \in DOMAIN a => EntryId(key) \in DOMAIN b /\ b[EntryId(key)] = a[EntryId(key)]
                      /\ EntryId(key) \in DOMAIN b => EntryId(key) \in DOMAIN a

LEMMA SumOfSameRows ==
    ASSUME NEW keys, NEW a, NEW b, SameRows(keys, a, b), NEW v, SumOfRows(v, keys, a)
    PROVE  SumOfRows(v, keys, b)
<1>1. CASE \E key \in keys : EntryId(key) \in DOMAIN a => a[EntryId(key)].value = Pending
  <2>1. PICK key \in keys : EntryId(key) \in DOMAIN a => a[EntryId(key)].value = Pending  BY <1>1
  <2>2. EntryId(key) \in DOMAIN b => b[EntryId(key)].value = Pending  BY <2>1 DEF SameRows
  <2>. QED  BY <2>2 DEF SumOfRows
<1>2. CASE \A key \in keys : EntryId(key) \in DOMAIN a
  <2>1. \A key \in keys : b[EntryId(key)] = a[EntryId(key)] /\ EntryId(key) \in DOMAIN b  BY <1>2 DEF SameRows
  <2>. QED  BY <1>2, <2>1 DEF SumOfRows
<1>. QED  BY <1>1, <1>2

LEMMA PutSummed ==
    ASSUME NEW g, Sound(g), NEW h, NEW n, NEW row, NEW mem, NEW people, Put(g, h, n, row, mem),
           PutOK(g, n, row, mem, people), Typed(g), Backed(g), RowsSummed(g)
    PROVE  RowsSummed(h)
<1>1. /\ n \in DOMAIN g.memory \ {Persons}
      /\ DOMAIN h.rows = DOMAIN g.rows \cup {Id(n)} /\ h.rows[Id(n)] = row
      /\ \A i \in DOMAIN g.rows : i # Id(n) => h.rows[i] = g.rows[i]
      /\ Now(h) = Now(g) /\ LiveKeys(h) = LiveKeys(g)
  BY PutReads
<1>2. row.at = g.clock + 1 /\ g.clock \in Nat  BY DEF PutOK, Typed
<1>3. Id(n)[1] = n.kind /\ Id(n)[2] = n.key  BY DEF Id
<1>4. Id(Breakdown)[1] = "breakdown" /\ Id(Breakdown)[2] = <<>> /\ \A key : EntryId(key)[1] = "entry" /\ EntryId(key)[2] = key
  BY Fixed DEF EntryId
<1>. SUFFICES ASSUME Id(Breakdown) \in DOMAIN h.rows PROVE SumsRow(Now(h), LiveKeys(h), h.rows)
  BY DEF RowsSummed
<1>. DEFINE r == h.rows[Id(Breakdown)]
            K == LiveKeys(g)
<1>. SUFFICES ASSUME r.value # Pending, r.basis[Id(Persons)] = Now(g)
              PROVE  /\ DOMAIN r.basis = SumIds(K)
                     /\ (\A key \in K : EntryId(key) \in DOMAIN h.rows => h.rows[EntryId(key)].at = r.basis[EntryId(key)])
                          => SumOfRows(r.value, K, h.rows)
  BY <1>1 DEF SumsRow
<1>5. CASE Id(n) = Id(Breakdown)
  <2>1. n = Breakdown
    <3>1. n.kind = "breakdown"  BY <1>3, <1>4, <1>5
    <3>. QED  BY <1>1, <3>1, PartIs
  <2>2. r = row  BY <1>1, <2>1
  <2>3. SumGiven(g, row.value, row.basis)  BY <2>1, <2>2 DEF PutOK
  <2>4. /\ DOMAIN row.basis = SumIds(K) /\ SumOf(g, row.value)
        /\ \A e \in Range(g.selectors) : row.basis[Id(e)] = g.memory[e].at
    BY <2>3 DEF SumGiven
  <2>5. \A e \in Range(g.selectors) : Id(e) = EntryId(e.key) /\ e \in DOMAIN g.memory \ {Persons}
    BY PipedIs DEF Piped
  <2>8. \A key : EntryId(key) # Id(n)  BY <1>4, <1>5
  <2>9. SameRows(K, g.rows, h.rows)  BY <1>1, <2>8 DEF SameRows
  <2>10. ASSUME \A key \in K : EntryId(key) \in DOMAIN h.rows => h.rows[EntryId(key)].at = r.basis[EntryId(key)]
         PROVE  SumOfRows(r.value, K, h.rows)
    <3>1. ASSUME NEW e \in Range(g.selectors), Id(e) \in DOMAIN g.rows PROVE g.rows[Id(e)].at = g.memory[e].at
      <4>1. e.key \in K /\ Id(e) = EntryId(e.key)  BY <2>5 DEF LiveKeys
      <4>2. EntryId(e.key) \in DOMAIN h.rows /\ h.rows[EntryId(e.key)] = g.rows[EntryId(e.key)]
        BY <2>9, <3>1, <4>1 DEF SameRows
      <4>. QED  BY <2>2, <2>4, <2>10, <4>1, <4>2
    <3>2. SumOfRows(row.value, K, g.rows)  BY <2>4, <3>1, SumOfRowsIs
    <3>. QED  BY <2>2, <2>9, <3>2, SumOfSameRows
  <2>. QED  BY <1>1, <2>2, <2>4, <2>10
<1>6. CASE Id(n) # Id(Breakdown)
  <2>1. Id(Breakdown) \in DOMAIN g.rows /\ r = g.rows[Id(Breakdown)]  BY <1>1, <1>6
  <2>2. /\ DOMAIN r.basis = SumIds(K)
        /\ (\A key \in K : EntryId(key) \in DOMAIN g.rows => g.rows[EntryId(key)].at = r.basis[EntryId(key)])
             => SumOfRows(r.value, K, g.rows)
    BY <2>1 DEF RowsSummed, SumsRow
  <2>3. CASE \E key \in K : Id(n) = EntryId(key)
    <3>1. PICK key \in K : Id(n) = EntryId(key)  BY <2>3
    <3>2. EntryId(key) \in DOMAIN r.basis  BY <2>2 DEF SumIds
    <3>3. r.basis[EntryId(key)] \in 0..g.clock  BY <2>1, <3>2 DEF Typed, RecordOK
    <3>4. h.rows[EntryId(key)].at = g.clock + 1  BY <1>1, <1>2, <3>1
    <3>5. h.rows[EntryId(key)].at # r.basis[EntryId(key)]  BY <1>2, <3>3, <3>4
    <3>6. EntryId(key) \in DOMAIN h.rows  BY <1>1, <3>1
    <3>. QED  BY <2>2, <3>1, <3>5, <3>6
  <2>4. CASE \A key \in K : Id(n) # EntryId(key)
    <3>1. SameRows(K, g.rows, h.rows)  BY <1>1, <2>4 DEF SameRows
    <3>2. ASSUME \A key \in K : EntryId(key) \in DOMAIN h.rows => h.rows[EntryId(key)].at = r.basis[EntryId(key)]
          PROVE  SumOfRows(r.value, K, h.rows)
      <4>1. \A key \in K : EntryId(key) \in DOMAIN g.rows => g.rows[EntryId(key)].at = r.basis[EntryId(key)]
        BY <3>1, <3>2 DEF SameRows
      <4>. QED  BY <2>2, <3>1, <4>1, SumOfSameRows
    <3>. QED  BY <1>1, <2>2, <3>2
  <2>. QED  BY <2>3, <2>4
<1>. QED  BY <1>5, <1>6

-----------------------------------------------------------------------------
(* The order of a queue. *)
LEMMA JoinOrder ==
    ASSUME NEW s, IsSeq(s), NEW t, IsSeq(t)
    PROVE  /\ OneId(s) /\ OneId(t) /\ Ids(s) \cap Ids(t) = {} => OneId(s \o t)
           /\ Ids(s \o t) = Ids(s) \cup Ids(t)
           /\ \A a, b : Before(s \o t, a, b) =>
                Before(s, a, b) \/ Before(t, a, b) \/ (a \in Range(s) /\ b \in Range(t))
<1>. DEFINE u == s \o t
<1>1. /\ IsSeq(u) /\ Range(u) = Range(s) \cup Range(t) /\ Len(u) = Len(s) + Len(t)
      /\ \A i \in 1..Len(s) : u[i] = s[i]
      /\ \A i \in 1..Len(t) : u[Len(s) + i] = t[i]
  BY JoinHolds
<1>2. Len(s) \in Nat /\ Len(t) \in Nat  BY SeqFacts
<1>. HIDE DEF u
<1>3. \A i \in 1..Len(u) : \/ i \in 1..Len(s) /\ u[i] = s[i] /\ u[i] \in Range(s)
                           \/ /\ i > Len(s) /\ i - Len(s) \in 1..Len(t) /\ u[i] = t[i - Len(s)]
                              /\ u[i] \in Range(t)
  <2>. TAKE i \in 1..Len(u)
  <2>1. CASE i \in 1..Len(s)  BY <1>1, <2>1, SeqFacts
  <2>2. CASE i \notin 1..Len(s)
    <3>1. i > Len(s) /\ i - Len(s) \in 1..Len(t) /\ i = Len(s) + (i - Len(s))  BY <1>1, <1>2, <2>2
    <3>2. u[i] = t[i - Len(s)]  BY <1>1, <3>1
    <3>. QED  BY <3>1, <3>2, SeqFacts
  <2>. QED  BY <2>1, <2>2
<1>4. ASSUME OneId(s), OneId(t), Ids(s) \cap Ids(t) = {} PROVE OneId(u)
  <2>. SUFFICES ASSUME NEW i \in 1..Len(u), NEW j \in 1..Len(u), Id(u[i]) = Id(u[j]) PROVE i = j  BY DEF OneId
  <2>1. ~(u[i] \in Range(s) /\ u[j] \in Range(t)) /\ ~(u[i] \in Range(t) /\ u[j] \in Range(s))  BY <1>4 DEF Ids
  <2>2. CASE i \in 1..Len(s) /\ j \in 1..Len(s)
    <3>1. u[i] = s[i] /\ u[j] = s[j]  BY <1>1, <2>2
    <3>. QED  BY <1>4, <2>2, <3>1 DEF OneId
  <2>3. CASE i - Len(s) \in 1..Len(t) /\ j - Len(s) \in 1..Len(t)
    <3>1. u[i] = t[i - Len(s)] /\ u[j] = t[j - Len(s)]  BY <1>2, <1>3, <2>3
    <3>2. i - Len(s) = j - Len(s)  BY <1>4, <2>3, <3>1 DEF OneId
    <3>. QED  BY <1>2, <3>2
  <2>. QED  BY <1>3, <2>1, <2>2, <2>3
<1>5. ASSUME NEW a, NEW b, Before(u, a, b)
      PROVE  Before(s, a, b) \/ Before(t, a, b) \/ (a \in Range(s) /\ b \in Range(t))
  <2>1. PICK i \in 1..Len(u), j \in 1..Len(u) : i < j /\ u[i] = a /\ u[j] = b  BY <1>5 DEF Before
  <2>2. CASE i \in 1..Len(s) /\ j \in 1..Len(s)  BY <1>1, <2>1, <2>2 DEF Before
  <2>3. CASE i > Len(s) /\ i - Len(s) \in 1..Len(t) /\ j > Len(s) /\ j - Len(s) \in 1..Len(t)
    <3>1. t[i - Len(s)] = a /\ t[j - Len(s)] = b /\ i - Len(s) < j - Len(s)  BY <1>2, <1>3, <2>1, <2>3, SMTT(30)
    <3>. QED  BY <2>3, <3>1 DEF Before
  <2>4. CASE i \in 1..Len(s) /\ j > Len(s)  BY <1>2, <1>3, <2>1, <2>4
  <2>. QED  BY <1>2, <1>3, <2>1, <2>2, <2>3, <2>4
<1>6. Ids(u) = Ids(s) \cup Ids(t)  BY <1>1 DEF Ids
<1>. QED  BY <1>4, <1>5, <1>6 DEF u

LEMMA OneAlone == ASSUME NEW l PROVE OneId(<<l>>) /\ Ids(<<l>>) = {Id(l)} /\ \A a, b : ~Before(<<l>>, a, b)
<1>1. Range(<<l>>) = {l}  BY OneOf
<1>2. Len(<<l>>) = 1  OBVIOUS
<1>. QED  BY <1>1, <1>2 DEF Ids, OneId, Before

-----------------------------------------------------------------------------
(* A node is queued. *)
Queues(g, h, l) ==
    \/ Id(l) \in g.scheduled /\ h.queue = g.queue /\ h.scheduled = g.scheduled
    \/ Id(l) \notin g.scheduled /\ h.queue = g.queue \o <<l>> /\ h.scheduled = g.scheduled \cup {Id(l)}

\* Of the nodes at work, l has been queued at the end if it was not, and no other.
Follows(g, h, l) ==
    /\ Id(l) \in h.scheduled
    /\ \A m \in Active(g) : m # l => (Id(m) \in h.scheduled <=> Id(m) \in g.scheduled)
    /\ \A a, b : Before(h.queue, a, b) =>
         Before(g.queue, a, b) \/ (b = l /\ Id(l) \notin g.scheduled /\ a \in Range(g.queue))

\* An active node that is not scheduled is not queued, nor is another of its id.
LEMMA NotQueued ==
    ASSUME NEW g, Sound(g), Queued(g), NEW l \in Active(g), Id(l) \notin g.scheduled
    PROVE  Id(l) \notin Ids(g.queue) /\ l \notin Range(g.queue)
<1>. SUFFICES ASSUME NEW m \in Range(g.queue), Id(m) = Id(l) PROVE FALSE  BY DEF Ids
<1>1. CASE m \in Active(g)  BY <1>1 DEF Queued
<1>2. CASE m \notin Active(g)
  <2>1. m.kind \in {"place", "mpg"} /\ m.key \notin LiveKeys(g)  BY <1>2 DEF Queued
  <2>2. l.kind = m.kind /\ l.key = m.key  BY DEF Id
  <2>3. l # Breakdown  BY <2>1, <2>2, Fixed
  <2>4. PICK e \in Range(g.selectors) : l.key = e.key  BY <2>3, PipeIs DEF Active
  <2>. QED  BY <2>1, <2>2, <2>4 DEF LiveKeys
<1>. QED  BY <1>1, <1>2

LEMMA QueuesDoes ==
    ASSUME NEW g, Sound(g), Queued(g), NEW l \in Active(g), l \in DOMAIN g.memory \ {Persons}, NEW h, Queues(g, h, l),
           DOMAIN h.memory = DOMAIN g.memory, h.selectors = g.selectors
    PROVE  Queued(h) /\ Follows(g, h, l)
<1>1. Active(h) = Active(g) /\ LiveKeys(h) = LiveKeys(g)  BY DEF Active, Pipes, LiveKeys
<1>2. CASE Id(l) \in g.scheduled /\ h.queue = g.queue /\ h.scheduled = g.scheduled
  <2>1. Queued(h)  BY <1>1, <1>2 DEF Queued
  <2>. QED  BY <1>2, <2>1 DEF Follows
<1>3. CASE Id(l) \notin g.scheduled /\ h.queue = g.queue \o <<l>> /\ h.scheduled = g.scheduled \cup {Id(l)}
  <2>1. Id(l) \notin Ids(g.queue) /\ l \notin Range(g.queue)  BY <1>3, NotQueued
  <2>2. IsSeq(g.queue) /\ OneId(g.queue)  BY DEF Queued
  <2>3. IsSeq(<<l>>) /\ Range(<<l>>) = {l} /\ OneId(<<l>>) /\ Ids(<<l>>) = {Id(l)} /\ \A a, b : ~Before(<<l>>, a, b)
    BY OneOf, OneAlone
  <2>. DEFINE t == <<l>>
  <2>. HIDE DEF t
  <2>4. IsSeq(t) /\ Range(t) = {l} /\ OneId(t) /\ Ids(t) = {Id(l)} /\ \A a, b : ~Before(t, a, b)  BY <2>3 DEF t
  <2>5. h.queue = g.queue \o t  BY <1>3 DEF t
  <2>6. /\ IsSeq(h.queue) /\ Range(h.queue) = Range(g.queue) \cup {l}
        /\ OneId(h.queue) /\ Ids(h.queue) = Ids(g.queue) \cup {Id(l)}
        /\ \A a, b : Before(h.queue, a, b) => Before(g.queue, a, b) \/ (a \in Range(g.queue) /\ b = l)
    <3>1. IsSeq(g.queue \o t) /\ Range(g.queue \o t) = Range(g.queue) \cup {l}  BY <2>2, <2>4, JoinHolds
    <3>2. Ids(g.queue) \cap Ids(t) = {}  BY <2>1, <2>4
    <3>3. /\ OneId(g.queue \o t) /\ Ids(g.queue \o t) = Ids(g.queue) \cup {Id(l)}
          /\ \A a, b : Before(g.queue \o t, a, b) => Before(g.queue, a, b) \/ (a \in Range(g.queue) /\ b = l)
      BY <2>2, <2>4, <3>2, JoinOrder
    <3>. QED  BY <2>5, <3>1, <3>3
  <2>7. Queued(h)
    <3>1. Range(h.queue) \subseteq DOMAIN h.memory \ {Persons} /\ h.scheduled \subseteq Ids(h.queue)
      BY <1>3, <2>6 DEF Queued
    <3>2. \A n \in Active(h) : n \in Range(h.queue) => Id(n) \in h.scheduled
      BY <1>1, <1>3, <2>6 DEF Queued
    <3>3. \A n \in Range(h.queue) \ Active(h) : n.kind \in {"place", "mpg"} /\ n.key \notin LiveKeys(h)
      BY <1>1, <2>6 DEF Queued
    <3>. QED  BY <2>6, <3>1, <3>2, <3>3 DEF Queued
  <2>8. ASSUME NEW m \in Active(g), m # l PROVE Id(m) \in h.scheduled <=> Id(m) \in g.scheduled
    <3>1. Id(m) # Id(l)  BY <2>8, ActiveIds
    <3>. QED  BY <1>3, <3>1
  <2>. QED  BY <1>3, <2>6, <2>7, <2>8 DEF Follows
<1>. QED  BY <1>2, <1>3 DEF Queues

-----------------------------------------------------------------------------
(* The nodes of two pipelines, and those of one, are different. *)
Distinct(e) ==
    /\ HomeOf(e) \notin {RouteOf(e), MpgOf(e), e} /\ RouteOf(e) \notin {MpgOf(e), e} /\ MpgOf(e) # e
    /\ Circle(e) \cap {Persons, Breakdown, Idle} = {} /\ Breakdown # Idle

LEMMA FourApart ==
    ASSUME NEW g, Sound(g), NEW e \in Range(g.selectors)
    PROVE  Distinct(e)
<1>1. Piped(g, e)  BY PipedIs
<1>2. Idle.kind = "idle" /\ Breakdown.kind = "breakdown"  BY DEF Idle, Breakdown, Node
<1>3. \A n \in Circle(e) : n.kind \in {"place", "school", "route", "mpg", "entry"} /\ n \notin {Persons, Breakdown}
  BY <1>1 DEF Piped, Circle
<1>4. Circle(e) \cap {Persons, Breakdown, Idle} = {}  BY <1>2, <1>3
<1>5. HomeOf(e) \notin {RouteOf(e), MpgOf(e), e} /\ RouteOf(e) \notin {MpgOf(e), e} /\ MpgOf(e) # e
  BY <1>1 DEF Piped
<1>. QED  BY <1>2, <1>4, <1>5 DEF Distinct

LEMMA CirclesApart ==
    ASSUME NEW g, Sound(g), NEW d \in Range(g.selectors), NEW e \in Range(g.selectors), d # e
    PROVE  Circle(d) \cap Circle(e) = {}
<1>1. PICK last : EntriesStand(g, LiveKeys(g), last)  BY SoundIs
<1>2. d = Node(d.kind, d.key, d.born, d.car) /\ e = Node(e.kind, e.key, e.born, e.car)  BY <1>1, EntriesAre
<1>3. ASSUME NEW n \in Circle(d), n \in Circle(e) PROVE FALSE
  <2>1. n.key = d.key /\ n.key = e.key  BY <1>2, <1>3, CircleIs
  <2>. QED  BY <2>1, OneEntry
<1>. QED  BY <1>3

-----------------------------------------------------------------------------
(* What a step leaves of a pipeline none of whose nodes it stores. *)
Undisturbed(g, h, held, next, e) ==
    /\ \A m \in Circle(e) : /\ h.memory[m] = g.memory[m] /\ (next = m <=> held = m)
                            /\ Id(m) \in h.scheduled <=> Id(m) \in g.scheduled
    /\ \A a, b \in Circle(e) : Before(h.queue, a, b) => Before(g.queue, a, b)

LEMMA UndisturbedFits ==
    ASSUME NEW g, NEW h, Now(h) = Now(g), NEW held, NEW next, NEW e, Undisturbed(g, h, held, next, e), PipeFits(g, held, e)
    PROVE  PipeFits(h, next, e)
<1>. DEFINE C == {HomeOf(e), RouteOf(e), MpgOf(e), e}
<1>1. \A m \in C : /\ h.memory[m] = g.memory[m] /\ (next = m <=> held = m)
                   /\ Id(m) \in h.scheduled <=> Id(m) \in g.scheduled
                   /\ Free(h, next, m) <=> Free(g, held, m)
  BY DEF Undisturbed, Circle, Free
<1>2. \A a, b \in C : Before(h.queue, a, b) => Before(g.queue, a, b)  BY DEF Undisturbed, Circle
<1>3. Changes(h, e) <=> Changes(g, e)  BY <1>1 DEF Changes
<1>4. WillTell(h, next, e) <=> WillTell(g, held, e)  BY <1>1, <1>3 DEF WillTell
<1>5. EntryFits(h, next, e) <=> EntryFits(g, held, e)  BY <1>1, <1>4 DEF EntryFits
<1>6. RouteFits(e.key, h.memory[RouteOf(e)], h.memory[HomeOf(e)])  BY <1>1 DEF PipeFits
<1>7. EntryCurrent(e.key, h.memory[e], h.memory[RouteOf(e)], h.memory[MpgOf(e)]) => EntryFits(h, next, e)
  BY <1>1, <1>5 DEF PipeFits
<1>8. Settled(g, held, e) /\ InOrder(g, held, e)  BY DEF PipeFits
<1>9. Settled(h, next, e)
  <2>1. \A m \in C : HomeSettled(h, m) <=> HomeSettled(g, m)  BY <1>1 DEF HomeSettled
  <2>2. RouteSettled(h, e) <=> RouteSettled(g, e)  BY <1>1 DEF RouteSettled
  <2>. QED  BY <1>1, <1>5, <1>8, <2>1, <2>2 DEF Settled
<1>10. InOrder(h, next, e)
  <2>. HIDE DEF C
  <2>1. {HomeOf(e), RouteOf(e), MpgOf(e), e} \subseteq C  BY DEF C
  <2>. QED  BY <1>1, <1>2, <1>3, <1>8, <2>1 DEF InOrder
<1>. QED  BY <1>6, <1>7, <1>9, <1>10 DEF PipeFits

-----------------------------------------------------------------------------
(* A result is stored, and the node behind it is told unless the value is the same. *)
Same(g, n, row) == row.value = g.memory[n].value /\ row.value \notin Impossible
Still(g, h) == h.queue = g.queue /\ h.scheduled = g.scheduled
Stored(g, h, n, row, people) ==
    /\ Put(g, h, n, row, row) /\ IsRecord(row) /\ row.at = g.clock + 1 /\ Given(g, n, row.value, row.basis, people)
Tells1(g, h, n, row, l) == IF Same(g, n, row) THEN Still(g, h) ELSE Follows(g, h, l)

\* What any of them comes to, n being the one of the pipeline that is stored.
StoredAt(g, h, n, row, e) ==
    /\ h.memory[n] = row /\ row.at = g.clock + 1 /\ g.clock \in Nat
    /\ \A m \in Circle(e) : m # n => h.memory[m] = g.memory[m]
    /\ \A m \in Circle(e) : RecordOK(g.clock, m.kind, m.key, g.memory[m])
    /\ Idle \notin Circle(e) /\ Piped(g, e) /\ Distinct(e) /\ Now(h) = Now(g) /\ Circle(e) \subseteq Active(g)

LEMMA StoredIs ==
    ASSUME NEW g, Sound(g), Typed(g), NEW e \in Range(g.selectors), NEW n \in Circle(e), NEW h, NEW row, NEW people,
           Stored(g, h, n, row, people)
    PROVE  StoredAt(g, h, n, row, e)
<1>1. Piped(g, e) /\ Distinct(e)  BY PipedIs, FourApart
<1>2. Circle(e) \subseteq DOMAIN g.memory \ {Persons} /\ Circle(e) \subseteq Active(g)
  BY <1>1 DEF Piped, Circle, Active
<1>3. /\ h.memory[n] = row /\ Now(h) = Now(g) /\ \A m \in DOMAIN g.memory : m # n => h.memory[m] = g.memory[m]
  BY PutReads DEF Stored
<1>4. row.at = g.clock + 1 /\ g.clock \in Nat  BY DEF Stored, Typed
<1>5. \A m \in Circle(e) : RecordOK(g.clock, m.kind, m.key, g.memory[m])  BY <1>2 DEF Typed
<1>6. Idle \notin Circle(e)  BY <1>1 DEF Distinct
<1>. QED  BY <1>1, <1>2, <1>3, <1>4, <1>5, <1>6 DEF StoredAt

\* Which stamps a record of a pipeline's bears.
LEMMA Stamps ==
    ASSUME NEW clock, NEW kind, NEW key, NEW r, RecordOK(clock, kind, key, r), r.value # Pending
    PROVE  /\ kind \in {"place", "mpg"} => r.basis[Id(Persons)] \in 0..clock
           /\ kind = "route" => r.basis[HomeId(key)] \in 0..clock
           /\ kind = "entry" => r.basis[RouteId(key)] \in 0..clock /\ r.basis[MpgId(key)] \in 0..clock
           /\ kind = "breakdown" => r.basis[Id(Persons)] \in 0..clock
<1>1. \A i \in DOMAIN r.basis : r.basis[i] \in 0..clock  BY DEF RecordOK
<1>2. Sourced(kind, key, r.basis)  BY DEF RecordOK
<1>3. kind = "breakdown" => Id(Persons) \in DOMAIN r.basis  BY <1>2 DEF Sourced
<1>4. kind \in {"place", "mpg"} => Id(Persons) \in DOMAIN r.basis  BY <1>2 DEF Sourced, SourceIds
<1>5. kind = "route" => HomeId(key) \in DOMAIN r.basis  BY <1>2 DEF Sourced, SourceIds
<1>6. kind = "entry" => {RouteId(key), MpgId(key)} \subseteq DOMAIN r.basis  BY <1>2 DEF Sourced, SourceIds
<1>. QED  BY <1>1, <1>3, <1>4, <1>5, <1>6

LEMMA HomeStored ==
    ASSUME NEW g, Sound(g), Typed(g), Queued(g), NEW e \in Range(g.selectors), NEW h, NEW row, NEW people,
           PipeFits(g, HomeOf(e), e), Stored(g, h, HomeOf(e), row, people), Tells1(g, h, HomeOf(e), row, RouteOf(e))
    PROVE  PipeFits(h, Idle, e)
<1>. DEFINE H == HomeOf(e)
            R == RouteOf(e)
            M == MpgOf(e)
<1>. HIDE DEF H, R, M
<1>1. {H, R, M, e} = Circle(e)  BY DEF Circle, H, R, M
<1>2. StoredAt(g, h, H, row, e)  BY <1>1, StoredIs DEF H
<1>3. /\ h.memory[H] = row /\ row.at = g.clock + 1 /\ g.clock \in Nat
      /\ h.memory[R] = g.memory[R] /\ h.memory[M] = g.memory[M] /\ h.memory[e] = g.memory[e]
      /\ H \notin {R, M, e} /\ R \notin {M, e} /\ M # e /\ Idle \notin {H, R, M, e} /\ Now(h) = Now(g)
  BY <1>1, <1>2 DEF StoredAt, Distinct, H, R, M
<1>4. /\ H.key = e.key /\ R.key = e.key /\ H.kind \in {"place", "school"} /\ R.kind = "route"
      /\ {H, R, M, e} \subseteq Active(g)
  BY <1>1, <1>2 DEF StoredAt, Piped, H, R, M
<1>5. RouteFits(e.key, h.memory[R], h.memory[H])
  <2>1. RecordOK(g.clock, "route", e.key, g.memory[R])  BY <1>1, <1>2, <1>4 DEF StoredAt
  <2>2. g.memory[R].value # Pending => g.memory[R].basis[HomeId(e.key)] \in 0..g.clock  BY <2>1, Stamps
  <2>. QED  BY <1>3, <2>2 DEF RouteFits
<1>6. PipeFits(g, H, e)  BY DEF H
<1>7. EntryFits(g, H, e) => EntryOf(g.memory[e], g.memory[R], g.memory[M])
  <2>1. ~WillTell(g, H, e)  BY <1>3 DEF WillTell, Free, H, R
  <2>. QED  BY <2>1 DEF EntryFits, R, M
<1>8. EntryOf(g.memory[e], g.memory[R], g.memory[M]) => EntryFits(h, Idle, e)  BY <1>3 DEF EntryFits, R, M
<1>9. EntryCurrent(e.key, h.memory[e], h.memory[R], h.memory[M]) => EntryFits(h, Idle, e)
  BY <1>3, <1>6, <1>7, <1>8 DEF PipeFits, R, M
<1>10. /\ Id(H) \in h.scheduled <=> Id(H) \in g.scheduled
       /\ Id(M) \in h.scheduled <=> Id(M) \in g.scheduled
       /\ Id(e) \in h.scheduled <=> Id(e) \in g.scheduled
  BY <1>3, <1>4 DEF Tells1, Still, Follows, H, R
<1>11. Settled(h, Idle, e)
  <2>0. Settled(g, H, e)  BY <1>6 DEF PipeFits
  <2>1. ASSUME Free(h, Idle, H) PROVE HomeSettled(h, H)
    <3>1. Id(H) \notin g.scheduled  BY <1>10, <2>1 DEF Free
    <3>2. row.value # Pending /\ (H.kind # "school" => row.basis[Id(Persons)] = Now(g))
      BY <1>4, <3>1 DEF Stored, Given, H
    <3>. QED  BY <1>3, <3>2 DEF HomeSettled
  <2>2. ASSUME Free(h, Idle, M) PROVE HomeSettled(h, M)
    <3>1. Free(g, H, M)  BY <1>3, <1>10, <2>2 DEF Free
    <3>. QED  BY <1>3, <2>0, <3>1 DEF Settled, HomeSettled, M
  <2>3. ASSUME Free(h, Idle, R) PROVE RouteSettled(h, e)
    <3>1. Same(g, H, row) /\ Still(g, h)  BY <2>3 DEF Tells1, Follows, Free, H, R
    <3>2. Free(g, H, R)  BY <1>3, <2>3, <3>1 DEF Free, Still
    <3>. QED  BY <1>3, <2>0, <3>1, <3>2 DEF Settled, RouteSettled, Same, H, R
  <2>4. ASSUME Free(h, Idle, e) PROVE h.memory[e].value # Pending /\ EntryFits(h, Idle, e)
    <3>1. Free(g, H, e)  BY <1>3, <1>10, <2>4 DEF Free
    <3>. QED  BY <1>3, <1>7, <1>8, <2>0, <3>1 DEF Settled
  <2>. QED  BY <2>1, <2>2, <2>3, <2>4 DEF Settled, H, R, M
<1>12. InOrder(h, Idle, e)
  <2>0. InOrder(g, H, e)  BY <1>6 DEF PipeFits
  <2>1. \A a, b : Before(h.queue, a, b) =>
          Before(g.queue, a, b) \/ (b = R /\ ~Same(g, H, row) /\ Id(R) \notin g.scheduled /\ a \in Range(g.queue))
    BY DEF Tells1, Still, Follows, H, R
  <2>2. ~Before(h.queue, R, H) /\ ~Before(h.queue, e, M)  BY <1>3, <2>0, <2>1 DEF InOrder, H, R, M
  <2>3. ASSUME Before(h.queue, e, R) PROVE Free(h, Idle, H) /\ Changes(h, e)
    <3>1. ~Before(g.queue, e, R)  BY <2>0 DEF InOrder, Free, H, R
    <3>2. ~Same(g, H, row) /\ Id(R) \notin g.scheduled /\ e \in Range(g.queue)  BY <2>1, <2>3, <3>1
    <3>3. Id(e) \in g.scheduled  BY <1>4, <3>2 DEF Queued
    <3>4. Id(H) \notin g.scheduled  BY <2>0, <3>3 DEF InOrder, H
    <3>5. Free(h, Idle, H)  BY <1>3, <1>10, <3>4 DEF Free
    <3>6. g.memory[H].value # Pending /\ g.memory[R].value = ToRoute(g.memory[H].value)
      <4>1. Free(g, H, R)  BY <1>3, <3>2 DEF Free
      <4>. QED  BY <1>6, <4>1 DEF PipeFits, Settled, RouteSettled, H, R
    <3>7. row.value # Pending /\ ValueOK(H.kind, row.value)  BY DEF Stored, Given, H
    <3>8. ValueOK(H.kind, g.memory[H].value)  BY <1>1, <1>2 DEF StoredAt, RecordOK
    <3>9. g.memory[R].value # ToRoute(row.value) \/ g.memory[R].value \in Impossible
      <4>1. row.value = <<"gone">> \/ row.value = <<"at", row.value[2]>>  BY <1>4, <3>7 DEF ValueOK
      <4>2. g.memory[H].value = <<"gone">> \/ g.memory[H].value = <<"at", g.memory[H].value[2]>>
        BY <1>4, <3>6, <3>8 DEF ValueOK
      <4>3. g.memory[H].value # row.value \/ row.value = <<"gone">> \/ row.value = <<"impossible">>
        BY <3>2 DEF Same, Impossible
      <4>. QED  BY <3>6, <4>1, <4>2, <4>3 DEF ToRoute, Impossible
    <3>10. h.memory[H].at > h.memory[R].at
      <4>1. g.memory[R].at \in 0..g.clock  BY <1>1, <1>2 DEF StoredAt, RecordOK
      <4>. QED  BY <1>3, <4>1
    <3>. QED  BY <1>3, <3>5, <3>7, <3>9, <3>10 DEF Changes, H, R
  <2>. QED  BY <1>3, <2>2, <2>3 DEF InOrder, H, R, M
<1>. QED  BY <1>5, <1>9, <1>11, <1>12 DEF PipeFits, H, R, M

LEMMA MpgStored ==
    ASSUME NEW g, Sound(g), Typed(g), Queued(g), NEW e \in Range(g.selectors), NEW h, NEW row, NEW people,
           PipeFits(g, MpgOf(e), e), Stored(g, h, MpgOf(e), row, people), Tells1(g, h, MpgOf(e), row, e)
    PROVE  PipeFits(h, Idle, e)
<1>. DEFINE H == HomeOf(e)
            R == RouteOf(e)
            M == MpgOf(e)
<1>. HIDE DEF H, R, M
<1>1. {H, R, M, e} = Circle(e)  BY DEF Circle, H, R, M
<1>2. StoredAt(g, h, M, row, e)  BY <1>1, StoredIs DEF M
<1>3. /\ h.memory[M] = row /\ row.at = g.clock + 1 /\ g.clock \in Nat
      /\ h.memory[R] = g.memory[R] /\ h.memory[H] = g.memory[H] /\ h.memory[e] = g.memory[e]
      /\ H \notin {R, M, e} /\ R \notin {M, e} /\ M # e /\ Idle \notin {H, R, M, e} /\ Now(h) = Now(g)
  BY <1>1, <1>2 DEF StoredAt, Distinct, H, R, M
<1>4. /\ M.key = e.key /\ M.kind = "mpg" /\ e.kind = "entry" /\ {H, R, M, e} \subseteq Active(g)
  BY <1>1, <1>2 DEF StoredAt, Piped, H, R, M
<1>5. PipeFits(g, M, e) /\ Settled(g, M, e) /\ InOrder(g, M, e)  BY DEF PipeFits, M
<1>6. RouteFits(e.key, h.memory[R], h.memory[H])  BY <1>3, <1>5 DEF PipeFits, R, H
<1>7. ~EntryCurrent(e.key, h.memory[e], h.memory[R], h.memory[M])
  <2>1. RecordOK(g.clock, "entry", e.key, g.memory[e])  BY <1>1, <1>2, <1>4 DEF StoredAt
  <2>2. g.memory[e].value # Pending => g.memory[e].basis[MpgId(e.key)] \in 0..g.clock  BY <2>1, Stamps
  <2>. QED  BY <1>3, <2>2 DEF EntryCurrent
<1>8. /\ Id(H) \in h.scheduled <=> Id(H) \in g.scheduled
      /\ Id(M) \in h.scheduled <=> Id(M) \in g.scheduled
      /\ Id(R) \in h.scheduled <=> Id(R) \in g.scheduled
  BY <1>3, <1>4 DEF Tells1, Still, Follows, M
<1>9. Changes(h, e) <=> Changes(g, e)  BY <1>3 DEF Changes, H, R
<1>10. Settled(h, Idle, e)
  <2>1. ASSUME Free(h, Idle, H) PROVE HomeSettled(h, H)
    <3>1. Free(g, M, H)  BY <1>3, <1>8, <2>1 DEF Free
    <3>. QED  BY <1>3, <1>5, <3>1 DEF Settled, HomeSettled, H
  <2>2. ASSUME Free(h, Idle, M) PROVE HomeSettled(h, M)
    <3>1. Id(M) \notin g.scheduled  BY <1>8, <2>2 DEF Free
    <3>2. row.value # Pending /\ row.basis[Id(Persons)] = Now(g)
      BY <1>4, <3>1 DEF Stored, Given, M
    <3>. QED  BY <1>3, <3>2 DEF HomeSettled
  <2>3. ASSUME Free(h, Idle, R) PROVE RouteSettled(h, e)
    <3>1. Free(g, M, R)  BY <1>3, <1>8, <2>3 DEF Free
    <3>. QED  BY <1>3, <1>5, <3>1 DEF Settled, RouteSettled, H, R
  <2>4. ASSUME Free(h, Idle, e) PROVE h.memory[e].value # Pending /\ EntryFits(h, Idle, e)
    <3>1. Same(g, M, row) /\ Still(g, h)  BY <2>4 DEF Tells1, Follows, Free, M
    <3>2. Free(g, M, e)  BY <1>3, <2>4, <3>1 DEF Free, Still
    <3>3. g.memory[e].value # Pending /\ EntryFits(g, M, e)  BY <1>5, <3>2 DEF Settled
    <3>4. CASE EntryOf(g.memory[e], g.memory[R], g.memory[M])
      <4>1. EntryOf(h.memory[e], h.memory[R], h.memory[M])  BY <1>3, <3>1, <3>4 DEF Same, EntryOf
      <4>. QED  BY <1>3, <3>3, <4>1 DEF EntryFits, R, M
    <3>5. CASE WillTell(g, M, e)
      <4>1. Id(R) \in g.scheduled /\ Free(g, M, H) /\ Changes(g, e)  BY <1>3, <3>5 DEF WillTell, H, R
      <4>2. Free(h, Idle, H)  BY <1>3, <1>8, <4>1 DEF Free
      <4>3. WillTell(h, Idle, e)  BY <1>8, <1>9, <4>1, <4>2 DEF WillTell, H, R
      <4>. QED  BY <1>3, <3>3, <4>3 DEF EntryFits
    <3>. QED  BY <3>3, <3>4, <3>5 DEF EntryFits, R, M
  <2>. QED  BY <2>1, <2>2, <2>3, <2>4 DEF Settled, H, R, M
<1>11. InOrder(h, Idle, e)
  <2>1. \A a, b : Before(h.queue, a, b) => Before(g.queue, a, b) \/ b = e
    BY DEF Tells1, Still, Follows
  <2>2. ~Before(h.queue, R, H) /\ ~Before(h.queue, e, M)  BY <1>3, <1>5, <2>1 DEF InOrder, H, R, M
  <2>3. ASSUME Before(h.queue, e, R) PROVE Free(h, Idle, H) /\ Changes(h, e)
    <3>1. Free(g, M, H) /\ Changes(g, e)  BY <1>3, <1>5, <2>1, <2>3 DEF InOrder, H, R
    <3>. QED  BY <1>3, <1>8, <1>9, <3>1 DEF Free
  <2>. QED  BY <1>3, <2>2, <2>3 DEF InOrder, H, R, M
<1>. QED  BY <1>6, <1>7, <1>10, <1>11 DEF PipeFits, H, R, M

LEMMA RouteStored ==
    ASSUME NEW g, Sound(g), Typed(g), Queued(g), NEW e \in Range(g.selectors), NEW h, NEW row, NEW people,
           PipeFits(g, RouteOf(e), e), Stored(g, h, RouteOf(e), row, people), Tells1(g, h, RouteOf(e), row, e)
    PROVE  PipeFits(h, Idle, e)
<1>. DEFINE H == HomeOf(e)
            R == RouteOf(e)
            M == MpgOf(e)
<1>. HIDE DEF H, R, M
<1>1. {H, R, M, e} = Circle(e)  BY DEF Circle, H, R, M
<1>2. StoredAt(g, h, R, row, e)  BY <1>1, StoredIs DEF R
<1>3. /\ h.memory[R] = row /\ row.at = g.clock + 1 /\ g.clock \in Nat
      /\ h.memory[M] = g.memory[M] /\ h.memory[H] = g.memory[H] /\ h.memory[e] = g.memory[e]
      /\ H \notin {R, M, e} /\ R \notin {M, e} /\ M # e /\ Idle \notin {H, R, M, e} /\ Now(h) = Now(g)
  BY <1>1, <1>2 DEF StoredAt, Distinct, H, R, M
<1>4. /\ R.key = e.key /\ R.kind = "route" /\ e.kind = "entry" /\ {H, R, M, e} \subseteq Active(g)
  BY <1>1, <1>2 DEF StoredAt, Piped, H, R, M
<1>5. PipeFits(g, R, e) /\ Settled(g, R, e) /\ InOrder(g, R, e)  BY DEF PipeFits, R
<1>6. /\ g.memory[H].value # Pending /\ row.value # Pending
      /\ row.basis[HomeId(e.key)] = g.memory[H].at /\ row.value = ToRoute(g.memory[H].value)
  <2>1. \E d \in Range(g.selectors) : /\ R \in {HomeOf(d), RouteOf(d), MpgOf(d), d}
                                      /\ HomeOf(R) = HomeOf(d) /\ R.key = d.key
    <3>1. R \in Pipes(g)  BY <1>2 DEF StoredAt, Piped, R
    <3>. QED  BY <3>1, PipeIs
  <2>2. HomeOf(R) = H  BY <1>4, <2>1, OneEntry DEF H
  <2>3. RouteGiven(g, R, row.value, row.basis) /\ row.value # Pending  BY <1>4 DEF Stored, Given, R
  <2>. QED  BY <1>4, <2>2, <2>3 DEF RouteGiven
<1>7. RouteFits(e.key, h.memory[R], h.memory[H])  BY <1>3, <1>6 DEF RouteFits
<1>8. ~EntryCurrent(e.key, h.memory[e], h.memory[R], h.memory[M])
  <2>1. RecordOK(g.clock, "entry", e.key, g.memory[e])  BY <1>1, <1>2, <1>4 DEF StoredAt
  <2>2. g.memory[e].value # Pending => g.memory[e].basis[RouteId(e.key)] \in 0..g.clock  BY <2>1, Stamps
  <2>. QED  BY <1>3, <2>2 DEF EntryCurrent
<1>9. /\ Id(H) \in h.scheduled <=> Id(H) \in g.scheduled
      /\ Id(M) \in h.scheduled <=> Id(M) \in g.scheduled
      /\ Id(R) \in h.scheduled <=> Id(R) \in g.scheduled
  BY <1>3, <1>4 DEF Tells1, Still, Follows, R
<1>10. Settled(h, Idle, e)
  <2>1. ASSUME Free(h, Idle, H) PROVE HomeSettled(h, H)
    <3>1. Free(g, R, H)  BY <1>3, <1>9, <2>1 DEF Free
    <3>. QED  BY <1>3, <1>5, <3>1 DEF Settled, HomeSettled, H
  <2>2. ASSUME Free(h, Idle, M) PROVE HomeSettled(h, M)
    <3>1. Free(g, R, M)  BY <1>3, <1>9, <2>2 DEF Free
    <3>. QED  BY <1>3, <1>5, <3>1 DEF Settled, HomeSettled, M
  <2>3. RouteSettled(h, e)  BY <1>3, <1>6 DEF RouteSettled, H, R
  <2>4. ASSUME Free(h, Idle, e) PROVE h.memory[e].value # Pending /\ EntryFits(h, Idle, e)
    <3>1. Same(g, R, row) /\ Still(g, h)  BY <2>4 DEF Tells1, Follows, Free, R
    <3>2. Free(g, R, e)  BY <1>3, <2>4, <3>1 DEF Free, Still
    <3>3. g.memory[e].value # Pending /\ EntryFits(g, R, e)  BY <1>5, <3>2 DEF Settled
    <3>4. ~Changes(g, e)  BY <1>6, <3>1 DEF Changes, Same, H, R
    <3>5. EntryOf(g.memory[e], g.memory[R], g.memory[M])  BY <3>3, <3>4 DEF EntryFits, WillTell, R, M
    <3>6. EntryOf(h.memory[e], h.memory[R], h.memory[M])  BY <1>3, <3>1, <3>5 DEF Same, EntryOf
    <3>. QED  BY <1>3, <3>3, <3>6 DEF EntryFits, R, M
  <2>. QED  BY <2>1, <2>2, <2>3, <2>4 DEF Settled, H, R, M
<1>11. InOrder(h, Idle, e)
  <2>1. \A a, b : Before(h.queue, a, b) => Before(g.queue, a, b) \/ b = e
    BY DEF Tells1, Still, Follows
  <2>2. ~Before(h.queue, R, H) /\ ~Before(h.queue, e, M)  BY <1>3, <1>5, <2>1 DEF InOrder, H, R, M
  <2>3. ~Before(h.queue, e, R)
    <3>1. Id(R) \notin g.scheduled  BY <1>5 DEF InOrder, R
    <3>2. R \notin Range(g.queue)  BY <1>4, <3>1, NotQueued
    <3>3. ~Before(g.queue, e, R)
      <4>1. \A i \in 1..Len(g.queue) : g.queue[i] \in Range(g.queue)  BY SeqFacts DEF Queued
      <4>. QED  BY <3>2, <4>1 DEF Before
    <3>. QED  BY <1>3, <2>1, <3>3
  <2>. QED  BY <1>3, <2>2, <2>3 DEF InOrder, H, R, M
<1>. QED  BY <1>7, <1>8, <1>10, <1>11 DEF PipeFits, H, R, M

LEMMA EntryStored ==
    ASSUME NEW g, Sound(g), Typed(g), Queued(g), NEW e \in Range(g.selectors), NEW h, NEW row, NEW people,
           PipeFits(g, e, e), Stored(g, h, e, row, people), Tells1(g, h, e, row, Breakdown)
    PROVE  PipeFits(h, Idle, e)
<1>. DEFINE H == HomeOf(e)
            R == RouteOf(e)
            M == MpgOf(e)
<1>. HIDE DEF H, R, M
<1>1. {H, R, M, e} = Circle(e)  BY DEF Circle, H, R, M
<1>2. StoredAt(g, h, e, row, e)  BY <1>1, StoredIs
<1>3. /\ h.memory[e] = row /\ row.at = g.clock + 1 /\ g.clock \in Nat
      /\ h.memory[R] = g.memory[R] /\ h.memory[M] = g.memory[M] /\ h.memory[H] = g.memory[H]
      /\ H \notin {R, M, e} /\ R \notin {M, e} /\ M # e /\ Idle \notin {H, R, M, e} /\ Now(h) = Now(g)
      /\ Breakdown \notin {H, R, M, e}
  BY <1>1, <1>2 DEF StoredAt, Distinct, H, R, M
<1>4. /\ e.kind = "entry" /\ {H, R, M, e} \subseteq Active(g)
  BY <1>1, <1>2 DEF StoredAt, Piped, H, R, M
<1>5. PipeFits(g, e, e) /\ Settled(g, e, e) /\ InOrder(g, e, e)  BY DEF PipeFits
<1>6. RouteFits(e.key, h.memory[R], h.memory[H])  BY <1>3, <1>5 DEF PipeFits, R, H
<1>7. row.value # Pending /\ EntryOf(row, g.memory[R], g.memory[M])
  <2>1. row.value # Pending /\ EntryGiven(g, e, row.value, row.basis)  BY <1>4 DEF Stored, Given
  <2>. QED  BY <2>1 DEF EntryGiven, EntryOf, R, M
<1>8. EntryFits(h, Idle, e)  BY <1>3, <1>7 DEF EntryFits, R, M
<1>9. \A m \in {H, R, M, e} : Id(m) \in h.scheduled <=> Id(m) \in g.scheduled
  BY <1>3, <1>4 DEF Tells1, Still, Follows
<1>10. Settled(h, Idle, e)
  <2>1. ASSUME Free(h, Idle, H) PROVE HomeSettled(h, H)
    <3>1. Free(g, e, H)  BY <1>3, <1>9, <2>1 DEF Free
    <3>. QED  BY <1>3, <1>5, <3>1 DEF Settled, HomeSettled, H
  <2>2. ASSUME Free(h, Idle, M) PROVE HomeSettled(h, M)
    <3>1. Free(g, e, M)  BY <1>3, <1>9, <2>2 DEF Free
    <3>. QED  BY <1>3, <1>5, <3>1 DEF Settled, HomeSettled, M
  <2>3. ASSUME Free(h, Idle, R) PROVE RouteSettled(h, e)
    <3>1. Free(g, e, R)  BY <1>3, <1>9, <2>3 DEF Free
    <3>. QED  BY <1>3, <1>5, <3>1 DEF Settled, RouteSettled, H, R
  <2>. QED  BY <1>3, <1>7, <1>8, <2>1, <2>2, <2>3 DEF Settled, H, R, M
<1>11. InOrder(h, Idle, e)
  <2>1. \A a, b : Before(h.queue, a, b) => Before(g.queue, a, b) \/ b = Breakdown
    BY DEF Tells1, Still, Follows
  <2>2. ~Before(h.queue, R, H) /\ ~Before(h.queue, e, M)  BY <1>3, <1>5, <2>1 DEF InOrder, H, R, M
  <2>3. ASSUME Before(h.queue, e, R) PROVE Free(h, Idle, H) /\ Changes(h, e)
    <3>1. Free(g, e, H) /\ Changes(g, e)  BY <1>3, <1>5, <2>1, <2>3 DEF InOrder, H, R
    <3>2. Changes(h, e)  BY <1>3, <3>1 DEF Changes, H, R
    <3>. QED  BY <1>3, <1>9, <3>1, <3>2 DEF Free
  <2>. QED  BY <1>3, <2>2, <2>3 DEF InOrder, H, R, M
<1>. QED  BY <1>6, <1>8, <1>10, <1>11 DEF PipeFits, H, R, M

-----------------------------------------------------------------------------
(* The breakdown. *)
SumsAlike(g, h) ==
    /\ h.selectors = g.selectors /\ \A e \in Range(g.selectors) : h.memory[e].value = g.memory[e].value
    /\ Id(Breakdown) \in DOMAIN g.rows => Id(Breakdown) \in DOMAIN h.rows /\ h.rows[Id(Breakdown)] = g.rows[Id(Breakdown)]

LEMMA SumFitsAlike ==
    ASSUME NEW g, NEW h, SumsAlike(g, h), NEW v, SumFits(g, v)
    PROVE  SumFits(h, v)
<1>1. /\ h.selectors = g.selectors /\ \A e \in Range(g.selectors) : h.memory[e].value = g.memory[e].value
      /\ LiveKeys(h) = LiveKeys(g)
  BY DEF SumsAlike, LiveKeys
<1>2. CASE Id(Breakdown) \in DOMAIN g.rows /\ g.rows[Id(Breakdown)].value = Pending
  BY <1>2 DEF SumsAlike, SumFits
<1>3. CASE \E e \in Range(g.selectors) : g.memory[e].value = Pending  BY <1>1, <1>3 DEF SumFits
<1>4. CASE SumOf(g, v)
  <2>1. SumOf(h, v)  BY <1>1, <1>4 DEF SumOf
  <2>. QED  BY <2>1 DEF SumFits
<1>. QED  BY <1>2, <1>3, <1>4 DEF SumFits

LEMMA SelectorsAre ==
    ASSUME NEW g, Sound(g), NEW e \in Range(g.selectors)
    PROVE  /\ e \in Active(g) /\ e \in DOMAIN g.memory \ {Persons} /\ e # Breakdown /\ Id(e) # Id(Breakdown)
           /\ e.key \in LiveKeys(g) /\ Id(e) = EntryId(e.key) /\ e.kind = "entry" /\ Followers(g, e) = {Breakdown}
<1>1. Piped(g, e)  BY PipedIs
<1>2. Followers(g, e) = {Breakdown}  BY <1>1 DEF Piped, Followers
<1>3. Id(e) # Id(Breakdown)  BY <1>1, Fixed DEF Piped, EntryId
<1>. QED  BY <1>1, <1>2, <1>3 DEF Piped, Active

LEMMA StoredSums ==
    ASSUME NEW g, Sound(g), Typed(g), NEW n, SumStands(g, n), NEW h, NEW row, NEW people, Stored(g, h, n, row, people),
           Id(Breakdown) \in g.scheduled => Id(Breakdown) \in h.scheduled,
           n \in Range(g.selectors) => Id(Breakdown) \in h.scheduled \/ Same(g, n, row)
    PROVE  SumStands(h, Idle)
<1>1. /\ h.memory[n] = row /\ n \in DOMAIN g.memory \ {Persons}
      /\ \A m \in DOMAIN g.memory : m # n => h.memory[m] = g.memory[m]
      /\ DOMAIN h.rows = DOMAIN g.rows \cup {Id(n)}
      /\ \A i \in DOMAIN g.rows : i # Id(n) => h.rows[i] = g.rows[i]
      /\ Now(h) = Now(g) /\ LiveKeys(h) = LiveKeys(g) /\ h.selectors = g.selectors
  BY PutReads DEF Stored
<1>2. row.at = g.clock + 1 /\ g.clock \in Nat /\ row.value # Pending  BY DEF Stored, Typed, Given
<1>3. \A e \in Range(g.selectors) : /\ e \in DOMAIN g.memory \ {Persons} /\ e # Breakdown /\ Id(e) # Id(Breakdown)
                                    /\ e.key \in LiveKeys(g) /\ Id(e) = EntryId(e.key)
  BY SelectorsAre
<1>4. Breakdown \in DOMAIN g.memory \ {Persons} /\ Breakdown # Idle
  BY SoundIs, Fixed DEF Idle, Breakdown, Node
<1>5. RecordOK(g.clock, "breakdown", Breakdown.key, g.memory[Breakdown])  BY <1>4, Fixed DEF Typed
<1>6. CASE n = Breakdown
  <2>1. n \notin Range(g.selectors)  BY <1>3, <1>6
  <2>2. \A e \in Range(g.selectors) : h.memory[e] = g.memory[e]  BY <1>1, <1>3, <1>6
  <2>3. SumOf(g, row.value) => SumFits(h, row.value)
    <3>1. SumOf(g, row.value) => SumOf(h, row.value)  BY <1>1, <2>2 DEF SumOf
    <3>. QED  BY <3>1 DEF SumFits
  <2>4. CASE Id(Breakdown) \in g.scheduled
    <3>1. row.basis[Id(Persons)] # Now(g)  BY <1>6, <2>4 DEF Stored, Given
    <3>. QED  BY <1>1, <1>6, <2>4, <3>1 DEF SumStands, SumCurrent, Free
  <2>5. CASE Id(Breakdown) \notin g.scheduled
    <3>1. SumGiven(g, row.value, row.basis)  BY <1>6, <2>5 DEF Stored, Given
    <3>2. DOMAIN row.basis = SumIds(LiveKeys(g)) /\ SumFits(h, row.value)  BY <2>3, <3>1 DEF SumGiven
    <3>. QED  BY <1>1, <1>2, <1>6, <3>2 DEF SumStands, SumCurrent, SumSettled
  <2>. QED  BY <2>4, <2>5
<1>7. CASE n # Breakdown
  <2>1. h.memory[Breakdown] = g.memory[Breakdown]  BY <1>1, <1>4, <1>7
  <2>2. Id(n) # Id(Breakdown)
    <3>1. n.kind # "breakdown"  BY <1>1, <1>7, PartIs DEF HomeKind
    <3>. QED  BY <3>1, Fixed DEF Id
  <2>3. (\A e \in Range(g.selectors) : h.memory[e].value = g.memory[e].value) => SumsAlike(g, h)
    BY <1>1, <2>2 DEF SumsAlike
  <2>4. SumCurrent(h)
    <3>. DEFINE r == g.memory[Breakdown]
    <3>. HIDE DEF r
    <3>1. r = g.memory[Breakdown] /\ h.memory[Breakdown] = r  BY <2>1 DEF r
    <3>2. SUFFICES ASSUME r.value # Pending, r.basis[Id(Persons)] = Now(g)
                   PROVE  /\ DOMAIN r.basis = SumIds(LiveKeys(g))
                          /\ (\A e \in Range(g.selectors) : h.memory[e].at = r.basis[Id(e)]) => SumFits(h, r.value)
      BY <1>1, <3>1 DEF SumCurrent
    <3>3. /\ DOMAIN r.basis = SumIds(LiveKeys(g))
          /\ (\A e \in Range(g.selectors) : g.memory[e].at = r.basis[Id(e)]) => SumFits(g, r.value)
      BY <3>1, <3>2 DEF SumStands, SumCurrent
    <3>4. CASE n \in Range(g.selectors)
      <4>1. Id(n) \in DOMAIN r.basis  BY <1>3, <3>3, <3>4 DEF SumIds
      <4>2. r.basis[Id(n)] \in 0..g.clock  BY <1>5, <3>1, <4>1 DEF RecordOK
      <4>3. h.memory[n].at # r.basis[Id(n)]  BY <1>1, <1>2, <4>2
      <4>. QED  BY <3>3, <3>4, <4>3
    <3>5. CASE n \notin Range(g.selectors)
      <4>1. \A e \in Range(g.selectors) : h.memory[e] = g.memory[e]  BY <1>1, <1>3, <3>5
      <4>2. SumsAlike(g, h)  BY <2>3, <4>1
      <4>3. SumFits(g, r.value) => SumFits(h, r.value)  BY <4>2, SumFitsAlike
      <4>. QED  BY <3>3, <4>1, <4>3
    <3>. QED  BY <3>4, <3>5
  <2>5. ASSUME Free(h, Idle, Breakdown) PROVE SumSettled(h)
    <3>1. Free(g, n, Breakdown)  BY <1>7, <2>5 DEF Free
    <3>2. g.memory[Breakdown].value # Pending /\ SumFits(g, g.memory[Breakdown].value)
      BY <3>1 DEF SumStands, SumSettled
    <3>3. n \in Range(g.selectors) => row.value = g.memory[n].value  BY <2>5 DEF Free, Same
    <3>4. ASSUME NEW e \in Range(g.selectors) PROVE h.memory[e].value = g.memory[e].value
      BY <1>1, <1>3, <3>3
    <3>5. SumsAlike(g, h)  BY <2>3, <3>4
    <3>. QED  BY <2>1, <3>2, <3>5, SumFitsAlike DEF SumSettled
  <2>. QED  BY <2>4, <2>5 DEF SumStands
<1>. QED  BY <1>6, <1>7

-----------------------------------------------------------------------------
(* A result that is stored leaves the invariant. *)
Spread(g, h, n, row) ==
    \/ (Followers(g, n) = {} \/ Same(g, n, row)) /\ Still(g, h)
    \/ \E l \in Active(g) : l \in DOMAIN g.memory \ {Persons} /\ Followers(g, n) = {l} /\ ~Same(g, n, row) /\ Queues(g, h, l)

LEMMA StoredOK ==
    ASSUME NEW g, Typed(g), NEW h, NEW n, NEW row, NEW people, Stored(g, h, n, row, people)
    PROVE  PutOK(g, n, row, row, people)
<1>1. /\ IsRecord(row) /\ row.at = g.clock + 1 /\ g.clock \in Nat
      /\ row.value # Pending /\ ValueOK(n.kind, row.value)
      /\ Sourced(n.kind, n.key, row.basis) /\ \A i \in DOMAIN row.basis : row.basis[i] \in 0..g.clock
  BY DEF Stored, Typed, Given
<1>2. \A i \in DOMAIN row.basis : row.basis[i] \in 0..(g.clock + 1)
  <2>. TAKE i \in DOMAIN row.basis
  <2>1. row.basis[i] \in 0..g.clock  BY <1>1
  <2>. QED  BY <1>1, <2>1
<1>3. row.at \in 0..(g.clock + 1) /\ row.at > 0  BY <1>1
<1>4. RecordOK(g.clock + 1, n.kind, n.key, row)  BY <1>1, <1>2, <1>3 DEF RecordOK
<1>5. ToldOK(people, Now(g), n.kind, n.key, row)  BY DEF ToldOK, Stored, Given
<1>6. n.kind = "route" => RouteGiven(g, n, row.value, row.basis)  BY DEF Stored, Given
<1>7. n.kind = "entry" => EntryGiven(g, n, row.value, row.basis)  BY DEF Stored, Given
<1>8. n = Breakdown /\ row.basis[Id(Persons)] = Now(g) => SumGiven(g, row.value, row.basis)  BY DEF Stored, Given
<1>. QED  BY <1>1, <1>4, <1>5, <1>6, <1>7, <1>8 DEF PutOK

LEMMA StoredMain ==
    ASSUME NEW g, Sound(g), NEW n, NEW people, Main(g, n, people), NEW h, NEW row, Stored(g, h, n, row, people),
           Spread(g, h, n, row)
    PROVE  Main(h, Idle, people)
<1>1. PutOK(g, n, row, row, people) /\ Put(g, h, n, row, row)  BY StoredOK DEF Main, Stored
<1>2. Typed(h) /\ Backed(h)  BY <1>1, PutTyped DEF Main
<1>3. RowsTold(h, people) /\ MemoryTold(h, people)  BY <1>1, PutTold DEF Main
<1>4. RowsLinked(h)  BY <1>1, PutLinked DEF Main
<1>5. RowsSummed(h)  BY <1>1, PutSummed DEF Main
<1>6. /\ DOMAIN h.memory = DOMAIN g.memory /\ h.selectors = g.selectors /\ Active(h) = Active(g)
      /\ LiveKeys(h) = LiveKeys(g) /\ n \in DOMAIN g.memory \ {Persons} /\ Now(h) = Now(g)
      /\ \A m \in DOMAIN g.memory : m # n => h.memory[m] = g.memory[m]
  BY <1>1, PutReads
<1>7. Typed(g) /\ Queued(g) /\ PipesFit(g, n) /\ SumStands(g, n)  BY DEF Main
<1>8. \/ (Followers(g, n) = {} \/ Same(g, n, row)) /\ Still(g, h)
      \/ \E l \in Active(g) : l \in DOMAIN g.memory \ {Persons} /\ Followers(g, n) = {l} /\ ~Same(g, n, row)
                              /\ Queued(h) /\ Follows(g, h, l)
  BY <1>6, <1>7, QueuesDoes DEF Spread
<1>9. Still(g, h) => Queued(h)  BY <1>6, <1>7 DEF Still, Queued
<1>10. Queued(h)  BY <1>8, <1>9
<1>11. ASSUME NEW e \in Range(h.selectors) PROVE PipeFits(h, Idle, e)
  <2>1. e \in Range(g.selectors) /\ PipeFits(g, n, e)  BY <1>6, <1>7, <1>11 DEF PipesFit
  <2>2. Piped(g, e) /\ Distinct(e)  BY <2>1, PipedIs, FourApart
  <2>3. CASE n \in Circle(e)
    <3>1. Circle(e) \subseteq Pipes(g) /\ n \in Pipes(g)  BY <2>2, <2>3 DEF Piped, Circle
    <3>2. PICK d \in Range(g.selectors) : RouteOf(n) = RouteOf(d) /\ Sibling(n, "entry") = d /\ n.key = d.key
      BY <3>1, PipeIs
    <3>3. n.key = e.key  BY <2>2, <2>3 DEF Piped, Circle
    <3>4. d = e  BY <2>1, <3>2, <3>3, OneEntry
    <3>5. CASE n = HomeOf(e)
      <4>1. Followers(g, n) = {RouteOf(e)}  BY <2>2, <3>1, <3>2, <3>4, <3>5 DEF Followers, Piped
      <4>2. Tells1(g, h, n, row, RouteOf(e))  BY <1>8, <4>1 DEF Tells1
      <4>. QED  BY <1>7, <2>1, <3>5, <4>2, HomeStored
    <3>6. CASE n = MpgOf(e)
      <4>1. Followers(g, n) = {e}  BY <2>2, <3>1, <3>2, <3>4, <3>6 DEF Followers, Piped
      <4>2. Tells1(g, h, n, row, e)  BY <1>8, <4>1 DEF Tells1
      <4>. QED  BY <1>7, <2>1, <3>6, <4>2, MpgStored
    <3>7. CASE n = RouteOf(e)
      <4>1. Followers(g, n) = {e}  BY <2>2, <3>1, <3>2, <3>4, <3>7 DEF Followers, Piped
      <4>2. Tells1(g, h, n, row, e)  BY <1>8, <4>1 DEF Tells1
      <4>. QED  BY <1>7, <2>1, <3>7, <4>2, RouteStored
    <3>8. CASE n = e
      <4>1. Followers(g, n) = {Breakdown}  BY <2>1, <3>8, SelectorsAre
      <4>2. Tells1(g, h, n, row, Breakdown)  BY <1>8, <4>1 DEF Tells1
      <4>. QED  BY <1>7, <2>1, <3>8, <4>2, EntryStored
    <3>. QED  BY <2>3, <3>5, <3>6, <3>7, <3>8 DEF Circle
  <2>4. CASE n \notin Circle(e)
    <3>1. Circle(e) \subseteq Active(g) /\ Circle(e) \subseteq DOMAIN g.memory /\ Idle \notin Circle(e)
      BY <2>2 DEF Piped, Circle, Active, Distinct
    <3>2. \A l : l \in Followers(g, n) => l \notin Circle(e)
      <4>1. CASE n \notin Pipes(g)  BY <4>1 DEF Followers
      <4>2. CASE n \in Pipes(g)
        <5>1. PICK d \in Range(g.selectors) :
                   n \in {HomeOf(d), RouteOf(d), MpgOf(d), d} /\ RouteOf(n) = RouteOf(d) /\ Sibling(n, "entry") = d
          BY <4>2, PipeIs
        <5>2. d # e /\ n \in Circle(d) /\ {RouteOf(d), d} \subseteq Circle(d)  BY <2>4, <5>1 DEF Circle
        <5>3. Circle(d) \cap Circle(e) = {}  BY <2>1, <5>2, CirclesApart
        <5>4. Followers(g, n) \subseteq {RouteOf(d), d, Breakdown}  BY <4>2, <5>1 DEF Followers
        <5>5. Breakdown \notin Circle(e)  BY <2>2 DEF Distinct
        <5>. QED  BY <5>2, <5>3, <5>4, <5>5
      <4>. QED  BY <4>1, <4>2
    <3>3. \A m \in Circle(e) : Id(m) \in h.scheduled <=> Id(m) \in g.scheduled
      BY <1>8, <3>1, <3>2 DEF Still, Follows
    <3>4. \A a, b \in Circle(e) : Before(h.queue, a, b) => Before(g.queue, a, b)
      BY <1>8, <3>2 DEF Still, Follows
    <3>5. \A m \in Circle(e) : h.memory[m] = g.memory[m] /\ m # n /\ m # Idle  BY <1>6, <2>4, <3>1
    <3>6. Undisturbed(g, h, n, Idle, e)  BY <3>3, <3>4, <3>5 DEF Undisturbed
    <3>. QED  BY <1>6, <2>1, <3>6, UndisturbedFits
  <2>. QED  BY <2>3, <2>4
<1>12. SumStands(h, Idle)
  <2>1. Breakdown \in Active(g)  BY DEF Active
  <2>2. Id(Breakdown) \in g.scheduled => Id(Breakdown) \in h.scheduled
    BY <1>8, <2>1 DEF Still, Follows
  <2>3. ASSUME n \in Range(g.selectors) PROVE Id(Breakdown) \in h.scheduled \/ Same(g, n, row)
    <3>1. Followers(g, n) = {Breakdown}  BY <2>3, SelectorsAre
    <3>. QED  BY <1>8, <3>1 DEF Follows
  <2>. QED  BY <1>7, <2>2, <2>3, StoredSums
<1>. QED  BY <1>2, <1>3, <1>4, <1>5, <1>10, <1>11, <1>12 DEF Main, PipesFit

-----------------------------------------------------------------------------
(* The steps of the processor as records put and nodes told. *)
LEMMA AmongOne ==
    ASSUME NEW x, NEW T
    PROVE  /\ x \in T => Among(<<x>>, T) = <<x>>
           /\ x \notin T => Among(<<x>>, T) = <<>>
<1>. DEFINE s == <<x>>
            t == Among(s, T)
<1>1. IsSeq(s) /\ Range(s) = {x} /\ Len(s) = 1  BY OneOf
<1>2. PICK pick : Keeps(s, T, t, pick)  BY <1>1, AmongKeeps
<1>. HIDE DEF s, t
<1>3. IsSeq(t) /\ Range(t) = {x} \cap T  BY <1>1, <1>2 DEF Keeps
<1>4. Len(t) \in Nat /\ DOMAIN t = 1..Len(t) /\ \A i \in 1..Len(t) : t[i] \in Range(t)  BY <1>3, SeqFacts
<1>5. Len(t) <= 1
  <2>1. SUFFICES ASSUME Len(t) >= 2 PROVE FALSE  BY <1>4
  <2>2. 1 \in 1..Len(t) /\ 2 \in 1..Len(t)  BY <1>4, <2>1
  <2>3. pick[1] \in 1..1 /\ pick[2] \in 1..1 /\ pick[1] < pick[2]  BY <1>1, <1>2, <2>2 DEF Keeps
  <2>. QED  BY <2>3
<1>6. t \in Seq(Range(t))  BY <1>3 DEF IsSeq
<1>7. ASSUME x \in T PROVE t = <<x>>
  <2>1. PICK i \in 1..Len(t) : t[i] = x  BY <1>3, <1>7, SeqFacts
  <2>2. Len(t) = 1 /\ t[1] = x  BY <1>4, <1>5, <2>1
  <2>. QED  BY <1>6, <2>2
<1>8. ASSUME x \notin T PROVE t = <<>>
  <2>1. Range(t) = {}  BY <1>3, <1>8
  <2>2. Len(t) = 0
    <3>1. SUFFICES ASSUME Len(t) = 1 PROVE FALSE  BY <1>4, <1>5
    <3>2. t[1] \in Range(t)  BY <1>4, <3>1
    <3>. QED  BY <2>1, <3>2
  <2>. QED  BY <1>6, <2>2
<1>. QED  BY <1>7, <1>8 DEF s, t

LEMMA UnmovedSound == ASSUME NEW g, Sound(g), NEW h, Unmoved(g, h) PROVE Sound(h)
BY RequeuedStands DEF Sound, Unmoved

\* A node that another tells reads it.
LEMMA FollowersRead ==
    ASSUME NEW g, Sound(g), NEW n, NEW l \in Followers(g, n)
    PROVE  n \in Inputs(g, l)
<1>1. n \in Pipes(g)  BY DEF Followers
<1>2. PICK e \in Range(g.selectors) :
           n \in {HomeOf(e), RouteOf(e), MpgOf(e), e} /\ RouteOf(n) = RouteOf(e) /\ Sibling(n, "entry") = e
  BY <1>1, PipeIs
<1>3. Piped(g, e)  BY PipedIs
<1>4. CASE n = HomeOf(e)
  <2>1. l = RouteOf(e)  BY <1>2, <1>3, <1>4 DEF Followers, Piped
  <2>. QED  BY <1>4, <2>1, ReadsAre
<1>5. CASE n \in {RouteOf(e), MpgOf(e)}
  <2>1. l = e  BY <1>2, <1>3, <1>5 DEF Followers, Piped
  <2>. QED  BY <1>5, <2>1, ReadsAre
<1>6. CASE n = e
  <2>1. l = Breakdown  BY <1>3, <1>6 DEF Followers, Piped
  <2>. QED  BY <1>6, <2>1, SumReads
<1>. QED  BY <1>2, <1>4, <1>5, <1>6

\* A node that is told is queued, as what it reads is newer than it is.
LEMMA ToldQueues ==
    ASSUME NEW s, IsGraph(s), IsSeq(s.queue), NEW l, IsStale(s, l)
    PROVE  Queues(s, Notify(s, <<l>>), l)
<1>1. Range(<<l>>) = {l}  BY OneOf
<1>2. Among(<<l>>, {n \in Range(<<l>>) : IsStale(s, n)}) = <<l>>  BY <1>1, AmongOne
<1>3. Notify(s, <<l>>) = Schedule(s, <<l>>)  BY <1>2 DEF Notify
<1>. DEFINE h == Schedule(s, <<l>>)
            due == Due(s, <<l>>)
<1>4. h.queue = s.queue \o due /\ h.scheduled = s.scheduled \cup Ids(due)  BY ScheduleDoes
<1>5. CASE Id(l) \notin s.scheduled
  <2>1. due = <<l>>  BY <1>1, <1>5, AmongOne DEF Due
  <2>. HIDE DEF h, due
  <2>2. Ids(due) = {Id(l)}  BY <1>1, <2>1 DEF Ids
  <2>. QED  BY <1>3, <1>4, <1>5, <2>1, <2>2 DEF Queues, h
<1>6. CASE Id(l) \in s.scheduled
  <2>1. due = <<>>  BY <1>1, <1>6, AmongOne DEF Due
  <2>2. s.queue \o <<>> = s.queue  BY DEF IsSeq
  <2>3. Ids(<<>>) = {}  BY DEF Ids, Range
  <2>. HIDE DEF h, due
  <2>. QED  BY <1>3, <1>4, <1>6, <2>1, <2>2, <2>3 DEF Queues, h
<1>. QED  BY <1>5, <1>6

LEMMA NothingAmong == ASSUME NEW T PROVE Among(<<>>, T) = <<>>
<1>. DEFINE t == Among(<<>>, T)
<1>1. IsSeq(<<>>) /\ Range(<<>>) = {}
  <2>1. Range(<<>>) = {}  BY DEF Range
  <2>2. <<>> \in Seq({})  OBVIOUS
  <2>. QED  BY <2>1, <2>2 DEF IsSeq
<1>2. IsSeq(t) /\ Range(t) = {}  BY <1>1, AmongHolds
<1>. HIDE DEF t
<1>3. t \in Seq({}) /\ Len(t) \in Nat /\ \A i \in 1..Len(t) : t[i] \in Range(t)  BY <1>2, SeqFacts DEF IsSeq
<1>4. Len(t) = 0
  <2>1. SUFFICES ASSUME Len(t) >= 1 PROVE FALSE  BY <1>3
  <2>2. t[1] \in {}  BY <1>2, <1>3, <2>1
  <2>. QED  BY <2>2
<1>5. t = <<>>  BY <1>3, <1>4
<1>. QED  BY <1>5 DEF t

LEMMA ToldNobody ==
    ASSUME NEW s, IsGraph(s), IsSeq(s.queue)
    PROVE  Still(s, Notify(s, <<>>))
<1>. DEFINE T == {n \in Range(<<>>) : IsStale(s, n)}
            U == {n \in Range(<<>>) : Id(n) \notin s.scheduled}
            h == Schedule(s, <<>>)
            due == Due(s, <<>>)
<1>1. Notify(s, <<>>) = Schedule(s, Among(<<>>, T))  BY DEF Notify
<1>2. due = Among(<<>>, U)  BY DEF Due
<1>3. h.queue = s.queue \o due /\ h.scheduled = s.scheduled \cup Ids(due)  BY ScheduleDoes
<1>. HIDE DEF T, U, due, h
<1>4. Notify(s, <<>>) = h /\ due = <<>>  BY <1>1, <1>2, NothingAmong DEF h
<1>5. s.queue \o <<>> = s.queue  BY DEF IsSeq
<1>6. Ids(<<>>) = {}  BY DEF Ids, Range
<1>. QED  BY <1>3, <1>4, <1>5, <1>6 DEF Still

LEMMA CompleteStores ==
    ASSUME NEW g, Sound(g), Typed(g), Queued(g), NEW n, NEW value, NEW basis, NEW people,
           Given(g, n, value, basis, people), ~(value = g.memory[n].value /\ value \notin Impossible)
    PROVE  \E row : /\ Stored(g, Complete(g, n, value, basis), n, row, people)
                    /\ Spread(g, Complete(g, n, value, basis), n, row)
<1>. DEFINE r == [value |-> value, at |-> 0, basis |-> basis]
            row == Stamped(g, r)
            s == Store(g, n, r)
            ls == Listeners(g, n)
            h == Notify(s, ls)
<1>1. h = Complete(g, n, value, basis)  BY DEF Complete
<1>2. IsGraph(g) /\ g.clock \in Nat /\ n \in DOMAIN g.memory \ {Persons}  BY SoundIs DEF Typed, Given
<1>3. row.value = value /\ row.at = g.clock + 1 /\ row.basis = basis /\ IsRecord(row)  BY DEF Stamped, IsRecord
<1>4. /\ IsGraph(s) /\ s.clock = g.clock + 1 /\ s.memory = Recorded(g, n, row) /\ s.rows = Tabled(g, n, row)
      /\ s.selectors = g.selectors /\ s.queue = g.queue /\ s.scheduled = g.scheduled
  BY <1>2, StoreDoes
<1>5. Unmoved(g, s)  BY <1>2, StoreUnmoved
<1>. HIDE DEF s, row, ls
<1>6. Sound(s)  BY <1>5, UnmovedSound
<1>7. IsGraph(h) /\ Requeued(s, h)  BY <1>4, NotifyRequeues
<1>8. Put(g, h, n, row, row)  BY <1>2, <1>4, <1>7 DEF Put, Requeued
<1>9. Stored(g, h, n, row, people)  BY <1>3, <1>8 DEF Stored
<1>10. ~Same(g, n, row)  BY <1>3 DEF Same
<1>11. ASSUME NEW l \in Active(g), Followers(g, n) = {l}, ls = <<l>>, l \in DOMAIN g.memory \ {Persons}
       PROVE  Spread(g, h, n, row)
  <2>1. Followers(s, n) = {l}  BY <1>4, <1>11 DEF Followers, Pipes
  <2>2. n \in Inputs(s, l)  BY <1>6, <2>1, FollowersRead
  <2>3. n # l
    <3>1. Inputs(g, l) = Inputs(s, l)  BY <1>5 DEF Inputs, Home, Unmoved
    <3>2. n \in Pipes(g)  BY <1>11 DEF Followers
    <3>3. PICK e \in Range(g.selectors) :
               n \in {HomeOf(e), RouteOf(e), MpgOf(e), e} /\ RouteOf(n) = RouteOf(e) /\ Sibling(n, "entry") = e
      BY <3>2, PipeIs
    <3>4. Piped(g, e) /\ Distinct(e)  BY PipedIs, FourApart
    <3>. QED  BY <1>11, <3>2, <3>3, <3>4 DEF Followers, Piped, Distinct, Circle
  <2>4. s.memory[n].at = g.clock + 1 /\ s.memory[l].at \in 0..g.clock
    <3>1. g.memory[l].at \in 0..g.clock  BY <1>11 DEF Typed, RecordOK
    <3>. QED  BY <1>2, <1>3, <1>4, <1>11, <2>3, <3>1 DEF Recorded
  <2>5. IsStale(s, l)
    <3>1. s.memory[n].at # 0 /\ s.memory[n].at > s.memory[l].at  BY <1>2, <2>4
    <3>. QED  BY <2>2, <3>1 DEF IsStale
  <2>6. IsSeq(s.queue)  BY <1>4 DEF Queued
  <2>7. Queues(s, h, l)  BY <1>4, <1>11, <2>5, <2>6, ToldQueues
  <2>8. Queues(g, h, l)  BY <1>4, <2>7 DEF Queues
  <2>. QED  BY <1>10, <1>11, <2>8 DEF Spread
<1>12. Spread(g, h, n, row)
  <2>1. CASE Followers(g, n) = {} /\ ls = <<>>
    <3>1. IsSeq(s.queue)  BY <1>4 DEF Queued
    <3>2. Still(s, h)  BY <1>4, <2>1, <3>1, ToldNobody
    <3>. QED  BY <1>4, <2>1, <3>2 DEF Spread, Still
  <2>. QED  BY <1>2, <1>11, <2>1, ListenersAre DEF ls
<1>. QED  BY <1>1, <1>9, <1>12

LEMMA KeepStores ==
    ASSUME NEW g, Sound(g), Typed(g), NEW n, NEW basis, NEW people,
           Given(g, n, g.memory[n].value, basis, people), g.memory[n].value \notin Impossible
    PROVE  \E row : /\ Stored(g, Store(g, n, [g.memory[n] EXCEPT !.basis = basis]), n, row, people)
                    /\ Spread(g, Store(g, n, [g.memory[n] EXCEPT !.basis = basis]), n, row)
<1>. DEFINE mine == g.memory[n]
            r == [mine EXCEPT !.basis = basis]
            row == Stamped(g, r)
            s == Store(g, n, r)
<1>1. IsGraph(g) /\ g.clock \in Nat /\ n \in DOMAIN g.memory \ {Persons}  BY SoundIs DEF Typed, Given
<1>2. mine = [value |-> mine.value, at |-> mine.at, basis |-> mine.basis]  BY <1>1 DEF Typed, RecordOK, IsRecord
<1>3. row.value = mine.value /\ row.at = g.clock + 1 /\ row.basis = basis /\ IsRecord(row)
  <2>. HIDE DEF mine
  <2>1. r = [value |-> mine.value, at |-> mine.at, basis |-> basis]  BY <1>2
  <2>. HIDE DEF r
  <2>2. row = [value |-> mine.value, at |-> g.clock + 1, basis |-> basis]  BY <2>1 DEF Stamped
  <2>. QED  BY <2>2 DEF IsRecord
<1>4. /\ IsGraph(s) /\ s.clock = g.clock + 1 /\ s.memory = Recorded(g, n, row) /\ s.rows = Tabled(g, n, row)
      /\ s.selectors = g.selectors /\ s.queue = g.queue /\ s.scheduled = g.scheduled
  BY <1>1, StoreDoes
<1>. HIDE DEF s, row
<1>5. Put(g, s, n, row, row)  BY <1>1, <1>4 DEF Put
<1>6. Stored(g, s, n, row, people)  BY <1>3, <1>5 DEF Stored
<1>7. Spread(g, s, n, row)  BY <1>3, <1>4 DEF Spread, Same, Still
<1>. QED  BY <1>6, <1>7 DEF s

-----------------------------------------------------------------------------
(* A node at work is let go of, being right as it is. *)
Right(g, n) ==
    /\ \A e \in Range(g.selectors) :
         /\ n \in {HomeOf(e), MpgOf(e)} /\ Id(n) \notin g.scheduled => HomeSettled(g, n)
         /\ n = RouteOf(e) => RouteSettled(g, e) /\ ~Changes(g, e)
         /\ n = e => g.memory[e].value # Pending /\ EntryFits(g, Idle, e)
    /\ n = Breakdown /\ Id(n) \notin g.scheduled => SumSettled(g)

LEMMA Release ==
    ASSUME NEW g, Sound(g), NEW n, NEW people, Main(g, n, people), Right(g, n)
    PROVE  Main(g, Idle, people)
<1>1. Queued(g) /\ PipesFit(g, n) /\ SumStands(g, n)  BY DEF Main
<1>2. ASSUME NEW e \in Range(g.selectors) PROVE PipeFits(g, Idle, e)
  <2>. DEFINE H == HomeOf(e)
              R == RouteOf(e)
              M == MpgOf(e)
  <2>. HIDE DEF H, R, M
  <2>1. H \notin {R, M, e} /\ R \notin {M, e} /\ M # e /\ Idle \notin {H, R, M, e}
    BY FourApart DEF Distinct, Circle, H, R, M
  <2>2. PipeFits(g, n, e) /\ Settled(g, n, e) /\ InOrder(g, n, e)  BY <1>1 DEF PipesFit, PipeFits
  <2>3. \A m \in {H, R, M, e} : Free(g, n, m) => Free(g, Idle, m)  BY <2>1 DEF Free
  <2>4. \A m \in {H, R, M, e} : Free(g, Idle, m) /\ m # n => Free(g, n, m)  BY DEF Free
  <2>5. WillTell(g, n, e) => WillTell(g, Idle, e)
    <3>1. n = R => ~Changes(g, e)  BY DEF Right, R
    <3>. QED  BY <2>3, <3>1 DEF WillTell, H, R
  <2>6. EntryFits(g, n, e) => EntryFits(g, Idle, e)  BY <2>5 DEF EntryFits
  <2>7. Settled(g, Idle, e)
    <3>1. ASSUME Free(g, Idle, H) PROVE HomeSettled(g, H)
      <4>1. CASE n = H  BY <3>1, <4>1 DEF Right, Free, H
      <4>2. CASE n # H  BY <2>2, <2>4, <3>1, <4>2 DEF Settled, H
      <4>. QED  BY <4>1, <4>2
    <3>2. ASSUME Free(g, Idle, M) PROVE HomeSettled(g, M)
      <4>1. CASE n = M  BY <3>2, <4>1 DEF Right, Free, M
      <4>2. CASE n # M  BY <2>2, <2>4, <3>2, <4>2 DEF Settled, M
      <4>. QED  BY <4>1, <4>2
    <3>3. ASSUME Free(g, Idle, R) PROVE RouteSettled(g, e)
      <4>1. CASE n = R  BY <4>1 DEF Right, R
      <4>2. CASE n # R  BY <2>2, <2>4, <3>3, <4>2 DEF Settled, R
      <4>. QED  BY <4>1, <4>2
    <3>4. ASSUME Free(g, Idle, e) PROVE g.memory[e].value # Pending /\ EntryFits(g, Idle, e)
      <4>1. CASE n = e  BY <4>1 DEF Right
      <4>2. CASE n # e
        <5>1. Free(g, n, e)  BY <2>4, <3>4, <4>2
        <5>. QED  BY <2>2, <2>6, <5>1 DEF Settled
      <4>. QED  BY <4>1, <4>2
    <3>. QED  BY <3>1, <3>2, <3>3, <3>4 DEF Settled, H, R, M
  <2>8. InOrder(g, Idle, e)
    <3>1. Free(g, n, H) => Free(g, Idle, H)  BY <2>3
    <3>. QED  BY <2>1, <2>2, <3>1 DEF InOrder, H, R, M
  <2>. QED  BY <2>2, <2>6, <2>7, <2>8 DEF PipeFits
<1>3. SumStands(g, Idle)
  <2>1. SumCurrent(g)  BY <1>1 DEF SumStands
  <2>2. ASSUME Free(g, Idle, Breakdown) PROVE SumSettled(g)
    <3>1. CASE n = Breakdown  BY <2>2, <3>1 DEF Right, Free
    <3>2. CASE n # Breakdown
      <4>1. Free(g, n, Breakdown)  BY <2>2, <3>2 DEF Free
      <4>. QED  BY <1>1, <4>1 DEF SumStands
    <3>. QED  BY <3>1, <3>2
  <2>. QED  BY <2>1, <2>2 DEF SumStands
<1>. QED  BY <1>2, <1>3 DEF Main, PipesFit

\* What a result is given for is right if it is the value the node has.
LEMMA GivenRight ==
    ASSUME NEW g, Sound(g), NEW n, NEW people, Given(g, n, g.memory[n].value, g.memory[n].basis, people),
           g.memory[n].value \notin Impossible
    PROVE  Right(g, n)
<1>. DEFINE mine == g.memory[n]
<1>. HIDE DEF mine
<1>1. mine.value # Pending /\ mine.value \notin Impossible /\ mine = g.memory[n]  BY DEF Given, mine
<1>2. ASSUME NEW e \in Range(g.selectors), n \in {HomeOf(e), MpgOf(e)}, Id(n) \notin g.scheduled
      PROVE  HomeSettled(g, n)
  <2>1. Piped(g, e)  BY PipedIs
  <2>2. n \in Active(g) /\ n.kind \in {"place", "school", "mpg"}  BY <1>2, <2>1 DEF Piped, Active
  <2>3. n.kind # "school" => mine.basis[Id(Persons)] = Now(g)  BY <1>2, <2>2 DEF Given, mine
  <2>. QED  BY <1>1, <2>3 DEF HomeSettled
<1>3. ASSUME NEW e \in Range(g.selectors), n = RouteOf(e) PROVE RouteSettled(g, e) /\ ~Changes(g, e)
  <2>1. Piped(g, e)  BY PipedIs
  <2>2. n.kind = "route" /\ n.key = e.key /\ n \in Pipes(g)  BY <1>3, <2>1 DEF Piped
  <2>3. PICK d \in Range(g.selectors) : HomeOf(n) = HomeOf(d) /\ n.key = d.key  BY <2>2, PipeIs
  <2>4. HomeOf(n) = HomeOf(e)  BY <2>2, <2>3, OneEntry
  <2>5. RouteGiven(g, n, mine.value, mine.basis)  BY <2>2 DEF Given, mine
  <2>6. g.memory[HomeOf(e)].value # Pending /\ mine.value = ToRoute(g.memory[HomeOf(e)].value)
    BY <2>4, <2>5 DEF RouteGiven
  <2>. QED  BY <1>1, <1>3, <2>6 DEF RouteSettled, Changes
<1>4. ASSUME NEW e \in Range(g.selectors), n = e PROVE g.memory[e].value # Pending /\ EntryFits(g, Idle, e)
  <2>1. Piped(g, e)  BY PipedIs
  <2>2. EntryGiven(g, e, mine.value, mine.basis)  BY <1>4, <2>1 DEF Given, Piped, mine
  <2>. QED  BY <1>1, <1>4, <2>2 DEF EntryGiven, EntryFits, EntryOf
<1>5. ASSUME n = Breakdown, Id(n) \notin g.scheduled PROVE SumSettled(g)
  <2>1. SumGiven(g, mine.value, mine.basis)  BY <1>5 DEF Given, mine
  <2>. QED  BY <1>1, <1>5, <2>1 DEF SumGiven, SumSettled, SumFits
<1>. QED  BY <1>2, <1>3, <1>4, <1>5 DEF Right

\* The result of the node at work is stored.
LEMMA StoreResultMain ==
    ASSUME Sound(graph), Main(graph, running.node, Household), UnderWay(graph, running, Household), StoreResult
    PROVE  Main(graph', Idle, Household)
<1>. DEFINE n == running.node
            mine == graph.memory[n]
            v == running.value
            b == running.basis
<1>1. Given(graph, n, v, b, Household)  BY DEF UnderWay, StoreResult
<1>2. Typed(graph) /\ Queued(graph)  BY DEF Main
<1>3. \/ ~(v = mine.value /\ v \notin Impossible) /\ graph' = Complete(graph, n, v, b)
      \/ v = mine.value /\ mine.value \notin Impossible /\ b = mine.basis /\ graph' = graph
      \/ v = mine.value /\ mine.value \notin Impossible /\ graph' = Store(graph, n, [mine EXCEPT !.basis = b])
  BY DEF StoreResult
<1>. HIDE DEF v, b, n
<1>4. Main(graph, n, Household)  BY DEF n
<1>5. CASE ~(v = mine.value /\ v \notin Impossible) /\ graph' = Complete(graph, n, v, b)
  <2>1. PICK row : Stored(graph, graph', n, row, Household) /\ Spread(graph, graph', n, row)
    BY <1>1, <1>2, <1>5, CompleteStores
  <2>. QED  BY <1>4, <2>1, StoredMain
<1>6. CASE v = mine.value /\ mine.value \notin Impossible /\ b = mine.basis /\ graph' = graph
  BY <1>1, <1>4, <1>6, GivenRight, Release
<1>7. CASE v = mine.value /\ mine.value \notin Impossible /\ graph' = Store(graph, n, [mine EXCEPT !.basis = b])
  <2>1. PICK row : Stored(graph, graph', n, row, Household) /\ Spread(graph, graph', n, row)
    BY <1>1, <1>2, <1>7, KeepStores
  <2>. QED  BY <1>4, <2>1, StoredMain
<1>. QED  BY <1>3, <1>5, <1>6, <1>7

-----------------------------------------------------------------------------
(* The head of the queue is taken. *)
Popped(g, n) == [g EXCEPT !.queue = Tail(@), !.scheduled = @ \ {Id(n)}]

LEMMA PoppedIs ==
    ASSUME NEW g, IsGraph(g), NEW n
    PROVE  LET h == Popped(g, n)
           IN  /\ IsGraph(h) /\ Requeued(g, h) /\ Unmoved(g, h)
               /\ h.queue = Tail(g.queue) /\ h.scheduled = g.scheduled \ {Id(n)}
BY DEF IsGraph, Fields, Requeued, Unmoved, Popped

LEMMA TailOrder ==
    ASSUME NEW q, IsSeq(q), q # <<>>
    PROVE  /\ IsSeq(Tail(q)) /\ Head(q) \in Range(q) /\ Range(q) = Range(Tail(q)) \cup {Head(q)}
           /\ \A a, b : Before(Tail(q), a, b) => Before(q, a, b)
           /\ \A b \in Range(Tail(q)) : Before(q, Head(q), b)
           /\ OneId(q) => OneId(Tail(q)) /\ Id(Head(q)) \notin Ids(Tail(q))
<1>. DEFINE t == Tail(q)
<1>1. q \in Seq(Range(q)) /\ Len(q) \in Nat /\ DOMAIN q = 1..Len(q) /\ Len(q) >= 1  BY SeqFacts
<1>2. t \in Seq(Range(q)) /\ Len(t) = Len(q) - 1 /\ Head(q) = q[1]  BY <1>1
<1>3. \A i \in 1..Len(t) : t[i] = q[i + 1] /\ i + 1 \in 1..Len(q)  BY <1>1, <1>2
<1>. HIDE DEF t
<1>4. IsSeq(t) /\ DOMAIN t = 1..Len(t) /\ Len(t) \in Nat /\ Range(t) \subseteq Range(q)  BY <1>2, SeqIs
<1>5. \A x \in Range(t) : \E i \in 1..Len(t) : t[i] = x  BY <1>4, SeqFacts
<1>6. Head(q) \in Range(q)  BY <1>1, <1>2, SeqFacts
<1>7. ASSUME NEW x \in Range(q), x # Head(q) PROVE x \in Range(t)
  <2>1. PICK i \in 1..Len(q) : q[i] = x  BY SeqFacts
  <2>2. i - 1 \in 1..Len(t) /\ (i - 1) + 1 = i  BY <1>1, <1>2, <1>7, <2>1
  <2>3. t[i - 1] = x  BY <1>3, <2>1, <2>2
  <2>. QED  BY <1>4, <2>2, <2>3, SeqFacts
<1>8. ASSUME NEW a, NEW b, Before(t, a, b) PROVE Before(q, a, b)
  <2>1. PICK i \in 1..Len(t), j \in 1..Len(t) : i < j /\ t[i] = a /\ t[j] = b  BY <1>8 DEF Before
  <2>2. i + 1 \in 1..Len(q) /\ j + 1 \in 1..Len(q) /\ i + 1 < j + 1 /\ q[i + 1] = a /\ q[j + 1] = b
    BY <1>3, <1>4, <2>1
  <2>. QED  BY <2>2 DEF Before
<1>9. ASSUME NEW b \in Range(t) PROVE Before(q, Head(q), b)
  <2>1. PICK i \in 1..Len(t) : t[i] = b  BY <1>5
  <2>2. 1 \in 1..Len(q) /\ i + 1 \in 1..Len(q) /\ 1 < i + 1 /\ q[1] = Head(q) /\ q[i + 1] = b
    BY <1>1, <1>2, <1>3, <1>4, <2>1
  <2>. QED  BY <2>2 DEF Before
<1>10. ASSUME OneId(q) PROVE OneId(t) /\ Id(Head(q)) \notin Ids(t)
  <2>1. ASSUME NEW i \in 1..Len(t), NEW j \in 1..Len(t), Id(t[i]) = Id(t[j]) PROVE i = j
    <3>1. i + 1 = j + 1  BY <1>3, <1>10, <2>1 DEF OneId
    <3>. QED  BY <1>4, <3>1
  <2>2. ASSUME NEW b \in Range(t), Id(b) = Id(Head(q)) PROVE FALSE
    <3>1. PICK i \in 1..Len(t) : t[i] = b  BY <1>5
    <3>2. i + 1 \in 1..Len(q) /\ 1 \in 1..Len(q) /\ q[i + 1] = b  BY <1>1, <1>3, <3>1
    <3>3. i + 1 = 1  BY <1>2, <1>10, <2>2, <3>2 DEF OneId
    <3>. QED  BY <1>4, <3>3
  <2>. QED  BY <2>1, <2>2 DEF OneId, Ids
<1>11. Range(q) = Range(t) \cup {Head(q)}  BY <1>4, <1>6, <1>7
<1>. QED  BY <1>4, <1>6, <1>8, <1>9, <1>10, <1>11 DEF t

\* A node at work that is scheduled is queued.
LEMMA ScheduledQueued ==
    ASSUME NEW g, Sound(g), Queued(g), NEW m \in Active(g), Id(m) \in g.scheduled
    PROVE  m \in Range(g.queue)
<1>1. PICK x \in Range(g.queue) : Id(x) = Id(m)  BY DEF Queued, Ids
<1>2. CASE x \in Active(g)  BY <1>1, <1>2, ActiveIds
<1>3. CASE x \notin Active(g)
  <2>1. x.kind \in {"place", "mpg"} /\ x.key \notin LiveKeys(g)  BY <1>1, <1>3 DEF Queued
  <2>2. m.kind = x.kind /\ m.key = x.key  BY <1>1 DEF Id
  <2>3. m # Breakdown  BY <2>1, <2>2, Fixed
  <2>4. PICK e \in Range(g.selectors) : m.key = e.key  BY <2>3, PipeIs DEF Active
  <2>. QED  BY <2>1, <2>2, <2>4 DEF LiveKeys
<1>. QED  BY <1>2, <1>3

\* What the node taken reads is not queued, but for the route of an entry that will change.
Ready(g, n) ==
    \A e \in Range(g.selectors) :
        /\ n = RouteOf(e) => Id(HomeOf(e)) \notin g.scheduled
        /\ n = e => /\ Id(MpgOf(e)) \notin g.scheduled
                    /\ Id(RouteOf(e)) \in g.scheduled => Free(g, n, HomeOf(e)) /\ Changes(g, e)

LEMMA PoppedMain ==
    ASSUME NEW g, Sound(g), NEW people, Main(g, Idle, people), g.queue # <<>>, NEW n, n = Head(g.queue)
    PROVE  /\ Main(Popped(g, n), n, people) /\ Ready(Popped(g, n), n) /\ Sound(Popped(g, n))
           /\ n \in DOMAIN g.memory \ {Persons} /\ Id(n) \notin Popped(g, n).scheduled
           /\ n \notin Active(g) => n.kind \in {"place", "mpg"}
<1>. DEFINE h == Popped(g, n)
<1>1. IsGraph(g)  BY SoundIs
<1>2. /\ IsGraph(h) /\ Requeued(g, h) /\ Unmoved(g, h)
      /\ h.queue = Tail(g.queue) /\ h.scheduled = g.scheduled \ {Id(n)}
  BY <1>1, PoppedIs
<1>. HIDE DEF h
<1>3. /\ h.memory = g.memory /\ h.rows = g.rows /\ h.selectors = g.selectors /\ h.clock = g.clock
      /\ Active(h) = Active(g) /\ LiveKeys(h) = LiveKeys(g) /\ Now(h) = Now(g)
  BY <1>2 DEF Requeued, Active, Pipes, LiveKeys, Now
<1>4. Sound(h)  BY <1>2, UnmovedSound
<1>5. Queued(g) /\ PipesFit(g, Idle) /\ SumStands(g, Idle)  BY DEF Main
<1>6. /\ IsSeq(h.queue) /\ n \in Range(g.queue) /\ Range(g.queue) = Range(h.queue) \cup {n}
      /\ \A a, b : Before(h.queue, a, b) => Before(g.queue, a, b)
      /\ \A b \in Range(h.queue) : Before(g.queue, n, b)
      /\ OneId(h.queue) /\ Id(n) \notin Ids(h.queue)
  BY <1>2, <1>5, TailOrder DEF Queued
<1>7. n \in DOMAIN g.memory \ {Persons}  BY <1>5, <1>6 DEF Queued
<1>8. Queued(h)
  <2>1. h.scheduled \subseteq Ids(h.queue)  BY <1>2, <1>5, <1>6 DEF Queued, Ids
  <2>2. ASSUME NEW m \in Active(h), m \in Range(h.queue) PROVE Id(m) \in h.scheduled
    <3>1. Id(m) \in g.scheduled  BY <1>3, <1>5, <1>6, <2>2 DEF Queued
    <3>2. Id(m) # Id(n)  BY <1>6, <2>2 DEF Ids
    <3>. QED  BY <1>2, <3>1, <3>2
  <2>. QED  BY <1>3, <1>5, <1>6, <2>1, <2>2 DEF Queued
\* The nodes at work but this one are scheduled as before.
<1>9. n \notin Active(g) => n.kind \in {"place", "mpg"} /\ n.key \notin LiveKeys(g)  BY <1>5, <1>6 DEF Queued
<1>10. ASSUME NEW m \in Active(g), m # n PROVE Id(m) # Id(n)
  <2>1. CASE n \in Active(g)  BY <1>10, <2>1, ActiveIds
  <2>2. CASE n \notin Active(g)
    <3>1. CASE m = Breakdown  BY <1>9, <2>2, <3>1, Fixed DEF Id
    <3>2. CASE m \in Pipes(g)
      <4>1. m.key \in LiveKeys(g)  BY <3>2, PipeIs DEF LiveKeys
      <4>. QED  BY <1>9, <2>2, <4>1 DEF Id
    <3>. QED  BY <1>10, <3>1, <3>2 DEF Active
  <2>. QED  BY <2>1, <2>2
<1>11. \A m \in Active(g) : m # n => (Id(m) \in h.scheduled <=> Id(m) \in g.scheduled)  BY <1>2, <1>10
<1>12. n \in Active(g) => Id(n) \in g.scheduled  BY <1>5, <1>6 DEF Queued
<1>13. ASSUME NEW e \in Range(g.selectors) PROVE PipeFits(h, n, e)
  <2>. DEFINE H == HomeOf(e)
              R == RouteOf(e)
              M == MpgOf(e)
  <2>. HIDE DEF H, R, M
  <2>1. /\ H \notin {R, M, e} /\ R \notin {M, e} /\ M # e /\ Idle \notin {H, R, M, e}
        /\ {H, R, M, e} \subseteq Active(g) /\ Circle(e) = {H, R, M, e}
    <3>1. Distinct(e) /\ Piped(g, e)  BY FourApart, PipedIs
    <3>. QED  BY <3>1 DEF Distinct, Circle, Piped, Active, H, R, M
  <2>2. PipeFits(g, Idle, e) /\ Settled(g, Idle, e) /\ InOrder(g, Idle, e)  BY <1>5 DEF PipesFit, PipeFits
  <2>3. \A m \in {H, R, M, e} : Free(h, n, m) => Free(g, Idle, m)  BY <1>11, <2>1 DEF Free
  <2>4. \A m \in {H, R, M, e} : Free(g, Idle, m) => Free(h, n, m)  BY <1>2, <1>12, <2>1 DEF Free
  <2>5. Changes(h, e) <=> Changes(g, e)  BY <1>3 DEF Changes
  <2>6. WillTell(g, Idle, e) => WillTell(h, n, e)
    <3>1. SUFFICES ASSUME WillTell(g, Idle, e) PROVE WillTell(h, n, e)  OBVIOUS
    <3>2. Id(R) \in g.scheduled /\ Free(g, Idle, H) /\ Changes(g, e)  BY <2>1, <3>1 DEF WillTell, H, R
    <3>3. n = R \/ Id(R) \in h.scheduled  BY <1>11, <2>1, <3>2
    <3>. QED  BY <2>1, <2>4, <2>5, <3>2, <3>3 DEF WillTell, H, R
  <2>7. EntryFits(g, Idle, e) => EntryFits(h, n, e)  BY <1>3, <2>6 DEF EntryFits
  <2>8. Settled(h, n, e)
    BY <1>3, <2>1, <2>2, <2>3, <2>7 DEF Settled, HomeSettled, RouteSettled, H, R, M
  <2>9. InOrder(h, n, e)
    <3>1. ~Before(h.queue, R, H) /\ ~Before(h.queue, e, M)  BY <1>6, <2>2 DEF InOrder, H, R, M
    <3>2. Before(h.queue, e, R) => Free(h, n, H) /\ Changes(h, e)
      BY <1>6, <2>1, <2>2, <2>4, <2>5 DEF InOrder, H, R
    <3>3. Id(n) \notin h.scheduled  BY <1>2
    <3>. QED  BY <3>1, <3>2, <3>3 DEF InOrder, H, R, M
  <2>10. RouteFits(e.key, h.memory[R], h.memory[H])  BY <1>3, <2>2 DEF PipeFits, R, H
  <2>11. EntryCurrent(e.key, h.memory[e], h.memory[R], h.memory[M]) => EntryFits(h, n, e)
    BY <1>3, <2>2, <2>7 DEF PipeFits, R, M
  <2>. QED  BY <2>8, <2>9, <2>10, <2>11 DEF PipeFits, H, R, M
<1>14. SumStands(h, n)
  <2>1. SumCurrent(h)  BY <1>3, <1>5 DEF SumStands, SumCurrent, SumFits, SumOf
  <2>2. ASSUME Free(h, n, Breakdown) PROVE SumSettled(h)
    <3>1. Free(g, Idle, Breakdown)
      <4>1. Breakdown # Idle  BY DEF Breakdown, Idle, Node
      <4>. QED  BY <1>11, <2>2, <4>1 DEF Free, Active
    <3>. QED  BY <1>3, <1>5, <3>1 DEF SumStands, SumSettled, SumFits, SumOf
  <2>. QED  BY <2>1, <2>2 DEF SumStands
<1>15. Typed(h) /\ Backed(h) /\ RowsTold(h, people) /\ RowsLinked(h) /\ RowsSummed(h) /\ MemoryTold(h, people)
  BY <1>3 DEF Main, Typed, Backed, RowsTold, RowsLinked, RowsSummed, MemoryTold
<1>16. Main(h, n, people)  BY <1>3, <1>8, <1>13, <1>14, <1>15 DEF Main, PipesFit
<1>17. Ready(h, n)
  <2>. SUFFICES ASSUME NEW e \in Range(g.selectors)
                PROVE  /\ n = RouteOf(e) => Id(HomeOf(e)) \notin h.scheduled
                       /\ n = e => /\ Id(MpgOf(e)) \notin h.scheduled
                                   /\ Id(RouteOf(e)) \in h.scheduled => Free(h, n, HomeOf(e)) /\ Changes(h, e)
    BY <1>3 DEF Ready
  <2>. DEFINE H == HomeOf(e)
              R == RouteOf(e)
              M == MpgOf(e)
  <2>. HIDE DEF H, R, M
  <2>1. H \notin {R, M, e} /\ R \notin {M, e} /\ M # e /\ Idle \notin {H, R, M, e} /\ {H, R, M, e} \subseteq Active(g)
    <3>1. Distinct(e) /\ Piped(g, e)  BY FourApart, PipedIs
    <3>. QED  BY <3>1 DEF Distinct, Circle, Piped, Active, H, R, M
  <2>2. InOrder(g, Idle, e)  BY <1>5 DEF PipesFit, PipeFits
  <2>3. ASSUME NEW m \in {H, R, M, e}, Id(m) \in h.scheduled PROVE Before(g.queue, n, m)
    <3>1. m \in Active(h)  BY <1>3, <2>1
    <3>2. m \in Range(h.queue)  BY <1>4, <1>8, <2>3, <3>1, ScheduledQueued
    <3>. QED  BY <1>6, <3>2
  <2>4. n = R => Id(H) \notin h.scheduled  BY <2>2, <2>3 DEF InOrder, H, R
  <2>5. n = e => Id(M) \notin h.scheduled  BY <2>2, <2>3 DEF InOrder, M
  <2>6. ASSUME n = e, Id(R) \in h.scheduled PROVE Free(h, n, H) /\ Changes(h, e)
    <3>1. Free(g, Idle, H) /\ Changes(g, e)  BY <2>2, <2>3, <2>6 DEF InOrder, H, R
    <3>2. Free(h, n, H)  BY <1>2, <2>1, <2>6, <3>1 DEF Free
    <3>3. Changes(h, e)  BY <1>3, <3>1 DEF Changes
    <3>. QED  BY <3>2, <3>3
  <2>. QED  BY <2>4, <2>5, <2>6 DEF H, R, M
<1>18. Id(n) \notin h.scheduled  BY <1>2
<1>. QED  BY <1>4, <1>7, <1>9, <1>16, <1>17, <1>18 DEF h

-----------------------------------------------------------------------------
(* What a node reads when it is refreshed. *)
Basis(g, read) == [i \in {Id(d) : d \in read} |-> g.memory[CHOOSE d \in read : Id(d) = i].at]
IdsOf(read) == {Id(d) : d \in read}
Apart1(read) == \A c, d \in read : Id(c) = Id(d) => c = d

LEMMA BasisIs ==
    ASSUME NEW g, NEW read, Apart1(read)
    PROVE  DOMAIN Basis(g, read) = IdsOf(read) /\ \A d \in read : Basis(g, read)[Id(d)] = g.memory[d].at
<1>1. DOMAIN Basis(g, read) = IdsOf(read)  BY DEF Basis, IdsOf
<1>2. ASSUME NEW d \in read PROVE Basis(g, read)[Id(d)] = g.memory[d].at
  <2>1. Id(d) \in {Id(c) : c \in read}  OBVIOUS
  <2>2. (CHOOSE c \in read : Id(c) = Id(d)) = d  BY DEF Apart1
  <2>. QED  BY <2>1, <2>2 DEF Basis
<1>. QED  BY <1>1, <1>2

\* Of which kind a node is that is refreshed.
Refreshed(g, n) == n \in Active(g) \/ n.kind \in {"place", "mpg"}
LEMMA KindsOf ==
    ASSUME NEW g, Sound(g), NEW n, Refreshed(g, n)
    PROVE  \/ n.kind \in {"place", "mpg"} /\ Inputs(g, n) = {Persons}
           \/ n.kind = "school" /\ Inputs(g, n) = {}
           \/ n.kind = "route" /\ \E e \in Range(g.selectors) : n = RouteOf(e)
           \/ n.kind = "entry" /\ n \in Range(g.selectors)
           \/ n.kind = "breakdown" /\ n = Breakdown
<1>1. CASE n.kind \in {"place", "mpg"}  BY <1>1 DEF Inputs
<1>2. CASE n = Breakdown  BY <1>2, Fixed
<1>3. CASE n \in Pipes(g)
  <2>1. PICK e \in Range(g.selectors) : n \in {HomeOf(e), RouteOf(e), MpgOf(e), e}  BY <1>3, PipeIs
  <2>2. Piped(g, e)  BY PipedIs
  <2>3. n.kind = "school" => Inputs(g, n) = {}  BY DEF Inputs
  <2>4. n.kind \in {"place", "mpg"} => Inputs(g, n) = {Persons}  BY DEF Inputs
  <2>. QED  BY <2>1, <2>2, <2>3, <2>4 DEF Piped
<1>. QED  BY <1>1, <1>2, <1>3 DEF Refreshed, Active

\* What the basis of a refresh is.
BasisOf(g, n, basis) ==
    /\ Sourced(n.kind, n.key, basis) /\ \A i \in DOMAIN basis : basis[i] \in 0..g.clock
    /\ n.kind \in {"place", "mpg"} => basis[Id(Persons)] = Now(g)
    /\ \A e \in Range(g.selectors) :
         /\ n = RouteOf(e) => basis[HomeId(n.key)] = g.memory[HomeOf(e)].at
         /\ n = e => basis[RouteId(n.key)] = g.memory[RouteOf(e)].at /\ basis[MpgId(n.key)] = g.memory[MpgOf(e)].at
    /\ n = Breakdown => /\ DOMAIN basis = SumIds(LiveKeys(g)) /\ basis[Id(Persons)] = Now(g)
                        /\ \A e \in Range(g.selectors) : basis[Id(e)] = g.memory[e].at

LEMMA RefreshBasis ==
    ASSUME NEW g, Sound(g), Typed(g), NEW n, Refreshed(g, n)
    PROVE  BasisOf(g, n, Basis(g, Inputs(g, n)))
<1>. DEFINE read == Inputs(g, n)
            basis == Basis(g, read)
<1>. HIDE DEF read, basis
<1>1. \A d \in DOMAIN g.memory : g.memory[d].at \in 0..g.clock
  <2>1. Now(g) \in 0..g.clock  BY DEF Typed
  <2>. QED  BY <2>1 DEF Typed, RecordOK, Now
<1>2. Persons \in DOMAIN g.memory /\ Id(Persons) = <<"persons", <<>>>>  BY SoundIs, Fixed DEF Id
<1>3. ASSUME Apart1(read), read \subseteq DOMAIN g.memory
      PROVE  /\ DOMAIN basis = IdsOf(read) /\ \A d \in read : basis[Id(d)] = g.memory[d].at
             /\ \A i \in DOMAIN basis : basis[i] \in 0..g.clock
  <2>1. DOMAIN basis = IdsOf(read) /\ \A d \in read : basis[Id(d)] = g.memory[d].at
    BY <1>3, BasisIs DEF basis
  <2>2. ASSUME NEW i \in DOMAIN basis PROVE basis[i] \in 0..g.clock
    <3>1. PICK d \in read : i = Id(d)  BY <2>1 DEF IdsOf
    <3>. QED  BY <1>1, <1>3, <2>1, <3>1
  <2>. QED  BY <2>1, <2>2
<1>4. \A e \in Range(g.selectors) : (n = RouteOf(e) => n.kind = "route") /\ (n = e => n.kind = "entry")
  BY PipedIs DEF Piped
<1>5. Breakdown.kind = "breakdown"  BY Fixed
<1>6. ASSUME n.kind \in {"place", "mpg"} /\ read = {Persons} PROVE BasisOf(g, n, basis)
  <2>1. Apart1(read) /\ read \subseteq DOMAIN g.memory  BY <1>2, <1>6 DEF Apart1
  <2>2. DOMAIN basis = {Id(Persons)} /\ basis[Id(Persons)] = Now(g)  BY <1>3, <1>6, <2>1 DEF IdsOf, Now
  <2>3. Sourced(n.kind, n.key, basis)  BY <1>6, <2>2 DEF Sourced, SourceIds
  <2>4. n # Breakdown /\ \A d \in Range(g.selectors) : n # d /\ n # RouteOf(d)  BY <1>4, <1>5, <1>6
  <2>. QED  BY <1>3, <2>1, <2>2, <2>3, <2>4 DEF BasisOf
<1>7. ASSUME n.kind = "school" /\ read = {} PROVE BasisOf(g, n, basis)
  <2>1. Apart1(read) /\ read \subseteq DOMAIN g.memory  BY <1>7 DEF Apart1
  <2>2. DOMAIN basis = {}  BY <1>3, <1>7, <2>1 DEF IdsOf
  <2>3. Sourced(n.kind, n.key, basis)  BY <1>7, <2>2 DEF Sourced, SourceIds
  <2>4. n # Breakdown /\ \A d \in Range(g.selectors) : n # d /\ n # RouteOf(d)  BY <1>4, <1>5, <1>7
  <2>. QED  BY <1>3, <1>7, <2>1, <2>3, <2>4 DEF BasisOf
<1>8. ASSUME NEW e \in Range(g.selectors), n = RouteOf(e) PROVE BasisOf(g, n, basis)
  <2>1. Piped(g, e)  BY PipedIs
  <2>2. read = {HomeOf(e)}  BY <1>8, ReadsAre DEF read
  <2>3. n.kind = "route" /\ n.key = e.key /\ Id(HomeOf(e)) = HomeId(n.key) /\ HomeOf(e) \in DOMAIN g.memory
    BY <1>8, <2>1 DEF Piped
  <2>4. Apart1(read) /\ read \subseteq DOMAIN g.memory  BY <2>2, <2>3 DEF Apart1
  <2>5. DOMAIN basis = {HomeId(n.key)} /\ basis[HomeId(n.key)] = g.memory[HomeOf(e)].at
    BY <1>3, <2>2, <2>3, <2>4 DEF IdsOf
  <2>6. Sourced(n.kind, n.key, basis)  BY <2>3, <2>5 DEF Sourced, SourceIds
  <2>7. \A d \in Range(g.selectors) : n = RouteOf(d) => d = e
    BY <2>3, PipedIs, OneEntry DEF Piped
  <2>8. \A d \in Range(g.selectors) : n # d  BY <1>4, <2>3
  <2>. QED  BY <1>3, <1>5, <2>3, <2>4, <2>5, <2>6, <2>7, <2>8 DEF BasisOf
<1>9. ASSUME n \in Range(g.selectors) PROVE BasisOf(g, n, basis)
  <2>1. Piped(g, n)  BY <1>9, PipedIs
  <2>2. read = {RouteOf(n), MpgOf(n)}  BY <1>9, ReadsAre DEF read
  <2>3. /\ n.kind = "entry" /\ Id(RouteOf(n)) = RouteId(n.key) /\ Id(MpgOf(n)) = MpgId(n.key)
        /\ {RouteOf(n), MpgOf(n)} \subseteq DOMAIN g.memory
    BY <2>1 DEF Piped
  <2>4. RouteId(n.key) # MpgId(n.key)  BY DEF RouteId, MpgId
  <2>5. Apart1(read) /\ read \subseteq DOMAIN g.memory  BY <2>2, <2>3, <2>4 DEF Apart1
  <2>6. /\ DOMAIN basis = {RouteId(n.key), MpgId(n.key)}
        /\ basis[RouteId(n.key)] = g.memory[RouteOf(n)].at /\ basis[MpgId(n.key)] = g.memory[MpgOf(n)].at
    BY <1>3, <2>2, <2>3, <2>5 DEF IdsOf
  <2>7. Sourced(n.kind, n.key, basis)  BY <2>3, <2>6 DEF Sourced, SourceIds
  <2>8. \A d \in Range(g.selectors) : n # RouteOf(d)  BY <1>4, <2>3
  <2>. QED  BY <1>3, <1>5, <2>3, <2>5, <2>6, <2>7, <2>8 DEF BasisOf
<1>10. ASSUME n = Breakdown PROVE BasisOf(g, n, basis)
  <2>1. read = Range(g.selectors) \cup {Persons}  BY <1>10, SumReads DEF read
  <2>2. \A e \in Range(g.selectors) : e \in Active(g) /\ e \in DOMAIN g.memory /\ Id(e) = EntryId(e.key)
    BY SelectorsAre
  <2>3. \A key : EntryId(key) # Id(Persons)  BY <1>2 DEF EntryId
  <2>4. Apart1(read) /\ read \subseteq DOMAIN g.memory
    <3>1. \A c, d \in Range(g.selectors) : Id(c) = Id(d) => c = d  BY <2>2, ActiveIds
    <3>. QED  BY <1>2, <2>1, <2>2, <2>3, <3>1 DEF Apart1
  <2>5. IdsOf(read) = SumIds(LiveKeys(g))
    <3>1. ASSUME NEW i \in IdsOf(read) PROVE i \in SumIds(LiveKeys(g))
      BY <2>1, <2>2 DEF IdsOf, SumIds, LiveKeys
    <3>2. ASSUME NEW i \in SumIds(LiveKeys(g)) PROVE i \in IdsOf(read)
      BY <2>1, <2>2 DEF IdsOf, SumIds, LiveKeys
    <3>. QED  BY <3>1, <3>2
  <2>6. /\ DOMAIN basis = SumIds(LiveKeys(g)) /\ basis[Id(Persons)] = Now(g)
        /\ \A e \in Range(g.selectors) : basis[Id(e)] = g.memory[e].at
    BY <1>3, <2>1, <2>4, <2>5 DEF Now
  <2>7. Sourced(n.kind, n.key, basis)  BY <1>5, <1>10, <2>6 DEF Sourced, SumIds
  <2>8. \A d \in Range(g.selectors) : n # d /\ n # RouteOf(d)  BY <1>4, <1>5, <1>10
  <2>9. n.kind \notin {"place", "mpg"}  BY <1>5, <1>10
  <2>. QED  BY <1>3, <2>4, <2>6, <2>7, <2>8, <2>9 DEF BasisOf
<1>. QED  BY <1>6, <1>7, <1>8, <1>9, <1>10, KindsOf DEF basis, read

-----------------------------------------------------------------------------
(* A refresh, the node being taken from the queue. *)
AtWork(g, n, people) ==
    /\ Sound(g) /\ Main(g, n, people) /\ Ready(g, n) /\ n \in DOMAIN g.memory \ {Persons}
    /\ Id(n) \notin g.scheduled /\ Refreshed(g, n)

\* What the inputs of the node are.
LEMMA AtWorkReads ==
    ASSUME NEW g, NEW n, NEW people, AtWork(g, n, people), NEW e \in Range(g.selectors)
    PROVE  /\ n = RouteOf(e) => HomeSettled(g, HomeOf(e)) /\ g.memory[HomeOf(e)].value # Pending
           /\ n = e => /\ g.memory[MpgOf(e)].value # Pending
                       /\ Id(RouteOf(e)) \notin g.scheduled =>
                            RouteSettled(g, e) /\ g.memory[RouteOf(e)].value # Pending
                       /\ Id(RouteOf(e)) \in g.scheduled => WillTell(g, Idle, e) /\ Free(g, n, HomeOf(e))
<1>. DEFINE H == HomeOf(e)
            R == RouteOf(e)
            M == MpgOf(e)
<1>. HIDE DEF H, R, M
<1>1. H \notin {R, M, e} /\ R \notin {M, e} /\ M # e /\ Idle \notin {H, R, M, e}
  <2>1. Distinct(e)  BY FourApart DEF AtWork
  <2>. QED  BY <2>1 DEF Distinct, Circle, H, R, M
<1>2. Settled(g, n, e)  BY DEF AtWork, Main, PipesFit, PipeFits
<1>3. ASSUME n = R PROVE HomeSettled(g, H) /\ g.memory[H].value # Pending
  <2>1. Free(g, n, H)  BY <1>1, <1>3 DEF AtWork, Ready, Free, H, R
  <2>. QED  BY <1>2, <2>1 DEF Settled, HomeSettled, H
<1>4. ASSUME n = e PROVE g.memory[M].value # Pending
  <2>1. Free(g, n, M)  BY <1>1, <1>4 DEF AtWork, Ready, Free, M
  <2>. QED  BY <1>2, <2>1 DEF Settled, HomeSettled, M
<1>5. ASSUME n = e, Id(R) \notin g.scheduled PROVE RouteSettled(g, e) /\ g.memory[R].value # Pending
  <2>1. Free(g, n, R)  BY <1>1, <1>5 DEF Free
  <2>2. RouteSettled(g, e)  BY <1>2, <2>1 DEF Settled, R
  <2>. QED  BY <2>2 DEF RouteSettled, ToRoute, Pending, R
<1>6. ASSUME n = e, Id(R) \in g.scheduled PROVE WillTell(g, Idle, e) /\ Free(g, n, H)
  <2>1. Free(g, n, H) /\ Changes(g, e)  BY <1>6 DEF AtWork, Ready, H, R
  <2>2. Free(g, Idle, H)  BY <1>1, <2>1 DEF Free
  <2>. QED  BY <1>6, <2>1, <2>2 DEF WillTell, H, R
<1>. QED  BY <1>3, <1>4, <1>5, <1>6 DEF H, R, M

\* A node is not stale: it is right.
LEMMA FreshRight ==
    ASSUME NEW g, NEW n, NEW people, AtWork(g, n, people), ~IsStale(g, n)
    PROVE  Right(g, n)
<1>. DEFINE mine == g.memory[n]
<1>. HIDE DEF mine
<1>1. Sound(g) /\ Typed(g) /\ PipesFit(g, n) /\ SumStands(g, n) /\ n \in DOMAIN g.memory \ {Persons}
  BY DEF AtWork, Main
<1>2. /\ mine.value # Pending /\ mine = g.memory[n]
      /\ \A d \in Inputs(g, n) : g.memory[d].at # 0 =>
           ~(g.memory[d].at > mine.at) /\ (Id(d) \in DOMAIN mine.basis => mine.basis[Id(d)] = g.memory[d].at)
  BY DEF IsStale, mine
<1>3. RecordOK(g.clock, n.kind, n.key, mine) /\ Sourced(n.kind, n.key, mine.basis)
  BY <1>1, <1>2 DEF Typed, RecordOK
<1>4. Now(g) # 0  BY <1>1 DEF Typed
<1>5. \A d \in DOMAIN g.memory \ {Persons} : g.memory[d].value # Pending => g.memory[d].at # 0
  <2>. TAKE d \in DOMAIN g.memory \ {Persons}
  <2>1. RecordOK(g.clock, d.kind, d.key, g.memory[d])  BY <1>1 DEF Typed
  <2>. QED  BY <1>1, <2>1 DEF RecordOK
<1>6. ASSUME n.kind \in {"place", "mpg"} PROVE mine.basis[Id(Persons)] = Now(g)
  <2>1. Persons \in Inputs(g, n)  BY <1>6 DEF Inputs
  <2>2. Id(Persons) \in DOMAIN mine.basis  BY <1>3, <1>6 DEF Sourced, SourceIds
  <2>. QED  BY <1>2, <1>4, <2>1, <2>2 DEF Now
<1>7. ASSUME NEW e \in Range(g.selectors), n \in {HomeOf(e), MpgOf(e)} PROVE HomeSettled(g, n)
  <2>1. n.kind \in {"place", "school", "mpg"}
    <3>1. Piped(g, e)  BY <1>1, PipedIs
    <3>. QED  BY <1>7, <3>1 DEF Piped
  <2>. QED  BY <1>2, <1>6, <2>1 DEF HomeSettled
<1>8. ASSUME NEW e \in Range(g.selectors), n = RouteOf(e) PROVE RouteSettled(g, e) /\ ~Changes(g, e)
  <2>1. Piped(g, e) /\ Inputs(g, n) = {HomeOf(e)}  BY <1>1, <1>8, PipedIs, ReadsAre
  <2>2. g.memory[HomeOf(e)].value # Pending  BY <1>8, AtWorkReads
  <2>3. g.memory[HomeOf(e)].at # 0  BY <1>5, <2>1, <2>2 DEF Piped
  <2>4. Id(HomeOf(e)) \in DOMAIN mine.basis /\ Id(HomeOf(e)) = HomeId(e.key)
    BY <1>3, <1>8, <2>1 DEF Sourced, SourceIds, Piped
  <2>5. mine.basis[HomeId(e.key)] = g.memory[HomeOf(e)].at /\ ~(g.memory[HomeOf(e)].at > mine.at)
    BY <1>2, <2>1, <2>3, <2>4
  <2>6. RouteFits(e.key, g.memory[RouteOf(e)], g.memory[HomeOf(e)])  BY <1>1 DEF PipesFit, PipeFits
  <2>7. mine.value = ToRoute(g.memory[HomeOf(e)].value)  BY <1>2, <1>8, <2>5, <2>6 DEF RouteFits
  <2>. QED  BY <1>2, <1>8, <2>2, <2>5, <2>7 DEF RouteSettled, Changes
<1>9. ASSUME NEW e \in Range(g.selectors), n = e PROVE g.memory[e].value # Pending /\ EntryFits(g, Idle, e)
  <2>1. Piped(g, e) /\ Inputs(g, n) = {RouteOf(e), MpgOf(e)}  BY <1>1, <1>9, PipedIs, ReadsAre
  <2>2. CASE Id(RouteOf(e)) \in g.scheduled
    <3>1. WillTell(g, Idle, e)  BY <1>9, <2>2, AtWorkReads
    <3>. QED  BY <1>2, <1>9, <3>1 DEF EntryFits
  <2>3. CASE Id(RouteOf(e)) \notin g.scheduled
    <3>1. g.memory[RouteOf(e)].value # Pending /\ g.memory[MpgOf(e)].value # Pending  BY <1>9, <2>3, AtWorkReads
    <3>2. g.memory[RouteOf(e)].at # 0 /\ g.memory[MpgOf(e)].at # 0  BY <1>5, <2>1, <3>1 DEF Piped
    <3>3. {Id(RouteOf(e)), Id(MpgOf(e))} \subseteq DOMAIN mine.basis
      BY <1>3, <1>9, <2>1 DEF Sourced, SourceIds, Piped
    <3>4. EntryCurrent(e.key, mine, g.memory[RouteOf(e)], g.memory[MpgOf(e)])
      BY <1>2, <1>9, <2>1, <3>2, <3>3 DEF EntryCurrent, Piped
    <3>5. EntryFits(g, n, e)  BY <1>1, <1>2, <1>9, <3>4 DEF PipesFit, PipeFits
    <3>6. ~WillTell(g, n, e)
      <4>1. n # RouteOf(e)
        <5>1. Distinct(e)  BY <1>1, FourApart
        <5>. QED  BY <1>9, <5>1 DEF Distinct
      <4>. QED  BY <2>3, <4>1 DEF WillTell
    <3>. QED  BY <1>2, <1>9, <3>5, <3>6 DEF EntryFits
  <2>. QED  BY <2>2, <2>3
<1>10. ASSUME n = Breakdown PROVE SumSettled(g)
  <2>1. Inputs(g, n) = Range(g.selectors) \cup {Persons}  BY <1>10, SumReads
  <2>2. n.kind = "breakdown"  BY <1>10, Fixed
  <2>3. Id(Persons) \in DOMAIN mine.basis  BY <1>3, <2>2 DEF Sourced
  <2>4. mine.basis[Id(Persons)] = Now(g)  BY <1>2, <1>4, <2>1, <2>3 DEF Now
  <2>5. /\ DOMAIN mine.basis = SumIds(LiveKeys(g))
        /\ (\A e \in Range(g.selectors) : g.memory[e].at = mine.basis[Id(e)]) => SumFits(g, mine.value)
    BY <1>1, <1>2, <1>10, <2>4 DEF SumStands, SumCurrent
  <2>6. CASE \E e \in Range(g.selectors) : g.memory[e].value = Pending
    BY <1>2, <1>10, <2>6 DEF SumSettled, SumFits
  <2>7. CASE \A e \in Range(g.selectors) : g.memory[e].value # Pending
    <3>1. ASSUME NEW e \in Range(g.selectors) PROVE g.memory[e].at = mine.basis[Id(e)]
      <4>1. e \in DOMAIN g.memory \ {Persons} /\ Id(e) = EntryId(e.key) /\ e.key \in LiveKeys(g)
        BY <1>1, SelectorsAre
      <4>2. g.memory[e].at # 0  BY <1>5, <2>7, <4>1
      <4>3. Id(e) \in DOMAIN mine.basis  BY <2>5, <4>1 DEF SumIds
      <4>. QED  BY <1>2, <2>1, <4>2, <4>3
    <3>. QED  BY <1>2, <1>10, <2>5, <3>1 DEF SumSettled
  <2>. QED  BY <2>6, <2>7
<1>. QED  BY <1>7, <1>8, <1>9, <1>10 DEF Right

-----------------------------------------------------------------------------
(* A result that can be given. *)
\* The value, of a node whose inputs are what they are.
ValueGiven(g, n, value, people) ==
    /\ value # Pending /\ ValueOK(n.kind, value)
    /\ n.kind \in {"place", "mpg"} => value = Tells(people, n.kind, n.key)
    /\ \A e \in Range(g.selectors) :
         /\ n = RouteOf(e) => g.memory[HomeOf(e)].value # Pending /\ value = ToRoute(g.memory[HomeOf(e)].value)
         /\ n = e => /\ g.memory[RouteOf(e)].value # Pending /\ g.memory[MpgOf(e)].value # Pending
                     /\ FitsEntry(value, g.memory[RouteOf(e)].value, g.memory[MpgOf(e)].value)
    /\ n = Breakdown => SumOf(g, value)

LEMMA GivenIs ==
    ASSUME NEW g, NEW n, NEW people, AtWork(g, n, people), NEW value, NEW basis, BasisOf(g, n, basis),
           ValueGiven(g, n, value, people)
    PROVE  Given(g, n, value, basis, people)
<1>1. Sound(g) /\ n \in DOMAIN g.memory \ {Persons} /\ Id(n) \notin g.scheduled /\ Refreshed(g, n)  BY DEF AtWork
<1>2. Sourced(n.kind, n.key, basis) /\ \A i \in DOMAIN basis : basis[i] \in 0..g.clock  BY DEF BasisOf
<1>3. value # Pending /\ ValueOK(n.kind, value)  BY DEF ValueGiven
<1>4. n.kind \in {"place", "mpg"} => basis[Id(Persons)] = Now(g) /\ value = Tells(people, n.kind, n.key)
  BY DEF BasisOf, ValueGiven
<1>5. n.kind = "route" => RouteGiven(g, n, value, basis)
  <2>1. SUFFICES ASSUME n.kind = "route" PROVE RouteGiven(g, n, value, basis)  OBVIOUS
  <2>2. PICK e \in Range(g.selectors) : n = RouteOf(e)  BY <1>1, <2>1, KindsOf
  <2>3. Piped(g, e)  BY <1>1, PipedIs
  <2>4. n \in Pipes(g) /\ n.key = e.key /\ HomeOf(e) \in DOMAIN g.memory \ {Persons}  BY <2>2, <2>3 DEF Piped
  <2>5. PICK d \in Range(g.selectors) : HomeOf(n) = HomeOf(d) /\ n.key = d.key  BY <1>1, <2>4, PipeIs
  <2>6. HomeOf(n) = HomeOf(e)  BY <1>1, <2>4, <2>5, OneEntry
  <2>. QED  BY <2>2, <2>4, <2>6 DEF RouteGiven, BasisOf, ValueGiven
<1>6. n.kind = "entry" => EntryGiven(g, n, value, basis)
  <2>1. SUFFICES ASSUME n.kind = "entry" PROVE EntryGiven(g, n, value, basis)  OBVIOUS
  <2>2. n \in Range(g.selectors)  BY <1>1, <2>1, KindsOf
  <2>3. Piped(g, n)  BY <1>1, <2>2, PipedIs
  <2>. QED  BY <2>2, <2>3 DEF EntryGiven, BasisOf, ValueGiven, Piped
<1>7. n = Breakdown => SumGiven(g, value, basis)  BY DEF SumGiven, BasisOf, ValueGiven
<1>. QED  BY <1>1, <1>2, <1>3, <1>4, <1>5, <1>6, <1>7 DEF Given

\* An input is impossible: so is the node.
LEMMA ImpossibleGiven ==
    ASSUME NEW g, NEW n, NEW people, AtWork(g, n, people), NEW d \in Inputs(g, n) \ {Persons},
           g.memory[d].value \in Impossible
    PROVE  Given(g, n, <<"impossible">>, Basis(g, Inputs(g, n)), people)
<1>1. Sound(g) /\ Typed(g) /\ Refreshed(g, n)  BY DEF AtWork, Main
<1>2. BasisOf(g, n, Basis(g, Inputs(g, n)))  BY <1>1, RefreshBasis
<1>3. /\ g.memory[d].value # Pending /\ ToRoute(g.memory[d].value) = <<"impossible">>
      /\ <<"impossible">> # Pending /\ <<"impossible">> \in Impossible
  BY DEF Impossible, Pending, ToRoute
<1>4. ASSUME NEW e \in Range(g.selectors), n = RouteOf(e)
      PROVE  /\ n.kind = "route" /\ g.memory[HomeOf(e)].value # Pending
             /\ <<"impossible">> = ToRoute(g.memory[HomeOf(e)].value)
  <2>1. d = HomeOf(e)  BY <1>1, <1>4, ReadsAre
  <2>2. Piped(g, e)  BY <1>1, PipedIs
  <2>. QED  BY <1>3, <1>4, <2>1, <2>2 DEF Piped
<1>5. ASSUME NEW e \in Range(g.selectors), n = e
      PROVE  /\ n.kind = "entry" /\ g.memory[RouteOf(e)].value # Pending /\ g.memory[MpgOf(e)].value # Pending
             /\ FitsEntry(<<"impossible">>, g.memory[RouteOf(e)].value, g.memory[MpgOf(e)].value)
  <2>1. d \in {RouteOf(e), MpgOf(e)}  BY <1>1, <1>5, ReadsAre
  <2>2. g.memory[MpgOf(e)].value # Pending  BY <1>5, AtWorkReads
  <2>3. Piped(g, e)  BY <1>1, PipedIs
  <2>4. g.memory[MpgOf(e)].value \notin Impossible
    <3>1. RecordOK(g.clock, "mpg", e.key, g.memory[MpgOf(e)])  BY <1>1, <2>3 DEF Typed, Piped
    <3>2. g.memory[MpgOf(e)].value = <<"mpg", g.memory[MpgOf(e)].value[2]>>
      BY <2>2, <3>1 DEF RecordOK, ValueOK
    <3>. QED  BY <3>2 DEF Impossible
  <2>5. d = RouteOf(e)  BY <2>1, <2>4
  <2>6. FitsEntry(<<"impossible">>, g.memory[RouteOf(e)].value, g.memory[MpgOf(e)].value)
    BY <2>5 DEF FitsEntry
  <2>. QED  BY <1>3, <1>5, <2>2, <2>3, <2>5, <2>6 DEF Piped
<1>6. ASSUME n = Breakdown PROVE n.kind = "breakdown" /\ SumOf(g, <<"impossible">>)
  <2>1. d \in Range(g.selectors)  BY <1>6, SumReads
  <2>. QED  BY <1>3, <1>6, <2>1, Fixed DEF SumOf
<1>7. n.kind \notin {"place", "mpg", "school"}  BY DEF Inputs
<1>8. ValueOK(n.kind, <<"impossible">>)
  <2>1. n.kind \in {"route", "entry", "breakdown"}  BY <1>1, <1>7, KindsOf
  <2>. QED  BY <2>1 DEF ValueOK
<1>9. ValueGiven(g, n, <<"impossible">>, people)
  <2>1. \A e \in Range(g.selectors) :
         /\ n = RouteOf(e) => g.memory[HomeOf(e)].value # Pending /\ <<"impossible">> = ToRoute(g.memory[HomeOf(e)].value)
         /\ n = e => /\ g.memory[RouteOf(e)].value # Pending /\ g.memory[MpgOf(e)].value # Pending
                     /\ FitsEntry(<<"impossible">>, g.memory[RouteOf(e)].value, g.memory[MpgOf(e)].value)
    BY <1>4, <1>5
  <2>. QED  BY <1>3, <1>6, <1>7, <1>8, <2>1 DEF ValueGiven
<1>. QED  BY <1>2, <1>9, GivenIs

\* The sum over the entries.
SumValue(g, es) == <<"sum", [key \in {e.key : e \in es} |-> g.memory[CHOOSE e \in es : e.key = key].value]>>
LEMMA SumValueIs ==
    ASSUME NEW g, NEW es, \A d, e \in es : d.key = e.key => d = e
    PROVE  LET v == SumValue(g, es)
           IN  /\ v = <<"sum", v[2]>> /\ DOMAIN v[2] = {e.key : e \in es}
               /\ \A e \in es : v[2][e.key] = g.memory[e].value
<1>. DEFINE f == [key \in {e.key : e \in es} |-> g.memory[CHOOSE e \in es : e.key = key].value]
            v == SumValue(g, es)
<1>1. v = <<"sum", f>>  BY DEF SumValue
<1>2. DOMAIN f = {e.key : e \in es}  OBVIOUS
<1>3. ASSUME NEW e \in es PROVE f[e.key] = g.memory[e].value
  <2>1. e.key \in {d.key : d \in es}  OBVIOUS
  <2>2. (CHOOSE d \in es : d.key = e.key) = e  OBVIOUS
  <2>. QED  BY <2>1, <2>2
<1>. HIDE DEF f, v
<1>4. v[2] = f  BY <1>1
<1>5. v = <<"sum", v[2]>> /\ DOMAIN v[2] = {e.key : e \in es} /\ \A e \in es : v[2][e.key] = g.memory[e].value
  BY <1>1, <1>2, <1>3, <1>4
<1>. QED  BY <1>5 DEF v

\* A node whose inputs are there is computed from them.
LEMMA StartGiven ==
    ASSUME NEW g, NEW n, AtWork(g, n, Household), LiveKeys(g) \subseteq Range(Keys(Household)),
           \A d \in Inputs(g, n) : Id(d) \notin g.scheduled,
           \A d \in Inputs(g, n) \ {Persons} : g.memory[d].value \notin Impossible
    PROVE  /\ Given(g, n, Value(g, n), Basis(g, Inputs(g, n)), Household)
           /\ \A d \in Inputs(g, n) \ {Persons} : g.memory[d].value # Pending
<1>. DEFINE v == Value(g, n)
<1>1. Sound(g) /\ Typed(g) /\ Refreshed(g, n) /\ PipesFit(g, n) /\ n \in DOMAIN g.memory \ {Persons}
  BY DEF AtWork, Main
<1>2. BasisOf(g, n, Basis(g, Inputs(g, n)))  BY <1>1, RefreshBasis
<1>3. \A e \in Range(g.selectors) : (n = RouteOf(e) => n.kind = "route") /\ (n = e => n.kind = "entry")
  BY <1>1, PipedIs DEF Piped
<1>4. Breakdown.kind = "breakdown"  BY Fixed
<1>5. SUFFICES ValueGiven(g, n, v, Household) /\ \A d \in Inputs(g, n) \ {Persons} : g.memory[d].value # Pending
  BY <1>2, GivenIs
<1>6. CASE n.kind \in {"place", "mpg"} /\ Inputs(g, n) = {Persons}
  <2>1. v = Tells(Household, n.kind, n.key)  BY <1>6 DEF Value, Tells, PlaceIn, MpgIn
  <2>2. v # Pending /\ ValueOK(n.kind, v)
    <3>1. CASE n.kind = "place"  BY <2>1, <3>1 DEF Tells, PlaceIn, ValueOK, Pending
    <3>2. CASE n.kind = "mpg"  BY <2>1, <3>2 DEF Tells, MpgIn, ValueOK, Pending
    <3>. QED  BY <1>6, <3>1, <3>2
  <2>. HIDE DEF v
  <2>. QED  BY <1>3, <1>4, <1>6, <2>1, <2>2 DEF ValueGiven
<1>7. CASE n.kind = "school" /\ Inputs(g, n) = {}
  <2>1. v = <<"at", "school">>  BY <1>7 DEF Value
  <2>2. v # Pending /\ ValueOK(n.kind, v)  BY <1>7, <2>1 DEF ValueOK, Pending
  <2>. HIDE DEF v
  <2>. QED  BY <1>3, <1>4, <1>7, <2>2 DEF ValueGiven
<1>8. ASSUME n.kind = "route", NEW e \in Range(g.selectors), n = RouteOf(e)
      PROVE  ValueGiven(g, n, v, Household) /\ \A d \in Inputs(g, n) \ {Persons} : g.memory[d].value # Pending
  <2>. DEFINE home == g.memory[HomeOf(e)].value
  <2>1. Inputs(g, n) = {HomeOf(e)} /\ Home(g, n) = {HomeOf(e)} /\ Piped(g, e)  BY <1>1, <1>8, ReadsAre, PipedIs
  <2>2. home # Pending /\ home \notin Impossible
    <3>1. HomeOf(e) # Persons  BY <2>1 DEF Piped
    <3>. QED  BY <1>8, <2>1, <3>1, AtWorkReads
  <2>3. v = ToRoute(home)
    <3>1. (CHOOSE d \in Home(g, n) : TRUE) = HomeOf(e)  BY <2>1
    <3>. DEFINE first == CHOOSE d \in Home(g, n) : TRUE
    <3>2. v = IF g.memory[first].value[2] \in Unroutable THEN <<"impossible">> ELSE <<"to", g.memory[first].value[2]>>
      BY <1>8 DEF Value
    <3>. HIDE DEF v, first
    <3>3. first = HomeOf(e)  BY <3>1 DEF first
    <3>4. v = IF home[2] \in Unroutable THEN <<"impossible">> ELSE <<"to", home[2]>>  BY <3>2, <3>3
    <3>. QED  BY <2>2, <3>4 DEF ToRoute
  <2>. HIDE DEF v, home
  <2>4. v # Pending /\ ValueOK(n.kind, v)  BY <1>8, <2>3 DEF ToRoute, ValueOK, Pending
  <2>5. \A d \in Range(g.selectors) : n = RouteOf(d) => HomeOf(d) = HomeOf(e)
    <3>. TAKE d \in Range(g.selectors)
    <3>. HAVE n = RouteOf(d)
    <3>1. Inputs(g, n) = {HomeOf(d)}  BY <1>1, ReadsAre
    <3>. QED  BY <2>1, <3>1
  <2>6. \A d \in Range(g.selectors) : n # d  BY <1>3, <1>8
  <2>7. \A d \in Range(g.selectors) :
          n = RouteOf(d) => g.memory[HomeOf(d)].value # Pending /\ v = ToRoute(g.memory[HomeOf(d)].value)
    BY <2>2, <2>3, <2>5 DEF home
  <2>8. n.kind \notin {"place", "mpg"} /\ n # Breakdown  BY <1>4, <1>8
  <2>9. ValueGiven(g, n, v, Household)  BY <2>4, <2>6, <2>7, <2>8 DEF ValueGiven
  <2>. QED  BY <2>1, <2>2, <2>9 DEF home
<1>9. ASSUME n.kind = "entry", n \in Range(g.selectors)
      PROVE  ValueGiven(g, n, v, Household) /\ \A d \in Inputs(g, n) \ {Persons} : g.memory[d].value # Pending
  <2>. DEFINE route == g.memory[RouteOf(n)].value
              mpg == g.memory[MpgOf(n)].value
  <2>1. Inputs(g, n) = {RouteOf(n), MpgOf(n)} /\ Piped(g, n)  BY <1>1, <1>9, ReadsAre, PipedIs
  <2>2. Id(RouteOf(n)) \notin g.scheduled  BY <2>1
  <2>3. route # Pending /\ mpg # Pending  BY <1>9, <2>2, AtWorkReads
  <2>4. route \notin Impossible
    <3>1. RouteOf(n) # Persons  BY <2>1 DEF Piped
    <3>. QED  BY <2>1, <3>1
  <2>5. v = <<"is", route[2], mpg[2], n.car>>  BY <1>9 DEF Value, RouteOf, MpgOf
  <2>6. n.car \in BOOLEAN
    <3>1. n # Breakdown  BY <1>4, <1>9
    <3>. QED  BY <1>1, <3>1, PartIs
  <2>. HIDE DEF v, route, mpg
  <2>7. FitsEntry(v, route, mpg)  BY <2>4, <2>5, <2>6 DEF FitsEntry
  <2>8. v # Pending /\ ValueOK(n.kind, v)
    <3>1. v[2] = route[2] /\ v[3] = mpg[2] /\ v[4] = n.car  BY <2>5
    <3>2. v = <<"is", v[2], v[3], v[4]>>  BY <2>5, <3>1
    <3>3. v # <<"pending">>  BY <2>5
    <3>. QED  BY <1>9, <3>2, <3>3 DEF ValueOK, Pending
  <2>9. \A d \in Range(g.selectors) : n # RouteOf(d)  BY <1>3, <1>9
  <2>10. n.kind \notin {"place", "mpg"} /\ n # Breakdown  BY <1>4, <1>9
  <2>11. ValueGiven(g, n, v, Household)  BY <2>3, <2>7, <2>8, <2>9, <2>10 DEF ValueGiven, route, mpg
  <2>. QED  BY <2>1, <2>3, <2>11 DEF route, mpg
<1>10. CASE n = Breakdown
  <2>1. Inputs(g, n) = Range(g.selectors) \cup {Persons}  BY <1>10, SumReads
  <2>2. ASSUME NEW e \in Range(g.selectors)
        PROVE  g.memory[e].value # Pending /\ g.memory[e].value \notin Impossible
    <3>1. e # Persons /\ e # Breakdown  BY <1>1, SelectorsAre
    <3>2. Free(g, n, e)  BY <1>10, <2>1, <3>1 DEF Free
    <3>3. Settled(g, n, e)  BY <1>1 DEF PipesFit, PipeFits
    <3>. QED  BY <2>1, <3>1, <3>2, <3>3 DEF Settled
  <2>3. Entries(g) = Range(g.selectors)  BY DEF Entries, LiveKeys
  <2>4. v = SumValue(g, Range(g.selectors))  BY <1>4, <1>10, <2>3 DEF Value, SumValue
  <2>5. \A d, e \in Range(g.selectors) : d.key = e.key => d = e  BY <1>1, OneEntry
  <2>. DEFINE s == SumValue(g, Range(g.selectors))
  <2>6. /\ s = <<"sum", s[2]>> /\ DOMAIN s[2] = LiveKeys(g)
        /\ \A e \in Range(g.selectors) : s[2][e.key] = g.memory[e].value
    BY <2>5, SumValueIs DEF LiveKeys
  <2>. HIDE DEF v, s
  <2>7. v = s  BY <2>4 DEF s
  <2>8. SumOf(g, v)  BY <2>2, <2>6, <2>7 DEF SumOf
  <2>9. v # Pending /\ ValueOK(n.kind, v)  BY <1>4, <1>10, <2>6, <2>7 DEF ValueOK, Pending
  <2>10. ValueGiven(g, n, v, Household)  BY <1>3, <1>4, <1>10, <2>8, <2>9 DEF ValueGiven
  <2>. QED  BY <2>1, <2>2, <2>10
<1>. QED  BY <1>1, <1>6, <1>7, <1>8, <1>9, <1>10, KindsOf

-----------------------------------------------------------------------------
(* A refresh is put off. *)
PendingRow(g, basis) == [value |-> Pending, at |-> g.clock + 1, basis |-> basis]
KeptRow(g, n, basis) == [value |-> g.memory[n].value, at |-> g.clock + 1, basis |-> basis]

LEMMA PutOffDoes ==
    ASSUME NEW g, IsGraph(g), IsSeq(g.queue), NEW n \in DOMAIN g.memory \ {Persons},
           Id(n) \notin g.scheduled, NEW basis
    PROVE  LET h == PutOff(g, n, basis)
           IN  /\ Put(g, h, n, PendingRow(g, basis), KeptRow(g, n, basis))
               /\ IF g.memory[n].value = Pending THEN Queues(g, h, n) ELSE Still(g, h)
<1>. DEFINE kept == g.memory[n].value
            r == [value |-> Pending, at |-> 0, basis |-> basis]
            s == Store(g, n, r)
            m == [s EXCEPT !.memory[n].value = kept]
            h == PutOff(g, n, basis)
            row == PendingRow(g, basis)
            mem == KeptRow(g, n, basis)
<1>1. h = IF kept = Pending THEN Schedule(m, <<n>>) ELSE m  BY DEF PutOff
<1>2. Stamped(g, r) = row  BY DEF Stamped, PendingRow
<1>3. /\ IsGraph(s) /\ s.clock = g.clock + 1 /\ s.memory = Recorded(g, n, row) /\ s.rows = Tabled(g, n, row)
      /\ s.selectors = g.selectors /\ s.queue = g.queue /\ s.scheduled = g.scheduled
  BY <1>2, StoreDoes
<1>. HIDE DEF s, r, row, mem
<1>4. /\ IsGraph(m) /\ m.clock = s.clock /\ m.rows = s.rows /\ m.selectors = s.selectors
      /\ m.queue = s.queue /\ m.scheduled = s.scheduled
      /\ m.memory = [s.memory EXCEPT ![n] = [s.memory[n] EXCEPT !.value = kept]]
  <2>. HIDE DEF kept
  <2>. QED  BY <1>3 DEF IsGraph, Fields
<1>5. [row EXCEPT !.value = kept] = mem
  <2>. HIDE DEF kept
  <2>1. row = [value |-> Pending, at |-> g.clock + 1, basis |-> basis]  BY DEF row, PendingRow
  <2>2. mem = [value |-> kept, at |-> g.clock + 1, basis |-> basis]  BY DEF mem, KeptRow, kept
  <2>. QED  BY <2>1, <2>2
<1>6. m.memory = Recorded(g, n, mem)
  <2>1. s.memory[n] = row  BY <1>3 DEF Recorded
  <2>2. m.memory = [s.memory EXCEPT ![n] = mem]  BY <1>4, <1>5, <2>1
  <2>. HIDE DEF m
  <2>. QED  BY <1>3, <2>2 DEF Recorded
<1>. HIDE DEF m, kept
<1>7. Put(g, m, n, row, mem)  BY <1>3, <1>4, <1>6 DEF Put
<1>8. CASE kept # Pending
  <2>1. h = m  BY <1>1, <1>8
  <2>2. Still(g, m)  BY <1>3, <1>4 DEF Still
  <2>. HIDE DEF h
  <2>. QED  BY <1>7, <1>8, <2>1, <2>2 DEF h, kept, row, mem
<1>9. CASE kept = Pending
  <2>. DEFINE k == Schedule(m, <<n>>)
              due == Due(m, <<n>>)
  <2>1. IsGraph(k) /\ Requeued(m, k) /\ k.queue = m.queue \o due /\ k.scheduled = m.scheduled \cup Ids(due)
    BY <1>4, ScheduleDoes
  <2>2. h = k  BY <1>1, <1>9
  <2>3. Range(<<n>>) = {n}  BY OneOf
  <2>4. due = <<n>>
    <3>1. n \in {x \in Range(<<n>>) : Id(x) \notin m.scheduled}  BY <1>3, <1>4, <2>3
    <3>. QED  BY <3>1, AmongOne DEF Due
  <2>. HIDE DEF k, h, due
  <2>5. Ids(due) = {Id(n)}  BY <2>3, <2>4 DEF Ids
  <2>6. Put(g, k, n, row, mem)  BY <1>7, <2>1 DEF Put, Requeued
  <2>7. Queues(g, k, n)  BY <1>3, <1>4, <2>1, <2>4, <2>5 DEF Queues
  <2>. QED  BY <1>9, <2>2, <2>6, <2>7 DEF h, kept, row, mem
<1>. QED  BY <1>8, <1>9

\* What is put off is an entry whose route is queued, or the breakdown.
LEMMA PutOffIs ==
    ASSUME NEW g, NEW n, NEW people, AtWork(g, n, people), NEW d \in Inputs(g, n), Id(d) \in g.scheduled
    PROVE  /\ n \in Active(g)
           /\ \/ n = Breakdown
              \/ n \in Range(g.selectors) /\ n # Breakdown /\ n.kind = "entry" /\ Id(RouteOf(n)) \in g.scheduled
<1>1. Sound(g) /\ Queued(g) /\ Refreshed(g, n) /\ Ready(g, n)  BY DEF AtWork, Main
<1>2. Id(Persons) \notin g.scheduled
  <2>1. SUFFICES ASSUME NEW m \in DOMAIN g.memory \ {Persons}, Id(m) = Id(Persons) PROVE FALSE
    BY <1>1 DEF Queued, Ids
  <2>2. m.kind = "persons"  BY <2>1, Fixed DEF Id
  <2>3. m # Breakdown  BY <2>2, Fixed
  <2>4. m.kind \in {HomeKind(m.key), "route", "mpg", "entry"} /\ HomeKind(m.key) \in {"place", "school"}
    BY <1>1, <2>3, PartIs
  <2>. QED  BY <2>2, <2>4
<1>3. d # Persons  BY <1>2
<1>4. n.kind \notin {"place", "mpg", "school"}  BY <1>3 DEF Inputs
<1>5. n \in Active(g)  BY <1>1, <1>4 DEF Refreshed
<1>6. CASE n = Breakdown  BY <1>5, <1>6
<1>7. ASSUME NEW e \in Range(g.selectors), n = RouteOf(e) PROVE FALSE
  <2>1. d = HomeOf(e)  BY <1>1, <1>7, ReadsAre
  <2>. QED  BY <1>1, <1>7, <2>1 DEF Ready
<1>8. CASE n.kind = "entry" /\ n \in Range(g.selectors)
  <2>1. d \in {RouteOf(n), MpgOf(n)}  BY <1>1, <1>8, ReadsAre
  <2>2. Id(MpgOf(n)) \notin g.scheduled  BY <1>1, <1>8 DEF Ready
  <2>3. n # Breakdown  BY <1>8, Fixed
  <2>. QED  BY <1>5, <1>8, <2>1, <2>2, <2>3
<1>. QED  BY <1>1, <1>4, <1>6, <1>7, <1>8, KindsOf

LEMMA PutOffMain ==
    ASSUME NEW g, NEW n, NEW people, AtWork(g, n, people), NEW d \in Inputs(g, n), Id(d) \in g.scheduled
    PROVE  Main(PutOff(g, n, Basis(g, Inputs(g, n))), Idle, people)
<1>. DEFINE basis == Basis(g, Inputs(g, n))
            row == PendingRow(g, basis)
            mem == KeptRow(g, n, basis)
            kept == g.memory[n].value
            h == PutOff(g, n, basis)
<1>. HIDE DEF basis, row, mem, kept, h
<1>1. /\ Sound(g) /\ Typed(g) /\ Backed(g) /\ Queued(g) /\ RowsTold(g, people) /\ MemoryTold(g, people)
      /\ RowsLinked(g) /\ RowsSummed(g) /\ PipesFit(g, n) /\ SumStands(g, n)
      /\ n \in DOMAIN g.memory \ {Persons} /\ Id(n) \notin g.scheduled /\ Refreshed(g, n)
  BY DEF AtWork, Main
<1>2. /\ n \in Active(g)
      /\ \/ n = Breakdown
         \/ n \in Range(g.selectors) /\ n # Breakdown /\ n.kind = "entry" /\ Id(RouteOf(n)) \in g.scheduled
  BY PutOffIs
<1>3. BasisOf(g, n, basis)  BY <1>1, RefreshBasis DEF basis
<1>4. Put(g, h, n, row, mem) /\ ((kept = Pending /\ Queues(g, h, n)) \/ (kept # Pending /\ Still(g, h)))
  <2>1. IsGraph(g) /\ IsSeq(g.queue)  BY <1>1, SoundIs DEF Queued
  <2>2. /\ Put(g, h, n, row, mem)
        /\ IF g.memory[n].value = Pending THEN Queues(g, h, n) ELSE Still(g, h)
    BY <1>1, <2>1, PutOffDoes DEF h, row, mem
  <2>3. CASE kept = Pending  BY <2>2, <2>3 DEF kept
  <2>4. CASE kept # Pending  BY <2>2, <2>4 DEF kept
  <2>. QED  BY <2>3, <2>4
<1>5. /\ row = [value |-> Pending, at |-> g.clock + 1, basis |-> basis]
      /\ mem = [value |-> kept, at |-> g.clock + 1, basis |-> basis]
  BY DEF row, mem, kept, PendingRow, KeptRow
<1>6. PutOK(g, n, row, mem, people)
  <2>1. n.kind \in {"entry", "breakdown"} /\ g.clock \in Nat  BY <1>1, <1>2, Fixed DEF Typed
  <2>2. Sourced(n.kind, n.key, basis) /\ \A i \in DOMAIN basis : basis[i] \in 0..g.clock  BY <1>3 DEF BasisOf
  <2>3. \A i \in DOMAIN basis : basis[i] \in 0..(g.clock + 1)
    <3>. TAKE i \in DOMAIN basis
    <3>1. basis[i] \in 0..g.clock  BY <2>2
    <3>. QED  BY <2>1, <3>1
  <2>4. ValueOK(n.kind, kept) /\ ValueOK(n.kind, Pending)  BY <1>1 DEF Typed, RecordOK, ValueOK, kept
  <2>5. g.clock + 1 \in 0..(g.clock + 1) /\ g.clock + 1 > 0  BY <2>1
  <2>6. RecordOK(g.clock + 1, n.kind, n.key, row)  BY <1>5, <2>3, <2>4, <2>5 DEF RecordOK, IsRecord
  <2>7. RecordOK(g.clock + 1, n.kind, n.key, mem)  BY <1>5, <2>2, <2>3, <2>4, <2>5 DEF RecordOK, IsRecord
  <2>. QED  BY <1>5, <2>1, <2>6, <2>7 DEF PutOK, ToldOK
<1>7. Typed(h) /\ Backed(h) /\ RowsTold(h, people) /\ MemoryTold(h, people) /\ RowsLinked(h) /\ RowsSummed(h)
  <2>1. Typed(h) /\ Backed(h)  BY <1>1, <1>4, <1>6, PutTyped
  <2>2. RowsTold(h, people) /\ MemoryTold(h, people)  BY <1>1, <1>4, <1>6, PutTold
  <2>3. RowsLinked(h)  BY <1>1, <1>4, <1>6, PutLinked
  <2>4. RowsSummed(h)  BY <1>1, <1>4, <1>6, PutSummed
  <2>. QED  BY <2>1, <2>2, <2>3, <2>4
<1>8. /\ DOMAIN h.memory = DOMAIN g.memory /\ h.memory[n] = mem
      /\ \A m \in DOMAIN g.memory : m # n => h.memory[m] = g.memory[m]
      /\ DOMAIN h.rows = DOMAIN g.rows \cup {Id(n)} /\ h.rows[Id(n)] = row
      /\ \A i \in DOMAIN g.rows : i # Id(n) => h.rows[i] = g.rows[i]
      /\ Now(h) = Now(g) /\ Active(h) = Active(g) /\ LiveKeys(h) = LiveKeys(g) /\ h.selectors = g.selectors
  BY <1>1, <1>4, PutReads
<1>9. /\ Queued(h)
      /\ \A m \in Active(g) : m # n => (Id(m) \in h.scheduled <=> Id(m) \in g.scheduled)
      /\ \A a, b : Before(h.queue, a, b) => Before(g.queue, a, b) \/ b = n
      /\ Id(n) \notin h.scheduled => kept # Pending
  <2>1. CASE kept = Pending /\ Queues(g, h, n)
    <3>1. Queued(h) /\ Follows(g, h, n)  BY <1>1, <1>2, <1>8, <2>1, QueuesDoes
    <3>. QED  BY <3>1 DEF Follows
  <2>2. CASE kept # Pending /\ Still(g, h)
    <3>1. Queued(h)  BY <1>1, <1>8, <2>2 DEF Still, Queued
    <3>. QED  BY <2>2, <3>1 DEF Still
  <2>. QED  BY <1>4, <2>1, <2>2
<1>10. ASSUME NEW e \in Range(g.selectors), e # n PROVE PipeFits(h, Idle, e)
  <2>1. Piped(g, e) /\ Distinct(e)  BY <1>1, PipedIs, FourApart
  <2>2. n \notin Circle(e)
    <3>1. CASE n = Breakdown  BY <2>1, <3>1 DEF Distinct
    <3>2. CASE n \in Range(g.selectors)
      <4>1. Circle(n) \cap Circle(e) = {}  BY <1>1, <1>10, <3>2, CirclesApart
      <4>. QED  BY <4>1 DEF Circle
    <3>. QED  BY <1>2, <3>1, <3>2
  <2>3. Circle(e) \subseteq Active(g) /\ Circle(e) \subseteq DOMAIN g.memory /\ Idle \notin Circle(e)
    BY <2>1 DEF Piped, Circle, Active, Distinct
  <2>4. Undisturbed(g, h, n, Idle, e)  BY <1>8, <1>9, <2>2, <2>3 DEF Undisturbed
  <2>5. PipeFits(g, n, e)  BY <1>1 DEF PipesFit
  <2>. QED  BY <1>8, <2>4, <2>5, UndisturbedFits
<1>11. ASSUME n \in Range(g.selectors), n # Breakdown, Id(RouteOf(n)) \in g.scheduled PROVE PipeFits(h, Idle, n)
  <2>. DEFINE H == HomeOf(n)
              R == RouteOf(n)
              M == MpgOf(n)
  <2>. HIDE DEF H, R, M
  <2>1. /\ H \notin {R, M, n} /\ R \notin {M, n} /\ M # n /\ Idle \notin {H, R, M, n}
        /\ {H, R, M, n} \subseteq Active(g) \cap DOMAIN g.memory
    <3>1. Distinct(n) /\ Piped(g, n)  BY <1>1, <1>11, FourApart, PipedIs
    <3>. QED  BY <3>1 DEF Distinct, Circle, Piped, Active, H, R, M
  <2>2. h.memory[H] = g.memory[H] /\ h.memory[R] = g.memory[R] /\ h.memory[M] = g.memory[M]  BY <1>8, <2>1
  <2>3. PipeFits(g, n, n) /\ Settled(g, n, n) /\ InOrder(g, n, n)  BY <1>1, <1>11 DEF PipesFit, PipeFits
  <2>4. \A m \in {H, R, M} : Id(m) \in h.scheduled <=> Id(m) \in g.scheduled  BY <1>9, <2>1
  <2>5. WillTell(h, Idle, n) /\ Changes(h, n) /\ Free(h, Idle, H)
    <3>0. \A e \in Range(g.selectors) :
            n = e /\ Id(RouteOf(e)) \in g.scheduled => WillTell(g, Idle, e) /\ Free(g, n, HomeOf(e))
      BY AtWorkReads
    <3>1. WillTell(g, Idle, n) /\ Free(g, n, H)  BY <1>11, <3>0 DEF H
    <3>2. Changes(h, n)  BY <2>2, <3>1 DEF WillTell, Changes, H, R
    <3>3. Free(h, Idle, H)  BY <2>1, <2>4, <3>1 DEF Free
    <3>4. Id(R) \in h.scheduled  BY <1>11, <2>4 DEF R
    <3>. QED  BY <3>2, <3>3, <3>4 DEF WillTell, H, R
  <2>6. EntryFits(h, Idle, n)  BY <2>5 DEF EntryFits
  <2>7. RouteFits(n.key, h.memory[R], h.memory[H])  BY <2>2, <2>3 DEF PipeFits, R, H
  <2>8. Settled(h, Idle, n)
    <3>1. \A m \in {H, R, M} : Free(h, Idle, m) => Free(g, n, m)  BY <2>1, <2>4 DEF Free
    <3>2. Free(h, Idle, n) => h.memory[n].value # Pending  BY <1>5, <1>8, <1>9 DEF Free
    <3>3. HomeSettled(h, H) <=> HomeSettled(g, H)  BY <1>8, <2>2 DEF HomeSettled
    <3>4. HomeSettled(h, M) <=> HomeSettled(g, M)  BY <1>8, <2>2 DEF HomeSettled
    <3>5. RouteSettled(h, n) <=> RouteSettled(g, n)  BY <2>2 DEF RouteSettled, H, R
    <3>. QED  BY <2>3, <2>6, <3>1, <3>2, <3>3, <3>4, <3>5 DEF Settled, H, R, M
  <2>9. InOrder(h, Idle, n)
    <3>1. ~Before(h.queue, R, H) /\ ~Before(h.queue, n, M)  BY <1>9, <2>1, <2>3 DEF InOrder, H, R, M
    <3>. QED  BY <2>1, <2>5, <3>1 DEF InOrder, H, R, M
  <2>. QED  BY <2>6, <2>7, <2>8, <2>9 DEF PipeFits, H, R, M
<1>12. SumStands(h, Idle)
  <2>1. \A e \in Range(g.selectors) : /\ e \in DOMAIN g.memory \ {Persons} /\ e # Breakdown /\ Id(e) # Id(Breakdown)
                                      /\ Id(e) = EntryId(e.key) /\ e.key \in LiveKeys(g)
    BY <1>1, SelectorsAre
  <2>2. Breakdown \in Active(g) /\ Breakdown \in DOMAIN g.memory \ {Persons} /\ Breakdown # Idle
    BY <1>1, SoundIs, Fixed DEF Active, Idle, Breakdown, Node
  <2>3. CASE n = Breakdown
    <3>1. \A v : SumFits(h, v)  BY <1>5, <1>8, <2>3 DEF SumFits
    <3>2. h.memory[Breakdown].basis = basis /\ DOMAIN basis = SumIds(LiveKeys(g))
      BY <1>3, <1>5, <1>8, <2>3 DEF BasisOf
    <3>3. Free(h, Idle, Breakdown) => h.memory[Breakdown].value # Pending  BY <1>5, <1>8, <1>9, <2>3 DEF Free
    <3>. QED  BY <1>8, <3>1, <3>2, <3>3 DEF SumStands, SumCurrent, SumSettled
  <2>4. CASE n \in Range(g.selectors) /\ n # Breakdown
    <3>1. h.memory[Breakdown] = g.memory[Breakdown]  BY <1>8, <2>2, <2>4
    <3>2. SumsAlike(g, h)
      <4>1. \A e \in Range(g.selectors) : h.memory[e].value = g.memory[e].value
        BY <1>5, <1>8, <2>1 DEF kept
      <4>. QED  BY <1>8, <2>1, <2>4, <4>1 DEF SumsAlike
    <3>3. SumCurrent(h)
      <4>. DEFINE r == g.memory[Breakdown]
      <4>. HIDE DEF r
      <4>1. r = g.memory[Breakdown] /\ h.memory[Breakdown] = r  BY <3>1 DEF r
      <4>2. SUFFICES ASSUME r.value # Pending, r.basis[Id(Persons)] = Now(g)
                     PROVE  /\ DOMAIN r.basis = SumIds(LiveKeys(g))
                            /\ ~(\A e \in Range(g.selectors) : h.memory[e].at = r.basis[Id(e)])
        BY <1>8, <4>1 DEF SumCurrent
      <4>3. DOMAIN r.basis = SumIds(LiveKeys(g))  BY <1>1, <4>1, <4>2 DEF SumStands, SumCurrent
      <4>4. Id(n) \in DOMAIN r.basis  BY <2>1, <2>4, <4>3 DEF SumIds
      <4>5. r.basis[Id(n)] \in 0..g.clock  BY <1>1, <2>2, <4>1, <4>4 DEF Typed, RecordOK
      <4>6. h.memory[n].at = g.clock + 1 /\ g.clock \in Nat  BY <1>1, <1>5, <1>8 DEF Typed
      <4>7. h.memory[n].at # r.basis[Id(n)]  BY <4>5, <4>6
      <4>. QED  BY <2>4, <4>3, <4>7
    <3>4. ASSUME Free(h, Idle, Breakdown) PROVE SumSettled(h)
      <4>1. Free(g, n, Breakdown)  BY <1>9, <2>2, <2>4, <3>4 DEF Free
      <4>2. SumSettled(g)  BY <1>1, <4>1 DEF SumStands
      <4>. QED  BY <3>1, <3>2, <4>2, SumFitsAlike DEF SumSettled
    <3>. QED  BY <3>3, <3>4 DEF SumStands
  <2>. QED  BY <1>2, <2>3, <2>4
<1>13. PipesFit(h, Idle)
  <2>1. ASSUME NEW e \in Range(g.selectors) PROVE PipeFits(h, Idle, e)
    <3>1. CASE e # n  BY <1>10, <3>1
    <3>2. CASE e = n
      <4>1. n # Breakdown /\ Id(RouteOf(n)) \in g.scheduled
        <5>1. e # Breakdown  BY <1>1, SelectorsAre
        <5>. QED  BY <1>2, <3>2, <5>1
      <4>. QED  BY <1>11, <3>2, <4>1
    <3>. QED  BY <3>1, <3>2
  <2>. QED  BY <1>8, <2>1 DEF PipesFit
<1>14. Main(h, Idle, people)  BY <1>7, <1>9, <1>12, <1>13 DEF Main
<1>. QED  BY <1>14 DEF h, basis

-----------------------------------------------------------------------------
(* The steps of the processor. *)
LEMMA RefreshMain ==
    ASSUME Sound(graph), Main(graph, running.node, Household), LiveKeys(graph) \subseteq Range(Keys(Household)), Refresh
    PROVE  Main(graph', running'.node, Household) /\ UnderWay(graph', running', Household)
<1>. DEFINE n == Head(graph.queue)
            g == Popped(graph, n)
            read == Inputs(g, n)
            basis == Basis(g, read)
            values == {g.memory[d].value : d \in read \ {Persons}}
<1>1. /\ running.node = Idle /\ graph.queue # <<>>
      /\ \/ ~IsStale(g, n) /\ graph' = g /\ running' = running
         \/ values \cap Impossible # {} /\ graph' = Complete(g, n, <<"impossible">>, basis) /\ running' = running
         \/ /\ values \cap Impossible = {} /\ \E d \in read : Id(d) \in g.scheduled
            /\ graph' = PutOff(g, n, basis) /\ running' = running
         \/ /\ values \cap Impossible = {} /\ \A d \in read : Id(d) \notin g.scheduled
            /\ graph' = g
            /\ running' = IF Pending \in values THEN running ELSE [node |-> n, value |-> Value(g, n), basis |-> basis]
  BY DEF Refresh, Popped, Basis
<1>. HIDE DEF n, g
<1>2. /\ Main(g, n, Household) /\ Ready(g, n) /\ Sound(g) /\ n \in DOMAIN graph.memory \ {Persons}
      /\ Id(n) \notin g.scheduled /\ (n \notin Active(graph) => n.kind \in {"place", "mpg"})
  <2>1. Main(graph, Idle, Household)  BY <1>1
  <2>. QED  BY <1>1, <2>1, PoppedMain DEF g, n
<1>3. g.memory = graph.memory /\ g.selectors = graph.selectors
  <2>1. IsGraph(graph)  BY SoundIs
  <2>. QED  BY <2>1, PoppedIs DEF g, Requeued
<1>4. Active(g) = Active(graph) /\ LiveKeys(g) = LiveKeys(graph)  BY <1>3 DEF Active, Pipes, LiveKeys
<1>5. AtWork(g, n, Household)  BY <1>2, <1>3, <1>4 DEF AtWork, Refreshed
<1>6. Typed(g) /\ Queued(g)  BY <1>2 DEF Main
<1>7. running.node = Idle  BY <1>1
<1>. HIDE DEF read, basis
<1>8. CASE ~IsStale(g, n) /\ graph' = g /\ running' = running
  <2>1. Main(g, Idle, Household)  BY <1>2, <1>5, <1>8, FreshRight, Release
  <2>. QED  BY <1>7, <1>8, <2>1 DEF UnderWay
<1>9. CASE values \cap Impossible # {} /\ graph' = Complete(g, n, <<"impossible">>, basis) /\ running' = running
  <2>1. PICK d \in Inputs(g, n) \ {Persons} : g.memory[d].value \in Impossible  BY <1>9 DEF read
  <2>2. Given(g, n, <<"impossible">>, basis, Household)  BY <1>5, <2>1, ImpossibleGiven DEF basis, read
  <2>. DEFINE impossible == <<"impossible">>
  <2>3. impossible \in Impossible  BY DEF Impossible
  <2>. HIDE DEF impossible
  <2>4. PICK row : Stored(g, graph', n, row, Household) /\ Spread(g, graph', n, row)
    BY <1>2, <1>6, <1>9, <2>2, <2>3, CompleteStores DEF impossible
  <2>5. Main(graph', Idle, Household)  BY <1>2, <2>4, StoredMain
  <2>. QED  BY <1>7, <1>9, <2>5 DEF UnderWay
<1>10. CASE (\E d \in read : Id(d) \in g.scheduled) /\ graph' = PutOff(g, n, basis) /\ running' = running
  <2>1. Main(graph', Idle, Household)  BY <1>5, <1>10, PutOffMain DEF basis, read
  <2>. QED  BY <1>7, <1>10, <2>1 DEF UnderWay
<1>11. CASE /\ values \cap Impossible = {} /\ \A d \in read : Id(d) \notin g.scheduled
            /\ graph' = g
            /\ running' = IF Pending \in values THEN running ELSE [node |-> n, value |-> Value(g, n), basis |-> basis]
  <2>1. \A d \in Inputs(g, n) \ {Persons} : g.memory[d].value \notin Impossible  BY <1>11 DEF read
  <2>2. /\ Given(g, n, Value(g, n), basis, Household)
        /\ \A d \in read \ {Persons} : g.memory[d].value # Pending
    BY <1>4, <1>5, <1>11, <2>1, StartGiven DEF basis, read
  <2>3. Pending \notin values  BY <2>2
  <2>. HIDE DEF values
  <2>4. running' = [node |-> n, value |-> Value(g, n), basis |-> basis]  BY <1>11, <2>3
  <2>. QED  BY <1>2, <1>11, <2>2, <2>4 DEF UnderWay
<1>. QED  BY <1>1, <1>8, <1>9, <1>10, <1>11

-----------------------------------------------------------------------------
(* Nodes that have just been built. *)
TableOK(g) ==
    /\ g.clock \in Nat /\ Now(g) \in 1..g.clock
    /\ \A i \in DOMAIN g.rows : RecordOK(g.clock, i[1], i[2], g.rows[i]) /\ g.rows[i].at > 0
    /\ \A i \in DOMAIN g.rows : i[1] \in {"entry", "breakdown"} \/ g.rows[i].value # Pending

LEMMA RestoredIs ==
    ASSUME NEW g, TableOK(g), NEW n
    PROVE  /\ RecordOK(g.clock, n.kind, n.key, Restored(g, n)) /\ BackedBy(n, Restored(g, n), g.rows)
           /\ Id(n) \in DOMAIN g.rows => Restored(g, n) = g.rows[Id(n)] /\ Restored(g, n).at > 0
           /\ Id(n) \notin DOMAIN g.rows => Restored(g, n).value = Pending
           /\ Restored(g, n).value # Pending => Sourced(n.kind, n.key, Restored(g, n).basis)
<1>1. Id(n)[1] = n.kind /\ Id(n)[2] = n.key  BY DEF Id
<1>2. CASE Id(n) \in DOMAIN g.rows
  <2>1. Restored(g, n) = g.rows[Id(n)]  BY <1>2 DEF Restored
  <2>2. RecordOK(g.clock, n.kind, n.key, g.rows[Id(n)]) /\ g.rows[Id(n)].at > 0  BY <1>1, <1>2 DEF TableOK
  <2>3. BackedBy(n, g.rows[Id(n)], g.rows)  BY <1>2 DEF BackedBy
  <2>4. g.rows[Id(n)].value # Pending => Sourced(n.kind, n.key, g.rows[Id(n)].basis)  BY <2>2 DEF RecordOK
  <2>. QED  BY <1>2, <2>1, <2>2, <2>3, <2>4
<1>3. CASE Id(n) \notin DOMAIN g.rows
  <2>1. Restored(g, n) = Never  BY <1>3 DEF Restored
  <2>2. Never.value = Pending /\ Never.at = 0 /\ DOMAIN Never.basis = {} /\ IsRecord(Never)  BY DEF Never, IsRecord
  <2>3. RecordOK(g.clock, n.kind, n.key, Never)  BY <2>2 DEF RecordOK, ValueOK, TableOK
  <2>4. BackedBy(n, Never, g.rows)  BY <1>3, <2>2 DEF BackedBy
  <2>. QED  BY <1>3, <2>1, <2>2, <2>3, <2>4
<1>. QED  BY <1>2, <1>3

\* What is not stale is of what it reads.
LEMMA NotStale ==
    ASSUME NEW g, NEW n, ~IsStale(g, n), NEW d \in Inputs(g, n), g.memory[d].at # 0,
           Id(d) \in DOMAIN g.memory[n].basis
    PROVE  g.memory[n].basis[Id(d)] = g.memory[d].at
BY DEF IsStale

LEMMA NotStaleIsThere == ASSUME NEW g, NEW n, ~IsStale(g, n) PROVE g.memory[n].value # Pending
BY DEF IsStale

NewPipe(h, held, e) ==
    /\ \A m \in Circle(e) : /\ h.memory[m] = Restored(h, m) /\ held # m
                            /\ IsStale(h, m) => Id(m) \in h.scheduled
    /\ \A a, b \in Circle(e) : Before(h.queue, a, b) => Rank(a.kind) < Rank(b.kind)

LEMMA NewPipeFits ==
    ASSUME NEW h, Sound(h), TableOK(h), RowsLinked(h), NEW held, NEW e \in Range(h.selectors), NewPipe(h, held, e)
    PROVE  PipeFits(h, held, e)
<1>. DEFINE H == HomeOf(e)
            R == RouteOf(e)
            M == MpgOf(e)
            key == e.key
<1>1. Piped(h, e) /\ Distinct(e)  BY PipedIs, FourApart
<1>2. /\ Inputs(h, H) = IF HomeKind(key) = "place" THEN {Persons} ELSE {}
      /\ Inputs(h, M) = {Persons} /\ Inputs(h, R) = {H} /\ Inputs(h, e) = {R, M}
  BY ReadsAre
<1>. HIDE DEF H, R, M
<1>3. /\ {H, R, M, e} = Circle(e) /\ H \notin {R, M, e} /\ R \notin {M, e} /\ M # e
      /\ Id(H) = HomeId(key) /\ Id(R) = RouteId(key) /\ Id(M) = MpgId(key) /\ Id(e) = EntryId(key)
      /\ H.kind = HomeKind(key) /\ HomeKind(key) \in {"place", "school"}
      /\ R.kind = "route" /\ M.kind = "mpg" /\ e.kind = "entry"
      /\ H.key = key /\ R.key = key /\ M.key = key /\ key \in AllKeys
  BY <1>1 DEF Piped, Distinct, Circle, H, R, M
<1>. HIDE DEF key
<1>4. \A m \in {H, R, M, e} : /\ h.memory[m] = Restored(h, m) /\ held # m
                              /\ Free(h, held, m) => ~IsStale(h, m) /\ h.memory[m].value # Pending
  BY <1>3, NotStaleIsThere DEF NewPipe, Free
<1>5. \A m \in {H, R, M, e} :
        /\ Id(m) \in DOMAIN h.rows => h.memory[m] = h.rows[Id(m)] /\ h.memory[m].at > 0
        /\ h.memory[m].value # Pending =>
             Id(m) \in DOMAIN h.rows /\ h.memory[m] = h.rows[Id(m)] /\ h.memory[m].at > 0
             /\ Sourced(m.kind, m.key, h.memory[m].basis)
  BY <1>4, RestoredIs
<1>6. RoutesRow(key, h.rows) /\ EntrysRow(key, h.rows)  BY <1>3 DEF RowsLinked
<1>7. h.memory[R].value # Pending =>
        /\ Id(H) \in DOMAIN h.rows /\ h.memory[H].at > 0 /\ h.memory[H].value # Pending
        /\ RouteFits(key, h.memory[R], h.memory[H])
  <2>. SUFFICES ASSUME h.memory[R].value # Pending
                PROVE  /\ Id(H) \in DOMAIN h.rows /\ h.memory[H].at > 0 /\ h.memory[H].value # Pending
                       /\ RouteFits(key, h.memory[R], h.memory[H])
    OBVIOUS
  <2>1. Id(R) \in DOMAIN h.rows /\ h.memory[R] = h.rows[Id(R)]  BY <1>5
  <2>2. HomeId(key) \in DOMAIN h.rows /\ RouteFits(key, h.rows[RouteId(key)], h.rows[HomeId(key)])
    BY <1>3, <1>6, <2>1 DEF RoutesRow
  <2>3. h.memory[H] = h.rows[Id(H)] /\ h.memory[H].at > 0  BY <1>3, <1>5, <2>2
  <2>4. h.rows[Id(H)].value # Pending
    <3>1. Id(H)[1] = H.kind  BY DEF Id
    <3>. QED  BY <1>3, <2>2, <3>1 DEF TableOK
  <2>. QED  BY <1>3, <2>1, <2>2, <2>3, <2>4
<1>8. RouteFits(key, h.memory[R], h.memory[H])
  <2>1. h.memory[R].value = Pending => RouteFits(key, h.memory[R], h.memory[H])  BY DEF RouteFits
  <2>. QED  BY <1>7, <2>1
<1>9. h.memory[e].value # Pending =>
        /\ Id(R) \in DOMAIN h.rows /\ Id(M) \in DOMAIN h.rows /\ h.memory[R].at > 0 /\ h.memory[M].at > 0
        /\ EntryCurrent(key, h.memory[e], h.memory[R], h.memory[M]) => EntryOf(h.memory[e], h.memory[R], h.memory[M])
  <2>. SUFFICES ASSUME h.memory[e].value # Pending
                PROVE  /\ Id(R) \in DOMAIN h.rows /\ Id(M) \in DOMAIN h.rows /\ h.memory[R].at > 0 /\ h.memory[M].at > 0
                       /\ EntryCurrent(key, h.memory[e], h.memory[R], h.memory[M])
                            => EntryOf(h.memory[e], h.memory[R], h.memory[M])
    OBVIOUS
  <2>1. Id(e) \in DOMAIN h.rows /\ h.memory[e] = h.rows[Id(e)]  BY <1>5
  <2>2. /\ RouteId(key) \in DOMAIN h.rows /\ MpgId(key) \in DOMAIN h.rows
        /\ EntryCurrent(key, h.rows[EntryId(key)], h.rows[RouteId(key)], h.rows[MpgId(key)])
             => EntryOf(h.rows[EntryId(key)], h.rows[RouteId(key)], h.rows[MpgId(key)])
    BY <1>3, <1>6, <2>1 DEF EntrysRow
  <2>3. h.memory[R] = h.rows[RouteId(key)] /\ h.memory[R].at > 0  BY <1>3, <1>5, <2>2
  <2>4. h.memory[M] = h.rows[MpgId(key)] /\ h.memory[M].at > 0  BY <1>3, <1>5, <2>2
  <2>. QED  BY <1>3, <2>1, <2>2, <2>3, <2>4
<1>10. EntryOf(h.memory[e], h.memory[R], h.memory[M]) => EntryFits(h, held, e)  BY DEF EntryFits, R, M
<1>11. EntryCurrent(key, h.memory[e], h.memory[R], h.memory[M]) => EntryFits(h, held, e)
  <2>1. EntryCurrent(key, h.memory[e], h.memory[R], h.memory[M]) => h.memory[e].value # Pending  BY DEF EntryCurrent
  <2>. QED  BY <1>9, <1>10, <2>1
<1>12. Settled(h, held, e)
  <2>1. ASSUME NEW m \in {H, M}, Free(h, held, m) PROVE HomeSettled(h, m)
    <3>1. ~IsStale(h, m) /\ h.memory[m].value # Pending  BY <1>4, <2>1
    <3>2. m.kind # "school" => h.memory[m].basis[Id(Persons)] = Now(h)
      <4>. SUFFICES ASSUME m.kind # "school" PROVE h.memory[m].basis[Id(Persons)] = Now(h)  OBVIOUS
      <4>1. m.kind \in {"place", "mpg"} /\ Persons \in Inputs(h, m)  BY <1>2, <1>3
      <4>2. Sourced(m.kind, m.key, h.memory[m].basis)  BY <1>5, <3>1
      <4>3. Id(Persons) \in DOMAIN h.memory[m].basis  BY <4>1, <4>2 DEF Sourced, SourceIds
      <4>4. h.memory[Persons].at # 0  BY DEF TableOK, Now
      <4>. QED  BY <3>1, <4>1, <4>3, <4>4, NotStale DEF Now
    <3>. QED  BY <3>1, <3>2 DEF HomeSettled
  <2>2. ASSUME Free(h, held, R) PROVE RouteSettled(h, e)
    <3>1. ~IsStale(h, R) /\ h.memory[R].value # Pending  BY <1>4, <2>2
    <3>2. h.memory[H].at # 0 /\ h.memory[H].value # Pending  BY <1>7, <3>1
    <3>3. Sourced("route", key, h.memory[R].basis)  BY <1>3, <1>5, <3>1
    <3>4. Id(H) \in DOMAIN h.memory[R].basis  BY <1>3, <3>3 DEF Sourced, SourceIds
    <3>5. h.memory[R].basis[HomeId(key)] = h.memory[H].at  BY <1>2, <1>3, <3>1, <3>2, <3>4, NotStale
    <3>. QED  BY <1>8, <3>1, <3>2, <3>5 DEF RouteFits, RouteSettled, H, R
  <2>3. ASSUME Free(h, held, e) PROVE h.memory[e].value # Pending /\ EntryFits(h, held, e)
    <3>1. ~IsStale(h, e) /\ h.memory[e].value # Pending  BY <1>4, <2>3
    <3>2. h.memory[R].at # 0 /\ h.memory[M].at # 0  BY <1>9, <3>1
    <3>3. Sourced("entry", key, h.memory[e].basis)
      <4>1. e.key = key  BY DEF key
      <4>. QED  BY <1>3, <1>5, <3>1, <4>1
    <3>4. Id(R) \in DOMAIN h.memory[e].basis /\ Id(M) \in DOMAIN h.memory[e].basis
      BY <1>3, <3>3 DEF Sourced, SourceIds
    <3>5. h.memory[e].basis[Id(R)] = h.memory[R].at  BY <1>2, <3>1, <3>2, <3>4, NotStale
    <3>6. h.memory[e].basis[Id(M)] = h.memory[M].at  BY <1>2, <3>1, <3>2, <3>4, NotStale
    <3>7. EntryCurrent(key, h.memory[e], h.memory[R], h.memory[M])  BY <1>3, <3>1, <3>5, <3>6 DEF EntryCurrent
    <3>. QED  BY <1>11, <3>1, <3>7
  <2>. QED  BY <2>1, <2>2, <2>3 DEF Settled, H, R, M
<1>13. InOrder(h, held, e)
  <2>1. \A a, b \in {H, R, M, e} : Before(h.queue, a, b) => Rank(a.kind) < Rank(b.kind)  BY <1>3 DEF NewPipe
  <2>2. Rank(H.kind) = 1 /\ Rank(R.kind) = 2 /\ Rank(M.kind) = 3 /\ Rank(e.kind) = 4  BY <1>3 DEF Rank
  <2>3. ~Before(h.queue, R, H)  BY <2>1, <2>2
  <2>4. ~Before(h.queue, e, M)  BY <2>1, <2>2
  <2>5. ~Before(h.queue, e, R)  BY <2>1, <2>2
  <2>. QED  BY <1>4, <2>3, <2>4, <2>5 DEF InOrder, H, R, M
<1>. QED  BY <1>8, <1>11, <1>12, <1>13 DEF PipeFits, H, R, M, key

-----------------------------------------------------------------------------
(* Those that are told and stale are queued, in their order. *)
LEMMA OneIdAmong == ASSUME NEW s, IsSeq(s), OneId(s), NEW T PROVE OneId(Among(s, T))
<1>. DEFINE t == Among(s, T)
<1>1. PICK pick : Keeps(s, T, t, pick)  BY AmongKeeps
<1>. HIDE DEF t
<1>2. IsSeq(t) /\ Len(t) \in Nat /\ Len(s) \in Nat  BY <1>1, SeqFacts DEF Keeps
<1>3. ASSUME NEW j \in 1..Len(t), NEW k \in 1..Len(t), Id(t[j]) = Id(t[k]) PROVE j = k
  <2>1. pick[j] \in 1..Len(s) /\ pick[k] \in 1..Len(s) /\ t[j] = s[pick[j]] /\ t[k] = s[pick[k]]
    BY <1>1 DEF Keeps
  <2>2. pick[j] = pick[k]  BY <1>3, <2>1 DEF OneId
  <2>3. ~(j < k) /\ ~(k < j)  BY <1>1, <2>1, <2>2 DEF Keeps
  <2>. QED  BY <1>2, <2>3
<1>. QED  BY <1>3 DEF OneId, t

LEMMA RankedOneId ==
    ASSUME NEW s, IsSeq(s), Ranked(s)
    PROVE  /\ OneId(s)
           /\ \A a, b : Before(s, a, b) /\ a.key = b.key => Rank(a.kind) < Rank(b.kind)
<1>1. \A k : Rank(k) \in Nat  BY DEF Rank
<1>2. Len(s) \in Nat  BY SeqFacts
<1>3. ASSUME NEW j \in 1..Len(s), NEW k \in 1..Len(s), Id(s[j]) = Id(s[k]) PROVE j = k
  <2>1. s[j].kind = s[k].kind /\ s[j].key = s[k].key  BY <1>3 DEF Id
  <2>2. ~(j < k) /\ ~(k < j)  BY <1>1, <2>1 DEF Ranked
  <2>. QED  BY <1>2, <2>2
<1>4. ASSUME NEW a, NEW b, Before(s, a, b), a.key = b.key PROVE Rank(a.kind) < Rank(b.kind)
  BY <1>4 DEF Before, Ranked
<1>. QED  BY <1>3, <1>4 DEF OneId

\* Due is what ns has of stale nodes whose ids are not scheduled.
Joins(g, ns, h, due) ==
    /\ IsSeq(due) /\ h.queue = g.queue \o due /\ h.scheduled = g.scheduled \cup Ids(due)
    /\ \A n : n \in Range(due) <=> n \in Range(ns) /\ IsStale(g, n) /\ Id(n) \notin g.scheduled
    /\ Ranked(ns) => Ranked(due)
    /\ OneId(ns) => OneId(due)

LEMMA NotifyDoes ==
    ASSUME NEW g, IsGraph(g), NEW ns, IsSeq(ns)
    PROVE  \E due : Joins(g, ns, Notify(g, ns), due)
<1>. DEFINE T == {n \in Range(ns) : IsStale(g, n)}
            old == Among(ns, T)
            U == {n \in Range(old) : Id(n) \notin g.scheduled}
            due == Among(old, U)
            h == Notify(g, ns)
<1>1. h.queue = g.queue \o Due(g, old) /\ h.scheduled = g.scheduled \cup Ids(Due(g, old))
  BY ScheduleDoes DEF Notify
<1>2. Due(g, old) = due  BY DEF Due
<1>3. \A n : n \in T <=> n \in Range(ns) /\ IsStale(g, n)  OBVIOUS
<1>4. \A n : n \in U <=> n \in Range(old) /\ Id(n) \notin g.scheduled  OBVIOUS
<1>. HIDE DEF T, U
<1>5. IsSeq(old) /\ Range(old) = Range(ns) \cap T  BY AmongHolds
<1>6. (Ranked(ns) => Ranked(old)) /\ (OneId(ns) => OneId(old))  BY RankedAmong, OneIdAmong
<1>. HIDE DEF old
<1>7. IsSeq(due) /\ Range(due) = Range(old) \cap U  BY <1>5, AmongHolds
<1>8. (Ranked(old) => Ranked(due)) /\ (OneId(old) => OneId(due))  BY <1>5, RankedAmong, OneIdAmong
<1>. HIDE DEF due, h
<1>9. \A n : n \in Range(due) <=> n \in Range(ns) /\ IsStale(g, n) /\ Id(n) \notin g.scheduled
  BY <1>3, <1>4, <1>5, <1>7
<1>10. Joins(g, ns, h, due)  BY <1>1, <1>2, <1>6, <1>7, <1>8, <1>9 DEF Joins
<1>. QED  BY <1>10 DEF h

\* A node is as stale as it was while it and what it reads are what they were.
LEMMA StaleAlike ==
    ASSUME NEW g, NEW h, NEW n, Inputs(h, n) = Inputs(g, n), h.memory[n] = g.memory[n],
           \A d \in Inputs(g, n) : h.memory[d] = g.memory[d]
    PROVE  IsStale(h, n) <=> IsStale(g, n)
BY DEF IsStale

LEMMA InputsAlike ==
    ASSUME NEW g, NEW h, DOMAIN h.memory \ {Breakdown} = DOMAIN g.memory \ {Breakdown},
           NEW n, n = Node(n.kind, n.key, n.born, n.car), n.kind \in Kinds
    PROVE  Inputs(h, n) = Inputs(g, n)
<1>1. \A kind : Sibling(n, kind).kind = kind  BY SiblingIs
<1>2. Breakdown.kind = "breakdown"  BY Fixed
<1>3. Sibling(n, "place") # Breakdown /\ Sibling(n, "school") # Breakdown  BY <1>1, <1>2
<1>4. Home(h, n) = Home(g, n)  BY <1>3 DEF Home
<1>5. n.kind # "breakdown"  BY DEF Kinds
<1>6. CASE n.kind \in {"place", "mpg"}  BY <1>6 DEF Inputs
<1>7. CASE n.kind = "school"  BY <1>7 DEF Inputs
<1>8. CASE n.kind = "route"  BY <1>4, <1>8 DEF Inputs
<1>9. CASE n.kind = "entry"  BY <1>9 DEF Inputs
<1>. QED  BY <1>6, <1>7, <1>8, <1>9 DEF Kinds

\* The nodes that are built are queued behind those that were, each after what it reads.
LEMMA BuildQueues ==
    ASSUME KeysAreUnique, NEW people \in Documents, NEW g, IsGraph(g), NEW keys, NEW born
    PROVE  LET ns == NewNodes(people, keys, born)
               h == BuildPipelines(g, people, keys, born)
           IN  /\ \E due : Joins(Wired(g, ns), ns, h, due) /\ Ranked(due)
               /\ Wired(g, ns).queue = g.queue /\ Wired(g, ns).scheduled = g.scheduled
               /\ Wired(g, ns).memory = h.memory
<1>. DEFINE ns == NewNodes(people, keys, born)
            w == Wired(g, ns)
            h == BuildPipelines(g, people, keys, born)
<1>1. IsGraph(w) /\ w.queue = g.queue /\ w.scheduled = g.scheduled /\ w.memory = Remembered(g, ns)  BY WiredDoes
<1>2. IsSeq(ns) /\ Ranked(ns)  BY NewNodesAre
<1>3. h.memory = Remembered(g, ns) /\ h.queue = Notify(w, ns).queue /\ h.scheduled = Notify(w, ns).scheduled
  BY BuildDoes
<1>. HIDE DEF ns, w, h
<1>4. PICK due : Joins(w, ns, Notify(w, ns), due)  BY <1>1, <1>2, NotifyDoes
<1>5. Joins(w, ns, h, due) /\ Ranked(due)  BY <1>2, <1>3, <1>4 DEF Joins
<1>. QED  BY <1>1, <1>3, <1>5 DEF ns, w, h

\* A property that has just been opened.
Fresh(h) ==
    /\ DOMAIN h.memory \ {Persons} = Active(h)
    /\ \A m \in Active(h) : h.memory[m] = Restored(h, m) /\ (IsStale(h, m) => Id(m) \in h.scheduled)
    /\ IsSeq(h.queue) /\ OneId(h.queue) /\ Range(h.queue) \subseteq Active(h) /\ h.scheduled = Ids(h.queue)
    /\ \A a, b : Before(h.queue, a, b) /\ a.key = b.key => Rank(a.kind) < Rank(b.kind)

LEMMA OpenIs ==
    ASSUME KeysAreUnique, ChildrenStayChildren, NEW people \in Documents, NEW born \in Nat \ {0},
           NEW g, IsGraph(g)
    PROVE  LET h == Open(g, people, born)
           IN  /\ Fresh(h) /\ Sound(h) /\ h.rows = g.rows /\ h.clock = g.clock /\ Now(h) = Now(g)
               /\ LiveKeys(h) = RoutedKeys(people) /\ h.memory[Persons] = g.memory[Persons]
<1>. DEFINE keys == Range(Keys(people))
            ns == NewNodes(people, keys, born)
            a == Empty(g)
            v == Wired(a, ns)
            b == BuildPipelines(a, people, keys, born)
            w == Wired(b, <<Breakdown>>)
            c == Notify(w, <<Breakdown>>)
            h == [c EXCEPT !.slots = Append(@, Property)]
<1>1. Open(g, people, born) = h  BY ConstructIs DEF Open, Empty
<1>. HIDE DEF h
<1>2. /\ AllStand(h, RoutedKeys(people), born)
      /\ Range(h.selectors) = EntriesMade(people, RoutedKeys(people), born)
  BY <1>1, OpenStands
<1>3. Sound(h) /\ LiveKeys(h) = RoutedKeys(people)
  BY <1>2 DEF Sound, AllStand, Stands, EntriesStand, LiveKeys
<1>4. RoutedOf(people, keys) = RoutedKeys(people)  BY DEF RoutedOf, RoutedKeys
<1>5. /\ IsGraph(a) /\ a.rows = g.rows /\ a.clock = g.clock /\ a.queue = <<>> /\ a.scheduled = {}
      /\ DOMAIN a.memory = {Persons} /\ a.memory[Persons] = g.memory[Persons]
  <2>1. /\ IsGraph(a) /\ a.rows = g.rows /\ a.clock = g.clock /\ a.queue = <<>> /\ a.scheduled = {}
        /\ a.memory = [n \in {Persons} |-> g.memory[Persons]]
    BY EmptyDoes
  <2>. HIDE DEF a
  <2>. QED  BY <2>1
<1>6. Range(ns) = AllMade(people, RoutedKeys(people), born)
  BY <1>4, NewNodesAre
<1>0. \A n \in AllMade(people, RoutedOf(people, keys), born) :
        /\ IsPart(n, born) /\ n.born = born /\ n.key \in RoutedOf(people, keys) /\ n.kind \in Kinds
        /\ n = Made(people, n.key, born, n.kind) /\ n.kind \in KindsIn(people, n.key)
        /\ Circle(Made(people, n.key, born, "entry")) = {Made(people, n.key, born, kind) : kind \in KindsIn(people, n.key)}
  BY NewPartsAre
<1>. HIDE DEF a
<1>7. \E due : Joins(v, ns, b, due) /\ Ranked(due)  BY <1>5, BuildQueues
<1>8. v.queue = a.queue /\ v.scheduled = a.scheduled /\ v.memory = b.memory  BY <1>5, BuildQueues
<1>9. b.memory = Remembered(a, ns) /\ b.rows = a.rows /\ b.clock = a.clock /\ IsGraph(b)  BY <1>5, BuildDoes
<1>. HIDE DEF ns, v, b, keys
<1>10. PICK due : Joins(v, ns, b, due) /\ Ranked(due)  BY <1>7
<1>11. /\ IsGraph(w) /\ w.rows = b.rows /\ w.clock = b.clock /\ w.queue = b.queue /\ w.scheduled = b.scheduled
       /\ w.memory = Remembered(b, <<Breakdown>>)
  BY <1>9, WiredDoes
<1>. HIDE DEF w
<1>12. IsGraph(c) /\ Requeued(w, c)  BY <1>11, NotifyRequeues
<1>13. IsSeq(<<Breakdown>>) /\ Range(<<Breakdown>>) = {Breakdown} /\ OneId(<<Breakdown>>)  BY OneOf, OneAlone
<1>14. PICK sum : Joins(w, <<Breakdown>>, c, sum)  BY <1>11, <1>13, NotifyDoes
<1>. HIDE DEF c
<1>15. /\ h.memory = c.memory /\ h.rows = c.rows /\ h.clock = c.clock /\ h.queue = c.queue
       /\ h.scheduled = c.scheduled /\ h.selectors = c.selectors
  BY <1>12 DEF IsGraph, Fields, h
\* The nodes.
<1>16. Pipes(h) = Range(ns)
  <2>1. ASSUME NEW key \in RoutedKeys(people)
        PROVE  Circle(Made(people, key, born, "entry")) = {Made(people, key, born, kind) : kind \in KindsIn(people, key)}
    <3>. DEFINE n == Made(people, key, born, "entry")
    <3>1. n \in AllMade(people, RoutedOf(people, keys), born)  BY <1>4 DEF AllMade, KindsIn
    <3>2. n.key = key  BY MadeIs
    <3>. HIDE DEF n
    <3>3. Circle(Made(people, n.key, born, "entry"))
            = {Made(people, n.key, born, kind) : kind \in KindsIn(people, n.key)}
      BY <1>0, <3>1
    <3>. QED  BY <3>2, <3>3
  <2>. QED  BY <1>2, <1>6, <2>1 DEF Pipes, AllMade, EntriesMade
<1>17. \A n \in Pipes(h) : /\ n = Node(n.kind, n.key, n.born, n.car) /\ n.kind \in Kinds /\ n.key # <<>>
                           /\ n \notin {Persons, Breakdown} /\ Id(n) # Id(Breakdown)
  <2>. TAKE n \in Pipes(h)
  <2>1. n \in AllMade(people, RoutedOf(people, keys), born)  BY <1>4, <1>6, <1>16
  <2>2. IsPart(n, born) /\ n.kind \in Kinds  BY <1>0, <2>1
  <2>3. n.key # <<>>  BY <2>2, KeyIs DEF IsPart
  <2>. QED  BY <2>2, <2>3, Fixed DEF IsPart, Id
<1>18. DOMAIN b.memory = {Persons} \cup Pipes(h) /\ DOMAIN h.memory = {Persons, Breakdown} \cup Pipes(h)
  BY <1>5, <1>9, <1>11, <1>12, <1>13, <1>15, <1>16 DEF Remembered, Requeued
<1>19. /\ h.memory[Persons] = g.memory[Persons] /\ b.memory[Persons] = g.memory[Persons]
       /\ \A n \in Pipes(h) : h.memory[n] = Restored(h, n) /\ b.memory[n] = h.memory[n]
       /\ h.memory[Breakdown] = Restored(h, Breakdown)
       /\ h.rows = g.rows /\ h.clock = g.clock
  <2>1. h.rows = g.rows /\ b.rows = g.rows /\ h.clock = g.clock  BY <1>5, <1>9, <1>11, <1>12, <1>15 DEF Requeued
  <2>2. Persons # Breakdown /\ Persons \notin Pipes(h)
    <3>1. Persons.kind # Breakdown.kind  BY Fixed
    <3>. QED  BY <1>17, <3>1
  <2>3. \A n \in DOMAIN b.memory : n # Breakdown => h.memory[n] = b.memory[n]
    BY <1>11, <1>12, <1>13, <1>15 DEF Remembered, Requeued
  <2>4. h.memory[Breakdown] = Restored(b, Breakdown)  BY <1>11, <1>12, <1>13, <1>15 DEF Remembered, Requeued
  <2>5. b.memory[Persons] = g.memory[Persons] /\ \A n \in Pipes(h) : b.memory[n] = Restored(a, n)
    BY <1>5, <1>9, <1>16, <2>2 DEF Remembered
  <2>6. \A n : Restored(a, n) = Restored(h, n) /\ Restored(b, n) = Restored(h, n)  BY <1>5, <2>1 DEF Restored
  <2>7. \A n \in Pipes(h) : n \in DOMAIN b.memory /\ n # Breakdown  BY <1>17, <1>18
  <2>8. Persons \in DOMAIN b.memory  BY <1>18
  <2>. QED  BY <2>1, <2>2, <2>3, <2>4, <2>5, <2>6, <2>7, <2>8
<1>20. Now(h) = Now(g)  BY <1>19 DEF Now
\* What is stale is queued.
<1>21. \A n \in Pipes(h) : IsStale(h, n) => IsStale(v, n)
  <2>. TAKE n \in Pipes(h)
  <2>1. n = Node(n.kind, n.key, n.born, n.car) /\ n.kind \in Kinds  BY <1>17
  <2>2. DOMAIN h.memory \ {Breakdown} = DOMAIN v.memory \ {Breakdown}  BY <1>8, <1>18
  <2>3. Inputs(h, n) = Inputs(v, n)  BY <2>1, <2>2, InputsAlike
  <2>4. Inputs(h, n) \subseteq Pipes(h) \cup {Persons}
    <3>1. PICK e \in Range(h.selectors) : n \in {HomeOf(e), RouteOf(e), MpgOf(e), e}  BY DEF Pipes, Circle
    <3>2. Piped(h, e)  BY <1>3, PipedIs
    <3>. QED  BY <1>3, <3>1, <3>2, ReadsAre DEF Piped
  <2>5. \A d \in Inputs(v, n) : h.memory[d] = v.memory[d]  BY <1>8, <1>19, <2>3, <2>4
  <2>6. h.memory[n] = v.memory[n]  BY <1>8, <1>19
  <2>. QED  BY <2>3, <2>5, <2>6, StaleAlike
<1>22. IsStale(h, Breakdown) => IsStale(w, Breakdown)
  <2>1. h.memory = w.memory /\ h.selectors = w.selectors  BY <1>12, <1>15 DEF Requeued
  <2>2. Inputs(h, Breakdown) = Inputs(w, Breakdown)  BY <2>1, SumReads
  <2>. QED  BY <2>1, <2>2, StaleAlike
<1>23. /\ IsSeq(due) /\ Ranked(due) /\ b.queue = <<>> \o due /\ b.scheduled = Ids(due)
       /\ \A n : n \in Range(due) <=> n \in Pipes(h) /\ IsStale(v, n)
  BY <1>5, <1>8, <1>10, <1>16 DEF Joins
<1>24. Id(Breakdown) \notin b.scheduled  BY <1>17, <1>23 DEF Ids
<1>25. /\ IsSeq(sum) /\ OneId(sum) /\ h.queue = b.queue \o sum /\ h.scheduled = b.scheduled \cup Ids(sum)
       /\ \A n : n \in Range(sum) <=> n = Breakdown /\ IsStale(w, n)
  <2>1. /\ IsSeq(sum) /\ OneId(sum) /\ c.queue = w.queue \o sum /\ c.scheduled = w.scheduled \cup Ids(sum)
        /\ \A n : n \in Range(sum) <=> n \in {Breakdown} /\ IsStale(w, n) /\ Id(n) \notin w.scheduled
    BY <1>13, <1>14 DEF Joins
  <2>. QED  BY <1>11, <1>15, <1>24, <2>1
<1>26. <<>> \o due = due
  <2>1. due \in Seq(Range(due))  BY <1>23 DEF IsSeq
  <2>. QED  BY <2>1
<1>27. h.queue = due \o sum /\ h.scheduled = Ids(due) \cup Ids(sum)  BY <1>23, <1>25, <1>26
<1>28. /\ OneId(due) /\ \A x, y : Before(due, x, y) /\ x.key = y.key => Rank(x.kind) < Rank(y.kind)
  BY <1>23, RankedOneId
<1>29. Ids(due) \cap Ids(sum) = {}
  <2>1. \A x \in Range(due) : Id(x) # Id(Breakdown)  BY <1>17, <1>23
  <2>2. \A x \in Range(sum) : x = Breakdown  BY <1>25
  <2>. QED  BY <2>1, <2>2 DEF Ids
<1>30. /\ IsSeq(h.queue) /\ Range(h.queue) = Range(due) \cup Range(sum) /\ OneId(h.queue)
       /\ Ids(h.queue) = Ids(due) \cup Ids(sum)
       /\ \A x, y : Before(h.queue, x, y) =>
            Before(due, x, y) \/ Before(sum, x, y) \/ (x \in Range(due) /\ y \in Range(sum))
  <2>1. IsSeq(h.queue) /\ Range(h.queue) = Range(due) \cup Range(sum)  BY <1>23, <1>25, <1>27, JoinHolds
  <2>2. OneId(h.queue) /\ Ids(h.queue) = Ids(due) \cup Ids(sum)  BY <1>23, <1>25, <1>27, <1>28, <1>29, JoinOrder
  <2>3. \A x, y : Before(due \o sum, x, y) =>
            Before(due, x, y) \/ Before(sum, x, y) \/ (x \in Range(due) /\ y \in Range(sum))
    BY <1>23, <1>25, JoinOrder
  <2>. QED  BY <1>27, <2>1, <2>2, <2>3
<1>31. ASSUME NEW x, NEW y, Before(h.queue, x, y), x.key = y.key PROVE Rank(x.kind) < Rank(y.kind)
  <2>1. CASE Before(due, x, y)  BY <1>28, <1>31, <2>1
  <2>2. ~Before(sum, x, y)
    <3>. SUFFICES ASSUME Before(sum, x, y) PROVE FALSE  OBVIOUS
    <3>1. PICK i \in 1..Len(sum), j \in 1..Len(sum) : i < j  BY DEF Before
    <3>2. sum[i] \in Range(sum) /\ sum[j] \in Range(sum) /\ Len(sum) \in Nat  BY <1>25, SeqFacts
    <3>3. sum[i] = sum[j]  BY <1>25, <3>2
    <3>4. i = j  BY <1>25, <3>3 DEF OneId
    <3>. QED  BY <3>1, <3>2, <3>4
  <2>3. CASE x \in Range(due) /\ y \in Range(sum)  BY <1>17, <1>23, <1>25, <1>31, <2>3, Fixed
  <2>. QED  BY <1>30, <1>31, <2>1, <2>2, <2>3
<1>32. DOMAIN h.memory \ {Persons} = Active(h)
  <2>1. Persons # Breakdown /\ Persons \notin Pipes(h)
    <3>1. Persons.kind # Breakdown.kind  BY Fixed
    <3>. QED  BY <1>17, <3>1
  <2>. QED  BY <1>18, <2>1 DEF Active
<1>33. \A m \in Active(h) : h.memory[m] = Restored(h, m)  BY <1>19 DEF Active
<1>34. ASSUME NEW m \in Active(h), IsStale(h, m) PROVE Id(m) \in h.scheduled
  <2>1. CASE m \in Pipes(h)
    <3>1. m \in Range(due)  BY <1>21, <1>23, <1>34, <2>1
    <3>. QED  BY <1>27, <3>1 DEF Ids
  <2>2. CASE m = Breakdown
    <3>1. m \in Range(sum)  BY <1>22, <1>25, <1>34, <2>2
    <3>. QED  BY <1>27, <3>1 DEF Ids
  <2>. QED  BY <1>34, <2>1, <2>2 DEF Active
<1>35. Range(h.queue) \subseteq Active(h)  BY <1>23, <1>25, <1>30 DEF Active
<1>36. Fresh(h)  BY <1>27, <1>30, <1>31, <1>32, <1>33, <1>34, <1>35 DEF Fresh
<1>. QED  BY <1>1, <1>3, <1>19, <1>20, <1>36

\* The rows there are when a property is opened.
TableFits(g, people) ==
    /\ TableOK(g) /\ RowsTold(g, people) /\ RowsLinked(g)
    /\ Id(Breakdown) \in DOMAIN g.rows => SumsRow(Now(g), RoutedKeys(people), g.rows)

LEMMA FreshSums ==
    ASSUME NEW h, Fresh(h), Sound(h), TableOK(h), RowsSummed(h)
    PROVE  SumStands(h, Idle)
<1>. DEFINE r == h.memory[Breakdown]
            keys == LiveKeys(h)
<1>1. /\ \A m \in Active(h) : h.memory[m] = Restored(h, m) /\ (IsStale(h, m) => Id(m) \in h.scheduled)
      /\ Breakdown \in Active(h)
  BY DEF Fresh, Active
<1>2. \A e \in Range(h.selectors) : e \in Active(h) /\ Id(e) = EntryId(e.key) /\ e.key \in keys
  BY SelectorsAre
<1>3. \A e \in Range(h.selectors) :
        /\ EntryId(e.key) \in DOMAIN h.rows => h.memory[e] = h.rows[EntryId(e.key)]
        /\ EntryId(e.key) \notin DOMAIN h.rows => h.memory[e].value = Pending
  BY <1>1, <1>2, RestoredIs
<1>4. /\ r.value # Pending => /\ Id(Breakdown) \in DOMAIN h.rows /\ r = h.rows[Id(Breakdown)]
                              /\ Id(Persons) \in DOMAIN r.basis
  <2>1. /\ Id(Breakdown) \notin DOMAIN h.rows => r.value = Pending
        /\ Id(Breakdown) \in DOMAIN h.rows => r = h.rows[Id(Breakdown)]
        /\ r.value # Pending => Sourced("breakdown", Breakdown.key, r.basis)
    BY <1>1, RestoredIs, Fixed
  <2>. QED  BY <2>1 DEF Sourced
<1>5. ASSUME r.value # Pending, r.basis[Id(Persons)] = Now(h)
      PROVE  /\ DOMAIN r.basis = SumIds(keys)
             /\ (\A e \in Range(h.selectors) : h.memory[e].at = r.basis[Id(e)]) => SumFits(h, r.value)
  <2>1. /\ DOMAIN r.basis = SumIds(keys)
        /\ (\A key \in keys : EntryId(key) \in DOMAIN h.rows => h.rows[EntryId(key)].at = r.basis[EntryId(key)])
             => SumOfRows(r.value, keys, h.rows)
    BY <1>4, <1>5 DEF RowsSummed, SumsRow
  <2>2. ASSUME \A e \in Range(h.selectors) : h.memory[e].at = r.basis[Id(e)] PROVE SumFits(h, r.value)
    <3>1. \A key \in keys : \E e \in Range(h.selectors) : e.key = key  BY DEF LiveKeys
    <3>2. \A key \in keys : EntryId(key) \in DOMAIN h.rows => h.rows[EntryId(key)].at = r.basis[EntryId(key)]
      BY <1>2, <1>3, <2>2, <3>1
    <3>3. SumOfRows(r.value, keys, h.rows)  BY <2>1, <3>2
    <3>4. CASE \E e \in Range(h.selectors) : h.memory[e].value = Pending  BY <3>4 DEF SumFits
    <3>5. CASE \A e \in Range(h.selectors) : h.memory[e].value # Pending
      <4>1. \A e \in Range(h.selectors) :
              EntryId(e.key) \in DOMAIN h.rows /\ h.memory[e] = h.rows[EntryId(e.key)]
        BY <1>3, <3>5
      <4>2. ~ \E key \in keys : EntryId(key) \in DOMAIN h.rows => h.rows[EntryId(key)].value = Pending
        BY <3>1, <3>5, <4>1
      <4>3. SumOf(h, r.value)
        <5>. DEFINE v == r.value
        <5>1. SumOfRows(v, keys, h.rows)  BY <3>3
        <5>. HIDE DEF v, r
        <5>2. CASE v \in Impossible /\ \E key \in keys : h.rows[EntryId(key)].value \in Impossible
          <6>1. PICK key \in keys : h.rows[EntryId(key)].value \in Impossible  BY <5>2
          <6>2. PICK e \in Range(h.selectors) : e.key = key  BY <3>1
          <6>. QED  BY <4>1, <5>2, <6>1, <6>2 DEF SumOf, v
        <5>3. CASE /\ \A key \in keys : h.rows[EntryId(key)].value \notin Impossible
                   /\ v = <<"sum", v[2]>> /\ DOMAIN v[2] = keys
                   /\ \A key \in keys : v[2][key] = h.rows[EntryId(key)].value
          <6>1. \A e \in Range(h.selectors) : h.memory[e].value \notin Impossible /\ v[2][e.key] = h.memory[e].value
            BY <1>2, <4>1, <5>3
          <6>2. SumOf(h, v)  BY <5>3, <6>1 DEF SumOf
          <6>. QED  BY <6>2 DEF v
        <5>. QED  BY <4>2, <5>1, <5>2, <5>3 DEF SumOfRows
      <4>. QED  BY <4>3 DEF SumFits
    <3>. QED  BY <3>4, <3>5
  <2>. QED  BY <2>1, <2>2
<1>6. SumCurrent(h)  BY <1>5 DEF SumCurrent
<1>7. ASSUME Free(h, Idle, Breakdown) PROVE SumSettled(h)
  <2>1. ~IsStale(h, Breakdown)  BY <1>1, <1>7 DEF Free
  <2>2. r.value # Pending  BY <2>1, NotStaleIsThere
  <2>3. Inputs(h, Breakdown) = Range(h.selectors) \cup {Persons}  BY SumReads
  <2>4. h.memory[Persons].at # 0  BY DEF TableOK, Now
  <2>5. r.basis[Id(Persons)] = Now(h)  BY <1>4, <2>1, <2>2, <2>3, <2>4, NotStale DEF Now
  <2>6. CASE \E e \in Range(h.selectors) : h.memory[e].value = Pending  BY <2>2, <2>6 DEF SumFits, SumSettled
  <2>7. CASE \A e \in Range(h.selectors) : h.memory[e].value # Pending
    <3>1. \A e \in Range(h.selectors) : h.memory[e].at = r.basis[Id(e)]
      <4>. TAKE e \in Range(h.selectors)
      <4>1. h.memory[e].value # Pending  BY <2>7
      <4>2. EntryId(e.key) \in DOMAIN h.rows /\ h.memory[e] = h.rows[EntryId(e.key)]  BY <1>3, <4>1
      <4>3. h.memory[e].at > 0 /\ h.memory[e].at \in Nat  BY <4>2 DEF TableOK, RecordOK
      <4>4. Id(e) \in DOMAIN r.basis  BY <1>2, <1>5, <2>2, <2>5 DEF SumIds
      <4>. QED  BY <2>1, <2>3, <4>3, <4>4, NotStale
    <3>. QED  BY <1>5, <2>2, <2>5, <3>1 DEF SumSettled
  <2>. QED  BY <2>6, <2>7
<1>. QED  BY <1>6, <1>7 DEF SumStands

LEMMA OpenMain ==
    ASSUME KeysAreUnique, ChildrenStayChildren, NEW people \in Documents, NEW born \in Nat \ {0},
           NEW g, IsGraph(g), TableFits(g, people)
    PROVE  Main(Open(g, people, born), Idle, people)
<1>. DEFINE h == Open(g, people, born)
<1>1. /\ Fresh(h) /\ Sound(h) /\ h.rows = g.rows /\ h.clock = g.clock /\ Now(h) = Now(g)
      /\ LiveKeys(h) = RoutedKeys(people)
  BY OpenIs
<1>. HIDE DEF h
<1>2. TableOK(h) /\ RowsTold(h, people) /\ RowsLinked(h) /\ RowsSummed(h)
  BY <1>1 DEF TableFits, TableOK, RowsTold, RowsLinked, RowsSummed
<1>3. /\ DOMAIN h.memory \ {Persons} = Active(h)
      /\ \A m \in Active(h) : h.memory[m] = Restored(h, m) /\ (IsStale(h, m) => Id(m) \in h.scheduled)
      /\ IsSeq(h.queue) /\ OneId(h.queue) /\ Range(h.queue) \subseteq Active(h) /\ h.scheduled = Ids(h.queue)
      /\ \A a, b : Before(h.queue, a, b) /\ a.key = b.key => Rank(a.kind) < Rank(b.kind)
  BY <1>1 DEF Fresh
<1>4. \A n \in Active(h) :
        /\ RecordOK(h.clock, n.kind, n.key, h.memory[n]) /\ BackedBy(n, h.memory[n], h.rows)
        /\ Id(n) \in DOMAIN h.rows => h.memory[n] = h.rows[Id(n)]
        /\ Id(n) \notin DOMAIN h.rows => h.memory[n].value = Pending
  <2>. TAKE n \in Active(h)
  <2>1. h.memory[n] = Restored(h, n)  BY <1>3
  <2>. QED  BY <1>2, <2>1, RestoredIs
<1>5. Typed(h)  BY <1>2, <1>3, <1>4 DEF Typed, TableOK
<1>6. Backed(h)  BY <1>3, <1>4 DEF Backed
<1>7. Queued(h)  BY <1>3 DEF Queued, Ids
<1>8. MemoryTold(h, people)
  <2>. SUFFICES ASSUME NEW n \in Active(h) PROVE ToldOK(people, Now(h), n.kind, n.key, h.memory[n])
    BY <1>3 DEF MemoryTold
  <2>1. Id(n)[1] = n.kind /\ Id(n)[2] = n.key  BY DEF Id
  <2>2. CASE Id(n) \in DOMAIN h.rows
    <3>1. ToldOK(people, Now(h), n.kind, n.key, h.rows[Id(n)])  BY <1>2, <2>1, <2>2 DEF RowsTold
    <3>. QED  BY <1>4, <2>2, <3>1
  <2>3. CASE Id(n) \notin DOMAIN h.rows  BY <1>4, <2>3 DEF ToldOK
  <2>. QED  BY <2>2, <2>3
<1>9. PipesFit(h, Idle)
  <2>. SUFFICES ASSUME NEW e \in Range(h.selectors) PROVE PipeFits(h, Idle, e)  BY DEF PipesFit
  <2>1. Circle(e) \subseteq Active(h) /\ \A m \in Circle(e) : m.key = e.key /\ m.kind # Idle.kind
    <3>1. Piped(h, e)  BY <1>1, PipedIs
    <3>2. Idle.kind = "idle"  BY DEF Idle, Node
    <3>. QED  BY <3>1, <3>2 DEF Piped, Circle, Active
  <2>2. NewPipe(h, Idle, e)  BY <1>3, <2>1 DEF NewPipe
  <2>. QED  BY <1>1, <1>2, <2>2, NewPipeFits
<1>10. SumStands(h, Idle)  BY <1>1, <1>2, FreshSums
<1>11. Main(h, Idle, people)  BY <1>2, <1>5, <1>6, <1>7, <1>8, <1>9, <1>10 DEF Main
<1>. QED  BY <1>11 DEF h

-----------------------------------------------------------------------------
(* A write that finds the queue empty. *)
\* Those that read the household.
Informed(g) == {n \in Pipes(g) : n.kind \in {"place", "mpg"}} \cup {Breakdown}

\* What the write leaves; fresh are the nodes it has built.
PushedRows(g, h, fresh) ==
    /\ h.rows = g.rows /\ h.clock = g.clock + 1 /\ Now(h) = h.clock
    /\ DOMAIN h.memory = DOMAIN g.memory \cup fresh /\ fresh \cap DOMAIN g.memory = {} /\ Idle \notin fresh
    /\ \A n \in DOMAIN g.memory \ {Persons} : h.memory[n] = g.memory[n]
    /\ \A n \in fresh : /\ h.memory[n] = Restored(h, n) /\ n.key \notin LiveKeys(g)
                        /\ n.kind \in Kinds /\ n.key # <<>> /\ n \in Pipes(h)
PushedPipes(g, h, fresh) ==
    /\ \A e \in Range(h.selectors) : e \in Range(g.selectors) \/ Circle(e) \subseteq fresh
    /\ \A e \in Range(g.selectors) : e.key \in LiveKeys(h) => e \in Range(h.selectors)
PushedQueue(g, h, fresh) ==
    /\ IsSeq(h.queue) /\ OneId(h.queue) /\ Range(h.queue) \subseteq Informed(g) \cup fresh
    /\ h.scheduled \subseteq Ids(h.queue)
    /\ \A n \in Range(h.queue) : n \in Active(h) => Id(n) \in h.scheduled
    /\ \A n \in Informed(g) : n \in Active(h) => Id(n) \in h.scheduled
    /\ \A n \in fresh : IsStale(h, n) => Id(n) \in h.scheduled
    /\ \A a, b \in fresh : Before(h.queue, a, b) /\ a.key = b.key => Rank(a.kind) < Rank(b.kind)
Pushed(g, h, fresh) == PushedRows(g, h, fresh) /\ PushedPipes(g, h, fresh) /\ PushedQueue(g, h, fresh)

\* No record is of the household that has just been written.
LEMMA NotOfNow ==
    ASSUME NEW clock \in Nat, NEW kind, NEW key, NEW r, RecordOK(clock, kind, key, r), NEW people
    PROVE  /\ ToldOK(people, clock + 1, kind, key, r)
           /\ kind = "breakdown" /\ r.value # Pending => r.basis[Id(Persons)] # clock + 1
<1>1. CASE r.value = Pending  BY <1>1 DEF ToldOK
<1>2. CASE r.value # Pending
  <2>1. /\ kind \in {"place", "mpg"} => r.basis[Id(Persons)] \in 0..clock
        /\ kind = "breakdown" => r.basis[Id(Persons)] \in 0..clock
    BY <1>2, Stamps
  <2>2. clock + 1 \notin 0..clock  OBVIOUS
  <2>. QED  BY <2>1, <2>2 DEF ToldOK
<1>. QED  BY <1>1, <1>2

LEMMA PushedRecords ==
    ASSUME NEW g, Sound(g), Typed(g), Backed(g), NEW h, Sound(h), NEW fresh, PushedRows(g, h, fresh), NEW people
    PROVE  Typed(h) /\ Backed(h) /\ TableOK(h) /\ RowsTold(h, people) /\ RowsSummed(h) /\ MemoryTold(h, people)
           /\ SumCurrent(h)
<1>1. /\ h.rows = g.rows /\ h.clock = g.clock + 1 /\ Now(h) = g.clock + 1 /\ g.clock \in Nat
      /\ DOMAIN h.memory = DOMAIN g.memory \cup fresh
      /\ \A n \in DOMAIN g.memory \ {Persons} : h.memory[n] = g.memory[n]
      /\ \A n \in fresh : h.memory[n] = Restored(h, n)
  BY DEF PushedRows, Typed
<1>2. TableOK(g)  BY DEF Typed, TableOK
<1>3. \A i \in DOMAIN h.rows : RecordOK(g.clock, i[1], i[2], h.rows[i])  BY <1>1, <1>2 DEF TableOK
<1>4. ASSUME NEW n \in DOMAIN h.memory \ {Persons}
      PROVE  RecordOK(g.clock, n.kind, n.key, h.memory[n]) /\ BackedBy(n, h.memory[n], h.rows)
  <2>1. CASE n \in DOMAIN g.memory  BY <1>1, <1>4, <2>1 DEF Typed, Backed
  <2>2. CASE n \in fresh
    <3>1. Restored(h, n) = Restored(g, n)  BY <1>1 DEF Restored
    <3>2. RecordOK(g.clock, n.kind, n.key, Restored(g, n)) /\ BackedBy(n, Restored(g, n), g.rows)
      BY <1>2, RestoredIs
    <3>. QED  BY <1>1, <2>2, <3>1, <3>2
  <2>. QED  BY <1>1, <1>4, <2>1, <2>2
<1>5. TableOK(h)
  <2>1. \A i \in DOMAIN h.rows : RecordOK(g.clock + 1, i[1], i[2], h.rows[i])  BY <1>1, <1>3, RecordLater
  <2>. QED  BY <1>1, <1>2, <2>1 DEF TableOK
<1>6. Typed(h)
  <2>1. \A n \in DOMAIN h.memory \ {Persons} : RecordOK(h.clock, n.kind, n.key, h.memory[n])
    BY <1>1, <1>4, RecordLater
  <2>. QED  BY <1>5, <2>1 DEF Typed, TableOK
<1>7. Backed(h)  BY <1>4 DEF Backed
<1>8. RowsTold(h, people)  BY <1>1, <1>3, NotOfNow DEF RowsTold
<1>9. MemoryTold(h, people)  BY <1>1, <1>4, NotOfNow DEF MemoryTold
<1>10. RowsSummed(h)
  <2>. SUFFICES ASSUME Id(Breakdown) \in DOMAIN h.rows PROVE SumsRow(Now(h), LiveKeys(h), h.rows)
    BY DEF RowsSummed
  <2>1. Id(Breakdown)[1] = "breakdown"  BY Fixed
  <2>2. RecordOK(g.clock, "breakdown", Id(Breakdown)[2], h.rows[Id(Breakdown)])  BY <1>3, <2>1
  <2>3. h.rows[Id(Breakdown)].value # Pending => h.rows[Id(Breakdown)].basis[Id(Persons)] # Now(h)
    BY <1>1, <2>2, NotOfNow
  <2>. QED  BY <2>3 DEF SumsRow
<1>11. SumCurrent(h)
  <2>1. Breakdown \in DOMAIN h.memory \ {Persons} /\ Breakdown.kind = "breakdown"
    <3>1. Breakdown.kind # Persons.kind  BY Fixed
    <3>. QED  BY <3>1, SoundIs, Fixed
  <2>2. RecordOK(g.clock, "breakdown", Breakdown.key, h.memory[Breakdown])  BY <1>4, <2>1
  <2>3. h.memory[Breakdown].value # Pending => h.memory[Breakdown].basis[Id(Persons)] # Now(h)
    BY <1>1, <2>2, NotOfNow
  <2>. QED  BY <2>3 DEF SumCurrent
<1>. QED  BY <1>5, <1>6, <1>7, <1>8, <1>9, <1>10, <1>11

\* A pipeline that is left: those that read the household are queued, and nothing else is.
LEMMA PushedFits ==
    ASSUME NEW g, Sound(g), g.scheduled = {}, NEW h, Sound(h), NEW fresh, Pushed(g, h, fresh),
           NEW held, NEW e \in Range(g.selectors), e \in Range(h.selectors), PipeFits(g, held, e)
    PROVE  PipeFits(h, held, e)
<1>. DEFINE H == HomeOf(e)
            R == RouteOf(e)
            M == MpgOf(e)
<1>1. Piped(g, e) /\ Distinct(e)  BY PipedIs, FourApart
<1>2. /\ H.key = e.key /\ R.key = e.key /\ M.key = e.key /\ R.kind = "route" /\ M.kind = "mpg" /\ e.kind = "entry"
      /\ H.kind \in {"place", "school"}
      /\ {H, R, M, e} \subseteq (DOMAIN g.memory \ {Persons, Breakdown}) \cap Pipes(g) /\ e.key \in LiveKeys(g)
      /\ e.key # <<>> /\ H # R /\ H # M /\ H # e /\ R # M /\ R # e /\ M # e
  BY <1>1 DEF Piped, Distinct
<1>3. {H, R, M, e} \subseteq Active(h)  BY DEF Active, Pipes, Circle
<1>. HIDE DEF H, R, M
<1>4. \A m \in {H, R, M, e} : h.memory[m] = g.memory[m]  BY <1>2 DEF Pushed, PushedRows
<1>5. ASSUME NEW m \in {H, R, M, e}, m.kind \notin {"place", "mpg"}
      PROVE  Id(m) \notin h.scheduled /\ m \notin Range(h.queue)
  <2>1. m.key = e.key /\ m.kind # "breakdown"  BY <1>2
  <2>2. ASSUME NEW x \in Range(h.queue), Id(x) = Id(m) PROVE FALSE
    <3>1. x.kind = m.kind /\ x.key = m.key  BY <2>2 DEF Id
    <3>2. x \in Informed(g) \/ x \in fresh  BY DEF Pushed, PushedQueue
    <3>3. x \notin fresh  BY <1>2, <2>1, <3>1 DEF Pushed, PushedRows
    <3>4. x.kind \in {"place", "mpg", "breakdown"}  BY <3>2, <3>3, Fixed DEF Informed
    <3>. QED  BY <1>5, <2>1, <3>1, <3>4
  <2>3. h.scheduled \subseteq Ids(h.queue)  BY DEF Pushed, PushedQueue
  <2>. QED  BY <2>2, <2>3 DEF Ids
<1>6. \A m \in {H, M} : m.kind \in {"place", "mpg"} => Id(m) \in h.scheduled
  BY <1>2, <1>3 DEF Pushed, PushedQueue, Informed
<1>7. Changes(h, e) <=> Changes(g, e)  BY <1>4 DEF Changes, H, R
<1>8. EntryFits(g, held, e) => EntryFits(h, held, e)
  <2>1. WillTell(g, held, e) => WillTell(h, held, e)  BY <1>7 DEF WillTell
  <2>. QED  BY <1>4, <2>1 DEF EntryFits, R, M
<1>9. \A m \in {H, R, M, e} : Free(h, held, m) => Free(g, held, m)  BY DEF Free
<1>10. RouteFits(e.key, h.memory[R], h.memory[H])  BY <1>4 DEF PipeFits, R, H
<1>11. EntryCurrent(e.key, h.memory[e], h.memory[R], h.memory[M]) => EntryFits(h, held, e)
  <2>1. EntryCurrent(e.key, g.memory[e], g.memory[R], g.memory[M]) => EntryFits(g, held, e)
    BY DEF PipeFits, R, M
  <2>. QED  BY <1>4, <1>8, <2>1
<1>12. Settled(g, held, e)  BY DEF PipeFits
<1>13. Settled(h, held, e)
  <2>1. Free(h, held, H) => HomeSettled(h, H)
    <3>. SUFFICES ASSUME Free(h, held, H) PROVE HomeSettled(h, H)  OBVIOUS
    <3>1. H.kind = "school"  BY <1>2, <1>6 DEF Free
    <3>2. HomeSettled(g, H)  BY <1>9, <1>12 DEF Settled, H
    <3>. QED  BY <1>4, <3>1, <3>2 DEF HomeSettled
  <2>2. ~Free(h, held, M)  BY <1>2, <1>6 DEF Free
  <2>3. Free(h, held, R) => RouteSettled(h, e)
    <3>1. Free(h, held, R) => RouteSettled(g, e)  BY <1>9, <1>12 DEF Settled, R
    <3>. QED  BY <1>4, <3>1 DEF RouteSettled, H, R
  <2>4. Free(h, held, e) => h.memory[e].value # Pending /\ EntryFits(h, held, e)
    <3>1. Free(h, held, e) => g.memory[e].value # Pending /\ EntryFits(g, held, e)  BY <1>9, <1>12 DEF Settled
    <3>. QED  BY <1>4, <1>8, <3>1
  <2>. QED  BY <2>1, <2>2, <2>3, <2>4 DEF Settled, H, R, M
<1>14. InOrder(h, held, e)
  <2>1. R \notin Range(h.queue) /\ e \notin Range(h.queue) /\ Id(R) \notin h.scheduled /\ Id(e) \notin h.scheduled
    BY <1>2, <1>5
  <2>2. IsSeq(h.queue)  BY DEF Pushed, PushedQueue
  <2>3. \A a, b : Before(h.queue, a, b) => a \in Range(h.queue)
    <3>. TAKE a, b
    <3>. HAVE Before(h.queue, a, b)
    <3>1. PICK i \in 1..Len(h.queue) : h.queue[i] = a  BY DEF Before
    <3>. QED  BY <2>2, <3>1, SeqFacts
  <2>. QED  BY <2>1, <2>3 DEF InOrder, R
<1>. QED  BY <1>10, <1>11, <1>13, <1>14 DEF PipeFits, H, R, M

LEMMA PushedMain ==
    ASSUME NEW g, Sound(g), g.queue = <<>>, NEW held, NEW old, Main(g, held, old),
           held = Idle \/ held \in DOMAIN g.memory,
           NEW h, Sound(h), NEW fresh, Pushed(g, h, fresh), NEW people
    PROVE  Main(h, held, people)
<1>1. Typed(g) /\ Backed(g) /\ Queued(g) /\ RowsLinked(g) /\ PipesFit(g, held)  BY DEF Main
<1>2. g.scheduled = {}
  <2>1. Range(<<>>) = {}  BY DEF Range
  <2>. QED  BY <1>1, <2>1 DEF Queued, Ids
<1>3. /\ Typed(h) /\ Backed(h) /\ TableOK(h) /\ RowsTold(h, people) /\ RowsSummed(h) /\ MemoryTold(h, people)
      /\ SumCurrent(h)
  BY <1>1, PushedRecords DEF Pushed
<1>4. RowsLinked(h)  BY <1>1 DEF RowsLinked, Pushed, PushedRows
<1>5. PushedRows(g, h, fresh) /\ PushedPipes(g, h, fresh) /\ PushedQueue(g, h, fresh)  BY DEF Pushed
<1>6. ASSUME NEW e \in Range(h.selectors) PROVE PipeFits(h, held, e)
  <2>1. CASE e \in Range(g.selectors)
    <3>1. PipeFits(g, held, e)  BY <1>1, <2>1 DEF PipesFit
    <3>. QED  BY <1>2, <1>6, <2>1, <3>1, PushedFits
  <2>2. CASE Circle(e) \subseteq fresh
    <3>1. NewPipe(h, held, e)
      <4>1. held \notin fresh  BY <1>5 DEF PushedRows
      <4>2. \A m \in Circle(e) : m.key = e.key
        <5>1. Piped(h, e)  BY <1>6, PipedIs
        <5>. QED  BY <5>1 DEF Piped, Circle
      <4>3. \A m \in Circle(e) : h.memory[m] = Restored(h, m) /\ held # m /\ (IsStale(h, m) => Id(m) \in h.scheduled)
        BY <1>5, <2>2, <4>1 DEF PushedRows, PushedQueue
      <4>4. \A a, b \in Circle(e) : Before(h.queue, a, b) => Rank(a.kind) < Rank(b.kind)
        BY <1>5, <2>2, <4>2 DEF PushedQueue
      <4>. QED  BY <4>3, <4>4 DEF NewPipe
    <3>. QED  BY <1>3, <1>4, <1>6, <3>1, NewPipeFits
  <2>. QED  BY <1>5, <1>6, <2>1, <2>2 DEF PushedPipes
<1>7. SumStands(h, held)
  <2>1. Id(Breakdown) \in h.scheduled  BY <1>5 DEF PushedQueue, Informed, Active
  <2>. QED  BY <1>3, <2>1 DEF SumStands, Free
<1>8. Queued(h)
  <2>1. Range(h.queue) \subseteq DOMAIN h.memory \ {Persons}
    <3>1. Informed(g) \subseteq DOMAIN g.memory \ {Persons}
      <4>1. Breakdown \in DOMAIN g.memory \ {Persons}
        <5>1. Breakdown.kind # Persons.kind  BY Fixed
        <5>. QED  BY <5>1, SoundIs
      <4>2. ASSUME NEW n \in Pipes(g) PROVE n \in DOMAIN g.memory \ {Persons}
        <5>1. PICK e \in Range(g.selectors) : n \in {HomeOf(e), RouteOf(e), MpgOf(e), e}  BY PipeIs
        <5>2. Piped(g, e)  BY PipedIs
        <5>. QED  BY <5>1, <5>2 DEF Piped
      <4>. QED  BY <4>1, <4>2 DEF Informed
    <3>2. Persons \notin fresh  BY <1>5, SoundIs DEF PushedRows
    <3>. QED  BY <1>5, <3>1, <3>2 DEF PushedRows, PushedQueue
  <2>2. ASSUME NEW n \in Range(h.queue) \ Active(h)
        PROVE  n.kind \in {"place", "mpg"} /\ n.key \notin LiveKeys(h)
    <3>1. n \in Informed(g) \/ n \in fresh  BY <1>5 DEF PushedQueue
    <3>2. n \notin fresh  BY <1>5, <2>2 DEF PushedRows, Active
    <3>3. n # Breakdown  BY <2>2 DEF Active
    <3>4. n \in Pipes(g) /\ n.kind \in {"place", "mpg"}  BY <3>1, <3>2, <3>3 DEF Informed
    <3>5. PICK e \in Range(g.selectors) : n \in {HomeOf(e), RouteOf(e), MpgOf(e), e} /\ n.key = e.key  BY <3>4, PipeIs
    <3>6. e \notin Range(h.selectors)  BY <2>2, <3>5 DEF Active, Pipes, Circle
    <3>. QED  BY <1>5, <3>4, <3>5, <3>6 DEF PushedPipes
  <2>. QED  BY <1>5, <2>1, <2>2 DEF Queued, PushedQueue
<1>9. PipesFit(h, held)  BY <1>6 DEF PipesFit
<1>. QED  BY <1>3, <1>4, <1>7, <1>8, <1>9 DEF Main

LEMMA PushedGiven ==
    ASSUME NEW g, Sound(g), Typed(g), NEW n, NEW value, NEW basis, NEW old, Given(g, n, value, basis, old),
           NEW h, Sound(h), NEW fresh, Pushed(g, h, fresh), NEW people
    PROVE  Given(h, n, value, basis, people)
<1>1. /\ h.clock = g.clock + 1 /\ Now(h) = g.clock + 1 /\ g.clock \in Nat
      /\ DOMAIN g.memory \subseteq DOMAIN h.memory /\ fresh \cap DOMAIN g.memory = {}
      /\ \A m \in DOMAIN g.memory \ {Persons} : h.memory[m] = g.memory[m]
  BY DEF Pushed, PushedRows, Typed
<1>2. /\ n \in DOMAIN g.memory \ {Persons} /\ value # Pending /\ ValueOK(n.kind, value)
      /\ Sourced(n.kind, n.key, basis) /\ \A i \in DOMAIN basis : basis[i] \in 0..g.clock
  BY DEF Given
<1>3. Sourced(n.kind, n.key, basis) /\ \A i \in DOMAIN basis : basis[i] \in 0..h.clock  BY <1>1, <1>2
<1>4. n.kind \in {"place", "mpg", "breakdown"} => basis[Id(Persons)] # Now(h)
  <2>1. n.kind \in {"place", "mpg", "breakdown"} => Id(Persons) \in DOMAIN basis
    BY <1>2 DEF Sourced, SourceIds
  <2>2. Now(h) \notin 0..g.clock  BY <1>1
  <2>. QED  BY <1>2, <2>1, <2>2
<1>5. n.kind \in {"place", "mpg"} /\ n \in Active(h) => Id(n) \in h.scheduled
  <2>. SUFFICES ASSUME n.kind \in {"place", "mpg"}, n \in Active(h) PROVE Id(n) \in h.scheduled  OBVIOUS
  <2>1. n \in Pipes(h)  BY Fixed DEF Active
  <2>2. PICK e \in Range(h.selectors) : n \in Circle(e)  BY <2>1 DEF Pipes
  <2>3. e \in Range(g.selectors)  BY <1>1, <1>2, <2>2 DEF Pushed, PushedPipes
  <2>4. n \in Informed(g)  BY <2>2, <2>3 DEF Informed, Pipes
  <2>. QED  BY <2>4 DEF Pushed, PushedQueue
<1>6. n.kind = "route" => RouteGiven(h, n, value, basis)
  <2>1. n.kind = "route" => RouteGiven(g, n, value, basis)  BY DEF Given
  <2>. QED  BY <1>1, <2>1 DEF RouteGiven
<1>7. n.kind = "entry" => EntryGiven(h, n, value, basis)
  <2>1. n.kind = "entry" => EntryGiven(g, n, value, basis)  BY DEF Given
  <2>. QED  BY <1>1, <2>1 DEF EntryGiven
<1>8. n = Breakdown => Id(Breakdown) \in h.scheduled /\ basis[Id(Persons)] # Now(h)
  <2>1. Id(Breakdown) \in h.scheduled  BY DEF Pushed, PushedQueue, Informed, Active
  <2>. QED  BY <1>4, <2>1, Fixed
<1>. QED  BY <1>1, <1>2, <1>3, <1>4, <1>5, <1>6, <1>7, <1>8 DEF Given

-----------------------------------------------------------------------------
(* The listeners before and behind the property. *)
LEMMA PieceHolds ==
    ASSUME NEW s, IsSeq(s), NEW i \in 1..Len(s) + 1, NEW j \in i - 1..Len(s)
    PROVE  LET t == SubSeq(s, i, j)
           IN  /\ IsSeq(t) /\ Len(t) = j - i + 1
               /\ \A k \in 1..Len(t) : i + k - 1 \in i..j /\ t[k] = s[i + k - 1]
               /\ Range(t) = {s[k] : k \in i..j}
<1>. DEFINE t == SubSeq(s, i, j)
<1>1. s \in Seq(Range(s)) /\ Len(s) \in Nat /\ DOMAIN s = 1..Len(s)  BY SeqFacts
<1>2. i \in Int /\ j \in Int /\ j - i + 1 \in Nat  BY <1>1
<1>3. t = [k \in 1..j - i + 1 |-> s[i + k - 1]]  BY <1>1, <1>2
<1>4. \A k \in 1..j - i + 1 : i + k - 1 \in i..j /\ i + k - 1 \in 1..Len(s) /\ t[k] = s[i + k - 1]
  BY <1>1, <1>2, <1>3
<1>5. \A k \in 1..j - i + 1 : t[k] \in Range(s)  BY <1>1, <1>4, SeqFacts
<1>6. t \in Seq(Range(s))  BY <1>2, <1>3, <1>5
<1>7. Len(t) = j - i + 1  BY <1>2, <1>3
<1>. HIDE DEF t
<1>8. IsSeq(t)  BY <1>6, SeqIs
<1>9. Range(t) = {s[k] : k \in i..j}
  <2>1. ASSUME NEW x \in Range(t) PROVE x \in {s[k] : k \in i..j}
    <3>1. PICK k \in 1..Len(t) : t[k] = x  BY <1>8, SeqFacts
    <3>. QED  BY <1>4, <1>7, <3>1
  <2>2. ASSUME NEW m \in i..j PROVE s[m] \in Range(t)
    <3>1. m - i + 1 \in 1..j - i + 1 /\ i + (m - i + 1) - 1 = m  BY <1>1, <1>2
    <3>2. t[m - i + 1] = s[m]  BY <1>4, <3>1
    <3>. QED  BY <1>7, <1>8, <3>1, <3>2, SeqFacts
  <2>. QED  BY <2>1, <2>2
<1>. QED  BY <1>4, <1>7, <1>8, <1>9 DEF t

\* The sequence s without x, in two parts.
Halves(s, x, front, back) ==
    /\ IsSeq(front) /\ IsSeq(back) /\ IsInjective(front) /\ IsInjective(back)
    /\ Range(front) \cap Range(back) = {} /\ Range(front) \cup Range(back) = Range(s) \ {x}
FrontOf(s, x) == SubSeq(s, 1, (CHOOSE i \in DOMAIN s : s[i] = x) - 1)
BackOf(s, x) == SubSeq(s, (CHOOSE i \in DOMAIN s : s[i] = x) + 1, Len(s))

LEMMA HalvesHold ==
    ASSUME NEW s, IsSeq(s), IsInjective(s), NEW x \in Range(s)
    PROVE  Halves(s, x, FrontOf(s, x), BackOf(s, x))
<1>. DEFINE at == CHOOSE i \in DOMAIN s : s[i] = x
            front == SubSeq(s, 1, at - 1)
            back == SubSeq(s, at + 1, Len(s))
<1>1. DOMAIN s = 1..Len(s) /\ Len(s) \in Nat  BY SeqFacts
<1>2. \E i \in DOMAIN s : s[i] = x  BY <1>1, SeqFacts
<1>3. at \in 1..Len(s) /\ s[at] = x  BY <1>1, <1>2
<1>. HIDE DEF at
<1>4. 1 \in 1..Len(s) + 1 /\ at - 1 \in 1 - 1..Len(s)  BY <1>1, <1>3
<1>5. at + 1 \in 1..Len(s) + 1 /\ Len(s) \in at + 1 - 1..Len(s)  BY <1>1, <1>3
<1>6. /\ IsSeq(front) /\ Len(front) = at - 1 - 1 + 1
      /\ \A k \in 1..Len(front) : 1 + k - 1 \in 1..at - 1 /\ front[k] = s[1 + k - 1]
      /\ Range(front) = {s[k] : k \in 1..at - 1}
  BY <1>4, PieceHolds
<1>7. /\ IsSeq(back) /\ Len(back) = Len(s) - (at + 1) + 1
      /\ \A k \in 1..Len(back) : at + 1 + k - 1 \in at + 1..Len(s) /\ back[k] = s[at + 1 + k - 1]
      /\ Range(back) = {s[k] : k \in at + 1..Len(s)}
  <2>. DEFINE i == at + 1
  <2>1. i \in 1..Len(s) + 1 /\ Len(s) \in i - 1..Len(s)  BY <1>5
  <2>. HIDE DEF i
  <2>2. /\ IsSeq(SubSeq(s, i, Len(s))) /\ Len(SubSeq(s, i, Len(s))) = Len(s) - i + 1
        /\ \A k \in 1..Len(SubSeq(s, i, Len(s))) : i + k - 1 \in i..Len(s) /\ SubSeq(s, i, Len(s))[k] = s[i + k - 1]
        /\ Range(SubSeq(s, i, Len(s))) = {s[k] : k \in i..Len(s)}
    BY <2>1, PieceHolds
  <2>. QED  BY <2>2 DEF i
<1>. HIDE DEF front, back
<1>8. \A i, k \in 1..Len(s) : s[i] = s[k] => i = k  BY <1>1 DEF IsInjective
<1>9. DOMAIN front = 1..Len(front) /\ DOMAIN back = 1..Len(back) /\ Len(front) \in Nat /\ Len(back) \in Nat
  BY <1>6, <1>7, SeqFacts
<1>10. IsInjective(front)
  <2>. SUFFICES ASSUME NEW i \in 1..Len(front), NEW k \in 1..Len(front), front[i] = front[k] PROVE i = k
    BY <1>9 DEF IsInjective
  <2>1. i \in 1..Len(s) /\ k \in 1..Len(s) /\ front[i] = s[i] /\ front[k] = s[k]  BY <1>1, <1>3, <1>6, <1>9
  <2>. QED  BY <1>8, <2>1
<1>11. IsInjective(back)
  <2>. SUFFICES ASSUME NEW i \in 1..Len(back), NEW k \in 1..Len(back), back[i] = back[k] PROVE i = k
    BY <1>9 DEF IsInjective
  <2>1. at + i \in 1..Len(s) /\ at + k \in 1..Len(s) /\ back[i] = s[at + i] /\ back[k] = s[at + k]
    <3>1. \A m \in 1..Len(back) : at + 1 + m - 1 = at + m  BY <1>3, <1>9
    <3>2. \A m \in at + 1..Len(s) : m \in 1..Len(s)  BY <1>1, <1>3
    <3>. QED  BY <1>7, <3>1, <3>2
  <2>2. at + i = at + k  BY <1>8, <2>1
  <2>. QED  BY <1>3, <1>9, <2>2
<1>12. Range(front) \cap Range(back) = {}
  <2>. SUFFICES ASSUME NEW i \in 1..at - 1, NEW k \in at + 1..Len(s), s[i] = s[k] PROVE FALSE  BY <1>6, <1>7
  <2>1. i \in 1..Len(s) /\ k \in 1..Len(s) /\ i # k  BY <1>1, <1>3
  <2>. QED  BY <1>8, <2>1
<1>13. Range(front) \cup Range(back) = Range(s) \ {x}
  <2>1. ASSUME NEW y \in Range(s), y # x PROVE y \in Range(front) \cup Range(back)
    <3>1. PICK i \in 1..Len(s) : s[i] = y  BY SeqFacts
    <3>2. i # at  BY <1>3, <2>1, <3>1
    <3>3. i \in 1..at - 1 \/ i \in at + 1..Len(s)  BY <1>1, <1>3, <3>2
    <3>. QED  BY <1>6, <1>7, <3>1, <3>3
  <2>2. ASSUME NEW i \in 1..Len(s), i # at PROVE s[i] \in Range(s) \ {x}
    <3>1. s[i] # s[at]  BY <1>3, <1>8, <2>2
    <3>. QED  BY <1>3, <3>1, SeqFacts
  <2>3. \A i \in 1..at - 1 : i \in 1..Len(s) /\ i # at  BY <1>1, <1>3
  <2>4. \A i \in at + 1..Len(s) : i \in 1..Len(s) /\ i # at  BY <1>1, <1>3
  <2>. QED  BY <1>6, <1>7, <2>1, <2>2, <2>3, <2>4
<1>14. Halves(s, x, front, back)  BY <1>6, <1>7, <1>10, <1>11, <1>12, <1>13 DEF Halves
<1>. QED  BY <1>14 DEF FrontOf, BackOf, front, back, at

-----------------------------------------------------------------------------
(* The graph once the household is written, before anybody is told. *)
Advanced(g, k) ==
    /\ IsGraph(k) /\ k.clock = g.clock + 1 /\ Now(k) = g.clock + 1 /\ DOMAIN k.memory = DOMAIN g.memory
    /\ \A n \in DOMAIN g.memory \ {Persons} : k.memory[n] = g.memory[n]
    /\ k.rows = g.rows /\ k.selectors = g.selectors /\ k.slots = g.slots /\ k.registered = g.registered
    /\ k.queue = g.queue /\ k.scheduled = g.scheduled

\* Whoever reads the household is stale then.
LEMMA InformedIsStale ==
    ASSUME NEW g, Sound(g), Typed(g), NEW n \in Informed(g),
           NEW k, k.memory[Persons].at = g.clock + 1, k.memory[n] = g.memory[n]
    PROVE  IsStale(k, n)
<1>1. n.kind \in {"place", "mpg", "breakdown"}  BY Fixed DEF Informed
<1>2. Persons \in Inputs(k, n)
  <2>1. CASE n.kind \in {"place", "mpg"}  BY <2>1 DEF Inputs
  <2>2. CASE n.kind = "breakdown"  BY <2>2 DEF Inputs
  <2>. QED  BY <1>1, <2>1, <2>2
<1>3. n \in DOMAIN g.memory \ {Persons}
  <2>1. CASE n = Breakdown
    <3>1. Breakdown.kind # Persons.kind  BY Fixed
    <3>. QED  BY <2>1, <3>1, SoundIs
  <2>2. CASE n \in Pipes(g)
    <3>1. PICK e \in Range(g.selectors) : n \in {HomeOf(e), RouteOf(e), MpgOf(e), e}  BY <2>2, PipeIs
    <3>2. Piped(g, e)  BY PipedIs
    <3>. QED  BY <3>1, <3>2 DEF Piped
  <2>. QED  BY <2>1, <2>2 DEF Informed
<1>4. g.memory[n].at \in 0..g.clock /\ g.clock \in Nat  BY <1>3 DEF Typed, RecordOK
<1>5. k.memory[Persons].at # 0 /\ k.memory[Persons].at > k.memory[n].at  BY <1>4
<1>. QED  BY <1>2, <1>5 DEF IsStale

LEMMA InformedApart ==
    ASSUME NEW g, Sound(g), NEW n \in Informed(g)
    PROVE  /\ n \in Active(g) /\ n # Property
           /\ n.key \in LiveKeys(g) \/ (n = Breakdown /\ n.key = <<>>)
<1>1. CASE n = Breakdown
  <2>1. Breakdown.kind # Property.kind  BY Fixed
  <2>. QED  BY <1>1, <2>1, Fixed DEF Active
<1>2. CASE n \in Pipes(g)
  <2>1. PICK e \in Range(g.selectors) : n.key = e.key  BY <1>2, PipeIs
  <2>2. n.key \in LiveKeys(g) /\ n.key # <<>>
    <3>1. Piped(g, e)  BY PipedIs
    <3>. QED  BY <2>1, <3>1 DEF Piped
  <2>. QED  BY <1>2, <2>2, Fixed DEF Active
<1>. QED  BY <1>1, <1>2 DEF Informed

\* The queue a write leaves: the old listeners before the property, those that are built, and
\* the old listeners behind it.
ThreeQueues(q, a, b, c, old, fresh) ==
    /\ q = (a \o b) \o c /\ IsSeq(a) /\ IsSeq(b) /\ IsSeq(c) /\ OneId(a) /\ Ranked(b) /\ OneId(c)
    /\ Range(a) \subseteq old /\ Range(b) \subseteq fresh /\ Range(c) \subseteq old
    /\ Ids(a) \cap Ids(b) = {} /\ Ids(a) \cap Ids(c) = {} /\ Ids(b) \cap Ids(c) = {}
    /\ old \cap fresh = {}
LEMMA QueueOfThree ==
    ASSUME NEW q, NEW a, NEW b, NEW c, NEW old, NEW fresh, ThreeQueues(q, a, b, c, old, fresh)
    PROVE  /\ IsSeq(q) /\ OneId(q) /\ Range(q) = Range(a) \cup Range(b) \cup Range(c)
           /\ Ids(q) = Ids(a) \cup Ids(b) \cup Ids(c)
           /\ \A x, y \in fresh : Before(q, x, y) /\ x.key = y.key => Rank(x.kind) < Rank(y.kind)
<1>. DEFINE ab == a \o b
<1>1. /\ q = ab \o c /\ IsSeq(a) /\ IsSeq(b) /\ IsSeq(c) /\ OneId(a) /\ Ranked(b) /\ OneId(c)
      /\ Range(a) \subseteq old /\ Range(b) \subseteq fresh /\ Range(c) \subseteq old
      /\ Ids(a) \cap Ids(b) = {} /\ Ids(a) \cap Ids(c) = {} /\ Ids(b) \cap Ids(c) = {}
      /\ old \cap fresh = {}
  BY DEF ThreeQueues
<1>2. OneId(b) /\ \A x, y : Before(b, x, y) /\ x.key = y.key => Rank(x.kind) < Rank(y.kind)
  BY <1>1, RankedOneId
<1>3. IsSeq(ab) /\ Range(ab) = Range(a) \cup Range(b)  BY <1>1, JoinHolds
<1>4. /\ OneId(ab) /\ Ids(ab) = Ids(a) \cup Ids(b)
      /\ \A x, y : Before(ab, x, y) => Before(a, x, y) \/ Before(b, x, y) \/ (x \in Range(a) /\ y \in Range(b))
  BY <1>1, <1>2, JoinOrder
<1>. HIDE DEF ab
<1>5. IsSeq(q) /\ Range(q) = Range(ab) \cup Range(c)  BY <1>1, <1>3, JoinHolds
<1>6. Ids(ab) \cap Ids(c) = {}  BY <1>1, <1>4
<1>7. /\ OneId(ab \o c) /\ Ids(ab \o c) = Ids(ab) \cup Ids(c)
      /\ \A x, y : Before(ab \o c, x, y) => Before(ab, x, y) \/ Before(c, x, y) \/ (x \in Range(ab) /\ y \in Range(c))
  BY <1>1, <1>3, <1>4, <1>6, JoinOrder
<1>8. \A s, x, y : IsSeq(s) /\ Before(s, x, y) => x \in Range(s) /\ y \in Range(s)
  <2>. SUFFICES ASSUME NEW s, NEW x, NEW y, IsSeq(s), Before(s, x, y) PROVE x \in Range(s) /\ y \in Range(s)
    OBVIOUS
  <2>1. PICK i \in 1..Len(s), j \in 1..Len(s) : s[i] = x /\ s[j] = y  BY DEF Before
  <2>. QED  BY <2>1, SeqFacts
<1>9. ASSUME NEW x \in fresh, NEW y \in fresh, Before(q, x, y), x.key = y.key PROVE Rank(x.kind) < Rank(y.kind)
  <2>1. Before(ab, x, y) \/ Before(c, x, y) \/ (x \in Range(ab) /\ y \in Range(c))  BY <1>1, <1>7, <1>9
  <2>2. y \notin Range(c) /\ x \notin Range(a)  BY <1>1, <1>9
  <2>3. Before(ab, x, y)  BY <1>1, <1>8, <2>1, <2>2
  <2>4. Before(b, x, y)  BY <1>1, <1>4, <1>8, <2>2, <2>3
  <2>. QED  BY <1>2, <1>9, <2>4
<1>. QED  BY <1>1, <1>3, <1>4, <1>5, <1>7, <1>9

\* The nodes that are built go round in the circles of their entries.
LEMMA MadeInCircles ==
    ASSUME ChildrenStayChildren, NEW people \in Documents, NEW keys, NEW born \in Nat \ {0}
    PROVE  LET made == AllMade(people, RoutedOf(people, keys), born)
           IN  /\ \A n \in made : /\ IsPart(n, born) /\ n.born = born /\ n.key \in RoutedOf(people, keys)
                                  /\ n.kind \in Kinds /\ n \in Circle(Made(people, n.key, born, "entry"))
               /\ \A key \in RoutedOf(people, keys) : Circle(Made(people, key, born, "entry")) \subseteq made
<1>. DEFINE R == RoutedOf(people, keys)
            made == AllMade(people, R, born)
<1>1. \A n \in made : /\ IsPart(n, born) /\ n.born = born /\ n.key \in R /\ n.kind \in Kinds
                      /\ n = Made(people, n.key, born, n.kind) /\ n.kind \in KindsIn(people, n.key)
                      /\ Circle(Made(people, n.key, born, "entry"))
                           = {Made(people, n.key, born, kind) : kind \in KindsIn(people, n.key)}
  BY NewPartsAre
<1>2. \A n \in made : n \in Circle(Made(people, n.key, born, "entry"))
  <2>. SUFFICES ASSUME NEW n \in made PROVE n \in Circle(Made(people, n.key, born, "entry"))  OBVIOUS
  <2>1. Circle(Made(people, n.key, born, "entry")) = {Made(people, n.key, born, kind) : kind \in KindsIn(people, n.key)}
    BY <1>1
  <2>2. n = Made(people, n.key, born, n.kind) /\ n.kind \in KindsIn(people, n.key)  BY <1>1
  <2>. QED  BY <2>1, <2>2
<1>3. ASSUME NEW key \in R PROVE Circle(Made(people, key, born, "entry")) \subseteq made
  <2>1. "entry" \in KindsIn(people, key)  BY DEF KindsIn
  <2>2. {Made(people, key, born, kind) : kind \in KindsIn(people, key)} \subseteq made  BY DEF AllMade
  <2>. DEFINE e == Made(people, key, born, "entry")
  <2>3. e \in made  BY <2>1, <2>2
  <2>4. e.key = key  BY MadeIs
  <2>. HIDE DEF e, made
  <2>5. Circle(Made(people, e.key, born, "entry")) = {Made(people, e.key, born, kind) : kind \in KindsIn(people, e.key)}
    BY <1>1, <2>3
  <2>. QED  BY <2>2, <2>4, <2>5
<1>. QED  BY <1>1, <1>2, <1>3

\* The write stands as an announcement over the nodes there were.
LEMMA PushedIs ==
    ASSUME KeysAreUnique, ChildrenStayChildren, NEW old \in Documents, NEW people \in Documents,
           NEW last \in Nat, NEW born \in Nat, last < born,
           NEW g, AllStand(g, RoutedKeys(old), last), Typed(g), g.queue = <<>>, g.scheduled = {},
           NEW k, Advanced(g, k)
    PROVE  LET h == Announce(k, people, born)
           IN  /\ Sound(h) /\ LiveKeys(h) = RoutedKeys(people) /\ h.memory[Persons] = k.memory[Persons]
               /\ \E fresh : Pushed(g, h, fresh)
<1>. DEFINE front == FrontOf(k.slots, Property)
            back == BackOf(k.slots, Property)
            first == Notify(k, front)
            wanted == Range(Keys(people))
            current == {n.key : n \in Range(first.selectors)}
            gone == current \ wanted
            keys == wanted \ current
            down == TearDown(first, gone)
            ns == NewNodes(people, keys, born)
            v == Wired(down, ns)
            built == BuildPipelines(down, people, keys, born)
            edited == SetDeps(built)
            h == Notify(edited, back)
            fresh == AllMade(people, RoutedOf(people, keys), born)
            routed == RoutedOf(people, keys)
<1>1. Announce(k, people, born) = h  BY DEF Announce, OnPersonsChanged, FrontOf, BackOf
<1>. HIDE DEF h
<1>2. /\ IsGraph(k) /\ k.clock = g.clock + 1 /\ Now(k) = g.clock + 1 /\ DOMAIN k.memory = DOMAIN g.memory
      /\ \A n \in DOMAIN g.memory \ {Persons} : k.memory[n] = g.memory[n]
      /\ k.rows = g.rows /\ k.selectors = g.selectors /\ k.slots = g.slots /\ k.registered = g.registered
      /\ k.queue = <<>> /\ k.scheduled = {}
  BY DEF Advanced
<1>3. AllStand(k, RoutedKeys(old), last)  BY <1>2, RequeuedStands
<1>4. Sound(g) /\ LiveKeys(g) = RoutedKeys(old)
  BY DEF Sound, AllStand, Stands, EntriesStand, LiveKeys
<1>5. /\ AllStand(h, RoutedKeys(people), born)
      /\ Range(h.selectors) = EntriesAfter(k, old, people, born)
  BY <1>1, <1>3, AnnounceStands
<1>6. Sound(h) /\ LiveKeys(h) = RoutedKeys(people)
  BY <1>5 DEF Sound, AllStand, Stands, EntriesStand, LiveKeys
<1>7. EntriesAfter(k, old, people, born) = EntriesAfter(g, old, people, born)  BY <1>2 DEF EntriesAfter
\* The listeners.
<1>8. /\ IsSeq(k.slots) /\ IsInjective(k.slots) /\ Property \in Range(k.slots)
      /\ Range(k.slots) = Informed(g) \cup {Property}
  BY <1>2, <1>3 DEF AllStand, SlotsStand, Informed, Pipes
<1>9. Halves(k.slots, Property, front, back)  BY <1>8, HalvesHold
<1>. HIDE DEF front, back
<1>10. \A n \in Informed(g) : /\ n \in Active(g) /\ n # Property
                              /\ n.key \in LiveKeys(g) \/ (n = Breakdown /\ n.key = <<>>)
  BY <1>4, InformedApart
<1>11. /\ IsSeq(front) /\ IsSeq(back) /\ IsInjective(front) /\ IsInjective(back)
       /\ Range(front) \cap Range(back) = {} /\ Range(front) \cup Range(back) = Informed(g)
  BY <1>8, <1>9, <1>10 DEF Halves
<1>12. \A x, y \in Informed(g) : Id(x) = Id(y) => x = y  BY <1>4, <1>10, ActiveIds
<1>13. \A s : IsSeq(s) /\ IsInjective(s) /\ Range(s) \subseteq Informed(g) => OneId(s)
  <2>. SUFFICES ASSUME NEW s, IsSeq(s), IsInjective(s), Range(s) \subseteq Informed(g) PROVE OneId(s)  OBVIOUS
  <2>1. DOMAIN s = 1..Len(s) /\ \A i \in 1..Len(s) : s[i] \in Informed(g)  BY SeqFacts
  <2>. QED  BY <1>12, <2>1 DEF OneId, IsInjective
<1>14. OneId(front) /\ OneId(back)  BY <1>11, <1>13
<1>15. \A n \in Informed(g) : n \in DOMAIN g.memory \ {Persons}
  <2>. SUFFICES ASSUME NEW n \in Informed(g) PROVE n \in DOMAIN g.memory \ {Persons}  OBVIOUS
  <2>1. CASE n = Breakdown
    <3>1. Breakdown.kind # Persons.kind  BY Fixed
    <3>. QED  BY <1>4, <2>1, <3>1, SoundIs
  <2>2. CASE n \in Pipes(g)
    <3>1. PICK e \in Range(g.selectors) : n \in {HomeOf(e), RouteOf(e), MpgOf(e), e}  BY <1>4, <2>2, PipeIs
    <3>2. Piped(g, e)  BY <1>4, PipedIs
    <3>. QED  BY <3>1, <3>2 DEF Piped
  <2>. QED  BY <2>1, <2>2 DEF Informed
\* The steps.
<1>16. IsGraph(first) /\ Requeued(k, first)  BY <1>2, NotifyRequeues
<1>17. PICK a : Joins(k, front, first, a)  BY <1>2, <1>11, NotifyDoes
<1>. HIDE DEF first
<1>18. current = LiveKeys(g)  BY <1>2, <1>16 DEF Requeued, LiveKeys
<1>. HIDE DEF current
<1>. HIDE DEF gone
<1>19. /\ IsGraph(down) /\ down.memory = first.memory /\ down.rows = first.rows /\ down.clock = first.clock
       /\ down.queue = first.queue /\ down.scheduled = KeptIds(first.scheduled, gone)
  BY <1>16, TearDownDoes
<1>. HIDE DEF down
<1>20. built.memory = Remembered(down, ns) /\ built.rows = down.rows /\ built.clock = down.clock /\ IsGraph(built)
  BY <1>19, BuildDoes
<1>21. \E due : Joins(v, ns, built, due) /\ Ranked(due)  BY <1>19, BuildQueues
<1>22. v.queue = down.queue /\ v.scheduled = down.scheduled /\ v.memory = built.memory  BY <1>19, BuildQueues
<1>. HIDE DEF v
<1>23. PICK b : Joins(v, ns, built, b) /\ Ranked(b)  BY <1>21
<1>. HIDE DEF built
<1>24. /\ IsGraph(edited) /\ edited.memory = built.memory /\ edited.rows = built.rows /\ edited.clock = built.clock
       /\ edited.queue = built.queue /\ edited.scheduled = built.scheduled
  BY <1>20, SetDepsDoes
<1>. HIDE DEF edited
<1>25. IsGraph(h) /\ Requeued(edited, h)  BY <1>24, NotifyRequeues DEF h
<1>26. PICK c : Joins(edited, back, h, c)  BY <1>11, <1>24, NotifyDoes DEF h
<1>27. /\ h.memory = built.memory /\ v.memory = h.memory /\ edited.memory = h.memory /\ down.memory = k.memory
       /\ h.rows = g.rows /\ down.rows = g.rows /\ h.clock = g.clock + 1
  BY <1>2, <1>16, <1>19, <1>20, <1>22, <1>24, <1>25 DEF Requeued
\* The nodes that are built.
<1>28. Range(ns) = fresh  BY NewNodesAre
<1>29. /\ \A n \in fresh : /\ IsPart(n, born) /\ n.born = born /\ n.key \in routed
                           /\ n.kind \in Kinds /\ n \in Circle(Made(people, n.key, born, "entry"))
       /\ \A key \in routed : Circle(Made(people, key, born, "entry")) \subseteq fresh
  <2>1. born \in Nat \ {0}  OBVIOUS
  <2>. HIDE DEF keys
  <2>. QED  BY <2>1, MadeInCircles
<1>31. routed = RoutedKeys(people) \ Range(Keys(old)) /\ routed \cap LiveKeys(g) = {} /\ routed \subseteq wanted
  <2>1. routed \cap LiveKeys(g) = {} /\ routed \subseteq wanted  BY <1>18 DEF RoutedOf
  <2>2. routed = RoutedKeys(people) \ Range(Keys(old))
    BY <1>4, <1>18, RoutedStays DEF RoutedOf, RoutedKeys
  <2>. QED  BY <2>1, <2>2
<1>. HIDE DEF ns, fresh, routed, keys
<1>32. \A n \in fresh : n.key \notin LiveKeys(g) /\ n.key # <<>> /\ n \notin DOMAIN g.memory /\ n # Idle
  <2>. SUFFICES ASSUME NEW n \in fresh
                PROVE  n.key \notin LiveKeys(g) /\ n.key # <<>> /\ n \notin DOMAIN g.memory /\ n # Idle
    OBVIOUS
  <2>1. IsPart(n, born) /\ n.born = born /\ n.key \in routed  BY <1>29
  <2>2. n.key # <<>>  BY <2>1, KeyIs DEF IsPart
  <2>3. n # Idle  BY <2>2 DEF Idle, Node
  <2>4. n \notin {Persons, Breakdown}  BY <2>2, Fixed
  <2>5. \A m \in DOMAIN g.memory : m \in {Persons, Breakdown} \/ m.born \in 1..last
    BY DEF AllStand, Stands, MemoryStands, IsPart
  <2>6. n.born \notin 1..last  BY <2>1
  <2>. QED  BY <1>31, <2>1, <2>2, <2>3, <2>4, <2>5, <2>6
<1>33. /\ DOMAIN h.memory = DOMAIN g.memory \cup fresh
       /\ \A n \in DOMAIN g.memory : h.memory[n] = k.memory[n]
       /\ \A n \in fresh : h.memory[n] = Restored(h, n)
  <2>1. h.memory = Remembered(down, ns)  BY <1>20, <1>27
  <2>2. DOMAIN h.memory = DOMAIN g.memory \cup fresh  BY <1>2, <1>27, <1>28, <2>1 DEF Remembered
  <2>3. \A n \in DOMAIN g.memory : h.memory[n] = k.memory[n]
    BY <1>2, <1>27, <1>28, <1>32, <2>1 DEF Remembered
  <2>4. \A n \in fresh : h.memory[n] = Restored(down, n)
    BY <1>2, <1>27, <1>28, <2>1 DEF Remembered
  <2>5. \A n : Restored(down, n) = Restored(h, n)  BY <1>27 DEF Restored
  <2>. QED  BY <2>2, <2>3, <2>4, <2>5
<1>34. h.memory[Persons].at = g.clock + 1 /\ Persons \in DOMAIN g.memory
  <2>1. Persons \in DOMAIN g.memory  BY <1>4, SoundIs
  <2>. QED  BY <1>2, <1>33, <2>1 DEF Now
<1>35. \A n \in fresh : n \in Pipes(h)
  <2>. SUFFICES ASSUME NEW n \in fresh PROVE n \in Pipes(h)  OBVIOUS
  <2>. DEFINE e == Made(people, n.key, born, "entry")
  <2>1. e \in Range(h.selectors)
    <3>1. n.key \in RoutedKeys(people) \ Range(Keys(old))  BY <1>29, <1>31
    <3>. QED  BY <1>5, <3>1 DEF EntriesAfter, EntriesMade
  <2>2. n \in Circle(e)  BY <1>29
  <2>. QED  BY <2>1, <2>2 DEF Pipes
<1>36. PushedRows(g, h, fresh)
  <2>1. Now(h) = h.clock  BY <1>27, <1>34 DEF Now
  <2>2. \A n \in DOMAIN g.memory \ {Persons} : h.memory[n] = g.memory[n]  BY <1>2, <1>33
  <2>3. fresh \cap DOMAIN g.memory = {} /\ Idle \notin fresh  BY <1>32
  <2>4. \A n \in fresh : n.kind \in Kinds  BY <1>29
  <2>. QED  BY <1>27, <1>32, <1>33, <1>35, <2>1, <2>2, <2>3, <2>4 DEF PushedRows
<1>37. PushedPipes(g, h, fresh)
  <2>1. ASSUME NEW e \in Range(h.selectors), e \notin Range(g.selectors) PROVE Circle(e) \subseteq fresh
    <3>1. PICK key \in RoutedKeys(people) \ Range(Keys(old)) : e = Made(people, key, born, "entry")
      BY <1>5, <1>7, <2>1 DEF EntriesAfter, EntriesMade
    <3>. QED  BY <1>29, <1>31, <3>1
  <2>2. ASSUME NEW e \in Range(g.selectors), e.key \in LiveKeys(h) PROVE e \in Range(h.selectors)
    <3>1. e.key \in Range(Keys(people))  BY <1>6, <2>2 DEF RoutedKeys
    <3>. QED  BY <1>5, <1>7, <3>1 DEF EntriesAfter
  <2>. QED  BY <2>1, <2>2 DEF PushedPipes
\* The queue.
<1>38. /\ IsSeq(a) /\ first.queue = <<>> \o a /\ first.scheduled = Ids(a) /\ OneId(a)
       /\ \A n : n \in Range(a) <=> n \in Range(front) /\ IsStale(k, n)
  BY <1>2, <1>14, <1>17 DEF Joins
<1>39. /\ IsSeq(b) /\ Ranked(b) /\ built.queue = down.queue \o b /\ built.scheduled = down.scheduled \cup Ids(b)
       /\ \A n : n \in Range(b) <=> n \in fresh /\ IsStale(v, n) /\ Id(n) \notin down.scheduled
  BY <1>22, <1>23, <1>28 DEF Joins
<1>40. /\ IsSeq(c) /\ OneId(c) /\ h.queue = edited.queue \o c /\ h.scheduled = edited.scheduled \cup Ids(c)
       /\ \A n : n \in Range(c) <=> n \in Range(back) /\ IsStale(edited, n) /\ Id(n) \notin edited.scheduled
  BY <1>14, <1>26 DEF Joins
<1>41. <<>> \o a = a
  <2>1. a \in Seq(Range(a))  BY <1>38 DEF IsSeq
  <2>. QED  BY <2>1
<1>42. /\ h.queue = (a \o b) \o c
       /\ h.scheduled = (KeptIds(Ids(a), gone) \cup Ids(b)) \cup Ids(c)
       /\ down.scheduled = KeptIds(Ids(a), gone) /\ edited.scheduled = KeptIds(Ids(a), gone) \cup Ids(b)
  BY <1>19, <1>24, <1>38, <1>39, <1>40, <1>41
<1>43. Range(a) \subseteq Informed(g) /\ Range(b) \subseteq fresh /\ Range(c) \subseteq Informed(g)
  BY <1>11, <1>38, <1>39, <1>40
<1>44. Informed(g) \cap fresh = {}  BY <1>15, <1>32
<1>45. ThreeQueues(h.queue, a, b, c, Informed(g), fresh)
  <2>1. ASSUME NEW x \in Informed(g), NEW y \in fresh PROVE Id(x) # Id(y)
    <3>1. x.key # y.key  BY <1>10, <1>32
    <3>. QED  BY <3>1 DEF Id
  <2>2. ASSUME NEW x \in Range(a), NEW y \in Range(c) PROVE Id(x) # Id(y)
    <3>1. x # y  BY <1>11, <1>38, <1>40
    <3>. QED  BY <1>12, <1>43, <3>1
  <2>3. Ids(a) \cap Ids(b) = {} /\ Ids(b) \cap Ids(c) = {}  BY <1>43, <2>1 DEF Ids
  <2>4. Ids(a) \cap Ids(c) = {}  BY <2>2 DEF Ids
  <2>. QED  BY <1>38, <1>39, <1>40, <1>42, <1>43, <1>44, <2>3, <2>4 DEF ThreeQueues
<1>46. /\ IsSeq(h.queue) /\ OneId(h.queue) /\ Range(h.queue) = Range(a) \cup Range(b) \cup Range(c)
       /\ Ids(h.queue) = Ids(a) \cup Ids(b) \cup Ids(c)
       /\ \A x, y \in fresh : Before(h.queue, x, y) /\ x.key = y.key => Rank(x.kind) < Rank(y.kind)
  BY <1>45, QueueOfThree
<1>47. ASSUME NEW n \in Range(a), n \in Active(h) PROVE Id(n) \in h.scheduled
  <2>1. Id(n) \in Ids(a) /\ Id(n)[2] = n.key  BY DEF Ids, Id
  <2>2. n.key \notin gone
    <3>1. CASE n = Breakdown
      <4>1. n.key \notin LiveKeys(g)
        <5>1. \A e \in Range(g.selectors) : e.key # <<>>
          <6>1. \A e \in Range(g.selectors) : Piped(g, e)  BY <1>4, PipedIs
          <6>. QED  BY <6>1 DEF Piped
        <5>. QED  BY <3>1, <5>1, Fixed DEF LiveKeys
      <4>. QED  BY <1>18, <4>1 DEF gone
    <3>2. CASE n \in Pipes(h)
      <4>1. n.key \in LiveKeys(h)  BY <1>6, <3>2, PipeIs DEF LiveKeys
      <4>. QED  BY <1>6, <4>1 DEF gone, RoutedKeys
    <3>. QED  BY <1>47, <3>1, <3>2 DEF Active
  <2>3. Id(n) \in KeptIds(Ids(a), gone)  BY <2>1, <2>2 DEF KeptIds
  <2>. QED  BY <1>42, <2>3
<1>48. h.scheduled \subseteq Ids(h.queue)  BY <1>42, <1>46 DEF KeptIds
<1>49. ASSUME NEW n \in Range(h.queue), n \in Active(h) PROVE Id(n) \in h.scheduled
  <2>1. n \in Range(b) \cup Range(c) => Id(n) \in Ids(b) \cup Ids(c)  BY DEF Ids
  <2>. QED  BY <1>42, <1>46, <1>47, <1>49, <2>1
<1>50. ASSUME NEW n \in Informed(g), n \in Active(h) PROVE Id(n) \in h.scheduled
  <2>1. CASE n \in Range(front)
    <3>1. k.memory[Persons].at = g.clock + 1 /\ k.memory[n] = g.memory[n]  BY <1>2, <1>15 DEF Now
    <3>2. IsStale(k, n)  BY <1>4, <3>1, InformedIsStale
    <3>. QED  BY <1>38, <1>47, <1>50, <2>1, <3>2
  <2>2. CASE n \in Range(back)
    <3>1. edited.memory[Persons].at = g.clock + 1 /\ edited.memory[n] = g.memory[n]
      BY <1>2, <1>15, <1>27, <1>33, <1>34
    <3>2. IsStale(edited, n)  BY <1>4, <3>1, InformedIsStale
    <3>3. Id(n) \in edited.scheduled \/ Id(n) \in Ids(c)  BY <1>40, <2>2, <3>2 DEF Ids
    <3>. QED  BY <1>40, <3>3
  <2>. QED  BY <1>11, <2>1, <2>2
<1>51. ASSUME NEW n \in fresh, IsStale(h, n) PROVE Id(n) \in h.scheduled
  <2>1. n = Node(n.kind, n.key, n.born, n.car) /\ n.kind \in Kinds  BY <1>29 DEF IsPart
  <2>2. Inputs(v, n) = Inputs(h, n)  BY <1>27, <2>1, InputsAlike
  <2>3. IsStale(v, n)  BY <1>27, <1>51, <2>2, StaleAlike
  <2>4. Id(n) \in down.scheduled \/ Id(n) \in Ids(b)  BY <1>39, <2>3 DEF Ids
  <2>. QED  BY <1>42, <2>4
<1>52. PushedQueue(g, h, fresh)
  <2>1. Range(h.queue) \subseteq Informed(g) \cup fresh  BY <1>43, <1>46
  <2>. QED  BY <1>46, <1>48, <1>49, <1>50, <1>51, <2>1 DEF PushedQueue
<1>53. Pushed(g, h, fresh)  BY <1>36, <1>37, <1>52 DEF Pushed
<1>. QED  BY <1>1, <1>6, <1>33, <1>34, <1>53

-----------------------------------------------------------------------------
(* The household itself is stamped when it is written, and at no other time. *)
Clocked(g) == "at" \in DOMAIN g.memory[Persons]
PersonsKept(g, h) == h.memory[Persons] = g.memory[Persons]

LEMMA StoreKeeps ==
    ASSUME NEW g, IsGraph(g), Persons \in DOMAIN g.memory, NEW n, n # Persons, NEW row
    PROVE  PersonsKept(g, Store(g, n, row))
<1>. DEFINE r == Stamped(g, row)
            h == Store(g, n, row)
<1>1. h.memory = Recorded(g, n, r)  BY StoreDoes
<1>. HIDE DEF r, h
<1>2. h.memory[Persons] = g.memory[Persons]  BY <1>1 DEF Recorded
<1>. QED  BY <1>2 DEF h, PersonsKept

LEMMA CompleteKeeps ==
    ASSUME NEW g, IsGraph(g), Persons \in DOMAIN g.memory, NEW n, n # Persons, NEW value, NEW basis
    PROVE  PersonsKept(g, Complete(g, n, value, basis))
<1>. DEFINE h == Store(g, n, [value |-> value, at |-> 0, basis |-> basis])
            k == Notify(h, Listeners(g, n))
<1>1. Complete(g, n, value, basis) = k  BY DEF Complete
<1>2. IsGraph(h) /\ PersonsKept(g, h)  BY StoreKeeps, StoreDoes
<1>. HIDE DEF h
<1>3. k.memory = h.memory  BY <1>2, NotifyRequeues DEF Requeued
<1>. HIDE DEF k
<1>. QED  BY <1>1, <1>2, <1>3 DEF PersonsKept

LEMMA PutOffKeeps ==
    ASSUME NEW g, IsGraph(g), Persons \in DOMAIN g.memory, NEW n, n # Persons, NEW basis
    PROVE  PersonsKept(g, PutOff(g, n, basis))
<1>. DEFINE stored == Store(g, n, [value |-> Pending, at |-> 0, basis |-> basis])
            marked == [stored EXCEPT !.memory[n].value = g.memory[n].value]
            k == Schedule(marked, <<n>>)
<1>1. PutOff(g, n, basis) = IF g.memory[n].value = Pending THEN k ELSE marked  BY DEF PutOff
<1>2. IsGraph(stored) /\ PersonsKept(g, stored) /\ Unmoved(g, stored)  BY StoreKeeps, StoreDoes, StoreUnmoved
<1>. HIDE DEF stored
<1>3. Persons \in DOMAIN stored.memory  BY <1>2 DEF Unmoved
<1>4. IsGraph(marked) /\ marked.memory[Persons] = stored.memory[Persons]  BY <1>2, <1>3 DEF IsGraph, Fields
<1>. HIDE DEF marked
<1>5. k.memory = marked.memory  BY <1>4, ScheduleDoes DEF Requeued
<1>. HIDE DEF k
<1>. QED  BY <1>1, <1>2, <1>4, <1>5 DEF PersonsKept

LEMMA RefreshKeeps ==
    ASSUME Sound(graph), Queued(graph), Refresh
    PROVE  PersonsKept(graph, graph')
<1>. DEFINE n == Head(graph.queue)
            g == Popped(graph, n)
            basis == Basis(g, Inputs(g, n))
<1>1. /\ graph.queue # <<>>
      /\ \/ graph' = g \/ graph' = Complete(g, n, <<"impossible">>, basis) \/ graph' = PutOff(g, n, basis)
  BY DEF Refresh, Popped, Basis
<1>2. IsGraph(graph) /\ Persons \in DOMAIN graph.memory  BY SoundIs
<1>3. n # Persons
  <2>1. IsSeq(graph.queue) /\ Range(graph.queue) \subseteq DOMAIN graph.memory \ {Persons}  BY DEF Queued
  <2>2. Len(graph.queue) \in Nat /\ Len(graph.queue) # 0 /\ graph.queue \in Seq(Range(graph.queue))
    BY <1>1, <2>1, SeqFacts
  <2>3. graph.queue[1] \in Range(graph.queue) /\ n = graph.queue[1]  BY <2>1, <2>2, SeqFacts
  <2>. QED  BY <2>1, <2>3
<1>. HIDE DEF n
<1>4. IsGraph(g) /\ g.memory = graph.memory  BY <1>2, PoppedIs DEF Requeued
<1>. HIDE DEF g, basis
<1>5. PersonsKept(g, Complete(g, n, <<"impossible">>, basis)) /\ PersonsKept(g, PutOff(g, n, basis))
  BY <1>2, <1>3, <1>4, CompleteKeeps, PutOffKeeps
<1>. QED  BY <1>1, <1>4, <1>5 DEF PersonsKept

LEMMA StoreResultKeeps ==
    ASSUME Sound(graph), UnderWay(graph, running, Household), StoreResult
    PROVE  PersonsKept(graph, graph')
<1>. DEFINE n == running.node
            mine == graph.memory[n]
<1>1. \/ graph' = Complete(graph, n, running.value, running.basis)
      \/ graph' = graph
      \/ graph' = Store(graph, n, [mine EXCEPT !.basis = running.basis])
  BY DEF StoreResult
<1>2. n # Persons  BY DEF StoreResult, UnderWay, Given
<1>3. IsGraph(graph) /\ Persons \in DOMAIN graph.memory  BY SoundIs
<1>4. PersonsKept(graph, Complete(graph, n, running.value, running.basis))  BY <1>2, <1>3, CompleteKeeps
<1>5. PersonsKept(graph, Store(graph, n, [mine EXCEPT !.basis = running.basis]))  BY <1>2, <1>3, StoreKeeps
<1>. QED  BY <1>1, <1>4, <1>5 DEF PersonsKept

-----------------------------------------------------------------------------
(* What is shown follows the household. *)
ShownInv ==
    /\ FollowInv /\ Clocked(graph)
    /\ Main(graph, running.node, Household) /\ UnderWay(graph, running, Household)

LEMMA ShownFacts ==
    ASSUME FollowInv
    PROVE  Sound(graph) /\ LiveKeys(graph) = RoutedKeys(Household) /\ Household \in Documents
BY LastWrite DEF FollowInv, Sound, AllStand, Stands, EntriesStand, LiveKeys

LEMMA ShownInit ==
    ASSUME KeysAreUnique, ChildrenStayChildren, HouseholdInit
    PROVE  ShownInv
<1>. DEFINE g == [memory |-> [n \in {Persons} |-> [Never EXCEPT !.at = 1]], rows |-> <<>>, selectors |-> <<>>,
                  slots |-> <<>>, queue |-> <<>>, scheduled |-> {}, registered |-> {}, clock |-> 1]
            h == Open(g, Household, 1)
<1>1. graph = h /\ running.node = Idle  BY DEF HouseholdInit
<1>2. FollowInv /\ Household \in Documents  BY FollowInit, ShownFacts
<1>3. IsGraph(g)  BY DEF IsGraph, Fields
<1>4. DOMAIN g.rows = {} /\ g.clock = 1 /\ Now(g) = 1 /\ Clocked(g)
  <2>1. g.memory[Persons] = [Never EXCEPT !.at = 1] /\ g.clock = 1  OBVIOUS
  <2>2. [Never EXCEPT !.at = 1].at = 1 /\ "at" \in DOMAIN [Never EXCEPT !.at = 1]  BY DEF Never
  <2>3. DOMAIN g.rows = {}  OBVIOUS
  <2>. QED  BY <2>1, <2>2, <2>3 DEF Now, Clocked
<1>. HIDE DEF g
<1>5. TableFits(g, Household)
  <2>1. \A key : RouteId(key) \notin DOMAIN g.rows /\ EntryId(key) \notin DOMAIN g.rows  BY <1>4
  <2>. QED  BY <1>4, <2>1 DEF TableFits, TableOK, RowsTold, RowsLinked, RoutesRow, EntrysRow
<1>6. 1 \in Nat \ {0}  OBVIOUS
<1>7. Main(h, Idle, Household)  BY <1>2, <1>3, <1>5, <1>6, OpenMain
<1>8. h.memory[Persons] = g.memory[Persons]  BY <1>2, <1>3, <1>6, OpenIs
<1>. HIDE DEF h
<1>. QED  BY <1>1, <1>2, <1>4, <1>7, <1>8 DEF ShownInv, UnderWay, Clocked

LEMMA ShownRestart ==
    ASSUME KeysAreUnique, ChildrenStayChildren, ShownInv, RestartServer
    PROVE  ShownInv'
<1>. DEFINE last == Len(writes)
            h == Open(graph, Household, last)
<1>1. graph' = h /\ running'.node = Idle /\ writes' = writes  BY DEF RestartServer
<1>2. FollowInv'  BY FollowRestart DEF ShownInv
<1>3. Sound(graph) /\ LiveKeys(graph) = RoutedKeys(Household) /\ Household \in Documents
  BY ShownFacts DEF ShownInv
<1>4. Household' = Household  BY <1>1 DEF Household
<1>5. last \in Nat \ {0}
  <2>1. IsSeq(writes) /\ Len(writes) >= 1  BY DEF ShownInv, FollowInv, Written
  <2>. QED  BY <2>1, SeqFacts
<1>6. IsGraph(graph)  BY <1>3, SoundIs
<1>7. TableFits(graph, Household)
  <2>1. Typed(graph) /\ RowsTold(graph, Household) /\ RowsLinked(graph) /\ RowsSummed(graph)
    BY DEF ShownInv, Main
  <2>. QED  BY <1>3, <2>1 DEF TableFits, TableOK, Typed, RowsSummed
<1>. HIDE DEF last
<1>8. Main(h, Idle, Household)  BY <1>3, <1>5, <1>6, <1>7, OpenMain
<1>9. h.memory[Persons] = graph.memory[Persons]  BY <1>3, <1>5, <1>6, OpenIs
<1>. HIDE DEF h
<1>. QED  BY <1>1, <1>2, <1>4, <1>8, <1>9 DEF ShownInv, UnderWay, Clocked

LEMMA ShownPush ==
    ASSUME KeysAreUnique, ChildrenStayChildren, ShownInv, graph.queue = <<>>,
           NEW people \in Documents, NEW source, PushPersons(people, source)
    PROVE  ShownInv'
<1>. DEFINE k == [graph EXCEPT !.clock = @ + 1, !.memory[Persons].at = graph.clock + 1]
            last == Len(writes)
            h == Announce(k, people, last + 1)
            w == [persons |-> people, source |-> source, paged |-> Pages(Household, people, source)]
<1>1. graph' = h /\ writes' = Append(writes, w) /\ running' = running /\ graph.queue = <<>>
  BY DEF PushPersons
<1>2. FollowInv'  BY FollowPush DEF ShownInv
<1>3. /\ Sound(graph) /\ Household \in Documents /\ AllStand(graph, RoutedKeys(Household), last)
      /\ Written(writes)
  BY ShownFacts DEF ShownInv, FollowInv
<1>4. last \in Nat /\ writes \in Seq(Range(writes))  BY <1>3, SeqFacts DEF Written
<1>5. Household' = people
  <2>1. w.persons = people  OBVIOUS
  <2>. HIDE DEF w
  <2>2. Len(writes') = last + 1 /\ writes'[Len(writes')] = w  BY <1>1, <1>3, <2>1, SinceLasts
  <2>3. Last(writes') = writes'[Len(writes')]  BY DEF Last
  <2>. QED  BY <2>1, <2>2, <2>3 DEF Household
<1>. HIDE DEF w
<1>6. /\ Typed(graph) /\ Queued(graph) /\ Main(graph, running.node, Household)
      /\ UnderWay(graph, running, Household) /\ Clocked(graph)
  BY DEF ShownInv, Main
<1>7. graph.scheduled = {}
  <2>1. Range(<<>>) = {}  BY DEF Range
  <2>. QED  BY <1>1, <1>6, <2>1 DEF Queued, Ids
<1>8. IsGraph(graph) /\ Persons \in DOMAIN graph.memory  BY <1>3, SoundIs
<1>9. Advanced(graph, k) /\ Clocked(k)
  <2>1. /\ IsGraph(k) /\ k.clock = graph.clock + 1 /\ k.rows = graph.rows /\ k.selectors = graph.selectors
        /\ k.slots = graph.slots /\ k.registered = graph.registered
        /\ k.queue = graph.queue /\ k.scheduled = graph.scheduled
        /\ k.memory = [graph.memory EXCEPT ![Persons].at = graph.clock + 1]
    BY <1>8 DEF IsGraph, Fields
  <2>. HIDE DEF k
  <2>2. /\ DOMAIN k.memory = DOMAIN graph.memory
        /\ \A n \in DOMAIN graph.memory \ {Persons} : k.memory[n] = graph.memory[n]
        /\ k.memory[Persons] = [graph.memory[Persons] EXCEPT !.at = graph.clock + 1]
    BY <1>8, <2>1
  <2>3. k.memory[Persons].at = graph.clock + 1 /\ "at" \in DOMAIN k.memory[Persons]
    BY <1>6, <2>2 DEF Clocked
  <2>. QED  BY <2>1, <2>2, <2>3 DEF Advanced, Now, Clocked
<1>10. last + 1 \in Nat /\ last < last + 1  BY <1>4
<1>. HIDE DEF k, last
<1>11. /\ Sound(h) /\ LiveKeys(h) = RoutedKeys(people) /\ h.memory[Persons] = k.memory[Persons]
       /\ \E fresh : Pushed(graph, h, fresh)
  BY <1>1, <1>3, <1>4, <1>6, <1>7, <1>9, <1>10, PushedIs
<1>. HIDE DEF h
<1>12. PICK fresh : Pushed(graph, h, fresh)  BY <1>11
<1>13. running.node = Idle \/ running.node \in DOMAIN graph.memory  BY <1>6 DEF UnderWay, Given
<1>14. Main(h, running.node, people)  BY <1>1, <1>3, <1>6, <1>11, <1>12, <1>13, PushedMain
<1>15. UnderWay(h, running, people)
  <2>1. CASE running.node = Idle  BY <2>1 DEF UnderWay
  <2>2. CASE Given(graph, running.node, running.value, running.basis, Household)
    BY <1>3, <1>6, <1>11, <1>12, <2>2, PushedGiven DEF UnderWay
  <2>. QED  BY <1>6, <2>1, <2>2 DEF UnderWay
<1>16. Clocked(h)  BY <1>9, <1>11 DEF Clocked
<1>. QED  BY <1>1, <1>2, <1>5, <1>14, <1>15, <1>16 DEF ShownInv

LEMMA ShownStep ==
    ASSUME KeysAreUnique, ChildrenStayChildren, ShownInv, ~hurried', [HouseholdNext]_householdVars
    PROVE  ShownInv'
<1>1. CASE \E people \in Documents, source \in {"user", "what-if"} : PushPersons(people, source)
  <2>1. graph.queue = <<>>  BY <1>1 DEF PushPersons
  <2>. QED  BY <1>1, <2>1, ShownPush
<1>2. /\ FollowInv' /\ Sound(graph) /\ LiveKeys(graph) \subseteq Range(Keys(Household))
      /\ Main(graph, running.node, Household) /\ Queued(graph)
      /\ UnderWay(graph, running, Household) /\ Clocked(graph)
  BY FollowStep, ShownFacts DEF ShownInv, Main, RoutedKeys
<1>3. CASE Refresh
  <2>1. Household' = Household  BY <1>3 DEF Refresh, Household
  <2>2. Main(graph', running'.node, Household) /\ UnderWay(graph', running', Household)
    BY <1>2, <1>3, RefreshMain
  <2>3. Clocked(graph)'  BY <1>2, <1>3, RefreshKeeps DEF Clocked, PersonsKept
  <2>. QED  BY <1>2, <2>1, <2>2, <2>3 DEF ShownInv
<1>4. CASE StoreResult
  <2>1. Household' = Household /\ running'.node = Idle  BY <1>4 DEF StoreResult, Household
  <2>2. Main(graph', Idle, Household)  BY <1>2, <1>4, StoreResultMain
  <2>3. Clocked(graph)'  BY <1>2, <1>4, StoreResultKeeps DEF Clocked, PersonsKept
  <2>. QED  BY <1>2, <2>1, <2>2, <2>3 DEF ShownInv, UnderWay
<1>5. CASE RestartServer  BY <1>5, ShownRestart
<1>6. CASE UNCHANGED householdVars
  <2>1. graph' = graph /\ running' = running /\ Household' = Household  BY <1>6 DEF householdVars, Household
  <2>. QED  BY <1>2, <2>1 DEF ShownInv
<1>. QED  BY <1>1, <1>3, <1>4, <1>5, <1>6 DEF HouseholdNext

\* A write that came while nodes were queued is never taken back.
LEMMA HurriedStays ==
    ASSUME [HouseholdNext]_householdVars, hurried
    PROVE  hurried'
BY DEF HouseholdNext, householdVars, PushPersons, Refresh, StoreResult, RestartServer

\* What is shown of one destination once nothing is queued.
Reached(g, e) ==
    LET goal == Goal(e.key)
    IN  IF goal \in Unroutable THEN g.memory[e].value = <<"impossible">>
        ELSE \E car \in BOOLEAN : g.memory[e].value = <<"is", goal, Economy(e.key), car>>

LEMMA ReachedIs ==
    ASSUME ChildrenStayChildren, ShownInv, AtRest, NEW e \in Live
    PROVE  Reached(graph, e)
<1>1. /\ Sound(graph) /\ LiveKeys(graph) = RoutedKeys(Household) /\ Household \in Documents
      /\ Main(graph, Idle, Household)
  BY ShownFacts DEF ShownInv, AtRest
<1>2. /\ Typed(graph) /\ Queued(graph) /\ MemoryTold(graph, Household) /\ PipesFit(graph, Idle)
  BY <1>1 DEF Main
<1>3. graph.scheduled = {}
  <2>1. Range(<<>>) = {}  BY DEF Range
  <2>. QED  BY <1>2, <2>1 DEF Queued, Ids, AtRest
<1>4. Piped(graph, e) /\ Distinct(e)  BY <1>1, PipedIs, FourApart DEF Live
<1>5. e.key \in RoutedKeys(Household) /\ e.key \in Range(Keys(Household))
  BY <1>1, <1>4 DEF Piped, RoutedKeys
<1>6. \A n \in Circle(e) : Free(graph, Idle, n) /\ n \in DOMAIN graph.memory \ {Persons}
  BY <1>3, <1>4 DEF Free, Distinct, Piped, Circle
<1>7. PipeFits(graph, Idle, e)  BY <1>2 DEF PipesFit, Live
<1>8. /\ HomeSettled(graph, HomeOf(e)) /\ HomeSettled(graph, MpgOf(e)) /\ RouteSettled(graph, e)
      /\ EntryFits(graph, Idle, e)
  BY <1>6, <1>7 DEF PipeFits, Settled, Circle
<1>. DEFINE goal == Goal(e.key)
<1>9. graph.memory[HomeOf(e)].value = <<"at", goal>>
  <2>1. HomeIn(Household, e.key) = HomeKind(e.key)  BY <1>1, <1>5, HomeIs
  <2>2. HomeOf(e).kind = HomeKind(e.key) /\ HomeOf(e).key = e.key /\ HomeOf(e) \in DOMAIN graph.memory \ {Persons}
    BY <1>4, <1>6 DEF Piped, Circle
  <2>3. CASE OwnerIn(Household, e.key).child
    <3>1. HomeOf(e).kind = "school" /\ goal = "school"  BY <2>1, <2>2, <2>3 DEF HomeIn, Goal
    <3>2. ValueOK("school", graph.memory[HomeOf(e)].value)  BY <1>2, <2>2, <3>1 DEF Typed, RecordOK
    <3>. QED  BY <1>8, <3>1, <3>2 DEF ValueOK, HomeSettled
  <2>4. CASE ~OwnerIn(Household, e.key).child
    <3>1. HomeOf(e).kind = "place" /\ goal = AddressIn(Household, e.key)  BY <2>1, <2>2, <2>4 DEF HomeIn, Goal
    <3>2. ToldOK(Household, Now(graph), "place", e.key, graph.memory[HomeOf(e)])
      BY <1>2, <2>2, <3>1 DEF MemoryTold
    <3>3. graph.memory[HomeOf(e)].value = Tells(Household, "place", e.key)
      BY <1>8, <3>1, <3>2 DEF HomeSettled, ToldOK
    <3>. QED  BY <1>5, <3>1, <3>3 DEF Tells, PlaceIn
  <2>. QED  BY <2>3, <2>4
<1>10. graph.memory[MpgOf(e)].value = <<"mpg", Economy(e.key)>>
  <2>1. MpgOf(e).kind = "mpg" /\ MpgOf(e).key = e.key /\ MpgOf(e) \in DOMAIN graph.memory \ {Persons}
    BY <1>4, <1>6 DEF Piped, Circle
  <2>2. ToldOK(Household, Now(graph), "mpg", e.key, graph.memory[MpgOf(e)])  BY <1>2, <2>1 DEF MemoryTold
  <2>3. graph.memory[MpgOf(e)].value = Tells(Household, "mpg", e.key)
    BY <1>8, <2>1, <2>2 DEF HomeSettled, ToldOK
  <2>4. \E p \in Range(Household) : PersonId(p) = e.key[1]  BY <1>1, <1>5, OwnerIs
  <2>. QED  BY <2>3, <2>4 DEF Tells, MpgIn, Economy
<1>11. EntryOf(graph.memory[e], graph.memory[RouteOf(e)], graph.memory[MpgOf(e)])
  <2>1. ~WillTell(graph, Idle, e)  BY <1>3, <1>4 DEF WillTell, Distinct, Circle
  <2>. QED  BY <1>8, <2>1 DEF EntryFits
<1>. HIDE DEF goal
<1>12. graph.memory[RouteOf(e)].value = IF goal \in Unroutable THEN <<"impossible">> ELSE <<"to", goal>>
  <2>1. <<"at", goal>> \notin Impossible  BY DEF Impossible
  <2>. QED  BY <1>8, <1>9, <2>1 DEF RouteSettled, ToRoute
<1>13. FitsEntry(graph.memory[e].value, graph.memory[RouteOf(e)].value, <<"mpg", Economy(e.key)>>)
  BY <1>10, <1>11 DEF EntryOf
<1>14. CASE goal \in Unroutable
  <2>1. graph.memory[RouteOf(e)].value \in Impossible  BY <1>12, <1>14 DEF Impossible
  <2>2. graph.memory[e].value = <<"impossible">>  BY <1>13, <2>1 DEF FitsEntry
  <2>. QED  BY <1>14, <2>2 DEF Reached, goal
<1>15. CASE goal \notin Unroutable
  <2>1. graph.memory[RouteOf(e)].value = <<"to", goal>>  BY <1>12, <1>15
  <2>2. <<"to", goal>> \notin Impossible /\ <<"to", goal>>[2] = goal  BY DEF Impossible
  <2>3. <<"mpg", Economy(e.key)>>[2] = Economy(e.key)  OBVIOUS
  <2>4. \E car \in BOOLEAN : graph.memory[e].value = <<"is", goal, Economy(e.key), car>>
    BY <1>13, <2>1, <2>2, <2>3 DEF FitsEntry
  <2>. QED  BY <1>15, <2>4 DEF Reached, goal
<1>. QED  BY <1>14, <1>15

LEMMA ShownImplies ==
    ASSUME ChildrenStayChildren, hurried \/ ShownInv
    PROVE  BreakdownFollows
<1>. SUFFICES ASSUME AtRest, ~BreakdownPutOff, ~hurried, ShownInv PROVE BreakdownFollows  BY DEF BreakdownFollows
<1>. DEFINE shown == graph.memory[Breakdown].value
            keys == {e.key : e \in Live}
<1>1. /\ Sound(graph) /\ Main(graph, Idle, Household)
  BY ShownFacts DEF ShownInv, AtRest
<1>2. /\ Queued(graph) /\ SumStands(graph, Idle) /\ PipesFit(graph, Idle)  BY <1>1 DEF Main
<1>3. graph.scheduled = {}
  <2>1. Range(<<>>) = {}  BY DEF Range
  <2>. QED  BY <1>2, <2>1 DEF Queued, Ids, AtRest
<1>4. \A e \in Live : Reached(graph, e)  BY ReachedIs
<1>5. \A e \in Live : IF Goal(e.key) \in Unroutable THEN graph.memory[e].value \in Impossible
                      ELSE /\ graph.memory[e].value \notin Impossible
                           /\ graph.memory[e].value[2] = Goal(e.key) /\ graph.memory[e].value[3] = Economy(e.key)
  <2>. TAKE e \in Live
  <2>1. CASE Goal(e.key) \in Unroutable
    <3>1. graph.memory[e].value = <<"impossible">>  BY <1>4, <2>1 DEF Reached
    <3>. QED  BY <2>1, <3>1 DEF Impossible
  <2>2. CASE Goal(e.key) \notin Unroutable
    <3>1. PICK car \in BOOLEAN : graph.memory[e].value = <<"is", Goal(e.key), Economy(e.key), car>>
      BY <1>4, <2>2 DEF Reached
    <3>2. \A a, b, c : <<"is", a, b, c>> \notin Impossible  BY DEF Impossible
    <3>3. \A a, b, c : <<"is", a, b, c>>[2] = a /\ <<"is", a, b, c>>[3] = b  OBVIOUS
    <3>. QED  BY <2>2, <3>1, <3>2, <3>3
  <2>. QED  BY <2>1, <2>2
<1>6. \A e \in Live : graph.memory[e].value # Pending
  <2>1. \A a, b, c : <<"is", a, b, c>> # Pending  BY DEF Pending
  <2>2. <<"impossible">> # Pending  BY DEF Pending
  <2>. QED  BY <1>4, <2>1, <2>2 DEF Reached
<1>7. SumOf(graph, shown)
  <2>1. Free(graph, Idle, Breakdown)
    <3>1. Idle.kind = "idle" /\ Breakdown.kind = "breakdown"  BY DEF Idle, Breakdown, Node
    <3>2. Idle # Breakdown  BY <3>1
    <3>. QED  BY <1>3, <3>2 DEF Free
  <2>2. SumFits(graph, shown)  BY <1>2, <2>1 DEF SumStands, SumSettled
  <2>. QED  BY <1>6, <2>2 DEF SumFits, BreakdownPutOff, Live
<1>8. LiveKeys(graph) = keys  BY DEF LiveKeys, Live
<1>. HIDE DEF shown
<1>9. CASE \E key \in keys : Goal(key) \in Unroutable
  <2>1. PICK e \in Live : Goal(e.key) \in Unroutable  BY <1>9
  <2>2. graph.memory[e].value \in Impossible  BY <1>5, <2>1
  <2>3. shown \in Impossible  BY <1>7, <2>1, <2>2 DEF SumOf, Live
  <2>. QED  BY <1>9, <2>3 DEF BreakdownFollows, shown
<1>10. CASE ~\E key \in keys : Goal(key) \in Unroutable
  <2>1. \A e \in Live : /\ graph.memory[e].value \notin Impossible
                        /\ graph.memory[e].value[2] = Goal(e.key) /\ graph.memory[e].value[3] = Economy(e.key)
    BY <1>5, <1>10
  <2>2. /\ shown = <<"sum", shown[2]>> /\ DOMAIN shown[2] = keys
        /\ \A e \in Live : shown[2][e.key] = graph.memory[e].value
    BY <1>7, <1>8, <2>1 DEF SumOf, Live
  <2>3. shown[1] = "sum"  BY <2>2
  <2>4. \A key \in keys : shown[2][key][2] = Goal(key) /\ shown[2][key][3] = Economy(key)  BY <2>1, <2>2
  <2>. QED  BY <1>10, <2>2, <2>3, <2>4 DEF BreakdownFollows, shown
<1>. QED  BY <1>9, <1>10

(***************************************************************************)
(* However writes, refreshes and restarts interleave, the breakdown is,    *)
(* once the queue is empty, the sum over the destinations of today, at     *)
(* their addresses and with the cars of today, or says that one of them    *)
(* cannot be reached, until a write comes while nodes are queued: whatever *)
(* was at work or put off when the household was written or the server     *)
(* restarted, nothing of what was shown before is left.                    *)
(***************************************************************************)
THEOREM BreakdownAlwaysFollows ==
    ASSUME KeysAreUnique, ChildrenStayChildren
    PROVE  HouseholdSpec => []BreakdownFollows
<1>1. HouseholdInit => hurried \/ ShownInv  BY ShownInit
<1>2. (hurried \/ ShownInv) /\ [HouseholdNext]_householdVars => (hurried \/ ShownInv)'
  BY ShownStep, HurriedStays
<1>3. hurried \/ ShownInv => BreakdownFollows  BY ShownImplies
<1>. QED  BY <1>1, <1>2, <1>3, PTL DEF HouseholdSpec

(***************************************************************************)
(* All an edit of the household must come to: the pipelines and what is    *)
(* paged after any writes, and what is shown until one comes while nodes   *)
(* are queued.                                                             *)
(***************************************************************************)
THEOREM HouseholdAlwaysFollowed ==
    ASSUME KeysAreUnique, ChildrenStayChildren, NamesTell, NamesStay
    PROVE  HouseholdSpec => []HouseholdIsFollowed
<1>1. HouseholdSpec => []PipelinesFollow  BY PipelinesAlwaysFollow
<1>2. HouseholdSpec => []BreakdownFollows  BY BreakdownAlwaysFollows
<1>3. HouseholdSpec => []LossIsPaged  BY LossAlwaysPaged
<1>4. PipelinesFollow /\ BreakdownFollows /\ LossIsPaged => HouseholdIsFollowed  BY DEF HouseholdIsFollowed
<1>. QED  BY <1>1, <1>2, <1>3, <1>4, PTL
=============================================================================
