---------------------------- MODULE TotalsProofs ----------------------------
(***************************************************************************)
(* The laws of Total for functions on a finite set with bounded values.    *)
(***************************************************************************)
EXTENDS Totals, FiniteSetTheorems, TLAPS

USE ZenonT(60)

\* What the units of f are.
LEMMA UnitsMember ==
  ASSUME NEW f, NEW S
  PROVE  /\ \A u : u \in Units(f, S) <=> \E x \in S : \E i \in 1..f[x] : u = <<x, i>>
         /\ \A x, i : <<x, i>> \in Units(f, S) <=> x \in S /\ i \in 1..f[x]
<1>1. ASSUME NEW u
      PROVE  u \in Units(f, S) <=> \E x \in S : u \in {x} \X (1..f[x])
  BY DEF Units
<1>2. ASSUME NEW u, NEW x
      PROVE  u \in {x} \X (1..f[x]) <=> \E i \in 1..f[x] : u = <<x, i>>
  BY SMTT(30)
<1>3. \A u : u \in Units(f, S) <=> \E x \in S : \E i \in 1..f[x] : u = <<x, i>>
  BY <1>1, <1>2, SMTT(30)
<1> QED BY <1>3, SMTT(30)

LEMMA UnitsFinite ==
  ASSUME NEW D, IsFiniteSet(D), NEW max \in Nat, NEW f \in [D -> 0..max],
         NEW S \in SUBSET D
  PROVE  IsFiniteSet(Units(f, S)) /\ Total(f, S) \in Nat
<1>1. IsFiniteSet(1..max)
  BY FS_Interval, SMTT(30)
<1>2. IsFiniteSet(S \X (1..max))
  BY <1>1, FS_Subset, FS_Product
<1>3. Units(f, S) \in SUBSET (S \X (1..max))
  <2>1. ASSUME NEW x \in S, NEW i \in 1..f[x]
        PROVE  <<x, i>> \in S \X (1..max)
    BY SMTT(30)
  <2> QED BY <2>1, UnitsMember, SMTT(30)
<1>4. IsFiniteSet(Units(f, S))
  BY <1>2, <1>3, FS_Subset
<1> QED BY <1>4, FS_CardinalityType DEF Total

\* On a finite set there is a bound for the terms.
LEMMA Capped ==
  ASSUME NEW D, IsFiniteSet(D), NEW f \in [D -> Nat]
  PROVE  \E max \in Nat : f \in [D -> 0..max]
<1> DEFINE cell == [x \in D |-> {x} \X (1..f[x])]
           Cells == {{x} \X (1..f[x]) : x \in D}
           max == Total(f, D)
<1>1. ASSUME NEW x \in D
      PROVE  IsFiniteSet({x} \X (1..f[x])) /\ Cardinality({x} \X (1..f[x])) = f[x]
  <2>1. f[x] \in Nat
    OBVIOUS
  <2>2. IsFiniteSet(1..f[x]) /\ Cardinality(1..f[x]) = f[x]
    BY <2>1, FS_Interval, SMTT(30)
  <2>3. /\ IsFiniteSet({x} \X (1..f[x]))
        /\ Cardinality({x} \X (1..f[x])) = Cardinality({x}) * Cardinality(1..f[x])
    BY <2>2, FS_Singleton, FS_Product
  <2>4. Cardinality({x}) = 1
    BY FS_Singleton
  <2>5. 1 * f[x] = f[x]
    BY <2>1, SMTT(30)
  <2> QED BY <2>2, <2>3, <2>4, <2>5
<1>2. cell \in Surjection(D, Cells)
  BY DEF Surjection
<1>3. IsFiniteSet(Cells)
  BY <1>2, FS_Surjection
<1>4. \A T \in Cells : IsFiniteSet(T)
  BY <1>1
<1>5. IsFiniteSet(Units(f, D)) /\ max \in Nat
  BY <1>3, <1>4, FS_UNION, FS_CardinalityType DEF Units, Total
<1>6. ASSUME NEW x \in D PROVE f[x] <= max
  <2>1. {x} \X (1..f[x]) \in SUBSET Units(f, D)
    BY DEF Units
  <2>2. Cardinality({x} \X (1..f[x])) <= Cardinality(Units(f, D))
    BY <1>5, <2>1, FS_Subset
  <2> QED BY <1>1, <2>2 DEF Total
<1> HIDE DEF max
<1>7. \A x \in D : f[x] \in 0..max
  BY <1>5, <1>6, SMTT(30)
<1> QED BY <1>5, <1>7

\* The sum is zero exactly when every term is.
LEMMA TotalZero ==
  ASSUME NEW D, IsFiniteSet(D), NEW max \in Nat, NEW f \in [D -> 0..max],
         NEW S \in SUBSET D
  PROVE  Total(f, S) = 0 <=> \A x \in S : f[x] = 0
<1>1. Total(f, S) = 0 <=> Units(f, S) = {}
  BY UnitsFinite, FS_EmptySet DEF Total
<1>2. ASSUME NEW x \in S, f[x] # 0
      PROVE  <<x, 1>> \in Units(f, S)
  BY <1>2, UnitsMember, SMTT(30)
<1>3. (\A x \in S : f[x] = 0) => Units(f, S) = {}
  BY UnitsMember, SMTT(30)
<1> QED BY <1>1, <1>2, <1>3

\* Sums of equal terms are equal.
LEMMA TotalSame ==
  ASSUME NEW S, NEW f, NEW g, \A x \in S : f[x] = g[x]
  PROVE  Total(f, S) = Total(g, S)
<1>1. \A u : u \in Units(f, S) <=> u \in Units(g, S)
  BY UnitsMember, SMTT(30)
<1>2. Units(f, S) = Units(g, S)
  BY <1>1
<1> QED BY <1>2 DEF Total

\* The sum over a set is that over a part and that over the rest.
LEMMA TotalSplit ==
  ASSUME NEW D, IsFiniteSet(D), NEW max \in Nat, NEW f \in [D -> 0..max],
         NEW S \in SUBSET D,
         NEW T \in SUBSET S
  PROVE  Total(f, S) = Total(f, T) + Total(f, S \ T)
<1>1. \A u : u \in Units(f, S) <=> u \in Units(f, T) \cup Units(f, S \ T)
  BY UnitsMember, SMTT(30)
<1>2. \A u : u \notin Units(f, T) \cap Units(f, S \ T)
  <2>1. ASSUME NEW u \in Units(f, T), u \in Units(f, S \ T)
        PROVE  FALSE
    <3>1. PICK x \in T : \E i \in 1..f[x] : u = <<x, i>>
      BY UnitsMember, SMTT(30)
    <3> QED BY <2>1, <3>1, UnitsMember, SMTT(30)
  <2> QED BY <2>1
<1>3. Units(f, S) = Units(f, T) \cup Units(f, S \ T)
  BY <1>1
<1>4. Units(f, T) \cap Units(f, S \ T) = {}
  BY <1>2
<1>5. T \in SUBSET D /\ S \ T \in SUBSET D
  OBVIOUS
<1>6. /\ IsFiniteSet(Units(f, T)) /\ IsFiniteSet(Units(f, S \ T))
      /\ Total(f, T) \in Nat /\ Total(f, S \ T) \in Nat
  BY <1>5, UnitsFinite
<1>7. Total(f, S) = Total(f, T) + Total(f, S \ T)
                     - Cardinality(Units(f, T) \cap Units(f, S \ T))
  BY <1>3, <1>6, FS_Union DEF Total
<1>8. Cardinality(Units(f, T) \cap Units(f, S \ T)) = 0
  BY <1>4, FS_EmptySet
<1> QED BY <1>6, <1>7, <1>8, SMTT(30)

\* A sum of one term.
LEMMA TotalOne ==
  ASSUME NEW f, NEW x, f[x] \in Nat
  PROVE  Total(f, {x}) = f[x]
<1> DEFINE h == [i \in 1..f[x] |-> <<x, i>>]
<1>1. \A u : u \in Units(f, {x}) <=> \E i \in 1..f[x] : u = <<x, i>>
  BY UnitsMember, SMTT(30)
<1>2. h \in Bijection(1..f[x], Units(f, {x}))
  <2>1. h \in [1..f[x] -> Units(f, {x})]
    BY <1>1
  <2>2. \A i, j \in 1..f[x] : h[i] = h[j] => i = j
    OBVIOUS
  <2>3. \A u \in Units(f, {x}) : \E i \in 1..f[x] : h[i] = u
    BY <1>1
  <2> QED BY <2>1, <2>2, <2>3 DEF Bijection, Injection, Surjection, IsInjective
<1>3. ExistsBijection(1..f[x], Units(f, {x}))
  BY <1>2 DEF ExistsBijection
<1> QED BY <1>3, FS_CountingElements DEF Total

\* One term changes.
LEMMA TotalChange ==
  ASSUME NEW D, IsFiniteSet(D), NEW max \in Nat, NEW f \in [D -> 0..max],
         NEW g \in [D -> 0..max], NEW S \in SUBSET D, NEW y \in D,
         \A x \in D : x # y => g[x] = f[x]
  PROVE  Total(g, S) = IF y \in S THEN Total(f, S) - f[y] + g[y] ELSE Total(f, S)
<1>1. CASE y \notin S
  BY <1>1, TotalSame
<1>2. CASE y \in S
  <2>1. {y} \in SUBSET S /\ S \ {y} \in SUBSET D
    BY <1>2
  <2>2. /\ Total(f, S) = Total(f, {y}) + Total(f, S \ {y})
        /\ Total(g, S) = Total(g, {y}) + Total(g, S \ {y})
    BY <2>1, TotalSplit, SMTT(30)
  <2>3. Total(f, S \ {y}) = Total(g, S \ {y})
    BY TotalSame
  <2>4. Total(f, {y}) = f[y] /\ Total(g, {y}) = g[y] /\ f[y] \in Nat /\ g[y] \in Nat
    BY TotalOne, SMTT(30)
  <2>5. Total(f, S \ {y}) \in Nat
    BY <2>1, UnitsFinite
  <2> QED BY <1>2, <2>2, <2>3, <2>4, <2>5, SMTT(30)
<1> QED BY <1>1, <1>2

-----------------------------------------------------------------------------
(* Sequences *)

LEMMA SeqTotalType ==
  ASSUME NEW max \in Nat, NEW s \in Seq(0..max)
  PROVE  SeqTotal(s) \in Nat /\ IsFiniteSet(DOMAIN s) /\ s \in [DOMAIN s -> 0..max]
<1>1. DOMAIN s = 1..Len(s) /\ Len(s) \in Nat /\ s \in [DOMAIN s -> 0..max]
  BY SMTT(30)
<1>2. IsFiniteSet(DOMAIN s)
  <2>1. 1 \in Int /\ Len(s) \in Int
    BY <1>1, SMTT(30)
  <2>2. IsFiniteSet(1..Len(s))
    BY <2>1, FS_Interval
  <2> QED BY <1>1, <2>2
<1>3. DOMAIN s \in SUBSET DOMAIN s
  OBVIOUS
<1> QED BY <1>1, <1>2, <1>3, UnitsFinite DEF SeqTotal

LEMMA SeqTotalEmpty == SeqTotal(<<>>) = 0
<1>1. DOMAIN <<>> = {}
  BY SMTT(30)
<1>2. Units(<<>>, {}) = {}
  BY UnitsMember, SMTT(30)
<1> QED BY <1>1, <1>2, FS_EmptySet DEF SeqTotal, Total

LEMMA SeqTotalAppend ==
  ASSUME NEW max \in Nat, NEW s \in Seq(0..max), NEW n \in 0..max
  PROVE  SeqTotal(Append(s, n)) = SeqTotal(s) + n
<1> DEFINE t == Append(s, n)
           k == Len(s) + 1
<1>1. /\ t \in Seq(0..max) /\ DOMAIN t = 1..k /\ t[k] = n /\ k \in DOMAIN t
      /\ DOMAIN s = DOMAIN t \ {k} /\ \A i \in DOMAIN s : t[i] = s[i]
  <2>1. /\ t \in Seq(0..max) /\ Len(t) = k /\ t[k] = n /\ Len(s) \in Nat
        /\ DOMAIN s = 1..Len(s) /\ DOMAIN t = 1..k /\ \A i \in 1..Len(s) : t[i] = s[i]
    BY SMTT(30)
  <2>2. 1..Len(s) = (1..k) \ {k} /\ k \in 1..k
    BY <2>1, SMTT(30)
  <2> QED BY <2>1, <2>2
<1> HIDE DEF t, k
<1>2. /\ IsFiniteSet(DOMAIN t) /\ t \in [DOMAIN t -> 0..max] /\ {k} \in SUBSET DOMAIN t
      /\ DOMAIN t \in SUBSET DOMAIN t
  BY <1>1, SeqTotalType
<1>3. Total(t, DOMAIN t) = Total(t, {k}) + Total(t, DOMAIN s)
  <2>1. \A T \in SUBSET DOMAIN t : Total(t, DOMAIN t) = Total(t, T) + Total(t, DOMAIN t \ T)
    BY <1>2, TotalSplit, SMTT(30)
  <2> QED BY <1>1, <1>2, <2>1
<1>4. Total(t, {k}) = n
  BY <1>1, TotalOne, SMTT(30)
<1>5. Total(t, DOMAIN s) = Total(s, DOMAIN s)
  BY <1>1, TotalSame
<1>6. Total(s, DOMAIN s) \in Nat
  BY SeqTotalType DEF SeqTotal
<1> QED BY <1>3, <1>4, <1>5, <1>6, SMTT(30) DEF SeqTotal, t

LEMMA SeqTotalTail ==
  ASSUME NEW max \in Nat, NEW s \in Seq(0..max), s # <<>>
  PROVE  SeqTotal(s) = Head(s) + SeqTotal(Tail(s)) /\ Head(s) <= SeqTotal(s)
<1> DEFINE t    == Tail(s)
           rest == DOMAIN s \ {1}
           h    == [u \in Units(t, DOMAIN t) |-> <<u[1] + 1, u[2]>>]
<1>1. /\ t \in Seq(0..max) /\ DOMAIN s = 1..Len(s) /\ Len(s) \in Nat \ {0}
      /\ DOMAIN t = 1..Len(s) - 1 /\ 1 \in DOMAIN s /\ Head(s) = s[1] /\ s[1] \in 0..max
      /\ \A i \in DOMAIN t : t[i] = s[i + 1]
  BY SMTT(30)
<1> HIDE DEF t
<1>2. /\ IsFiniteSet(DOMAIN s) /\ s \in [DOMAIN s -> 0..max]
      /\ IsFiniteSet(DOMAIN t) /\ t \in [DOMAIN t -> 0..max]
      /\ {1} \in SUBSET DOMAIN s /\ DOMAIN s \in SUBSET DOMAIN s
      /\ DOMAIN t \in SUBSET DOMAIN t
  BY <1>1, SeqTotalType
<1>3. Total(s, DOMAIN s) = Total(s, {1}) + Total(s, rest)
  <2>1. \A T \in SUBSET DOMAIN s : Total(s, DOMAIN s) = Total(s, T) + Total(s, DOMAIN s \ T)
    BY <1>2, TotalSplit, SMTT(30)
  <2> QED BY <1>2, <2>1
<1>4. Total(s, {1}) = s[1]
  BY <1>1, TotalOne, SMTT(30)
<1>5. h \in Bijection(Units(t, DOMAIN t), Units(s, rest))
  <2>1. ASSUME NEW i \in DOMAIN t, NEW j \in 1..t[i]
        PROVE  <<i + 1, j>> \in Units(s, rest)
    <3>1. t[i] = s[i + 1]
      BY <1>1
    <3>2. i + 1 \in rest
      <4>1. Len(s) \in Nat /\ i \in 1..Len(s) - 1 /\ DOMAIN s = 1..Len(s)
        BY <1>1
      <4> QED BY <4>1, SMTT(30)
    <3>3. j \in 1..s[i + 1]
      BY <3>1
    <3> QED BY <3>2, <3>3, UnitsMember, SMTT(30)
  <2>2. ASSUME NEW u \in Units(t, DOMAIN t)
        PROVE  \E i \in DOMAIN t : \E j \in 1..t[i] : u = <<i, j>> /\ h[u] = <<i + 1, j>>
    <3>1. PICK i \in DOMAIN t : \E j \in 1..t[i] : u = <<i, j>>
      BY UnitsMember, SMTT(30)
    <3> QED BY <3>1, SMTT(30)
  <2>3. h \in [Units(t, DOMAIN t) -> Units(s, rest)]
    BY <2>1, <2>2
  <2>4. ASSUME NEW u \in Units(t, DOMAIN t), NEW v \in Units(t, DOMAIN t), h[u] = h[v]
        PROVE  u = v
    <3>1. PICK i \in DOMAIN t : \E j \in 1..t[i] : u = <<i, j>> /\ h[u] = <<i + 1, j>>
      BY <2>2
    <3>2. PICK k \in DOMAIN t : \E l \in 1..t[k] : v = <<k, l>> /\ h[v] = <<k + 1, l>>
      BY <2>2
    <3>3. i + 1 = k + 1 => i = k
      BY <1>1, SMTT(30)
    <3> HIDE DEF h
    <3> QED BY <2>4, <3>1, <3>2, <3>3, SMTT(30)
  <2>5. ASSUME NEW v \in Units(s, rest)
        PROVE  \E u \in Units(t, DOMAIN t) : h[u] = v
    <3>1. PICK k \in rest : \E j \in 1..s[k] : v = <<k, j>>
      BY UnitsMember, SMTT(30)
    <3>2. PICK j \in 1..s[k] : v = <<k, j>>
      BY <3>1
    <3>3. k - 1 \in DOMAIN t /\ t[k - 1] = s[k] /\ (k - 1) + 1 = k
      <4>1. /\ Len(s) \in Nat /\ k \in 1..Len(s) /\ k # 1
            /\ DOMAIN t = 1..Len(s) - 1
        BY <1>1
      <4>2. k - 1 \in 1..Len(s) - 1 /\ (k - 1) + 1 = k
        BY <4>1, SMTT(30)
      <4>3. k - 1 \in DOMAIN t => t[k - 1] = s[(k - 1) + 1]
        BY <1>1
      <4> QED BY <4>1, <4>2, <4>3
    <3>4. <<k - 1, j>> \in Units(t, DOMAIN t)
      BY <3>2, <3>3, UnitsMember
    <3>5. h[<<k - 1, j>>] = <<k, j>>
      BY <3>3, <3>4
    <3> QED BY <3>2, <3>4, <3>5
  <2> HIDE DEF h, rest
  <2>6. h \in Injection(Units(t, DOMAIN t), Units(s, rest))
    BY <2>3, <2>4 DEF Injection, IsInjective
  <2>7. h \in Surjection(Units(t, DOMAIN t), Units(s, rest))
    BY <2>3, <2>5 DEF Surjection
  <2> QED BY <2>6, <2>7 DEF Bijection
<1>6. Total(s, rest) = Total(t, DOMAIN t) /\ Total(t, DOMAIN t) \in Nat
  <2>1. IsFiniteSet(Units(t, DOMAIN t)) /\ Total(t, DOMAIN t) \in Nat
    BY <1>2, UnitsFinite
  <2>2. ExistsBijection(Units(t, DOMAIN t), Units(s, rest))
    BY <1>5 DEF ExistsBijection
  <2> QED BY <2>1, <2>2, FS_Bijection DEF Total
<1> QED BY <1>1, <1>3, <1>4, <1>6, SMTT(30) DEF SeqTotal, t

=============================================================================
