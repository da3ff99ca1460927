------------------------- MODULE SubsequencesProofs -------------------------
(***************************************************************************)
(* What Filter does to a sequence that grows at its end or is taken from   *)
(* its front, for the proofs about the components that use it.  Filter is  *)
(* recursive; the proofs are about Counted, which counts positions.        *)
(***************************************************************************)
EXTENDS Subsequences, FiniteSetTheorems, SequenceTheorems, TLAPS

(* What is in a sequence *)

LEMMA AppendRange ==
    ASSUME NEW T, NEW s \in Seq(T), NEW a \in T
    PROVE  ToSet(Append(s, a)) = ToSet(s) \cup {a}
<1>1. ToSet(s) \cup {a} \subseteq ToSet(Append(s, a))
  <2>1. \A k \in 1..Len(s) : k \in 1..Len(Append(s, a)) /\ Append(s, a)[k] = s[k]
    OBVIOUS
  <2>2. Len(s) + 1 \in 1..Len(Append(s, a)) /\ Append(s, a)[Len(s) + 1] = a
    OBVIOUS
  <2> QED BY <2>1, <2>2 DEF ToSet
<1>2. ToSet(Append(s, a)) \subseteq ToSet(s) \cup {a}
  BY DEF ToSet
<1> QED BY <1>1, <1>2

LEMMA TailRange ==
    ASSUME NEW T, NEW s \in Seq(T), s # <<>>
    PROVE  ToSet(s) = {Head(s)} \cup ToSet(Tail(s))
<1> DEFINE t == Tail(s)
           n == Len(t)
<1>1. /\ n \in Nat /\ DOMAIN s = 1..(n + 1) /\ DOMAIN t = 1..n
      /\ Head(s) = s[1] /\ \A k \in 1..n : k + 1 \in 1..(n + 1) /\ t[k] = s[k + 1]
  OBVIOUS
<1>2. \A k \in 1..(n + 1) : k = 1 \/ (k - 1 \in 1..n /\ (k - 1) + 1 = k)
  BY <1>1
<1> HIDE DEF t, n
<1>3. \A k \in 1..(n + 1) : k = 1 \/ \E j \in 1..n : t[j] = s[k]
  BY <1>1, <1>2
<1>4. ToSet(s) = {s[k] : k \in 1..(n + 1)} /\ ToSet(t) = {t[k] : k \in 1..n}
  BY <1>1 DEF ToSet
<1>5. 1 \in 1..(n + 1)
  BY <1>1
<1> QED BY <1>1, <1>3, <1>4, <1>5 DEF t

\* No element is twice in a sequence.
OneEach(s) == \A j, k \in 1..Len(s) : s[j] = s[k] => j = k

LEMMA AppendOneEach ==
    ASSUME NEW T, NEW s \in Seq(T), OneEach(s), NEW a \in T, a \notin ToSet(s)
    PROVE  OneEach(Append(s, a))
<1>1. \A k \in 1..Len(s) : s[k] # a
  BY DEF ToSet
<1>2. /\ Len(Append(s, a)) = Len(s) + 1 /\ Append(s, a)[Len(s) + 1] = a
      /\ \A k \in 1..Len(s) : Append(s, a)[k] = s[k]
  OBVIOUS
<1> QED BY <1>1, <1>2 DEF OneEach

LEMMA TailOneEach ==
    ASSUME NEW T, NEW s \in Seq(T), s # <<>>, OneEach(s)
    PROVE  OneEach(Tail(s)) /\ Head(s) \notin ToSet(Tail(s))
<1> DEFINE t == Tail(s)
           n == Len(t)
<1>1. /\ n \in Nat /\ Len(s) = n + 1 /\ DOMAIN t = 1..n /\ Head(s) = s[1]
      /\ \A k \in 1..n : k + 1 \in 1..(n + 1) /\ k + 1 # 1 /\ t[k] = s[k + 1]
  OBVIOUS
<1> HIDE DEF t, n
<1>2. 1 \in 1..(n + 1)
  BY <1>1
<1>3. ASSUME NEW j \in 1..n, NEW k \in 1..n, t[j] = t[k] PROVE j = k
  <2>1. j + 1 = k + 1
    BY <1>1, <1>3 DEF OneEach
  <2> QED BY <1>1, <2>1
<1>4. \A k \in 1..n : t[k] # s[1]
  BY <1>1, <1>2 DEF OneEach
<1> QED BY <1>1, <1>3, <1>4 DEF OneEach, ToSet, t, n

-----------------------------------------------------------------------------
\* e lists the numbers of P from the least to the greatest.
Lists(e, n, P) ==
    /\ e \in [1..n -> P]
    /\ \A j, k \in 1..n : j < k => e[j] < e[k]
    /\ \A i \in P : \E k \in 1..n : e[k] = i

\* The k-th number of a finite set of natural numbers.
Nth(P, k) == CHOOSE i \in P : Cardinality({j \in P : j <= i}) = k

Positions(s, S) == {i \in DOMAIN s : s[i] \in S}

Counted(s, S) ==
    LET P == Positions(s, S) IN [k \in 1..Cardinality(P) |-> s[Nth(P, k)]]

-----------------------------------------------------------------------------
(* Nth *)

\* A set is listed in one way, which is Nth.
LEMMA ListIsNth ==
    ASSUME NEW n \in Nat, NEW P \in SUBSET Nat, NEW e, Lists(e, n, P)
    PROVE  /\ IsFiniteSet(P) /\ Cardinality(P) = n
           /\ \A k \in 1..n : Nth(P, k) = e[k]
<1> DEFINE Below(i) == {j \in P : j <= i}
<1>1. e \in [1..n -> P] /\ \A k \in 1..n : e[k] \in Nat
  BY DEF Lists
<1>2. \A j, k \in 1..n : j < k => e[j] < e[k]
  BY DEF Lists
<1>3. \A j, k \in 1..n : e[j] = e[k] => j = k
  BY <1>1, <1>2
<1>4. \A i \in P : \E k \in 1..n : e[k] = i
  BY DEF Lists
<1>5. e \in Bijection(1..n, P)
  BY <1>1, <1>3, <1>4 DEF Bijection, Injection, IsInjective, Surjection
<1>6. ExistsBijection(1..n, P)
  BY <1>5 DEF ExistsBijection
<1>7. IsFiniteSet(P) /\ Cardinality(P) = n
  BY <1>6, FS_CountingElements, FS_NatBijection
<1>8. ASSUME NEW k \in 1..n PROVE Cardinality(Below(e[k])) = k
  <2> DEFINE g == [j \in 1..k |-> e[j]]
  <2>1. g \in [1..k -> Below(e[k])]
    BY <1>1, <1>2
  <2>2. \A i, j \in 1..k : g[i] = g[j] => i = j
    BY <1>3
  <2>3. ASSUME NEW i \in Below(e[k]) PROVE \E j \in 1..k : g[j] = i
    <3>1. PICK j \in 1..n : e[j] = i
      BY <1>4
    <3>2. ~(k < j)
      BY <1>1, <1>2, <3>1
    <3> QED BY <3>1, <3>2
  <2>4. g \in Bijection(1..k, Below(e[k]))
    <3> HIDE DEF g, Below
    <3> QED BY <2>1, <2>2, <2>3 DEF Bijection, Injection, IsInjective, Surjection
  <2>5. ExistsBijection(1..k, Below(e[k]))
    BY <2>4 DEF ExistsBijection
  <2> HIDE DEF Below
  <2> QED BY <2>5, FS_CountingElements
<1>9. ASSUME NEW k \in 1..n, NEW i \in P, Cardinality(Below(i)) = k PROVE i = e[k]
  <2>1. PICK j \in 1..n : e[j] = i
    BY <1>4
  <2> QED BY <1>8, <1>9, <2>1
<1>10. ASSUME NEW k \in 1..n PROVE Nth(P, k) = e[k]
  <2>1. e[k] \in P /\ Cardinality(Below(e[k])) = k
    BY <1>1, <1>8
  <2>2. Nth(P, k) \in P /\ Cardinality(Below(Nth(P, k))) = k
    BY <2>1 DEF Nth
  <2> QED BY <1>9, <2>2
<1> QED BY <1>7, <1>10

\* Every set of positions is listed by Nth.
LEMMA NthLists ==
    ASSUME NEW m \in Nat, NEW P \in SUBSET (1..m)
    PROVE  /\ Cardinality(P) \in Nat
           /\ Lists([k \in 1..Cardinality(P) |-> Nth(P, k)], Cardinality(P), P)
<1> DEFINE n == Cardinality(P)
           Below(i) == {j \in P : j <= i}
           rank == [i \in P |-> Cardinality(Below(i))]
           e == [k \in 1..n |-> Nth(P, k)]
<1>1. IsFiniteSet(P) /\ n \in Nat
  <2>1. IsFiniteSet(1..m)
    BY FS_Interval, 1 \in Int, m \in Int
  <2>2. IsFiniteSet(P)
    BY <2>1, FS_Subset
  <2> QED BY <2>2, FS_CardinalityType
<1>2. \A i \in P : i \in Nat
  OBVIOUS
<1>3. ASSUME NEW i \in P PROVE IsFiniteSet(Below(i)) /\ rank[i] \in 1..n
  <2>1. Below(i) \in SUBSET P /\ i \in Below(i)
    BY <1>2
  <2>2. /\ IsFiniteSet(Below(i)) /\ Cardinality(Below(i)) <= n
        /\ Cardinality(Below(i)) \in Nat
    BY <1>1, <2>1, FS_Subset, FS_CardinalityType
  <2>3. Cardinality(Below(i)) # 0
    BY <2>1, <2>2, FS_EmptySet
  <2>4. rank[i] = Cardinality(Below(i))
    OBVIOUS
  <2> HIDE DEF Below, n, rank
  <2> QED BY <1>1, <2>2, <2>3, <2>4
<1>4. ASSUME NEW i \in P, NEW j \in P, i < j PROVE rank[i] < rank[j]
  <2>1. Below(i) \in SUBSET Below(j) /\ j \in Below(j) /\ j \notin Below(i)
    <3>1. i \in Nat /\ j \in Nat /\ j <= j /\ ~(j <= i)
      BY <1>2, <1>4
    <3>2. \A k \in P : k <= i => k <= j
      BY <1>2, <1>4
    <3> QED BY <3>1, <3>2
  <2>2. /\ Cardinality(Below(i)) <= Cardinality(Below(j))
        /\ Cardinality(Below(i)) # Cardinality(Below(j))
    BY <1>3, <2>1, FS_Subset
  <2>3. rank[i] \in Nat /\ rank[j] \in Nat
    BY <1>1, <1>3
  <2>4. rank[i] = Cardinality(Below(i)) /\ rank[j] = Cardinality(Below(j))
    OBVIOUS
  <2> HIDE DEF Below, rank
  <2> QED BY <2>2, <2>3, <2>4
<1>5. rank \in [P -> 1..n]
  BY <1>3
<1> HIDE DEF Below
<1>6. \A i, j \in P : rank[i] = rank[j] => i = j
  <2> SUFFICES ASSUME NEW i \in P, NEW j \in P, i # j PROVE rank[i] # rank[j]
    OBVIOUS
  <2>1. rank[i] \in Nat /\ rank[j] \in Nat
    BY <1>1, <1>5
  <2>2. i < j \/ j < i
    BY <1>2
  <2> QED BY <1>4, <2>1, <2>2
<1>7. \A k \in 1..n : \E i \in P : rank[i] = k
  <2>1. rank \in Injection(P, 1..n)
    BY <1>5, <1>6 DEF Injection, IsInjective
  <2>2. IsFiniteSet(1..n) /\ Cardinality(1..n) = n
    BY <1>1, 1 \in Int, n \in Int, FS_Interval
  <2>3. rank \in Surjection(P, 1..n)
    <3> HIDE DEF rank
    <3> QED BY <2>1, <2>2, FS_Injection
  <2> QED BY <2>3 DEF Surjection
<1>8. ASSUME NEW k \in 1..n PROVE Nth(P, k) \in P /\ rank[Nth(P, k)] = k
  <2>1. PICK i \in P : rank[i] = k
    BY <1>7
  <2>2. Cardinality({j \in P : j <= i}) = k
    BY <2>1 DEF Below
  <2>3. Nth(P, k) \in P /\ Cardinality({j \in P : j <= Nth(P, k)}) = k
    BY <2>2 DEF Nth
  <2> QED BY <2>3 DEF Below
<1> HIDE DEF rank
<1>9. ASSUME NEW j \in 1..n, NEW k \in 1..n, j < k PROVE e[j] < e[k]
  <2>1. /\ e[j] \in P /\ e[k] \in P /\ rank[e[j]] = j /\ rank[e[k]] = k
        /\ e[j] \in Nat /\ e[k] \in Nat
    BY <1>2, <1>8
  <2>2. ~(e[k] < e[j]) /\ e[j] # e[k]
    <3>1. ~(rank[e[k]] < rank[e[j]])
      BY <1>9, <2>1
    <3> QED BY <1>4, <1>9, <2>1, <3>1
  <2> QED BY <2>1, <2>2
<1>10. \A i \in P : \E k \in 1..n : e[k] = i
  <2> SUFFICES ASSUME NEW i \in P PROVE e[rank[i]] = i
    BY <1>5
  <2>1. rank[i] \in 1..n
    BY <1>5
  <2>2. e[rank[i]] \in P /\ rank[e[rank[i]]] = rank[i]
    BY <1>8, <2>1
  <2> QED BY <1>6, <2>2
<1>11. e \in [1..n -> P]
  BY <1>8
<1> QED BY <1>1, <1>9, <1>10, <1>11 DEF Lists

-----------------------------------------------------------------------------
(* Counted *)

\* Whoever lists the positions knows what is left.
LEMMA CountedIs ==
    ASSUME NEW T, NEW s \in Seq(T), NEW S,
           NEW n \in Nat, NEW e, Lists(e, n, Positions(s, S))
    PROVE  Counted(s, S) = [k \in 1..n |-> s[e[k]]]
<1> DEFINE P == Positions(s, S)
<1>1. P \in SUBSET Nat
  BY DEF Positions
<1>2. Cardinality(P) = n /\ \A k \in 1..n : Nth(P, k) = e[k]
  <2> HIDE DEF P
  <2> QED BY <1>1, ListIsNth DEF P
<1> QED BY <1>2 DEF Counted

\* There is a list of positions, so it may be spoken of.
LEMMA CountedHasList ==
    ASSUME NEW T, NEW s \in Seq(T), NEW S
    PROVE  \E n \in Nat : \E e : Lists(e, n, Positions(s, S))
<1>1. Len(s) \in Nat /\ Positions(s, S) \in SUBSET (1..Len(s))
  BY DEF Positions
<1> QED BY <1>1, NthLists

LEMMA CountedType ==
    ASSUME NEW T, NEW s \in Seq(T), NEW S
    PROVE  /\ Counted(s, S) \in Seq(T)
           /\ ToSet(Counted(s, S)) = ToSet(s) \cap S
<1>1. PICK n \in Nat : \E e : Lists(e, n, Positions(s, S))
  BY CountedHasList
<1>2. PICK e : Lists(e, n, Positions(s, S))
  BY <1>1
<1>3. Counted(s, S) = [k \in 1..n |-> s[e[k]]]
  BY <1>2, CountedIs
<1>4. \A k \in 1..n : e[k] \in DOMAIN s /\ s[e[k]] \in S
  BY <1>2 DEF Lists, Positions
<1>5. \A i \in DOMAIN s : s[i] \in S => \E k \in 1..n : e[k] = i
  BY <1>2 DEF Lists, Positions
<1>6. \A i \in DOMAIN s : s[i] \in T
  OBVIOUS
<1>7. Counted(s, S) \in Seq(T)
  BY <1>3, <1>4, <1>6
<1> DEFINE f == Counted(s, S)
<1> HIDE DEF f
<1>8. DOMAIN f = 1..n /\ \A k \in 1..n : f[k] = s[e[k]]
  BY <1>3 DEF f
<1>9. ToSet(f) \subseteq ToSet(s) \cap S
  BY <1>4, <1>8 DEF ToSet
<1>10. ToSet(s) \cap S \subseteq ToSet(f)
  BY <1>5, <1>8 DEF ToSet
<1> QED BY <1>7, <1>9, <1>10 DEF f

\* Only what S says of the elements of s matters.
LEMMA CountedSame ==
    ASSUME NEW s, NEW S, NEW R, ToSet(s) \cap S = ToSet(s) \cap R
    PROVE  Counted(s, S) = Counted(s, R)
<1>1. Positions(s, S) = Positions(s, R)
  BY DEF Positions, ToSet
<1> QED BY <1>1 DEF Counted

LEMMA CountedEmpty ==
    ASSUME NEW S PROVE Counted(<<>>, S) = <<>>
<1>1. <<>> \in Seq({})
  OBVIOUS
<1>2. Counted(<<>>, S) \in Seq({})
  BY <1>1, CountedType
<1> DEFINE f == Counted(<<>>, S)
<1> HIDE DEF f
<1>3. f \in Seq({})
  BY <1>2 DEF f
<1>4. f # <<>> => f[1] \in {}
  BY <1>3
<1> QED BY <1>4 DEF f

\* One element more, at the end.
LEMMA CountedAppend ==
    ASSUME NEW T, NEW s \in Seq(T), NEW a \in T, NEW S
    PROVE  Counted(Append(s, a), S) =
               IF a \in S THEN Append(Counted(s, S), a) ELSE Counted(s, S)
<1> DEFINE t == Append(s, a)
           P == Positions(s, S)
           Q == Positions(t, S)
           m == Len(s)
<1>1. /\ m \in Nat /\ DOMAIN s = 1..m /\ DOMAIN t = 1..(m + 1) /\ t \in Seq(T)
      /\ t[m + 1] = a /\ \A k \in 1..m : t[k] = s[k]
  OBVIOUS
<1>2. PICK n \in Nat : \E e : Lists(e, n, P)
  BY CountedHasList
<1>3. PICK e : Lists(e, n, P)
  BY <1>2
<1>4. Counted(s, S) = [k \in 1..n |-> s[e[k]]]
  BY <1>3, CountedIs
<1>5. /\ e \in [1..n -> P] /\ \A j, k \in 1..n : j < k => e[j] < e[k]
      /\ \A i \in P : \E k \in 1..n : e[k] = i
  BY <1>3 DEF Lists
<1>6. P \in SUBSET (1..m) /\ \A k \in 1..n : e[k] \in 1..m
  BY <1>1, <1>5 DEF Positions
<1>7. CASE a \in S
  <2> DEFINE g == [k \in 1..(n + 1) |-> IF k = n + 1 THEN m + 1 ELSE e[k]]
  <2>1. Q = P \cup {m + 1}
    <3> HIDE DEF t
    <3> QED BY <1>1, <1>7 DEF Positions
  <2>2. Lists(g, n + 1, Q)
    <3>1. g \in [1..(n + 1) -> Q]
      BY <1>5, <2>1
    <3>2. ASSUME NEW j \in 1..(n + 1), NEW k \in 1..(n + 1), j < k PROVE g[j] < g[k]
      <4>1. j \in 1..n
        BY <3>2
      <4>2. CASE k = n + 1
        BY <1>1, <1>6, <4>1, <4>2
      <4>3. CASE k # n + 1
        BY <1>5, <3>2, <4>1, <4>3
      <4> QED BY <4>2, <4>3
    <3>3. \A i \in Q : \E k \in 1..(n + 1) : g[k] = i
      <4>1. g[n + 1] = m + 1 /\ \A k \in 1..n : k \in 1..(n + 1) /\ g[k] = e[k]
        OBVIOUS
      <4> HIDE DEF g, P, Q
      <4> QED BY <1>5, <2>1, <4>1
    <3> QED BY <3>1, <3>2, <3>3 DEF Lists
  <2>3. Counted(t, S) = [k \in 1..(n + 1) |-> t[g[k]]]
    <3> HIDE DEF t, g
    <3> QED BY <1>1, <2>2, CountedIs
  <2>4. Counted(s, S) \in Seq(T) /\ Len(Counted(s, S)) = n
    BY <1>4, CountedType
  <2> DEFINE f == Counted(s, S)
             h == Counted(t, S)
  <2> HIDE DEF t, g, f, h
  <2>5. f \in Seq(T) /\ Len(f) = n /\ h \in Seq(T) /\ Len(h) = n + 1
    BY <1>1, <2>3, <2>4, CountedType DEF f, h
  <2>6. /\ Append(f, a) \in Seq(T) /\ Len(Append(f, a)) = n + 1
        /\ Append(f, a)[n + 1] = a /\ \A k \in 1..n : Append(f, a)[k] = f[k]
    BY <2>5, AppendProperties
  <2>7. h[n + 1] = a
    BY <1>1, <2>3 DEF g, h
  <2>8. ASSUME NEW k \in 1..n PROVE h[k] = f[k]
    <3>1. k \in 1..(n + 1) /\ k # n + 1
      OBVIOUS
    <3>2. h[k] = t[e[k]]
      BY <2>3, <3>1 DEF g, h
    <3> QED BY <1>1, <1>4, <1>6, <3>2 DEF f
  <2>9. h = Append(f, a)
    <3>1. \A k \in 1..(n + 1) : k = n + 1 \/ k \in 1..n
      OBVIOUS
    <3>2. \A k \in 1..(n + 1) : h[k] = Append(f, a)[k]
      BY <2>6, <2>7, <2>8, <3>1
    <3> QED BY <2>5, <2>6, <3>2, SeqEqual
  <2> QED BY <1>7, <2>9 DEF f, h, t
<1>8. CASE a \notin S
  <2>1. Q = P
    <3> HIDE DEF t
    <3> QED BY <1>1, <1>8 DEF Positions
  <2>2. Counted(t, S) = [k \in 1..n |-> t[e[k]]]
    <3> HIDE DEF t
    <3> QED BY <1>1, <1>3, <2>1, CountedIs
  <2>3. \A k \in 1..n : t[e[k]] = s[e[k]]
    <3> HIDE DEF t
    <3> QED BY <1>1, <1>6
  <2> HIDE DEF t
  <2>4. [k \in 1..n |-> t[e[k]]] = [k \in 1..n |-> s[e[k]]]
    BY <2>3
  <2> QED BY <1>4, <1>8, <2>2, <2>4 DEF t
<1> QED BY <1>7, <1>8
\* One element less, at the front.
LEMMA CountedTail ==
    ASSUME NEW T, NEW s \in Seq(T), s # <<>>, NEW S
    PROVE  /\ Head(s) \in S => /\ Counted(s, S) # <<>>
                               /\ Head(Counted(s, S)) = Head(s)
                               /\ Tail(Counted(s, S)) = Counted(Tail(s), S)
           /\ Head(s) \notin S => Counted(s, S) = Counted(Tail(s), S)
<1> DEFINE t == Tail(s)
           P == Positions(s, S)
           Q == Positions(t, S)
           m == Len(t)
           f == Counted(s, S)
           h == Counted(t, S)
<1>1. /\ m \in Nat /\ DOMAIN s = 1..(m + 1) /\ DOMAIN t = 1..m /\ t \in Seq(T)
      /\ Head(s) = s[1] /\ \A k \in 1..m : t[k] = s[k + 1]
  OBVIOUS
<1> HIDE DEF t
<1>2. PICK n \in Nat : \E e : Lists(e, n, Q)
  BY <1>1, CountedHasList
<1>3. PICK e : Lists(e, n, Q)
  BY <1>2
<1>4. /\ e \in [1..n -> Q] /\ \A j, k \in 1..n : j < k => e[j] < e[k]
      /\ \A i \in Q : \E k \in 1..n : e[k] = i
  BY <1>3 DEF Lists
<1>5. Q \in SUBSET (1..m) /\ \A k \in 1..n : e[k] \in 1..m
  BY <1>1, <1>4 DEF Positions
<1>6. f \in Seq(T) /\ h \in Seq(T)
  BY <1>1, CountedType
<1>7. DOMAIN h = 1..n /\ \A k \in 1..n : h[k] = t[e[k]]
  BY <1>1, <1>3, CountedIs
<1>8. Len(h) = n
  BY <1>7
\* Both cases have the positions of t, one further on.
<1>9. \A i \in 1..m : i \in Q <=> i + 1 \in P
  BY <1>1 DEF Positions
<1>10. P \subseteq 1..(m + 1) /\ (1 \in P <=> Head(s) \in S)
  BY <1>1 DEF Positions
<1>11. \A i \in P : i = 1 \/ i - 1 \in Q
  <2> SUFFICES ASSUME NEW i \in P, i # 1 PROVE i - 1 \in Q
    OBVIOUS
  <2>1. i - 1 \in 1..m /\ (i - 1) + 1 = i
    BY <1>1, <1>10
  <2> QED BY <1>9, <2>1
<1>12. \A k \in 1..n : e[k] + 1 \in P /\ s[e[k] + 1] = h[k]
  BY <1>1, <1>4, <1>5, <1>7, <1>9
<1> HIDE DEF P, Q, f, h
<1>13. CASE Head(s) \in S
  <2> DEFINE g == [k \in 1..(n + 1) |-> IF k = 1 THEN 1 ELSE e[k - 1] + 1]
  <2>1. g[1] = 1 /\ \A k \in 1..n : k + 1 \in 1..(n + 1) /\ g[k + 1] = e[k] + 1
    OBVIOUS
  <2>2. \A k \in 1..(n + 1) : k # 1 => k - 1 \in 1..n /\ g[k] = e[k - 1] + 1
    OBVIOUS
  <2>3. DOMAIN g = 1..(n + 1) /\ g = [k \in 1..(n + 1) |-> g[k]]
    OBVIOUS
  <2> HIDE DEF g
  <2>4. g \in [1..(n + 1) -> P]
    <3>1. \A k \in 1..(n + 1) : g[k] \in P
      BY <1>10, <1>12, <1>13, <2>1, <2>2
    <3> QED BY <2>3, <3>1
  <2>5. ASSUME NEW j \in 1..(n + 1), NEW k \in 1..(n + 1), j < k PROVE g[j] < g[k]
    <3>1. k # 1 /\ k - 1 \in 1..n /\ g[k] = e[k - 1] + 1 /\ e[k - 1] \in 1..m
      BY <1>5, <2>2, <2>5
    <3>2. CASE j = 1
      BY <1>1, <2>1, <3>1, <3>2
    <3>3. CASE j # 1
      <4>1. j - 1 \in 1..n /\ g[j] = e[j - 1] + 1 /\ e[j - 1] \in 1..m /\ j - 1 < k - 1
        BY <1>5, <2>2, <2>5, <3>3
      <4>2. e[j - 1] < e[k - 1]
        BY <1>4, <3>1, <4>1
      <4> QED BY <1>1, <3>1, <4>1, <4>2
    <3> QED BY <3>2, <3>3
  <2>6. ASSUME NEW i \in P PROVE \E k \in 1..(n + 1) : g[k] = i
    <3>1. CASE i = 1
      BY <2>1, <3>1
    <3>2. CASE i # 1
      <4>1. PICK k \in 1..n : e[k] = i - 1
        BY <1>4, <1>11, <3>2
      <4>2. i \in 1..(m + 1)
        BY <1>10
      <4>3. k + 1 \in 1..(n + 1) /\ g[k + 1] = i
        BY <1>1, <2>1, <4>1, <4>2
      <4> QED BY <4>3
    <3> QED BY <3>1, <3>2
  <2>7. Lists(g, n + 1, P)
    BY <2>4, <2>5, <2>6 DEF Lists
  <2>8. f = [k \in 1..(n + 1) |-> s[g[k]]]
    BY <2>7, CountedIs DEF P, f
  <2>9. Len(f) = n + 1 /\ f[1] = Head(s)
    BY <1>1, <1>6, <2>1, <2>8
  <2>10. \A k \in 1..n : f[k + 1] = h[k]
    BY <1>12, <2>1, <2>8
  <2>11. f # <<>> /\ Head(f) = Head(s) /\ Tail(f) \in Seq(T) /\ Len(Tail(f)) = n
    BY <1>6, <2>9
  <2>12. \A k \in 1..n : Tail(f)[k] = f[k + 1]
    BY <1>6, <2>9, <2>11, HeadTailProperties
  <2>13. Tail(f) = h
    BY <1>6, <1>8, <2>10, <2>11, <2>12, SeqEqual
  <2> QED BY <1>13, <2>11, <2>13 DEF f, h, t
<1>14. CASE Head(s) \notin S
  <2> DEFINE g == [k \in 1..n |-> e[k] + 1]
  <2>1. g \in [1..n -> P]
    BY <1>12
  <2>2. \A j, k \in 1..n : j < k => g[j] < g[k]
    BY <1>4, <1>5
  <2>3. ASSUME NEW i \in P PROVE \E k \in 1..n : g[k] = i
    <3>1. i \in 1..(m + 1) /\ i - 1 \in Q
      BY <1>10, <1>11, <1>14
    <3>2. PICK k \in 1..n : e[k] = i - 1
      BY <1>4, <3>1
    <3> QED BY <1>1, <3>1, <3>2
  <2>4. Lists(g, n, P)
    BY <2>1, <2>2, <2>3 DEF Lists
  <2>5. f = [k \in 1..n |-> s[g[k]]]
    <3> HIDE DEF g
    <3> QED BY <2>4, CountedIs DEF P, f
  <2>6. \A k \in 1..n : f[k] = h[k]
    BY <1>12, <2>5
  <2>7. Len(f) = n
    BY <1>6, <2>5
  <2>8. f = h
    BY <1>6, <1>8, <2>6, <2>7, SeqEqual
  <2> QED BY <1>14, <2>8 DEF f, h, t
<1> QED BY <1>13, <1>14

-----------------------------------------------------------------------------
(* Filter *)

LEMMA Least ==
    ASSUME NEW N \in SUBSET Nat, N # {}
    PROVE  \E x \in N : \A y \in N : x <= y
<1>1. IsWellFoundedOn(OpToRel(<, Nat), Nat)
  BY NatLessThanWellFounded
<1>2. PICK x \in N : \A y \in N : <<y, x>> \notin OpToRel(<, Nat)
  BY <1>1, WFMin
<1>3. \A y \in N : ~(y < x)
  BY <1>2 DEF OpToRel
<1> QED BY <1>3

\* What Filter's recursion asks of a function.
Recurs(f, s, S) ==
    f = [n \in 0..Len(s) |-> IF n = 0 THEN <<>>
                             ELSE IF s[n] \in S THEN Append(f[n - 1], s[n])
                             ELSE f[n - 1]]

\* Counted does the recursion for what s starts with, and nothing else does: there is
\* no least place where it would differ.
LEMMA FilterCounts ==
    ASSUME NEW T, NEW s \in Seq(T), NEW S
    PROVE  Filter(s, S) = Counted(s, S)
<1> DEFINE m == Len(s)
           pre(n) == SubSeq(s, 1, n)
           h == [n \in 0..m |-> Counted(pre(n), S)]
<1>1. m \in Nat /\ \A n \in 1..m : s[n] \in T
  OBVIOUS
<1>2. pre(0) = <<>> /\ pre(m) = s
  BY SubSeqFull, SubSeqEmpty
<1>3. ASSUME NEW n \in 1..m
      PROVE  pre(n - 1) \in Seq(T) /\ pre(n) = Append(pre(n - 1), s[n])
  <2>1. pre(n - 1) \in Seq(T)
    OBVIOUS
  <2>2. pre(n) = pre(n - 1) \o <<s[n]>>
    BY SubSeqRecursiveSecond
  <2> QED BY <1>1, <2>1, <2>2, AppendIsConcat
<1> HIDE DEF pre
<1>4. ASSUME NEW n \in 1..m
      PROVE  Counted(pre(n), S) = IF s[n] \in S THEN Append(Counted(pre(n - 1), S), s[n])
                                  ELSE Counted(pre(n - 1), S)
  <2>1. /\ pre(n - 1) \in Seq(T) /\ s[n] \in T
        /\ pre(n) = Append(pre(n - 1), s[n])
    BY <1>1, <1>3
  <2>2. Counted(Append(pre(n - 1), s[n]), S) =
            IF s[n] \in S THEN Append(Counted(pre(n - 1), S), s[n])
            ELSE Counted(pre(n - 1), S)
    <3>1. \A q \in Seq(T), a \in T :
             Counted(Append(q, a), S) =
                 IF a \in S THEN Append(Counted(q, S), a) ELSE Counted(q, S)
      BY CountedAppend
    <3> QED BY <2>1, <3>1
  <2> QED BY <2>1, <2>2
<1>5. Recurs(h, s, S)
  <2>1. ASSUME NEW n \in 0..m
        PROVE  Counted(pre(n), S) = IF n = 0 THEN <<>>
                                    ELSE IF s[n] \in S THEN Append(h[n - 1], s[n])
                                    ELSE h[n - 1]
    <3>1. CASE n = 0
      BY <1>2, <3>1, CountedEmpty
    <3>2. CASE n # 0
      <4>1. n \in 1..m /\ n - 1 \in 0..m
        BY <1>1, <3>2
      <4>2. h[n - 1] = Counted(pre(n - 1), S)
        BY <4>1
      <4> QED BY <1>4, <3>2, <4>1, <4>2
    <3> QED BY <3>1, <3>2
  <2>2. h = [n \in 0..m |-> IF n = 0 THEN <<>>
                            ELSE IF s[n] \in S THEN Append(h[n - 1], s[n])
                            ELSE h[n - 1]]
    BY <2>1
  <2> QED BY <2>2 DEF Recurs
<1>6. ASSUME NEW f, Recurs(f, s, S) PROVE \A n \in 0..m : f[n] = h[n]
  <2> DEFINE D == {n \in 0..m : f[n] # h[n]}
  <2> SUFFICES ASSUME D # {} PROVE FALSE
    OBVIOUS
  <2>1. PICK x \in D : \A y \in D : x <= y
    <3>1. D \in SUBSET Nat
      BY <1>1
    <3> HIDE DEF D
    <3> QED BY <3>1, Least
  <2> HIDE DEF h
  <2>2. /\ f[x] = IF x = 0 THEN <<>>
                  ELSE IF s[x] \in S THEN Append(f[x - 1], s[x]) ELSE f[x - 1]
        /\ h[x] = IF x = 0 THEN <<>>
                  ELSE IF s[x] \in S THEN Append(h[x - 1], s[x]) ELSE h[x - 1]
    BY <1>5, <1>6 DEF Recurs
  <2>3. x # 0
    BY <2>2
  <2>4. x - 1 \in 0..m /\ ~(x <= x - 1)
    BY <1>1, <2>3
  <2>5. f[x - 1] = h[x - 1]
    BY <2>1, <2>4
  <2> QED BY <2>2, <2>5
<1> DEFINE F == CHOOSE f : Recurs(f, s, S)
<1>7. Recurs(F, s, S)
  BY <1>5
<1>8. F[m] = Counted(s, S)
  <2> HIDE DEF F
  <2>1. F[m] = h[m] /\ m \in 0..m
    BY <1>1, <1>6, <1>7
  <2> QED BY <1>2, <2>1
<1>9. Filter(s, S) = F[m]
  BY DEF Filter, Recurs
<1> QED BY <1>8, <1>9

\* What is left are the elements that are in S.
LEMMA FilterType ==
    ASSUME NEW T, NEW s \in Seq(T), NEW S
    PROVE  /\ Filter(s, S) \in Seq(T)
           /\ ToSet(Filter(s, S)) = ToSet(s) \cap S
BY FilterCounts, CountedType

\* Only what S says of the elements of s matters.
LEMMA FilterSame ==
    ASSUME NEW T, NEW s \in Seq(T), NEW S, NEW R, ToSet(s) \cap S = ToSet(s) \cap R
    PROVE  Filter(s, S) = Filter(s, R)
BY FilterCounts, CountedSame

LEMMA FilterEmpty ==
    ASSUME NEW S PROVE Filter(<<>>, S) = <<>>
<1>1. <<>> \in Seq({})
  OBVIOUS
<1> QED BY <1>1, FilterCounts, CountedEmpty

LEMMA FilterAppend ==
    ASSUME NEW T, NEW s \in Seq(T), NEW a \in T, NEW S
    PROVE  Filter(Append(s, a), S) =
               IF a \in S THEN Append(Filter(s, S), a) ELSE Filter(s, S)
<1>1. Append(s, a) \in Seq(T)
  OBVIOUS
<1>2. Filter(Append(s, a), S) = Counted(Append(s, a), S) /\ Filter(s, S) = Counted(s, S)
  BY <1>1, FilterCounts
<1> QED BY <1>2, CountedAppend

LEMMA FilterTail ==
    ASSUME NEW T, NEW s \in Seq(T), s # <<>>, NEW S
    PROVE  /\ Head(s) \in S => /\ Filter(s, S) # <<>>
                               /\ Head(Filter(s, S)) = Head(s)
                               /\ Tail(Filter(s, S)) = Filter(Tail(s), S)
           /\ Head(s) \notin S => Filter(s, S) = Filter(Tail(s), S)
<1>1. Tail(s) \in Seq(T)
  OBVIOUS
<1>2. Filter(s, S) = Counted(s, S) /\ Filter(Tail(s), S) = Counted(Tail(s), S)
  BY <1>1, FilterCounts
<1> QED BY <1>2, CountedTail

LEMMA FilterOneEach ==
    ASSUME NEW T, NEW s \in Seq(T), OneEach(s), NEW S
    PROVE  OneEach(Filter(s, S))
<1>1. PICK n \in Nat : \E e : Lists(e, n, Positions(s, S))
  BY CountedHasList
<1>2. PICK e : Lists(e, n, Positions(s, S))
  BY <1>1
<1>3. Filter(s, S) = [k \in 1..n |-> s[e[k]]]
  BY <1>2, CountedIs, FilterCounts
<1>4. Filter(s, S) \in Seq(T)
  BY FilterType
<1> DEFINE f == Filter(s, S)
<1> HIDE DEF f
<1>5. Len(f) = n /\ \A k \in 1..n : f[k] = s[e[k]]
  BY <1>3, <1>4 DEF f
<1>6. \A k \in 1..n : e[k] \in 1..Len(s)
  BY <1>2 DEF Lists, Positions
<1>7. ASSUME NEW j \in 1..n, NEW k \in 1..n, f[j] = f[k] PROVE j = k
  <2>1. e[j] = e[k]
    BY <1>5, <1>6, <1>7 DEF OneEach
  <2>2. ~(j < k) /\ ~(k < j)
    BY <1>2, <1>6, <2>1 DEF Lists
  <2> QED BY <2>2
<1> QED BY <1>5, <1>7 DEF OneEach, f
=============================================================================
