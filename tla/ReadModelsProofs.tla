---------------------------- MODULE ReadModelsProofs ----------------------------
(***************************************************************************)
(* The walks of the read models compute what they are said to, over any    *)
(* subjects and relations, with any cycles, and for any request.           *)
(***************************************************************************)
EXTENDS ReadModels, SequenceTheorems, FiniteSetTheorems, WellFoundedInduction, TLAPS

-----------------------------------------------------------------------------
(* Naturals, and functions that are defined by recursion.                   *)

LEMMA Least ==
  ASSUME NEW S \in SUBSET Nat, S # {}
  PROVE  \E n \in S : \A m \in S : ~(m < n)
<1>1. PICK n \in S : \A m \in S : <<m, n>> \notin OpToRel(<, Nat)
  BY WFMin, NatLessThanWellFounded, Zenon
<1> QED BY <1>1, Zenon DEF OpToRel

\* Induction up to a bound, over a set as the provers take no operator.
LEMMA InductionUpTo ==
  ASSUME NEW k \in Nat, NEW S, 0 \in S, \A n \in 0..(k-1) : n \in S => n + 1 \in S
  PROVE  \A n \in 0..k : n \in S
<1> DEFINE Missing == {n \in 0..k : n \notin S}
<1> SUFFICES ASSUME Missing # {} PROVE FALSE
  OBVIOUS
<1>1. Missing \in SUBSET Nat
  OBVIOUS
<1>2. PICK n \in Missing : \A m \in Missing : ~(m < n)
  BY <1>1, Least
<1>3. n \in 0..k /\ n \notin S /\ n # 0
  BY <1>2
<1>4. n - 1 \in 0..(k-1) /\ n - 1 < n /\ n - 1 \in 0..k /\ (n - 1) + 1 = n
  BY <1>3
<1>5. n - 1 \in S
  <2>1. n - 1 \notin Missing
    BY <1>2, <1>4
  <2> QED BY <2>1, <1>4
<1> QED BY <1>3, <1>4, <1>5

\* A function on the numbers up to k, from its first value and its steps.
Follows(f, k, first, next) == f[0] = first /\ \A n \in 1..k : f[n] = next[n][f[n-1]]

LEMMA Recursion ==
  ASSUME NEW k \in Nat, NEW V, NEW first \in V, NEW next \in [1..k -> [V -> V]]
  PROVE  \E f \in [0..k -> V] : Follows(f, k, first, next)
<1> DEFINE Is(f, m) == f[0] = first /\ \A n \in 1..m : f[n] = next[n][f[n-1]]
           Reached == {m \in 0..k : \E f \in [0..m -> V] : Is(f, m)}
<1>1. 0 \in Reached
  <2> DEFINE f == [n \in 0..0 |-> first]
  <2>1. f \in [0..0 -> V] /\ Is(f, 0) /\ 0 \in 0..k
    OBVIOUS
  <2> HIDE DEF f, Is
  <2> QED BY <2>1
<1>2. ASSUME NEW m \in 0..(k-1), m \in Reached PROVE m + 1 \in Reached
  <2>1. PICK f \in [0..m -> V] : Is(f, m)
    BY <1>2
  <2>2. f[m] \in V /\ m + 1 \in 1..k /\ m + 1 \in 0..k
    BY <2>1
  <2> DEFINE h == [n \in 0..(m+1) |-> IF n <= m THEN f[n] ELSE next[m+1][f[m]]]
  <2>3. h \in [0..(m+1) -> V]
    BY <2>2
  <2>4. ASSUME NEW n \in 1..(m+1) PROVE h[n] = next[n][h[n-1]]
    <3>1. CASE n \in 1..m
      <4>1. n - 1 \in 0..m /\ n - 1 <= m /\ n <= m /\ n \in 0..(m+1) /\ n - 1 \in 0..(m+1)
        BY <3>1
      <4>2. h[n] = f[n] /\ h[n-1] = f[n-1]
        BY <3>1, <4>1
      <4> QED BY <2>1, <3>1, <4>2
    <3>2. CASE n = m + 1
      <4>1. h[n] = next[m+1][f[m]] /\ h[n-1] = f[m]
        BY <3>2
      <4> QED BY <3>2, <4>1
    <3> QED BY <3>1, <3>2
  <2>5. h[0] = first
    BY <2>1
  <2> HIDE DEF h
  <2>6. Is(h, m + 1)
    BY <2>4, <2>5
  <2> HIDE DEF Is
  <2> QED BY <2>2, <2>3, <2>6
<1>3. k \in Reached
  <2> HIDE DEF Reached
  <2>1. \A n \in 0..k : n \in Reached
    BY <1>1, <1>2, InductionUpTo
  <2> QED BY <2>1
<1> QED BY <1>3 DEF Follows

\* The values of such a function are in a set that the steps do not leave.
LEMMA RecursionStays ==
  ASSUME NEW k \in Nat, NEW V, NEW f, f[0] \in V,
         \A n \in 1..k : f[n-1] \in V => f[n] \in V
  PROVE  \A n \in 0..k : f[n] \in V
<1> DEFINE S == {n \in 0..k : f[n] \in V}
<1>1. 0 \in S
  OBVIOUS
<1>2. ASSUME NEW n \in 0..(k-1), n \in S PROVE n + 1 \in S
  <2>1. n + 1 \in 1..k /\ n + 1 \in 0..k /\ (n + 1) - 1 = n
    OBVIOUS
  <2> QED BY <1>2, <2>1
<1> HIDE DEF S
<1>3. \A n \in 0..k : n \in S
  BY <1>1, <1>2, InductionUpTo
<1> QED BY <1>3 DEF S

-----------------------------------------------------------------------------
(* Sequences.                                                               *)

LEMMA MembersOf ==
  ASSUME NEW T, NEW q \in Seq(T)
  PROVE  /\ Members(q) \subseteq T
         /\ \A i \in 1..Len(q) : q[i] \in Members(q) /\ q[i] \in T
         /\ \A x \in Members(q) : \E i \in 1..Len(q) : q[i] = x
<1>1. DOMAIN q = 1..Len(q) /\ \A i \in 1..Len(q) : q[i] \in T
  BY LenProperties, ElementOfSeq
<1> QED BY <1>1 DEF Members

\* Joined: what a sequence with more at its end consists of.
LEMMA Joined ==
  ASSUME NEW T, NEW p \in Seq(T), NEW q \in Seq(T)
  PROVE  /\ p \o q \in Seq(T) /\ Len(p \o q) = Len(p) + Len(q)
         /\ \A i \in 1..Len(p) : (p \o q)[i] = p[i]
         /\ \A i \in 1..Len(q) : (p \o q)[Len(p) + i] = q[i]
         /\ \A i \in 1..(Len(p) + Len(q)) :
              i \in 1..Len(p) \/ (i - Len(p) \in 1..Len(q) /\ (p \o q)[i] = q[i - Len(p)])
         /\ Members(p \o q) = Members(p) \cup Members(q)
<1>1. /\ Len(p) \in Nat /\ Len(q) \in Nat
      /\ DOMAIN p = 1..Len(p) /\ DOMAIN q = 1..Len(q)
  BY LenProperties
<1>2. /\ p \o q \in Seq(T) /\ Len(p \o q) = Len(p) + Len(q)
      /\ \A i \in 1..(Len(p) + Len(q)) :
           (p \o q)[i] = IF i <= Len(p) THEN p[i] ELSE q[i - Len(p)]
  BY ConcatProperties
<1> DEFINE r == p \o q
<1>3. DOMAIN r = 1..(Len(p) + Len(q))
  BY <1>2, LenProperties
<1> HIDE DEF r
<1>4. /\ \A i \in 1..Len(p) : r[i] = p[i]
      /\ \A i \in 1..Len(q) : r[Len(p) + i] = q[i]
      /\ \A i \in 1..(Len(p) + Len(q)) :
           i \in 1..Len(p) \/ (i - Len(p) \in 1..Len(q) /\ r[i] = q[i - Len(p)])
  <2>1. \A i \in 1..(Len(p) + Len(q)) : r[i] = IF i <= Len(p) THEN p[i] ELSE q[i - Len(p)]
    BY <1>2 DEF r
  <2> QED BY <1>1, <2>1
<1>5. Members(r) = Members(p) \cup Members(q)
  <2>1. ASSUME NEW x \in Members(r) PROVE x \in Members(p) \cup Members(q)
    BY <1>1, <1>3, <1>4 DEF Members
  <2>2. ASSUME NEW x \in Members(p) PROVE x \in Members(r)
    <3>1. PICK i \in 1..Len(p) : p[i] = x
      BY <1>1 DEF Members
    <3>2. i \in 1..(Len(p) + Len(q)) /\ r[i] = x
      BY <1>1, <1>4, <3>1
    <3> QED BY <1>3, <3>2 DEF Members
  <2>3. ASSUME NEW x \in Members(q) PROVE x \in Members(r)
    <3>1. PICK i \in 1..Len(q) : q[i] = x
      BY <1>1 DEF Members
    <3>2. Len(p) + i \in 1..(Len(p) + Len(q)) /\ r[Len(p) + i] = x
      BY <1>1, <1>4, <3>1
    <3> QED BY <1>3, <3>2 DEF Members
  <2> QED BY <2>1, <2>2, <2>3
<1> QED BY <1>2, <1>4, <1>5 DEF r

\* In.
\* The runs of In.
InRuns(order, S) ==
  LET first[n \in 0..Len(order)] ==
        IF n = 0 THEN << >>
        ELSE IF order[n] \in S THEN Append(first[n-1], order[n]) ELSE first[n-1]
  IN first

LEMMA InRunsIs ==
  ASSUME NEW T, NEW order \in Seq(T), NEW S
  PROVE  /\ InRuns(order, S)[0] = << >>
         /\ \A n \in 1..Len(order) : InRuns(order, S)[n] =
              IF order[n] \in S
              THEN Append(InRuns(order, S)[n-1], order[n])
              ELSE InRuns(order, S)[n-1]
         /\ \A n \in 0..Len(order) : InRuns(order, S)[n] \in Seq(T)
<1> DEFINE k == Len(order)
           V == Seq(T)
           first == << >>
           Step(n, q) == IF order[n] \in S THEN Append(q, order[n]) ELSE q
           Is(f) == f = [n \in 0..k |-> IF n = 0 THEN first ELSE Step(n, f[n-1])]
<1>1. InRuns(order, S) = CHOOSE f : Is(f)
  BY DEF InRuns
<1>2. k \in Nat /\ first \in V
  BY LenProperties
<1>3. ASSUME NEW n \in 1..k, NEW q \in V PROVE Step(n, q) \in V
  <2>1. order[n] \in T
    BY <1>3, ElementOfSeq
  <2> QED BY <1>3, <2>1
<1> HIDE DEF k, V, first, Step
<1>4. \E f : Is(f)
  <2> DEFINE next == [n \in 1..k |-> [v \in V |-> Step(n, v)]]
  <2>1. next \in [1..k -> [V -> V]] /\ \A n \in 1..k, v \in V : next[n][v] = Step(n, v)
    BY <1>3
  <2> HIDE DEF next
  <2>2. PICK f \in [0..k -> V] : f[0] = first /\ \A n \in 1..k : f[n] = next[n][f[n-1]]
    <3>1. \E f \in [0..k -> V] : Follows(f, k, first, next)
      BY <1>2, <2>1, Recursion
    <3> QED BY <3>1 DEF Follows
  <2>3. ASSUME NEW n \in 0..k PROVE f[n] = IF n = 0 THEN first ELSE Step(n, f[n-1])
    BY <1>2, <2>1, <2>2
  <2>4. Is(f)
    BY <2>3
  <2> QED BY <2>4
<1>5. PICK g : Is(g) /\ InRuns(order, S) = g
  BY <1>1, <1>4
<1>6. g[0] = first
  BY <1>2, <1>5
<1>7. \A n \in 1..k : g[n] = Step(n, g[n-1])
  BY <1>2, <1>5
<1>8. \A n \in 0..k : g[n] \in V
  BY <1>2, <1>3, <1>6, <1>7, RecursionStays
<1>9. ASSUME NEW n \in 1..k
      PROVE  InRuns(order, S)[n] =
             IF order[n] \in S
             THEN Append(InRuns(order, S)[n-1], order[n])
             ELSE InRuns(order, S)[n-1]
  <2>1. PICK v : v = g[n-1]
    OBVIOUS
  <2>2. g[n] = IF order[n] \in S THEN Append(v, order[n]) ELSE v
    BY <1>7, <2>1 DEF Step
  <2> QED BY <1>5, <2>1, <2>2
<1> QED BY <1>5, <1>6, <1>8, <1>9 DEF k, V, first

LEMMA InIs ==
  ASSUME NEW T, NEW order \in Seq(T), Distinct(order), NEW S
  PROVE  /\ In(order, S) \in Seq(T)
         /\ Members(In(order, S)) = Members(order) \cap S
         /\ Distinct(In(order, S))
<1> DEFINE k == Len(order)
<1>1. /\ k \in Nat /\ DOMAIN order = 1..k
      /\ \A n \in 1..k : order[n] \in T
      /\ \A i, j \in 1..k : order[i] = order[j] => i = j
  BY LenProperties, ElementOfSeq DEF Distinct
<1>2. PICK R : /\ In(order, S) = R[k] /\ R[0] = << >>
               /\ \A n \in 1..k :
                    R[n] = IF order[n] \in S THEN Append(R[n-1], order[n]) ELSE R[n-1]
  <2>1. In(order, S) = InRuns(order, S)[k]
    BY DEF In, InRuns
  <2> QED BY <2>1, InRunsIs
<1> HIDE DEF k
<1> DEFINE Sofar(n) == {order[i] : i \in 1..n} \cap S
           Good(n) == R[n] \in Seq(T) /\ Members(R[n]) = Sofar(n) /\ Distinct(R[n])
           D == {n \in 0..k : Good(n)}
<1>3. 0 \in D
  <2>1. Members(<< >>) = {} /\ Sofar(0) = {} /\ Distinct(<< >>) /\ << >> \in Seq(T)
    BY DEF Members, Distinct
  <2>2. Good(0)
    BY <1>2, <2>1
  <2> QED BY <1>1, <2>2
<1>4. ASSUME NEW n \in 0..(k-1), n \in D PROVE n + 1 \in D
  <2>1. n + 1 \in 1..k /\ n + 1 \in 0..k /\ (n + 1) - 1 = n
    BY <1>1
  <2>2. PICK q, x : q = R[n] /\ x = order[n+1]
    OBVIOUS
  <2>3. q \in Seq(T) /\ Members(q) = Sofar(n) /\ Distinct(q) /\ x \in T
    BY <1>1, <1>4, <2>1, <2>2
  <2>4. R[n+1] = IF x \in S THEN Append(q, x) ELSE q
    BY <1>2, <2>1, <2>2
  <2>5. {order[i] : i \in 1..(n+1)} = {order[i] : i \in 1..n} \cup {x}
    <3>1. 1..(n+1) = 1..n \cup {n+1}
      OBVIOUS
    <3> QED BY <2>2, <3>1
  <2>6. x \notin {order[i] : i \in 1..n}
    BY <1>1, <2>1, <2>2
  <2>7. CASE x \in S
    <3>1. Append(q, x) = q \o <<x>> /\ <<x>> \in Seq(T) /\ Len(<<x>>) = 1 /\ Members(<<x>>) = {x}
      BY <2>3 DEF Members
    <3>2. /\ q \o <<x>> \in Seq(T) /\ Members(q \o <<x>>) = Members(q) \cup {x}
      <4>1. PICK y : y = <<x>>
        OBVIOUS
      <4>2. y \in Seq(T) /\ Members(y) = {x}
        BY <3>1, <4>1
      <4>3. q \o y \in Seq(T) /\ Members(q \o y) = Members(q) \cup Members(y)
        BY <2>3, <4>2, Joined
      <4> QED BY <4>1, <4>2, <4>3
    <3>3. x \notin Members(q)
      BY <2>3, <2>6
    <3>4. Distinct(Append(q, x))
      BY <2>3, <3>3 DEF Distinct, Members
    <3>5. Sofar(n+1) = Sofar(n) \cup {x}
      BY <2>5, <2>7
    <3> QED BY <2>1, <2>3, <2>4, <2>7, <3>1, <3>2, <3>4, <3>5
  <2>8. CASE x \notin S
    <3>1. Sofar(n+1) = Sofar(n)
      BY <2>5, <2>8
    <3> QED BY <2>1, <2>3, <2>4, <2>8, <3>1
  <2> QED BY <2>7, <2>8
<1>5. k \in D
  <2> HIDE DEF D
  <2>1. \A n \in 0..k : n \in D
    BY <1>1, <1>3, <1>4, InductionUpTo
  <2> QED BY <1>1, <2>1
<1>6. Sofar(k) = Members(order) \cap S
  BY <1>1 DEF Members
<1> QED BY <1>2, <1>5, <1>6

\* A sequence without repetition is as long as it has members.
LEMMA DistinctLen ==
  ASSUME NEW T, NEW q \in Seq(T), Distinct(q)
  PROVE  IsFiniteSet(Members(q)) /\ Cardinality(Members(q)) = Len(q)
<1>1. /\ Len(q) \in Nat /\ DOMAIN q = 1..Len(q) /\ q \in [1..Len(q) -> T]
  BY LenProperties
<1>2. q \in [1..Len(q) -> Members(q)]
  BY <1>1 DEF Members
<1>3. q \in Surjection(1..Len(q), Members(q))
  BY <1>1, <1>2 DEF Surjection, Members
<1>5. \A i, j \in DOMAIN q : q[i] = q[j] => i = j
  BY DEF Distinct
<1>4. IsFiniteSet(1..Len(q)) /\ Cardinality(1..Len(q)) = Len(q)
  BY <1>1, FS_Interval
<1>6. q \in Injection(1..Len(q), Members(q))
  BY <1>1, <1>2, <1>5 DEF Injection, IsInjective
<1> QED BY <1>3, <1>4, <1>6, FS_Surjection

-----------------------------------------------------------------------------
(* Walks, over what each node leads to.                                     *)

\* What is reached in at most so many steps.
IsLevels(L, G, root, k) ==
  /\ L[0] = {root}
  /\ \A n \in 1..k : L[n] = L[n-1] \cup UNION {G[y] : y \in L[n-1]}

LEMMA LevelsGrow ==
  ASSUME NEW T, NEW G \in [T -> SUBSET T], NEW root \in T, NEW k \in Nat,
         NEW L, IsLevels(L, G, root, k)
  PROVE  /\ \A n \in 0..k : L[n] \subseteq T /\ root \in L[n]
         /\ \A n \in 0..k, m \in 0..k : m <= n => L[m] \subseteq L[n]
         /\ \A n \in 0..k, y \in T : y \in L[n] /\ n < k => G[y] \subseteq L[n+1]
         /\ \A n \in 0..k, x \in T :
              x \in L[n] /\ n # 0 => x \in L[n-1] \/ \E y \in T : y \in L[n-1] /\ x \in G[y]
<1>1. /\ L[0] = {root}
      /\ \A n \in 1..k : L[n] = L[n-1] \cup UNION {G[y] : y \in L[n-1]}
  BY DEF IsLevels
<1>2. ASSUME NEW n \in 0..(k-1)
      PROVE  /\ n + 1 \in 1..k /\ n + 1 \in 0..k /\ n \in 0..k
             /\ L[n+1] = L[n] \cup UNION {G[y] : y \in L[n]}
  <2>1. n + 1 \in 1..k /\ n + 1 \in 0..k /\ n \in 0..k /\ (n + 1) - 1 = n
    OBVIOUS
  <2> QED BY <1>1, <2>1
<1> DEFINE Inside == {n \in 0..k : L[n] \subseteq T /\ root \in L[n]}
<1>3. \A n \in 0..k : n \in Inside
  <2>1. 0 \in Inside
    BY <1>1
  <2>2. ASSUME NEW n \in 0..(k-1), n \in Inside PROVE n + 1 \in Inside
    BY <1>2, <2>2
  <2> HIDE DEF Inside
  <2> QED BY <2>1, <2>2, InductionUpTo
<1> DEFINE Over == {n \in 0..k : \A m \in 0..k : m <= n => L[m] \subseteq L[n]}
<1>4. \A n \in 0..k : n \in Over
  <2>1. 0 \in Over
    OBVIOUS
  <2>2. ASSUME NEW n \in 0..(k-1), n \in Over PROVE n + 1 \in Over
    <3>1. ASSUME NEW m \in 0..k, m <= n + 1 PROVE L[m] \subseteq L[n+1]
      <4>1. CASE m = n + 1
        BY <4>1
      <4>2. CASE m <= n
        BY <1>2, <2>2, <4>2
      <4> QED BY <3>1, <4>1, <4>2
    <3> QED BY <1>2, <3>1
  <2> HIDE DEF Over
  <2> QED BY <2>1, <2>2, InductionUpTo
<1>5. ASSUME NEW n \in 0..k, NEW y \in T, y \in L[n], n < k PROVE G[y] \subseteq L[n+1]
  <2>1. n \in 0..(k-1)
    BY <1>5
  <2> QED BY <1>2, <1>5, <2>1
<1>6. ASSUME NEW n \in 0..k, NEW x \in T, x \in L[n], n # 0
      PROVE  x \in L[n-1] \/ \E y \in T : y \in L[n-1] /\ x \in G[y]
  <2>1. n \in 1..k /\ n - 1 \in 0..k
    BY <1>6
  <2>2. L[n-1] \subseteq T
    BY <1>3, <2>1
  <2> QED BY <1>1, <1>6, <2>1, <2>2
<1> QED BY <1>3, <1>4, <1>5, <1>6

LEMMA LevelsInside ==
  ASSUME NEW T, NEW G \in [T -> SUBSET T], NEW root \in T, NEW k \in Nat,
         NEW L, IsLevels(L, G, root, k),
         NEW C, root \in C, \A y \in T : y \in C => G[y] \subseteq C
  PROVE  \A n \in 0..k : L[n] \subseteq C
<1>1. L[0] = {root}
  BY DEF IsLevels
<1>2. /\ \A n \in 0..k : L[n] \subseteq T
      /\ \A n \in 0..k, x \in T :
           x \in L[n] /\ n # 0 => x \in L[n-1] \/ \E y \in T : y \in L[n-1] /\ x \in G[y]
  BY LevelsGrow
<1> DEFINE Inside == {n \in 0..k : L[n] \subseteq C}
<1>3. 0 \in Inside
  BY <1>1
<1>4. ASSUME NEW n \in 0..(k-1), n \in Inside PROVE n + 1 \in Inside
  <2>1. n + 1 \in 0..k /\ n \in 0..k /\ (n + 1) - 1 = n /\ n + 1 # 0
    OBVIOUS
  <2>2. ASSUME NEW x \in L[n+1] PROVE x \in C
    <3>1. x \in T
      BY <1>2, <2>1
    <3>2. x \in L[n] \/ \E y \in T : y \in L[n] /\ x \in G[y]
      BY <1>2, <2>1, <3>1
    <3> QED BY <1>4, <3>2
  <2> QED BY <2>1, <2>2
<1> HIDE DEF Inside
<1>5. \A n \in 0..k : n \in Inside
  BY <1>3, <1>4, InductionUpTo
<1> QED BY <1>5 DEF Inside

\* With as many steps as there are nodes, nothing more is reached.
LEMMA LevelsClose ==
  ASSUME NEW T, IsFiniteSet(T), NEW G \in [T -> SUBSET T], NEW root \in T, NEW k \in Nat,
         k = Cardinality(T), NEW L, IsLevels(L, G, root, k)
  PROVE  \A y \in T : y \in L[k] => G[y] \subseteq L[k]
<1>1. L[0] = {root}
  BY DEF IsLevels
<1>2. /\ \A n \in 0..k : L[n] \subseteq T /\ root \in L[n]
      /\ \A n \in 0..k, m \in 0..k : m <= n => L[m] \subseteq L[n]
      /\ \A n \in 0..k, x \in T :
           x \in L[n] /\ n # 0 => x \in L[n-1] \/ \E y \in T : y \in L[n-1] /\ x \in G[y]
  BY LevelsGrow
<1>3. \A n \in 0..k : IsFiniteSet(L[n]) /\ Cardinality(L[n]) \in Nat /\ Cardinality(L[n]) <= k
  BY <1>2, FS_Subset, FS_CardinalityType
<1> DEFINE Closed(n) == \A y \in T : y \in L[n] => G[y] \subseteq L[n]
           Grows == {n \in 0..k : Closed(n) \/ Cardinality(L[n]) > n}
<1>4. 0 \in Grows
  <2>1. Cardinality({root}) = 1
    BY FS_Singleton
  <2>2. Cardinality(L[0]) > 0 /\ 0 \in 0..k
    BY <1>1, <2>1
  <2> QED BY <2>2
<1>5. ASSUME NEW n \in 0..(k-1), n \in Grows PROVE n + 1 \in Grows
  <2>1. n + 1 \in 0..k /\ n \in 0..k /\ (n + 1) - 1 = n /\ n + 1 # 0 /\ n <= n + 1
    OBVIOUS
  <2>2. L[n] \subseteq L[n+1]
    BY <1>2, <2>1
  <2>3. CASE Closed(n)
    <3>1. L[n+1] = L[n]
      <4>1. ASSUME NEW x \in L[n+1] PROVE x \in L[n]
        <5>1. x \in T
          BY <1>2, <2>1
        <5>2. x \in L[n] \/ \E y \in T : y \in L[n] /\ x \in G[y]
          BY <1>2, <2>1, <5>1
        <5> QED BY <2>3, <5>2
      <4> QED BY <2>2, <4>1
    <3> QED BY <2>1, <2>3, <3>1
  <2>4. CASE ~Closed(n)
    <3>1. Cardinality(L[n]) > n
      BY <1>5, <2>4
    <3>2. CASE L[n+1] = L[n]
      <4>1. \A y \in T : y \in L[n] => G[y] \subseteq L[n+1]
        BY <2>1, LevelsGrow
      <4> QED BY <2>4, <3>2, <4>1
    <3>3. CASE L[n+1] # L[n]
      <4>1. /\ Cardinality(L[n]) <= Cardinality(L[n+1])
            /\ Cardinality(L[n+1]) = Cardinality(L[n]) => L[n+1] = L[n]
        BY <1>3, <2>1, <2>2, FS_Subset
      <4>2. Cardinality(L[n+1]) > n + 1
        BY <1>3, <2>1, <3>1, <3>3, <4>1
      <4> QED BY <2>1, <4>2
    <3> QED BY <3>2, <3>3
  <2> QED BY <2>3, <2>4
<1>6. k \in Grows
  <2> HIDE DEF Grows
  <2>1. \A n \in 0..k : n \in Grows
    BY <1>4, <1>5, InductionUpTo
  <2> QED BY <2>1
<1> QED BY <1>3, <1>6

QueueTypes(Q, D, N, T) == N \in Nat /\ Q \in [1..N -> T] /\ D \in [1..N -> Nat]

\* A queue, with the depth of each of its members: all but the first got there
\* from one before them.
IsQueue(Q, D, N, G, root) ==
  /\ N # 0 /\ Q[1] = root /\ D[1] = 0
  /\ \A i, j \in 1..N : Q[i] = Q[j] => i = j
  /\ \A i \in 1..N : i # 1 => \E j \in 1..N : j < i /\ Q[i] \in G[Q[j]] /\ D[i] = D[j] + 1

\* All up to a depth have put in the queue what they lead to.
Spread(Q, D, N, G, m) ==
  \A j \in 1..N : D[j] < m =>
    \A x \in G[Q[j]] : \E i \in 1..N : Q[i] = x /\ D[i] <= D[j] + 1

LEMMA QueueLevels ==
  ASSUME NEW T, NEW G \in [T -> SUBSET T], NEW root \in T, NEW k \in Nat,
         NEW L, IsLevels(L, G, root, k),
         NEW N, NEW Q, NEW D, QueueTypes(Q, D, N, T), IsQueue(Q, D, N, G, root), NEW m \in 0..k, Spread(Q, D, N, G, m)
  PROVE  /\ \A n \in 0..m : \A x \in L[n] : \E i \in 1..N : Q[i] = x /\ D[i] <= n
         /\ \A i \in 1..N : D[i] <= k => Q[i] \in L[D[i]]
         /\ \A i \in 1..N : D[i] <= m => \A n \in 0..k : Q[i] \in L[n] => D[i] <= n
<1> USE DEF QueueTypes
<1>1. L[0] = {root}
  BY DEF IsLevels
<1>2. /\ \A n \in 0..k : L[n] \subseteq T /\ root \in L[n]
      /\ \A n \in 0..k, y \in T : y \in L[n] /\ n < k => G[y] \subseteq L[n+1]
      /\ \A n \in 0..k, x \in T :
           x \in L[n] /\ n # 0 => x \in L[n-1] \/ \E y \in T : y \in L[n-1] /\ x \in G[y]
  <2>1. \A n \in 0..k : L[n] \subseteq T /\ root \in L[n]
    BY LevelsGrow
  <2>2. \A n \in 0..k, y \in T : y \in L[n] /\ n < k => G[y] \subseteq L[n+1]
    BY LevelsGrow
  <2>3. \A n \in 0..k, x \in T :
          x \in L[n] /\ n # 0 => x \in L[n-1] \/ \E y \in T : y \in L[n-1] /\ x \in G[y]
    BY LevelsGrow
  <2> QED BY <2>1, <2>2, <2>3
<1>3. /\ N # 0 /\ Q[1] = root /\ D[1] = 0
      /\ \A i, j \in 1..N : Q[i] = Q[j] => i = j
      /\ \A i \in 1..N : i # 1 => \E j \in 1..N : j < i /\ Q[i] \in G[Q[j]] /\ D[i] = D[j] + 1
  BY DEF IsQueue
<1>4. \A n \in 0..m : \A x \in L[n] : \E i \in 1..N : Q[i] = x /\ D[i] <= n
  <2> DEFINE Found == {n \in 0..m : \A x \in L[n] : \E i \in 1..N : Q[i] = x /\ D[i] <= n}
  <2>1. 0 \in Found
    <3>1. 1 \in 1..N /\ Q[1] = root /\ D[1] <= 0
      BY <1>3
    <3>2. 0 \in 0..m
      OBVIOUS
    <3> QED BY <1>1, <3>1, <3>2
  <2>2. ASSUME NEW n \in 0..(m-1), n \in Found PROVE n + 1 \in Found
    <3>1. n + 1 \in 0..k /\ n \in 0..k /\ (n + 1) - 1 = n /\ n + 1 # 0 /\ n < m /\ n + 1 \in 0..m
      OBVIOUS
    <3>2. ASSUME NEW x \in L[n+1] PROVE \E i \in 1..N : Q[i] = x /\ D[i] <= n + 1
      <4>1. x \in T
        BY <1>2, <3>1
      <4>2. x \in L[n] \/ \E y \in T : y \in L[n] /\ x \in G[y]
        BY <1>2, <3>1, <4>1
      <4>3. CASE x \in L[n]
        <5>1. PICK i \in 1..N : Q[i] = x /\ D[i] <= n
          BY <2>2, <4>3
        <5> QED BY <5>1
      <4>4. CASE \E y \in T : y \in L[n] /\ x \in G[y]
        <5>1. PICK y \in T : y \in L[n] /\ x \in G[y]
          BY <4>4
        <5>2. PICK j \in 1..N : Q[j] = y /\ D[j] <= n
          BY <2>2, <5>1
        <5>3. D[j] < m /\ D[j] \in Nat
          BY <3>1, <5>2
        <5>4. PICK i \in 1..N : Q[i] = x /\ D[i] <= D[j] + 1
          BY <5>1, <5>2, <5>3 DEF Spread
        <5> QED BY <5>2, <5>3, <5>4
      <4> QED BY <4>2, <4>3, <4>4
    <3> QED BY <3>1, <3>2
  <2> HIDE DEF Found
  <2>3. \A n \in 0..m : n \in Found
    <3>1. m \in Nat
      OBVIOUS
    <3> QED BY <2>1, <2>2, <3>1, InductionUpTo
  <2> QED BY <2>3 DEF Found
<1>5. \A i \in 1..N : D[i] <= k => Q[i] \in L[D[i]]
  <2> DEFINE Far == {i \in 1..N : D[i] <= k /\ Q[i] \notin L[D[i]]}
  <2> SUFFICES ASSUME Far # {} PROVE FALSE
    OBVIOUS
  <2>1. Far \in SUBSET Nat
    OBVIOUS
  <2>2. PICK i \in Far : \A j \in Far : ~(j < i)
    BY <2>1, Least
  <2>3. i # 1
    BY <1>1, <1>3, <2>2
  <2>4. PICK j \in 1..N : j < i /\ Q[i] \in G[Q[j]] /\ D[i] = D[j] + 1
    BY <1>3, <2>2, <2>3
  <2>5. D[j] \in 0..k /\ D[j] < k /\ Q[j] \in T
    BY <2>2, <2>4
  <2>6. Q[j] \in L[D[j]]
    BY <2>2, <2>4, <2>5
  <2>7. Q[i] \in L[D[j] + 1]
    BY <1>2, <2>4, <2>5, <2>6
  <2> QED BY <2>2, <2>4, <2>7
<1>6. ASSUME NEW i \in 1..N, D[i] <= m, NEW n \in 0..k, Q[i] \in L[n], ~(D[i] <= n) PROVE FALSE
  <2>1. n \in 0..m
    BY <1>6
  <2>2. PICK j \in 1..N : Q[j] = Q[i] /\ D[j] <= n
    BY <1>4, <1>6, <2>1
  <2> QED BY <1>3, <1>6, <2>2
<1> QED BY <1>4, <1>5, <1>6

-----------------------------------------------------------------------------
(* The graph.                                                               *)

\* The types of the state: what is declared is between what is defined.
ReadModelsTypes ==
  /\ subjects \subseteq Subjects
  /\ values \in [Subjects -> Values \cup {"unset"}]
  /\ deprecated \subseteq Subjects
  /\ relations \subseteq Members(Facts)
  /\ \A f \in relations : f.from \in subjects /\ f.to \in subjects

LEMMA SubjectsFinite ==
  IsFiniteSet(Subjects) /\ Many \in Nat /\ Many = Len(Order) /\ DOMAIN Order = 1..Many
<1>1. Order \in Seq(Subjects) /\ Distinct(Order)
  BY ReadModelsAssumption
<1>2. IsFiniteSet(Members(Order)) /\ Cardinality(Members(Order)) = Len(Order)
  BY <1>1, DistinctLen
<1>3. Len(Order) \in Nat /\ DOMAIN Order = 1..Len(Order)
  BY <1>1, LenProperties
<1> QED BY <1>2, <1>3 DEF Subjects, Many

LEMMA RelationTypes ==
  ASSUME ReadModelsTypes
  PROVE  /\ IsFiniteSet(Members(Facts)) /\ Cardinality(Members(Facts)) = Len(Facts)
         /\ Len(Facts) \in Nat /\ Members(Facts) \subseteq Fact
         /\ relations \subseteq Members(Facts)
         /\ \A f \in relations :
              /\ f \in Fact /\ f.from \in Subjects /\ f.to \in Subjects /\ f.kind \in Kinds
              /\ f = [from |-> f.from, kind |-> f.kind, to |-> f.to]
<1>1. Facts \in Seq(Fact) /\ Distinct(Facts)
  BY ReadModelsAssumption
<1>2. Members(Facts) \subseteq Fact
  BY <1>1, MembersOf
<1>3. IsFiniteSet(Members(Facts)) /\ Cardinality(Members(Facts)) = Len(Facts)
  BY <1>1, DistinctLen
<1>4. Len(Facts) \in Nat
  BY <1>1, LenProperties
<1>5. relations \subseteq Members(Facts)
  BY DEF ReadModelsTypes
<1>6. \A f \in Fact : /\ f.from \in Subjects /\ f.to \in Subjects /\ f.kind \in Kinds
                      /\ f = [from |-> f.from, kind |-> f.kind, to |-> f.to]
  BY DEF Fact
<1> QED BY <1>2, <1>3, <1>4, <1>5, <1>6

\* The subjects that support each subject, and those that each leads to.
Supporters == [x \in Subjects |-> {f.from : f \in {g \in relations : g.to = x}}]
LeadsTo == [x \in Subjects |-> {f.to : f \in {g \in relations : g.from = x}}]

LEMMA Edges ==
  ASSUME ReadModelsTypes
  PROVE  /\ Supporters \in [Subjects -> SUBSET Subjects]
         /\ LeadsTo \in [Subjects -> SUBSET Subjects]
         /\ \A x, y \in Subjects : x \in Supporters[y] <=> \E f \in relations : f.from = x /\ f.to = y
         /\ \A x, y \in Subjects : y \in LeadsTo[x] <=> \E f \in relations : f.from = x /\ f.to = y
<1>1. \A f \in relations : f.from \in Subjects /\ f.to \in Subjects
  BY RelationTypes
<1> QED BY <1>1 DEF Supporters, LeadsTo

LEMMA WithinRuns ==
  ASSUME ReadModelsTypes, NEW s \in Subjects
  PROVE  /\ Within(s)[0] = {s}
         /\ \A n \in 1..Many : Within(s)[n] =
              Within(s)[n-1] \cup {f.from : f \in {g \in relations : g.to \in Within(s)[n-1]}}
         /\ \A n \in 0..Many : Within(s)[n] \in SUBSET Subjects
<1> DEFINE k == Many
           V == SUBSET Subjects
           first == {s}
           Step(n, below) == below \cup {f.from : f \in {g \in relations : g.to \in below}}
           Is(f) == f = [n \in 0..k |-> IF n = 0 THEN first ELSE Step(n, f[n-1])]
<1>1. Within(s) = CHOOSE f : Is(f)
  BY DEF Within
<1>2. k \in Nat /\ first \in V
  BY SubjectsFinite
<1>3. ASSUME NEW n \in 1..k, NEW below \in V PROVE Step(n, below) \in V
  <2>1. \A f \in relations : f.from \in Subjects
    BY RelationTypes
  <2> QED BY <1>3, <2>1
<1> HIDE DEF k, V, first, Step
<1>4. \E f : Is(f)
  <2> DEFINE next == [n \in 1..k |-> [v \in V |-> Step(n, v)]]
  <2>1. next \in [1..k -> [V -> V]] /\ \A n \in 1..k, v \in V : next[n][v] = Step(n, v)
    BY <1>3
  <2> HIDE DEF next
  <2>2. PICK f \in [0..k -> V] : f[0] = first /\ \A n \in 1..k : f[n] = next[n][f[n-1]]
    <3>1. \E f \in [0..k -> V] : Follows(f, k, first, next)
      BY <1>2, <2>1, Recursion
    <3> QED BY <3>1 DEF Follows
  <2>3. ASSUME NEW n \in 0..k PROVE f[n] = IF n = 0 THEN first ELSE Step(n, f[n-1])
    BY <1>2, <2>1, <2>2
  <2>4. Is(f)
    BY <2>3
  <2> QED BY <2>4
<1>5. PICK g : Is(g) /\ Within(s) = g
  BY <1>1, <1>4
<1>6. g[0] = first
  BY <1>2, <1>5
<1>7. \A n \in 1..k : g[n] = Step(n, g[n-1])
  BY <1>2, <1>5
<1>8. \A n \in 0..k : g[n] \in V
  BY <1>2, <1>3, <1>6, <1>7, RecursionStays
<1>9. ASSUME NEW n \in 1..k
      PROVE  Within(s)[n] = Within(s)[n-1] \cup {f.from : f \in {h \in relations : h.to \in Within(s)[n-1]}}
  <2>1. PICK v : v = g[n-1]
    OBVIOUS
  <2>2. g[n] = v \cup {f.from : f \in {h \in relations : h.to \in v}}
    BY <1>7, <2>1 DEF Step
  <2> QED BY <1>5, <2>1, <2>2
<1> QED BY <1>5, <1>6, <1>8, <1>9 DEF k, V, first

LEMMA WithinLevels ==
  ASSUME ReadModelsTypes, NEW s \in Subjects
  PROVE  /\ IsLevels(Within(s), Supporters, s, Many)
         /\ Within(s)[Many] \subseteq Subjects
         /\ \A y \in Subjects : y \in Within(s)[Many] => Supporters[y] \subseteq Within(s)[Many]
<1>1. Many \in Nat /\ IsFiniteSet(Subjects) /\ Many = Cardinality(Subjects)
  BY SubjectsFinite DEF Many
<1>2. PICK W : W = Within(s)
  OBVIOUS
<1>3. /\ W[0] = {s}
      /\ \A n \in 1..Many : W[n] = W[n-1] \cup {f.from : f \in {g \in relations : g.to \in W[n-1]}}
      /\ \A n \in 0..Many : W[n] \subseteq Subjects
  BY <1>2, WithinRuns
<1>4. ASSUME NEW n \in 1..Many PROVE W[n] = W[n-1] \cup UNION {Supporters[y] : y \in W[n-1]}
  <2>1. PICK B, C : B = W[n-1] /\ C = W[n]
    OBVIOUS
  <2>2. n - 1 \in 0..Many
    BY <1>1
  <2>3. B \subseteq Subjects /\ C = B \cup {f.from : f \in {g \in relations : g.to \in B}}
    BY <1>3, <2>1, <2>2
  <2>4. {f.from : f \in {g \in relations : g.to \in B}} = UNION {Supporters[y] : y \in B}
    <3>1. \A y \in B : Supporters[y] = {f.from : f \in {g \in relations : g.to = y}}
      BY <2>3 DEF Supporters
    <3>2. ASSUME NEW x PROVE x \in UNION {Supporters[y] : y \in B} <=>
                             \E f \in relations : f.to \in B /\ f.from = x
      BY <3>1
    <3>3. ASSUME NEW x PROVE x \in {f.from : f \in {g \in relations : g.to \in B}} <=>
                             \E f \in relations : f.to \in B /\ f.from = x
      OBVIOUS
    <3> QED BY <3>2, <3>3
  <2> QED BY <2>1, <2>3, <2>4
<1>5. IsLevels(W, Supporters, s, Many)
  BY <1>3, <1>4 DEF IsLevels
<1>6. Supporters \in [Subjects -> SUBSET Subjects]
  BY Edges
<1>7. \A y \in Subjects : y \in W[Many] => Supporters[y] \subseteq W[Many]
  BY <1>1, <1>5, <1>6, LevelsClose
<1> QED BY <1>1, <1>2, <1>3, <1>5, <1>7

LEMMA DistanceIs ==
  ASSUME NEW from, NEW to, NEW d \in Nat, Many \in Nat,
         d <= Many => from \in Within(to)[d],
         \A n \in 0..Many : from \in Within(to)[n] => d <= n
  PROVE  /\ d <= Many => Distance(from, to) = d
         /\ d > Many => Distance(from, to) = Many + 1
<1> DEFINE enough == {n \in 0..Many : from \in Within(to)[n]}
<1>1. Distance(from, to) = IF enough = {} THEN Many + 1
                           ELSE CHOOSE n \in enough : \A k \in enough : n <= k
  BY DEF Distance
<1>2. \A n \in enough : n \in Nat /\ d <= n /\ n <= Many
  OBVIOUS
<1>3. CASE d > Many
  <2>1. enough = {}
    BY <1>2, <1>3
  <2> QED BY <1>1, <1>3, <2>1
<1>4. CASE d <= Many
  <2>1. d \in enough
    BY <1>4
  <2> HIDE DEF enough
  <2>2. \A n \in enough : (\A k \in enough : n <= k) => n = d
    BY <1>2, <2>1
  <2>3. \A k \in enough : d <= k
    BY <1>2
  <2>4. (CHOOSE n \in enough : \A k \in enough : n <= k) = d
    BY <2>1, <2>2, <2>3
  <2> QED BY <1>1, <1>4, <2>1, <2>4
<1> QED BY <1>3, <1>4

-----------------------------------------------------------------------------
(* impact_of.                                                               *)

LEMMA Popped ==
  ASSUME NEW T, NEW q \in Seq(T), q # << >>
  PROVE  /\ Len(q) \in Nat /\ Len(q) # 0 /\ Top(q) \in T
         /\ Below(q) \in Seq(T) /\ Len(Below(q)) = Len(q) - 1
         /\ Members(q) = Members(Below(q)) \cup {Top(q)}
<1>1. Len(q) \in Nat /\ Len(q) # 0 /\ DOMAIN q = 1..Len(q) /\ \A i \in 1..Len(q) : q[i] \in T
  BY LenProperties, EmptySeq, ElementOfSeq
<1> DEFINE k == Len(q)
<1>2. 1 \in 1..(k+1) /\ k - 1 \in 0..k /\ k - 1 \in (1-1)..k
  BY <1>1
<1>3. /\ Below(q) \in Seq(T) /\ Len(Below(q)) = k - 1
      /\ \A i \in 1..(k-1) : Below(q)[i] = q[i]
  <2>1. Below(q) = [i \in 1..(k-1) |-> q[i]]
    BY <1>1, SMT DEF Below
  <2>2. \A i \in 1..(k-1) : q[i] \in T
    BY <1>1
  <2> HIDE DEF k
  <2>3. k - 1 \in Nat
    BY <1>1 DEF k
  <2> QED BY <2>1, <2>2, <2>3
<1>4. DOMAIN Below(q) = 1..(k-1)
  BY <1>3, LenProperties
<1>5. Members(q) = Members(Below(q)) \cup {Top(q)}
  <2>1. 1..k = 1..(k-1) \cup {k}
    BY <1>1
  <2> QED BY <1>1, <1>3, <1>4, <2>1 DEF Members, Top
<1> QED BY <1>1, <1>3, <1>5 DEF Top

\* The sources of some relations, in the order of the facts.
LEMMA SourcesOf ==
  ASSUME ReadModelsTypes, NEW F \in SUBSET relations
  PROVE  LET into == In(Facts, F)
             from == [i \in DOMAIN into |-> into[i].from]
         IN /\ from \in Seq(Subjects) /\ Len(from) = Cardinality(F)
            /\ Members(from) = {f.from : f \in F}
<1> DEFINE into == In(Facts, F)
           from == [i \in DOMAIN into |-> into[i].from]
<1>1. /\ Facts \in Seq(Fact) /\ Distinct(Facts) /\ F \subseteq Members(Facts)
      /\ \A f \in F : f.from \in Subjects
  BY ReadModelsAssumption, RelationTypes
<1>2. into \in Seq(Fact) /\ Members(into) = Members(Facts) \cap F /\ Distinct(into)
  BY <1>1, InIs
<1>3. Members(into) = F
  BY <1>1, <1>2
<1>4. Len(into) = Cardinality(F) /\ Len(into) \in Nat /\ DOMAIN into = 1..Len(into)
  <2>1. Cardinality(Members(into)) = Len(into)
    BY <1>2, DistinctLen
  <2> QED BY <1>2, <1>3, <2>1, LenProperties
<1>5. \A i \in 1..Len(into) : into[i] \in F
  BY <1>3, <1>4 DEF Members
<1> HIDE DEF into
<1>6. from \in Seq(Subjects) /\ Len(from) = Len(into) /\ DOMAIN from = 1..Len(into)
  BY <1>1, <1>4, <1>5
<1>7. Members(from) = {f.from : f \in F}
  <2>1. \A f \in F : \E i \in 1..Len(into) : into[i] = f
    BY <1>3, <1>4 DEF Members
  <2> QED BY <1>4, <1>5, <1>6, <2>1 DEF Members
<1> QED BY <1>4, <1>6, <1>7 DEF into

Dfs == [stack : Seq(Subjects), found : SUBSET Subjects]

LEMMA VisitIs ==
  ASSUME ReadModelsTypes, NEW dfs \in Dfs, dfs.stack # << >>
  PROVE  LET node == Top(dfs.stack)
             next == Visit(dfs)
         IN /\ next \in Dfs /\ node \in Subjects /\ node \in Members(dfs.stack)
            /\ next.found = dfs.found \cup {node}
            /\ node \in dfs.found =>
                 /\ next.found \cup Members(next.stack) = dfs.found \cup Members(dfs.stack)
                 /\ Len(next.stack) = Len(dfs.stack) - 1
            /\ node \notin dfs.found =>
                 /\ next.found \cup Members(next.stack) =
                      dfs.found \cup Members(dfs.stack) \cup Supporters[node]
                 /\ Len(next.stack) <= Len(dfs.stack) - 1 + Cardinality({f \in relations : f.to = node})
<1>1. PICK stack, found, node, below :
        /\ stack = dfs.stack /\ found = dfs.found /\ node = Top(dfs.stack) /\ below = Below(dfs.stack)
  OBVIOUS
<1>2. /\ dfs = [stack |-> stack, found |-> found]
      /\ stack \in Seq(Subjects) /\ found \subseteq Subjects /\ stack # << >>
  BY <1>1 DEF Dfs
<1>3. node = Top(stack) /\ below = Below(stack)
  BY <1>1
<1>4. /\ Len(stack) \in Nat /\ node \in Subjects /\ below \in Seq(Subjects)
      /\ Len(below) = Len(stack) - 1 /\ Members(stack) = Members(below) \cup {node}
  BY <1>2, <1>3, Popped
<1> DEFINE F == {f \in relations : f.to = node /\ f.from \notin found \cup {node}}
           into == In(Facts, F)
           from == [i \in DOMAIN into |-> into[i].from]
<1>5. PICK next : next = Visit(dfs)
  OBVIOUS
<1>6. CASE node \in found
  <2>1. next = [stack |-> below, found |-> found]
    BY <1>1, <1>2, <1>5, <1>6 DEF Visit
  <2>2. /\ next \in Dfs /\ next.stack = below /\ next.found = found
    BY <1>2, <1>4, <2>1 DEF Dfs
  <2> QED BY <1>1, <1>4, <1>5, <1>6, <2>2
<1>7. CASE node \notin found
  <2>1. next = [stack |-> below \o from, found |-> found \cup {node}]
    BY <1>1, <1>5, <1>7 DEF Visit
  <2>2. PICK up : up = from
    OBVIOUS
  <2>3. up \in Seq(Subjects) /\ Len(up) = Cardinality(F) /\ Members(up) = {f.from : f \in F}
    <3>1. F \subseteq relations
      OBVIOUS
    <3> QED BY <2>2, <3>1, SourcesOf
  <2>4. /\ below \o up \in Seq(Subjects) /\ Len(below \o up) = Len(below) + Len(up)
        /\ Members(below \o up) = Members(below) \cup Members(up)
    <3>1. up \in Seq(Subjects)
      BY <2>3
    <3>2. below \in Seq(Subjects)
      BY <1>4
    <3> HIDE DEF F, from, into
    <3> QED BY <3>1, <3>2, Joined
  <2>5. Cardinality(F) <= Cardinality({f \in relations : f.to = node}) /\ Cardinality(F) \in Nat
    <3> DEFINE all == {f \in relations : f.to = node}
    <3>1. F \subseteq all /\ all \subseteq Members(Facts) /\ IsFiniteSet(Members(Facts))
      BY RelationTypes
    <3> HIDE DEF F, all
    <3>2. IsFiniteSet(all)
      BY <3>1, FS_Subset
    <3>3. IsFiniteSet(F) /\ Cardinality(F) <= Cardinality(all)
      BY <3>1, <3>2, FS_Subset
    <3>4. Cardinality(F) \in Nat
      BY <3>3, FS_CardinalityType
    <3> QED BY <3>3, <3>4 DEF all
  <2>6. Supporters[node] \cup found \cup {node} = {f.from : f \in F} \cup found \cup {node}
    <3>1. Supporters[node] = {f.from : f \in {g \in relations : g.to = node}}
      BY <1>4 DEF Supporters
    <3> QED BY <3>1
  <2>7. /\ next \in Dfs /\ next.stack = below \o up /\ next.found = found \cup {node}
    BY <1>2, <1>4, <2>1, <2>2, <2>4 DEF Dfs
  <2>8. next.found \cup Members(next.stack) = found \cup Members(stack) \cup Supporters[node]
    <3>1. next.found \cup Members(next.stack) = found \cup {node} \cup Members(below) \cup {f.from : f \in F}
      BY <2>3, <2>4, <2>7
    <3> HIDE DEF F
    <3> QED BY <1>4, <2>6, <3>1
  <2>9. Len(next.stack) <= Len(stack) - 1 + Cardinality({f \in relations : f.to = node})
    <3> HIDE DEF F, from
    <3>1. PICK c : c = Cardinality({f \in relations : f.to = node})
      OBVIOUS
    <3>2. Len(next.stack) = Len(stack) - 1 + Cardinality(F) /\ Cardinality(F) <= c
      BY <1>4, <2>3, <2>4, <2>5, <2>7, <3>1
    <3>3. c \in Int
      <4>1. IsFiniteSet({f \in relations : f.to = node})
        <5>1. {f \in relations : f.to = node} \in SUBSET Members(Facts) /\ IsFiniteSet(Members(Facts))
          BY RelationTypes
        <5> QED BY <5>1, FS_Subset
      <4> QED BY <3>1, <4>1, FS_CardinalityType
    <3> QED BY <1>4, <2>5, <3>1, <3>2, <3>3
  <2> QED BY <1>1, <1>4, <1>5, <1>7, <2>7, <2>8, <2>9
<1> QED BY <1>6, <1>7

LEMMA ImpactRunsIs ==
  ASSUME ReadModelsTypes, NEW s \in Subjects
  PROVE  /\ ImpactRuns(s)[0] = [stack |-> <<s>>, found |-> {}]
         /\ \A n \in 1..(Len(Facts) + 1) : ImpactRuns(s)[n] =
              IF ImpactRuns(s)[n-1].stack = << >>
              THEN ImpactRuns(s)[n-1]
              ELSE Visit(ImpactRuns(s)[n-1])
         /\ \A n \in 0..(Len(Facts) + 1) : ImpactRuns(s)[n] \in Dfs
<1> DEFINE k == (Len(Facts) + 1)
           V == Dfs
           first == [stack |-> <<s>>, found |-> {}]
           Step(n, dfs) == IF dfs.stack = << >> THEN dfs ELSE Visit(dfs)
           Is(f) == f = [n \in 0..k |-> IF n = 0 THEN first ELSE Step(n, f[n-1])]
<1>1. ImpactRuns(s) = CHOOSE f : Is(f)
  BY DEF ImpactRuns
<1>2. k \in Nat /\ first \in V
  <2>1. Len(Facts) \in Nat
    BY RelationTypes
  <2>2. <<s>> \in Seq(Subjects)
    OBVIOUS
  <2> QED BY <2>1, <2>2 DEF Dfs
<1>3. ASSUME NEW n \in 1..k, NEW dfs \in V PROVE Step(n, dfs) \in V
  <2>1. dfs.stack # << >> => Visit(dfs) \in Dfs
    BY <1>3, VisitIs
  <2> QED BY <1>3, <2>1
<1> HIDE DEF k, V, first, Step
<1>4. \E f : Is(f)
  <2> DEFINE next == [n \in 1..k |-> [v \in V |-> Step(n, v)]]
  <2>1. next \in [1..k -> [V -> V]] /\ \A n \in 1..k, v \in V : next[n][v] = Step(n, v)
    BY <1>3
  <2> HIDE DEF next
  <2>2. PICK f \in [0..k -> V] : f[0] = first /\ \A n \in 1..k : f[n] = next[n][f[n-1]]
    <3>1. \E f \in [0..k -> V] : Follows(f, k, first, next)
      BY <1>2, <2>1, Recursion
    <3> QED BY <3>1 DEF Follows
  <2>3. ASSUME NEW n \in 0..k PROVE f[n] = IF n = 0 THEN first ELSE Step(n, f[n-1])
    BY <1>2, <2>1, <2>2
  <2>4. Is(f)
    BY <2>3
  <2> QED BY <2>4
<1>5. PICK g : Is(g) /\ ImpactRuns(s) = g
  BY <1>1, <1>4
<1>6. g[0] = first
  BY <1>2, <1>5
<1>7. \A n \in 1..k : g[n] = Step(n, g[n-1])
  BY <1>2, <1>5
<1>8. \A n \in 0..k : g[n] \in V
  BY <1>2, <1>3, <1>6, <1>7, RecursionStays
<1>9. ASSUME NEW n \in 1..k
      PROVE  ImpactRuns(s)[n] =
             IF ImpactRuns(s)[n-1].stack = << >>
             THEN ImpactRuns(s)[n-1]
             ELSE Visit(ImpactRuns(s)[n-1])
  <2>1. PICK v : v = g[n-1]
    OBVIOUS
  <2>2. g[n] = IF v.stack = << >> THEN v ELSE Visit(v)
    BY <1>7, <2>1 DEF Step
  <2> QED BY <1>5, <2>1, <2>2
<1> QED BY <1>5, <1>6, <1>8, <1>9 DEF k, V, first

\* The relations that were followed, of which none can be followed twice.
Spent(found) == {f \in relations : f.to \in found}

LEMMA SpentIs ==
  ASSUME ReadModelsTypes, NEW found
  PROVE  /\ IsFiniteSet(Spent(found)) /\ Cardinality(Spent(found)) \in Nat
         /\ Cardinality(Spent(found)) <= Len(Facts)
         /\ \A node : node \notin found =>
              Cardinality(Spent(found \cup {node})) =
                Cardinality(Spent(found)) + Cardinality({f \in relations : f.to = node})
<1>1. IsFiniteSet(Members(Facts)) /\ Cardinality(Members(Facts)) = Len(Facts)
  BY RelationTypes
<1>2. \A F \in SUBSET relations : /\ IsFiniteSet(F) /\ Cardinality(F) \in Nat
                                 /\ Cardinality(F) <= Len(Facts)
  <2>1. relations \subseteq Members(Facts)
    BY RelationTypes
  <2> QED BY <1>1, <2>1, FS_Subset, FS_CardinalityType
<1>3. Spent(found) \in SUBSET relations
  BY DEF Spent
<1>4. ASSUME NEW node, node \notin found
      PROVE  Cardinality(Spent(found \cup {node})) =
               Cardinality(Spent(found)) + Cardinality({f \in relations : f.to = node})
  <2>1. PICK A, B, C : /\ A = Spent(found) /\ B = {f \in relations : f.to = node}
                       /\ C = Spent(found \cup {node})
    OBVIOUS
  <2>2. A \in SUBSET relations /\ B \in SUBSET relations
    BY <2>1 DEF Spent
  <2>3. C = A \cup B /\ A \cap B = {}
    BY <1>4, <2>1 DEF Spent
  <2>4. Cardinality(A \cup B) = Cardinality(A) + Cardinality(B) - Cardinality(A \cap B)
    BY <1>2, <2>2, FS_Union
  <2>5. Cardinality(A \cap B) = 0
    BY <2>3, FS_EmptySet
  <2>6. Cardinality(A) \in Nat /\ Cardinality(B) \in Nat
    BY <1>2, <2>2
  <2>7. Cardinality(C) = Cardinality(A) + Cardinality(B)
    BY <2>3, <2>4, <2>5, <2>6
  <2> QED BY <2>1, <2>7
<1> QED BY <1>2, <1>3, <1>4

\* What the walk has found and what it still has on its stack: all within reach,
\* and all that supports what is found.
Reaches(dfs, s, W) ==
  /\ s \in dfs.found \cup Members(dfs.stack)
  /\ dfs.found \cup Members(dfs.stack) \subseteq W
  /\ \A y \in dfs.found : Supporters[y] \subseteq dfs.found \cup Members(dfs.stack)

LEMMA VisitReaches ==
  ASSUME ReadModelsTypes, NEW dfs \in Dfs, dfs.stack # << >>, NEW s, NEW W \in SUBSET Subjects,
         \A y \in Subjects : y \in W => Supporters[y] \subseteq W, Reaches(dfs, s, W)
  PROVE  Reaches(Visit(dfs), s, W)
<1>1. PICK node, next : node = Top(dfs.stack) /\ next = Visit(dfs)
  OBVIOUS
<1>2. /\ next \in Dfs /\ node \in Subjects /\ node \in Members(dfs.stack)
      /\ next.found = dfs.found \cup {node}
      /\ node \in dfs.found =>
           next.found \cup Members(next.stack) = dfs.found \cup Members(dfs.stack)
      /\ node \notin dfs.found =>
           next.found \cup Members(next.stack) =
             dfs.found \cup Members(dfs.stack) \cup Supporters[node]
  BY <1>1, VisitIs
<1>3. PICK all, more : all = dfs.found \cup Members(dfs.stack) /\ more = next.found \cup Members(next.stack)
  OBVIOUS
<1>4. /\ s \in all /\ all \subseteq W /\ node \in all
      /\ \A y \in dfs.found : Supporters[y] \subseteq all
  BY <1>2, <1>3 DEF Reaches
<1>5. all \subseteq more /\ more \subseteq W
  BY <1>2, <1>3, <1>4
<1>6. \A y \in next.found : Supporters[y] \subseteq more
  BY <1>2, <1>3, <1>4, <1>5
<1> QED BY <1>1, <1>3, <1>4, <1>5, <1>6 DEF Reaches

LEMMA ImpactIs ==
  ASSUME ReadModelsTypes, NEW s \in Subjects
  PROVE  ImpactOf(s) = Within(s)[Many] \ {s}
<1> DEFINE k == Len(Facts) + 1
<1>1. PICK R, W : R = ImpactRuns(s) /\ W = Within(s)[Many]
  OBVIOUS
<1>2. /\ R[0] = [stack |-> <<s>>, found |-> {}]
      /\ \A n \in 1..k : R[n] = IF R[n-1].stack = << >> THEN R[n-1] ELSE Visit(R[n-1])
      /\ \A n \in 0..k : R[n] \in Dfs
  BY <1>1, ImpactRunsIs
<1>3. k \in Nat /\ Len(Facts) \in Nat /\ k = Len(Facts) + 1
  BY RelationTypes
<1>4. W \in SUBSET Subjects /\ s \in W /\ \A y \in Subjects : y \in W => Supporters[y] \subseteq W
  <2>1. Many \in Nat /\ Supporters \in [Subjects -> SUBSET Subjects]
    BY SubjectsFinite, Edges
  <2>2. IsLevels(Within(s), Supporters, s, Many)
    BY WithinLevels
  <2>3. \A n \in 0..Many : s \in Within(s)[n]
    BY <2>1, <2>2, LevelsGrow
  <2>4. Within(s)[Many] \subseteq Subjects
    BY WithinLevels
  <2>5. \A y \in Subjects : y \in Within(s)[Many] => Supporters[y] \subseteq Within(s)[Many]
    BY WithinLevels
  <2> QED BY <1>1, <2>1, <2>3, <2>4, <2>5
<1> HIDE DEF k
<1> DEFINE Ends(dfs, n) == dfs.stack # << >> =>
             n + Len(dfs.stack) <= 1 + Cardinality(Spent(dfs.found))
           Good == {n \in 0..k : Reaches(R[n], s, W) /\ Ends(R[n], n)}
<1>5. 0 \in Good
  <2>1. PICK dfs : dfs = R[0]
    OBVIOUS
  <2>2. dfs.stack = <<s>> /\ dfs.found = {} /\ Members(<<s>>) = {s} /\ Len(<<s>>) = 1
    BY <1>2, <2>1 DEF Members
  <2>3. Reaches(dfs, s, W)
    BY <1>4, <2>2 DEF Reaches
  <2>4. Cardinality(Spent(dfs.found)) \in Nat
    BY SpentIs
  <2>5. Ends(dfs, 0)
    BY <2>2, <2>4
  <2> QED BY <1>3, <2>1, <2>3, <2>5
<1>6. ASSUME NEW n \in 0..(k-1), n \in Good PROVE n + 1 \in Good
  <2>1. n + 1 \in 1..k /\ n + 1 \in 0..k /\ (n + 1) - 1 = n
    BY <1>3
  <2>2. PICK dfs, next : dfs = R[n] /\ next = R[n+1]
    OBVIOUS
  <2>3. /\ dfs \in Dfs /\ next = IF dfs.stack = << >> THEN dfs ELSE Visit(dfs)
        /\ Reaches(dfs, s, W) /\ Ends(dfs, n)
    BY <1>2, <1>6, <2>1, <2>2
  <2>4. CASE dfs.stack = << >>
    BY <2>1, <2>2, <2>3, <2>4
  <2>5. CASE dfs.stack # << >>
    <3>1. next = Visit(dfs)
      BY <2>3, <2>5
    <3>2. Reaches(next, s, W)
      BY <1>4, <2>3, <2>5, <3>1, VisitReaches
    <3>3. PICK node : node = Top(dfs.stack)
      OBVIOUS
    <3>4. /\ next.found = dfs.found \cup {node} /\ next \in Dfs
          /\ node \in dfs.found => Len(next.stack) = Len(dfs.stack) - 1
          /\ node \notin dfs.found =>
               Len(next.stack) <= Len(dfs.stack) - 1 + Cardinality({f \in relations : f.to = node})
      BY <2>3, <2>5, <3>1, <3>3, VisitIs
    <3>5. PICK a, b, c, d, e :
            /\ a = Cardinality(Spent(dfs.found)) /\ b = Cardinality(Spent(next.found))
            /\ c = Cardinality({f \in relations : f.to = node})
            /\ d = Len(dfs.stack) /\ e = Len(next.stack)
      OBVIOUS
    <3>6. a \in Nat /\ b \in Nat
      BY <3>5, SpentIs
    <3>7. d \in Nat /\ e \in Nat
      BY <2>3, <3>4, <3>5, LenProperties DEF Dfs
    <3>8. n + d <= 1 + a
      BY <2>3, <2>5, <3>5
    <3>9. n + 1 + e <= 1 + b
      <4>1. CASE node \in dfs.found
        <5>1. next.found = dfs.found
          BY <3>4, <4>1
        <5>2. a = b /\ e = d - 1
          BY <3>4, <3>5, <4>1, <5>1
        <5> QED BY <3>6, <3>7, <3>8, <5>2
      <4>2. CASE node \notin dfs.found
        <5>1. b = a + c /\ e <= d - 1 + c
          <6>1. Cardinality(Spent(dfs.found \cup {node})) =
                  Cardinality(Spent(dfs.found)) + Cardinality({f \in relations : f.to = node})
            BY <4>2, SpentIs
          <6> QED BY <3>4, <3>5, <4>2, <6>1
        <5>2. c \in Nat
          <6>1. {f \in relations : f.to = node} = Spent({node})
            BY DEF Spent
          <6> QED BY <3>5, <6>1, SpentIs
        <5> QED BY <3>6, <3>7, <3>8, <5>1, <5>2
      <4> QED BY <4>1, <4>2
    <3>10. Ends(next, n + 1)
      BY <3>5, <3>9
    <3> QED BY <2>1, <2>2, <3>2, <3>10
  <2> QED BY <2>4, <2>5
<1>7. k \in Good
  <2> HIDE DEF Good
  <2>1. \A n \in 0..k : n \in Good
    BY <1>3, <1>5, <1>6, InductionUpTo
  <2> QED BY <1>3, <2>1
<1>8. PICK dfs : dfs = R[k]
  OBVIOUS
<1>9. dfs \in Dfs /\ Reaches(dfs, s, W) /\ Ends(dfs, k)
  BY <1>2, <1>3, <1>7, <1>8
<1>10. dfs.stack = << >>
  <2> SUFFICES ASSUME dfs.stack # << >> PROVE FALSE
    OBVIOUS
  <2>1. Len(dfs.stack) \in Nat /\ Len(dfs.stack) # 0
    BY <1>9, LenProperties, EmptySeq DEF Dfs
  <2>2. Cardinality(Spent(dfs.found)) \in Nat /\ Cardinality(Spent(dfs.found)) <= Len(Facts)
    BY SpentIs
  <2>3. k + Len(dfs.stack) <= 1 + Cardinality(Spent(dfs.found))
    BY <1>9
  <2>4. PICK a, b : a = Len(dfs.stack) /\ b = Cardinality(Spent(dfs.found))
    OBVIOUS
  <2>5. /\ a \in Nat /\ a # 0 /\ b \in Nat /\ b <= Len(Facts)
        /\ k + a <= 1 + b /\ Len(Facts) \in Nat /\ k = Len(Facts) + 1
    BY <1>3, <2>1, <2>2, <2>3, <2>4
  <2> QED BY <2>5
<1>11. Members(<< >>) = {}
  BY DEF Members
<1>12. s \in dfs.found /\ dfs.found \subseteq W /\ \A y \in dfs.found : Supporters[y] \subseteq dfs.found
  BY <1>9, <1>10, <1>11 DEF Reaches
<1>13. W \subseteq dfs.found
  <2>1. Many \in Nat /\ Supporters \in [Subjects -> SUBSET Subjects]
    BY SubjectsFinite, Edges
  <2>2. IsLevels(Within(s), Supporters, s, Many)
    BY WithinLevels
  <2>3. PICK C : C = dfs.found
    OBVIOUS
  <2>4. s \in C /\ \A y \in Subjects : y \in C => Supporters[y] \subseteq C
    BY <1>12, <2>3
  <2>5. \A n \in 0..Many : Within(s)[n] \subseteq C
    BY <2>1, <2>2, <2>4, LevelsInside
  <2> QED BY <1>1, <2>1, <2>3, <2>5
<1>14. ImpactOf(s) = dfs.found \ {s}
  BY <1>1, <1>8 DEF ImpactOf, k
<1> QED BY <1>1, <1>12, <1>13, <1>14

\* The impact analysis, in a state of the right types.
LEMMA AnalysisIsExplicit ==
  ASSUME ReadModelsTypes
  PROVE  ImpactIsExplicit
<1> DEFINE Explicit(s, a) ==
             LET sections == UNION {a.section[k] : k \in AnalysedKinds}
             IN /\ a.impacted = Within(s)[Many] \ {s}
                /\ a.direct \subseteq a.impacted \cup {s}
                /\ a.impacted \subseteq sections \cup a.unknown
                /\ sections \cap a.unknown = {}
                /\ \A j, k \in AnalysedKinds : j # k => a.section[j] \cap a.section[k] = {}
<1> SUFFICES ASSUME NEW s \in subjects PROVE Explicit(s, ImpactAnalysis(s))
  BY DEF ImpactIsExplicit
<1>1. s \in Subjects
  BY DEF ReadModelsTypes
<1>2. PICK a, I, W : a = ImpactAnalysis(s) /\ I = ImpactOf(s) /\ W = Within(s)[Many]
  OBVIOUS
<1>3. I = W \ {s}
  BY <1>1, <1>2, ImpactIs
<1>4. /\ a.impacted = I /\ a.direct = DirectDependents(s)
      /\ a.section = [k \in AnalysedKinds |-> {x \in I \cup {s} : Kind[x] = k}]
      /\ a.unknown = {x \in I : Kind[x] \notin AnalysedKinds}
  BY <1>2 DEF ImpactAnalysis, UnknownImpact
<1>5. DirectDependents(s) \subseteq W
  <2>1. /\ s \in W /\ Supporters[s] \subseteq W
    <3>1. Many \in Nat /\ Supporters \in [Subjects -> SUBSET Subjects]
      BY SubjectsFinite, Edges
    <3>2. IsLevels(Within(s), Supporters, s, Many)
      BY <1>1, WithinLevels
    <3>3. \A n \in 0..Many : s \in Within(s)[n]
      BY <1>1, <3>1, <3>2, LevelsGrow
    <3>4. \A y \in Subjects : y \in Within(s)[Many] => Supporters[y] \subseteq Within(s)[Many]
      BY <1>1, WithinLevels
    <3> QED BY <1>1, <1>2, <3>1, <3>3, <3>4
  <2> QED BY <1>1, <2>1 DEF Supporters, DirectDependents
<1>6. PICK section : section = a.section
  OBVIOUS
<1>7. \A k \in AnalysedKinds : section[k] = {x \in I \cup {s} : Kind[x] = k}
  BY <1>4, <1>6
<1>8. UNION {section[k] : k \in AnalysedKinds} = {x \in I \cup {s} : Kind[x] \in AnalysedKinds}
  BY <1>7
<1>9. \A j, k \in AnalysedKinds : j # k => section[j] \cap section[k] = {}
  BY <1>7
<1> HIDE DEF AnalysedKinds
<1>10. a.impacted = W \ {s} /\ a.direct \subseteq a.impacted \cup {s}
  BY <1>3, <1>4, <1>5
<1>11. PICK sections : sections = UNION {a.section[k] : k \in AnalysedKinds}
  OBVIOUS
<1>12. sections = {x \in I \cup {s} : Kind[x] \in AnalysedKinds}
  BY <1>6, <1>8, <1>11
<1>13. a.impacted \subseteq sections \cup a.unknown /\ sections \cap a.unknown = {}
  <2>1. PICK unknown : unknown = a.unknown
    OBVIOUS
  <2>2. unknown = {x \in I : Kind[x] \notin AnalysedKinds} /\ a.impacted = I
    BY <1>4, <2>1
  <2>3. I \subseteq sections \cup unknown /\ sections \cap unknown = {}
    BY <1>12, <2>2
  <2> QED BY <2>1, <2>2, <2>3
<1>14. \A j, k \in AnalysedKinds : j # k => a.section[j] \cap a.section[k] = {}
  BY <1>6, <1>9
<1>15. Explicit(s, a)
  BY <1>2, <1>10, <1>11, <1>13, <1>14, Zenon
<1> QED BY <1>2, <1>15

-----------------------------------------------------------------------------
(* Walks with a queue, whose n-th step takes the n-th of all that was put in *)
(* the queue.                                                                *)

\* The depths are in order, and after n steps at most one more than the next.
Walked(Q, D, N, G, root, n) ==
  /\ IsQueue(Q, D, N, G, root)
  /\ \A i, j \in 1..N : i <= j => D[i] <= D[j]
  /\ n < N => D[N] <= D[n+1] + 1

\* The j-th has put in the queue what it leads to, unless it was there.
Spreads(Q, D, N, G, j) == \A x \in G[Q[j]] : \E i \in 1..N : Q[i] = x /\ D[i] <= D[j] + 1

LEMMA QueueStays ==
  ASSUME NEW N \in Nat, NEW Q, NEW D \in [1..N -> Nat], NEW G, NEW root, NEW n \in Nat,
         Walked(Q, D, N, G, root, n)
  PROVE  Walked(Q, D, N, G, root, n + 1)
<1>1. /\ IsQueue(Q, D, N, G, root)
      /\ \A i, j \in 1..N : i <= j => D[i] <= D[j]
      /\ n < N => D[N] <= D[n+1] + 1
  BY DEF Walked
<1>2. ASSUME n + 1 < N PROVE D[N] <= D[n+1+1] + 1
  <2>1. n + 1 \in 1..N /\ n + 1 + 1 \in 1..N /\ N \in 1..N /\ n + 1 <= n + 1 + 1 /\ n < N
    BY <1>2
  <2>2. D[n+1] \in Nat /\ D[n+1+1] \in Nat /\ D[N] \in Nat /\ D[n+1] <= D[n+1+1]
    BY <1>1, <2>1
  <2> QED BY <1>1, <2>1, <2>2
<1> QED BY <1>1, <1>2 DEF Walked

\* The p-th has put in the queue what it leads to and was not in it.
Grows(Q, D, N, P, E, M, G, p) ==
  /\ N <= M
  /\ \A i \in 1..N : P[i] = Q[i] /\ E[i] = D[i]
  /\ \A i \in 1..M : i > N => P[i] \in G[Q[p]] /\ E[i] = D[p] + 1
  /\ \A i, j \in 1..M : i > N /\ P[i] = P[j] => i = j
  /\ \A x \in G[Q[p]] : \E i \in 1..M : P[i] = x

LEMMA QueueGrows ==
  ASSUME NEW T, NEW G, NEW root,
         NEW N, NEW Q, NEW D, QueueTypes(Q, D, N, T),
         NEW M, NEW P, NEW E, QueueTypes(P, E, M, T),
         NEW n \in Nat, n + 1 \in 1..N, Walked(Q, D, N, G, root, n),
         Grows(Q, D, N, P, E, M, G, n + 1)
  PROVE  /\ Walked(P, E, M, G, root, n + 1)
         /\ Spreads(P, E, M, G, n + 1)
         /\ \A j \in 1..N : Spreads(Q, D, N, G, j) => Spreads(P, E, M, G, j)
<1> DEFINE p == n + 1
<1> USE DEF Grows, QueueTypes
<1>1. /\ IsQueue(Q, D, N, G, root)
      /\ \A i, j \in 1..N : i <= j => D[i] <= D[j]
      /\ D[N] <= D[p] + 1
  BY DEF Walked
<1>2. /\ N # 0 /\ Q[1] = root /\ D[1] = 0
      /\ \A i, j \in 1..N : Q[i] = Q[j] => i = j
      /\ \A i \in 1..N : i # 1 => \E j \in 1..N : j < i /\ Q[i] \in G[Q[j]] /\ D[i] = D[j] + 1
  BY <1>1 DEF IsQueue
<1>3. /\ \A i \in 1..N : D[i] \in Nat /\ D[i] <= D[N]
      /\ D[p] \in Nat /\ N \in 1..N /\ \A i \in 1..N : i \in 1..M
  BY <1>1, <1>2
<1>4. \A i \in 1..M : i \in 1..N \/ i > N
  OBVIOUS
<1>5. IsQueue(P, E, M, G, root)
  <2>1. M # 0 /\ P[1] = root /\ E[1] = 0
    BY <1>2, <1>3
  <2>2. ASSUME NEW i \in 1..M, NEW j \in 1..M, P[i] = P[j] PROVE i = j
    <3>1. CASE i > N
      BY <2>2, <3>1
    <3>2. CASE j > N
      <4>1. j = i
        BY <2>2, <3>2
      <4> QED BY <4>1
    <3>3. CASE i \in 1..N /\ j \in 1..N
      BY <1>2, <2>2, <3>3
    <3> QED BY <1>4, <3>1, <3>2, <3>3
  <2>3. ASSUME NEW i \in 1..M, i # 1
        PROVE  \E j \in 1..M : j < i /\ P[i] \in G[P[j]] /\ E[i] = E[j] + 1
    <3>1. CASE i \in 1..N
      <4>1. PICK j \in 1..N : j < i /\ Q[i] \in G[Q[j]] /\ D[i] = D[j] + 1
        BY <1>2, <2>3, <3>1
      <4> QED BY <1>3, <3>1, <4>1
    <3>2. CASE i > N
      <4>1. p \in 1..M /\ p < i /\ P[p] = Q[p] /\ E[p] = D[p]
        BY <1>3, <3>2
      <4>2. P[i] \in G[Q[p]] /\ E[i] = D[p] + 1
        BY <3>2
      <4> QED BY <4>1, <4>2
    <3> QED BY <1>4, <3>1, <3>2
  <2> QED BY <2>1, <2>2, <2>3 DEF IsQueue
<1>6. ASSUME NEW i \in 1..M, NEW j \in 1..M, i <= j PROVE E[i] <= E[j]
  <2>1. CASE j \in 1..N
    BY <1>1, <1>6, <2>1
  <2>2. CASE i > N
    <3>1. j > N /\ E[i] \in Nat
      BY <1>6, <2>2
    <3> QED BY <1>3, <2>2, <3>1
  <2>3. CASE i \in 1..N /\ j > N
    BY <1>1, <1>3, <2>3
  <2> QED BY <1>4, <2>1, <2>2, <2>3
<1>7. ASSUME p < M PROVE E[M] <= E[p+1] + 1
  <2>1. p + 1 \in 1..M /\ M \in 1..M
    BY <1>7
  <2>2. E[M] <= D[p] + 1 /\ E[M] \in Nat
    <3>1. CASE M > N
      BY <1>3, <2>1, <3>1
    <3>2. CASE M = N
      BY <1>1, <1>3, <2>1, <3>2
    <3> QED BY <3>1, <3>2
  <2>3. D[p] <= E[p+1] /\ E[p+1] \in Nat
    <3>1. p \in 1..M /\ p <= p + 1 /\ E[p] = D[p]
      BY <1>3
    <3>2. E[p] <= E[p+1]
      BY <1>6, <2>1, <3>1
    <3> QED BY <2>1, <3>1, <3>2
  <2> QED BY <1>3, <2>2, <2>3
<1>8. Walked(P, E, M, G, root, p)
  BY <1>5, <1>6, <1>7 DEF Walked
<1>9. Spreads(P, E, M, G, p)
  <2>1. P[p] = Q[p] /\ E[p] = D[p]
    OBVIOUS
  <2>2. ASSUME NEW x \in G[Q[p]] PROVE \E i \in 1..M : P[i] = x /\ E[i] <= D[p] + 1
    <3>1. PICK i \in 1..M : P[i] = x
      OBVIOUS
    <3>2. E[i] <= D[p] + 1
      <4>1. CASE i \in 1..N
        <5>1. E[i] = D[i] /\ D[i] <= D[N] /\ D[i] \in Nat /\ D[N] \in Nat
          BY <1>3, <4>1
        <5> QED BY <1>1, <1>3, <5>1
      <4>2. CASE i > N
        BY <1>3, <4>2
      <4> QED BY <1>4, <4>1, <4>2
    <3> QED BY <3>1, <3>2
  <2> QED BY <2>1, <2>2 DEF Spreads
<1>10. ASSUME NEW j \in 1..N, Spreads(Q, D, N, G, j) PROVE Spreads(P, E, M, G, j)
  <2>1. P[j] = Q[j] /\ E[j] = D[j]
    OBVIOUS
  <2>2. ASSUME NEW x \in G[Q[j]] PROVE \E i \in 1..M : P[i] = x /\ E[i] <= D[j] + 1
    <3>1. PICK i \in 1..N : Q[i] = x /\ D[i] <= D[j] + 1
      BY <1>10 DEF Spreads
    <3>2. i \in 1..M /\ P[i] = x /\ E[i] <= D[j] + 1
      BY <1>3, <3>1
    <3> QED BY <3>2
  <2> QED BY <2>1, <2>2 DEF Spreads
<1> QED BY <1>8, <1>9, <1>10

\* No queue is longer than there are nodes.
LEMMA QueueIsShort ==
  ASSUME NEW T, IsFiniteSet(T), NEW N \in Nat, NEW Q \in [1..N -> T],
         NEW D \in [1..N -> Nat], NEW G, NEW root, IsQueue(Q, D, N, G, root)
  PROVE  N <= Cardinality(T) /\ \A i \in 1..N : D[i] < i
<1>1. /\ N # 0 /\ Q[1] = root /\ D[1] = 0
      /\ \A i, j \in 1..N : Q[i] = Q[j] => i = j
      /\ \A i \in 1..N : i # 1 => \E j \in 1..N : j < i /\ Q[i] \in G[Q[j]] /\ D[i] = D[j] + 1
  BY DEF IsQueue
<1>2. N <= Cardinality(T)
  <2>1. Q \in Injection(1..N, T)
    BY <1>1 DEF Injection, IsInjective
  <2>2. Cardinality(1..N) <= Cardinality(T)
    BY <2>1, FS_Injection
  <2>3. Cardinality(1..N) = N
    BY <1>1, FS_Interval
  <2> QED BY <2>2, <2>3
<1> DEFINE Deep == {i \in 1..N : ~(D[i] < i)}
<1>3. Deep = {}
  <2> SUFFICES ASSUME Deep # {} PROVE FALSE
    OBVIOUS
  <2>1. Deep \in SUBSET Nat
    OBVIOUS
  <2>2. PICK i \in Deep : \A j \in Deep : ~(j < i)
    BY <2>1, Least
  <2>3. i # 1
    BY <1>1, <2>2
  <2>4. PICK j \in 1..N : j < i /\ D[i] = D[j] + 1
    BY <1>1, <2>2, <2>3
  <2>5. D[j] < j /\ D[j] \in Nat /\ D[i] \in Nat
    BY <2>2, <2>4
  <2> QED BY <2>2, <2>4, <2>5
<1> QED BY <1>2, <1>3

-----------------------------------------------------------------------------
(* why_path.                                                                *)

Link == [depth : Nat, kind : Kinds, from : Subjects, to : Subjects]
Relation(link) == [from |-> link.from, kind |-> link.kind, to |-> link.to]

LEMMA PlaceIs ==
  ASSUME NEW order, Distinct(order), NEW x \in Members(order)
  PROVE  Place(order, x) \in DOMAIN order /\ order[Place(order, x)] = x
<1>1. \E i \in DOMAIN order : order[i] = x
  BY DEF Members
<1> QED BY <1>1 DEF Place

\* Each supporter that is new has one relation that is the first.
LEMMA FirstOfEachIs ==
  ASSUME ReadModelsTypes, NEW s \in Subjects, NEW visited
  PROVE  /\ FirstOfEach(s, visited) \subseteq relations
         /\ \A f \in FirstOfEach(s, visited) : f.to = s /\ f.from \notin visited
         /\ \A f, g \in FirstOfEach(s, visited) : f.from = g.from => f = g
         /\ \A x \in Supporters[s] \ visited : \E f \in FirstOfEach(s, visited) : f.from = x
<1>1. /\ BySupport \in Seq(Fact) /\ Distinct(BySupport) /\ relations \subseteq Members(BySupport)
      /\ DOMAIN BySupport = 1..Len(BySupport) /\ Len(BySupport) \in Nat
  BY ReadModelsAssumption, RelationTypes, LenProperties
<1>2. PICK place : place = [f \in relations |-> Place(BySupport, f)]
  OBVIOUS
<1>3. \A f \in relations : /\ Place(BySupport, f) = place[f] /\ place[f] \in 1..Len(BySupport)
                           /\ BySupport[place[f]] = f
  BY <1>1, <1>2, PlaceIs
<1>4. FirstOfEach(s, visited) =
        {f \in relations : /\ f.to = s /\ f.from \notin visited
                           /\ \A g \in relations : g.to = s /\ g.from = f.from => place[f] <= place[g]}
  BY <1>3 DEF FirstOfEach
<1>5. PICK F : F = FirstOfEach(s, visited)
  OBVIOUS
<1>6. \A f \in F : f \in relations /\ f.to = s /\ f.from \notin visited
  BY <1>4, <1>5
<1>7. ASSUME NEW f \in F, NEW g \in F, f.from = g.from PROVE f = g
  <2>1. place[f] <= place[g] /\ place[g] <= place[f] /\ f \in relations /\ g \in relations
    BY <1>4, <1>5, <1>7
  <2>2. place[f] = place[g]
    BY <1>1, <1>3, <2>1
  <2> QED BY <1>3, <2>1, <2>2
<1>8. ASSUME NEW x \in Supporters[s] \ visited PROVE \E f \in F : f.from = x
  <2> DEFINE All == {f \in relations : f.to = s /\ f.from = x}
             Places == {place[f] : f \in All}
  <2>1. \E f \in All : TRUE
    BY DEF Supporters
  <2>2. Places \in SUBSET Nat /\ Places # {}
    BY <1>1, <1>3, <2>1
  <2>3. PICK n \in Places : \A m \in Places : ~(m < n)
    BY <2>2, Least
  <2>4. PICK f \in All : place[f] = n
    BY <2>3
  <2>5. ASSUME NEW g \in relations, g.to = s, g.from = f.from PROVE place[f] <= place[g]
    <3>1. place[g] \in Places /\ f \in relations
      BY <2>4, <2>5
    <3>2. ~(place[g] < place[f]) /\ place[g] \in Nat /\ place[f] \in Nat
      BY <1>1, <1>3, <2>3, <2>4, <3>1
    <3> QED BY <3>2
  <2>6. f \in F
    BY <1>4, <1>5, <1>8, <2>4, <2>5
  <2> QED BY <2>4, <2>6
<1> QED BY <1>5, <1>6, <1>7, <1>8

LEMMA LinksToIs ==
  ASSUME ReadModelsTypes, NEW taken, taken.subject \in Subjects, taken.depth \in Nat, NEW visited
  PROVE  LET links == LinksTo(taken, visited)
         IN /\ links \in Seq(Link)
            /\ \A i \in 1..Len(links) :
                 /\ links[i].depth = taken.depth + 1 /\ links[i].to = taken.subject
                 /\ links[i].from \notin visited /\ Relation(links[i]) \in relations
            /\ \A i, j \in 1..Len(links) : links[i].from = links[j].from => i = j
            /\ \A x \in Supporters[taken.subject] \ visited : \E i \in 1..Len(links) : links[i].from = x
<1>1. PICK s, d, F : s = taken.subject /\ d = taken.depth /\ F = FirstOfEach(s, visited)
  OBVIOUS
<1>2. s \in Subjects /\ d \in Nat
  BY <1>1
<1>3. /\ F \subseteq relations
      /\ \A f \in F : f.to = s /\ f.from \notin visited
      /\ \A f, g \in F : f.from = g.from => f = g
      /\ \A x \in Supporters[s] \ visited : \E f \in F : f.from = x
  BY <1>1, <1>2, FirstOfEachIs
<1>4. BySupport \in Seq(Fact) /\ Distinct(BySupport) /\ relations \subseteq Members(BySupport)
  BY ReadModelsAssumption, RelationTypes
<1>5. PICK new : new = In(BySupport, F)
  OBVIOUS
<1>6. new \in Seq(Fact) /\ Members(new) = F /\ Distinct(new)
  <2>1. /\ In(BySupport, F) \in Seq(Fact) /\ Members(In(BySupport, F)) = Members(BySupport) \cap F
        /\ Distinct(In(BySupport, F))
    BY <1>4, InIs
  <2> QED BY <1>3, <1>4, <1>5, <2>1
<1>7. /\ Len(new) \in Nat /\ DOMAIN new = 1..Len(new)
      /\ \A i \in 1..Len(new) : new[i] \in F
      /\ \A f \in F : \E i \in 1..Len(new) : new[i] = f
      /\ \A i, j \in 1..Len(new) : new[i] = new[j] => i = j
  BY <1>6, LenProperties DEF Members, Distinct
<1>8. \A f \in F : /\ f \in relations /\ f.from \in Subjects /\ f.kind \in Kinds /\ f.to = s
                   /\ f = [from |-> f.from, kind |-> f.kind, to |-> f.to]
  BY <1>3, RelationTypes
<1>9. PICK links : links = LinksTo(taken, visited)
  OBVIOUS
<1>10. links = [i \in 1..Len(new) |-> [depth |-> d + 1, kind |-> new[i].kind,
                                       from |-> new[i].from, to |-> new[i].to]]
  BY <1>1, <1>5, <1>7, <1>9 DEF LinksTo
<1>11. \A i \in 1..Len(new) : links[i] = [depth |-> d + 1, kind |-> new[i].kind,
                                          from |-> new[i].from, to |-> new[i].to]
  BY <1>10
<1>12. ASSUME NEW i \in 1..Len(new)
       PROVE  /\ links[i] \in Link /\ links[i].depth = d + 1 /\ links[i].to = s
              /\ links[i].from = new[i].from /\ Relation(links[i]) = new[i]
  <2>1. PICK f, l : f = new[i] /\ l = links[i]
    OBVIOUS
  <2>2. l = [depth |-> d + 1, kind |-> f.kind, from |-> f.from, to |-> f.to] /\ f \in F
    BY <1>7, <1>11, <2>1
  <2>3. /\ f.from \in Subjects /\ f.kind \in Kinds /\ f.to = s
        /\ f = [from |-> f.from, kind |-> f.kind, to |-> f.to]
    BY <1>8, <2>2
  <2>4. l \in Link /\ l.depth = d + 1 /\ l.to = s /\ l.from = f.from /\ Relation(l) = f
    BY <1>2, <2>2, <2>3 DEF Link, Relation
  <2> QED BY <2>1, <2>4
<1>13. links \in Seq(Link) /\ Len(links) = Len(new)
  <2>1. Len(new) \in Nat /\ links \in [1..Len(new) -> Link]
    BY <1>7, <1>10, <1>12
  <2> QED BY <2>1
<1>14. ASSUME NEW i \in 1..Len(new)
       PROVE  links[i].from \notin visited /\ Relation(links[i]) \in relations
  BY <1>3, <1>7, <1>12
<1>15. ASSUME NEW i \in 1..Len(new), NEW j \in 1..Len(new), links[i].from = links[j].from PROVE i = j
  <2>1. new[i].from = new[j].from /\ new[i] \in F /\ new[j] \in F
    BY <1>7, <1>12, <1>15
  <2>2. new[i] = new[j]
    BY <1>3, <2>1
  <2> QED BY <1>7, <2>2
<1>16. ASSUME NEW x \in Supporters[s] \ visited PROVE \E i \in 1..Len(new) : links[i].from = x
  <2>1. PICK f \in F : f.from = x
    BY <1>3
  <2>2. PICK i \in 1..Len(new) : new[i] = f
    BY <1>7
  <2> QED BY <1>12, <2>1, <2>2
<1>17. s = taken.subject /\ d = taken.depth
  BY <1>1
<1> HIDE DEF Relation
<1> QED BY <1>9, <1>12, <1>13, <1>14, <1>15, <1>16, <1>17

\* The queue of the walk, and the depths in it.
WhyQueue(s, links) == [i \in 1..(Len(links) + 1) |-> IF i = 1 THEN s ELSE links[i-1].from]
WhyDepths(links) == [i \in 1..(Len(links) + 1) |-> IF i = 1 THEN 0 ELSE links[i-1].depth]

LEMMA WhyQueueIs ==
  ASSUME NEW s \in Subjects, NEW links \in Seq(Link)
  PROVE  /\ Len(links) \in Nat /\ DOMAIN links = 1..Len(links)
         /\ \A i \in 1..Len(links) : links[i] \in Link /\ links[i].from \in Subjects /\ links[i].depth \in Nat
         /\ WhyQueue(s, links) \in [1..(Len(links) + 1) -> Subjects]
         /\ WhyDepths(links) \in [1..(Len(links) + 1) -> Nat]
         /\ WhyQueue(s, links)[1] = s /\ WhyDepths(links)[1] = 0
         /\ \A i \in 1..Len(links) : /\ WhyQueue(s, links)[i+1] = links[i].from
                                     /\ WhyDepths(links)[i+1] = links[i].depth
         /\ \A n \in 1..(Len(links) + 1) : /\ Taken(s, links, n).subject = WhyQueue(s, links)[n]
                                           /\ Taken(s, links, n).depth = WhyDepths(links)[n]
         /\ \A x \in Subjects : \A n : x \in Visited(s, links, n) <=>
              \E i \in 1..(Len(links) + 1) : WhyQueue(s, links)[i] = x
<1>1. /\ Len(links) \in Nat /\ DOMAIN links = 1..Len(links)
      /\ \A i \in 1..Len(links) : links[i] \in Link
  BY LenProperties, ElementOfSeq
<1>2. \A i \in 1..Len(links) : links[i].from \in Subjects /\ links[i].depth \in Nat
  BY <1>1 DEF Link
<1>3. PICK k : k = Len(links) + 1
  OBVIOUS
<1>4. k \in Nat /\ 1 \in 1..k /\ \A i \in 1..k : i # 1 => i - 1 \in 1..Len(links)
  BY <1>1, <1>3
<1>5. \A i \in 1..Len(links) : i + 1 \in 1..k /\ i + 1 # 1 /\ (i + 1) - 1 = i
  BY <1>1, <1>3
<1>6. PICK Q, D : Q = WhyQueue(s, links) /\ D = WhyDepths(links)
  OBVIOUS
<1>7. Q = [i \in 1..k |-> IF i = 1 THEN s ELSE links[i-1].from]
  BY <1>3, <1>6 DEF WhyQueue
<1>8. D = [i \in 1..k |-> IF i = 1 THEN 0 ELSE links[i-1].depth]
  BY <1>3, <1>6 DEF WhyDepths
<1>9. Q \in [1..k -> Subjects] /\ D \in [1..k -> Nat]
  BY <1>2, <1>4, <1>7, <1>8
<1>10. Q[1] = s /\ D[1] = 0
  BY <1>4, <1>7, <1>8
<1>11. \A i \in 1..Len(links) : Q[i+1] = links[i].from /\ D[i+1] = links[i].depth
  BY <1>5, <1>7, <1>8
<1>12. ASSUME NEW n \in 1..k PROVE Taken(s, links, n).subject = Q[n] /\ Taken(s, links, n).depth = D[n]
  <2>1. Q[n] = (IF n = 1 THEN s ELSE links[n-1].from) /\ D[n] = IF n = 1 THEN 0 ELSE links[n-1].depth
    BY <1>7, <1>8
  <2> QED BY <2>1 DEF Taken
<1>13. ASSUME NEW x \in Subjects, NEW n
       PROVE  x \in Visited(s, links, n) <=> \E i \in 1..k : Q[i] = x
  <2>1. x \in Visited(s, links, n) <=> x = s \/ \E i \in 1..Len(links) : links[i].from = x
    BY <1>1 DEF Visited
  <2>2. ASSUME NEW i \in 1..k, Q[i] = x PROVE x = s \/ \E j \in 1..Len(links) : links[j].from = x
    <3>1. CASE i = 1
      BY <1>10, <2>2, <3>1
    <3>2. CASE i # 1
      <4>1. i - 1 \in 1..Len(links) /\ Q[i] = links[i-1].from
        BY <1>4, <1>7, <3>2
      <4> QED BY <2>2, <4>1
    <3> QED BY <3>1, <3>2
  <2>3. ASSUME x = s \/ \E j \in 1..Len(links) : links[j].from = x PROVE \E i \in 1..k : Q[i] = x
    BY <1>4, <1>5, <1>10, <1>11, <2>3
  <2> QED BY <2>1, <2>2, <2>3
<1> QED BY <1>1, <1>2, <1>3, <1>6, <1>9, <1>10, <1>11, <1>12, <1>13

LEMMA WhyRunsIs ==
  ASSUME ReadModelsTypes, NEW s \in Subjects, NEW maxDepth \in Nat
  PROVE  /\ WhyRuns(s, maxDepth)[0] = << >>
         /\ \A n \in 1..Len(Order) : WhyRuns(s, maxDepth)[n] =
              IF n > Len(WhyRuns(s, maxDepth)[n-1]) + 1
                 \/ Taken(s, WhyRuns(s, maxDepth)[n-1], n).depth >= maxDepth
              THEN WhyRuns(s, maxDepth)[n-1]
              ELSE WhyRuns(s, maxDepth)[n-1]
                   \o LinksTo(Taken(s, WhyRuns(s, maxDepth)[n-1], n),
                              Visited(s, WhyRuns(s, maxDepth)[n-1], n))
         /\ \A n \in 0..Len(Order) : WhyRuns(s, maxDepth)[n] \in Seq(Link)
<1> DEFINE k == Len(Order)
           V == Seq(Link)
           first == << >>
           Step(n, links) == IF n > Len(links) + 1 \/ Taken(s, links, n).depth >= maxDepth THEN links
              ELSE links \o LinksTo(Taken(s, links, n), Visited(s, links, n))
           Is(f) == f = [n \in 0..k |-> IF n = 0 THEN first ELSE Step(n, f[n-1])]
<1>1. WhyRuns(s, maxDepth) = CHOOSE f : Is(f)
  BY DEF WhyRuns
<1>2. k \in Nat /\ first \in V
  <2>1. Len(Order) \in Nat
    BY SubjectsFinite
  <2> QED BY <2>1
<1>3. ASSUME NEW n \in 1..k, NEW links \in V PROVE Step(n, links) \in V
  <2>1. CASE n > Len(links) + 1 \/ Taken(s, links, n).depth >= maxDepth
    BY <1>3, <2>1
  <2>2. CASE ~(n > Len(links) + 1 \/ Taken(s, links, n).depth >= maxDepth)
    <3>1. n \in 1..(Len(links) + 1)
      BY <1>2, <1>3, <2>2, LenProperties
    <3>2. Taken(s, links, n).subject \in Subjects /\ Taken(s, links, n).depth \in Nat
      <4>1. PICK Q, D : Q = WhyQueue(s, links) /\ D = WhyDepths(links)
        OBVIOUS
      <4>2. /\ Q \in [1..(Len(links) + 1) -> Subjects] /\ D \in [1..(Len(links) + 1) -> Nat]
            /\ Taken(s, links, n).subject = Q[n] /\ Taken(s, links, n).depth = D[n]
        BY <1>3, <3>1, <4>1, WhyQueueIs
      <4> QED BY <3>1, <4>2
    <3>3. PICK more : more = LinksTo(Taken(s, links, n), Visited(s, links, n))
      OBVIOUS
    <3>4. more \in Seq(Link)
      BY <3>2, <3>3, LinksToIs
    <3>5. links \o more \in Seq(Link)
      BY <1>3, <3>4, Joined
    <3> QED BY <2>2, <3>3, <3>5
  <2> QED BY <2>1, <2>2
<1> HIDE DEF k, V, first, Step
<1>4. \E f : Is(f)
  <2> DEFINE next == [n \in 1..k |-> [v \in V |-> Step(n, v)]]
  <2>1. next \in [1..k -> [V -> V]] /\ \A n \in 1..k, v \in V : next[n][v] = Step(n, v)
    BY <1>3
  <2> HIDE DEF next
  <2>2. PICK f \in [0..k -> V] : f[0] = first /\ \A n \in 1..k : f[n] = next[n][f[n-1]]
    <3>1. \E f \in [0..k -> V] : Follows(f, k, first, next)
      BY <1>2, <2>1, Recursion
    <3> QED BY <3>1 DEF Follows
  <2>3. ASSUME NEW n \in 0..k PROVE f[n] = IF n = 0 THEN first ELSE Step(n, f[n-1])
    BY <1>2, <2>1, <2>2
  <2>4. Is(f)
    BY <2>3
  <2> QED BY <2>4
<1>5. PICK g : Is(g) /\ WhyRuns(s, maxDepth) = g
  BY <1>1, <1>4
<1>6. g[0] = first
  BY <1>2, <1>5
<1>7. \A n \in 1..k : g[n] = Step(n, g[n-1])
  BY <1>2, <1>5
<1>8. \A n \in 0..k : g[n] \in V
  BY <1>2, <1>3, <1>6, <1>7, RecursionStays
<1>9. ASSUME NEW n \in 1..k
      PROVE  WhyRuns(s, maxDepth)[n] =
             IF n > Len(WhyRuns(s, maxDepth)[n-1]) + 1
                \/ Taken(s, WhyRuns(s, maxDepth)[n-1], n).depth >= maxDepth
             THEN WhyRuns(s, maxDepth)[n-1]
              ELSE WhyRuns(s, maxDepth)[n-1]
                   \o LinksTo(Taken(s, WhyRuns(s, maxDepth)[n-1], n),
                              Visited(s, WhyRuns(s, maxDepth)[n-1], n))
  <2>1. PICK v : v = g[n-1]
    OBVIOUS
  <2>2. g[n] = IF n > Len(v) + 1 \/ Taken(s, v, n).depth >= maxDepth THEN v
              ELSE v \o LinksTo(Taken(s, v, n), Visited(s, v, n))
    BY <1>7, <2>1 DEF Step
  <2> QED BY <1>5, <2>1, <2>2
<1> QED BY <1>5, <1>6, <1>8, <1>9 DEF k, V, first

\* After n steps.
WhyHas(s, maxDepth, links, n) ==
  LET Q == WhyQueue(s, links)
      D == WhyDepths(links)
      N == Len(links) + 1
  IN /\ Walked(Q, D, N, Supporters, s, n)
     /\ \A i \in 1..N : D[i] <= maxDepth
     /\ \A j \in 1..N : j <= n /\ D[j] < maxDepth => Spreads(Q, D, N, Supporters, j)
     /\ \A i \in 1..Len(links) :
          /\ Relation(links[i]) \in relations
          /\ \E j \in 1..N : Q[j] = links[i].to /\ D[j] + 1 = links[i].depth

LEMMA WhyStep ==
  ASSUME ReadModelsTypes, NEW s \in Subjects, NEW maxDepth \in Nat, NEW n \in Nat,
         NEW old \in Seq(Link), WhyHas(s, maxDepth, old, n), NEW new,
         new = IF n + 1 > Len(old) + 1 \/ Taken(s, old, n + 1).depth >= maxDepth THEN old
               ELSE old \o LinksTo(Taken(s, old, n + 1), Visited(s, old, n + 1))
  PROVE  WhyHas(s, maxDepth, new, n + 1)
<1>1. PICK Q, D, N, G : Q = WhyQueue(s, old) /\ D = WhyDepths(old) /\ N = Len(old) + 1 /\ G = Supporters
  OBVIOUS
<1>2. /\ Walked(Q, D, N, G, s, n)
      /\ \A i \in 1..N : D[i] <= maxDepth
      /\ \A j \in 1..N : j <= n /\ D[j] < maxDepth => Spreads(Q, D, N, G, j)
      /\ \A i \in 1..Len(old) : /\ Relation(old[i]) \in relations
                                /\ \E j \in 1..N : Q[j] = old[i].to /\ D[j] + 1 = old[i].depth
  BY <1>1 DEF WhyHas
<1>3. /\ Len(old) \in Nat /\ N \in Nat /\ Q \in [1..N -> Subjects] /\ D \in [1..N -> Nat]
      /\ \A i \in 1..N : Taken(s, old, i).subject = Q[i] /\ Taken(s, old, i).depth = D[i]
      /\ \A x \in Subjects : \A i : x \in Visited(s, old, i) <=> \E j \in 1..N : Q[j] = x
  BY <1>1, WhyQueueIs
<1>4. PICK p : p = n + 1
  OBVIOUS
<1>5. G \in [Subjects -> SUBSET Subjects]
  BY <1>1, Edges
<1>6. CASE ~(p \in 1..N /\ D[p] < maxDepth)
  <2>1. new = old
    <3>1. n + 1 > N \/ Taken(s, old, n + 1).depth >= maxDepth
      <4>1. CASE p \notin 1..N
        BY <1>3, <1>4, <4>1
      <4>2. CASE p \in 1..N /\ ~(D[p] < maxDepth)
        <5>1. Taken(s, old, p).depth = D[p] /\ D[p] \in Nat
          BY <1>3, <4>2
        <5> QED BY <1>4, <4>2, <5>1
      <4> QED BY <1>6, <4>1, <4>2
    <3> QED BY <1>1, <3>1
  <2>2. Walked(Q, D, N, G, s, p)
    BY <1>2, <1>3, <1>4, QueueStays
  <2>3. \A j \in 1..N : j <= p /\ D[j] < maxDepth => Spreads(Q, D, N, G, j)
    <3>1. ASSUME NEW j \in 1..N, j <= p, D[j] < maxDepth PROVE Spreads(Q, D, N, G, j)
      <4>1. j # p
        BY <1>6, <3>1
      <4>2. j <= n
        BY <1>4, <3>1, <4>1
      <4> QED BY <1>2, <3>1, <4>2
    <3> QED BY <3>1
  <2> QED BY <1>1, <1>2, <1>4, <2>1, <2>2, <2>3 DEF WhyHas
<1>7. CASE p \in 1..N /\ D[p] < maxDepth
  <2>1. PICK taken, visited, more :
          taken = Taken(s, old, p) /\ visited = Visited(s, old, p) /\ more = LinksTo(taken, visited)
    OBVIOUS
  <2>2. /\ taken.subject = Q[p] /\ taken.depth = D[p] /\ Q[p] \in Subjects /\ D[p] \in Nat
        /\ \A x \in Subjects : x \in visited <=> \E j \in 1..N : Q[j] = x
    BY <1>3, <1>7, <2>1
  <2>3. new = old \o more
    <3>1. ~(n + 1 > N \/ Taken(s, old, n + 1).depth >= maxDepth)
      BY <1>3, <1>4, <1>7, <2>1, <2>2
    <3> QED BY <1>1, <1>4, <2>1, <3>1
  <2>4. /\ more \in Seq(Link)
        /\ \A i \in 1..Len(more) :
             /\ more[i].depth = D[p] + 1 /\ more[i].to = Q[p]
             /\ more[i].from \notin visited /\ Relation(more[i]) \in relations
        /\ \A i, j \in 1..Len(more) : more[i].from = more[j].from => i = j
        /\ \A x \in G[Q[p]] \ visited : \E i \in 1..Len(more) : more[i].from = x
    <3>1. taken.subject \in Subjects /\ taken.depth \in Nat
      BY <2>2
    <3>2. /\ more \in Seq(Link)
          /\ \A i \in 1..Len(more) :
               /\ more[i].depth = taken.depth + 1 /\ more[i].to = taken.subject
               /\ more[i].from \notin visited /\ Relation(more[i]) \in relations
          /\ \A i, j \in 1..Len(more) : more[i].from = more[j].from => i = j
          /\ \A x \in Supporters[taken.subject] \ visited : \E i \in 1..Len(more) : more[i].from = x
      BY <2>1, <3>1, LinksToIs
    <3> QED BY <1>1, <2>2, <3>2
  <2>5. /\ new \in Seq(Link) /\ Len(new) = Len(old) + Len(more)
        /\ \A i \in 1..Len(old) : new[i] = old[i]
        /\ \A i \in 1..Len(more) : new[Len(old) + i] = more[i]
        /\ \A i \in 1..(Len(old) + Len(more)) :
             i \in 1..Len(old) \/ (i - Len(old) \in 1..Len(more) /\ new[i] = more[i - Len(old)])
    <3>1. more \in Seq(Link)
      BY <2>4
    <3>2. PICK first : first = old
      OBVIOUS
    <3>3. first \in Seq(Link)
      BY <3>2
    <3>4. /\ first \o more \in Seq(Link) /\ Len(first \o more) = Len(first) + Len(more)
          /\ \A i \in 1..Len(first) : (first \o more)[i] = first[i]
          /\ \A i \in 1..Len(more) : (first \o more)[Len(first) + i] = more[i]
          /\ \A i \in 1..(Len(first) + Len(more)) :
               i \in 1..Len(first)
               \/ (i - Len(first) \in 1..Len(more) /\ (first \o more)[i] = more[i - Len(first)])
      BY <3>1, <3>3, Joined
    <3> QED BY <2>3, <3>2, <3>4
  <2>6. PICK P, E, M : P = WhyQueue(s, new) /\ E = WhyDepths(new) /\ M = Len(new) + 1
    OBVIOUS
  <2>7. /\ Len(new) \in Nat /\ M \in Nat /\ P \in [1..M -> Subjects] /\ E \in [1..M -> Nat]
        /\ P[1] = s /\ E[1] = 0
        /\ \A i \in 1..Len(new) : P[i+1] = new[i].from /\ E[i+1] = new[i].depth
    <3>1. new \in Seq(Link)
      BY <2>5
    <3>2. /\ Len(new) \in Nat
          /\ WhyQueue(s, new) \in [1..(Len(new) + 1) -> Subjects]
          /\ WhyDepths(new) \in [1..(Len(new) + 1) -> Nat]
          /\ WhyQueue(s, new)[1] = s /\ WhyDepths(new)[1] = 0
          /\ \A i \in 1..Len(new) : /\ WhyQueue(s, new)[i+1] = new[i].from
                                    /\ WhyDepths(new)[i+1] = new[i].depth
      BY <3>1, WhyQueueIs
    <3> QED BY <2>6, <3>2
  <2>8. /\ Q[1] = s /\ D[1] = 0
        /\ \A i \in 1..Len(old) : Q[i+1] = old[i].from /\ D[i+1] = old[i].depth
    BY <1>1, WhyQueueIs
  <2>9. Len(more) \in Nat /\ N <= M /\ M = N + Len(more)
    BY <1>1, <1>3, <2>4, <2>5, <2>6, LenProperties
  <2>10. ASSUME NEW i \in 1..N PROVE P[i] = Q[i] /\ E[i] = D[i]
    <3>1. CASE i = 1
      BY <2>7, <2>8, <3>1
    <3>2. CASE i # 1
      <4>1. i - 1 \in 1..Len(old) /\ (i - 1) + 1 = i /\ i - 1 \in 1..Len(new)
        BY <1>1, <1>3, <2>5, <2>9, <3>2
      <4>2. new[i-1] = old[i-1]
        BY <2>5, <4>1
      <4>3. P[i] = new[i-1].from /\ E[i] = new[i-1].depth
        BY <2>7, <4>1
      <4>4. Q[i] = old[i-1].from /\ D[i] = old[i-1].depth
        BY <2>8, <4>1
      <4> QED BY <4>2, <4>3, <4>4
    <3> QED BY <3>1, <3>2
  <2>11. ASSUME NEW i \in 1..M, i > N
         PROVE  i - N \in 1..Len(more) /\ P[i] = more[i-N].from /\ E[i] = more[i-N].depth
    <3>1. i - 1 \in 1..(Len(old) + Len(more)) /\ (i - 1) - Len(old) = i - N /\ i - 1 \notin 1..Len(old)
      BY <1>1, <1>3, <2>9, <2>11
    <3>2. i - N \in 1..Len(more) /\ new[i-1] = more[i-N]
      BY <2>5, <3>1
    <3>3. i - 1 \in 1..Len(new) /\ (i - 1) + 1 = i
      BY <2>5, <3>1
    <3>4. P[i] = new[i-1].from /\ E[i] = new[i-1].depth
      BY <2>7, <3>3
    <3> QED BY <3>2, <3>4
  <2>12. \A i \in 1..M : i > N => P[i] \in G[Q[p]] /\ E[i] = D[p] + 1 /\ P[i] \notin visited
    <3>1. ASSUME NEW i \in 1..M, i > N PROVE P[i] \in G[Q[p]] /\ E[i] = D[p] + 1 /\ P[i] \notin visited
      <4>1. PICK l : l = more[i-N]
        OBVIOUS
      <4>2. /\ P[i] = l.from /\ E[i] = l.depth /\ l.depth = D[p] + 1 /\ l.to = Q[p]
            /\ l.from \notin visited /\ Relation(l) \in relations
        BY <2>4, <2>11, <3>1, <4>1
      <4>3. PICK f \in relations : f = Relation(l)
        BY <4>2
      <4>4. f.from = P[i] /\ f.to = Q[p]
        BY <4>2, <4>3 DEF Relation
      <4>5. P[i] \in Subjects
        BY <2>7
      <4>6. P[i] \in G[Q[p]]
        BY <1>1, <2>2, <4>3, <4>4, <4>5, Edges
      <4> QED BY <4>2, <4>6
    <3> QED BY <3>1
  <2>13. \A i, j \in 1..M : i > N /\ P[i] = P[j] => i = j
    <3>1. ASSUME NEW i \in 1..M, NEW j \in 1..M, i > N, P[i] = P[j] PROVE i = j
      <4>1. CASE j > N
        <5>1. more[i-N].from = more[j-N].from /\ i - N \in 1..Len(more) /\ j - N \in 1..Len(more)
          BY <2>11, <3>1, <4>1
        <5>2. i - N = j - N
          BY <2>4, <5>1
        <5> QED BY <1>3, <5>2
      <4>2. CASE ~(j > N)
        <5>1. j \in 1..N /\ P[j] = Q[j] /\ P[i] \in Subjects
          BY <1>3, <2>7, <2>10, <4>2
        <5>2. P[i] \in visited
          BY <2>2, <3>1, <5>1
        <5> QED BY <2>12, <3>1, <5>2
      <4> QED BY <4>1, <4>2
    <3> QED BY <3>1
  <2>14. \A x \in G[Q[p]] : \E i \in 1..M : P[i] = x
    <3>1. ASSUME NEW x \in G[Q[p]] PROVE \E i \in 1..M : P[i] = x
      <4>0. x \in Subjects
        BY <1>5, <2>2
      <4>1. CASE x \in visited
        <5>1. PICK j \in 1..N : Q[j] = x
          BY <2>2, <4>0, <4>1
        <5>2. j \in 1..M /\ P[j] = x
          BY <1>3, <2>7, <2>9, <2>10, <5>1
        <5> QED BY <5>2
      <4>2. CASE x \notin visited
        <5>1. PICK i \in 1..Len(more) : more[i].from = x
          BY <2>4, <4>2
        <5>2. N + i \in 1..M /\ N + i > N /\ (N + i) - N = i
          BY <1>3, <2>9
        <5>3. P[N+i] = x
          BY <2>11, <5>1, <5>2
        <5> QED BY <5>2, <5>3
      <4> QED BY <4>1, <4>2
    <3> QED BY <3>1
  <2>15. /\ Walked(P, E, M, G, s, p)
         /\ Spreads(P, E, M, G, p)
         /\ \A j \in 1..N : Spreads(Q, D, N, G, j) => Spreads(P, E, M, G, j)
    <3>1. \A i \in 1..N : P[i] = Q[i] /\ E[i] = D[i]
      BY <2>10
    <3>2. \A i \in 1..M : i > N => P[i] \in G[Q[p]] /\ E[i] = D[p] + 1
      BY <2>12
    <3>3. QueueTypes(Q, D, N, Subjects)
      BY <1>3 DEF QueueTypes
    <3>4. QueueTypes(P, E, M, Subjects)
      BY <2>7 DEF QueueTypes
    <3>5. n + 1 \in 1..N /\ Walked(Q, D, N, G, s, n)
      BY <1>2, <1>4, <1>7
    <3>6. Grows(Q, D, N, P, E, M, G, n + 1)
      <4>1. Grows(Q, D, N, P, E, M, G, p)
        BY <2>9, <2>13, <2>14, <3>1, <3>2 DEF Grows
      <4> QED BY <1>4, <4>1
    <3>7. /\ Walked(P, E, M, G, s, n + 1)
          /\ Spreads(P, E, M, G, n + 1)
          /\ \A j \in 1..N : Spreads(Q, D, N, G, j) => Spreads(P, E, M, G, j)
      BY <3>3, <3>4, <3>5, <3>6, QueueGrows
    <3> QED BY <1>4, <3>7
  <2>16. \A i \in 1..M : E[i] <= maxDepth
    <3>1. ASSUME NEW i \in 1..M PROVE E[i] <= maxDepth
      <4>1. CASE i \in 1..N
        BY <1>2, <2>10, <4>1
      <4>2. CASE i > N
        BY <1>7, <2>2, <2>12, <4>2
      <4> QED BY <1>3, <4>1, <4>2
    <3> QED BY <3>1
  <2>17. \A j \in 1..M : j <= p /\ E[j] < maxDepth => Spreads(P, E, M, G, j)
    <3>1. ASSUME NEW j \in 1..M, j <= p, E[j] < maxDepth PROVE Spreads(P, E, M, G, j)
      <4>1. j \in 1..N
        BY <1>3, <1>7, <3>1
      <4>2. CASE j = p
        BY <2>15, <4>2
      <4>3. CASE j # p
        <5>1. j <= n /\ D[j] < maxDepth
          BY <1>4, <2>10, <3>1, <4>1, <4>3
        <5> QED BY <1>2, <2>15, <4>1, <5>1
      <4> QED BY <4>2, <4>3
    <3> QED BY <3>1
  <2>18. ASSUME NEW i \in 1..Len(new)
         PROVE  /\ Relation(new[i]) \in relations
                /\ \E j \in 1..M : P[j] = new[i].to /\ E[j] + 1 = new[i].depth
    <3>1. CASE i \in 1..Len(old)
      <4>1. new[i] = old[i] /\ Relation(old[i]) \in relations
        BY <1>2, <2>5, <3>1
      <4>2. PICK j \in 1..N : Q[j] = old[i].to /\ D[j] + 1 = old[i].depth
        BY <1>2, <3>1
      <4>3. j \in 1..M /\ P[j] = Q[j] /\ E[j] = D[j]
        BY <1>3, <2>7, <2>9, <2>10
      <4> QED BY <4>1, <4>2, <4>3
    <3>2. CASE i \notin 1..Len(old)
      <4>1. i - Len(old) \in 1..Len(more) /\ new[i] = more[i - Len(old)]
        BY <2>5, <3>2
      <4>2. new[i].depth = D[p] + 1 /\ new[i].to = Q[p] /\ Relation(new[i]) \in relations
        BY <2>4, <4>1
      <4>3. p \in 1..M /\ P[p] = Q[p] /\ E[p] = D[p]
        BY <1>3, <1>7, <2>7, <2>9, <2>10
      <4> QED BY <4>2, <4>3
    <3> QED BY <3>1, <3>2
  <2> QED BY <1>1, <1>4, <2>6, <2>15, <2>16, <2>17, <2>18 DEF WhyHas
<1> QED BY <1>6, <1>7

LEMMA WhyStarts ==
  ASSUME ReadModelsTypes, NEW s \in Subjects, NEW maxDepth \in Nat
  PROVE  WhyHas(s, maxDepth, << >>, 0)
<1>1. PICK none : none = << >>
  OBVIOUS
<1>2. none \in Seq(Link) /\ Len(none) = 0
  BY <1>1
<1>3. PICK Q, D, N : Q = WhyQueue(s, none) /\ D = WhyDepths(none) /\ N = Len(none) + 1
  OBVIOUS
<1>4. N = 1 /\ Q \in [1..N -> Subjects] /\ D \in [1..N -> Nat] /\ Q[1] = s /\ D[1] = 0
  <2>1. none \in Seq(Link)
    BY <1>2
  <2>2. /\ WhyQueue(s, none) \in [1..(Len(none) + 1) -> Subjects]
        /\ WhyDepths(none) \in [1..(Len(none) + 1) -> Nat]
        /\ WhyQueue(s, none)[1] = s /\ WhyDepths(none)[1] = 0
    BY <2>1, WhyQueueIs
  <2> QED BY <1>2, <1>3, <2>2
<1>5. \A i \in 1..N : i = 1
  BY <1>4
<1>6. IsQueue(Q, D, N, Supporters, s)
  BY <1>4, <1>5 DEF IsQueue
<1>7. Walked(Q, D, N, Supporters, s, 0)
  BY <1>4, <1>5, <1>6 DEF Walked
<1>8. /\ \A i \in 1..N : D[i] <= maxDepth
      /\ \A j \in 1..N : j <= 0 /\ D[j] < maxDepth => Spreads(Q, D, N, Supporters, j)
  BY <1>4, <1>5
<1>9. 1..Len(none) = {}
  BY <1>2
<1>10. WhyHas(s, maxDepth, none, 0)
  BY <1>3, <1>7, <1>8, <1>9 DEF WhyHas
<1> QED BY <1>1, <1>10

LEMMA WhyEnds ==
  ASSUME ReadModelsTypes, NEW s \in Subjects, NEW maxDepth \in Nat
  PROVE  /\ WhyPath(s, maxDepth) \in Seq(Link)
         /\ WhyHas(s, maxDepth, WhyPath(s, maxDepth), Many)
<1>1. PICK R : R = WhyRuns(s, maxDepth)
  OBVIOUS
<1>2. Many \in Nat /\ Many = Len(Order)
  BY SubjectsFinite
<1>3. /\ R[0] = << >>
      /\ \A n \in 1..Many :
           R[n] = IF n > Len(R[n-1]) + 1 \/ Taken(s, R[n-1], n).depth >= maxDepth THEN R[n-1]
                  ELSE R[n-1] \o LinksTo(Taken(s, R[n-1], n), Visited(s, R[n-1], n))
      /\ \A n \in 0..Many : R[n] \in Seq(Link)
  <2>1. /\ WhyRuns(s, maxDepth)[0] = << >>
        /\ \A n \in 0..Len(Order) : WhyRuns(s, maxDepth)[n] \in Seq(Link)
    BY WhyRunsIs
  <2>2. \A n \in 1..Len(Order) : WhyRuns(s, maxDepth)[n] =
          IF n > Len(WhyRuns(s, maxDepth)[n-1]) + 1
             \/ Taken(s, WhyRuns(s, maxDepth)[n-1], n).depth >= maxDepth
          THEN WhyRuns(s, maxDepth)[n-1]
          ELSE WhyRuns(s, maxDepth)[n-1] \o
                 LinksTo(Taken(s, WhyRuns(s, maxDepth)[n-1], n), Visited(s, WhyRuns(s, maxDepth)[n-1], n))
    BY WhyRunsIs
  <2> QED BY <1>1, <1>2, <2>1, <2>2
<1> DEFINE Good == {n \in 0..Many : WhyHas(s, maxDepth, R[n], n)}
<1>4. 0 \in Good
  BY <1>2, <1>3, WhyStarts
<1>5. ASSUME NEW n \in 0..(Many-1), n \in Good PROVE n + 1 \in Good
  <2>1. n + 1 \in 1..Many /\ n + 1 \in 0..Many /\ n \in 0..Many /\ (n + 1) - 1 = n /\ n \in Nat
    BY <1>2
  <2>2. PICK old, new : old = R[n] /\ new = R[n+1]
    OBVIOUS
  <2>3. old \in Seq(Link) /\ WhyHas(s, maxDepth, old, n)
    BY <1>3, <1>5, <2>1, <2>2
  <2>4. new = IF n + 1 > Len(old) + 1 \/ Taken(s, old, n + 1).depth >= maxDepth THEN old
              ELSE old \o LinksTo(Taken(s, old, n + 1), Visited(s, old, n + 1))
    BY <1>3, <2>1, <2>2
  <2>5. WhyHas(s, maxDepth, new, n + 1)
    BY <2>1, <2>3, <2>4, WhyStep
  <2> QED BY <2>1, <2>2, <2>5
<1>6. Many \in Good
  <2> HIDE DEF Good
  <2>1. \A n \in 0..Many : n \in Good
    BY <1>2, <1>4, <1>5, InductionUpTo
  <2> QED BY <1>2, <2>1
<1>7. WhyPath(s, maxDepth) = R[Many]
  BY <1>1, <1>2 DEF WhyPath
<1> QED BY <1>2, <1>3, <1>6, <1>7

LEMMA WhyIs ==
  ASSUME ReadModelsTypes, NEW s \in Subjects, NEW d \in 0..Many
  PROVE  LET links == WhyPath(s, d)
             W == Within(s)
         IN /\ Len(links) \in Nat /\ DOMAIN links = 1..Len(links)
            /\ \A i, j \in 1..Len(links) : links[i].from = links[j].from => i = j
            /\ \A i \in 1..Len(links) : links[i].from \in W[d] /\ links[i].from # s
            /\ \A x \in W[d] : x # s => \E i \in 1..Len(links) : links[i].from = x
            /\ \A i \in 1..Len(links) : links[i].depth = Distance(links[i].from, s)
            /\ \A i \in 1..Len(links) : Relation(links[i]) \in relations
            /\ d = 1 => \A i \in 1..Len(links) : links[i].to = s
<1>1. PICK links, W : links = WhyPath(s, d) /\ W = Within(s)
  OBVIOUS
<1>2. Many \in Nat /\ d \in Nat /\ d <= Many /\ IsFiniteSet(Subjects) /\ Many = Cardinality(Subjects)
  BY SubjectsFinite DEF Many
<1>3. links \in Seq(Link) /\ WhyHas(s, d, links, Many)
  BY <1>1, <1>2, WhyEnds
<1>4. PICK Q, D, N, G : Q = WhyQueue(s, links) /\ D = WhyDepths(links) /\ N = Len(links) + 1 /\ G = Supporters
  OBVIOUS
<1>5. /\ Walked(Q, D, N, G, s, Many)
      /\ \A i \in 1..N : D[i] <= d
      /\ \A j \in 1..N : j <= Many /\ D[j] < d => Spreads(Q, D, N, G, j)
      /\ \A i \in 1..Len(links) : /\ Relation(links[i]) \in relations
                                  /\ \E j \in 1..N : Q[j] = links[i].to /\ D[j] + 1 = links[i].depth
  BY <1>3, <1>4 DEF WhyHas
<1>6. /\ Len(links) \in Nat /\ DOMAIN links = 1..Len(links)
      /\ N \in Nat /\ Q \in [1..N -> Subjects] /\ D \in [1..N -> Nat]
      /\ Q[1] = s /\ D[1] = 0
      /\ \A i \in 1..Len(links) : i + 1 \in 1..N /\ Q[i+1] = links[i].from /\ D[i+1] = links[i].depth
  <2>1. /\ Len(links) \in Nat /\ DOMAIN links = 1..Len(links)
        /\ Q \in [1..(Len(links) + 1) -> Subjects] /\ D \in [1..(Len(links) + 1) -> Nat]
        /\ Q[1] = s /\ D[1] = 0
        /\ \A i \in 1..Len(links) : Q[i+1] = links[i].from /\ D[i+1] = links[i].depth
    BY <1>3, <1>4, WhyQueueIs
  <2> QED BY <1>4, <2>1
<1>7. G \in [Subjects -> SUBSET Subjects] /\ IsLevels(W, G, s, Many)
  BY <1>1, <1>4, Edges, WithinLevels
<1>8. IsQueue(Q, D, N, G, s)
  BY <1>5 DEF Walked
<1>9. N <= Many
  BY <1>2, <1>6, <1>8, QueueIsShort
<1>10. Spread(Q, D, N, G, d)
  <2>1. ASSUME NEW j \in 1..N, D[j] < d PROVE Spreads(Q, D, N, G, j)
    <3>1. j <= Many
      BY <1>2, <1>6, <1>9
    <3> QED BY <1>5, <2>1, <3>1
  <2> QED BY <2>1 DEF Spread, Spreads
<1>11. /\ \A n \in 0..d : \A x \in W[n] : \E i \in 1..N : Q[i] = x /\ D[i] <= n
       /\ \A i \in 1..N : D[i] <= Many => Q[i] \in W[D[i]]
       /\ \A i \in 1..N : D[i] <= d => \A n \in 0..Many : Q[i] \in W[n] => D[i] <= n
  <2>0. QueueTypes(Q, D, N, Subjects)
    BY <1>6 DEF QueueTypes
  <2>1. \A n \in 0..d : \A x \in W[n] : \E i \in 1..N : Q[i] = x /\ D[i] <= n
    BY <1>2, <1>7, <1>8, <1>10, <2>0, QueueLevels
  <2>2. \A i \in 1..N : D[i] <= Many => Q[i] \in W[D[i]]
    BY <1>2, <1>7, <1>8, <1>10, <2>0, QueueLevels
  <2>3. \A i \in 1..N : D[i] <= d => \A n \in 0..Many : Q[i] \in W[n] => D[i] <= n
    BY <1>2, <1>7, <1>8, <1>10, <2>0, QueueLevels
  <2> QED BY <2>1, <2>2, <2>3
<1>12. /\ \A i, j \in 1..N : Q[i] = Q[j] => i = j
       /\ N # 0
       /\ \A i \in 1..N : i # 1 => \E j \in 1..N : j < i /\ D[i] = D[j] + 1
  BY <1>8 DEF IsQueue
<1>13. ASSUME NEW i \in 1..Len(links), NEW j \in 1..Len(links), links[i].from = links[j].from
      PROVE  i = j
  <2>1. i + 1 \in 1..N /\ j + 1 \in 1..N /\ Q[i+1] = Q[j+1]
    BY <1>6, <1>13
  <2>2. i + 1 = j + 1
    BY <1>12, <2>1
  <2> QED BY <1>6, <2>2
<1>14. ASSUME NEW i \in 1..Len(links)
       PROVE  /\ links[i].from \in W[d] /\ links[i].from # s
              /\ links[i].depth = Distance(links[i].from, s)
  <2>1. PICK k \in 1..N : k = i + 1
    BY <1>6
  <2>2. Q[k] = links[i].from /\ D[k] = links[i].depth /\ k # 1 /\ 1 \in 1..N
    BY <1>6, <1>12, <2>1
  <2>3. Q[k] # s
    BY <1>6, <1>12, <2>2
  <2>4. D[k] \in 0..Many /\ D[k] <= d /\ D[k] \in Nat
    BY <1>2, <1>5, <1>6
  <2>5. Q[k] \in W[D[k]]
    BY <1>11, <2>4
  <2>6. W[D[k]] \subseteq W[d]
    <3>1. \A n, m \in 0..Many : m <= n => W[m] \subseteq W[n]
      BY <1>2, <1>7, LevelsGrow
    <3> QED BY <2>4, <3>1
  <2>7. Distance(Q[k], s) = D[k]
    <3>1. PICK x, n : x = Q[k] /\ n = D[k]
      OBVIOUS
    <3>2. n \in Nat /\ n <= Many /\ x \in Within(s)[n] /\ \A m \in 0..Many : x \in Within(s)[m] => n <= m
      BY <1>1, <1>11, <2>4, <2>5, <3>1
    <3>3. Distance(x, s) = n
      BY <1>2, <3>2, DistanceIs
    <3> QED BY <3>1, <3>3
  <2> QED BY <2>2, <2>3, <2>5, <2>6, <2>7
<1>15. ASSUME NEW x \in W[d], x # s PROVE \E i \in 1..Len(links) : links[i].from = x
  <2>1. PICK k \in 1..N : Q[k] = x
    BY <1>2, <1>11
  <2>2. k # 1
    BY <1>6, <1>15, <2>1
  <2>3. k - 1 \in 1..Len(links) /\ (k - 1) + 1 = k
    BY <1>4, <1>6, <2>2
  <2> QED BY <1>6, <2>1, <2>3
<1>16. ASSUME d = 1, NEW i \in 1..Len(links) PROVE links[i].to = s
  <2>1. PICK j \in 1..N : Q[j] = links[i].to /\ D[j] + 1 = links[i].depth
    BY <1>5
  <2>2. D[i+1] = links[i].depth /\ i + 1 \in 1..N
    BY <1>6
  <2>3. D[j] = 0
    <3>1. D[i+1] <= 1 /\ D[i+1] \in Nat /\ D[j] \in Nat
      BY <1>5, <1>6, <1>16, <2>2
    <3> QED BY <2>1, <2>2, <3>1
  <2>4. j = 1
    <3> SUFFICES ASSUME j # 1 PROVE FALSE
      OBVIOUS
    <3>1. PICK l \in 1..N : D[j] = D[l] + 1
      BY <1>12
    <3>2. D[l] \in Nat
      BY <1>6
    <3> QED BY <2>3, <3>1, <3>2
  <2> QED BY <1>6, <2>1, <2>4
<1>17. \A i \in 1..Len(links) : Relation(links[i]) \in relations
  BY <1>5
<1> HIDE DEF Relation
<1> QED BY <1>1, <1>6, <1>13, <1>14, <1>15, <1>16, <1>17

\* The why path, in a state of the right types.
LEMMA WhyPathIsComplete ==
  ASSUME ReadModelsTypes
  PROVE  WhyIsComplete
<1> DEFINE Complete(s, d, links) ==
             LET froms == {links[i].from : i \in DOMAIN links}
             IN /\ \A i, j \in DOMAIN links : links[i].from = links[j].from => i = j
                /\ froms = Within(s)[d] \ {s}
                /\ \A i \in DOMAIN links :
                     /\ links[i].depth = Distance(links[i].from, s)
                     /\ [from |-> links[i].from, kind |-> links[i].kind, to |-> links[i].to]
                          \in relations
                /\ d = Many => froms = ImpactOf(s)
                /\ Kind[s] = "decision" => {l.from : l \in WhyEvidence(s, 1)} \subseteq LensEvidence(s)
<1> SUFFICES ASSUME NEW s \in subjects, NEW d \in 0..Many PROVE Complete(s, d, WhyPath(s, d))
  BY DEF WhyIsComplete
<1>1. s \in Subjects /\ Many \in Nat
  BY SubjectsFinite DEF ReadModelsTypes
<1>2. PICK links : links = WhyPath(s, d)
  OBVIOUS
<1>3. /\ Len(links) \in Nat /\ DOMAIN links = 1..Len(links)
      /\ \A i, j \in 1..Len(links) : links[i].from = links[j].from => i = j
      /\ \A i \in 1..Len(links) : links[i].from \in Within(s)[d] /\ links[i].from # s
      /\ \A x \in Within(s)[d] : x # s => \E i \in 1..Len(links) : links[i].from = x
      /\ \A i \in 1..Len(links) : links[i].depth = Distance(links[i].from, s)
      /\ \A i \in 1..Len(links) : Relation(links[i]) \in relations
  BY <1>1, <1>2, WhyIs
<1>4. PICK froms : froms = {links[i].from : i \in DOMAIN links}
  OBVIOUS
<1>5. froms = Within(s)[d] \ {s}
  <2>1. PICK W : W = Within(s)[d]
    OBVIOUS
  <2>2. \A x : x \in froms <=> \E i \in 1..Len(links) : links[i].from = x
    BY <1>3, <1>4
  <2>3. ASSUME NEW x PROVE x \in froms <=> x \in W /\ x # s
    BY <1>3, <2>1, <2>2
  <2> QED BY <2>1, <2>3
<1>6. d = Many => froms = ImpactOf(s)
  BY <1>1, <1>5, ImpactIs
<1>7. {l.from : l \in WhyEvidence(s, 1)} \subseteq LensEvidence(s)
  <2>1. 1 \in 0..Many
    <3>1. Subjects # {}
      BY <1>1
    <3>2. Many # 0
      BY <3>1, SubjectsFinite, FS_EmptySet DEF Many
    <3> QED BY <1>1, <3>2
  <2>2. PICK path : path = WhyPath(s, 1)
    OBVIOUS
  <2>3. /\ DOMAIN path = 1..Len(path)
        /\ \A i \in 1..Len(path) : Relation(path[i]) \in relations
        /\ \A i \in 1..Len(path) : path[i].to = s
    BY <1>1, <2>1, <2>2, WhyIs
  <2>4. ASSUME NEW l \in WhyEvidence(s, 1) PROVE l.from \in LensEvidence(s)
    <3>1. l.kind \in EvidenceKinds /\ \E i \in DOMAIN path : path[i] = l
      BY <2>2 DEF WhyEvidence, Members
    <3>2. l.to = s /\ Relation(l) \in relations
      BY <2>3, <3>1
    <3>3. PICK f \in relations : f = Relation(l)
      BY <3>2
    <3>4. f.from = l.from /\ f.kind = l.kind /\ f.to = l.to
      BY <3>3 DEF Relation
    <3> QED BY <3>1, <3>2, <3>4 DEF LensEvidence
  <2> QED BY <2>4
<1>8. \A i \in DOMAIN links : [from |-> links[i].from, kind |-> links[i].kind, to |-> links[i].to] \in relations
  BY <1>3 DEF Relation
<1>9. Complete(s, d, links)
  BY <1>3, <1>4, <1>5, <1>6, <1>7, <1>8
<1> QED BY <1>2, <1>9

-----------------------------------------------------------------------------
(* shortest_path.                                                           *)

LEMMA WithinStep ==
  ASSUME ReadModelsTypes, NEW y \in Subjects, NEW n \in 0..(Many-1)
  PROVE  /\ Within(y)[0] = {y}
         /\ \A u \in Subjects : u \in Within(y)[n+1] <=>
              u \in Within(y)[n] \/ \E w \in Subjects : w \in Within(y)[n] /\ u \in Supporters[w]
         /\ y \in Within(y)[n]
<1>1. Many \in Nat
  BY SubjectsFinite
<1>2. PICK W, G : W = Within(y) /\ G = Supporters
  OBVIOUS
<1>3. IsLevels(W, G, y, Many) /\ G \in [Subjects -> SUBSET Subjects]
  BY <1>2, WithinLevels, Edges
<1>4. /\ n \in 0..Many /\ n + 1 \in 0..Many /\ n <= n + 1 /\ n < Many /\ n + 1 # 0 /\ (n + 1) - 1 = n
  BY <1>1
<1>5. /\ \A i \in 0..Many : y \in W[i]
      /\ \A i, m \in 0..Many : m <= i => W[m] \subseteq W[i]
  BY <1>1, <1>3, LevelsGrow
<1>6. \A i \in 0..Many, w \in Subjects : w \in W[i] /\ i < Many => G[w] \subseteq W[i+1]
  BY <1>1, <1>3, LevelsGrow
<1>7. \A i \in 0..Many, u \in Subjects :
        u \in W[i] /\ i # 0 => u \in W[i-1] \/ \E w \in Subjects : w \in W[i-1] /\ u \in G[w]
  BY <1>1, <1>3, LevelsGrow
<1>8. ASSUME NEW u \in Subjects
      PROVE  u \in W[n+1] <=> u \in W[n] \/ \E w \in Subjects : w \in W[n] /\ u \in G[w]
  <2>1. u \in W[n+1] => u \in W[n] \/ \E w \in Subjects : w \in W[n] /\ u \in G[w]
    BY <1>4, <1>7
  <2>2. W[n] \subseteq W[n+1]
    BY <1>4, <1>5
  <2>3. \A w \in Subjects : w \in W[n] => G[w] \subseteq W[n+1]
    BY <1>4, <1>6
  <2> QED BY <2>1, <2>2, <2>3
<1>9. W[0] = {y}
  BY <1>3 DEF IsLevels
<1> QED BY <1>2, <1>4, <1>5, <1>8, <1>9

\* The supporters of a subject's supporters support it in one more step.
LEMMA WithinSupporters ==
  ASSUME ReadModelsTypes, NEW u \in Subjects
  PROVE  \A n \in 0..(Many-1) : \A y \in Subjects :
           u \in Within(y)[n+1] <=>
             u = y \/ \E x \in Subjects : x \in Supporters[y] /\ u \in Within(x)[n]
<1> DEFINE Step(n) == \A y \in Subjects, v \in Subjects :
             v \in Within(y)[n+1] <=>
               v = y \/ \E x \in Subjects : x \in Supporters[y] /\ v \in Within(x)[n]
           S == {n \in 0..(Many-1) : Step(n)}
<1>1. Many \in Nat /\ Many # 0 /\ Many - 1 \in Nat
  <2>1. Subjects # {}
    OBVIOUS
  <2>2. Many # 0 /\ Many \in Nat
    BY <2>1, SubjectsFinite, FS_EmptySet DEF Many
  <2> QED BY <2>2
<1>2. PICK W : W = [y \in Subjects |-> Within(y)]
  OBVIOUS
<1>3. ASSUME NEW n \in 0..(Many-1), NEW y \in Subjects
      PROVE  /\ W[y][0] = {y}
             /\ \A v \in Subjects : v \in W[y][n+1] <=>
                  v \in W[y][n] \/ \E w \in Subjects : w \in W[y][n] /\ v \in Supporters[w]
             /\ y \in W[y][n]
  <2>1. W[y] = Within(y)
    BY <1>2
  <2> QED BY <2>1, WithinStep
<1>4. 0 \in S
  <2>1. ASSUME NEW y \in Subjects, NEW v \in Subjects
        PROVE  v \in W[y][1] <=> v = y \/ \E x \in Subjects : x \in Supporters[y] /\ v \in W[x][0]
    <3>1. 0 \in 0..(Many-1) /\ 0 + 1 = 1
      BY <1>1
    <3>2. \A x \in Subjects : W[x][0] = {x}
      BY <1>3, <3>1
    <3>3. v \in W[y][1] <=> v \in W[y][0] \/ \E w \in Subjects : w \in W[y][0] /\ v \in Supporters[w]
      BY <1>3, <3>1
    <3> QED BY <3>2, <3>3
  <2>2. 0 \in 0..(Many-1) /\ 0 + 1 = 1
    BY <1>1
  <2>3. Step(0)
    BY <1>2, <2>1, <2>2
  <2> QED BY <2>2, <2>3
<1>5. ASSUME NEW n \in 0..((Many-1)-1), n \in S PROVE n + 1 \in S
  <2>1. n \in 0..(Many-1) /\ n + 1 \in 0..(Many-1)
    BY <1>1
  <2>2. \A y \in Subjects, v \in Subjects : v \in W[y][n+1] <=>
               v = y \/ \E x \in Subjects : x \in Supporters[y] /\ v \in W[x][n]
    BY <1>2, <1>5
  <2>3. /\ \A y \in Subjects, v \in Subjects : v \in W[y][n+1] <=>
             v \in W[y][n] \/ \E w \in Subjects : w \in W[y][n] /\ v \in Supporters[w]
        /\ \A y \in Subjects, v \in Subjects : v \in W[y][n+1+1] <=>
             v \in W[y][n+1] \/ \E w \in Subjects : w \in W[y][n+1] /\ v \in Supporters[w]
        /\ \A y \in Subjects : y \in W[y][n+1]
    BY <1>3, <2>1
  <2>4. ASSUME NEW y \in Subjects, NEW v \in Subjects, v \in W[y][n+1+1]
        PROVE  v = y \/ \E x \in Subjects : x \in Supporters[y] /\ v \in W[x][n+1]
    <3>1. CASE v \in W[y][n+1]
      BY <2>2, <2>3, <3>1
    <3>2. CASE \E w \in Subjects : w \in W[y][n+1] /\ v \in Supporters[w]
      <4>1. PICK w \in Subjects : w \in W[y][n+1] /\ v \in Supporters[w]
        BY <3>2
      <4>2. CASE w = y
        BY <2>3, <4>1, <4>2
      <4>3. CASE w # y
        <5>1. PICK x \in Subjects : x \in Supporters[y] /\ w \in W[x][n]
          BY <2>2, <4>1, <4>3
        <5>2. v \in W[x][n+1]
          BY <2>3, <4>1, <5>1
        <5> QED BY <5>1, <5>2
      <4> QED BY <4>2, <4>3
    <3> QED BY <2>3, <2>4, <3>1, <3>2
  <2>5. ASSUME NEW y \in Subjects, NEW v \in Subjects,
               v = y \/ \E x \in Subjects : x \in Supporters[y] /\ v \in W[x][n+1]
        PROVE  v \in W[y][n+1+1]
    <3>1. CASE v = y
      BY <2>3, <3>1
    <3>2. CASE \E x \in Subjects : x \in Supporters[y] /\ v \in W[x][n+1]
      <4>1. PICK x \in Subjects : x \in Supporters[y] /\ v \in W[x][n+1]
        BY <3>2
      <4>2. CASE v \in W[x][n]
        <5>1. v \in W[y][n+1]
          BY <2>2, <4>1, <4>2
        <5> QED BY <2>3, <5>1
      <4>3. CASE \E w \in Subjects : w \in W[x][n] /\ v \in Supporters[w]
        <5>1. PICK w \in Subjects : w \in W[x][n] /\ v \in Supporters[w]
          BY <4>3
        <5>2. w \in W[y][n+1]
          BY <2>2, <4>1, <5>1
        <5> QED BY <2>3, <5>1, <5>2
      <4> QED BY <2>3, <4>1, <4>2, <4>3
    <3> QED BY <2>5, <3>1, <3>2
  <2>6. \A y \in Subjects, v \in Subjects : v \in W[y][n+1+1] <=>
               v = y \/ \E x \in Subjects : x \in Supporters[y] /\ v \in W[x][n+1]
    BY <2>4, <2>5
  <2>7. Step(n + 1)
    BY <1>2, <2>6
  <2> QED BY <2>1, <2>7
<1>6. \A n \in 0..(Many-1) : n \in S
  <2> HIDE DEF S
  <2>1. PICK k : k = Many - 1
    OBVIOUS
  <2>2. k \in Nat /\ \A n \in 0..(k-1) : n \in S => n + 1 \in S
    BY <1>1, <1>5, <2>1
  <2>3. \A n \in 0..k : n \in S
    BY <1>4, <2>2, InductionUpTo
  <2> QED BY <2>1, <2>3
<1> QED BY <1>6

\* What start supports, by the steps it takes, are the levels from start.
Ahead(start) == [n \in 0..Many |-> {y \in Subjects : start \in Within(y)[n]}]

LEMMA AheadLevels ==
  ASSUME ReadModelsTypes, NEW start \in Subjects
  PROVE  IsLevels(Ahead(start), LeadsTo, start, Many)
<1>1. Many \in Nat /\ Many # 0 /\ 0 \in 0..(Many-1)
  <2>1. Many # 0 /\ Many \in Nat
    BY SubjectsFinite, FS_EmptySet DEF Many
  <2> QED BY <2>1
<1>2. PICK L, G : L = Ahead(start) /\ G = LeadsTo
  OBVIOUS
<1>3. \A n \in 0..Many : L[n] = {y \in Subjects : start \in Within(y)[n]}
  BY <1>2 DEF Ahead
<1>4. L[0] = {start}
  <2>1. \A y \in Subjects : Within(y)[0] = {y}
    BY <1>1, WithinStep
  <2>2. 0 \in 0..Many
    BY <1>1
  <2> QED BY <1>3, <2>1, <2>2
<1>5. ASSUME NEW n \in 1..Many PROVE L[n] = L[n-1] \cup UNION {G[y] : y \in L[n-1]}
  <2>1. PICK m : m = n - 1
    OBVIOUS
  <2>2. m \in 0..(Many-1) /\ m + 1 = n /\ m \in 0..Many /\ n \in 0..Many
    BY <1>1, <2>1
  <2>3. \A y \in Subjects : start \in Within(y)[m+1] <=>
          start = y \/ \E x \in Subjects : x \in Supporters[y] /\ start \in Within(x)[m]
    BY <2>2, WithinSupporters
  <2>4. \A y \in Subjects : start \in Within(y)[m] => start \in Within(y)[m+1]
    BY <2>2, WithinStep
  <2>5. start \in Within(start)[m]
    BY <2>2, WithinStep
  <2>6. G \in [Subjects -> SUBSET Subjects] /\ \A x, y \in Subjects : x \in Supporters[y] <=> y \in G[x]
    BY <1>2, Edges
  <2>7. PICK A, B : A = L[m] /\ B = L[n]
    OBVIOUS
  <2>8. /\ \A y : y \in A <=> y \in Subjects /\ start \in Within(y)[m]
        /\ \A y : y \in B <=> y \in Subjects /\ start \in Within(y)[m+1]
    BY <1>3, <2>2, <2>7
  <2>9. ASSUME NEW y \in B PROVE y \in A \cup UNION {G[x] : x \in A}
    <3>1. y \in Subjects /\ (start = y \/ \E x \in Subjects : x \in Supporters[y] /\ start \in Within(x)[m])
      BY <2>3, <2>8
    <3> QED BY <2>5, <2>6, <2>8, <3>1
  <2>10. ASSUME NEW y \in A \cup UNION {G[x] : x \in A} PROVE y \in B
    <3>1. CASE y \in A
      BY <2>4, <2>8, <3>1
    <3>2. CASE \E x \in A : y \in G[x]
      <4>1. PICK x \in A : y \in G[x]
        BY <3>2
      <4>2. x \in Subjects /\ start \in Within(x)[m] /\ y \in Subjects
        BY <2>6, <2>8, <4>1
      <4>3. x \in Supporters[y]
        BY <2>6, <4>1, <4>2
      <4> QED BY <2>3, <2>8, <4>2, <4>3
    <3> QED BY <2>10, <3>1, <3>2
  <2> QED BY <2>1, <2>7, <2>9, <2>10
<1>6. IsLevels(L, G, start, Many)
  BY <1>4, <1>5 DEF IsLevels
<1> QED BY <1>2, <1>6

ParentMaps == UNION {[S -> Subjects] : S \in SUBSET Subjects}
Bfs == [queue : Seq(Subjects), parents : ParentMaps]

LEMMA DiscoverIs ==
  ASSUME ReadModelsTypes, NEW bfs \in Bfs, NEW node \in Subjects
  PROVE  LET next == Discover(bfs, node)
             new == In(Order, LeadsTo[node] \ Members(bfs.queue))
         IN /\ next \in Bfs /\ next.queue = bfs.queue \o new
            /\ new \in Seq(Subjects) /\ Distinct(new)
            /\ Members(new) = LeadsTo[node] \ Members(bfs.queue)
            /\ DOMAIN next.parents = DOMAIN bfs.parents \cup LeadsTo[node]
            /\ \A x \in DOMAIN bfs.parents : next.parents[x] = bfs.parents[x]
            /\ \A x \in LeadsTo[node] : x \notin DOMAIN bfs.parents => next.parents[x] = node
<1>1. PICK queue, parents, nb : queue = bfs.queue /\ parents = bfs.parents /\ nb = LeadsTo[node]
  OBVIOUS
<1>2. /\ bfs = [queue |-> queue, parents |-> parents]
      /\ queue \in Seq(Subjects) /\ parents \in ParentMaps
  BY <1>1 DEF Bfs
<1>3. nb = {f.to : f \in {g \in relations : g.from = node}}
  BY <1>1 DEF LeadsTo
<1>4. nb \subseteq Subjects
  BY <1>1, Edges
<1>5. PICK new, next : new = In(Order, nb \ Members(queue)) /\ next = Discover(bfs, node)
  OBVIOUS
<1>6. /\ new \in Seq(Subjects) /\ Distinct(new) /\ Members(new) = nb \ Members(queue)
  <2>1. Order \in Seq(Subjects) /\ Distinct(Order)
    BY ReadModelsAssumption
  <2>2. PICK S : S = nb \ Members(queue)
    OBVIOUS
  <2>3. /\ In(Order, S) \in Seq(Subjects) /\ Members(In(Order, S)) = Members(Order) \cap S
        /\ Distinct(In(Order, S))
    BY <2>1, InIs
  <2> QED BY <1>4, <1>5, <2>2, <2>3 DEF Subjects
<1>7. PICK map : map = [x \in DOMAIN parents \cup nb |-> Parent(parents, x, node)]
  OBVIOUS
<1>8. next = [queue |-> queue \o new, parents |-> map]
  BY <1>1, <1>3, <1>5, <1>7 DEF Discover
<1>9. PICK S \in SUBSET Subjects : parents \in [S -> Subjects]
  BY <1>2 DEF ParentMaps
<1>10. /\ DOMAIN map = DOMAIN parents \cup nb
       /\ \A x \in DOMAIN parents : map[x] = parents[x]
       /\ \A x \in nb : x \notin DOMAIN parents => map[x] = node
  BY <1>7 DEF Parent
<1>11. map \in ParentMaps
  <2>1. map \in [S \cup nb -> Subjects]
    BY <1>7, <1>9, <1>10
  <2>2. S \cup nb \in SUBSET Subjects
    BY <1>4
  <2> QED BY <2>1, <2>2 DEF ParentMaps
<1>12. queue \o new \in Seq(Subjects)
  BY <1>2, <1>6, Joined
<1>13. next \in Bfs /\ next.queue = queue \o new /\ next.parents = map
  BY <1>8, <1>11, <1>12 DEF Bfs
<1> QED BY <1>1, <1>5, <1>6, <1>10, <1>13

\* The n-th step.
PathNext(goal, n, bfs) ==
  IF n > Len(bfs.queue) \/ \E i \in 1..n : bfs.queue[i] = goal THEN bfs
  ELSE Discover(bfs, bfs.queue[n])

LEMMA PathRunsIs ==
  ASSUME ReadModelsTypes, NEW start \in Subjects, NEW goal
  PROVE  /\ PathRuns(start, goal)[0] = [queue |-> <<start>>, parents |-> [x \in {} |-> x]]
         /\ \A n \in 1..Len(Order) : PathRuns(start, goal)[n] = PathNext(goal, n, PathRuns(start, goal)[n-1])
         /\ \A n \in 0..Len(Order) : PathRuns(start, goal)[n] \in Bfs
<1> DEFINE k == Len(Order)
           V == Bfs
           first == [queue |-> <<start>>, parents |-> [x \in {} |-> x]]
           Step(n, bfs) == PathNext(goal, n, bfs)
           Is(f) == f = [n \in 0..k |-> IF n = 0 THEN first ELSE Step(n, f[n-1])]
<1>1. PathRuns(start, goal) = CHOOSE f : Is(f)
  BY DEF PathRuns, PathNext
<1>2. k \in Nat /\ first \in V
  <2>1. Len(Order) \in Nat
    BY SubjectsFinite
  <2>2. <<start>> \in Seq(Subjects)
    OBVIOUS
  <2>3. [x \in {} |-> x] \in [{} -> Subjects]
    OBVIOUS
  <2>4. [x \in {} |-> x] \in ParentMaps
    BY <2>3 DEF ParentMaps
  <2> QED BY <2>1, <2>2, <2>4 DEF Bfs
<1>3. ASSUME NEW n \in 1..k, NEW bfs \in V PROVE Step(n, bfs) \in V
  <2>1. CASE n > Len(bfs.queue) \/ \E i \in 1..n : bfs.queue[i] = goal
    BY <1>3, <2>1 DEF PathNext
  <2>2. CASE ~(n > Len(bfs.queue) \/ \E i \in 1..n : bfs.queue[i] = goal)
    <3>1. bfs.queue \in Seq(Subjects)
      BY <1>3 DEF Bfs
    <3>2. n \in 1..Len(bfs.queue)
      BY <1>2, <2>2, <3>1, LenProperties
    <3>3. bfs.queue[n] \in Subjects
      BY <3>1, <3>2, ElementOfSeq
    <3>4. Discover(bfs, bfs.queue[n]) \in Bfs
      BY <1>3, <3>3, DiscoverIs
    <3> QED BY <2>2, <3>4 DEF PathNext
  <2> QED BY <2>1, <2>2
<1> HIDE DEF k, V, first, Step
<1>4. \E f : Is(f)
  <2> DEFINE next == [n \in 1..k |-> [v \in V |-> Step(n, v)]]
  <2>1. next \in [1..k -> [V -> V]] /\ \A n \in 1..k, v \in V : next[n][v] = Step(n, v)
    BY <1>3
  <2> HIDE DEF next
  <2>2. PICK f \in [0..k -> V] : f[0] = first /\ \A n \in 1..k : f[n] = next[n][f[n-1]]
    <3>1. \E f \in [0..k -> V] : Follows(f, k, first, next)
      BY <1>2, <2>1, Recursion
    <3> QED BY <3>1 DEF Follows
  <2>3. ASSUME NEW n \in 0..k PROVE f[n] = IF n = 0 THEN first ELSE Step(n, f[n-1])
    BY <1>2, <2>1, <2>2
  <2>4. Is(f)
    BY <2>3
  <2> QED BY <2>4
<1>5. PICK g : Is(g) /\ PathRuns(start, goal) = g
  BY <1>1, <1>4
<1>6. g[0] = first
  BY <1>2, <1>5
<1>7. \A n \in 1..k : g[n] = Step(n, g[n-1])
  BY <1>2, <1>5
<1>8. \A n \in 0..k : g[n] \in V
  BY <1>2, <1>3, <1>6, <1>7, RecursionStays
<1>9. ASSUME NEW n \in 1..k
      PROVE  PathRuns(start, goal)[n] = PathNext(goal, n, PathRuns(start, goal)[n-1])
  <2>1. PICK v : v = g[n-1]
    OBVIOUS
  <2>2. g[n] = PathNext(goal, n, v)
    BY <1>7, <2>1 DEF Step
  <2> QED BY <1>5, <2>1, <2>2
<1> QED BY <1>5, <1>6, <1>8, <1>9 DEF k, V, first

\* One step further back.
ChainNext(parents, start, chain) ==
  IF chain[1] = start \/ chain[1] \notin DOMAIN parents THEN chain
  ELSE <<parents[chain[1]]>> \o chain

LEMMA ChainRunsIs ==
  ASSUME NEW parents \in ParentMaps, NEW start, NEW goal \in Subjects
  PROVE  /\ ChainRuns(parents, start, goal)[0] = <<goal>>
         /\ \A n \in 1..Len(Order) : ChainRuns(parents, start, goal)[n] =
              ChainNext(parents, start, ChainRuns(parents, start, goal)[n-1])
         /\ \A n \in 0..Len(Order) : ChainRuns(parents, start, goal)[n] \in Seq(Subjects)
<1> DEFINE k == Len(Order)
           V == Seq(Subjects)
           first == <<goal>>
           Step(n, chain) == ChainNext(parents, start, chain)
           Is(f) == f = [n \in 0..k |-> IF n = 0 THEN first ELSE Step(n, f[n-1])]
<1>1. ChainRuns(parents, start, goal) = CHOOSE f : Is(f)
  BY DEF ChainRuns, ChainNext
<1>2. k \in Nat /\ first \in V
  <2>1. Len(Order) \in Nat
    BY SubjectsFinite
  <2> QED BY <2>1
<1>3. ASSUME NEW n \in 1..k, NEW chain \in V PROVE Step(n, chain) \in V
  <2>1. PICK S \in SUBSET Subjects : parents \in [S -> Subjects]
    BY DEF ParentMaps
  <2>2. chain[1] \in DOMAIN parents => parents[chain[1]] \in Subjects
    BY <2>1
  <2>3. CASE chain[1] \in DOMAIN parents
    <3>1. PICK y : y = <<parents[chain[1]]>>
      OBVIOUS
    <3>2. y \in Seq(Subjects)
      BY <2>2, <2>3, <3>1
    <3>3. y \o chain \in Seq(Subjects)
      BY <1>3, <3>2, Joined
    <3> QED BY <1>3, <3>1, <3>3 DEF ChainNext
  <2> QED BY <1>3, <2>3 DEF ChainNext
<1> HIDE DEF k, V, first, Step
<1>4. \E f : Is(f)
  <2> DEFINE next == [n \in 1..k |-> [v \in V |-> Step(n, v)]]
  <2>1. next \in [1..k -> [V -> V]] /\ \A n \in 1..k, v \in V : next[n][v] = Step(n, v)
    BY <1>3
  <2> HIDE DEF next
  <2>2. PICK f \in [0..k -> V] : f[0] = first /\ \A n \in 1..k : f[n] = next[n][f[n-1]]
    <3>1. \E f \in [0..k -> V] : Follows(f, k, first, next)
      BY <1>2, <2>1, Recursion
    <3> QED BY <3>1 DEF Follows
  <2>3. ASSUME NEW n \in 0..k PROVE f[n] = IF n = 0 THEN first ELSE Step(n, f[n-1])
    BY <1>2, <2>1, <2>2
  <2>4. Is(f)
    BY <2>3
  <2> QED BY <2>4
<1>5. PICK g : Is(g) /\ ChainRuns(parents, start, goal) = g
  BY <1>1, <1>4
<1>6. g[0] = first
  BY <1>2, <1>5
<1>7. \A n \in 1..k : g[n] = Step(n, g[n-1])
  BY <1>2, <1>5
<1>8. \A n \in 0..k : g[n] \in V
  BY <1>2, <1>3, <1>6, <1>7, RecursionStays
<1>9. ASSUME NEW n \in 1..k
      PROVE  ChainRuns(parents, start, goal)[n] = ChainNext(parents, start, ChainRuns(parents, start, goal)[n-1])
  <2>1. PICK v : v = g[n-1]
    OBVIOUS
  <2>2. g[n] = ChainNext(parents, start, v)
    BY <1>7, <2>1 DEF Step
  <2> QED BY <1>5, <2>1, <2>2
<1> QED BY <1>5, <1>6, <1>8, <1>9 DEF k, V, first

\* The walk that puts in a queue what is new, as a sequence.
Appends(Q, G, p, new, T) ==
  new \in Seq(T) /\ Distinct(new) /\ Members(new) = G[Q[p]] \ Members(Q)

Appended(Q, D, N, P, M, G, root, p) ==
  \E E : /\ E \in [1..M -> Nat]
         /\ \A i \in 1..N : E[i] = D[i]
         /\ \A i \in 1..M : i > N => E[i] = D[p] + 1
         /\ Walked(P, E, M, G, root, p)
         /\ Spreads(P, E, M, G, p)
         /\ \A j \in 1..N : Spreads(Q, D, N, G, j) => Spreads(P, E, M, G, j)

LEMMA QueueAppends ==
  ASSUME NEW T, NEW G, NEW root,
         NEW Q, NEW D, NEW N, Q \in Seq(T), N = Len(Q), QueueTypes(Q, D, N, T),
         NEW n \in Nat, n + 1 \in 1..N, Walked(Q, D, N, G, root, n),
         NEW new, Appends(Q, G, n + 1, new, T), NEW P, P = Q \o new, NEW M, M = N + Len(new)
  PROVE  Appended(Q, D, N, P, M, G, root, n + 1)
<1> DEFINE p == n + 1
<1>1. D \in [1..N -> Nat] /\ new \in Seq(T) /\ Distinct(new) /\ Members(new) = G[Q[p]] \ Members(Q)
  BY DEF QueueTypes, Appends
<1>2. /\ N \in Nat /\ Q \in [1..N -> T] /\ DOMAIN Q = 1..N
      /\ Len(new) \in Nat /\ DOMAIN new = 1..Len(new)
  BY <1>1, LenProperties
<1>3. /\ P \in Seq(T) /\ Len(P) = M
      /\ \A i \in 1..N : P[i] = Q[i]
      /\ \A i \in 1..M : i \in 1..N \/ (i - N \in 1..Len(new) /\ P[i] = new[i - N])
      /\ Members(P) = Members(Q) \cup Members(new)
  BY <1>1, <1>2, Joined
<1>4. M \in Nat /\ N <= M /\ P \in [1..M -> T] /\ DOMAIN P = 1..M
  <2>1. M \in Nat /\ N <= M
    BY <1>2
  <2>2. P \in Seq(T) /\ Len(P) = M
    BY <1>3
  <2>3. P \in [1..M -> T] /\ DOMAIN P = 1..M
    BY <2>2, LenProperties
  <2> QED BY <2>1, <2>3
<1>5. PICK E : E = [i \in 1..M |-> IF i <= N THEN D[i] ELSE D[p] + 1]
  OBVIOUS
<1>6. /\ E \in [1..M -> Nat]
      /\ \A i \in 1..N : E[i] = D[i]
      /\ \A i \in 1..M : i > N => E[i] = D[p] + 1
  <2>1. D[p] \in Nat /\ \A i \in 1..N : D[i] \in Nat
    BY <1>1
  <2>2. \A i \in 1..N : i \in 1..M /\ i <= N
    BY <1>2, <1>4
  <2>3. \A i \in 1..M : i <= N => i \in 1..N
    BY <1>2
  <2>4. E \in [1..M -> Nat]
    BY <1>5, <2>1, <2>3
  <2>5. \A i \in 1..M : E[i] = IF i <= N THEN D[i] ELSE D[p] + 1
    BY <1>5
  <2>6. \A i \in 1..M : i > N => ~(i <= N)
    BY <1>2
  <2> QED BY <2>2, <2>4, <2>5, <2>6
<1>7. PICK X : X = G[Q[p]]
  OBVIOUS
<1>8. \A i \in 1..M : i > N => i - N \in 1..Len(new) /\ P[i] = new[i-N] /\ P[i] \in X /\ P[i] \notin Members(Q)
  <2>1. \A i \in 1..Len(new) : new[i] \in X /\ new[i] \notin Members(Q)
    BY <1>1, <1>2, <1>7 DEF Members
  <2> QED BY <1>2, <1>3, <2>1
<1>9. \A i, j \in 1..M : i > N /\ P[i] = P[j] => i = j
  <2>1. ASSUME NEW i \in 1..M, NEW j \in 1..M, i > N, P[i] = P[j] PROVE i = j
    <3>1. CASE j > N
      <4>1. i - N \in 1..Len(new) /\ j - N \in 1..Len(new) /\ new[i-N] = new[j-N]
        BY <1>8, <2>1, <3>1
      <4>2. i - N = j - N
        BY <1>1, <1>2, <4>1 DEF Distinct
      <4> QED BY <1>2, <4>2
    <3>2. CASE ~(j > N)
      <4>1. j \in 1..N
        BY <1>2, <3>2
      <4>2. P[j] \in Members(Q)
        BY <1>2, <1>3, <4>1 DEF Members
      <4> QED BY <1>8, <2>1, <4>2
    <3> QED BY <3>1, <3>2
  <2> QED BY <2>1
<1>10. \A x \in X : \E i \in 1..M : P[i] = x
  <2>1. X \subseteq Members(P)
    BY <1>1, <1>3, <1>7
  <2> QED BY <1>4, <2>1 DEF Members
<1>11. Grows(Q, D, N, P, E, M, G, p)
  BY <1>3, <1>4, <1>6, <1>7, <1>8, <1>9, <1>10 DEF Grows
<1>12. QueueTypes(Q, D, N, T) /\ QueueTypes(P, E, M, T)
  BY <1>1, <1>2, <1>4, <1>6 DEF QueueTypes
<1>13. /\ Walked(P, E, M, G, root, p)
       /\ Spreads(P, E, M, G, p)
       /\ \A j \in 1..N : Spreads(Q, D, N, G, j) => Spreads(P, E, M, G, j)
  BY <1>11, <1>12, QueueGrows
<1> QED BY <1>6, <1>13 DEF Appended

\* After n steps, for the right depths: up to the goal all is expanded, and the
\* parent of each is one step nearer to the start.
PathHasDepths(start, goal, Q, parents, n, D) ==
  LET N == Len(Q)
      G == LeadsTo
  IN /\ D \in [1..N -> Nat]
     /\ Walked(Q, D, N, G, start, n)
     /\ \A j \in 1..N : j <= n /\ (\A i \in 1..j : Q[i] # goal) => Spreads(Q, D, N, G, j)
     /\ DOMAIN parents \subseteq Members(Q)
     /\ \A i \in 1..N : i # 1 =>
          /\ Q[i] \in DOMAIN parents
          /\ \E j \in 1..N : parents[Q[i]] = Q[j] /\ Q[i] \in G[Q[j]] /\ D[i] = D[j] + 1

PathHas(start, goal, bfs, n) == \E D : PathHasDepths(start, goal, bfs.queue, bfs.parents, n, D)

LEMMA PathStep ==
  ASSUME ReadModelsTypes, NEW start \in Subjects, NEW goal \in Subjects, NEW n \in Nat,
         NEW old \in Bfs, PathHas(start, goal, old, n), NEW new,
         new = PathNext(goal, n + 1, old)
  PROVE  PathHas(start, goal, new, n + 1)
<1>1. PICK Q, parents, N, G, p :
        Q = old.queue /\ parents = old.parents /\ N = Len(Q) /\ G = LeadsTo /\ p = n + 1
  OBVIOUS
<1>2. PICK D : PathHasDepths(start, goal, Q, parents, n, D)
  BY <1>1 DEF PathHas
<1>3. /\ D \in [1..N -> Nat]
      /\ Walked(Q, D, N, G, start, n)
      /\ \A j \in 1..N : j <= n /\ (\A i \in 1..j : Q[i] # goal) => Spreads(Q, D, N, G, j)
      /\ DOMAIN parents \subseteq Members(Q)
      /\ \A i \in 1..N : i # 1 =>
           /\ Q[i] \in DOMAIN parents
           /\ \E j \in 1..N : parents[Q[i]] = Q[j] /\ Q[i] \in G[Q[j]] /\ D[i] = D[j] + 1
  BY <1>1, <1>2 DEF PathHasDepths
<1>4. Q \in Seq(Subjects)
  BY <1>1 DEF Bfs
<1>5. N \in Nat /\ DOMAIN Q = 1..N /\ \A i \in 1..N : Q[i] \in Subjects
  BY <1>1, <1>4, LenProperties, ElementOfSeq
<1>6. G \in [Subjects -> SUBSET Subjects]
  BY <1>1, Edges
<1>7. new = IF p > N \/ \E i \in 1..p : Q[i] = goal THEN old ELSE Discover(old, Q[p])
  BY <1>1 DEF PathNext
<1>8. CASE p > N \/ \E i \in 1..p : Q[i] = goal
  <2>1. new = old
    BY <1>7, <1>8
  <2>2. Walked(Q, D, N, G, start, p)
    BY <1>1, <1>3, <1>5, QueueStays
  <2>3. ASSUME NEW j \in 1..N, j <= p, \A i \in 1..j : Q[i] # goal PROVE Spreads(Q, D, N, G, j)
    <3>1. j # p
      BY <1>1, <1>5, <1>8, <2>3
    <3>2. j <= n
      BY <1>1, <2>3, <3>1
    <3> QED BY <1>3, <2>3, <3>2
  <2>4. PathHasDepths(start, goal, Q, parents, p, D)
    BY <1>1, <1>3, <2>2, <2>3 DEF PathHasDepths
  <2> QED BY <1>1, <2>1, <2>4 DEF PathHas
<1>9. CASE ~(p > N \/ \E i \in 1..p : Q[i] = goal)
  <2>1. p \in 1..N /\ Q[p] \in Subjects
    BY <1>1, <1>5, <1>9
  <2>2. PICK more, map, P :
          /\ more = In(Order, LeadsTo[Q[p]] \ Members(old.queue))
          /\ map = new.parents /\ P = new.queue
    OBVIOUS
  <2>3. /\ P = Q \o more /\ more \in Seq(Subjects) /\ Distinct(more)
        /\ Members(more) = G[Q[p]] \ Members(Q)
        /\ DOMAIN map = DOMAIN parents \cup G[Q[p]]
        /\ \A x \in DOMAIN parents : map[x] = parents[x]
        /\ \A x \in G[Q[p]] : x \notin DOMAIN parents => map[x] = Q[p]
    <3>1. PICK node, next : node = Q[p] /\ next = Discover(old, node)
      OBVIOUS
    <3>2. node \in Subjects
      BY <2>1, <3>1
    <3>3. PICK bfs : bfs = old
      OBVIOUS
    <3>5. bfs \in Bfs
      BY <3>3
    <3>6. LET after == Discover(bfs, node)
              found == In(Order, LeadsTo[node] \ Members(bfs.queue))
          IN /\ after.queue = bfs.queue \o found
             /\ found \in Seq(Subjects) /\ Distinct(found)
             /\ Members(found) = LeadsTo[node] \ Members(bfs.queue)
             /\ DOMAIN after.parents = DOMAIN bfs.parents \cup LeadsTo[node]
             /\ \A x \in DOMAIN bfs.parents : after.parents[x] = bfs.parents[x]
             /\ \A x \in LeadsTo[node] : x \notin DOMAIN bfs.parents => after.parents[x] = node
      BY <3>2, <3>5, DiscoverIs
    <3>4. new = next
      BY <1>7, <1>9, <3>1
    <3>7. more = In(Order, LeadsTo[node] \ Members(bfs.queue))
      BY <2>2, <3>1, <3>3
    <3>8. /\ next.queue = bfs.queue \o more
          /\ more \in Seq(Subjects) /\ Distinct(more)
          /\ Members(more) = LeadsTo[node] \ Members(bfs.queue)
          /\ DOMAIN next.parents = DOMAIN bfs.parents \cup LeadsTo[node]
          /\ \A x \in DOMAIN bfs.parents : next.parents[x] = bfs.parents[x]
          /\ \A x \in LeadsTo[node] : x \notin DOMAIN bfs.parents => next.parents[x] = node
      <4>1. next = Discover(bfs, node)
        BY <3>1, <3>3
      <4> QED BY <3>6, <3>7, <4>1
    <3>9. map = next.parents /\ P = next.queue /\ bfs.queue = Q /\ bfs.parents = parents
      BY <1>1, <2>2, <3>3, <3>4
    <3>10. node = Q[p] /\ LeadsTo = G
      BY <1>1, <3>1
    <3> QED BY <3>8, <3>9, <3>10
  <2>4. Len(more) \in Nat /\ DOMAIN more = 1..Len(more)
    BY <2>3, LenProperties
  <2>5. PICK M : M = N + Len(more)
    OBVIOUS
  <2>6. /\ P \in Seq(Subjects) /\ Len(P) = M /\ M \in Nat /\ N <= M
        /\ \A i \in 1..N : P[i] = Q[i]
        /\ \A i \in 1..M : i \in 1..N \/ (i - N \in 1..Len(more) /\ P[i] = more[i - N])
        /\ Members(P) = Members(Q) \cup Members(more)
    <3>1. /\ Q \o more \in Seq(Subjects) /\ Len(Q \o more) = Len(Q) + Len(more)
          /\ \A i \in 1..Len(Q) : (Q \o more)[i] = Q[i]
          /\ \A i \in 1..(Len(Q) + Len(more)) :
               i \in 1..Len(Q) \/ (i - Len(Q) \in 1..Len(more) /\ (Q \o more)[i] = more[i - Len(Q)])
          /\ Members(Q \o more) = Members(Q) \cup Members(more)
      <4>1. more \in Seq(Subjects)
        BY <2>3
      <4> QED BY <1>4, <4>1, Joined
    <3> QED BY <1>1, <1>5, <2>3, <2>4, <2>5, <3>1
  <2>7. PICK E : /\ E \in [1..M -> Nat]
                 /\ \A i \in 1..N : E[i] = D[i]
                 /\ \A i \in 1..M : i > N => E[i] = D[p] + 1
                 /\ Walked(P, E, M, G, start, p)
                 /\ Spreads(P, E, M, G, p)
                 /\ \A j \in 1..N : Spreads(Q, D, N, G, j) => Spreads(P, E, M, G, j)
    <3>1. N = Len(Q) /\ Walked(Q, D, N, G, start, n) /\ n + 1 \in 1..N
      BY <1>1, <1>3, <2>1
    <3>2. QueueTypes(Q, D, N, Subjects)
      <4>1. Q \in [1..N -> Subjects]
        BY <1>1, <1>4, LenProperties
      <4> QED BY <1>3, <1>5, <4>1 DEF QueueTypes
    <3>3. Appends(Q, G, n + 1, more, Subjects) /\ P = Q \o more
      BY <1>1, <2>3 DEF Appends
    <3>4. Appended(Q, D, N, P, M, G, start, n + 1)
      BY <1>4, <2>5, <3>1, <3>2, <3>3, QueueAppends
    <3> QED BY <1>1, <3>4 DEF Appended
  <2>8. ASSUME NEW j \in 1..M, j <= p, \A i \in 1..j : P[i] # goal PROVE Spreads(P, E, M, G, j)
    <3>1. CASE j = p
      BY <2>7, <3>1
    <3>2. CASE j # p
      <4>1. j <= n /\ j \in 1..N
        BY <1>1, <1>5, <2>1, <2>8, <3>2
      <4>2. \A i \in 1..j : Q[i] # goal
        BY <1>5, <2>6, <2>8, <4>1
      <4> QED BY <1>3, <2>7, <4>1, <4>2
    <3> QED BY <3>1, <3>2
  <2>9. DOMAIN map \subseteq Members(P)
    BY <1>3, <2>3, <2>6
  <2>10. ASSUME NEW i \in 1..M, i # 1
         PROVE  /\ P[i] \in DOMAIN map
                /\ \E j \in 1..M : map[P[i]] = P[j] /\ P[i] \in G[P[j]] /\ E[i] = E[j] + 1
    <3>1. CASE i \in 1..N
      <4>1. Q[i] \in DOMAIN parents /\ P[i] = Q[i] /\ E[i] = D[i]
        BY <1>3, <2>6, <2>7, <2>10, <3>1
      <4>2. PICK j \in 1..N : parents[Q[i]] = Q[j] /\ Q[i] \in G[Q[j]] /\ D[i] = D[j] + 1
        BY <1>3, <2>10, <3>1
      <4>3. j \in 1..M /\ P[j] = Q[j] /\ E[j] = D[j]
        BY <1>5, <2>6, <2>7
      <4>4. map[P[i]] = parents[Q[i]]
        BY <2>3, <4>1
      <4> QED BY <2>3, <4>1, <4>2, <4>3, <4>4
    <3>2. CASE i \notin 1..N
      <4>1. i - N \in 1..Len(more) /\ P[i] = more[i-N] /\ i > N
        BY <1>5, <2>6, <3>2
      <4>2. P[i] \in G[Q[p]] /\ P[i] \notin Members(Q)
        BY <2>3, <2>4, <4>1 DEF Members
      <4>3. map[P[i]] = Q[p] /\ P[i] \in DOMAIN map
        BY <1>3, <2>3, <4>2
      <4>4. p \in 1..M /\ P[p] = Q[p] /\ E[p] = D[p] /\ E[i] = D[p] + 1
        BY <1>5, <2>1, <2>6, <2>7, <4>1
      <4> QED BY <4>2, <4>3, <4>4
    <3> QED BY <3>1, <3>2
  <2>11. PathHasDepths(start, goal, P, map, p, E)
    BY <1>1, <2>6, <2>7, <2>8, <2>9, <2>10 DEF PathHasDepths
  <2> QED BY <1>1, <2>2, <2>11 DEF PathHas
<1> QED BY <1>8, <1>9

LEMMA PathEnds ==
  ASSUME ReadModelsTypes, NEW start \in Subjects, NEW goal \in Subjects
  PROVE  /\ PathRuns(start, goal)[Many] \in Bfs
         /\ PathHas(start, goal, PathRuns(start, goal)[Many], Many)
<1>1. PICK R : R = PathRuns(start, goal)
  OBVIOUS
<1>2. Many \in Nat /\ Many = Len(Order)
  BY SubjectsFinite
<1>3. /\ R[0] = [queue |-> <<start>>, parents |-> [x \in {} |-> x]]
      /\ \A n \in 0..Many : R[n] \in Bfs
  <2>1. /\ PathRuns(start, goal)[0] = [queue |-> <<start>>, parents |-> [x \in {} |-> x]]
        /\ \A n \in 0..Len(Order) : PathRuns(start, goal)[n] \in Bfs
    BY PathRunsIs
  <2> QED BY <1>1, <1>2, <2>1
<1>4. \A n \in 1..Many : R[n] = PathNext(goal, n, R[n-1])
  BY <1>1, <1>2, PathRunsIs
<1> DEFINE Good == {n \in 0..Many : PathHas(start, goal, R[n], n)}
<1>5. 0 \in Good
  <2>1. PICK Q, parents : Q = R[0].queue /\ parents = R[0].parents
    OBVIOUS
  <2>2. Q = <<start>> /\ DOMAIN parents = {}
    BY <1>3, <2>1
  <2>3. PICK D : D = [i \in 1..1 |-> 0]
    OBVIOUS
  <2>4. Len(Q) = 1 /\ Q[1] = start /\ D \in [1..1 -> Nat] /\ D[1] = 0
    BY <2>2, <2>3
  <2>5. \A i \in 1..1 : i = 1
    OBVIOUS
  <2>6. IsQueue(Q, D, 1, LeadsTo, start)
    BY <2>4, <2>5 DEF IsQueue
  <2>7. Walked(Q, D, 1, LeadsTo, start, 0)
    BY <2>4, <2>5, <2>6 DEF Walked
  <2>8. PathHasDepths(start, goal, Q, parents, 0, D)
    BY <2>2, <2>4, <2>5, <2>7 DEF PathHasDepths
  <2> QED BY <1>2, <2>1, <2>8 DEF PathHas
<1>6. ASSUME NEW n \in 0..(Many-1), n \in Good PROVE n + 1 \in Good
  <2>1. n + 1 \in 1..Many /\ n + 1 \in 0..Many /\ n \in 0..Many /\ (n + 1) - 1 = n /\ n \in Nat
    BY <1>2
  <2>2. PICK old, new : old = R[n] /\ new = R[n+1]
    OBVIOUS
  <2>3. old \in Bfs /\ PathHas(start, goal, old, n)
    BY <1>3, <1>6, <2>1, <2>2
  <2>4. new = PathNext(goal, n + 1, old)
    BY <1>4, <2>1, <2>2
  <2>5. PathHas(start, goal, new, n + 1)
    BY <2>1, <2>3, <2>4, PathStep
  <2> QED BY <2>1, <2>2, <2>5
<1>7. Many \in Good
  <2> HIDE DEF Good
  <2>1. \A n \in 0..Many : n \in Good
    BY <1>2, <1>5, <1>6, InductionUpTo
  <2> QED BY <1>2, <2>1
<1> QED BY <1>1, <1>2, <1>3, <1>7

LEMMA Prepended ==
  ASSUME NEW T, NEW x \in T, NEW q \in Seq(T)
  PROVE  /\ <<x>> \o q \in Seq(T) /\ Len(<<x>> \o q) = Len(q) + 1
         /\ (<<x>> \o q)[1] = x /\ \A i \in 1..Len(q) : (<<x>> \o q)[i+1] = q[i]
<1>1. PICK p : p = <<x>>
  OBVIOUS
<1>2. p \in Seq(T) /\ Len(p) = 1 /\ p[1] = x
  BY <1>1
<1>3. Len(q) \in Nat
  BY LenProperties
<1>4. /\ p \o q \in Seq(T) /\ Len(p \o q) = Len(p) + Len(q)
      /\ \A i \in 1..Len(p) : (p \o q)[i] = p[i]
      /\ \A i \in 1..Len(q) : (p \o q)[Len(p) + i] = q[i]
  <2>1. p \in Seq(T)
    BY <1>2
  <2> QED BY <2>1, Joined
<1>5. \A i \in 1..Len(q) : Len(p) + i = i + 1
  BY <1>2, <1>3
<1>6. (p \o q)[1] = x
  BY <1>2, <1>4
<1>7. \A i \in 1..Len(q) : (p \o q)[i+1] = q[i]
  BY <1>4, <1>5
<1>8. Len(p \o q) = Len(q) + 1
  BY <1>2, <1>3, <1>4
<1> QED BY <1>1, <1>4, <1>6, <1>7, <1>8

\* A chain of n links at most that ends in the goal, and where it begins.
Chained(start, chain, Q, D, N, G, g, n) ==
  /\ Len(chain) # 0 /\ chain[Len(chain)] = Q[g]
  /\ \E i \in 1..N : chain[1] = Q[i] /\ Len(chain) + D[i] = D[g] + 1
  /\ \A i \in 1..(Len(chain) - 1) : chain[i+1] \in G[chain[i]]
  /\ chain[1] = start \/ Len(chain) = n + 1

LEMMA ChainStep ==
  ASSUME NEW T, NEW start, NEW Q, NEW D, NEW N, QueueTypes(Q, D, N, T),
         NEW G, NEW parents, NEW g \in 1..N, NEW n \in Nat,
         IsQueue(Q, D, N, G, start),
         \A i \in 1..N : i # 1 =>
           /\ Q[i] \in DOMAIN parents
           /\ \E j \in 1..N : parents[Q[i]] = Q[j] /\ Q[i] \in G[Q[j]] /\ D[i] = D[j] + 1,
         NEW old \in Seq(T), Chained(start, old, Q, D, N, G, g, n), NEW new,
         new = IF old[1] = start \/ old[1] \notin DOMAIN parents THEN old
               ELSE <<parents[old[1]]>> \o old
  PROVE  Chained(start, new, Q, D, N, G, g, n + 1)
<1>1. /\ N \in Nat /\ Q \in [1..N -> T] /\ D \in [1..N -> Nat] /\ Q[1] = start
  BY DEF QueueTypes, IsQueue
<1>2. /\ Len(old) \in Nat /\ Len(old) # 0 /\ old[Len(old)] = Q[g]
      /\ \A i \in 1..(Len(old) - 1) : old[i+1] \in G[old[i]]
      /\ old[1] = start \/ Len(old) = n + 1
  BY LenProperties DEF Chained
<1>3. PICK i \in 1..N : old[1] = Q[i] /\ Len(old) + D[i] = D[g] + 1
  BY DEF Chained
<1>4. CASE old[1] = start
  <2>1. new = old
    BY <1>4
  <2> QED BY <1>2, <1>3, <1>4, <2>1 DEF Chained
<1>5. CASE old[1] # start
  <2>1. i # 1
    BY <1>1, <1>3, <1>5
  <2>2. PICK j \in 1..N : parents[Q[i]] = Q[j] /\ Q[i] \in G[Q[j]] /\ D[i] = D[j] + 1
    BY <2>1
  <2>3. Q[i] \in DOMAIN parents
    BY <2>1
  <2>4. PICK x : x = Q[j]
    OBVIOUS
  <2>5. new = <<x>> \o old /\ x \in T
    BY <1>1, <1>3, <1>5, <2>2, <2>3, <2>4
  <2>6. /\ new \in Seq(T) /\ Len(new) = Len(old) + 1
        /\ new[1] = x /\ \A l \in 1..Len(old) : new[l+1] = old[l]
    BY <2>5, Prepended
  <2>7. Len(new) + D[j] = D[g] + 1
    <3>1. D[j] \in Nat /\ D[i] \in Nat /\ D[g] \in Nat
      BY <1>1
    <3> QED BY <1>2, <1>3, <2>2, <2>6, <3>1
  <2>8. new[Len(new)] = Q[g] /\ Len(new) # 0
    BY <1>2, <2>6
  <2>9. ASSUME NEW l \in 1..(Len(new) - 1) PROVE new[l+1] \in G[new[l]]
    <3>1. l \in 1..Len(old)
      BY <1>2, <2>6
    <3>2. new[l+1] = old[l]
      BY <2>6, <3>1
    <3>3. CASE l = 1
      BY <1>3, <2>2, <2>4, <2>6, <3>2, <3>3
    <3>4. CASE l # 1
      <4>1. PICK m : m = l - 1
        OBVIOUS
      <4>2. m \in 1..(Len(old) - 1) /\ m \in 1..Len(old) /\ m + 1 = l
        BY <1>2, <3>1, <3>4, <4>1
      <4>3. new[l] = old[m] /\ old[m+1] \in G[old[m]]
        BY <1>2, <2>6, <4>2
      <4> QED BY <3>2, <4>2, <4>3
    <3> QED BY <3>3, <3>4
  <2>10. Len(new) = (n + 1) + 1
    BY <1>2, <1>5, <2>6
  <2> QED BY <2>4, <2>6, <2>7, <2>8, <2>9, <2>10 DEF Chained
<1> QED BY <1>4, <1>5

\* The depth of the goal in a queue is its distance, far off if it is not there.
Measured(start, goal, Q, D, N) ==
  /\ QueueTypes(Q, D, N, Subjects) /\ IsQueue(Q, D, N, LeadsTo, start)
  /\ \A g \in 1..N : Q[g] = goal => D[g] < Many /\ Distance(start, goal) = D[g]
  /\ goal \notin Members(Q) => Distance(start, goal) > Many

\* What a walk that found the goal, or went through all, knows of its distance.
LEMMA PathDistance ==
  ASSUME ReadModelsTypes, NEW start \in Subjects, NEW goal \in Subjects,
         NEW bfs \in Bfs, NEW D, PathHasDepths(start, goal, bfs.queue, bfs.parents, Many, D)
  PROVE  Measured(start, goal, bfs.queue, D, Len(bfs.queue))
<1>1. PICK Q, N, G, L : Q = bfs.queue /\ N = Len(Q) /\ G = LeadsTo /\ L = Ahead(start)
  OBVIOUS
<1>2. Q \in Seq(Subjects)
  BY <1>1 DEF Bfs
<1>3. /\ D \in [1..N -> Nat]
      /\ Walked(Q, D, N, G, start, Many)
      /\ \A j \in 1..N : j <= Many /\ (\A i \in 1..j : Q[i] # goal) => Spreads(Q, D, N, G, j)
  BY <1>1 DEF PathHasDepths
<1>4. N \in Nat /\ Q \in [1..N -> Subjects] /\ DOMAIN Q = 1..N
  BY <1>1, <1>2, LenProperties
<1>5. QueueTypes(Q, D, N, Subjects)
  BY <1>3, <1>4 DEF QueueTypes
<1>6. /\ IsQueue(Q, D, N, G, start)
      /\ \A i, j \in 1..N : i <= j => D[i] <= D[j]
  BY <1>3 DEF Walked
<1>7. /\ Many \in Nat /\ IsFiniteSet(Subjects) /\ Many = Cardinality(Subjects)
  BY SubjectsFinite DEF Many
<1>8. N <= Many /\ \A i \in 1..N : D[i] < i
  <2>1. N <= Cardinality(Subjects) /\ \A i \in 1..N : D[i] < i
    BY <1>3, <1>4, <1>6, <1>7, QueueIsShort
  <2> QED BY <1>7, <2>1
<1>9. G \in [Subjects -> SUBSET Subjects] /\ IsLevels(L, G, start, Many)
  BY <1>1, Edges, AheadLevels
<1>10. \A n \in 0..Many, y \in Subjects : y \in L[n] <=> start \in Within(y)[n]
  BY <1>1 DEF Ahead
<1>11. ASSUME NEW g \in 1..N, Q[g] = goal PROVE D[g] < Many /\ Distance(start, goal) = D[g]
  <2>1. D[g] \in Nat /\ D[g] < Many /\ D[g] <= Many
    BY <1>3, <1>4, <1>7, <1>8
  <2>2. PICK m : m = D[g]
    OBVIOUS
  <2>3. m \in 0..Many
    BY <2>1, <2>2
  <2>4. ASSUME NEW j \in 1..N, D[j] < m PROVE Spreads(Q, D, N, G, j)
    <3>1. D[j] \in Nat
      BY <1>3
    <3>2. ~(g <= j)
      BY <1>6, <2>1, <2>2, <2>4, <3>1
    <3>3. \A i \in 1..j : i # g /\ i \in 1..N
      BY <1>4, <3>2
    <3>4. \A i, l \in 1..N : Q[i] = Q[l] => i = l
      BY <1>6 DEF IsQueue
    <3>5. \A i \in 1..j : Q[i] # goal
      BY <1>11, <3>3, <3>4
    <3>6. j <= Many
      BY <1>4, <1>7, <1>8
    <3> QED BY <1>3, <3>5, <3>6
  <2>5. Spread(Q, D, N, G, m)
    BY <2>4 DEF Spread, Spreads
  <2>6. /\ \A i \in 1..N : D[i] <= Many => Q[i] \in L[D[i]]
        /\ \A i \in 1..N : D[i] <= m => \A n \in 0..Many : Q[i] \in L[n] => D[i] <= n
    <3>1. \A i \in 1..N : D[i] <= Many => Q[i] \in L[D[i]]
      BY <1>5, <1>6, <1>7, <1>9, <2>3, <2>5, QueueLevels
    <3>2. \A i \in 1..N : D[i] <= m => \A n \in 0..Many : Q[i] \in L[n] => D[i] <= n
      BY <1>5, <1>6, <1>7, <1>9, <2>3, <2>5, QueueLevels
    <3> QED BY <3>1, <3>2
  <2>7. goal \in L[m]
    BY <1>11, <2>1, <2>2, <2>6
  <2>8. \A n \in 0..Many : goal \in L[n] => m <= n
    <3>1. m <= m
      BY <2>3
    <3> QED BY <1>11, <2>2, <2>6, <3>1
  <2>9. start \in Within(goal)[m] /\ \A n \in 0..Many : start \in Within(goal)[n] => m <= n
    BY <1>10, <2>3, <2>7, <2>8
  <2>10. m \in Nat /\ m <= Many
    BY <2>3
  <2>11. Distance(start, goal) = m
    BY <1>7, <2>9, <2>10, DistanceIs
  <2> QED BY <2>1, <2>2, <2>11
<1>12. ASSUME goal \notin Members(Q) PROVE Distance(start, goal) > Many
  <2>1. \A i \in 1..N : Q[i] # goal
    BY <1>4, <1>12 DEF Members
  <2>2. ASSUME NEW j \in 1..N PROVE Spreads(Q, D, N, G, j)
    <3>1. j <= Many /\ \A i \in 1..j : i \in 1..N
      BY <1>4, <1>7, <1>8
    <3> QED BY <1>3, <2>1, <3>1
  <2>3. Many \in 0..Many /\ Spread(Q, D, N, G, Many)
    BY <1>7, <2>2 DEF Spread, Spreads
  <2>4. \A n \in 0..Many : \A x \in L[n] : \E i \in 1..N : Q[i] = x /\ D[i] <= n
    BY <1>5, <1>6, <1>7, <1>9, <2>3, QueueLevels
  <2>5. \A n \in 0..Many : goal \notin L[n]
    BY <2>1, <2>4
  <2>6. PICK d : d = Many + 1
    OBVIOUS
  <2>7. /\ d \in Nat /\ ~(d <= Many) /\ d > Many
        /\ \A n \in 0..Many : start \in Within(goal)[n] => d <= n
    BY <1>7, <1>10, <2>5, <2>6
  <2>8. Distance(start, goal) = Many + 1
    BY <1>7, <2>7, DistanceIs
  <2> QED BY <1>7, <2>8
<1>13. Measured(start, goal, Q, D, N)
  BY <1>1, <1>5, <1>6, <1>11, <1>12 DEF Measured
<1> QED BY <1>1, <1>13

\* A path with the fewest steps.
Connects(start, goal, path) ==
  /\ path \in Seq(Subjects) /\ Len(path) = Distance(start, goal) + 1
  /\ path[1] = start /\ path[Len(path)] = goal
  /\ \A i \in 1..(Len(path) - 1) : path[i+1] \in LeadsTo[path[i]]

\* Where the chain back from the goal ends.
LEMMA ChainEnds ==
  ASSUME ReadModelsTypes, NEW start \in Subjects, NEW goal \in Subjects,
         NEW bfs \in Bfs, NEW D, PathHasDepths(start, goal, bfs.queue, bfs.parents, Many, D),
         NEW g \in 1..Len(bfs.queue), bfs.queue[g] = goal
  PROVE  Connects(start, goal, ChainRuns(bfs.parents, start, goal)[Many])
<1>0. PICK path : path = ChainRuns(bfs.parents, start, goal)[Many]
  OBVIOUS
<1>1. PICK Q, N, G, parents, R :
        Q = bfs.queue /\ N = Len(Q) /\ G = LeadsTo /\ parents = bfs.parents
        /\ R = ChainRuns(parents, start, goal)
  OBVIOUS
<1>2. Q \in Seq(Subjects) /\ parents \in ParentMaps /\ g \in 1..N /\ Q[g] = goal
  BY <1>1 DEF Bfs
<1>3. N \in Nat
  BY <1>1, <1>2, LenProperties
<1>4. \A i \in 1..N : i # 1 =>
        /\ Q[i] \in DOMAIN parents
        /\ \E j \in 1..N : parents[Q[i]] = Q[j] /\ Q[i] \in G[Q[j]] /\ D[i] = D[j] + 1
  BY <1>1 DEF PathHasDepths
<1>5. /\ QueueTypes(Q, D, N, Subjects) /\ IsQueue(Q, D, N, G, start)
      /\ D[g] < Many /\ Distance(start, goal) = D[g]
  <2>1. Measured(start, goal, bfs.queue, D, Len(bfs.queue))
    BY PathDistance
  <2>2. Measured(start, goal, Q, D, N)
    BY <1>1, <2>1
  <2> QED BY <1>1, <1>2, <2>2 DEF Measured
<1>6. /\ D \in [1..N -> Nat] /\ Q[1] = start
      /\ \A i, j \in 1..N : Q[i] = Q[j] => i = j
      /\ D[1] = 0 /\ 1 \in 1..N
  BY <1>3, <1>5 DEF QueueTypes, IsQueue
<1>7. Many \in Nat /\ Many = Len(Order)
  BY SubjectsFinite
<1>8. /\ R[0] = <<goal>>
      /\ \A n \in 1..Many : R[n] = ChainNext(parents, start, R[n-1])
      /\ \A n \in 0..Many : R[n] \in Seq(Subjects)
  <2>0. parents \in ParentMaps
    BY <1>2
  <2>1. R[0] = <<goal>>
    BY <1>1, <2>0, ChainRunsIs
  <2>2. \A n \in 1..Len(Order) : R[n] = ChainNext(parents, start, R[n-1])
    BY <1>1, <2>0, ChainRunsIs
  <2>3. \A n \in 0..Len(Order) : R[n] \in Seq(Subjects)
    BY <1>1, <2>0, ChainRunsIs
  <2> QED BY <1>7, <2>1, <2>2, <2>3
<1> DEFINE Good == {n \in 0..Many : Chained(start, R[n], Q, D, N, G, g, n)}
<1>9. 0 \in Good
  <2>1. PICK chain : chain = R[0]
    OBVIOUS
  <2>2. Len(chain) = 1 /\ chain[1] = goal
    BY <1>8, <2>1
  <2>3. \E i \in 1..N : chain[1] = Q[i] /\ Len(chain) + D[i] = D[g] + 1
    <3>1. D[g] \in Nat
      BY <1>2, <1>6
    <3> QED BY <1>2, <2>2, <3>1
  <2>4. Chained(start, chain, Q, D, N, G, g, 0)
    BY <1>2, <2>2, <2>3 DEF Chained
  <2> QED BY <1>7, <2>1, <2>4
<1>10. ASSUME NEW n \in 0..(Many-1), n \in Good PROVE n + 1 \in Good
  <2>1. n + 1 \in 1..Many /\ n + 1 \in 0..Many /\ n \in 0..Many /\ (n + 1) - 1 = n /\ n \in Nat
    BY <1>7
  <2>2. PICK old, new : old = R[n] /\ new = R[n+1]
    OBVIOUS
  <2>3. old \in Seq(Subjects) /\ Chained(start, old, Q, D, N, G, g, n)
    BY <1>8, <1>10, <2>1, <2>2
  <2>4. new = IF old[1] = start \/ old[1] \notin DOMAIN parents THEN old
              ELSE <<parents[old[1]]>> \o old
    BY <1>8, <2>1, <2>2 DEF ChainNext
  <2>5. Chained(start, new, Q, D, N, G, g, n + 1)
    BY <1>2, <1>4, <1>5, <2>1, <2>3, <2>4, ChainStep
  <2> QED BY <2>1, <2>2, <2>5
<1>11. Many \in Good
  <2> HIDE DEF Good
  <2>1. \A n \in 0..Many : n \in Good
    BY <1>7, <1>9, <1>10, InductionUpTo
  <2> QED BY <1>7, <2>1
<1>12. path \in Seq(Subjects) /\ Chained(start, path, Q, D, N, G, g, Many)
  <2>1. path = R[Many] /\ Many \in 0..Many
    BY <1>0, <1>1, <1>7
  <2> QED BY <1>8, <1>11, <2>1
<1>13. /\ Len(path) # 0 /\ path[Len(path)] = goal
       /\ \A i \in 1..(Len(path) - 1) : path[i+1] \in G[path[i]]
       /\ path[1] = start \/ Len(path) = Many + 1
  BY <1>2, <1>12 DEF Chained
<1>14. PICK i \in 1..N : path[1] = Q[i] /\ Len(path) + D[i] = D[g] + 1
  BY <1>12 DEF Chained
<1>15. Len(path) \in Nat /\ D[i] \in Nat /\ D[g] \in Nat
  BY <1>2, <1>6, <1>12, LenProperties
<1>16. path[1] = start
  <2>1. Len(path) # Many + 1
    BY <1>5, <1>7, <1>14, <1>15
  <2> QED BY <1>13, <2>1
<1>17. i = 1
  BY <1>6, <1>14, <1>16
<1>18. Len(path) = D[g] + 1
  BY <1>6, <1>14, <1>15, <1>17
<1>19. Connects(start, goal, path)
  BY <1>1, <1>5, <1>12, <1>13, <1>16, <1>18 DEF Connects
<1> QED BY <1>0, <1>19

\* The shortest path, in a state of the right types.
LEMMA PathIsTheShortest ==
  ASSUME ReadModelsTypes
  PROVE  PathIsShortest
<1> DEFINE Shortest(from, to, path) ==
             IF path = << >> THEN Distance(from, to) > Many
             ELSE /\ path[1] = from /\ path[Len(path)] = to
                  /\ Len(path) = Distance(from, to) + 1
                  /\ \A i \in 1..(Len(path) - 1) :
                       \E f \in relations : f.from = path[i] /\ f.to = path[i + 1]
<1> SUFFICES ASSUME NEW from \in subjects, NEW to \in subjects
             PROVE  Shortest(from, to, ShortestPath(from, to))
  BY DEF PathIsShortest
<1>1. from \in Subjects /\ to \in Subjects
  BY DEF ReadModelsTypes
<1>2. Many \in Nat /\ Many = Len(Order)
  BY SubjectsFinite
<1>3. PICK path : path = ShortestPath(from, to)
  OBVIOUS
<1>4. CASE from = to
  <2>1. path = <<from>>
    BY <1>3, <1>4 DEF ShortestPath
  <2>2. Within(from)[0] = {from}
    BY <1>1, WithinRuns
  <2>3. PICK d : d = 0
    OBVIOUS
  <2>4. d \in Nat /\ d <= Many /\ from \in Within(to)[d] /\ \A n \in 0..Many : d <= n
    BY <1>2, <1>4, <2>2, <2>3
  <2>5. Distance(from, to) = d
    BY <1>2, <2>4, DistanceIs
  <2>6. path # << >> /\ Len(path) = 1 /\ path[1] = from
    BY <2>1
  <2> HIDE DEF Shortest
  <2>7. Shortest(from, to, path)
    BY <1>4, <2>3, <2>5, <2>6 DEF Shortest
  <2> QED BY <1>3, <2>7
<1>5. CASE from # to
  <2>1. PICK bfs : bfs = PathRuns(from, to)[Many]
    OBVIOUS
  <2>2. bfs \in Bfs /\ PathHas(from, to, bfs, Many)
    BY <1>1, <2>1, PathEnds
  <2>3. PICK D : PathHasDepths(from, to, bfs.queue, bfs.parents, Many, D)
    BY <2>2 DEF PathHas
  <2>4. PICK Q, N, parents : Q = bfs.queue /\ N = Len(Q) /\ parents = bfs.parents
    OBVIOUS
  <2>5. Q \in Seq(Subjects) /\ N \in Nat /\ DOMAIN Q = 1..N
    <3>1. Q \in Seq(Subjects)
      BY <2>2, <2>4 DEF Bfs
    <3> QED BY <2>4, <3>1, LenProperties
  <2>6. path = IF to \notin Members(Q) \/ to \notin DOMAIN parents THEN << >>
               ELSE ChainRuns(parents, from, to)[Many]
    BY <1>2, <1>3, <1>5, <2>1, <2>4 DEF ShortestPath
  <2>7. /\ DOMAIN parents \subseteq Members(Q)
        /\ \A i \in 1..N : i # 1 => Q[i] \in DOMAIN parents
        /\ Q[1] = from
    BY <2>3, <2>4 DEF PathHasDepths, Walked, IsQueue
  <2>8. Measured(from, to, Q, D, N)
    <3>1. Measured(from, to, bfs.queue, D, Len(bfs.queue))
      BY <1>1, <2>2, <2>3, PathDistance
    <3> QED BY <2>4, <3>1
  <2>9. CASE to \notin Members(Q)
    <3>1. path = << >>
      BY <2>6, <2>9
    <3>3. Distance(from, to) > Many
      BY <2>9, <2>8 DEF Measured
    <3>4. Shortest(from, to, path)
      BY <3>1, <3>3
    <3> QED BY <1>3, <3>4
  <2>10. CASE to \in Members(Q)
    <3>1. PICK g \in 1..N : Q[g] = to
      BY <2>5, <2>10 DEF Members
    <3>2. g # 1
      BY <1>5, <2>7, <3>1
    <3>3. path = ChainRuns(parents, from, to)[Many]
      BY <2>6, <2>7, <2>10, <3>1, <3>2
    <3>4. /\ path \in Seq(Subjects) /\ Len(path) = Distance(from, to) + 1
          /\ path[1] = from /\ path[Len(path)] = to
          /\ \A i \in 1..(Len(path) - 1) : path[i+1] \in LeadsTo[path[i]]
      <4>1. g \in 1..Len(bfs.queue) /\ bfs.queue[g] = to
        BY <2>4, <3>1
      <4>2. path = ChainRuns(bfs.parents, from, to)[Many]
        BY <2>4, <3>3
      <4>3. Connects(from, to, ChainRuns(bfs.parents, from, to)[Many])
        BY <1>1, <2>2, <2>3, <4>1, ChainEnds
      <4> QED BY <4>2, <4>3 DEF Connects
    <3>5. path # << >>
      <4>1. Distance(from, to) + 1 # 0
        <5>1. Distance(from, to) = D[g] /\ D[g] \in Nat
          BY <2>8, <3>1 DEF Measured, QueueTypes
        <5> QED BY <5>1
      <4>2. Len(path) # 0
        BY <3>4, <4>1
      <4> QED BY <4>2
    <3>6. ASSUME NEW i \in 1..(Len(path) - 1)
          PROVE  \E f \in relations : f.from = path[i] /\ f.to = path[i + 1]
      <4>1. Len(path) \in Nat /\ i \in 1..Len(path) /\ i + 1 \in 1..Len(path)
        BY <3>4, LenProperties
      <4>2. path[i] \in Subjects /\ path[i+1] \in Subjects
        BY <3>4, <4>1, ElementOfSeq
      <4>3. path[i+1] \in LeadsTo[path[i]]
        BY <3>4
      <4> QED BY <4>2, <4>3, Edges
    <3>7. Shortest(from, to, path)
      BY <3>4, <3>5, <3>6
    <3> QED BY <1>3, <3>7
  <2> QED BY <2>9, <2>10
<1> QED BY <1>4, <1>5

-----------------------------------------------------------------------------
(* diff_graphs.                                                             *)

\* What is said to have changed of a subject is what did.
LEMMA ValueChanges ==
  ASSUME NEW g, NEW h, NEW s
  PROVE  LET of == {c \in Changes(g, h, s) : c.key = "value"}
         IN /\ of = {} <=> g.values[s] = h.values[s]
            /\ \A c \in of : c.to = h.values[s]
<1> DEFINE v == [key |-> "value", from |-> g.values[s], to |-> h.values[s]]
           d == [key |-> "deprecated", from |-> s \in g.deprecated, to |-> s \in h.deprecated]
<1>1. v.key = "value" /\ v.to = h.values[s] /\ d.key # "value"
  OBVIOUS
<1>2. /\ Changes(g, h, s) \subseteq {v, d}
      /\ v \in Changes(g, h, s) <=> g.values[s] # h.values[s]
  <2>1. v # d
    BY <1>1
  <2>2. Changes(g, h, s) =
          (IF g.values[s] # h.values[s] THEN {v} ELSE {}) \cup
          (IF (s \in g.deprecated) # (s \in h.deprecated) THEN {d} ELSE {})
    BY DEF Changes, PropertyChanges
  <2> HIDE DEF v, d
  <2> QED BY <2>1, <2>2
<1> HIDE DEF v, d
<1> QED BY <1>1, <1>2

LEMMA DeprecationChanges ==
  ASSUME NEW g, NEW h, NEW s
  PROVE  LET of == {c \in Changes(g, h, s) : c.key = "deprecated"}
         IN /\ of = {} <=> (s \in g.deprecated <=> s \in h.deprecated)
            /\ \A c \in of : c.to <=> s \in h.deprecated
<1> DEFINE v == [key |-> "value", from |-> g.values[s], to |-> h.values[s]]
           d == [key |-> "deprecated", from |-> s \in g.deprecated, to |-> s \in h.deprecated]
<1>1. v.key # "deprecated" /\ d.key = "deprecated"
  OBVIOUS
<1>2. d.to <=> s \in h.deprecated
  OBVIOUS
<1>3. /\ Changes(g, h, s) \subseteq {v, d}
      /\ d \in Changes(g, h, s) <=> ~(s \in g.deprecated <=> s \in h.deprecated)
  <2>1. v # d
    BY <1>1
  <2>2. Changes(g, h, s) =
          (IF g.values[s] # h.values[s] THEN {v} ELSE {}) \cup
          (IF (s \in g.deprecated) # (s \in h.deprecated) THEN {d} ELSE {})
    BY DEF Changes, PropertyChanges
  <2> HIDE DEF v, d
  <2> QED BY <2>1, <2>2
<1> HIDE DEF v, d
<1> QED BY <1>1, <1>2, <1>3

\* The graphs of the states, and those between which only what is in both changes.
Graphs == [subjects : SUBSET Subjects, values : [Subjects -> Values \cup {"unset"}],
           deprecated : SUBSET Subjects, relations : SUBSET Members(Facts)]

OnlyCommonChange(g, h) ==
  \A s \in Subjects : s \notin g.subjects \cap h.subjects =>
    g.values[s] = h.values[s] /\ (s \in g.deprecated <=> s \in h.deprecated)

LEMMA PatchedIs ==
  ASSUME NEW g \in Graphs, NEW h \in Graphs, OnlyCommonChange(g, h)
  PROVE  Patched(g, DiffGraphs(g, h)) = h
<1> DEFINE diff == DiffGraphs(g, h)
           Of(s, key) == {c \in diff.changedSubjects[s] : c.key = key}
           Has(s, key) == s \in DOMAIN diff.changedSubjects
                          /\ \E c \in diff.changedSubjects[s] : c.key = key
           One(s, key) == CHOOSE c \in diff.changedSubjects[s] : c.key = key
<1>1. /\ diff.addedSubjects = h.subjects \ g.subjects
      /\ diff.removedSubjects = g.subjects \ h.subjects
      /\ diff.addedRelations = h.relations \ g.relations
      /\ diff.removedRelations = g.relations \ h.relations
      /\ DOMAIN diff.changedSubjects = {x \in h.subjects \cap g.subjects : Changes(g, h, x) # {}}
      /\ \A s \in DOMAIN diff.changedSubjects : diff.changedSubjects[s] = Changes(g, h, s)
  BY DEF DiffGraphs
<1>2. ASSUME NEW s \in Subjects
      PROVE  /\ ~Has(s, "value") => h.values[s] = g.values[s]
             /\ Has(s, "value") => One(s, "value").to = h.values[s]
  <2>1. PICK of : of = {c \in Changes(g, h, s) : c.key = "value"}
    OBVIOUS
  <2>2. /\ of = {} <=> g.values[s] = h.values[s]
        /\ \A c \in of : c.to = h.values[s]
    BY <2>1, ValueChanges
  <2>3. ASSUME ~Has(s, "value"), h.values[s] # g.values[s] PROVE FALSE
    <3>1. s \in g.subjects \cap h.subjects /\ of # {}
      BY <2>2, <2>3 DEF OnlyCommonChange
    <3>2. s \in DOMAIN diff.changedSubjects
      BY <1>1, <2>1, <3>1
    <3> QED BY <1>1, <2>1, <2>3, <3>1, <3>2
  <2>4. ASSUME Has(s, "value") PROVE One(s, "value").to = h.values[s]
    <3>1. One(s, "value") \in of
      BY <1>1, <2>1, <2>4
    <3> QED BY <2>2, <3>1
  <2> QED BY <2>3, <2>4
<1>3. ASSUME NEW s \in Subjects
      PROVE  /\ ~Has(s, "deprecated") => (s \in h.deprecated <=> s \in g.deprecated)
             /\ Has(s, "deprecated") => (One(s, "deprecated").to <=> s \in h.deprecated)
  <2>1. PICK of : of = {c \in Changes(g, h, s) : c.key = "deprecated"}
    OBVIOUS
  <2>2. /\ of = {} <=> (s \in g.deprecated <=> s \in h.deprecated)
        /\ \A c \in of : c.to <=> s \in h.deprecated
    BY <2>1, DeprecationChanges
  <2>3. ASSUME ~Has(s, "deprecated"), ~(s \in h.deprecated <=> s \in g.deprecated) PROVE FALSE
    <3>1. s \in g.subjects \cap h.subjects /\ of # {}
      BY <2>2, <2>3 DEF OnlyCommonChange
    <3>2. s \in DOMAIN diff.changedSubjects
      BY <1>1, <2>1, <3>1
    <3> QED BY <1>1, <2>1, <2>3, <3>1, <3>2
  <2>4. ASSUME Has(s, "deprecated") PROVE One(s, "deprecated").to <=> s \in h.deprecated
    <3>1. One(s, "deprecated") \in of
      BY <1>1, <2>1, <2>4
    <3> QED BY <2>2, <3>1
  <2> QED BY <2>3, <2>4
<1> DEFINE Changed(s, key, was) == IF Has(s, key) THEN One(s, key).to ELSE was
<1>4. Patched(g, diff) =
        [subjects   |-> (g.subjects \ diff.removedSubjects) \cup diff.addedSubjects,
         values     |-> [s \in Subjects |-> Changed(s, "value", g.values[s])],
         deprecated |-> {s \in Subjects : Changed(s, "deprecated", s \in g.deprecated)},
         relations  |-> (g.relations \ diff.removedRelations) \cup diff.addedRelations]
  BY DEF Patched
<1>5. h = [subjects |-> h.subjects, values |-> h.values, deprecated |-> h.deprecated,
           relations |-> h.relations]
  BY DEF Graphs
<1>6. h.values \in [Subjects -> Values \cup {"unset"}] /\ h.deprecated \subseteq Subjects
  BY DEF Graphs
<1>7. /\ (g.subjects \ diff.removedSubjects) \cup diff.addedSubjects = h.subjects
      /\ (g.relations \ diff.removedRelations) \cup diff.addedRelations = h.relations
  BY <1>1
<1> HIDE DEF diff, Has, One
<1>8. [s \in Subjects |-> Changed(s, "value", g.values[s])] = h.values
  <2>1. \A s \in Subjects : Changed(s, "value", g.values[s]) = h.values[s]
    BY <1>2
  <2> HIDE DEF Changed
  <2> QED BY <1>6, <2>1
<1>9. {s \in Subjects : Changed(s, "deprecated", s \in g.deprecated)} = h.deprecated
  <2>1. \A s \in Subjects : Changed(s, "deprecated", s \in g.deprecated) <=> s \in h.deprecated
    BY <1>3
  <2> HIDE DEF Changed
  <2> QED BY <1>6, <2>1
<1> HIDE DEF Changed
<1> QED BY <1>4, <1>5, <1>7, <1>8, <1>9 DEF diff

-----------------------------------------------------------------------------
(* build_context_view: what holds of its queue, of the items that it took    *)
(* from it, and of what it excluded.                                         *)

Entry == [subject : Subjects, depth : Nat]
Reasons == {"unknown-subject", "authority-class", "last-touched-before-cutoff",
            "token-budget-exhausted", "deeper-than-max-depth"}
Exclusion == [subject : Subjects, reason : Reasons]

SubjectsOf(E) == {e.subject : e \in E}

\* The subjects of the first n in the queue.
Upto(Q, N, n) == {Q[i].subject : i \in {j \in 1..N : j <= n}}

\* The queue is in order of depth, begins with the roots and goes on with what
\* items lead to; F is what each subject leads to.
ViewQueue(Q, N, I, n, F, roots, deep) ==
  /\ \A i, j \in 1..N : i <= j => Q[i].depth <= Q[j].depth
  /\ n < N => Q[N].depth <= Q[n+1].depth + 1
  /\ \A i \in 1..N : Q[i].depth <= deep
  /\ \A i \in 1..N : Q[i].depth = 0 => Q[i].subject \in roots
  /\ \A i \in 1..N : Q[i].depth # 0 =>
       \E e \in I : e.depth + 1 = Q[i].depth /\ Q[i].subject \in F[e.subject]
  /\ \A x \in roots : \E i \in 1..N : Q[i].subject = x

\* An item is the first in the queue with its subject; what it leads to is in the
\* queue, unless it is too deep.
ViewItems(Q, N, I, n, F, deep) ==
  /\ \A e \in I : \E i \in 1..N : /\ i <= n /\ Q[i] = e
                                  /\ \A j \in 1..N : Q[j].subject = e.subject => i <= j
  /\ \A e \in I : e.depth < deep =>
       \A x \in F[e.subject] : \E i \in 1..N : Q[i].subject = x /\ Q[i].depth <= e.depth + 1

\* What was taken is an item or excluded, and what is too deep is.
ViewExcluded(Q, N, I, X, n, F, deep) ==
  /\ Upto(Q, N, n) \subseteq SubjectsOf(I) \cup SubjectsOf(X)
  /\ \A e \in I : ~(e.depth < deep) =>
       \A x \in F[e.subject] : x \in SubjectsOf(X) \/ \E i \in 1..N : Q[i].subject = x
  /\ \A x \in X : x.reason = "deeper-than-max-depth" =>
       \E e \in I : e.depth = deep /\ x.subject \in F[e.subject]
  /\ \A x \in X : x.reason # "deeper-than-max-depth" => x.subject \in Upto(Q, N, n)

\* A subject that was taken, is no item, and does not fit in the budget.
NoRoom(x, Q, N, I, n, tokens, budget) ==
  /\ x.subject \in Upto(Q, N, n) /\ x.subject \notin SubjectsOf(I)
  /\ tokens + Size[x.subject] > budget

ViewBudget(Q, N, I, X, n, tokens, truncated, budget) ==
  /\ \A x \in X : x.reason = "token-budget-exhausted" =>
       truncated = TRUE /\ NoRoom(x, Q, N, I, n, tokens, budget)
  /\ truncated = TRUE => \E x \in X :
       /\ NoRoom(x, Q, N, I, n, tokens, budget)
       /\ x.reason \in {"token-budget-exhausted", "deeper-than-max-depth"}

ViewTypes(Q, N, I, n) ==
  N \in Nat /\ Q \in [1..N -> Entry] /\ I \in SUBSET Entry /\ n \in Nat

\* P is Q with what the n-th leads to, unless it is too deep or has been taken.
Extends(Q, N, P, M, n, F, deep) ==
  /\ M \in Nat /\ N <= M /\ P \in [1..M -> Entry]
  /\ \A i \in 1..N : P[i] = Q[i]
  /\ \A i \in 1..M : i > N =>
       /\ Q[n].depth < deep /\ P[i].depth = Q[n].depth + 1
       /\ P[i].subject \in F[Q[n].subject]
  /\ Q[n].depth < deep =>
       \A x \in F[Q[n].subject] : \E i \in 1..M : P[i].subject = x /\ (i <= n \/ i > N)

LEMMA UptoNext ==
  ASSUME NEW Q, NEW N \in Nat, NEW n \in Nat
  PROVE  /\ n + 1 \in 1..N => Upto(Q, N, n + 1) = Upto(Q, N, n) \cup {Q[n+1].subject}
         /\ n + 1 \notin 1..N => Upto(Q, N, n + 1) = Upto(Q, N, n)
<1>1. CASE n + 1 \in 1..N
  <2>1. {j \in 1..N : j <= n + 1} = {j \in 1..N : j <= n} \cup {n + 1}
    BY <1>1
  <2> QED BY <1>1, <2>1 DEF Upto
<1>2. CASE n + 1 \notin 1..N
  <2>1. {j \in 1..N : j <= n + 1} = {j \in 1..N : j <= n}
    BY <1>2
  <2> QED BY <1>2, <2>1 DEF Upto
<1> QED BY <1>1, <1>2

\* A step that leaves the queue and the items.
LEMMA ViewWaits ==
  ASSUME NEW Q, NEW N, NEW I, NEW n, ViewTypes(Q, N, I, n), NEW F, NEW roots, NEW deep,
         ViewQueue(Q, N, I, n, F, roots, deep), ViewItems(Q, N, I, n, F, deep)
  PROVE  ViewQueue(Q, N, I, n + 1, F, roots, deep) /\ ViewItems(Q, N, I, n + 1, F, deep)
<1>1. N \in Nat /\ Q \in [1..N -> Entry] /\ n \in Nat /\ \A i \in 1..N : Q[i].depth \in Nat
  BY DEF ViewTypes, Entry
<1>2. ASSUME n + 1 < N PROVE Q[N].depth <= Q[n+1+1].depth + 1
  <2>1. PICK p : p = n + 1
    OBVIOUS
  <2>2. n < N /\ p \in 1..N /\ p + 1 \in 1..N /\ N \in 1..N /\ p <= p + 1
    BY <1>1, <1>2, <2>1
  <2>3. Q[N].depth <= Q[p].depth + 1
    BY <2>1, <2>2 DEF ViewQueue
  <2>4. Q[p].depth <= Q[p+1].depth
    BY <2>2 DEF ViewQueue
  <2> QED BY <1>1, <2>1, <2>2, <2>3, <2>4
<1>3. ViewQueue(Q, N, I, n + 1, F, roots, deep)
  BY <1>2 DEF ViewQueue
<1>4. \A i \in 1..N : i <= n => i <= n + 1
  BY <1>1
<1>5. ViewItems(Q, N, I, n + 1, F, deep)
  BY <1>4 DEF ViewItems
<1> QED BY <1>3, <1>5

\* A step that takes an entry, whose subject it has not taken, as an item.
LEMMA ViewQueueTakes ==
  ASSUME NEW Q, NEW N, NEW I, NEW n, ViewTypes(Q, N, I, n), n + 1 \in 1..N,
         NEW F, NEW roots, NEW deep \in Nat, ViewQueue(Q, N, I, n, F, roots, deep),
         NEW P, NEW M, Extends(Q, N, P, M, n + 1, F, deep)
  PROVE  ViewQueue(P, M, I \cup {Q[n+1]}, n + 1, F, roots, deep)
<1>1. PICK p, J : p = n + 1 /\ J = I \cup {Q[p]}
  OBVIOUS
<1>2. N \in Nat /\ n \in Nat /\ \A i \in 1..N : Q[i].depth \in Nat
  BY DEF ViewTypes, Entry
<1>3. /\ M \in Nat /\ N <= M /\ \A i \in 1..M : P[i].depth \in Nat
      /\ \A i \in 1..N : P[i] = Q[i]
      /\ \A i \in 1..M : i > N => /\ Q[p].depth < deep /\ P[i].depth = Q[p].depth + 1
                                  /\ P[i].subject \in F[Q[p].subject]
  BY <1>1 DEF Extends, Entry
<1>4. p \in 1..N /\ p \in 1..M /\ P[p] = Q[p] /\ N \in 1..N /\ n < N
  BY <1>1, <1>2, <1>3
<1>5. /\ \A i, j \in 1..N : i <= j => Q[i].depth <= Q[j].depth
      /\ Q[N].depth <= Q[p].depth + 1
      /\ \A i \in 1..N : Q[i].depth <= deep
      /\ \A i \in 1..N : Q[i].depth = 0 => Q[i].subject \in roots
      /\ \A i \in 1..N : Q[i].depth # 0 =>
           \E e \in I : e.depth + 1 = Q[i].depth /\ Q[i].subject \in F[e.subject]
      /\ \A x \in roots : \E i \in 1..N : Q[i].subject = x
  BY <1>1, <1>4 DEF ViewQueue
<1>6. \A i \in 1..M : i \in 1..N \/ i > N
  BY <1>2
<1>7. ASSUME NEW i \in 1..M, NEW j \in 1..M, i <= j PROVE P[i].depth <= P[j].depth
  <2>1. CASE i \in 1..N /\ j \in 1..N
    BY <1>3, <1>5, <1>7, <2>1
  <2>2. CASE i \in 1..N /\ j > N
    <3>1. Q[i].depth <= Q[N].depth /\ Q[N].depth <= Q[p].depth + 1
      BY <1>2, <1>4, <1>5, <2>2
    <3>2. P[i].depth = Q[i].depth /\ P[j].depth = Q[p].depth + 1
      BY <1>3, <2>2
    <3> QED BY <1>2, <1>4, <2>2, <3>1, <3>2
  <2>3. CASE i > N /\ j > N
    BY <1>2, <1>3, <1>4, <2>3
  <2>4. ~(i > N /\ j \in 1..N)
    BY <1>2, <1>7
  <2> QED BY <1>6, <2>1, <2>2, <2>3, <2>4
<1>8. ASSUME p < M PROVE P[M].depth <= P[p+1].depth + 1
  <2>1. p + 1 \in 1..M /\ M \in 1..M /\ p <= p + 1
    BY <1>1, <1>2, <1>3, <1>8
  <2>2. P[p].depth <= P[p+1].depth
    BY <1>4, <1>7, <2>1
  <2>3. P[M].depth <= P[p].depth + 1
    <3>1. CASE M = N
      BY <1>3, <1>4, <1>5, <3>1
    <3>2. CASE M > N
      BY <1>2, <1>3, <1>4, <2>1, <3>2
    <3> QED BY <1>2, <1>3, <3>1, <3>2
  <2> QED BY <1>3, <1>4, <2>1, <2>2, <2>3
<1>9. ASSUME NEW i \in 1..M
      PROVE  /\ P[i].depth <= deep
             /\ P[i].depth = 0 => P[i].subject \in roots
             /\ P[i].depth # 0 =>
                  \E e \in J : e.depth + 1 = P[i].depth /\ P[i].subject \in F[e.subject]
  <2>1. CASE i \in 1..N
    <3>1. P[i] = Q[i]
      BY <1>3, <2>1
    <3>2. I \subseteq J
      BY <1>1
    <3> QED BY <1>5, <2>1, <3>1, <3>2
  <2>2. CASE i > N
    <3>1. /\ Q[p].depth < deep /\ P[i].depth = Q[p].depth + 1
          /\ P[i].subject \in F[Q[p].subject] /\ Q[p].depth \in Nat
      BY <1>2, <1>3, <1>4, <2>2
    <3>2. Q[p] \in J
      BY <1>1
    <3>3. P[i].depth <= deep /\ P[i].depth # 0
      BY <3>1
    <3> QED BY <3>1, <3>2, <3>3
  <2> QED BY <1>6, <2>1, <2>2
<1>10. \A x \in roots : \E i \in 1..M : P[i].subject = x
  <2>1. \A i \in 1..N : i \in 1..M /\ P[i] = Q[i]
    BY <1>2, <1>3
  <2> QED BY <1>5, <2>1
<1>11. ViewQueue(P, M, J, p, F, roots, deep)
  BY <1>7, <1>8, <1>9, <1>10 DEF ViewQueue
<1> QED BY <1>1, <1>11

LEMMA ViewItemsTakes ==
  ASSUME NEW Q, NEW N, NEW I, NEW n, ViewTypes(Q, N, I, n), n + 1 \in 1..N,
         NEW F, NEW roots, NEW deep \in Nat, ViewQueue(Q, N, I, n, F, roots, deep),
         ViewItems(Q, N, I, n, F, deep), Q[n+1].subject \notin Upto(Q, N, n),
         NEW P, NEW M, Extends(Q, N, P, M, n + 1, F, deep)
  PROVE  ViewItems(P, M, I \cup {Q[n+1]}, n + 1, F, deep)
<1>1. PICK p, J : p = n + 1 /\ J = I \cup {Q[p]}
  OBVIOUS
<1>2. N \in Nat /\ n \in Nat /\ \A i \in 1..N : Q[i].depth \in Nat
  BY DEF ViewTypes, Entry
<1>3. /\ M \in Nat /\ N <= M
      /\ \A i \in 1..N : P[i] = Q[i]
      /\ \A i \in 1..M : i > N => P[i].depth = Q[p].depth + 1
      /\ Q[p].depth < deep =>
           \A x \in F[Q[p].subject] : \E i \in 1..M : P[i].subject = x /\ (i <= p \/ i > N)
  BY <1>1 DEF Extends
<1>4. p \in 1..N /\ p \in 1..M /\ P[p] = Q[p] /\ \A i \in 1..N : i \in 1..M
  BY <1>1, <1>2, <1>3
<1>5. \A i \in 1..M : i \in 1..N \/ i > N
  BY <1>2
<1>6. ASSUME NEW e \in J
      PROVE  \E i \in 1..M : /\ i <= p /\ P[i] = e
                             /\ \A j \in 1..M : P[j].subject = e.subject => i <= j
  <2>1. CASE e \in I
    <3>1. PICK i \in 1..N : /\ i <= n /\ Q[i] = e
                            /\ \A j \in 1..N : Q[j].subject = e.subject => i <= j
      BY <2>1 DEF ViewItems
    <3>2. ASSUME NEW j \in 1..M, P[j].subject = e.subject PROVE i <= j
      <4>1. CASE j \in 1..N
        BY <1>3, <3>1, <3>2, <4>1
      <4>2. CASE j > N
        BY <1>2, <4>2
      <4> QED BY <1>5, <4>1, <4>2
    <3>3. i \in 1..M /\ i <= p /\ P[i] = e
      BY <1>1, <1>2, <1>3, <1>4, <3>1
    <3> QED BY <3>2, <3>3
  <2>2. CASE e = Q[p]
    <3>1. ASSUME NEW j \in 1..M, P[j].subject = e.subject PROVE p <= j
      <4>1. CASE j \in 1..N
        <5>1. Q[j].subject = Q[p].subject
          BY <1>3, <2>2, <3>1, <4>1
        <5>2. ~(j <= n)
          BY <1>1, <4>1, <5>1 DEF Upto
        <5> QED BY <1>1, <1>2, <5>2
      <4>2. CASE j > N
        BY <1>2, <1>4, <4>2
      <4> QED BY <1>5, <4>1, <4>2
    <3>2. p <= p
      BY <1>4
    <3> QED BY <1>4, <2>2, <3>1, <3>2
  <2> QED BY <1>1, <2>1, <2>2
<1>7. ASSUME NEW e \in J, e.depth < deep, NEW x \in F[e.subject]
      PROVE  \E i \in 1..M : P[i].subject = x /\ P[i].depth <= e.depth + 1
  <2>1. CASE e \in I
    <3>1. PICK i \in 1..N : Q[i].subject = x /\ Q[i].depth <= e.depth + 1
      BY <1>7, <2>1 DEF ViewItems
    <3> QED BY <1>3, <1>4, <3>1
  <2>2. CASE e = Q[p]
    <3>1. PICK i \in 1..M : P[i].subject = x /\ (i <= p \/ i > N)
      BY <1>3, <1>7, <2>2
    <3>2. Q[p].depth \in Nat
      BY <1>2, <1>4
    <3>3. CASE i > N
      BY <1>3, <2>2, <3>1, <3>2, <3>3
    <3>4. CASE i \in 1..N
      <4>1. i <= p
        BY <1>2, <3>1, <3>4
      <4>2. Q[i].depth <= Q[p].depth /\ Q[i].depth \in Nat
        BY <1>2, <1>4, <3>4, <4>1 DEF ViewQueue
      <4> QED BY <1>3, <2>2, <3>1, <3>2, <3>4, <4>2
    <3> QED BY <1>5, <3>3, <3>4
  <2> QED BY <1>1, <2>1, <2>2
<1>8. ViewItems(P, M, J, p, F, deep)
  BY <1>6, <1>7 DEF ViewItems
<1> QED BY <1>1, <1>8

\* record_exclusion, of all in S.
Adds(X, Y, S, reason) ==
  Y = X \cup {[subject |-> s, reason |-> reason] : s \in S \ SubjectsOf(X)}

LEMMA AddsIs ==
  ASSUME NEW X, NEW Y, NEW S, NEW reason, Adds(X, Y, S, reason)
  PROVE  /\ X \subseteq Y /\ SubjectsOf(Y) = SubjectsOf(X) \cup S
         /\ \A y \in Y : y \notin X => y.subject \in S \ SubjectsOf(X) /\ y.reason = reason
<1>1. PICK Z : Z = {[subject |-> s, reason |-> reason] : s \in S \ SubjectsOf(X)}
  OBVIOUS
<1>2. Y = X \cup Z
  BY <1>1 DEF Adds
<1>3. \A z \in Z : z.subject \in S \ SubjectsOf(X) /\ z.reason = reason
  BY <1>1
<1>4. \A s \in S \ SubjectsOf(X) : \E z \in Z : z.subject = s
  <2>1. ASSUME NEW s \in S \ SubjectsOf(X) PROVE \E z \in Z : z.subject = s
    <3>1. [subject |-> s, reason |-> reason] \in Z
      BY <1>1
    <3> QED BY <3>1
  <2> QED BY <2>1
<1>5. SubjectsOf(Y) = SubjectsOf(X) \cup S
  BY <1>2, <1>3, <1>4 DEF SubjectsOf
<1> QED BY <1>2, <1>3, <1>5

LEMMA MoreSubjects ==
  ASSUME NEW I, NEW e
  PROVE  SubjectsOf(I \cup {e}) = SubjectsOf(I) \cup {e.subject}
BY DEF SubjectsOf

LEMMA ViewExcludedRefuses ==
  ASSUME NEW Q, NEW N \in Nat, NEW I, NEW n \in Nat, n + 1 \in 1..N,
         NEW F, NEW deep, NEW X, ViewExcluded(Q, N, I, X, n, F, deep),
         NEW Y, NEW reason \in Reasons, reason # "deeper-than-max-depth",
         Adds(X, Y, {Q[n+1].subject}, reason)
  PROVE  ViewExcluded(Q, N, I, Y, n + 1, F, deep)
<1>1. PICK p, s : p = n + 1 /\ s = Q[p].subject
  OBVIOUS
<1>2. /\ X \subseteq Y /\ SubjectsOf(Y) = SubjectsOf(X) \cup {s}
      /\ \A y \in Y : y \notin X => y.subject = s /\ y.reason = reason
  <2>1. /\ X \subseteq Y /\ SubjectsOf(Y) = SubjectsOf(X) \cup {Q[n+1].subject}
        /\ \A y \in Y : y \notin X => y.subject \in {Q[n+1].subject} \ SubjectsOf(X) /\ y.reason = reason
    BY AddsIs
  <2> QED BY <1>1, <2>1
<1>3. Upto(Q, N, p) = Upto(Q, N, n) \cup {s}
  BY <1>1, UptoNext
<1>4. Upto(Q, N, p) \subseteq SubjectsOf(I) \cup SubjectsOf(Y)
  BY <1>2, <1>3 DEF ViewExcluded
<1>5. \A e \in I : ~(e.depth < deep) =>
        \A x \in F[e.subject] : x \in SubjectsOf(Y) \/ \E i \in 1..N : Q[i].subject = x
  BY <1>2 DEF ViewExcluded
<1>6. \A x \in Y : x.reason = "deeper-than-max-depth" =>
        \E e \in I : e.depth = deep /\ x.subject \in F[e.subject]
  BY <1>2 DEF ViewExcluded
<1>7. \A x \in Y : x.reason # "deeper-than-max-depth" => x.subject \in Upto(Q, N, p)
  BY <1>2, <1>3 DEF ViewExcluded
<1>8. ViewExcluded(Q, N, I, Y, p, F, deep)
  BY <1>4, <1>5, <1>6, <1>7 DEF ViewExcluded
<1> QED BY <1>1, <1>8

\* What is excluded when an item is taken: nothing, or what is too deep.
TooDeep(Q, N, P, M, X, Y, n, F, deep) ==
  IF Q[n].depth < deep THEN Y = X
  ELSE P = Q /\ M = N /\ Adds(X, Y, F[Q[n].subject] \ Upto(Q, N, n), "deeper-than-max-depth")

LEMMA TooDeepIs ==
  ASSUME NEW Q, NEW N, NEW P, NEW M, NEW X, NEW Y, NEW n, NEW F, NEW deep,
         TooDeep(Q, N, P, M, X, Y, n, F, deep)
  PROVE  /\ X \subseteq Y /\ SubjectsOf(X) \subseteq SubjectsOf(Y)
         /\ \A y \in Y : y \notin X => /\ y.subject \in F[Q[n].subject]
                                    /\ y.reason = "deeper-than-max-depth" /\ ~(Q[n].depth < deep)
         /\ ~(Q[n].depth < deep) => F[Q[n].subject] \ Upto(Q, N, n) \subseteq SubjectsOf(Y)
<1>1. CASE Q[n].depth < deep
  BY <1>1 DEF TooDeep
<1>2. CASE ~(Q[n].depth < deep)
  <2>1. PICK S : S = F[Q[n].subject] \ Upto(Q, N, n)
    OBVIOUS
  <2>2. Adds(X, Y, S, "deeper-than-max-depth")
    BY <1>2, <2>1 DEF TooDeep
  <2>3. /\ X \subseteq Y /\ SubjectsOf(Y) = SubjectsOf(X) \cup S
        /\ \A y \in Y : y \notin X => y.subject \in S \ SubjectsOf(X) /\ y.reason = "deeper-than-max-depth"
    BY <2>2, AddsIs
  <2> QED BY <1>2, <2>1, <2>3
<1> QED BY <1>1, <1>2

LEMMA ViewExcludedTakes ==
  ASSUME NEW Q, NEW N, NEW I, NEW n, ViewTypes(Q, N, I, n), n + 1 \in 1..N,
         NEW F, NEW roots, NEW deep \in Nat, ViewQueue(Q, N, I, n, F, roots, deep),
         NEW X, ViewExcluded(Q, N, I, X, n, F, deep),
         NEW P, NEW M, Extends(Q, N, P, M, n + 1, F, deep),
         NEW Y, TooDeep(Q, N, P, M, X, Y, n + 1, F, deep)
  PROVE  /\ ViewExcluded(P, M, I \cup {Q[n+1]}, Y, n + 1, F, deep)
         /\ Upto(P, M, n + 1) = Upto(Q, N, n) \cup {Q[n+1].subject}
<1>1. PICK p, J, s : p = n + 1 /\ J = I \cup {Q[p]} /\ s = Q[p].subject
  OBVIOUS
<1>2. N \in Nat /\ n \in Nat /\ \A i \in 1..N : Q[i].depth \in Nat
  BY DEF ViewTypes, Entry
<1>3. M \in Nat /\ N <= M /\ \A i \in 1..N : P[i] = Q[i]
  BY DEF Extends
<1>4. p \in 1..N /\ Q[p].depth <= deep /\ Q[p].depth \in Nat
  BY <1>1, <1>2 DEF ViewQueue
<1>5. Upto(Q, N, p) = Upto(Q, N, n) \cup {s}
  BY <1>1, <1>2, UptoNext
<1>6. Upto(P, M, p) = Upto(Q, N, p)
  <2>1. {j \in 1..M : j <= p} = {j \in 1..N : j <= p}
    BY <1>2, <1>3, <1>4
  <2>2. \A i \in {j \in 1..N : j <= p} : P[i].subject = Q[i].subject
    BY <1>3
  <2> QED BY <2>1, <2>2 DEF Upto
<1>7. /\ X \subseteq Y /\ SubjectsOf(X) \subseteq SubjectsOf(Y)
      /\ \A y \in Y : y \notin X => /\ y.subject \in F[s]
                                 /\ y.reason = "deeper-than-max-depth" /\ ~(Q[p].depth < deep)
      /\ ~(Q[p].depth < deep) => F[s] \ Upto(Q, N, p) \subseteq SubjectsOf(Y)
  <2>1. TooDeep(Q, N, P, M, X, Y, p, F, deep)
    BY <1>1
  <2> QED BY <1>1, <2>1, TooDeepIs
<1>8. SubjectsOf(J) = SubjectsOf(I) \cup {s} /\ I \subseteq J /\ Q[p] \in J
  BY <1>1, MoreSubjects
<1>9. Upto(P, M, p) \subseteq SubjectsOf(J) \cup SubjectsOf(Y)
  BY <1>5, <1>6, <1>7, <1>8 DEF ViewExcluded
<1>10. ASSUME NEW e \in J, ~(e.depth < deep), NEW x \in F[e.subject], x \notin SubjectsOf(Y)
       PROVE  \E i \in 1..M : P[i].subject = x
  <2>1. \E i \in 1..N : Q[i].subject = x
    <3>1. CASE e \in I
      BY <1>7, <1>10, <3>1 DEF ViewExcluded
    <3>2. CASE e = Q[p]
      <4>1. x \in Upto(Q, N, p)
        BY <1>1, <1>7, <1>10, <3>2
      <4> QED BY <4>1 DEF Upto
    <3> QED BY <1>1, <3>1, <3>2
  <2>2. \A i \in 1..N : i \in 1..M
    BY <1>2, <1>3
  <2> QED BY <1>3, <2>1, <2>2
<1>11. ASSUME NEW x \in Y, x.reason = "deeper-than-max-depth"
       PROVE  \E e \in J : e.depth = deep /\ x.subject \in F[e.subject]
  <2>1. CASE x \in X
    BY <1>8, <1>11, <2>1 DEF ViewExcluded
  <2>2. CASE x \notin X
    <3>1. x.subject \in F[s] /\ ~(Q[p].depth < deep)
      BY <1>7, <2>2
    <3>2. Q[p].depth = deep
      BY <1>4, <3>1
    <3> QED BY <1>1, <1>8, <3>1, <3>2
  <2> QED BY <2>1, <2>2
<1>12. \A x \in Y : x.reason # "deeper-than-max-depth" => x.subject \in Upto(P, M, p)
  BY <1>5, <1>6, <1>7 DEF ViewExcluded
<1>13. ViewExcluded(P, M, J, Y, p, F, deep)
  BY <1>9, <1>10, <1>11, <1>12 DEF ViewExcluded
<1> QED BY <1>1, <1>5, <1>6, <1>13

\* A subject that does not fit marks the view.
Marks(later, truncated, reason) ==
  later = TRUE <=> truncated = TRUE \/ reason = "token-budget-exhausted"

Overruns(s, tokens, reason, budget) ==
  reason = "token-budget-exhausted" => tokens + Size[s] > budget

LEMMA ViewBudgetRefuses ==
  ASSUME NEW Q, NEW N \in Nat, NEW I \in SUBSET Entry, NEW n \in Nat, n + 1 \in 1..N,
         NEW F, NEW deep, NEW X, ViewExcluded(Q, N, I, X, n, F, deep),
         \A e \in I : e.subject \in Upto(Q, N, n), Q[n+1].subject \notin Upto(Q, N, n),
         NEW tokens \in Nat, NEW truncated \in BOOLEAN, NEW budget \in Nat,
         ViewBudget(Q, N, I, X, n, tokens, truncated, budget),
         NEW Y, NEW reason, Adds(X, Y, {Q[n+1].subject}, reason),
         Overruns(Q[n+1].subject, tokens, reason, budget),
         NEW later, Marks(later, truncated, reason)
  PROVE  ViewBudget(Q, N, I, Y, n + 1, tokens, later, budget)
<1>1. PICK p, s : p = n + 1 /\ s = Q[p].subject
  OBVIOUS
<1>2. /\ X \subseteq Y /\ SubjectsOf(Y) = SubjectsOf(X) \cup {s}
      /\ \A y \in Y : y \notin X => y.subject = s /\ y.reason = reason
  <2>1. /\ X \subseteq Y /\ SubjectsOf(Y) = SubjectsOf(X) \cup {Q[n+1].subject}
        /\ \A y \in Y : y \notin X => y.subject \in {Q[n+1].subject} \ SubjectsOf(X) /\ y.reason = reason
    BY AddsIs
  <2> QED BY <1>1, <2>1
<1>3. Upto(Q, N, p) = Upto(Q, N, n) \cup {s}
  BY <1>1, UptoNext
<1>4. s \notin SubjectsOf(I)
  BY <1>1 DEF SubjectsOf
<1>5. \A x : NoRoom(x, Q, N, I, n, tokens, budget) => NoRoom(x, Q, N, I, p, tokens, budget)
  BY <1>3 DEF NoRoom
<1>6. reason = "token-budget-exhausted" =>
        \A x : x.subject = s => NoRoom(x, Q, N, I, p, tokens, budget)
  BY <1>1, <1>3, <1>4 DEF NoRoom, Overruns
<1>7. ASSUME NEW x \in Y, x.reason = "token-budget-exhausted"
      PROVE  later = TRUE /\ NoRoom(x, Q, N, I, p, tokens, budget)
  <2>1. CASE x \in X
    BY <1>5, <1>7, <2>1 DEF ViewBudget, Marks
  <2>2. CASE x \notin X
    BY <1>2, <1>6, <1>7, <2>2 DEF Marks
  <2> QED BY <2>1, <2>2
<1>8. ASSUME later = TRUE
      PROVE  \E x \in Y : /\ NoRoom(x, Q, N, I, p, tokens, budget)
                          /\ x.reason \in {"token-budget-exhausted", "deeper-than-max-depth"}
  <2>1. CASE truncated = TRUE
    BY <1>2, <1>5, <2>1 DEF ViewBudget
  <2>2. CASE reason = "token-budget-exhausted"
    <3>1. PICK x \in Y : x.subject = s
      BY <1>2 DEF SubjectsOf
    <3>2. NoRoom(x, Q, N, I, p, tokens, budget)
      BY <1>6, <2>2, <3>1
    <3>3. CASE x \in X
      <4>1. x.subject \notin Upto(Q, N, n)
        BY <1>1, <3>1
      <4>2. x.reason = "deeper-than-max-depth"
        BY <3>3, <4>1 DEF ViewExcluded
      <4> QED BY <3>2, <4>2
    <3>4. CASE x \notin X
      BY <1>2, <2>2, <3>2, <3>4
    <3> QED BY <3>3, <3>4
  <2> QED BY <1>8, <2>1, <2>2 DEF Marks
<1>9. ViewBudget(Q, N, I, Y, p, tokens, later, budget)
  BY <1>7, <1>8 DEF ViewBudget
<1> QED BY <1>1, <1>9

LEMMA ViewBudgetTakes ==
  ASSUME NEW Q, NEW N, NEW I, NEW n, NEW P, NEW M, NEW X, NEW Y, NEW e,
         Upto(P, M, n + 1) = Upto(Q, N, n) \cup {e.subject},
         e.subject \notin Upto(Q, N, n), X \subseteq Y,
         \A y \in Y : y \in X \/ y.reason = "deeper-than-max-depth",
         \A x \in X : Size[x.subject] \in Nat, Size[e.subject] \in Nat,
         NEW tokens \in Nat, NEW truncated, NEW budget \in Nat,
         ViewBudget(Q, N, I, X, n, tokens, truncated, budget)
  PROVE  ViewBudget(P, M, I \cup {e}, Y, n + 1, tokens + Size[e.subject], truncated, budget)
<1>1. PICK p, J, more : p = n + 1 /\ J = I \cup {e} /\ more = tokens + Size[e.subject]
  OBVIOUS
<1>2. SubjectsOf(J) = SubjectsOf(I) \cup {e.subject} /\ Upto(P, M, p) = Upto(Q, N, n) \cup {e.subject}
  BY <1>1, MoreSubjects
<1>3. ASSUME NEW x \in X, NoRoom(x, Q, N, I, n, tokens, budget)
      PROVE  NoRoom(x, P, M, J, p, more, budget)
  <2>1. more + Size[x.subject] > budget
    BY <1>1, <1>3 DEF NoRoom
  <2>2. x.subject \in Upto(P, M, p) /\ x.subject \notin SubjectsOf(J)
    BY <1>2, <1>3 DEF NoRoom
  <2> QED BY <2>1, <2>2 DEF NoRoom
<1>4. ViewBudget(P, M, J, Y, p, more, truncated, budget)
  BY <1>3 DEF ViewBudget
<1> QED BY <1>1, <1>4

LEMMA ViewStays ==
  ASSUME NEW Q, NEW N, NEW n, Upto(Q, N, n + 1) = Upto(Q, N, n), NEW I, NEW F, NEW deep, NEW X,
         ViewExcluded(Q, N, I, X, n, F, deep),
         NEW tokens, NEW truncated, NEW budget,
         ViewBudget(Q, N, I, X, n, tokens, truncated, budget)
  PROVE  /\ ViewExcluded(Q, N, I, X, n + 1, F, deep)
         /\ ViewBudget(Q, N, I, X, n + 1, tokens, truncated, budget)
<1>1. \A x : NoRoom(x, Q, N, I, n + 1, tokens, budget) <=> NoRoom(x, Q, N, I, n, tokens, budget)
  BY DEF NoRoom
<1>2. ViewBudget(Q, N, I, X, n + 1, tokens, truncated, budget)
  BY <1>1 DEF ViewBudget
<1>3. ViewExcluded(Q, N, I, X, n + 1, F, deep)
  BY DEF ViewExcluded
<1> QED BY <1>2, <1>3

Views == [queue : Seq(Entry), items : Seq(Entry), excluded : SUBSET Exclusion,
          tokens : Nat, truncated : BOOLEAN]

LEMMA RequestTypes ==
  ASSUME NEW request \in Requests
  PROVE  /\ request.roots \in Seq(Subjects) /\ Len(request.roots) \in Nat
         /\ request.maxDepth \in Nat /\ request.budget \in Nat
         /\ Size \in [Subjects -> Nat]
<1>1. request \in [roots : Seq(Subjects), kinds : SUBSET Kinds, maxDepth : Nat, budget : Nat,
                   derived : BOOLEAN, advisory : BOOLEAN, cutoff : BOOLEAN]
  BY ReadModelsAssumption
<1>2. request.roots \in Seq(Subjects) /\ request.maxDepth \in Nat /\ request.budget \in Nat
  BY <1>1
<1> QED BY <1>2, ReadModelsAssumption, LenProperties

\* What each subject leads to, over relations of the kinds asked for.
FollowedBy(request) == [s \in Subjects |-> {f.to : f \in Followed(request, s)}]

\* One entry for each relation in F.
Targets(more, F, depth) ==
  /\ more \in Seq(Entry) /\ Len(more) = Cardinality(F) /\ Len(more) \in Nat
  /\ \A i \in 1..Len(more) : more[i].depth = depth /\ \E f \in F : more[i].subject = f.to
  /\ \A f \in F : \E i \in 1..Len(more) : more[i].subject = f.to

LEMMA TargetsOf ==
  ASSUME ReadModelsTypes, NEW F \in SUBSET relations, NEW depth \in Nat
  PROVE  Targets(Deeper(In(Facts, F), depth), F, depth)
<1>1. PICK into, more : into = In(Facts, F) /\ more = Deeper(into, depth)
  OBVIOUS
<1>2. /\ Facts \in Seq(Fact) /\ Distinct(Facts) /\ F \subseteq Members(Facts)
      /\ \A f \in F : f.to \in Subjects
  BY ReadModelsAssumption, RelationTypes
<1>3. into \in Seq(Fact) /\ Members(into) = Members(Facts) \cap F /\ Distinct(into)
  BY <1>1, <1>2, InIs
<1>4. Members(into) = F
  BY <1>2, <1>3
<1>5. Len(into) = Cardinality(F) /\ Len(into) \in Nat /\ DOMAIN into = 1..Len(into)
  <2>1. Cardinality(Members(into)) = Len(into)
    BY <1>3, DistinctLen
  <2> QED BY <1>3, <1>4, <2>1, LenProperties
<1>6. \A i \in 1..Len(into) : into[i] \in F
  BY <1>4, <1>5 DEF Members
<1>7. more = [i \in 1..Len(into) |-> [subject |-> into[i].to, depth |-> depth]]
  BY <1>1, <1>5 DEF Deeper
<1>8. \A i \in 1..Len(into) : [subject |-> into[i].to, depth |-> depth] \in Entry
  BY <1>2, <1>6 DEF Entry
<1>9. more \in Seq(Entry) /\ Len(more) = Len(into)
  BY <1>5, <1>7, <1>8
<1>10. \A i \in 1..Len(into) : more[i].depth = depth /\ more[i].subject = into[i].to
  BY <1>7
<1>11. \A f \in F : \E i \in 1..Len(into) : into[i] = f
  BY <1>4, <1>5 DEF Members
<1>12. Targets(more, F, depth)
  BY <1>5, <1>6, <1>9, <1>10, <1>11 DEF Targets
<1> QED BY <1>1, <1>12

\* The three things that the n-th step, which takes e, may do.
Refuses(request, view, next, n, e) ==
  /\ e.subject \notin Upto(view.queue, Len(view.queue), n)
  /\ Barrier(request, view, e.subject) \in Reasons
  /\ Barrier(request, view, e.subject) # "deeper-than-max-depth"
  /\ next.queue = view.queue /\ next.items = view.items /\ next.tokens = view.tokens
  /\ Adds(view.excluded, next.excluded, {e.subject}, Barrier(request, view, e.subject))
  /\ next.truncated = TRUE <=>
       view.truncated = TRUE \/ Barrier(request, view, e.subject) = "token-budget-exhausted"

Includes(request, view, next, n, e) ==
  /\ e.subject \notin Upto(view.queue, Len(view.queue), n)
  /\ Barrier(request, view, e.subject) = "none"
  /\ next.items = Append(view.items, e) /\ next.tokens = view.tokens + Size[e.subject]
  /\ next.truncated = view.truncated
  /\ Extends(view.queue, Len(view.queue), next.queue, Len(next.queue), n + 1,
             FollowedBy(request), request.maxDepth)
  /\ TooDeep(view.queue, Len(view.queue), next.queue, Len(next.queue),
             view.excluded, next.excluded, n + 1, FollowedBy(request), request.maxDepth)
  /\ Len(next.queue) <= Len(view.queue) + Cardinality({f \in relations : f.from = e.subject})

LEMMA FollowedTypes ==
  ASSUME ReadModelsTypes, NEW request, NEW s \in Subjects
  PROVE  /\ FollowedBy(request) \in [Subjects -> SUBSET Subjects]
         /\ FollowedBy(request)[s] = {f.to : f \in Followed(request, s)}
         /\ Followed(request, s) \subseteq {f \in relations : f.from = s}
         /\ \A f \in Followed(request, s) : f.to \in Subjects
<1>1. \A f \in relations : f.to \in Subjects
  BY RelationTypes
<1>2. Followed(request, s) \subseteq {f \in relations : f.from = s}
  BY DEF Followed
<1>3. FollowedBy(request) \in [Subjects -> SUBSET Subjects]
  BY <1>1 DEF FollowedBy, Followed
<1> QED BY <1>1, <1>2, <1>3 DEF FollowedBy

\* The same, as Take has it.
Before(Q, n) == {Q[i].subject : i \in 1..(n-1)}

LEMMA UptoIs ==
  ASSUME NEW Q, NEW N \in Nat, NEW n \in Nat, n + 1 \in 1..N
  PROVE  /\ Upto(Q, N, n) = Before(Q, n + 1)
         /\ Upto(Q, N, n + 1) = Upto(Q, N, n) \cup {Q[n+1].subject}
<1>1. {j \in 1..N : j <= n} = 1..((n + 1) - 1)
  OBVIOUS
<1>2. Upto(Q, N, n) = Before(Q, n + 1)
  BY <1>1 DEF Upto, Before
<1>3. Upto(Q, N, n + 1) = Upto(Q, N, n) \cup {Q[n+1].subject}
  BY UptoNext
<1> QED BY <1>2, <1>3

LEMMA BarrierIs ==
  ASSUME NEW request, NEW view, NEW s, Barrier(request, view, s) # "none"
  PROVE  /\ Barrier(request, view, s) \in Reasons
         /\ Barrier(request, view, s) # "deeper-than-max-depth"
BY DEF Barrier, Reasons

\* The step that excludes an entry.
LEMMA TakeRefuses ==
  ASSUME ReadModelsTypes, NEW request \in Requests, NEW view \in Views, NEW n \in Nat,
         n + 1 \in 1..Len(view.queue), NEW e, e = view.queue[n+1],
         e.subject \notin Upto(view.queue, Len(view.queue), n),
         Barrier(request, view, e.subject) # "none"
  PROVE  /\ Take(request, view, n + 1) \in Views
         /\ Refuses(request, view, Take(request, view, n + 1), n, e)
<1>1. PICK s, b, Q, N, I, X, p :
        /\ s = e.subject /\ b = Barrier(request, view, s) /\ Q = view.queue
        /\ N = Len(Q) /\ I = view.items /\ X = view.excluded /\ p = n + 1
  OBVIOUS
<1>2. PICK tokens, truncated : tokens = view.tokens /\ truncated = view.truncated
  OBVIOUS
<1>3. /\ view = [queue |-> Q, items |-> I, excluded |-> X, tokens |-> tokens, truncated |-> truncated]
      /\ Q \in Seq(Entry) /\ I \in Seq(Entry) /\ X \in SUBSET Exclusion /\ tokens \in Nat
      /\ truncated \in BOOLEAN
  BY <1>1, <1>2 DEF Views
<1>4. b \in Reasons /\ b # "deeper-than-max-depth"
  BY <1>1, BarrierIs
<1>5. N \in Nat /\ e \in Entry /\ s \in Subjects
  <2>1. N \in Nat
    BY <1>1, <1>3, LenProperties
  <2>2. e \in Entry
    BY <1>1, <1>3, ElementOfSeq
  <2> QED BY <1>1, <2>1, <2>2 DEF Entry
<1>6. s \notin {Q[i].subject : i \in 1..(p-1)}
  <2>1. Upto(Q, N, n) = Before(Q, n + 1)
    BY <1>1, <1>5, UptoIs
  <2> QED BY <1>1, <2>1 DEF Before
<1>7. PICK Y, next : /\ Y = X \cup {[subject |-> y, reason |-> b] : y \in {s} \ SubjectsOf(X)}
                     /\ next = Take(request, view, p)
  OBVIOUS
<1>8. next = [Excluded(view, {s}, b) EXCEPT !.truncated = @ \/ b = "token-budget-exhausted"]
  BY <1>1, <1>6, <1>7 DEF Take
<1>9. Excluded(view, {s}, b) =
        [queue |-> Q, items |-> I, excluded |-> Y, tokens |-> tokens, truncated |-> truncated]
  <2>1. Excluded(view, {s}, b) = [view EXCEPT !.excluded = Y]
    BY <1>1, <1>7 DEF Excluded, SubjectsOf
  <2> QED BY <1>3, <2>1
<1>10. next = [queue |-> Q, items |-> I, excluded |-> Y, tokens |-> tokens,
               truncated |-> (truncated \/ b = "token-budget-exhausted")]
  <2>1. PICK taken, later : /\ taken = Excluded(view, {s}, b)
                            /\ later = (truncated \/ b = "token-budget-exhausted")
    OBVIOUS
  <2>2. taken.truncated = truncated
    BY <1>9, <2>1
  <2>3. next = [taken EXCEPT !.truncated = later]
    BY <1>8, <2>1, <2>2
  <2>4. next = [queue |-> Q, items |-> I, excluded |-> Y, tokens |-> tokens, truncated |-> later]
    <3>1. taken = [queue |-> Q, items |-> I, excluded |-> Y, tokens |-> tokens, truncated |-> truncated]
      BY <1>9, <2>1
    <3> QED BY <2>3, <3>1
  <2> QED BY <2>1, <2>4
<1>11. Y \in SUBSET Exclusion
  BY <1>3, <1>4, <1>5, <1>7 DEF Exclusion
<1>12. /\ next.queue = Q /\ next.items = I /\ next.excluded = Y /\ next.tokens = tokens
       /\ next.truncated = (truncated \/ b = "token-budget-exhausted")
  BY <1>10
<1>13. next \in Views
  BY <1>3, <1>10, <1>11 DEF Views
<1>14. next.truncated = TRUE <=> truncated = TRUE \/ b = "token-budget-exhausted"
  BY <1>3, <1>12
<1>15. Adds(X, Y, {s}, b)
  BY <1>7 DEF Adds
<1>16. Refuses(request, view, next, n, e)
  BY <1>1, <1>2, <1>4, <1>12, <1>14, <1>15 DEF Refuses
<1> QED BY <1>1, <1>7, <1>13, <1>16

\* The step that includes an entry.
LEMMA TakeIncludes ==
  ASSUME ReadModelsTypes, NEW request \in Requests, NEW view \in Views, NEW n \in Nat,
         n + 1 \in 1..Len(view.queue), NEW e, e = view.queue[n+1],
         e.subject \notin Upto(view.queue, Len(view.queue), n),
         Barrier(request, view, e.subject) = "none"
  PROVE  /\ Take(request, view, n + 1) \in Views
         /\ Includes(request, view, Take(request, view, n + 1), n, e)
<1>1. PICK s, Q, N, I, X, p, deep, F :
        /\ s = e.subject /\ Q = view.queue
        /\ N = Len(Q) /\ I = view.items /\ X = view.excluded /\ p = n + 1
        /\ deep = request.maxDepth /\ F = FollowedBy(request)
  OBVIOUS
<1>2. PICK tokens, truncated : tokens = view.tokens /\ truncated = view.truncated
  OBVIOUS
<1>3. /\ view = [queue |-> Q, items |-> I, excluded |-> X, tokens |-> tokens, truncated |-> truncated]
      /\ Q \in Seq(Entry) /\ I \in Seq(Entry) /\ X \in SUBSET Exclusion /\ tokens \in Nat
      /\ truncated \in BOOLEAN
  BY <1>1, <1>2 DEF Views
<1>4. deep \in Nat /\ Size \in [Subjects -> Nat]
  BY <1>1, RequestTypes
<1>5. /\ N \in Nat /\ e \in Entry /\ s \in Subjects /\ e.depth \in Nat
      /\ p \in 1..N /\ Q[p] = e /\ Q \in [1..N -> Entry]
  <2>1. N \in Nat /\ Q \in [1..N -> Entry]
    BY <1>1, <1>3, LenProperties
  <2>2. e \in Entry
    BY <1>1, <1>3, ElementOfSeq
  <2> QED BY <1>1, <2>1, <2>2 DEF Entry
<1>6. PICK seen, visited, fresh :
        /\ seen = {Q[i].subject : i \in 1..(p-1)} /\ visited = Upto(Q, N, p)
        /\ fresh = {f \in Followed(request, s) : f.to \notin seen \cup {s}}
  OBVIOUS
<1>7. /\ seen = Upto(Q, N, n) /\ visited = seen \cup {s} /\ s \notin seen
  <2>1. /\ Upto(Q, N, n) = Before(Q, n + 1)
        /\ Upto(Q, N, n + 1) = Upto(Q, N, n) \cup {Q[n+1].subject}
    BY <1>1, <1>5, UptoIs
  <2> QED BY <1>1, <1>5, <1>6, <2>1 DEF Before
<1>8. /\ F[s] = {f.to : f \in Followed(request, s)} /\ F[s] \subseteq Subjects
      /\ Followed(request, s) \subseteq {f \in relations : f.from = s}
      /\ \A f \in Followed(request, s) : f.to \in Subjects
  <2>1. F \in [Subjects -> SUBSET Subjects]
    BY <1>1, <1>5, FollowedTypes
  <2> QED BY <1>1, <1>5, <2>1, FollowedTypes
<1>9. {f.to : f \in fresh} = F[s] \ visited
  BY <1>6, <1>7, <1>8
<1>10. PICK J, more, next : /\ J = Append(I, e) /\ more = tokens + Size[s]
                            /\ next = Take(request, view, p)
  OBVIOUS
<1>11. J \in Seq(Entry) /\ more \in Nat
  BY <1>3, <1>4, <1>5, <1>10
<1>12. Included(view, e) =
         [queue |-> Q, items |-> J, excluded |-> X, tokens |-> more, truncated |-> truncated]
  <2>1. Included(view, e) = [view EXCEPT !.items = J, !.tokens = more]
    BY <1>1, <1>2, <1>10 DEF Included
  <2> QED BY <1>3, <2>1
<1>13. next = IF e.depth >= deep
              THEN Excluded(Included(view, e), {f.to : f \in fresh}, "deeper-than-max-depth")
              ELSE [Included(view, e) EXCEPT
                      !.queue = Queued(@, p, Deeper(In(Facts, fresh), e.depth + 1))]
  <2>1. Barrier(request, view, s) = "none"
    BY <1>1
  <2> QED BY <1>1, <1>6, <1>7, <1>10, <2>1 DEF Take
<1>14. PICK P, M, Y : P = next.queue /\ M = Len(P) /\ Y = next.excluded
  OBVIOUS
<1>15. CASE e.depth >= deep
  <2>1. PICK S : S = {f.to : f \in fresh}
    OBVIOUS
  <2>2. PICK Z : Z = X \cup {[subject |-> y, reason |-> "deeper-than-max-depth"] : y \in S \ SubjectsOf(X)}
    OBVIOUS
  <2>3. PICK taken : taken = Included(view, e)
    OBVIOUS
  <2>4. next = [taken EXCEPT !.excluded = Z]
    <3>1. taken.excluded = X
      BY <1>12, <2>3
    <3>2. next = Excluded(taken, S, "deeper-than-max-depth")
      BY <1>13, <1>15, <2>1, <2>3
    <3> QED BY <2>2, <3>1, <3>2 DEF Excluded, SubjectsOf
  <2>5. next = [queue |-> Q, items |-> J, excluded |-> Z, tokens |-> more, truncated |-> truncated]
    BY <1>12, <2>3, <2>4
  <2>6. Z \in SUBSET Exclusion
    <3>1. S \subseteq Subjects
      BY <1>8, <1>9, <2>1
    <3> QED BY <1>3, <2>2, <3>1 DEF Exclusion, Reasons
  <2>7. next \in Views
    BY <1>3, <1>11, <2>5, <2>6 DEF Views
  <2>8. /\ P = Q /\ M = N /\ Y = Z /\ next.items = J /\ next.tokens = more
        /\ next.truncated = truncated
    BY <1>1, <1>14, <2>5
  <2>9. ~(Q[p].depth < deep)
    BY <1>4, <1>5, <1>15
  <2>10. \A i \in 1..N : ~(i > N)
    BY <1>5
  <2>11. Extends(Q, N, P, M, p, F, deep)
    BY <1>5, <2>8, <2>9, <2>10 DEF Extends
  <2>12. Adds(X, Y, F[Q[p].subject] \ Upto(Q, N, p), "deeper-than-max-depth")
    BY <1>1, <1>5, <1>6, <1>9, <2>1, <2>2, <2>8 DEF Adds
  <2>13. TooDeep(Q, N, P, M, X, Y, p, F, deep)
    BY <2>8, <2>9, <2>12 DEF TooDeep
  <2>14. M <= N + Cardinality({f \in relations : f.from = s})
    <3>1. Cardinality({f \in relations : f.from = s}) \in Nat
      <4>1. {f \in relations : f.from = s} \subseteq Members(Facts) /\ IsFiniteSet(Members(Facts))
        BY RelationTypes
      <4> QED BY <4>1, FS_Subset, FS_CardinalityType
    <3> QED BY <1>5, <2>8, <3>1
  <2>15. Includes(request, view, next, n, e)
    BY <1>1, <1>2, <1>10, <1>14, <2>8, <2>11, <2>13, <2>14 DEF Includes
  <2> QED BY <1>1, <1>10, <2>7, <2>15
<1>16. CASE ~(e.depth >= deep)
  <2>1. PICK add : add = Deeper(In(Facts, fresh), e.depth + 1)
    OBVIOUS
  <2>2. fresh \in SUBSET relations
    BY <1>6, <1>8
  <2>3. /\ add \in Seq(Entry) /\ Len(add) = Cardinality(fresh) /\ Len(add) \in Nat
        /\ \A i \in 1..Len(add) : add[i].depth = e.depth + 1 /\ \E f \in fresh : add[i].subject = f.to
        /\ \A f \in fresh : \E i \in 1..Len(add) : add[i].subject = f.to
    <3>1. PICK depth : depth = e.depth + 1
      OBVIOUS
    <3>2. depth \in Nat /\ add = Deeper(In(Facts, fresh), depth)
      BY <1>5, <2>1, <3>1
    <3>3. Targets(add, fresh, depth)
      BY <2>2, <3>2, TargetsOf
    <3> QED BY <3>1, <3>3 DEF Targets
  <2>4. PICK R : R = Q \o add
    OBVIOUS
  <2>5. PICK taken : taken = Included(view, e)
    OBVIOUS
  <2>6. next = [taken EXCEPT !.queue = R]
    <3>1. taken.queue = Q
      BY <1>12, <2>5
    <3>2. next = [taken EXCEPT !.queue = @ \o add]
      BY <1>13, <1>16, <2>1, <2>5 DEF Queued
    <3> QED BY <2>4, <3>1, <3>2
  <2>7. next = [queue |-> R, items |-> J, excluded |-> X, tokens |-> more, truncated |-> truncated]
    BY <1>12, <2>5, <2>6
  <2>8. /\ R \in Seq(Entry) /\ Len(R) = N + Len(add)
        /\ \A i \in 1..N : R[i] = Q[i]
        /\ \A i \in 1..Len(add) : R[N + i] = add[i]
        /\ \A i \in 1..(N + Len(add)) :
             i \in 1..N \/ (i - N \in 1..Len(add) /\ R[i] = add[i - N])
    <3>1. /\ Q \o add \in Seq(Entry) /\ Len(Q \o add) = Len(Q) + Len(add)
          /\ \A i \in 1..Len(Q) : (Q \o add)[i] = Q[i]
          /\ \A i \in 1..Len(add) : (Q \o add)[Len(Q) + i] = add[i]
          /\ \A i \in 1..(Len(Q) + Len(add)) :
               i \in 1..Len(Q) \/ (i - Len(Q) \in 1..Len(add) /\ (Q \o add)[i] = add[i - Len(Q)])
      <4>1. Q \in Seq(Entry)
        BY <1>3
      <4>2. add \in Seq(Entry)
        BY <2>3
      <4> QED BY <4>1, <4>2, Joined
    <3> QED BY <1>1, <2>4, <3>1
  <2>9. next \in Views
    BY <1>3, <1>11, <2>7, <2>8 DEF Views
  <2>10. /\ P = R /\ M = N + Len(add) /\ Y = X /\ next.items = J /\ next.tokens = more
         /\ next.truncated = truncated
    BY <1>14, <2>7, <2>8
  <2>11. Q[p].depth < deep
    BY <1>4, <1>5, <1>16
  <2>12. M \in Nat /\ N <= M /\ P \in [1..M -> Entry]
    <3>1. Len(R) = M /\ R \in Seq(Entry)
      BY <2>8, <2>10
    <3> QED BY <1>5, <2>3, <2>10, <3>1, LenProperties
  <2>13. ASSUME NEW i \in 1..M, i > N
         PROVE  P[i].depth = Q[p].depth + 1 /\ P[i].subject \in F[Q[p].subject]
    <3>1. i - N \in 1..Len(add) /\ P[i] = add[i-N]
      BY <1>5, <2>8, <2>10, <2>13
    <3> QED BY <1>1, <1>5, <1>9, <2>3, <3>1
  <2>14. ASSUME NEW x \in F[Q[p].subject] PROVE \E i \in 1..M : P[i].subject = x /\ (i <= p \/ i > N)
    <3>1. CASE x \in visited
      <4>1. PICK i \in 1..N : i <= p /\ Q[i].subject = x
        BY <1>6, <3>1 DEF Upto
      <4>2. i \in 1..M /\ P[i] = Q[i]
        BY <1>5, <2>8, <2>10, <2>12
      <4> QED BY <4>1, <4>2
    <3>2. CASE x \notin visited
      <4>1. PICK i \in 1..Len(add) : add[i].subject = x
        BY <1>1, <1>5, <1>9, <2>3, <2>14, <3>2
      <4>2. N + i \in 1..M /\ N + i > N /\ P[N + i] = add[i]
        BY <1>5, <2>3, <2>8, <2>10
      <4> QED BY <4>1, <4>2
    <3> QED BY <3>1, <3>2
  <2>15. Extends(Q, N, P, M, p, F, deep)
    BY <2>8, <2>10, <2>11, <2>12, <2>13, <2>14 DEF Extends
  <2>16. TooDeep(Q, N, P, M, X, Y, p, F, deep)
    BY <2>10, <2>11 DEF TooDeep
  <2>17. M <= N + Cardinality({f \in relations : f.from = s})
    <3>1. PICK all : all = {f \in relations : f.from = s}
      OBVIOUS
    <3>2. all \subseteq Members(Facts) /\ IsFiniteSet(Members(Facts))
      BY <3>1, RelationTypes
    <3>3. IsFiniteSet(all) /\ Cardinality(all) \in Nat
      BY <3>2, FS_Subset, FS_CardinalityType
    <3>4. fresh \subseteq all
      BY <1>6, <1>8, <3>1
    <3>5. Cardinality(fresh) <= Cardinality(all)
      BY <3>3, <3>4, FS_Subset
    <3> QED BY <1>5, <2>3, <2>10, <3>1, <3>3, <3>5
  <2>18. Includes(request, view, next, n, e)
    BY <1>1, <1>2, <1>10, <1>14, <2>10, <2>15, <2>16, <2>17 DEF Includes
  <2> QED BY <1>1, <1>10, <2>9, <2>18
<1> QED BY <1>15, <1>16

LEMMA TakeStays ==
  ASSUME NEW request, NEW view, NEW n \in Nat, Len(view.queue) \in Nat,
         n + 1 \in 1..Len(view.queue),
         view.queue[n+1].subject \in Upto(view.queue, Len(view.queue), n)
  PROVE  Take(request, view, n + 1) = view
<1>1. view.queue[n+1].subject \in Before(view.queue, n + 1)
  BY UptoIs
<1> QED BY <1>1 DEF Take, Before

\* The n-th step.
ViewNext(request, view, n) == IF n > Len(view.queue) THEN view ELSE Take(request, view, n)

LEMMA ViewNextIs ==
  ASSUME ReadModelsTypes, NEW request \in Requests, NEW view \in Views, NEW n \in Nat, NEW e,
         e = view.queue[n+1], NEW next, next = ViewNext(request, view, n + 1)
  PROVE  /\ next \in Views
         /\ \/ /\ next = view
               /\ n + 1 \notin 1..Len(view.queue)
                  \/ e.subject \in Upto(view.queue, Len(view.queue), n)
            \/ n + 1 \in 1..Len(view.queue) /\ Refuses(request, view, next, n, e)
            \/ n + 1 \in 1..Len(view.queue) /\ Includes(request, view, next, n, e)
<1>1. view.queue \in Seq(Entry) /\ Len(view.queue) \in Nat
  <2>1. view.queue \in Seq(Entry)
    BY DEF Views
  <2> QED BY <2>1, LenProperties
<1>2. CASE n + 1 \notin 1..Len(view.queue)
  <2>1. n + 1 > Len(view.queue)
    BY <1>1, <1>2
  <2>2. next = view
    BY <2>1 DEF ViewNext
  <2> QED BY <1>2, <2>2
<1>3. CASE n + 1 \in 1..Len(view.queue)
  <2>1. next = Take(request, view, n + 1)
    BY <1>1, <1>3 DEF ViewNext
  <2>2. CASE e.subject \in Upto(view.queue, Len(view.queue), n)
    <3>1. next = view
      BY <1>1, <1>3, <2>1, <2>2, TakeStays
    <3> QED BY <2>2, <3>1
  <2>3. CASE e.subject \notin Upto(view.queue, Len(view.queue), n) /\ Barrier(request, view, e.subject) # "none"
    <3>1. next \in Views /\ Refuses(request, view, next, n, e)
      BY <1>3, <2>1, <2>3, TakeRefuses
    <3> QED BY <1>3, <3>1
  <2>4. CASE e.subject \notin Upto(view.queue, Len(view.queue), n) /\ Barrier(request, view, e.subject) = "none"
    <3>1. next \in Views /\ Includes(request, view, next, n, e)
      BY <1>3, <2>1, <2>4, TakeIncludes
    <3> QED BY <1>3, <3>1
  <2> QED BY <2>2, <2>3, <2>4
<1> QED BY <1>2, <1>3

\* With the roots in the queue.
ViewFirst(request) ==
  [queue |-> [i \in DOMAIN request.roots |-> [subject |-> request.roots[i], depth |-> 0]],
   items |-> << >>, excluded |-> {}, tokens |-> 0, truncated |-> FALSE]

LEMMA ViewFirstIs ==
  ASSUME NEW request \in Requests
  PROVE  /\ ViewFirst(request) \in Views
         /\ Len(ViewFirst(request).queue) = Len(request.roots)
         /\ \A i \in 1..Len(request.roots) : ViewFirst(request).queue[i] = [subject |-> request.roots[i], depth |-> 0]
         /\ ViewFirst(request).items = << >> /\ ViewFirst(request).excluded = {}
         /\ ViewFirst(request).tokens = 0 /\ ViewFirst(request).truncated = FALSE
<1>1. PICK roots, Q, N : /\ roots = request.roots /\ Q = ViewFirst(request).queue /\ N = Len(roots)
  OBVIOUS
<1>2. N \in Nat /\ roots \in Seq(Subjects) /\ DOMAIN roots = 1..N /\ \A i \in 1..N : roots[i] \in Subjects
  <2>1. roots \in Seq(Subjects)
    BY <1>1, RequestTypes
  <2> QED BY <1>1, <2>1, LenProperties, ElementOfSeq
<1>3. Q = [i \in 1..N |-> [subject |-> roots[i], depth |-> 0]]
  BY <1>1, <1>2 DEF ViewFirst
<1>4. \A i \in 1..N : [subject |-> roots[i], depth |-> 0] \in Entry
  BY <1>2 DEF Entry
<1>5. Q \in Seq(Entry) /\ Len(Q) = N
  BY <1>2, <1>3, <1>4
<1>6. ViewFirst(request) =
        [queue |-> Q, items |-> << >>, excluded |-> {}, tokens |-> 0, truncated |-> FALSE]
  BY <1>1 DEF ViewFirst
<1>7. << >> \in Seq(Entry) /\ {} \in SUBSET Exclusion
  OBVIOUS
<1>8. ViewFirst(request) \in Views
  BY <1>5, <1>6, <1>7 DEF Views
<1>9. \A i \in 1..N : Q[i] = [subject |-> roots[i], depth |-> 0]
  BY <1>3
<1>10. /\ ViewFirst(request).queue = Q /\ ViewFirst(request).items = << >>
       /\ ViewFirst(request).excluded = {} /\ ViewFirst(request).tokens = 0
       /\ ViewFirst(request).truncated = FALSE
  BY <1>6
<1> QED BY <1>1, <1>5, <1>8, <1>9, <1>10

LEMMA ViewRunsIs ==
  ASSUME ReadModelsTypes, NEW request \in Requests
  PROVE  /\ ViewRuns(request)[0] = ViewFirst(request)
         /\ \A n \in 1..(Len(request.roots) + Len(Facts)) : ViewRuns(request)[n] =
              ViewNext(request, ViewRuns(request)[n-1], n)
         /\ \A n \in 0..(Len(request.roots) + Len(Facts)) : ViewRuns(request)[n] \in Views
<1> DEFINE k == (Len(request.roots) + Len(Facts))
           V == Views
           first == ViewFirst(request)
           Step(n, view) == ViewNext(request, view, n)
           Is(f) == f = [n \in 0..k |-> IF n = 0 THEN first ELSE Step(n, f[n-1])]
<1>1. ViewRuns(request) = CHOOSE f : Is(f)
  BY DEF ViewRuns, ViewNext, ViewFirst
<1>2. k \in Nat /\ first \in V
  <2>1. Len(Facts) \in Nat /\ Len(request.roots) \in Nat
    BY RelationTypes, RequestTypes
  <2>2. ViewFirst(request) \in Views
    BY ViewFirstIs
  <2> QED BY <2>1, <2>2
<1>3. ASSUME NEW n \in 1..k, NEW view \in V PROVE Step(n, view) \in V
  <2>1. PICK m : m = n - 1
    OBVIOUS
  <2>2. m \in Nat /\ m + 1 = n
    BY <1>2, <2>1
  <2>3. ViewNext(request, view, m + 1) \in Views
    BY <1>3, <2>2, ViewNextIs
  <2> QED BY <2>2, <2>3
<1> HIDE DEF k, V, first, Step
<1>4. \E f : Is(f)
  <2> DEFINE next == [n \in 1..k |-> [v \in V |-> Step(n, v)]]
  <2>1. next \in [1..k -> [V -> V]] /\ \A n \in 1..k, v \in V : next[n][v] = Step(n, v)
    BY <1>3
  <2> HIDE DEF next
  <2>2. PICK f \in [0..k -> V] : f[0] = first /\ \A n \in 1..k : f[n] = next[n][f[n-1]]
    <3>1. \E f \in [0..k -> V] : Follows(f, k, first, next)
      BY <1>2, <2>1, Recursion
    <3> QED BY <3>1 DEF Follows
  <2>3. ASSUME NEW n \in 0..k PROVE f[n] = IF n = 0 THEN first ELSE Step(n, f[n-1])
    BY <1>2, <2>1, <2>2
  <2>4. Is(f)
    BY <2>3
  <2> QED BY <2>4
<1>5. PICK g : Is(g) /\ ViewRuns(request) = g
  BY <1>1, <1>4
<1>6. g[0] = first
  BY <1>2, <1>5
<1>7. \A n \in 1..k : g[n] = Step(n, g[n-1])
  BY <1>2, <1>5
<1>8. \A n \in 0..k : g[n] \in V
  BY <1>2, <1>3, <1>6, <1>7, RecursionStays
<1>9. ASSUME NEW n \in 1..k PROVE ViewRuns(request)[n] = ViewNext(request, ViewRuns(request)[n-1], n)
  <2>1. PICK v : v = g[n-1]
    OBVIOUS
  <2>2. g[n] = ViewNext(request, v, n)
    BY <1>7, <2>1 DEF Step
  <2> QED BY <1>5, <2>1, <2>2
<1> QED BY <1>5, <1>6, <1>8, <1>9 DEF k, V, first

LEMMA TokensIs ==
  ASSUME NEW items \in Seq(Entry)
  PROVE  /\ Tokens(items)[0] = 0
         /\ \A n \in 1..Len(items) : Tokens(items)[n] = Tokens(items)[n-1] + Size[items[n].subject]
         /\ \A n \in 0..Len(items) : Tokens(items)[n] \in Nat
<1> DEFINE k == Len(items)
           V == Nat
           first == 0
           Step(n, sum) == sum + Size[items[n].subject]
           Is(f) == f = [n \in 0..k |-> IF n = 0 THEN first ELSE Step(n, f[n-1])]
<1>1. Tokens(items) = CHOOSE f : Is(f)
  BY DEF Tokens
<1>2. k \in Nat /\ first \in V
  <2>1. Len(items) \in Nat
    BY LenProperties
  <2> QED BY <2>1
<1>3. ASSUME NEW n \in 1..k, NEW sum \in V PROVE Step(n, sum) \in V
  <2>1. items[n] \in Entry
    BY <1>3, ElementOfSeq
  <2>2. Size[items[n].subject] \in Nat
    BY <2>1, ReadModelsAssumption DEF Entry
  <2> QED BY <1>3, <2>2
<1> HIDE DEF k, V, first, Step
<1>4. \E f : Is(f)
  <2> DEFINE next == [n \in 1..k |-> [v \in V |-> Step(n, v)]]
  <2>1. next \in [1..k -> [V -> V]] /\ \A n \in 1..k, v \in V : next[n][v] = Step(n, v)
    BY <1>3
  <2> HIDE DEF next
  <2>2. PICK f \in [0..k -> V] : f[0] = first /\ \A n \in 1..k : f[n] = next[n][f[n-1]]
    <3>1. \E f \in [0..k -> V] : Follows(f, k, first, next)
      BY <1>2, <2>1, Recursion
    <3> QED BY <3>1 DEF Follows
  <2>3. ASSUME NEW n \in 0..k PROVE f[n] = IF n = 0 THEN first ELSE Step(n, f[n-1])
    BY <1>2, <2>1, <2>2
  <2>4. Is(f)
    BY <2>3
  <2> QED BY <2>4
<1>5. PICK g : Is(g) /\ Tokens(items) = g
  BY <1>1, <1>4
<1>6. g[0] = first
  BY <1>2, <1>5
<1>7. \A n \in 1..k : g[n] = Step(n, g[n-1])
  BY <1>2, <1>5
<1>8. \A n \in 0..k : g[n] \in V
  BY <1>2, <1>3, <1>6, <1>7, RecursionStays
<1>9. ASSUME NEW n \in 1..k PROVE Tokens(items)[n] = Tokens(items)[n-1] + Size[items[n].subject]
  <2>1. PICK v : v = g[n-1]
    OBVIOUS
  <2>2. g[n] = v + Size[items[n].subject]
    BY <1>7, <2>1 DEF Step
  <2> QED BY <1>5, <2>1, <2>2
<1> QED BY <1>5, <1>6, <1>8, <1>9 DEF k, V, first

LEMMA TokensMore ==
  ASSUME NEW items \in Seq(Entry), NEW e \in Entry
  PROVE  Tokens(Append(items, e))[Len(Append(items, e))] = Tokens(items)[Len(items)] + Size[e.subject]
<1>1. PICK longer, k : longer = Append(items, e) /\ k = Len(items)
  OBVIOUS
<1>2. /\ k \in Nat /\ longer \in Seq(Entry) /\ Len(longer) = k + 1
      /\ \A i \in 1..k : longer[i] = items[i]
      /\ longer[k+1] = e
  <2>1. k \in Nat
    BY <1>1, LenProperties
  <2> QED BY <1>1, <2>1, AppendProperties
<1>3. PICK S, R : S = Tokens(items) /\ R = Tokens(longer)
  OBVIOUS
<1>4. S[0] = 0 /\ \A n \in 1..k : S[n] = S[n-1] + Size[items[n].subject]
  BY <1>1, <1>3, TokensIs
<1>5. R[0] = 0 /\ \A n \in 1..(k+1) : R[n] = R[n-1] + Size[longer[n].subject]
  BY <1>2, <1>3, TokensIs
<1> DEFINE Same == {n \in 0..k : R[n] = S[n]}
<1>6. 0 \in Same
  BY <1>2, <1>4, <1>5
<1>7. ASSUME NEW n \in 0..(k-1), n \in Same PROVE n + 1 \in Same
  <2>1. n + 1 \in 1..k /\ n + 1 \in 1..(k+1) /\ n + 1 \in 0..k /\ (n + 1) - 1 = n
    BY <1>2
  <2> QED BY <1>2, <1>4, <1>5, <1>7, <2>1
<1>8. k \in Same
  <2> HIDE DEF Same
  <2>1. \A n \in 0..k : n \in Same
    BY <1>2, <1>6, <1>7, InductionUpTo
  <2> QED BY <1>2, <2>1
<1>9. R[k+1] = R[k] + Size[longer[k+1].subject]
  <2>1. k + 1 \in 1..(k+1) /\ (k + 1) - 1 = k
    BY <1>2
  <2> QED BY <1>5, <2>1
<1>10. R[k+1] = S[k] + Size[e.subject]
  BY <1>2, <1>8, <1>9
<1> QED BY <1>1, <1>2, <1>3, <1>10

\* The relations from what was taken, each of which put one entry in the queue at
\* most.
SentBy(S) == {f \in relations : f.from \in S}

LEMMA SentByIs ==
  ASSUME ReadModelsTypes, NEW S
  PROVE  /\ Cardinality(SentBy(S)) \in Nat /\ Cardinality(SentBy(S)) <= Len(Facts)
         /\ \A x : x \notin S =>
              /\ Cardinality({f \in relations : f.from = x}) \in Nat
              /\ Cardinality(SentBy(S \cup {x})) =
                   Cardinality(SentBy(S)) + Cardinality({f \in relations : f.from = x})
<1>1. IsFiniteSet(Members(Facts)) /\ Cardinality(Members(Facts)) = Len(Facts)
  BY RelationTypes
<1>2. \A F \in SUBSET relations : /\ IsFiniteSet(F) /\ Cardinality(F) \in Nat
                                 /\ Cardinality(F) <= Len(Facts)
  <2>1. relations \subseteq Members(Facts)
    BY RelationTypes
  <2> QED BY <1>1, <2>1, FS_Subset, FS_CardinalityType
<1>3. SentBy(S) \in SUBSET relations
  BY DEF SentBy
<1>4. ASSUME NEW x, x \notin S
      PROVE  /\ Cardinality({f \in relations : f.from = x}) \in Nat
             /\ Cardinality(SentBy(S \cup {x})) =
                  Cardinality(SentBy(S)) + Cardinality({f \in relations : f.from = x})
  <2>1. PICK A, B, C : /\ A = SentBy(S) /\ B = {f \in relations : f.from = x}
                       /\ C = SentBy(S \cup {x})
    OBVIOUS
  <2>2. A \in SUBSET relations /\ B \in SUBSET relations
    BY <2>1 DEF SentBy
  <2>3. C = A \cup B /\ A \cap B = {}
    BY <1>4, <2>1 DEF SentBy
  <2>4. Cardinality(A \cup B) = Cardinality(A) + Cardinality(B) - Cardinality(A \cap B)
    BY <1>2, <2>2, FS_Union
  <2>5. Cardinality(A \cap B) = 0
    BY <2>3, FS_EmptySet
  <2>6. Cardinality(A) \in Nat /\ Cardinality(B) \in Nat
    BY <1>2, <2>2
  <2>7. Cardinality(C) = Cardinality(A) + Cardinality(B)
    BY <2>3, <2>4, <2>5, <2>6
  <2> QED BY <2>1, <2>6, <2>7
<1> QED BY <1>2, <1>3, <1>4

ViewSum(view, budget) ==
  /\ view.tokens = Tokens(view.items)[Len(view.items)] /\ view.tokens <= budget
  /\ \A i, j \in 1..Len(view.items) : view.items[i].subject = view.items[j].subject => i = j

ViewShort(request, view, n) ==
  Len(view.queue) <= Len(request.roots) + Cardinality(SentBy(Upto(view.queue, Len(view.queue), n)))

\* The reasons that are there from the beginning are true.
Reasoned(request, X) ==
  \A x \in X : /\ x.reason = "unknown-subject" => x.subject \notin subjects
               /\ x.reason = "authority-class" => ~Allowed(request, Authority[x.subject])
               /\ x.reason = "last-touched-before-cutoff" => x.subject \in Stale

\* All of it, after n steps.
ViewHas(request, view, n) ==
  LET Q == view.queue
      N == Len(view.queue)
      I == Members(view.items)
      X == view.excluded
      F == FollowedBy(request)
      deep == request.maxDepth
  IN /\ ViewQueue(Q, N, I, n, F, Members(request.roots), deep)
     /\ ViewItems(Q, N, I, n, F, deep)
     /\ ViewExcluded(Q, N, I, X, n, F, deep)
     /\ ViewBudget(Q, N, I, X, n, view.tokens, view.truncated, request.budget)
     /\ ViewSum(view, request.budget) /\ ViewShort(request, view, n) /\ Reasoned(request, X)

LEMMA ViewTypesAre ==
  ASSUME NEW view \in Views, NEW n \in Nat
  PROVE  /\ ViewTypes(view.queue, Len(view.queue), Members(view.items), n)
         /\ Len(view.queue) \in Nat /\ view.queue \in [1..Len(view.queue) -> Entry]
         /\ view.items \in Seq(Entry) /\ Members(view.items) \in SUBSET Entry
         /\ view.excluded \in SUBSET Exclusion /\ view.tokens \in Nat
         /\ view.truncated \in BOOLEAN
         /\ \A x \in view.excluded : x.subject \in Subjects /\ x.reason \in Reasons
<1>1. /\ view.queue \in Seq(Entry) /\ view.items \in Seq(Entry)
      /\ view.excluded \in SUBSET Exclusion /\ view.tokens \in Nat /\ view.truncated \in BOOLEAN
  BY DEF Views
<1>2. PICK Q, items : Q = view.queue /\ items = view.items
  OBVIOUS
<1>3. Q \in Seq(Entry) /\ items \in Seq(Entry)
  BY <1>1, <1>2
<1>4. Len(Q) \in Nat /\ Q \in [1..Len(Q) -> Entry]
  BY <1>3, LenProperties
<1>5. Members(items) \in SUBSET Entry
  BY <1>3, MembersOf
<1>6. \A x \in Exclusion : x.subject \in Subjects /\ x.reason \in Reasons
  BY DEF Exclusion
<1> QED BY <1>1, <1>2, <1>4, <1>5, <1>6 DEF ViewTypes

LEMMA ViewHasWaits ==
  ASSUME ReadModelsTypes, NEW request \in Requests, NEW view \in Views, NEW n \in Nat,
         ViewHas(request, view, n),
         n + 1 \notin 1..Len(view.queue)
         \/ view.queue[n+1].subject \in Upto(view.queue, Len(view.queue), n)
  PROVE  ViewHas(request, view, n + 1)
<1>1. PICK Q, N, I, X, F, deep, roots :
        /\ Q = view.queue /\ N = Len(Q) /\ I = Members(view.items) /\ X = view.excluded
        /\ F = FollowedBy(request) /\ deep = request.maxDepth /\ roots = Members(request.roots)
  OBVIOUS
<1>2. ViewTypes(Q, N, I, n) /\ N \in Nat
  BY <1>1, ViewTypesAre
<1>3. Upto(Q, N, n + 1) = Upto(Q, N, n)
  <2>1. n + 1 \in 1..N => Upto(Q, N, n + 1) = Upto(Q, N, n) \cup {Q[n+1].subject}
    BY <1>2, UptoNext
  <2>2. n + 1 \notin 1..N => Upto(Q, N, n + 1) = Upto(Q, N, n)
    BY <1>2, UptoNext
  <2> QED BY <1>1, <2>1, <2>2
<1>4. /\ ViewQueue(Q, N, I, n, F, roots, deep) /\ ViewItems(Q, N, I, n, F, deep)
      /\ ViewExcluded(Q, N, I, X, n, F, deep)
      /\ ViewBudget(Q, N, I, X, n, view.tokens, view.truncated, request.budget)
      /\ ViewSum(view, request.budget) /\ ViewShort(request, view, n) /\ Reasoned(request, X)
  BY <1>1 DEF ViewHas
<1>5. ViewQueue(Q, N, I, n + 1, F, roots, deep) /\ ViewItems(Q, N, I, n + 1, F, deep)
  BY <1>2, <1>4, ViewWaits
<1>6. /\ ViewExcluded(Q, N, I, X, n + 1, F, deep)
      /\ ViewBudget(Q, N, I, X, n + 1, view.tokens, view.truncated, request.budget)
  BY <1>3, <1>4, ViewStays
<1>7. ViewShort(request, view, n + 1)
  BY <1>1, <1>3, <1>4 DEF ViewShort
<1> QED BY <1>1, <1>4, <1>5, <1>6, <1>7 DEF ViewHas

LEMMA BarrierMeans ==
  ASSUME NEW request, NEW view, NEW s, NEW b, b = Barrier(request, view, s)
  PROVE  /\ b = "unknown-subject" => s \notin subjects
         /\ b = "authority-class" => ~Allowed(request, Authority[s])
         /\ b = "last-touched-before-cutoff" => s \in Stale
         /\ b = "token-budget-exhausted" => view.tokens + Size[s] > request.budget
         /\ b = "none" => ~(view.tokens + Size[s] > request.budget)
BY DEF Barrier

LEMMA ViewHasRefuses ==
  ASSUME ReadModelsTypes, NEW request \in Requests, NEW view \in Views, NEW n \in Nat,
         ViewHas(request, view, n), n + 1 \in 1..Len(view.queue),
         NEW next \in Views, Refuses(request, view, next, n, view.queue[n+1])
  PROVE  ViewHas(request, next, n + 1)
<1>1. PICK Q, N, I, X, F, deep, roots, Y, s, b, budget :
        /\ Q = view.queue /\ N = Len(Q) /\ I = Members(view.items) /\ X = view.excluded
        /\ F = FollowedBy(request) /\ deep = request.maxDepth /\ roots = Members(request.roots)
        /\ Y = next.excluded /\ s = Q[n+1].subject /\ b = Barrier(request, view, s)
        /\ budget = request.budget
  OBVIOUS
<1>2. PICK tokens, truncated, later :
        tokens = view.tokens /\ truncated = view.truncated /\ later = next.truncated
  OBVIOUS
<1>3. /\ ViewTypes(Q, N, I, n) /\ N \in Nat /\ I \in SUBSET Entry /\ tokens \in Nat
      /\ truncated \in BOOLEAN /\ \A x \in X : x.reason \in Reasons
  BY <1>1, <1>2, ViewTypesAre
<1>5. n + 1 \in 1..N /\ budget \in Nat
  BY <1>1, RequestTypes
<1>6. /\ s \notin Upto(Q, N, n) /\ b \in Reasons /\ b # "deeper-than-max-depth"
      /\ next.queue = Q /\ next.items = view.items /\ next.tokens = tokens
      /\ Adds(X, Y, {s}, b)
      /\ later = TRUE <=> truncated = TRUE \/ b = "token-budget-exhausted"
  BY <1>1, <1>2 DEF Refuses
<1>7. /\ ViewQueue(Q, N, I, n, F, roots, deep) /\ ViewItems(Q, N, I, n, F, deep)
      /\ ViewExcluded(Q, N, I, X, n, F, deep)
      /\ ViewBudget(Q, N, I, X, n, tokens, truncated, budget)
      /\ ViewSum(view, budget) /\ ViewShort(request, view, n) /\ Reasoned(request, X)
  BY <1>1, <1>2 DEF ViewHas
<1>8. ViewQueue(Q, N, I, n + 1, F, roots, deep) /\ ViewItems(Q, N, I, n + 1, F, deep)
  BY <1>3, <1>7, ViewWaits
<1>9. ViewExcluded(Q, N, I, Y, n + 1, F, deep)
  BY <1>1, <1>3, <1>5, <1>6, <1>7, ViewExcludedRefuses
<1>10. \A e \in I : e.subject \in Upto(Q, N, n)
  BY <1>7 DEF ViewItems, Upto
<1>11. b = "token-budget-exhausted" => tokens + Size[s] > budget
  BY <1>1, <1>2, BarrierMeans
<1>12. ViewBudget(Q, N, I, Y, n + 1, tokens, later, budget)
  <2>1. /\ Q[n+1].subject \notin Upto(Q, N, n) /\ Adds(X, Y, {Q[n+1].subject}, b)
        /\ Overruns(Q[n+1].subject, tokens, b, budget)
    BY <1>1, <1>6, <1>11 DEF Overruns
  <2>2. /\ N \in Nat /\ I \in SUBSET Entry /\ n \in Nat /\ n + 1 \in 1..N
        /\ ViewExcluded(Q, N, I, X, n, F, deep)
    BY <1>3, <1>5, <1>7
  <2>3. /\ tokens \in Nat /\ truncated \in BOOLEAN /\ budget \in Nat
        /\ ViewBudget(Q, N, I, X, n, tokens, truncated, budget)
    BY <1>3, <1>5, <1>7
  <2>4. Marks(later, truncated, b)
    BY <1>6 DEF Marks
  <2> QED BY <1>10, <2>1, <2>2, <2>3, <2>4, ViewBudgetRefuses
<1>13. ViewSum(next, budget)
  BY <1>2, <1>6, <1>7 DEF ViewSum
<1>14. ViewShort(request, next, n + 1)
  <2>1. Upto(Q, N, n + 1) = Upto(Q, N, n) \cup {s}
    <3>1. Upto(Q, N, n + 1) = Upto(Q, N, n) \cup {Q[n+1].subject}
      BY <1>3, <1>5, UptoNext
    <3> QED BY <1>1, <3>1
  <2>2. PICK S : S = Upto(Q, N, n)
    OBVIOUS
  <2>3. /\ Cardinality(SentBy(S)) \in Nat
        /\ Cardinality({f \in relations : f.from = s}) \in Nat
        /\ Cardinality(SentBy(S \cup {s})) =
             Cardinality(SentBy(S)) + Cardinality({f \in relations : f.from = s})
    BY <1>6, <2>2, SentByIs
  <2>4. N <= Len(request.roots) + Cardinality(SentBy(S))
    BY <1>1, <1>7, <2>2 DEF ViewShort
  <2>5. Len(request.roots) \in Nat
    BY RequestTypes
  <2>6. N <= Len(request.roots) + Cardinality(SentBy(S \cup {s}))
    BY <1>3, <2>3, <2>4, <2>5
  <2> QED BY <1>1, <1>6, <2>1, <2>2, <2>6 DEF ViewShort
<1>15. Reasoned(request, Y)
  <2>1. X \subseteq Y /\ \A y \in Y : y \notin X => y.subject \in {s} \ SubjectsOf(X) /\ y.reason = b
    BY <1>6, AddsIs
  <2>2. /\ b = "unknown-subject" => s \notin subjects
        /\ b = "authority-class" => ~Allowed(request, Authority[s])
        /\ b = "last-touched-before-cutoff" => s \in Stale
    BY <1>1, BarrierMeans
  <2>3. ASSUME NEW x \in Y
        PROVE  /\ x.reason = "unknown-subject" => x.subject \notin subjects
               /\ x.reason = "authority-class" => ~Allowed(request, Authority[x.subject])
               /\ x.reason = "last-touched-before-cutoff" => x.subject \in Stale
    <3>1. CASE x \in X
      BY <1>7, <3>1 DEF Reasoned
    <3>2. CASE x \notin X
      <4>1. x.subject = s /\ x.reason = b
        BY <2>1, <3>2
      <4> QED BY <2>2, <4>1
    <3> QED BY <3>1, <3>2
  <2> QED BY <2>3 DEF Reasoned
<1>16. Len(next.queue) = N /\ Members(next.items) = I
  BY <1>1, <1>6
<1> QED BY <1>1, <1>2, <1>6, <1>8, <1>9, <1>12, <1>13, <1>14, <1>15, <1>16 DEF ViewHas

LEMMA AppendedIs ==
  ASSUME NEW items \in Seq(Entry), NEW e \in Entry
  PROVE  /\ Members(Append(items, e)) = Members(items) \cup {e}
         /\ Append(items, e) \in Seq(Entry) /\ Len(Append(items, e)) = Len(items) + 1
         /\ Len(items) \in Nat
         /\ \A i \in 1..Len(items) : Append(items, e)[i] = items[i]
         /\ Append(items, e)[Len(items) + 1] = e
<1>1. PICK longer, k : longer = Append(items, e) /\ k = Len(items)
  OBVIOUS
<1>2. k \in Nat /\ DOMAIN items = 1..k
  BY <1>1, LenProperties
<1>3. /\ longer \in Seq(Entry) /\ Len(longer) = k + 1
      /\ \A i \in 1..k : longer[i] = items[i]
      /\ longer[k+1] = e
  BY <1>1, <1>2, AppendProperties
<1>4. DOMAIN longer = 1..(k+1)
  BY <1>3, LenProperties
<1>5. \A i \in 1..(k+1) : i \in 1..k \/ i = k + 1
  BY <1>2
<1>6. (\A i \in 1..k : i \in 1..(k+1)) /\ k + 1 \in 1..(k+1)
  BY <1>2
<1>7. Members(longer) = Members(items) \cup {e}
  BY <1>2, <1>3, <1>4, <1>5, <1>6 DEF Members
<1> QED BY <1>1, <1>2, <1>3, <1>7

LEMMA ViewSumTakes ==
  ASSUME NEW view \in Views, NEW next \in Views, NEW e \in Entry, NEW budget \in Nat,
         ViewSum(view, budget), next.items = Append(view.items, e),
         next.tokens = view.tokens + Size[e.subject],
         ~(view.tokens + Size[e.subject] > budget),
         \A x \in Members(view.items) : x.subject # e.subject
  PROVE  ViewSum(next, budget)
<1>1. PICK items, longer, k, s, tokens :
        /\ items = view.items /\ longer = next.items /\ k = Len(items) /\ s = e.subject
        /\ tokens = view.tokens
  OBVIOUS
<1>2. items \in Seq(Entry) /\ tokens \in Nat /\ s \in Subjects
  BY <1>1 DEF Views, Entry
<1>3. Size[s] \in Nat
  BY <1>2, ReadModelsAssumption
<1>4. /\ longer = Append(items, e) /\ Len(longer) = k + 1 /\ k \in Nat
      /\ \A i \in 1..k : longer[i] = items[i]
      /\ longer[k+1] = e
  BY <1>1, <1>2, AppendedIs
<1>5. tokens = Tokens(items)[k] /\ \A i, j \in 1..k : items[i].subject = items[j].subject => i = j
  BY <1>1 DEF ViewSum
<1>6. next.tokens = Tokens(longer)[Len(longer)]
  <2>1. Tokens(longer)[Len(longer)] = Tokens(items)[k] + Size[s]
    BY <1>1, <1>2, <1>4, TokensMore
  <2> QED BY <1>1, <1>5, <2>1
<1>7. next.tokens <= budget
  BY <1>1, <1>2, <1>3
<1>8. \A i \in 1..k : items[i].subject # s
  BY <1>1, <1>2, MembersOf
<1>9. ASSUME NEW i \in 1..(k+1), NEW j \in 1..(k+1), longer[i].subject = longer[j].subject
      PROVE  i = j
  <2>1. (i \in 1..k \/ i = k + 1) /\ (j \in 1..k \/ j = k + 1)
    BY <1>4
  <2>2. CASE i \in 1..k /\ j \in 1..k
    BY <1>4, <1>5, <1>9, <2>2
  <2>3. ~(i \in 1..k /\ j = k + 1) /\ ~(j \in 1..k /\ i = k + 1)
    BY <1>1, <1>4, <1>8, <1>9
  <2> QED BY <2>1, <2>2, <2>3
<1> QED BY <1>1, <1>4, <1>6, <1>7, <1>9 DEF ViewSum

LEMMA ViewHasIncludes ==
  ASSUME ReadModelsTypes, NEW request \in Requests, NEW view \in Views, NEW n \in Nat,
         ViewHas(request, view, n), n + 1 \in 1..Len(view.queue),
         NEW next \in Views, Includes(request, view, next, n, view.queue[n+1])
  PROVE  ViewHas(request, next, n + 1)
<1>1. PICK Q, N, I, X, F, deep, roots, Y, e, budget :
        /\ Q = view.queue /\ N = Len(Q) /\ I = Members(view.items) /\ X = view.excluded
        /\ F = FollowedBy(request) /\ deep = request.maxDepth /\ roots = Members(request.roots)
        /\ Y = next.excluded /\ e = Q[n+1] /\ budget = request.budget
  OBVIOUS
<1>2. PICK tokens, truncated, P, M, J :
        /\ tokens = view.tokens /\ truncated = view.truncated /\ P = next.queue /\ M = Len(P)
        /\ J = Members(next.items)
  OBVIOUS
<1>3. /\ ViewTypes(Q, N, I, n) /\ N \in Nat /\ I \in SUBSET Entry /\ tokens \in Nat
      /\ Q \in [1..N -> Entry] /\ \A x \in X : x.subject \in Subjects
  BY <1>1, <1>2, ViewTypesAre
<1>4. n + 1 \in 1..N /\ budget \in Nat /\ deep \in Nat /\ Size \in [Subjects -> Nat]
  BY <1>1, RequestTypes
<1>5. e \in Entry /\ e.subject \in Subjects
  BY <1>1, <1>3, <1>4 DEF Entry
<1>6. /\ e.subject \notin Upto(Q, N, n) /\ Barrier(request, view, e.subject) = "none"
      /\ next.items = Append(view.items, e) /\ next.tokens = tokens + Size[e.subject]
      /\ next.truncated = truncated
      /\ Extends(Q, N, P, M, n + 1, F, deep) /\ TooDeep(Q, N, P, M, X, Y, n + 1, F, deep)
      /\ M <= N + Cardinality({f \in relations : f.from = e.subject})
  BY <1>1, <1>2 DEF Includes
<1>7. /\ ViewQueue(Q, N, I, n, F, roots, deep) /\ ViewItems(Q, N, I, n, F, deep)
      /\ ViewExcluded(Q, N, I, X, n, F, deep)
      /\ ViewBudget(Q, N, I, X, n, tokens, truncated, budget)
      /\ ViewSum(view, budget) /\ ViewShort(request, view, n) /\ Reasoned(request, X)
  BY <1>1, <1>2 DEF ViewHas
<1>8. J = I \cup {Q[n+1]}
  <2>1. view.items \in Seq(Entry)
    BY DEF Views
  <2> QED BY <1>1, <1>2, <1>5, <1>6, <2>1, AppendedIs
<1>9. Q[n+1].subject \notin Upto(Q, N, n)
  BY <1>1, <1>6
<1>10. ViewQueue(P, M, J, n + 1, F, roots, deep)
  <2>1. ViewQueue(P, M, I \cup {Q[n+1]}, n + 1, F, roots, deep)
    BY <1>3, <1>4, <1>6, <1>7, ViewQueueTakes
  <2> QED BY <1>8, <2>1
<1>11. ViewItems(P, M, J, n + 1, F, deep)
  <2>1. ViewItems(P, M, I \cup {Q[n+1]}, n + 1, F, deep)
    BY <1>3, <1>4, <1>6, <1>7, <1>9, ViewItemsTakes
  <2> QED BY <1>8, <2>1
<1>12. ViewExcluded(P, M, J, Y, n + 1, F, deep) /\ Upto(P, M, n + 1) = Upto(Q, N, n) \cup {e.subject}
  <2>1. /\ ViewExcluded(P, M, I \cup {Q[n+1]}, Y, n + 1, F, deep)
        /\ Upto(P, M, n + 1) = Upto(Q, N, n) \cup {Q[n+1].subject}
    <3>1. /\ ViewTypes(Q, N, I, n) /\ n + 1 \in 1..N /\ deep \in Nat
          /\ ViewQueue(Q, N, I, n, F, roots, deep) /\ ViewExcluded(Q, N, I, X, n, F, deep)
          /\ Extends(Q, N, P, M, n + 1, F, deep) /\ TooDeep(Q, N, P, M, X, Y, n + 1, F, deep)
      BY <1>3, <1>4, <1>6, <1>7
    <3> QED BY ONLY <3>1, ViewExcludedTakes
  <2> QED BY <1>1, <1>8, <2>1
<1>13. X \subseteq Y /\ \A y \in Y : y \in X \/ y.reason = "deeper-than-max-depth"
  BY <1>6, TooDeepIs
<1>14. ViewBudget(P, M, J, Y, n + 1, next.tokens, truncated, budget)
  <2>1. (\A x \in X : Size[x.subject] \in Nat) /\ Size[e.subject] \in Nat
    BY <1>3, <1>4, <1>5
  <2>2. ViewBudget(P, M, I \cup {e}, Y, n + 1, tokens + Size[e.subject], truncated, budget)
    BY <1>3, <1>4, <1>6, <1>7, <1>12, <1>13, <2>1, ViewBudgetTakes
  <2> QED BY <1>1, <1>6, <1>8, <2>2
<1>15. ViewSum(next, budget)
  <2>1. ~(view.tokens + Size[e.subject] > budget)
    <3>1. PICK b : b = Barrier(request, view, e.subject)
      OBVIOUS
    <3>2. b = "none"
      BY <1>6, <3>1
    <3> QED BY <1>1, <3>1, <3>2, BarrierMeans
  <2>2. \A x \in I : x.subject \in Upto(Q, N, n)
    BY <1>7 DEF ViewItems, Upto
  <2>3. \A x \in Members(view.items) : x.subject # e.subject
    BY <1>1, <1>6, <2>2
  <2>4. next.tokens = view.tokens + Size[e.subject]
    BY <1>2, <1>6
  <2> QED BY <1>4, <1>5, <1>6, <1>7, <2>1, <2>3, <2>4, ViewSumTakes
<1>16. ViewShort(request, next, n + 1)
  <2>1. PICK S, s, sent : S = Upto(Q, N, n) /\ s = e.subject /\ sent = Cardinality({f \in relations : f.from = s})
    OBVIOUS
  <2>2. /\ Cardinality(SentBy(S)) \in Nat /\ sent \in Nat
        /\ Cardinality(SentBy(S \cup {s})) = Cardinality(SentBy(S)) + sent
    <3>1. s \notin S
      BY <1>6, <2>1
    <3>2. /\ Cardinality(SentBy(S)) \in Nat
          /\ Cardinality({f \in relations : f.from = s}) \in Nat
          /\ Cardinality(SentBy(S \cup {s})) =
               Cardinality(SentBy(S)) + Cardinality({f \in relations : f.from = s})
      BY <3>1, SentByIs
    <3>3. sent = Cardinality({f \in relations : f.from = s})
      BY <2>1
    <3> QED BY <3>2, <3>3
  <2>3. N <= Len(request.roots) + Cardinality(SentBy(S)) /\ M <= N + sent
    BY <1>1, <1>6, <1>7, <2>1 DEF ViewShort
  <2>4. Len(request.roots) \in Nat /\ M \in Nat
    BY <1>6, RequestTypes DEF Extends
  <2>5. M <= Len(request.roots) + Cardinality(SentBy(S \cup {s}))
    BY <1>3, <2>2, <2>3, <2>4
  <2> QED BY <1>2, <1>12, <2>1, <2>5 DEF ViewShort
<1>17. Reasoned(request, Y)
  BY <1>7, <1>13 DEF Reasoned
<1> QED BY <1>1, <1>2, <1>6, <1>10, <1>11, <1>12, <1>14, <1>15, <1>16, <1>17 DEF ViewHas

LEMMA ViewHasFirst ==
  ASSUME ReadModelsTypes, NEW request \in Requests
  PROVE  ViewHas(request, ViewFirst(request), 0)
<1>1. PICK view, Q, N, I, roots, F, deep :
        /\ view = ViewFirst(request) /\ Q = view.queue /\ N = Len(Q) /\ I = Members(view.items)
        /\ roots = request.roots /\ F = FollowedBy(request) /\ deep = request.maxDepth
  OBVIOUS
<1>2. /\ N = Len(roots) /\ \A i \in 1..N : Q[i] = [subject |-> roots[i], depth |-> 0]
      /\ view.items = << >> /\ view.excluded = {} /\ view.tokens = 0 /\ view.truncated = FALSE
  BY <1>1, ViewFirstIs
<1>3. \A i \in 1..N : Q[i].subject = roots[i] /\ Q[i].depth = 0
  <2>1. ASSUME NEW i \in 1..N PROVE Q[i].subject = roots[i] /\ Q[i].depth = 0
    <3>1. Q[i] = [subject |-> roots[i], depth |-> 0]
      BY <1>2
    <3> QED BY <3>1
  <2> QED BY <2>1
<1>4. /\ N \in Nat /\ roots \in Seq(Subjects) /\ deep \in Nat /\ request.budget \in Nat
  BY <1>1, <1>2, RequestTypes
<1>5. DOMAIN roots = 1..N
  BY <1>2, <1>4, LenProperties
<1>6. I = {}
  <2>1. << >> \in Seq(Entry) /\ DOMAIN << >> = {}
    OBVIOUS
  <2> QED BY <1>1, <1>2, <2>1 DEF Members
<1>7. Upto(Q, N, 0) = {}
  <2>1. {j \in 1..N : j <= 0} = {}
    BY <1>4
  <2> QED BY <2>1 DEF Upto
<1>8. ViewQueue(Q, N, I, 0, F, Members(roots), deep)
  <2>1. 0 < N => N \in 1..N /\ 1 \in 1..N /\ 0 + 1 = 1
    BY <1>4
  <2>2. \A i \in 1..N : Q[i].subject \in Members(roots)
    BY <1>3, <1>5 DEF Members
  <2>3. \A x \in Members(roots) : \E i \in 1..N : Q[i].subject = x
    BY <1>3, <1>5 DEF Members
  <2>4. 0 < N => Q[N].depth <= Q[0+1].depth + 1
    BY <1>3, <2>1
  <2>5. \A i \in 1..N : Q[i].depth <= deep
    BY <1>3, <1>4
  <2> QED BY <1>3, <2>2, <2>3, <2>4, <2>5 DEF ViewQueue
<1>9. ViewItems(Q, N, I, 0, F, deep)
  BY <1>6 DEF ViewItems
<1>10. ViewExcluded(Q, N, I, {}, 0, F, deep)
  BY <1>6, <1>7 DEF ViewExcluded
<1>11. ViewBudget(Q, N, I, {}, 0, 0, FALSE, request.budget)
  BY DEF ViewBudget
<1>12. ViewSum(view, request.budget)
  <2>1. << >> \in Seq(Entry) /\ Len(<< >>) = 0
    OBVIOUS
  <2>2. Tokens(<< >>)[0] = 0
    BY <2>1, TokensIs
  <2>3. view.tokens = Tokens(view.items)[Len(view.items)]
    BY <1>2, <2>1, <2>2
  <2>4. view.tokens <= request.budget
    BY <1>2, <1>4
  <2>5. \A i, j \in 1..Len(view.items) : view.items[i].subject = view.items[j].subject => i = j
    BY <1>2, <2>1
  <2> QED BY <2>3, <2>4, <2>5 DEF ViewSum
<1>13. ViewShort(request, view, 0)
  <2>1. Cardinality(SentBy({})) \in Nat
    BY SentByIs
  <2>2. N <= Len(request.roots) + Cardinality(SentBy({}))
    BY <1>1, <1>2, <1>4, <2>1
  <2> QED BY <1>1, <1>7, <2>2 DEF ViewShort
<1>14. Reasoned(request, {})
  BY DEF Reasoned
<1> QED BY <1>1, <1>2, <1>8, <1>9, <1>10, <1>11, <1>12, <1>13, <1>14 DEF ViewHas

\* All of the queue has been taken in the end.
LEMMA ViewEnds ==
  ASSUME ReadModelsTypes, NEW request \in Requests
  PROVE  /\ ContextView(request) \in Views
         /\ ViewHas(request, ContextView(request), Len(request.roots) + Len(Facts))
         /\ Len(request.roots) + Len(Facts) \in Nat
         /\ Len(ContextView(request).queue) <= Len(request.roots) + Len(Facts)
<1>1. PICK k, run : k = Len(request.roots) + Len(Facts) /\ run = ViewRuns(request)
  OBVIOUS
<1>2. Len(request.roots) \in Nat /\ Len(Facts) \in Nat /\ k \in Nat
  BY <1>1, RelationTypes, RequestTypes
<1>3. /\ run[0] = ViewFirst(request)
      /\ \A n \in 1..k : run[n] = ViewNext(request, run[n-1], n)
      /\ \A n \in 0..k : run[n] \in Views
  BY <1>1, ViewRunsIs
<1> DEFINE Had == {n \in 0..k : ViewHas(request, run[n], n)}
<1>4. 0 \in Had
  BY <1>2, <1>3, ViewHasFirst
<1>5. ASSUME NEW n \in 0..(k-1), n \in Had PROVE n + 1 \in Had
  <2>1. PICK view, next, e : view = run[n] /\ next = run[n+1] /\ e = view.queue[n+1]
    OBVIOUS
  <2>2. n \in Nat /\ n + 1 \in 1..k /\ n + 1 \in 0..k /\ (n + 1) - 1 = n /\ n \in 0..k
    BY <1>2, <1>5
  <2>3. view \in Views /\ next = ViewNext(request, view, n + 1)
    BY <1>3, <2>1, <2>2
  <2>4. ViewHas(request, view, n)
    BY <1>5, <2>1
  <2>5. /\ next \in Views
        /\ \/ /\ next = view
              /\ n + 1 \notin 1..Len(view.queue)
                 \/ e.subject \in Upto(view.queue, Len(view.queue), n)
           \/ n + 1 \in 1..Len(view.queue) /\ Refuses(request, view, next, n, e)
           \/ n + 1 \in 1..Len(view.queue) /\ Includes(request, view, next, n, e)
    BY <2>1, <2>2, <2>3, ViewNextIs
  <2>6. ViewHas(request, next, n + 1)
    <3>1. CASE /\ next = view
               /\ n + 1 \notin 1..Len(view.queue)
                  \/ e.subject \in Upto(view.queue, Len(view.queue), n)
      <4>1. ViewHas(request, view, n + 1)
        BY <2>1, <2>2, <2>3, <2>4, <3>1, ViewHasWaits
      <4> QED BY <3>1, <4>1
    <3>2. CASE n + 1 \in 1..Len(view.queue) /\ Refuses(request, view, next, n, e)
      BY <2>1, <2>2, <2>3, <2>4, <2>5, <3>2, ViewHasRefuses
    <3>3. CASE n + 1 \in 1..Len(view.queue) /\ Includes(request, view, next, n, e)
      BY <2>1, <2>2, <2>3, <2>4, <2>5, <3>3, ViewHasIncludes
    <3> QED BY <2>5, <3>1, <3>2, <3>3
  <2> QED BY <2>1, <2>2, <2>6
<1>6. k \in Had
  <2> HIDE DEF Had
  <2>1. \A n \in 0..k : n \in Had
    BY <1>2, <1>4, <1>5, InductionUpTo
  <2> QED BY <1>2, <2>1
<1>7. PICK view : view = ContextView(request)
  OBVIOUS
<1>8. view \in Views /\ ViewHas(request, view, k)
  <2>1. view = run[k]
    BY <1>1, <1>7 DEF ContextView
  <2> QED BY <1>2, <1>3, <1>6, <2>1
<1>9. Len(view.queue) <= k
  <2>1. PICK S : S = Upto(view.queue, Len(view.queue), k)
    OBVIOUS
  <2>2. Len(view.queue) <= Len(request.roots) + Cardinality(SentBy(S))
    BY <1>8, <2>1 DEF ViewHas, ViewShort
  <2>3. Cardinality(SentBy(S)) \in Nat /\ Cardinality(SentBy(S)) <= Len(Facts)
    BY SentByIs
  <2>4. Len(view.queue) \in Nat
    BY <1>8, ViewTypesAre, <1>2
  <2> QED BY <1>1, <1>2, <2>2, <2>3, <2>4
<1> QED BY <1>1, <1>2, <1>7, <1>8, <1>9

\* ContextIsExplained, in these terms.
AtDepth(I, n) == {e.subject : e \in {x \in I : x.depth = n}}
FollowedFrom(request, S) == {f.to : f \in {g \in relations : g.from \in S /\ g.kind \in request.kinds}}

LEMMA FollowedFromIs ==
  ASSUME ReadModelsTypes, NEW request, NEW S \in SUBSET Subjects
  PROVE  \A x : x \in FollowedFrom(request, S) <=> \E s \in S : x \in FollowedBy(request)[s]
<1>1. \A s \in S : FollowedBy(request)[s] = {f.to : f \in Followed(request, s)}
  BY FollowedTypes
<1>2. ASSUME NEW x, x \in FollowedFrom(request, S) PROVE \E s \in S : x \in FollowedBy(request)[s]
  <2>1. PICK f \in relations : f.from \in S /\ f.kind \in request.kinds /\ f.to = x
    BY <1>2 DEF FollowedFrom
  <2>2. f \in Followed(request, f.from)
    BY <2>1 DEF Followed
  <2>3. x \in {g.to : g \in Followed(request, f.from)}
    BY <2>1, <2>2
  <2> QED BY <1>1, <2>1, <2>3
<1>3. ASSUME NEW s \in S, NEW x \in FollowedBy(request)[s] PROVE x \in FollowedFrom(request, S)
  <2>1. PICK f \in Followed(request, s) : f.to = x
    BY <1>1, <1>3
  <2>2. f \in {g \in relations : g.from \in S /\ g.kind \in request.kinds}
    BY <2>1 DEF Followed
  <2> QED BY <2>1, <2>2 DEF FollowedFrom
<1> QED BY <1>2, <1>3

\* Depths, and what items lead to.
Layered(request, I, X, roots, deep) ==
  /\ AtDepth(I, 0) \subseteq roots
  /\ \A n \in 1..deep :
       AtDepth(I, n) \subseteq
         FollowedFrom(request, AtDepth(I, n-1))
         \ UNION {FollowedFrom(request, AtDepth(I, m)) : m \in 0..(n-2)}
  /\ \A e \in I : e.depth <= deep
  /\ FollowedFrom(request, SubjectsOf(I)) \cup roots \subseteq SubjectsOf(I) \cup SubjectsOf(X)
  /\ \A x \in X : x.reason = "deeper-than-max-depth" =>
       x.subject \in FollowedFrom(request, AtDepth(I, deep))

LEMMA ViewIsLayered ==
  ASSUME ReadModelsTypes, NEW request \in Requests, NEW Q, NEW N \in Nat,
         NEW I \in SUBSET Entry, NEW X, NEW k \in Nat, N <= k, Q \in [1..N -> Entry],
         NEW F, F = FollowedBy(request), NEW roots, NEW deep \in Nat,
         ViewQueue(Q, N, I, k, F, roots, deep), ViewItems(Q, N, I, k, F, deep),
         ViewExcluded(Q, N, I, X, k, F, deep)
  PROVE  Layered(request, I, X, roots, deep)
<1>1. \A i \in 1..N : Q[i].subject \in SubjectsOf(I) \cup SubjectsOf(X)
  <2>1. \A i \in 1..N : i <= k
    OBVIOUS
  <2>2. \A i \in 1..N : Q[i].subject \in Upto(Q, N, k)
    BY <2>1 DEF Upto
  <2> QED BY <2>2 DEF ViewExcluded
<1>2. \A i \in 1..N : Q[i].depth \in Nat
  BY DEF Entry
<1>3. \A e \in I : e.subject \in Subjects /\ e.depth \in Nat
  BY DEF Entry
<1>4. ASSUME NEW e \in I
      PROVE  \E i \in 1..N : Q[i] = e /\ \A j \in 1..N : Q[j].subject = e.subject => e.depth <= Q[j].depth
  <2>1. PICK i \in 1..N : Q[i] = e /\ \A j \in 1..N : Q[j].subject = e.subject => i <= j
    BY <1>4 DEF ViewItems
  <2>2. \A j \in 1..N : Q[j].subject = e.subject => Q[i].depth <= Q[j].depth
    BY <2>1 DEF ViewQueue
  <2> QED BY <2>1, <2>2
<1>5. \A n : AtDepth(I, n) \in SUBSET Subjects
  BY <1>3 DEF AtDepth
<1>6. SubjectsOf(I) \in SUBSET Subjects
  BY <1>3 DEF SubjectsOf
<1>7. AtDepth(I, 0) \subseteq roots
  <2>1. ASSUME NEW e \in I, e.depth = 0 PROVE e.subject \in roots
    BY <1>4, <2>1 DEF ViewQueue
  <2> QED BY <2>1 DEF AtDepth
<1>8. ASSUME NEW n \in 1..deep, NEW x \in AtDepth(I, n)
      PROVE  /\ x \in FollowedFrom(request, AtDepth(I, n-1))
             /\ \A m \in 0..(n-2) : x \notin FollowedFrom(request, AtDepth(I, m))
  <2>1. PICK e \in I : e.depth = n /\ e.subject = x
    BY <1>8 DEF AtDepth
  <2>2. PICK i \in 1..N : Q[i] = e /\ \A j \in 1..N : Q[j].subject = e.subject => e.depth <= Q[j].depth
    BY <1>4
  <2>3. PICK before : before = AtDepth(I, n-1)
    OBVIOUS
  <2>4. x \in FollowedFrom(request, before)
    <3>1. Q[i].depth # 0
      BY <2>1, <2>2
    <3>2. PICK d \in I : d.depth + 1 = n /\ x \in F[d.subject]
      BY <2>1, <2>2, <3>1 DEF ViewQueue
    <3>3. d.depth = n - 1
      BY <1>3, <3>2
    <3>4. d.subject \in before
      BY <2>3, <3>3 DEF AtDepth
    <3>5. before \in SUBSET Subjects
      BY <1>5, <2>3
    <3> QED BY <3>2, <3>4, <3>5, FollowedFromIs
  <2>5. ASSUME NEW m \in 0..(n-2), x \in FollowedFrom(request, AtDepth(I, m)) PROVE FALSE
    <3>1. PICK S : S = AtDepth(I, m)
      OBVIOUS
    <3>2. S \in SUBSET Subjects /\ x \in FollowedFrom(request, S)
      BY <1>5, <2>5, <3>1
    <3>3. PICK s \in S : x \in F[s]
      BY <3>2, FollowedFromIs
    <3>4. PICK d \in I : d.depth = m /\ d.subject = s
      BY <3>1, <3>3 DEF AtDepth
    <3>5. m < deep /\ m + 1 < n /\ m \in Nat
      BY <1>8, <2>5
    <3>6. PICK j \in 1..N : Q[j].subject = x /\ Q[j].depth <= m + 1
      BY <3>3, <3>4, <3>5 DEF ViewItems
    <3>7. n <= Q[j].depth /\ Q[j].depth \in Nat
      BY <1>2, <2>1, <2>2, <3>6
    <3> QED BY <3>5, <3>6, <3>7
  <2> QED BY <2>3, <2>4, <2>5
<1>9. \A n \in 1..deep :
        AtDepth(I, n) \subseteq
          FollowedFrom(request, AtDepth(I, n-1))
          \ UNION {FollowedFrom(request, AtDepth(I, m)) : m \in 0..(n-2)}
  BY <1>8
<1>10. ASSUME NEW e \in I PROVE e.depth <= deep
  BY <1>4 DEF ViewQueue
<1>11. ASSUME NEW x \in FollowedFrom(request, SubjectsOf(I))
      PROVE  x \in SubjectsOf(I) \cup SubjectsOf(X)
  <2>1. PICK s \in SubjectsOf(I) : x \in F[s]
    BY <1>6, FollowedFromIs
  <2>2. PICK e \in I : e.subject = s
    BY <2>1 DEF SubjectsOf
  <2>3. CASE e.depth < deep
    <3>1. PICK i \in 1..N : Q[i].subject = x
      BY <2>1, <2>2, <2>3 DEF ViewItems
    <3> QED BY <1>1, <3>1
  <2>4. CASE ~(e.depth < deep)
    BY <1>1, <2>1, <2>2, <2>4 DEF ViewExcluded
  <2> QED BY <2>3, <2>4
<1>12. roots \subseteq SubjectsOf(I) \cup SubjectsOf(X)
  BY <1>1 DEF ViewQueue
<1>13. ASSUME NEW x \in X, x.reason = "deeper-than-max-depth"
       PROVE  x.subject \in FollowedFrom(request, AtDepth(I, deep))
  <2>1. PICK e \in I : e.depth = deep /\ x.subject \in F[e.subject]
    BY <1>13 DEF ViewExcluded
  <2>2. PICK S, y : S = AtDepth(I, deep) /\ y = x.subject
    OBVIOUS
  <2>3. e.subject \in S /\ S \in SUBSET Subjects
    <3>1. S \in SUBSET Subjects
      BY <1>5, <2>2
    <3>2. e.subject \in S
      BY <2>1, <2>2 DEF AtDepth
    <3> QED BY <3>1, <3>2
  <2>4. y \in FollowedFrom(request, S)
    BY <2>1, <2>2, <2>3, FollowedFromIs
  <2> QED BY <2>2, <2>4
<1> QED BY <1>7, <1>9, <1>10, <1>11, <1>12, <1>13 DEF Layered

\* One request, as ContextIsExplained has it.
ViewIsExplained(request, view) ==
  LET items == {view.items[i].subject : i \in DOMAIN view.items}
      At(n) == {view.items[i].subject : i \in {j \in DOMAIN view.items : view.items[j].depth = n}}
      LedTo(S) == {f.to : f \in {g \in relations : g.from \in S /\ g.kind \in request.kinds}}
      excluded == {x.subject : x \in view.excluded}
      Unfit(x) == x.subject \notin items /\ view.tokens + Size[x.subject] > request.budget
  IN /\ view.tokens = Tokens(view.items)[Len(view.items)]
     /\ view.tokens <= request.budget
     /\ \A i, j \in DOMAIN view.items :
          view.items[i].subject = view.items[j].subject => i = j
     /\ At(0) \subseteq Members(request.roots)
     /\ \A n \in 1..request.maxDepth :
          At(n) \subseteq LedTo(At(n-1)) \ UNION {LedTo(At(m)) : m \in 0..(n-2)}
     /\ \A i \in DOMAIN view.items : view.items[i].depth <= request.maxDepth
     /\ LedTo(items) \cup Members(request.roots) \subseteq items \cup excluded
     /\ \A x \in view.excluded :
          x.reason = "token-budget-exhausted" => view.truncated /\ Unfit(x)
     /\ view.truncated =>
          \E x \in view.excluded :
            Unfit(x) /\ x.reason \in {"token-budget-exhausted", "deeper-than-max-depth"}
     /\ \A x \in view.excluded :
          \/ x.reason = "token-budget-exhausted"
          \/ x.reason = "unknown-subject" /\ x.subject \notin subjects
          \/ x.reason = "authority-class" /\ ~Allowed(request, Authority[x.subject])
          \/ x.reason = "last-touched-before-cutoff" /\ x.subject \in Stale
          \/ x.reason = "deeper-than-max-depth" /\ x.subject \in LedTo(At(request.maxDepth))

LEMMA RequestExplained ==
  ASSUME ReadModelsTypes, NEW request \in Requests
  PROVE  ViewIsExplained(request, ContextView(request))
<1>1. PICK view, k : view = ContextView(request) /\ k = Len(request.roots) + Len(Facts)
  OBVIOUS
<1> DEFINE items == view.items
           X == view.excluded
           deep == request.maxDepth
           budget == request.budget
           roots == Members(request.roots)
           tokens == view.tokens
           truncated == view.truncated
<1>2. PICK Q, N, F, I, L : /\ Q = view.queue /\ N = Len(Q) /\ F = FollowedBy(request)
                           /\ I = Members(items) /\ L = Len(items)
  OBVIOUS
<1>3. view \in Views /\ ViewHas(request, view, k) /\ k \in Nat /\ N <= k
  BY <1>1, <1>2, ViewEnds
<1>4. /\ N \in Nat /\ Q \in [1..N -> Entry] /\ items \in Seq(Entry) /\ I \in SUBSET Entry
      /\ tokens \in Nat /\ truncated \in BOOLEAN
      /\ \A x \in X : x.subject \in Subjects /\ x.reason \in Reasons
  BY <1>1, <1>2, <1>3, ViewTypesAre
<1>5. /\ ViewQueue(Q, N, I, k, F, roots, deep) /\ ViewItems(Q, N, I, k, F, deep)
      /\ ViewExcluded(Q, N, I, X, k, F, deep)
      /\ ViewBudget(Q, N, I, X, k, tokens, truncated, budget)
      /\ ViewSum(view, budget) /\ Reasoned(request, X)
  BY <1>1, <1>2, <1>3 DEF ViewHas
<1>6. deep \in Nat /\ budget \in Nat
  BY <1>1, <1>2, RequestTypes
<1>7. Layered(request, I, X, roots, deep)
  <2>1. PICK R, d, Z : R = roots /\ d = deep /\ Z = X
    OBVIOUS
  <2>2. /\ ViewQueue(Q, N, I, k, F, R, d) /\ ViewItems(Q, N, I, k, F, d)
        /\ ViewExcluded(Q, N, I, Z, k, F, d) /\ d \in Nat
    BY <1>5, <1>6, <2>1
  <2>3. Layered(request, I, Z, R, d)
    BY <1>2, <1>3, <1>4, <2>2, ViewIsLayered
  <2> QED BY <2>1, <2>3
<1>8. DOMAIN items = 1..L /\ I = {items[i] : i \in 1..L}
  BY <1>2, <1>4, LenProperties DEF Members
<1>9. {items[i].subject : i \in DOMAIN items} = SubjectsOf(I)
  BY <1>8 DEF SubjectsOf
<1>10. ASSUME NEW n
       PROVE  {items[i].subject : i \in {j \in DOMAIN items : items[j].depth = n}} = AtDepth(I, n)
  BY <1>8 DEF AtDepth
<1>11. ASSUME NEW S
       PROVE  {f.to : f \in {g \in relations : g.from \in S /\ g.kind \in request.kinds}}
                = FollowedFrom(request, S)
  BY DEF FollowedFrom
<1>12. tokens = Tokens(items)[L] /\ tokens <= budget
  BY <1>1, <1>2, <1>5 DEF ViewSum
<1>13. \A i, j \in DOMAIN items : items[i].subject = items[j].subject => i = j
  BY <1>1, <1>2, <1>5, <1>8 DEF ViewSum
<1>14. /\ AtDepth(I, 0) \subseteq roots
       /\ \A n \in 1..deep :
            AtDepth(I, n) \subseteq
              FollowedFrom(request, AtDepth(I, n-1))
              \ UNION {FollowedFrom(request, AtDepth(I, m)) : m \in 0..(n-2)}
       /\ FollowedFrom(request, SubjectsOf(I)) \cup roots \subseteq SubjectsOf(I) \cup SubjectsOf(X)
  BY <1>7 DEF Layered
<1>15. \A i \in DOMAIN items : items[i].depth <= deep
  BY <1>7, <1>8 DEF Layered
<1>16. \A x \in X : x.reason = "token-budget-exhausted" =>
         truncated /\ x.subject \notin SubjectsOf(I) /\ tokens + Size[x.subject] > budget
  BY <1>5 DEF ViewBudget, NoRoom
<1>17. truncated =>
         \E x \in X : /\ x.subject \notin SubjectsOf(I) /\ tokens + Size[x.subject] > budget
                      /\ x.reason \in {"token-budget-exhausted", "deeper-than-max-depth"}
  BY <1>4, <1>5 DEF ViewBudget, NoRoom
<1>18. ASSUME NEW x \in X
       PROVE  \/ x.reason = "token-budget-exhausted"
              \/ x.reason = "unknown-subject" /\ x.subject \notin subjects
              \/ x.reason = "authority-class" /\ ~Allowed(request, Authority[x.subject])
              \/ x.reason = "last-touched-before-cutoff" /\ x.subject \in Stale
              \/ x.reason = "deeper-than-max-depth" /\ x.subject \in FollowedFrom(request, AtDepth(I, deep))
  <2>1. x.reason \in Reasons
    BY <1>4
  <2>2. x.reason = "deeper-than-max-depth" => x.subject \in FollowedFrom(request, AtDepth(I, deep))
    BY <1>7 DEF Layered
  <2> QED BY <1>5, <2>1, <2>2 DEF Reasons, Reasoned
<1>19. SubjectsOf(X) = {x.subject : x \in X}
  BY DEF SubjectsOf
<1> DEFINE Subset == {items[i].subject : i \in DOMAIN items}
           At(n) == {items[i].subject : i \in {j \in DOMAIN items : items[j].depth = n}}
           LedTo(S) == {f.to : f \in {g \in relations : g.from \in S /\ g.kind \in request.kinds}}
           Unfit(x) == x.subject \notin Subset /\ tokens + Size[x.subject] > budget
<1>20. Subset = SubjectsOf(I)
  BY <1>9
<1>21. \A n : At(n) = AtDepth(I, n)
  BY <1>10
<1>22. \A S : LedTo(S) = FollowedFrom(request, S)
  BY <1>11
<1> HIDE DEF At, LedTo, Subset
<1>23. At(0) \subseteq roots
  BY <1>14, <1>21
<1>24. ASSUME NEW n \in 1..deep
       PROVE  At(n) \subseteq LedTo(At(n-1)) \ UNION {LedTo(At(m)) : m \in 0..(n-2)}
  <2>1. /\ AtDepth(I, n) \subseteq FollowedFrom(request, AtDepth(I, n-1))
        /\ \A m \in 0..(n-2) : AtDepth(I, n) \cap FollowedFrom(request, AtDepth(I, m)) = {}
    BY <1>14
  <2>2. LedTo(At(n-1)) = FollowedFrom(request, AtDepth(I, n-1)) /\ At(n) = AtDepth(I, n)
    BY <1>21, <1>22
  <2>3. \A m \in 0..(n-2) : LedTo(At(m)) = FollowedFrom(request, AtDepth(I, m))
    BY <1>21, <1>22
  <2> QED BY <2>1, <2>2, <2>3
<1>25. LedTo(Subset) \cup roots \subseteq Subset \cup {x.subject : x \in X}
  BY <1>14, <1>19, <1>20, <1>22
<1>26. \A x \in X : x.reason = "token-budget-exhausted" => truncated /\ Unfit(x)
  BY <1>16, <1>20
<1>27. truncated => \E x \in X : Unfit(x) /\ x.reason \in {"token-budget-exhausted", "deeper-than-max-depth"}
  BY <1>17, <1>20
<1>28. ASSUME NEW x \in X
       PROVE  \/ x.reason = "token-budget-exhausted"
              \/ x.reason = "unknown-subject" /\ x.subject \notin subjects
              \/ x.reason = "authority-class" /\ ~Allowed(request, Authority[x.subject])
              \/ x.reason = "last-touched-before-cutoff" /\ x.subject \in Stale
              \/ x.reason = "deeper-than-max-depth" /\ x.subject \in LedTo(At(deep))
  <2>1. LedTo(At(deep)) = FollowedFrom(request, AtDepth(I, deep))
    BY <1>21, <1>22
  <2> QED BY <1>18, <2>1
<1>29. ViewIsExplained(request, view)
  BY <1>2, <1>12, <1>13, <1>15, <1>23, <1>24, <1>25, <1>26, <1>27, <1>28
     DEF ViewIsExplained, At, LedTo, Subset, Unfit
<1> QED BY <1>1, <1>29

LEMMA ContextExplained ==
  ASSUME ReadModelsTypes
  PROVE  ContextIsExplained
BY RequestExplained DEF ViewIsExplained, ContextIsExplained

-----------------------------------------------------------------------------
(* The specification.                                                       *)

ReadModelsVars == <<subjects, values, deprecated, relations>>

LEMMA TypesInit == ReadModelsInit => ReadModelsTypes
BY DEF ReadModelsInit, ReadModelsTypes

\* One step for each action: what is defined stays and what is not is untouched.
LEMMA TypesNext ==
  ASSUME ReadModelsTypes, ReadModelsNext
  PROVE  /\ ReadModelsTypes' /\ OnlyCommonChange(graph, graph') /\ OnlyCommonChange(graph', graph)
<1> DEFINE Kept == /\ subjects \subseteq subjects'
                   /\ \A s \in Subjects : s \notin subjects =>
                        values'[s] = values[s] /\ (s \in deprecated' <=> s \in deprecated)
<1>1. ReadModelsTypes' /\ Kept
  <2>1. ASSUME DefineSubjects PROVE ReadModelsTypes' /\ Kept
    <3>1. Late \subseteq Subjects
      BY ReadModelsAssumption
    <3> QED BY <2>1, <3>1 DEF DefineSubjects, Grown, ReadModelsTypes
  <2>2. ASSUME NEW s \in Edited, NEW v \in Values, UpdateSubject(s, v) PROVE ReadModelsTypes' /\ Kept
    BY <2>2 DEF UpdateSubject, Grown, ReadModelsTypes
  <2>3. ASSUME NEW s \in Edited, DeprecateSubject(s) PROVE ReadModelsTypes' /\ Kept
    <3>1. /\ s \in Subjects /\ s \in subjects /\ subjects' = subjects /\ values' = values
          /\ deprecated' = deprecated \cup {s} /\ relations' = relations
      BY <2>3 DEF DeprecateSubject, Grown, ReadModelsTypes
    <3>2. Kept
      <4>1. ASSUME NEW x \in Subjects, x \notin subjects
            PROVE  values'[x] = values[x] /\ (x \in deprecated' <=> x \in deprecated)
        <5>1. x # s
          BY <3>1, <4>1
        <5> QED BY <3>1, <5>1
      <4>2. subjects \subseteq subjects'
        BY <3>1
      <4> QED BY <4>1, <4>2
    <3>3. ReadModelsTypes'
      BY <3>1 DEF ReadModelsTypes
    <3> QED BY <3>2, <3>3
  <2>4. ASSUME DeclareRelations PROVE ReadModelsTypes' /\ Kept
    BY <2>4 DEF DeclareRelations, Declarable, Grown, ReadModelsTypes
  <2> QED BY <2>1, <2>2, <2>3, <2>4 DEF ReadModelsNext
<1>2. OnlyCommonChange(graph, graph') /\ OnlyCommonChange(graph', graph)
  BY <1>1 DEF OnlyCommonChange, graph
<1> QED BY <1>1, <1>2

LEMMA DiffStep ==
  ASSUME ReadModelsTypes, ReadModelsNext
  PROVE  /\ Patched(graph, DiffGraphs(graph, graph')) = graph'
         /\ Patched(graph', DiffGraphs(graph', graph)) = graph
<1>1. ReadModelsTypes' /\ OnlyCommonChange(graph, graph') /\ OnlyCommonChange(graph', graph)
  BY TypesNext
<1>2. PICK g, h : g = graph /\ h = graph'
  OBVIOUS
<1>3. g \in Graphs /\ h \in Graphs
  BY <1>1, <1>2 DEF ReadModelsTypes, Graphs, graph
<1>4. Patched(g, DiffGraphs(g, h)) = h /\ Patched(h, DiffGraphs(h, g)) = g
  BY <1>1, <1>2, <1>3, PatchedIs
<1> QED BY <1>2, <1>4

\* Type correctness: what is related, updated or deprecated is defined.
THEOREM ReadModelsTypesHold == ReadModelsSpec => []ReadModelsTypes
<1>1. ReadModelsTypes /\ [ReadModelsNext]_ReadModelsVars => ReadModelsTypes'
  <2> SUFFICES ASSUME ReadModelsTypes, [ReadModelsNext]_ReadModelsVars PROVE ReadModelsTypes'
    OBVIOUS
  <2>1. CASE ReadModelsNext
    BY <2>1, TypesNext
  <2>2. CASE UNCHANGED ReadModelsVars
    BY <2>2 DEF ReadModelsVars, ReadModelsTypes
  <2> QED BY <2>1, <2>2
<1> QED BY TypesInit, <1>1, PTL DEF ReadModelsSpec, ReadModelsVars

\* For any subjects and relations, with any cycles: a why path has every
\* supporter within its depth once, at its distance, over declared relations,
\* and is what impact_of and the decisions lens say as well.
THEOREM WhyPathExplains == ReadModelsSpec => []WhyIsComplete
<1>1. ReadModelsTypes => WhyIsComplete
  BY WhyPathIsComplete
<1> QED BY <1>1, ReadModelsTypesHold, PTL

\* What depends on a subject, directly or not, is in exactly one section of its
\* impact analysis or is listed as unknown.
THEOREM ImpactHidesNothing == ReadModelsSpec => []ImpactIsExplicit
<1>1. ReadModelsTypes => ImpactIsExplicit
  BY AnalysisIsExplicit
<1> QED BY <1>1, ReadModelsTypesHold, PTL

\* shortest_path finds a path if there is one, of the fewest declared relations.
THEOREM NoPathIsShorter == ReadModelsSpec => []PathIsShortest
<1>1. ReadModelsTypes => PathIsShortest
  BY PathIsTheShortest
<1> QED BY <1>1, ReadModelsTypesHold, PTL

\* The diff of the graphs before and after an event turns one into the other.
THEOREM DiffsAreExact == ReadModelsSpec => DiffIsExact
<1> DEFINE Exact == /\ Patched(graph, DiffGraphs(graph, graph')) = graph'
                    /\ Patched(graph', DiffGraphs(graph', graph)) = graph
<1>1. ReadModelsTypes /\ [ReadModelsNext]_ReadModelsVars => [Exact]_<<graph>>
  <2>1. ASSUME ReadModelsTypes, ReadModelsNext PROVE Exact
    BY <2>1, DiffStep
  <2>2. ASSUME UNCHANGED ReadModelsVars PROVE UNCHANGED <<graph>>
    BY <2>2 DEF ReadModelsVars, graph
  <2> QED BY <2>1, <2>2
<1> QED BY <1>1, ReadModelsTypesHold, PTL DEF ReadModelsSpec, ReadModelsVars, DiffIsExact

\* A context view keeps to its budget and its depth, has an item at the depth of
\* the shortest way to it over items, and truly excludes whatever else its items
\* lead to: over any relations, with any cycles and parallel ones, for requests
\* with any roots, even the same one twice.
THEOREM ContextExplains == ReadModelsSpec => []ContextIsExplained
<1>1. ReadModelsTypes => ContextIsExplained
  BY ContextExplained
<1> QED BY <1>1, ReadModelsTypesHold, PTL
================================================================================
