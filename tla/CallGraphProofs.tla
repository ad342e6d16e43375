-------------------------- MODULE CallGraphProofs ---------------------------
(* What holds of call graphs whatever the options are: leafs stay leafs,    *)
(* every component has one head, the components do not touch, and the       *)
(* direct calls are a tree.                                                 *)
EXTENDS CallGraph, FiniteSetTheorems, WellFoundedInduction, TLAPS

-----------------------------------------------------------------------------
(* Naturals and functions that iterate                                     *)

\* A set of naturals that is not empty has a least element.
LEMMA Least ==
  ASSUME NEW T, T \subseteq Nat, T # {}
  PROVE  \E m \in T : \A k \in T : m <= k
<1>1. IsWellFoundedOn(OpToRel(<, Nat), Nat)
  BY NatLessThanWellFounded
<1>2. PICK x \in T : \A y \in T : ~ (<<y, x>> \in OpToRel(<, Nat))
  BY <1>1, WFMin
<1>3. \A y \in T : ~(y < x)
  BY <1>2 DEF OpToRel
<1> QED
  BY <1>3

\* What holds of 0 and of the successor of what it holds of holds up to n.
LEMMA Induction ==
  ASSUME NEW n \in Nat, NEW T, 0 \in T, \A i \in 1..n : i - 1 \in T => i \in T
  PROVE  0..n \subseteq T
<1> SUFFICES ASSUME NEW j \in 0..n, j \notin T PROVE FALSE
  OBVIOUS
<1> DEFINE U == (0..n) \ T
<1>0. U \subseteq Nat /\ U # {}
  OBVIOUS
<1>1. PICK m \in U : \A k \in U : m <= k
  <2> HIDE DEF U
  <2> QED
    BY <1>0, Least
<1>2. m \in 1..n /\ m - 1 \in T
  BY <1>1
<1> QED
  BY <1>1, <1>2

\* F takes A on in n steps.
Iterated(n, D, A, F) ==
  \E g \in [0..n -> D] : g[0] = A /\ \A i \in 1..n : g[i] = F[<<i, g[i - 1]>>]

\* So it is for functions of a step and a member of a set to that set.
LEMMA IterateExists ==
  ASSUME NEW n \in Nat, NEW D, NEW A \in D, NEW F \in [(1..n) \X D -> D]
  PROVE  Iterated(n, D, A, F)
<1> DEFINE Upto(k) == \E g \in [0..k -> D] : g[0] = A /\ \A i \in 1..k : g[i] = F[<<i, g[i - 1]>>]
           T == {k \in 0..n : Upto(k)}
<1>1. Upto(0)
  <2> DEFINE g == [i \in 0..0 |-> A]
  <2>1. g \in [0..0 -> D] /\ g[0] = A /\ \A i \in 1..0 : g[i] = F[<<i, g[i - 1]>>]
    OBVIOUS
  <2> QED
    BY <2>1
<1>2. ASSUME NEW k \in 1..n, Upto(k - 1)
      PROVE  Upto(k)
  <2>1. PICK g \in [0..(k - 1) -> D] : g[0] = A /\ \A i \in 1..(k - 1) : g[i] = F[<<i, g[i - 1]>>]
    BY <1>2
  <2> DEFINE last == F[<<k, g[k - 1]>>]
             h == [i \in 0..k |-> IF i = k THEN last ELSE g[i]]
  <2>2. last \in D
    <3>1. g[k - 1] \in D
      BY <2>1
    <3> QED
      BY <3>1
  <2>3. h \in [0..k -> D]
    BY <2>1, <2>2
  <2>4. h[0] = A /\ \A i \in 1..(k - 1) : h[i] = g[i] /\ h[i - 1] = g[i - 1]
    BY <2>1
  <2>5. h[k] = F[<<k, h[k - 1]>>]
    <3>1. h[k] = last
      OBVIOUS
    <3>2. h[k - 1] = g[k - 1]
      OBVIOUS
    <3> HIDE DEF h
    <3> QED
      BY <3>1, <3>2
  <2>6. \A i \in 1..k : h[i] = F[<<i, h[i - 1]>>]
    <3> HIDE DEF h
    <3> TAKE i \in 1..k
    <3>1. CASE i = k
      BY <2>5, <3>1
    <3>2. CASE i # k
      <4>1. i \in 1..(k - 1)
        BY <3>2
      <4> QED
        BY <2>1, <2>4, <4>1
    <3> QED
      BY <3>1, <3>2
  <2> HIDE DEF h
  <2> QED
    BY <2>3, <2>4, <2>6
<1> HIDE DEF Upto
<1>3. 0 \in T /\ \A i \in 1..n : i - 1 \in T => i \in T
  BY <1>1, <1>2
<1>4. Upto(n)
  <2>1. 0..n \subseteq T
    <3> HIDE DEF T
    <3> QED
      BY <1>3, Induction
  <2> QED
    BY <2>1
<1>5. PICK g \in [0..n -> D] : g[0] = A /\ \A i \in 1..n : g[i] = F[<<i, g[i - 1]>>]
  BY <1>4 DEF Upto
<1> QED
  BY <1>5 DEF Iterated

-----------------------------------------------------------------------------
(* What a relation leads to                                                *)

Closed(E, S) == \A e \in E : e[1] \in S => e[2] \in S

\* R is what E leads to from A, A included.
Closure(E, A, R) ==
  A \subseteq R /\ Closed(E, R) /\ \A X : A \subseteq X /\ Closed(E, X) => R \subseteq X

\* A step of E from the sets of g to the next.
Growing(n, E, A, g) == g[0] = A /\ \A i \in 1..n : g[i] = g[i - 1] \cup targets(E, g[i - 1])

\* A part of a finite set is finite and not larger.
LEMMA Smaller ==
  ASSUME NEW V, IsFiniteSet(V), NEW S, S \subseteq V
  PROVE  /\ IsFiniteSet(S) /\ Cardinality(S) \in Nat /\ Cardinality(S) <= Cardinality(V)
         /\ Cardinality(S) = Cardinality(V) => S = V
<1>1. S \in SUBSET V
  OBVIOUS
<1>2. IsFiniteSet(S) /\ Cardinality(S) <= Cardinality(V) /\ (Cardinality(V) = Cardinality(S) => V = S)
  BY <1>1, FS_Subset
<1>3. Cardinality(S) \in Nat
  BY <1>2, FS_CardinalityType
<1> QED
  BY <1>2, <1>3

\* On n vertices, after n steps there is nothing new.
LEMMA Saturates ==
  ASSUME NEW n \in Nat, NEW V, IsFiniteSet(V), Cardinality(V) <= n, NEW E, E \subseteq V \X V, NEW A, A \subseteq V,
         NEW g \in [0..n -> SUBSET V], Growing(n, E, A, g)
  PROVE  Closure(E, A, g[n])
<1> DEFINE more_or_all(i) == Closed(E, g[i]) \/ Cardinality(g[i]) >= i + 1
<1>0. \A S \in SUBSET V : IsFiniteSet(S) /\ Cardinality(S) \in Nat /\ Cardinality(S) <= n
  <2>1. Cardinality(V) \in Nat
    BY FS_CardinalityType
  <2> QED
    BY <2>1, Smaller
<1>1. \A i \in 1..n : i - 1 \in 0..n /\ i \in 0..n
  OBVIOUS
<1>2. \A S \in SUBSET V : S \cup targets(E, S) = S <=> Closed(E, S)
  BY DEF targets, Closed
<1>3. more_or_all(0)
  <2>1. CASE A = {}
    BY <2>1 DEF Growing, Closed
  <2>2. CASE A # {}
    <3>1. Cardinality(A) \in Nat /\ Cardinality(A) # 0
      BY <1>0, <2>2, FS_EmptySet
    <3> QED
      BY <3>1 DEF Growing
  <2> QED
    BY <2>1, <2>2
<1>4. ASSUME NEW i \in 1..n, more_or_all(i - 1)
      PROVE  more_or_all(i)
  <2>1. g[i - 1] \in SUBSET V /\ g[i] \in SUBSET V
    BY <1>1
  <2>2. g[i] = g[i - 1] \cup targets(E, g[i - 1])
    BY DEF Growing
  <2>3. CASE Closed(E, g[i - 1])
    BY <1>2, <2>1, <2>2, <2>3
  <2>4. CASE ~Closed(E, g[i - 1])
    <3>1. g[i - 1] # g[i] /\ g[i - 1] \subseteq g[i]
      BY <1>2, <2>1, <2>2, <2>4
    <3>2. Cardinality(g[i - 1]) <= Cardinality(g[i]) /\ Cardinality(g[i - 1]) # Cardinality(g[i])
      BY <1>0, <2>1, <3>1, FS_Subset
    <3>3. Cardinality(g[i - 1]) >= i - 1 + 1
      BY <1>4, <2>4
    <3>4. Cardinality(g[i - 1]) \in Nat /\ Cardinality(g[i]) \in Nat
      BY <1>0, <2>1
    <3> QED
      BY <3>2, <3>3, <3>4
  <2> QED
    BY <2>3, <2>4
<1>5. more_or_all(n)
  <2> HIDE DEF more_or_all
  <2> DEFINE T == {i \in 0..n : more_or_all(i)}
  <2>1. 0 \in T /\ \A i \in 1..n : i - 1 \in T => i \in T
    BY <1>3, <1>4
  <2>2. 0..n \subseteq T
    <3> HIDE DEF T
    <3> QED
      BY <2>1, Induction
  <2> QED
    BY <2>2
<1>6. n \in 0..n /\ g[n] \in SUBSET V
  OBVIOUS
<1>7. Closed(E, g[n])
  <2>1. Cardinality(g[n]) \in Nat /\ Cardinality(g[n]) <= n
    BY <1>0, <1>6
  <2> QED
    BY <1>5, <2>1
<1>8. A \subseteq g[n]
  <2> DEFINE T == {i \in 0..n : A \subseteq g[i]}
  <2>1. 0 \in T /\ \A i \in 1..n : i - 1 \in T => i \in T
    BY <1>1 DEF Growing
  <2>2. 0..n \subseteq T
    <3> HIDE DEF T
    <3> QED
      BY <2>1, Induction
  <2> QED
    BY <2>2
<1>9. ASSUME NEW X, A \subseteq X, Closed(E, X)
      PROVE  g[n] \subseteq X
  <2> DEFINE T == {i \in 0..n : g[i] \subseteq X}
  <2>1. 0 \in T
    BY <1>9 DEF Growing
  <2>2. \A i \in 1..n : i - 1 \in T => i \in T
    BY <1>1, <1>9 DEF Growing, targets, Closed
  <2>3. 0..n \subseteq T
    <3> HIDE DEF T
    <3> QED
      BY <2>1, <2>2, Induction
  <2> QED
    BY <2>3
<1> QED
  BY <1>7, <1>8, <1>9 DEF Closure

\* There are such sets, and one function alone gives them.
LEMMA Balls ==
  ASSUME NEW n \in Nat, NEW V, IsFiniteSet(V), Cardinality(V) <= n, NEW E, E \subseteq V \X V, NEW A, A \subseteq V
  PROVE  \E g \in [0..n -> SUBSET V] : Growing(n, E, A, g) /\ Closure(E, A, g[n])
<1> DEFINE D == SUBSET V
           F == [p \in (1..n) \X D |-> p[2] \cup targets(E, p[2])]
<1>1. A \in D /\ F \in [(1..n) \X D -> D]
  BY DEF targets
<1>2. \A i \in 1..n : \A S \in D : F[<<i, S>>] = S \cup targets(E, S)
  OBVIOUS
<1> HIDE DEF D, F
<1>3. PICK g \in [0..n -> D] : g[0] = A /\ \A i \in 1..n : g[i] = F[<<i, g[i - 1]>>]
  <2>1. Iterated(n, D, A, F)
    BY <1>1, IterateExists
  <2> QED
    BY <2>1 DEF Iterated
<1>4. \A i \in 1..n : g[i - 1] \in D
  BY <1>3
<1>5. Growing(n, E, A, g)
  BY <1>2, <1>3, <1>4 DEF Growing
<1>6. g \in [0..n -> SUBSET V]
  BY <1>3 DEF D
<1> QED
  BY <1>5, <1>6, Saturates

LEMMA SameLast ==
  ASSUME NEW n \in Nat, NEW f, NEW g, f[0] = g[0],
         \A i \in 1..n : f[i - 1] = g[i - 1] => f[i] = g[i]
  PROVE  f[n] = g[n]
<1> DEFINE T == {i \in 0..n : f[i] = g[i]}
<1>1. 0 \in T /\ \A i \in 1..n : i - 1 \in T => i \in T
  OBVIOUS
<1>2. 0..n \subseteq T
  <2> HIDE DEF T
  <2> QED
    BY <1>1, Induction
<1> QED
  BY <1>2


-----------------------------------------------------------------------------
(* What vertices reach                                                     *)

\* The vertices of a graph with n of them.
below(n) == 0..(n - 1)

LEMMA Below ==
  ASSUME NEW n \in Nat
  PROVE  IsFiniteSet(below(n)) /\ Cardinality(below(n)) = n
<1>1. IsFiniteSet(0..(n - 1)) /\ Cardinality(0..(n - 1)) = IF 0 > n - 1 THEN 0 ELSE (n - 1) - 0 + 1
  <2>1. 0 \in Int /\ n - 1 \in Int
    OBVIOUS
  <2> QED
    BY <2>1, FS_Interval
<1>2. CASE n = 0
  BY <1>1, <1>2 DEF below
<1>3. CASE n # 0
  BY <1>1, <1>3 DEF below
<1> QED
  BY <1>2, <1>3

Pairs(E) == \A e \in E : e = <<e[1], e[2]>>

LEMMA PairsOf ==
  ASSUME NEW V, NEW E, E \subseteq V \X V
  PROVE  Pairs(E)
BY DEF Pairs

\* A member of targets(E, S) is called from S.
LEMMA InTargets ==
  ASSUME NEW E, Pairs(E), NEW S, NEW w
  PROVE  w \in targets(E, S) <=> \E u \in S : <<u, w>> \in E
<1>1. ASSUME w \in targets(E, S)
      PROVE  \E u \in S : <<u, w>> \in E
  <2>1. PICK e \in E : e[1] \in S /\ w = e[2]
    BY <1>1 DEF targets
  <2>2. e = <<e[1], w>>
    BY <2>1 DEF Pairs
  <2> QED
    BY <2>1, <2>2
<1>2. ASSUME NEW u \in S, <<u, w>> \in E
      PROVE  w \in targets(E, S)
  <2>1. <<u, w>> \in {x \in E : x[1] \in S} /\ <<u, w>>[2] = w
    BY <1>2
  <2> QED
    BY <2>1 DEF targets
<1> QED
  BY <1>1, <1>2

LEMMA InTargetsOf ==
  ASSUME NEW E, Pairs(E), NEW v, NEW w
  PROVE  w \in targets(E, {v}) <=> <<v, w>> \in E
<1> DEFINE A == {v}
<1>1. w \in targets(E, A) <=> \E u \in A : <<u, w>> \in E
  <2> HIDE DEF A
  <2> QED
    BY InTargets
<1> QED
  BY <1>1

LEMMA InSources ==
  ASSUME NEW E, Pairs(E), NEW v, NEW u
  PROVE  u \in sources(E, v) <=> <<u, v>> \in E
<1>1. ASSUME u \in sources(E, v)
      PROVE  <<u, v>> \in E
  <2>1. PICK e \in E : e[2] = v /\ u = e[1]
    BY <1>1 DEF sources
  <2>2. e = <<u, v>>
    BY <2>1 DEF Pairs
  <2> QED
    BY <2>1, <2>2
<1>2. ASSUME <<u, v>> \in E
      PROVE  u \in sources(E, v)
  <2>1. <<u, v>> \in {x \in E : x[2] = v} /\ <<u, v>>[1] = u
    BY <1>2
  <2> QED
    BY <2>1 DEF sources
<1> QED
  BY <1>1, <1>2

\* The helper finds everything that E leads to.
LEMMA ReachClosure ==
  ASSUME NEW n \in Nat, NEW E, E \subseteq below(n) \X below(n), NEW A, A \subseteq below(n)
  PROVE  Closure(E, A, reach(n, E, A)) /\ reach(n, E, A) \subseteq below(n)
<1> DEFINE V == below(n)
           next(S) == S \cup targets(E, S)
           ball[i \in 0..n] == IF i = 0 THEN A ELSE next(ball[i - 1])
<1>1. reach(n, E, A) = ball[n]
  BY DEF reach, balls
<1>2. IsFiniteSet(V) /\ Cardinality(V) <= n
  BY Below
<1> HIDE DEF V, next
<1>3. E \subseteq V \X V /\ A \subseteq V
  BY DEF V
<1>4. PICK g \in [0..n -> SUBSET V] : Growing(n, E, A, g) /\ Closure(E, A, g[n])
  BY <1>2, <1>3, Balls
<1>5. g[0] = A /\ \A i \in 1..n : g[i] = next(g[i - 1])
  BY <1>4 DEF Growing, next
<1>6. g = [i \in 0..n |-> IF i = 0 THEN A ELSE next(g[i - 1])]
  BY <1>4, <1>5
<1>7. ball = [i \in 0..n |-> IF i = 0 THEN A ELSE next(ball[i - 1])]
  BY <1>6
<1> HIDE DEF ball
<1>8. ball[0] = A /\ \A i \in 1..n : ball[i] = next(ball[i - 1])
  BY <1>7
<1>9. ball[n] = g[n]
  <2>1. ball[0] = g[0] /\ \A i \in 1..n : ball[i - 1] = g[i - 1] => ball[i] = g[i]
    BY <1>5, <1>8
  <2> QED
    BY <2>1, SameLast
<1>10. g[n] \subseteq V
  BY <1>4
<1> QED
  BY <1>1, <1>4, <1>9, <1>10 DEF V

-----------------------------------------------------------------------------
(* Sequences                                                               *)

LEMMA SetOfSeq ==
  ASSUME NEW D, NEW s \in Seq(D)
  PROVE  /\ ToSet(s) \subseteq D
         /\ \A x : x \in ToSet(s) <=> \E i \in 1..Len(s) : s[i] = x
         /\ ToSet(s) = {} => s = <<>>
<1>1. Len(s) \in Nat /\ DOMAIN s = 1..Len(s) /\ \A i \in 1..Len(s) : s[i] \in D
  OBVIOUS
<1>2. \A x : x \in ToSet(s) <=> \E i \in 1..Len(s) : s[i] = x
  BY <1>1 DEF ToSet
<1>3. ToSet(s) = {} => s = <<>>
  <2> SUFFICES ASSUME s # <<>> PROVE ToSet(s) # {}
    OBVIOUS
  <2>1. 1 \in 1..Len(s)
    BY <1>1
  <2> QED
    BY <1>2, <2>1
<1> QED
  BY <1>1, <1>2, <1>3

LEMMA SetOfConcat ==
  ASSUME NEW D, NEW s \in Seq(D), NEW t \in Seq(D)
  PROVE  s \o t \in Seq(D) /\ ToSet(s \o t) = ToSet(s) \cup ToSet(t)
<1>1. s \o t \in Seq(D) /\ Len(s \o t) = Len(s) + Len(t)
  OBVIOUS
<1>2. \A i \in 1..Len(s) : i \in 1..Len(s \o t) /\ (s \o t)[i] = s[i]
  OBVIOUS
<1>3. \A i \in 1..Len(t) : Len(s) + i \in 1..Len(s \o t) /\ (s \o t)[Len(s) + i] = t[i]
  OBVIOUS
<1>4. ASSUME NEW i \in 1..Len(s \o t)
      PROVE  i \in 1..Len(s) \/ \E j \in 1..Len(t) : i = Len(s) + j
  <2>1. CASE i <= Len(s)
    BY <2>1
  <2>2. CASE i > Len(s)
    <3>1. i - Len(s) \in 1..Len(t) /\ i = Len(s) + (i - Len(s))
      BY <1>1, <2>2
    <3> QED
      BY <3>1
  <2> QED
    BY <2>1, <2>2
<1>5. ASSUME NEW x
      PROVE  x \in ToSet(s \o t) <=> x \in ToSet(s) \/ x \in ToSet(t)
  <2>1. x \in ToSet(s \o t) <=> \E i \in 1..Len(s \o t) : (s \o t)[i] = x
    BY <1>1, SetOfSeq
  <2>2. x \in ToSet(s) <=> \E i \in 1..Len(s) : s[i] = x
    BY SetOfSeq
  <2>3. x \in ToSet(t) <=> \E i \in 1..Len(t) : t[i] = x
    BY SetOfSeq
  <2>4. ASSUME NEW i \in 1..Len(s \o t), (s \o t)[i] = x
        PROVE  x \in ToSet(s) \/ x \in ToSet(t)
    BY <1>2, <1>3, <1>4, <2>2, <2>3, <2>4
  <2> QED
    BY <1>2, <1>3, <2>1, <2>2, <2>3, <2>4
<1> QED
  BY <1>1, <1>5

LEMMA SetOfAppend ==
  ASSUME NEW D, NEW s \in Seq(D), NEW x \in D
  PROVE  Append(s, x) \in Seq(D) /\ ToSet(Append(s, x)) = ToSet(s) \cup {x}
<1>1. <<x>> \in Seq(D)
  OBVIOUS
<1>2. Append(s, x) = s \o <<x>>
  OBVIOUS
<1>3. ToSet(<<x>>) = {x}
  BY DEF ToSet
<1>4. s \o <<x>> \in Seq(D) /\ ToSet(s \o <<x>>) = ToSet(s) \cup ToSet(<<x>>)
  BY <1>1, SetOfConcat
<1> QED
  BY <1>2, <1>3, <1>4

\* Loops over the vertices find all of a set.
LEMMA InOrder ==
  ASSUME NEW n \in Nat, NEW S, S \subseteq below(n)
  PROVE  in_order(n, S) \in Seq(below(n)) /\ ToSet(in_order(n, S)) = S
<1> DEFINE D == Seq(below(n))
           next(i, s) == IF i - 1 \in S THEN Append(s, i - 1) ELSE s
           F == [p \in (1..n) \X D |-> next(p[1], p[2])]
           visited[i \in 0..n] == IF i = 0 THEN <<>> ELSE next(i, visited[i - 1])
<1>1. in_order(n, S) = visited[n]
  BY DEF in_order
<1>2. <<>> \in D
  OBVIOUS
<1>3. ASSUME NEW i \in 1..n, NEW s \in D
      PROVE  /\ next(i, s) \in D
             /\ ToSet(next(i, s)) = ToSet(s) \cup ({i - 1} \cap S)
  <2>1. i - 1 \in below(n)
    BY DEF below
  <2>2. CASE i - 1 \in S
    <3>1. Append(s, i - 1) \in D /\ ToSet(Append(s, i - 1)) = ToSet(s) \cup {i - 1}
      BY <2>1, SetOfAppend
    <3> QED
      BY <2>2, <3>1
  <2>3. CASE i - 1 \notin S
    BY <2>3
  <2> QED
    BY <2>2, <2>3
<1> HIDE DEF next
<1>4. F \in [(1..n) \X D -> D] /\ \A i \in 1..n : \A s \in D : F[<<i, s>>] = next(i, s)
  BY <1>3
<1> HIDE DEF D, F
<1>5. PICK g \in [0..n -> D] : g[0] = <<>> /\ \A i \in 1..n : g[i] = F[<<i, g[i - 1]>>]
  <2>1. Iterated(n, D, <<>>, F)
    BY <1>2, <1>4, IterateExists
  <2> QED
    BY <2>1 DEF Iterated
<1>6. \A i \in 1..n : g[i - 1] \in D /\ g[i] = next(i, g[i - 1])
  <2>1. \A i \in 1..n : g[i - 1] \in D
    BY <1>5
  <2> QED
    BY <1>4, <1>5, <2>1
<1>7. g = [i \in 0..n |-> IF i = 0 THEN <<>> ELSE next(i, g[i - 1])]
  BY <1>5, <1>6
<1>8. visited = [i \in 0..n |-> IF i = 0 THEN <<>> ELSE next(i, visited[i - 1])]
  BY <1>7
<1> HIDE DEF visited
<1>9. visited[0] = <<>> /\ \A i \in 1..n : visited[i] = next(i, visited[i - 1])
  BY <1>8
<1>10. visited[n] = g[n]
  <2>1. visited[0] = g[0] /\ \A i \in 1..n : visited[i - 1] = g[i - 1] => visited[i] = g[i]
    BY <1>5, <1>6, <1>9
  <2> QED
    BY <2>1, SameLast
<1> DEFINE T == {i \in 0..n : ToSet(g[i]) = {v \in S : v < i}}
<1>11. 0 \in T
  <2>1. \A v \in S : ~(v < 0)
    BY DEF below
  <2>2. ToSet(<<>>) = {}
    BY DEF ToSet
  <2> QED
    BY <1>5, <2>1, <2>2
<1>12. ASSUME NEW i \in 1..n, i - 1 \in T
       PROVE  i \in T
  <2>1. ToSet(g[i]) = ToSet(g[i - 1]) \cup ({i - 1} \cap S)
    BY <1>3, <1>6
  <2>2. ASSUME NEW v \in S
        PROVE  v < i <=> v < i - 1 \/ v = i - 1
    BY DEF below
  <2>3. {v \in S : v < i} = {v \in S : v < i - 1} \cup ({i - 1} \cap S)
    BY <2>2
  <2> QED
    BY <1>12, <2>1, <2>3
<1>13. n \in T
  <2>1. 0..n \subseteq T
    <3> HIDE DEF T
    <3> QED
      BY <1>11, <1>12, Induction
  <2> QED
    BY <2>1
<1>14. {v \in S : v < n} = S
  <2>1. \A v \in S : v < n
    BY DEF below
  <2> QED
    BY <2>1
<1>15. g[n] \in D
  BY <1>5
<1> QED
  BY <1>1, <1>10, <1>13, <1>14, <1>15 DEF D

\* One sequence of many holds what they hold.
LEMMA Flattened ==
  ASSUME NEW D, NEW n \in Nat \ {0}, NEW ss \in [1..n -> Seq(D)]
  PROVE  /\ FlattenSeq(ss) \in Seq(D)
         /\ \A x : x \in ToSet(FlattenSeq(ss)) <=> \E i \in 1..n : x \in ToSet(ss[i])
<1> DEFINE flatten[i \in 1..n] == IF i = 1 THEN ss[i] ELSE flatten[i - 1] \o ss[i]
           R == Seq(D)
           F == [p \in (1..n) \X R |-> p[2] \o ss[p[1]]]
<1>1. FlattenSeq(ss) = flatten[n]
  <2>1. Len(ss) = n
    OBVIOUS
  <2> QED
    BY <2>1 DEF FlattenSeq
<1>2. <<>> \in R
  OBVIOUS
<1>3. \A i \in 1..n : \A s \in R : /\ s \o ss[i] \in R
                                   /\ ToSet(s \o ss[i]) = ToSet(s) \cup ToSet(ss[i])
  BY SetOfConcat
<1>4. F \in [(1..n) \X R -> R] /\ \A i \in 1..n : \A s \in R : F[<<i, s>>] = s \o ss[i]
  BY <1>3
<1>5. \A i \in 1..n : <<>> \o ss[i] = ss[i]
  OBVIOUS
<1> HIDE DEF R, F
<1>6. PICK g \in [0..n -> R] : g[0] = <<>> /\ \A i \in 1..n : g[i] = F[<<i, g[i - 1]>>]
  <2>1. Iterated(n, R, <<>>, F)
    BY <1>2, <1>4, IterateExists
  <2> QED
    BY <2>1 DEF Iterated
<1>7. \A i \in 1..n : g[i - 1] \in R /\ g[i] = g[i - 1] \o ss[i]
  <2>1. \A i \in 1..n : g[i - 1] \in R
    BY <1>6
  <2> QED
    BY <1>4, <1>6, <2>1
<1> DEFINE h == [i \in 1..n |-> g[i]]
<1>8. h = [i \in 1..n |-> IF i = 1 THEN ss[i] ELSE h[i - 1] \o ss[i]]
  <2>1. \A i \in 1..n : i # 1 => i - 1 \in 1..n
    OBVIOUS
  <2>2. \A i \in 1..n : g[i] = IF i = 1 THEN ss[i] ELSE h[i - 1] \o ss[i]
    <3> TAKE i \in 1..n
    <3>1. CASE i = 1
      <4>1. g[1] = g[0] \o ss[1]
        BY <1>7, <3>1
      <4> QED
        BY <1>5, <1>6, <3>1, <4>1
    <3>2. CASE i # 1
      <4>1. h[i - 1] = g[i - 1]
        BY <2>1, <3>2
      <4> QED
        BY <1>7, <3>2, <4>1
    <3> QED
      BY <3>1, <3>2
  <2> QED
    BY <2>2
<1>9. flatten = [i \in 1..n |-> IF i = 1 THEN ss[i] ELSE flatten[i - 1] \o ss[i]]
  <2> HIDE DEF h
  <2> QED
    BY <1>8
<1> HIDE DEF flatten, h
<1> DEFINE T == {i \in 0..n : i = 0 \/ (flatten[i] = g[i] /\ \A x : x \in ToSet(g[i]) <=> \E j \in 1..i : x \in ToSet(ss[j]))}
<1>10. ASSUME NEW i \in 1..n, i - 1 \in T
       PROVE  i \in T
  <2>1. CASE i = 1
    <3>1. flatten[1] = ss[1] /\ g[1] = ss[1]
      <4>1. 1 \in 1..n /\ 1 - 1 = 0
        OBVIOUS
      <4>2. g[1] = g[0] \o ss[1]
        BY <1>7, <4>1
      <4>3. flatten[1] = ss[1]
        BY <1>9, <4>1
      <4> QED
        BY <1>5, <1>6, <4>1, <4>2, <4>3
    <3>2. \A j : j \in 1..1 <=> j = 1
      OBVIOUS
    <3> QED
      BY <2>1, <3>1, <3>2
  <2>2. CASE i # 1
    <3>1. flatten[i] = flatten[i - 1] \o ss[i]
      BY <1>9, <2>2
    <3>2. flatten[i - 1] = g[i - 1] /\ \A x : x \in ToSet(g[i - 1]) <=> \E j \in 1..(i - 1) : x \in ToSet(ss[j])
      BY <1>10, <2>2
    <3>3. ToSet(g[i]) = ToSet(g[i - 1]) \cup ToSet(ss[i])
      BY <1>3, <1>7
    <3>4. \A j : j \in 1..i <=> j \in 1..(i - 1) \/ j = i
      OBVIOUS
    <3>5. flatten[i] = g[i]
      BY <1>7, <3>1, <3>2
    <3>6. \A x : x \in ToSet(g[i]) <=> \E j \in 1..i : x \in ToSet(ss[j])
      BY <3>2, <3>3, <3>4
    <3> QED
      BY <3>5, <3>6
  <2> QED
    BY <2>1, <2>2
<1>11. n \in T
  <2>1. 0 \in T
    OBVIOUS
  <2>2. 0..n \subseteq T
    <3> HIDE DEF T
    <3> QED
      BY <1>10, <2>1, Induction
  <2> QED
    BY <2>2
<1>12. g[n] \in R
  BY <1>6
<1> QED
  BY <1>1, <1>11, <1>12 DEF R

\* The loops over pairs of vertices find all edges of a set.
LEMMA EdgesInOrder ==
  ASSUME NEW n \in Nat \ {0}, NEW E, E \subseteq below(n) \X below(n)
  PROVE  /\ edges_in_order(n, E) \in Seq(below(n) \X below(n))
         /\ ToSet(edges_in_order(n, E)) = E
<1> DEFINE D == below(n) \X below(n)
           ss == [i \in 1..n |-> edges_of(n, E, i - 1)]
<1>1. ASSUME NEW v \in below(n)
      PROVE  /\ edges_of(n, E, v) \in Seq(D)
             /\ \A e : e \in ToSet(edges_of(n, E, v)) <=> \E w : e = <<v, w>> /\ e \in E
  <2> DEFINE ws == in_order(n, targets(E, {v}))
  <2>1. \A w : w \in targets(E, {v}) <=> <<v, w>> \in E
    <3>1. Pairs(E)
      BY PairsOf
    <3> QED
      BY <3>1, InTargetsOf
  <2>2. targets(E, {v}) \subseteq below(n)
    <3>1. \A w : <<v, w>> \in E => w \in below(n)
      OBVIOUS
    <3> QED
      BY <2>1, <3>1
  <2>3. ws \in Seq(below(n)) /\ ToSet(ws) = targets(E, {v})
    BY <2>2, InOrder
  <2>4. edges_of(n, E, v) = [k \in DOMAIN ws |-> <<v, ws[k]>>]
    BY DEF edges_of
  <2> HIDE DEF ws
  <2>5. Len(ws) \in Nat /\ DOMAIN ws = 1..Len(ws) /\ \A k \in 1..Len(ws) : ws[k] \in below(n)
    BY <2>3
  <2>6. edges_of(n, E, v) \in Seq(D) /\ Len(edges_of(n, E, v)) = Len(ws)
    BY <2>4, <2>5
  <2>7. \A e : e \in ToSet(edges_of(n, E, v)) <=> \E k \in 1..Len(ws) : edges_of(n, E, v)[k] = e
    <3> DEFINE s == edges_of(n, E, v)
    <3>1. s \in Seq(D)
      BY <2>6
    <3>2. \A e : e \in ToSet(s) <=> \E k \in 1..Len(s) : s[k] = e
      <4> HIDE DEF s, D
      <4> QED
        BY <3>1, SetOfSeq
    <3> QED
      BY <2>6, <3>2
  <2>8. \A k \in 1..Len(ws) : edges_of(n, E, v)[k] = <<v, ws[k]>>
    BY <2>4, <2>5
  <2>9. \A w : (\E k \in 1..Len(ws) : ws[k] = w) <=> <<v, w>> \in E
    <3>1. \A w : w \in ToSet(ws) <=> \E k \in 1..Len(ws) : ws[k] = w
      BY <2>3, SetOfSeq
    <3> QED
      BY <2>1, <2>3, <3>1
  <2>10. ASSUME NEW e, NEW k \in 1..Len(ws), edges_of(n, E, v)[k] = e
         PROVE  \E w : e = <<v, w>> /\ e \in E
    <3>1. e = <<v, ws[k]>>
      BY <2>8, <2>10
    <3>2. <<v, ws[k]>> \in E
      BY <2>9
    <3> QED
      BY <3>1, <3>2
  <2>11. ASSUME NEW e, NEW w, e = <<v, w>>, e \in E
         PROVE  \E k \in 1..Len(ws) : edges_of(n, E, v)[k] = e
    <3>1. PICK k \in 1..Len(ws) : ws[k] = w
      BY <2>9, <2>11
    <3> QED
      BY <2>8, <2>11, <3>1
  <2> QED
    BY <2>6, <2>7, <2>10, <2>11
<1>2. \A i \in 1..n : i - 1 \in below(n)
  BY DEF below
<1>3. ss \in [1..n -> Seq(D)]
  BY <1>1, <1>2
<1>4. /\ FlattenSeq(ss) \in Seq(D)
      /\ \A x : x \in ToSet(FlattenSeq(ss)) <=> \E i \in 1..n : x \in ToSet(ss[i])
  <2> HIDE DEF ss, D
  <2> QED
    BY <1>3, Flattened
<1>5. edges_in_order(n, E) = FlattenSeq(ss)
  BY DEF edges_in_order
<1>6. ASSUME NEW x \in E
      PROVE  \E i \in 1..n : x \in ToSet(ss[i])
  <2>1. PICK v \in below(n), w \in below(n) : x = <<v, w>>
    BY <1>6
  <2>2. v + 1 \in 1..n /\ (v + 1) - 1 = v
    BY DEF below
  <2>3. ss[v + 1] = edges_of(n, E, v)
    BY <2>2
  <2>4. x \in ToSet(edges_of(n, E, v))
    BY <1>1, <2>1
  <2> QED
    BY <2>2, <2>3, <2>4
<1>7. ASSUME NEW x, NEW i \in 1..n, x \in ToSet(ss[i])
      PROVE  x \in E
  BY <1>1, <1>2, <1>7
<1>8. \A x : x \in ToSet(edges_in_order(n, E)) <=> x \in E
  <2> HIDE DEF ss
  <2> QED
    BY <1>4, <1>5, <1>6, <1>7
<1> QED
  BY <1>4, <1>5, <1>8

-----------------------------------------------------------------------------
(* Breadth first search                                                    *)

Searches(n) == [queue : Seq(below(n)), tree : SUBSET (below(n) \X below(n))]

\* What the search from root of the edges in E has found so far: its queue has
\* no vertex twice, all in it but the root were entered by one tree edge, and
\* the tree leads to all of them.
Found(E, root, f) ==
  /\ f.tree \subseteq ToSet(E)
  /\ Len(f.queue) >= 1 /\ f.queue[1] = root
  /\ \A i, j \in 1..Len(f.queue) : f.queue[i] = f.queue[j] => i = j
  /\ \A e \in f.tree : e[1] \in ToSet(f.queue) /\ e[2] \in ToSet(f.queue) /\ e[2] # root
  /\ \A d, e \in f.tree : d[2] = e[2] => d = e
  /\ \A X : root \in X /\ Closed(f.tree, X) => ToSet(f.queue) \subseteq X

\* The queue of g begins with that of f.
Longer(f, g) ==
  Len(f.queue) <= Len(g.queue) /\ \A i \in 1..Len(f.queue) : g.queue[i] = f.queue[i]

LEMMA LongerFinds ==
  ASSUME NEW n, NEW f \in Searches(n), NEW g \in Searches(n), Longer(f, g)
  PROVE  ToSet(f.queue) \subseteq ToSet(g.queue)
<1>1. f.queue \in Seq(below(n)) /\ g.queue \in Seq(below(n))
  BY DEF Searches
<1>2. Len(f.queue) \in Nat /\ Len(g.queue) \in Nat
  BY <1>1
<1>3. \A x : x \in ToSet(f.queue) <=> \E i \in 1..Len(f.queue) : f.queue[i] = x
  BY <1>1, SetOfSeq
<1>4. \A x : x \in ToSet(g.queue) <=> \E i \in 1..Len(g.queue) : g.queue[i] = x
  BY <1>1, SetOfSeq
<1>5. \A i \in 1..Len(f.queue) : i \in 1..Len(g.queue) /\ g.queue[i] = f.queue[i]
  BY <1>2 DEF Longer
<1> QED
  BY <1>3, <1>4, <1>5

LEMMA LongerStill ==
  ASSUME NEW n, NEW f \in Searches(n), NEW g \in Searches(n), NEW h \in Searches(n),
         Longer(f, g), Longer(g, h)
  PROVE  Longer(f, h)
<1>1. Len(f.queue) \in Nat /\ Len(g.queue) \in Nat /\ Len(h.queue) \in Nat
  BY DEF Searches
<1> QED
  BY <1>1 DEF Longer

\* An edge from a vertex that was found.
LEMMA EdgeTried ==
  ASSUME NEW n \in Nat, NEW E \in Seq(below(n) \X below(n)), NEW root,
         NEW f \in Searches(n), Found(E, root, f),
         NEW e \in ToSet(E), e[1] \in ToSet(f.queue)
  PROVE  /\ bfs_edge(f, e) \in Searches(n) /\ Found(E, root, bfs_edge(f, e))
         /\ Longer(f, bfs_edge(f, e))
         /\ e[2] \in ToSet(bfs_edge(f, e).queue)
<1> DEFINE g == bfs_edge(f, e)
           q == f.queue
           T == f.tree
<1>1. q \in Seq(below(n)) /\ T \subseteq below(n) \X below(n)
  BY DEF Searches
<1>2. Len(q) \in Nat
  BY <1>1
<1>3. CASE e[2] \in ToSet(q)
  <2>1. g = f
    BY <1>3 DEF bfs_edge
  <2> QED
    BY <1>2, <1>3, <2>1 DEF Longer
<1>4. CASE e[2] \notin ToSet(q)
  <2>1. ToSet(E) \subseteq below(n) \X below(n)
    BY SetOfSeq
  <2>2. e \in below(n) \X below(n) /\ e[2] \in below(n)
    BY <2>1
  <2> DEFINE r == Append(q, e[2])
             U == T \cup {e}
  <2>3. g = [queue |-> r, tree |-> U]
    BY <1>4 DEF bfs_edge
  <2>4. r \in Seq(below(n)) /\ ToSet(r) = ToSet(q) \cup {e[2]}
    BY <1>1, <2>2, SetOfAppend
  <2>5. Len(r) = Len(q) + 1 /\ r[Len(q) + 1] = e[2] /\ \A i \in 1..Len(q) : r[i] = q[i]
    BY <1>1, <2>2
  <2>6. \A i \in 1..Len(q) : q[i] \in ToSet(q)
    BY <1>1, SetOfSeq
  <2>7. g \in Searches(n)
    BY <1>1, <2>2, <2>3, <2>4 DEF Searches
  <2>8. g.queue = r /\ g.tree = U
    BY <2>3
  <2> HIDE DEF r, g
  <2>9. Len(r) >= 1 /\ r[1] = root /\ root \in ToSet(q)
    <3>1. 1 \in 1..Len(q) /\ q[1] = root
      BY <1>2 DEF Found
    <3> QED
      BY <1>2, <2>5, <2>6, <3>1
  <2>10. ASSUME NEW i \in 1..Len(r), NEW j \in 1..Len(r), r[i] = r[j]
         PROVE  i = j
    <3>1. \A k \in 1..Len(r) : k \in 1..Len(q) \/ k = Len(q) + 1
      BY <1>2, <2>5
    <3>2. \A k \in 1..Len(q) : r[k] # e[2]
      BY <1>4, <2>5, <2>6
    <3>3. CASE i \in 1..Len(q) /\ j \in 1..Len(q)
      BY <2>5, <2>10, <3>3 DEF Found
    <3>4. CASE i = Len(q) + 1 /\ j = Len(q) + 1
      BY <3>4
    <3> QED
      BY <2>5, <2>10, <3>1, <3>2, <3>3, <3>4
  <2>11. U \subseteq ToSet(E)
    BY DEF Found
  <2>12. ASSUME NEW d \in U
         PROVE  d[1] \in ToSet(r) /\ d[2] \in ToSet(r) /\ d[2] # root
    <3>1. CASE d \in T
      BY <2>4, <3>1 DEF Found
    <3>2. CASE d = e
      BY <1>4, <2>4, <2>9, <3>2
    <3> QED
      BY <3>1, <3>2
  <2>13. ASSUME NEW c \in U, NEW d \in U, c[2] = d[2]
         PROVE  c = d
    <3>1. \A x \in T : x[2] # e[2]
      BY <1>4 DEF Found
    <3>2. CASE c \in T /\ d \in T
      BY <2>13, <3>2 DEF Found
    <3> QED
      BY <2>13, <3>1, <3>2
  <2>14. ASSUME NEW X, root \in X, Closed(U, X)
         PROVE  ToSet(r) \subseteq X
    <3>1. Closed(T, X)
      BY <2>14 DEF Closed
    <3>2. ToSet(q) \subseteq X
      BY <2>14, <3>1 DEF Found
    <3>3. e[2] \in X
      BY <2>14, <3>2 DEF Closed
    <3> QED
      BY <2>4, <3>2, <3>3
  <2>15. Found(E, root, g)
    BY <2>8, <2>9, <2>10, <2>11, <2>12, <2>13, <2>14 DEF Found
  <2>16. Longer(f, g)
    BY <1>2, <2>5, <2>8 DEF Longer
  <2> QED
    BY <2>4, <2>7, <2>8, <2>15, <2>16 DEF g
<1> QED
  BY <1>3, <1>4

\* All edges of a vertex that was found.
LEMMA VertexVisited ==
  ASSUME NEW n \in Nat, NEW E \in Seq(below(n) \X below(n)), NEW root,
         NEW f \in Searches(n), Found(E, root, f), NEW v \in ToSet(f.queue)
  PROVE  /\ bfs_visit(E, f, v) \in Searches(n) /\ Found(E, root, bfs_visit(E, f, v))
         /\ Longer(f, bfs_visit(E, f, v))
         /\ \A e \in ToSet(E) : e[1] = v => e[2] \in ToSet(bfs_visit(E, f, v).queue)
<1> DEFINE m == Len(E)
           D == {g \in Searches(n) : Found(E, root, g) /\ Longer(f, g)}
           next(k, g) == IF E[k][1] = v THEN bfs_edge(g, E[k]) ELSE g
           F == [p \in (1..m) \X D |-> next(p[1], p[2])]
           tried[k \in 0..m] == IF k = 0 THEN f ELSE next(k, tried[k - 1])
<1>1. bfs_visit(E, f, v) = tried[m]
  BY DEF bfs_visit
<1>2. m \in Nat /\ \A x : x \in ToSet(E) <=> \E k \in 1..m : E[k] = x
  BY SetOfSeq
<1>3. f \in D
  BY DEF Longer, Searches
<1>4. ASSUME NEW k \in 1..m, NEW g \in D
      PROVE  next(k, g) \in D /\ Longer(g, next(k, g)) /\ (E[k][1] = v => E[k][2] \in ToSet(next(k, g).queue))
  <2>1. g \in Searches(n) /\ Found(E, root, g) /\ Longer(f, g) /\ E[k] \in ToSet(E)
    BY <1>2
  <2>2. CASE E[k][1] = v
    <3>1. v \in ToSet(g.queue)
      BY <2>1, LongerFinds
    <3> DEFINE e == E[k]
    <3>2. e \in ToSet(E) /\ e[1] \in ToSet(g.queue)
      BY <2>1, <2>2, <3>1
    <3>3. /\ bfs_edge(g, e) \in Searches(n) /\ Found(E, root, bfs_edge(g, e))
          /\ Longer(g, bfs_edge(g, e)) /\ e[2] \in ToSet(bfs_edge(g, e).queue)
      <4> HIDE DEF e
      <4> QED
        BY <2>1, <3>2, EdgeTried
    <3>4. Longer(f, bfs_edge(g, e))
      <4> HIDE DEF e
      <4> QED
        BY <2>1, <3>3, LongerStill
    <3>5. next(k, g) = bfs_edge(g, e)
      BY <2>2
    <3> HIDE DEF next
    <3> QED
      BY <3>3, <3>4, <3>5
  <2>3. CASE E[k][1] # v
    <3>1. next(k, g) = g
      BY <2>3
    <3>2. Longer(g, g)
      <4>1. Len(g.queue) \in Nat
        BY <2>1 DEF Searches
      <4> QED
        BY <4>1 DEF Longer
    <3> HIDE DEF next
    <3> QED
      BY <2>1, <2>3, <3>1, <3>2
  <2> QED
    BY <2>2, <2>3
<1> HIDE DEF next
<1>5. F \in [(1..m) \X D -> D] /\ \A k \in 1..m : \A g \in D : F[<<k, g>>] = next(k, g)
  BY <1>4
<1> HIDE DEF m, D, F
<1>6. PICK g \in [0..m -> D] : g[0] = f /\ \A k \in 1..m : g[k] = F[<<k, g[k - 1]>>]
  <2>1. Iterated(m, D, f, F)
    BY <1>2, <1>3, <1>5, IterateExists
  <2> QED
    BY <2>1 DEF Iterated
<1>7. \A k \in 1..m : g[k - 1] \in D /\ g[k] = next(k, g[k - 1])
  <2>1. \A k \in 1..m : g[k - 1] \in D
    BY <1>2, <1>6
  <2> QED
    BY <1>5, <1>6, <2>1
<1>8. g = [k \in 0..m |-> IF k = 0 THEN f ELSE next(k, g[k - 1])]
  BY <1>2, <1>6, <1>7
<1>9. tried = [k \in 0..m |-> IF k = 0 THEN f ELSE next(k, tried[k - 1])]
  BY <1>8
<1> HIDE DEF tried
<1>10. tried[0] = f /\ \A k \in 1..m : tried[k] = next(k, tried[k - 1])
  BY <1>2, <1>9
<1>11. tried[m] = g[m]
  <2>1. tried[0] = g[0] /\ \A k \in 1..m : tried[k - 1] = g[k - 1] => tried[k] = g[k]
    BY <1>6, <1>7, <1>10
  <2> QED
    BY <1>2, <2>1, SameLast
<1>12. \A k \in 0..m : g[k] \in Searches(n) /\ Found(E, root, g[k]) /\ Longer(f, g[k])
  BY <1>6 DEF D
<1> DEFINE T == {k \in 0..m : \A j \in 1..k : E[j][1] = v => E[j][2] \in ToSet(g[k].queue)}
<1>13. 0 \in T
  BY <1>2
<1>14. ASSUME NEW k \in 1..m, k - 1 \in T
       PROVE  k \in T
  <2>1. k \in 0..m /\ k - 1 \in 0..m
    BY <1>2
  <2>2. Longer(g[k - 1], g[k]) /\ (E[k][1] = v => E[k][2] \in ToSet(g[k].queue))
    BY <1>4, <1>7
  <2>3. ToSet(g[k - 1].queue) \subseteq ToSet(g[k].queue)
    BY <1>12, <2>1, <2>2, LongerFinds
  <2>4. \A j \in 1..k : j \in 1..(k - 1) \/ j = k
    BY <2>1
  <2> QED
    BY <1>14, <2>1, <2>2, <2>3, <2>4
<1>15. m \in T
  <2>1. 0..m \subseteq T
    <3> HIDE DEF T
    <3> QED
      BY <1>2, <1>13, <1>14, Induction
  <2> QED
    BY <1>2, <2>1
<1>16. m \in 0..m
  BY <1>2
<1>17. \A e \in ToSet(E) : e[1] = v => e[2] \in ToSet(g[m].queue)
  BY <1>2, <1>15
<1> QED
  BY <1>1, <1>11, <1>12, <1>16, <1>17

\* The vertices on the queue are different.
LEMMA QueueFits ==
  ASSUME NEW n \in Nat, NEW q \in Seq(below(n)),
         \A i, j \in 1..Len(q) : q[i] = q[j] => i = j
  PROVE  Len(q) <= n
<1> DEFINE V == below(n)
           m == Len(q)
<1>1. m \in Nat /\ q \in [1..m -> V]
  OBVIOUS
<1>2. IsFiniteSet(V) /\ Cardinality(V) = n
  BY Below
<1>3. q \in Injection(1..m, V)
  BY <1>1 DEF Injection, IsInjective
<1>4. Cardinality(1..m) = m
  <2> HIDE DEF m
  <2> QED
    BY <1>1, FS_Interval
<1>5. Cardinality(1..m) <= Cardinality(V)
  <2> HIDE DEF V, m
  <2> QED
    BY <1>2, <1>3, FS_Injection
<1> QED
  BY <1>2, <1>4, <1>5

\* A search that has visited as many vertices as there are has found all that
\* the edges lead to, and so has its tree.
LEMMA GraphSearched ==
  ASSUME size \in Nat \ {0}, NEW E \in Seq(Vertices \X Vertices), NEW root \in Vertices
  PROVE  LET T == bfs(E, root).tree
         IN  /\ T \subseteq ToSet(E)
             /\ reach(size, T, {root}) = reach(size, ToSet(E), {root})
             /\ \A d, e \in T : d[2] = e[2] => d = e
             /\ \A e \in T : e[2] # root /\ e[1] \in reach(size, T, {root})
<1> DEFINE n == size
           f0 == [queue |-> <<root>>, tree |-> {}]
           D == {g \in Searches(n) : Found(E, root, g)}
           next(i, g) == IF i \in DOMAIN g.queue THEN bfs_visit(E, g, g.queue[i]) ELSE g
           F == [p \in (1..n) \X D |-> next(p[1], p[2])]
           found[i \in 0..n] == IF i = 0 THEN f0 ELSE next(i, found[i - 1])
<1>1. bfs(E, root) = found[n]
  BY DEF bfs
<1>2. Vertices = below(n) /\ n \in Nat
  BY DEF Vertices, below
<1> HIDE DEF n
<1>3. E \in Seq(below(n) \X below(n)) /\ root \in below(n)
  BY <1>2
<1>4. f0 \in D
  <2>1. f0 \in Searches(n) /\ f0.queue = <<root>> /\ f0.tree = {}
    BY <1>3 DEF Searches
  <2>2. Len(<<root>>) = 1 /\ <<root>>[1] = root /\ \A i, j \in 1..1 : i = j
    OBVIOUS
  <2>3. ToSet(<<root>>) = {root}
    BY DEF ToSet
  <2> DEFINE q0 == <<root>>
  <2>4. f0.queue = q0 /\ Len(q0) = 1 /\ q0[1] = root /\ ToSet(q0) = {root}
    BY <2>1, <2>2, <2>3
  <2> HIDE DEF f0, q0
  <2>5. \A i, j \in 1..Len(q0) : i = j
    BY <2>2, <2>4
  <2>6. Found(E, root, f0)
    BY <2>1, <2>4, <2>5 DEF Found
  <2> QED
    BY <2>1, <2>6
<1>5. ASSUME NEW i \in 1..n, NEW g \in D
      PROVE  /\ next(i, g) \in D /\ Longer(g, next(i, g))
             /\ i <= Len(g.queue) => \A e \in ToSet(E) : e[1] = g.queue[i] => e[2] \in ToSet(next(i, g).queue)
  <2>1. g \in Searches(n) /\ Found(E, root, g) /\ g.queue \in Seq(below(n)) /\ Len(g.queue) \in Nat
    BY DEF Searches
  <2>2. DOMAIN g.queue = 1..Len(g.queue)
    BY <2>1
  <2>3. CASE i \in DOMAIN g.queue
    <3> DEFINE v == g.queue[i]
    <3>1. v \in ToSet(g.queue)
      BY <2>3 DEF ToSet
    <3>2. next(i, g) = bfs_visit(E, g, v)
      BY <2>3
    <3>3. v = g.queue[i]
      OBVIOUS
    <3> HIDE DEF v, next
    <3>4. /\ bfs_visit(E, g, v) \in Searches(n) /\ Found(E, root, bfs_visit(E, g, v))
          /\ Longer(g, bfs_visit(E, g, v))
          /\ \A e \in ToSet(E) : e[1] = v => e[2] \in ToSet(bfs_visit(E, g, v).queue)
      BY <1>2, <1>3, <2>1, <3>1, VertexVisited
    <3> QED
      BY <3>2, <3>3, <3>4
  <2>4. CASE i \notin DOMAIN g.queue
    <3>1. next(i, g) = g
      BY <2>4
    <3>2. ~(i <= Len(g.queue)) /\ Longer(g, g)
      BY <1>2, <2>1, <2>2, <2>4 DEF Longer
    <3> HIDE DEF next
    <3> QED
      BY <3>1, <3>2
  <2> QED
    BY <2>3, <2>4
<1> HIDE DEF next, f0
<1>6. F \in [(1..n) \X D -> D] /\ \A i \in 1..n : \A g \in D : F[<<i, g>>] = next(i, g)
  BY <1>5
<1> HIDE DEF D, F
<1>7. PICK g \in [0..n -> D] : g[0] = f0 /\ \A i \in 1..n : g[i] = F[<<i, g[i - 1]>>]
  <2>1. Iterated(n, D, f0, F)
    BY <1>2, <1>4, <1>6, IterateExists
  <2> QED
    BY <2>1 DEF Iterated
<1>8. \A i \in 1..n : g[i - 1] \in D /\ g[i] = next(i, g[i - 1])
  <2>1. \A i \in 1..n : g[i - 1] \in D
    BY <1>2, <1>7
  <2> QED
    BY <1>6, <1>7, <2>1
<1>9. g = [i \in 0..n |-> IF i = 0 THEN f0 ELSE next(i, g[i - 1])]
  BY <1>2, <1>7, <1>8
<1>10. found = [i \in 0..n |-> IF i = 0 THEN f0 ELSE next(i, found[i - 1])]
  BY <1>9
<1> HIDE DEF found
<1>11. found[0] = f0 /\ \A i \in 1..n : found[i] = next(i, found[i - 1])
  BY <1>2, <1>10
<1>12. found[n] = g[n]
  <2>1. found[0] = g[0] /\ \A i \in 1..n : found[i - 1] = g[i - 1] => found[i] = g[i]
    BY <1>7, <1>8, <1>11
  <2> QED
    BY <1>2, <2>1, SameLast
<1>13. \A i \in 0..n : g[i] \in Searches(n) /\ Found(E, root, g[i]) /\ Len(g[i].queue) \in Nat
                       /\ g[i].queue \in Seq(below(n))
  BY <1>7 DEF D, Searches
<1> DEFINE visited(i) == \A j \in 1..i : j <= Len(g[i].queue) =>
                           \A e \in ToSet(E) : e[1] = g[i].queue[j] => e[2] \in ToSet(g[i].queue)
           T == {i \in 0..n : visited(i)}
<1>14. ASSUME NEW i \in 1..n, visited(i - 1), NEW j \in 1..i, j <= Len(g[i].queue),
              NEW e \in ToSet(E), e[1] = g[i].queue[j]
       PROVE  e[2] \in ToSet(g[i].queue)
  <2>1. i \in 0..n /\ i - 1 \in 0..n
    BY <1>2
  <2>2. /\ Longer(g[i - 1], g[i])
        /\ i <= Len(g[i - 1].queue) => \A x \in ToSet(E) : x[1] = g[i - 1].queue[i] => x[2] \in ToSet(g[i].queue)
    BY <1>5, <1>8
  <2>3. ToSet(g[i - 1].queue) \subseteq ToSet(g[i].queue)
    BY <1>13, <2>1, <2>2, LongerFinds
  <2>4. Len(g[i - 1].queue) \in Nat /\ Len(g[i].queue) \in Nat /\ j \in Nat /\ i \in Nat
    BY <1>2, <1>13, <2>1
  <2>5. CASE j <= Len(g[i - 1].queue)
    <3>1. g[i].queue[j] = g[i - 1].queue[j]
      BY <2>2, <2>4, <2>5 DEF Longer
    <3>2. CASE j = i
      BY <1>14, <2>2, <2>5, <3>1, <3>2
    <3>3. CASE j # i
      <4>1. j \in 1..(i - 1)
        BY <2>4, <3>3
      <4> QED
        BY <1>14, <2>3, <2>5, <3>1, <4>1
    <3> QED
      BY <3>2, <3>3
  <2>6. CASE ~(j <= Len(g[i - 1].queue))
    <3>1. i \notin DOMAIN g[i - 1].queue
      <4>1. DOMAIN g[i - 1].queue = 1..Len(g[i - 1].queue)
        BY <1>13, <2>1
      <4> QED
        BY <2>4, <2>6, <4>1
    <3>2. g[i] = g[i - 1]
      BY <1>8, <3>1 DEF next
    <3> QED
      BY <1>14, <2>6, <3>2
  <2> QED
    BY <2>5, <2>6
<1>15. visited(0)
  BY <1>2
<1>16. ASSUME NEW i \in 1..n, visited(i - 1)
       PROVE  visited(i)
  BY <1>14, <1>16
<1>17. visited(n)
  <2> HIDE DEF visited
  <2>1. 0 \in T /\ \A i \in 1..n : i - 1 \in T => i \in T
    BY <1>2, <1>15, <1>16
  <2>2. 0..n \subseteq T
    <3> HIDE DEF T
    <3> QED
      BY <1>2, <2>1, Induction
  <2> QED
    BY <1>2, <2>2
<1> DEFINE last == g[n]
           q == last.queue
           B == last.tree
<1>18. last \in Searches(n) /\ Found(E, root, last) /\ Len(q) \in Nat /\ q \in Seq(below(n))
  <2>1. n \in 0..n
    BY <1>2
  <2> QED
    BY <1>13, <2>1
<1>19. B \subseteq below(n) \X below(n) /\ ToSet(E) \subseteq below(n) \X below(n)
  BY <1>3, <1>18, SetOfSeq DEF Searches
<1>20. \A x : x \in ToSet(q) <=> \E j \in 1..Len(q) : q[j] = x
  BY <1>18, SetOfSeq
<1>21. \A j \in 1..Len(q) : \A e \in ToSet(E) : e[1] = q[j] => e[2] \in ToSet(q)
  <2>1. visited(n)
    BY <1>17
  <2>2. Len(q) <= n
    <3>1. \A i, j \in 1..Len(q) : q[i] = q[j] => i = j
      BY <1>18 DEF Found
    <3> HIDE DEF last
    <3> QED
      BY <1>2, <1>18, <3>1, QueueFits
  <2>3. \A j \in 1..Len(q) : j \in 1..n /\ j <= Len(q)
    BY <1>2, <1>18, <2>2
  <2> QED
    BY <2>1, <2>3
<1> HIDE DEF visited, T, last
<1>22. Closed(ToSet(E), ToSet(q)) /\ root \in ToSet(q)
  <2>1. 1 \in 1..Len(q) /\ q[1] = root
    BY <1>18 DEF Found
  <2> QED
    BY <1>20, <1>21, <2>1 DEF Closed
<1>23. Closure(B, {root}, reach(n, B, {root})) /\ Closure(ToSet(E), {root}, reach(n, ToSet(E), {root}))
  <2>1. {root} \subseteq below(n)
    BY <1>3
  <2> DEFINE A == {root}
             Es == ToSet(E)
             Bs == B
  <2>2. A \subseteq below(n) /\ Es \subseteq below(n) \X below(n) /\ Bs \subseteq below(n) \X below(n)
    BY <1>19, <2>1
  <2>3. Closure(Bs, A, reach(n, Bs, A)) /\ Closure(Es, A, reach(n, Es, A))
    <3> HIDE DEF A, Es, Bs
    <3> QED
      BY <1>2, <2>2, ReachClosure
  <2> QED
    BY <2>3
<1>24. B \subseteq ToSet(E)
  BY <1>18 DEF Found
<1> DEFINE RB == reach(n, B, {root})
           RE == reach(n, ToSet(E), {root})
<1>25. RB \subseteq RE
  <2>1. {root} \subseteq RE /\ Closed(ToSet(E), RE)
    BY <1>23 DEF Closure
  <2>2. Closed(B, RE)
    BY <1>24, <2>1 DEF Closed
  <2> HIDE DEF RE
  <2> QED
    BY <1>23, <2>1, <2>2 DEF Closure
<1>26. ToSet(q) \subseteq RB
  <2>1. root \in RB /\ Closed(B, RB)
    BY <1>23 DEF Closure
  <2> HIDE DEF RB
  <2> QED
    BY <1>18, <2>1 DEF Found
<1>27. RE \subseteq ToSet(q)
  BY <1>22, <1>23 DEF Closure
<1>28. \A e \in B : e[1] \in ToSet(q) /\ e[2] # root
  BY <1>18 DEF Found
<1>29. \A d, e \in B : d[2] = e[2] => d = e
  BY <1>18 DEF Found
<1>30. bfs(E, root).tree = B
  BY <1>1, <1>12 DEF last
<1> HIDE DEF q, RB, RE
<1>31. RB = RE /\ \A e \in B : e[1] \in RB
  BY <1>25, <1>26, <1>27, <1>28
<1> QED
  BY <1>24, <1>28, <1>29, <1>30, <1>31 DEF RB, RE, n

-----------------------------------------------------------------------------
(* The inductive invariant                                                 *)

Phases == {"generate", "leafs", "fault", "connect", "loops", "indcnt", "indcalls", "done"}

Typed ==
  /\ phase \in Phases
  /\ size \in Nat /\ (phase # "generate" => size # 0)
  /\ edges \in Seq(Vertices \X Vertices)
  /\ leafs \cup non_leafs = Vertices /\ leafs \cap non_leafs = {}
  /\ addleafs \in Nat

\* Nobody but v calls v, or is called by it.
Uncalled(E, v) == \A e \in E : e[2] = v => e[1] = v
Calm(E, v)     == \A e \in E : e[1] = v => e[2] = v

\* A random graph has no self-loop yet, and a head.
Ordinary ==
  /\ phase \in {"generate", "leafs", "connect"} => \A e \in Edges : e[1] # e[2]
  /\ phase \in {"leafs", "connect"} => \E v \in Vertices : Uncalled(Edges, v)

Leafs == phase # "generate" => \A v \in Vertices : v \in leafs <=> Calm(Edges, v)

Faulty == phase = "fault" => edges = <<>>

\* C are the components of the graph with n vertices and the edges E, and every
\* one has its head.
Parted(n, E, C) ==
  /\ C \in Seq([head : below(n), members : SUBSET below(n)]) /\ Len(C) >= 1
  /\ \A i \in 1..Len(C) : /\ C[i].head \in C[i].members
                          /\ \A v \in C[i].members : Uncalled(E, v) <=> v = C[i].head
  /\ \A i, j \in 1..Len(C) : i # j => C[i].members \cap C[j].members = {}
  /\ \A e \in E : \A i \in 1..Len(C) : e[1] \in C[i].members <=> e[2] \in C[i].members
  /\ \A v \in below(n) : Uncalled(E, v) => \E i \in 1..Len(C) : v \in C[i].members

\* T spans what E leads to from root.
Spans(n, E, T, root) ==
  /\ reach(n, T, {root}) = reach(n, E, {root})
  /\ \A d, e \in T : d[2] = e[2] => d = e
  /\ \A e \in T : e[2] # root /\ e[1] \in reach(n, T, {root})

Core ==
  /\ Typed /\ Ordinary /\ Leafs /\ Faulty
  /\ connected => Parted(size, Edges, comps)
  /\ searched => Spans(size, Edges, direct, main)

-----------------------------------------------------------------------------
(* Random graphs and their leafs                                           *)

\* The sets of the code say the same: no self-loop is in them.
LEMMA UncalledHeads ==
  ASSUME NEW E, Pairs(E), NEW v
  PROVE  sources(without_loops(E), v) = {} <=> Uncalled(E, v)
<1>1. ASSUME NEW u, u \in sources(without_loops(E), v)
      PROVE  ~Uncalled(E, v)
  <2>1. PICK e \in E : e[1] # e[2] /\ e[2] = v
    BY <1>1 DEF sources, without_loops
  <2> QED
    BY <2>1 DEF Uncalled
<1>2. ASSUME NEW e \in E, e[2] = v, e[1] # v
      PROVE  sources(without_loops(E), v) # {}
  BY <1>2 DEF sources, without_loops
<1> QED
  BY <1>1, <1>2 DEF Uncalled

LEMMA CalmLeafs ==
  ASSUME NEW E, Pairs(E), NEW v
  PROVE  targets(without_loops(E), {v}) = {} <=> Calm(E, v)
<1>1. ASSUME NEW u, u \in targets(without_loops(E), {v})
      PROVE  ~Calm(E, v)
  <2>1. PICK e \in E : e[1] # e[2] /\ e[1] = v
    BY <1>1 DEF targets, without_loops
  <2> QED
    BY <2>1 DEF Calm
<1>2. ASSUME NEW e \in E, e[1] = v, e[2] # v
      PROVE  targets(without_loops(E), {v}) # {}
  BY <1>2 DEF targets, without_loops
<1> QED
  BY <1>1, <1>2 DEF Calm

LEMMA LooplessIs ==
  ASSUME NEW E, \A e \in E : e[1] # e[2]
  PROVE  without_loops(E) = E
BY DEF without_loops

\* What the constructor starts with: no loop, and a function nobody calls.
LEMMA RandomGraphs ==
  ASSUME NEW n \in Nat \ {0}, NEW g \in random_graphs(n)
  PROVE  /\ g.size \in Nat \ {0} /\ g.edges \subseteq below(g.size) \X below(g.size)
         /\ \A e \in g.edges : e[1] # e[2]
         /\ \E v \in below(g.size) : Uncalled(g.edges, v)
<1>1. ASSUME NEW E \in edge_sets(n)
      PROVE  E \subseteq below(n) \X below(n) /\ \A e \in E : e[1] # e[2]
  BY DEF edge_sets, pairs, below
<1>2. CASE \E E \in edge_sets(n) : heads_of(n, E) # {} /\ g = [size |-> n, edges |-> E]
  <2>1. PICK E \in edge_sets(n) : heads_of(n, E) # {} /\ g = [size |-> n, edges |-> E]
    BY <1>2
  <2>2. g.size = n /\ g.edges = E
    BY <2>1
  <2>3. PICK v \in below(n) : sources(E, v) = {}
    BY <2>1 DEF heads_of, below
  <2>4. Uncalled(E, v)
    <3>1. Pairs(E) /\ without_loops(E) = E
      BY <1>1, PairsOf, LooplessIs
    <3> QED
      BY <2>3, <3>1, UncalledHeads
  <2> QED
    BY <1>1, <2>2, <2>4
<1>3. CASE \E E \in edge_sets(n), A \in UNION {artificial(n, k) : k \in Conns} :
             g = [size |-> n + 1, edges |-> E \cup A]
  <2>1. PICK E \in edge_sets(n), A \in UNION {artificial(n, k) : k \in Conns} :
               g = [size |-> n + 1, edges |-> E \cup A]
    BY <1>3
  <2>2. g.size = n + 1 /\ g.edges = E \cup A
    BY <2>1
  <2>3. PICK S \in SUBSET (0..(n - 1)) : A = {<<n, v>> : v \in S}
    <3>1. PICK k \in Conns : A \in artificial(n, k)
      OBVIOUS
    <3> QED
      BY <3>1 DEF artificial, kSubset
  <2>4. ASSUME NEW e \in A
        PROVE  e \in below(n + 1) \X below(n + 1) /\ e[1] # e[2] /\ e[2] # n
    <3>1. PICK v \in S : e = <<n, v>>
      BY <2>3
    <3>2. v \in 0..(n - 1)
      OBVIOUS
    <3>3. v \in 0..((n + 1) - 1) /\ n \in 0..((n + 1) - 1) /\ v # n
      BY <3>2
    <3> QED
      BY <3>1, <3>3 DEF below
  <2>5. ASSUME NEW e \in E
        PROVE  e \in below(n + 1) \X below(n + 1) /\ e[1] # e[2] /\ e[2] # n
    <3>1. e \in below(n) \X below(n) /\ e[1] # e[2]
      BY <1>1
    <3>2. below(n) \subseteq below(n + 1) /\ n \notin below(n)
      BY DEF below
    <3> QED
      BY <3>1, <3>2
  <2>6. Uncalled(E \cup A, n)
    BY <2>4, <2>5 DEF Uncalled
  <2>7. n \in below(n + 1)
    BY DEF below
  <2> QED
    BY <2>2, <2>4, <2>5, <2>6, <2>7
<1> QED
  BY <1>2, <1>3 DEF random_graphs

LEMMA InitCore == Init => Core
<1> SUFFICES ASSUME Init PROVE Core
  OBVIOUS
<1>1. Vertices = {} /\ Edges = {}
  BY DEF Init, Vertices, Edges, ToSet
<1>2. Typed
  BY <1>1 DEF Init, Typed, Phases
<1> QED
  BY <1>1, <1>2 DEF Init, Core, Ordinary, Leafs, Faulty, connected, searched

LEMMA GenerateCore == Core /\ generate_random_graph => Core'
<1> SUFFICES ASSUME Core, generate_random_graph
             PROVE  Core'
  OBVIOUS
<1>1. PICK n \in Sizes : \E g \in random_graphs(n) :
             /\ size' = g.size
             /\ edges' = edges_in_order(g.size, g.edges)
             /\ leafs' = {v \in 0..(g.size - 1) : targets(g.edges, {v}) = {}}
             /\ non_leafs' = (0..(g.size - 1)) \ leafs'
  BY DEF generate_random_graph
<1>1a. PICK g \in random_graphs(n) :
             /\ size' = g.size
             /\ edges' = edges_in_order(g.size, g.edges)
             /\ leafs' = {v \in 0..(g.size - 1) : targets(g.edges, {v}) = {}}
             /\ non_leafs' = (0..(g.size - 1)) \ leafs'
  BY <1>1
<1>2. n \in Nat \ {0}
  BY OptionsAssumption
<1> DEFINE m == g.size
           E == g.edges
<1>3. /\ m \in Nat \ {0} /\ E \subseteq below(m) \X below(m)
      /\ \A e \in E : e[1] # e[2]
      /\ \E v \in below(m) : Uncalled(E, v)
  BY <1>2, RandomGraphs
<1> HIDE DEF m, E
<1>4. edges_in_order(m, E) \in Seq(below(m) \X below(m)) /\ ToSet(edges_in_order(m, E)) = E
  BY <1>3, EdgesInOrder
<1>5. Vertices' = below(m) /\ size' = m /\ edges' \in Seq(below(m) \X below(m)) /\ Edges' = E
  BY <1>1a, <1>4 DEF Vertices, Edges, below, m, E
<1>6. Pairs(E) /\ without_loops(E) = E
  BY <1>3, PairsOf, LooplessIs
<1>7. leafs' = {v \in below(m) : targets(E, {v}) = {}} /\ non_leafs' = below(m) \ leafs'
  BY <1>1a DEF below, m, E
<1>8. \A v \in below(m) : v \in leafs' <=> Calm(E, v)
  <2>1. \A v : targets(without_loops(E), {v}) = {} <=> Calm(E, v)
    BY <1>6, CalmLeafs
  <2> QED
    BY <1>6, <1>7, <2>1
<1>9. phase' = "leafs" /\ addleafs' \in Nat
  BY OptionsAssumption DEF generate_random_graph
<1>10. Typed'
  BY <1>3, <1>5, <1>7, <1>9 DEF Typed, Phases
<1>11. Ordinary' /\ Leafs' /\ Faulty'
  BY <1>3, <1>5, <1>8, <1>9 DEF Ordinary, Leafs, Faulty
<1> QED
  BY <1>9, <1>10, <1>11 DEF Core, connected, searched

LEMMA LeafCore == Core /\ process_leafs => Core'
<1> SUFFICES ASSUME Core, process_leafs
             PROVE  Core'
  OBVIOUS
<1>1. Typed /\ Ordinary /\ Leafs /\ phase = "leafs" /\ addleafs > 0
  BY DEF Core, process_leafs
<1>2. PICK v \in non_leafs : edges' = Append(edges, <<v, size>>)
  BY DEF process_leafs
<1>3. /\ leafs' = leafs \cup {size} /\ size' = size + 1 /\ addleafs' = addleafs - 1
      /\ phase' = phase /\ non_leafs' = non_leafs
  BY DEF process_leafs
<1>4. size \in Nat \ {0} /\ edges \in Seq(Vertices \X Vertices)
  BY <1>1 DEF Typed
<1> DEFINE V == Vertices
           W == V \cup {size}
           e0 == <<v, size>>
<1>5. Vertices' = W /\ size \notin V /\ size \in Nat
  BY <1>3, <1>4 DEF Vertices
<1>6. v \in V /\ v \notin leafs
  BY <1>1 DEF Typed
<1>7. edges \in Seq(W \X W) /\ e0 \in W \X W
  BY <1>4, <1>6
<1>8. edges' \in Seq(W \X W) /\ Edges' = Edges \cup {e0}
  <2> HIDE DEF W, e0
  <2>1. Append(edges, e0) \in Seq(W \X W) /\ ToSet(Append(edges, e0)) = ToSet(edges) \cup {e0}
    <3> DEFINE D == W \X W
    <3>1. edges \in Seq(D) /\ e0 \in D
      BY <1>7
    <3>2. Append(edges, e0) \in Seq(D) /\ ToSet(Append(edges, e0)) = ToSet(edges) \cup {e0}
      <4> HIDE DEF D
      <4> QED
        BY <3>1, SetOfAppend
    <3> QED
      BY <3>2
  <2>2. edges' = Append(edges, e0)
    BY <1>2 DEF e0
  <2> QED
    BY <2>1, <2>2 DEF Edges
<1>9. Edges \subseteq V \X V
  BY <1>4, SetOfSeq DEF Edges
<1>10. \A e \in Edges : e[1] # size /\ e[2] # size /\ e[1] # e[2]
  <2>1. \A e \in Edges : e[1] \in V /\ e[2] \in V
    BY <1>9
  <2>2. \A e \in Edges : e[1] # e[2]
    BY <1>1 DEF Ordinary
  <2> QED
    BY <1>5, <2>1, <2>2
<1>11. e0[1] = v /\ e0[2] = size /\ v # size
  BY <1>5, <1>6
<1> HIDE DEF e0
<1>12. Typed'
  <2>1. leafs' \cup non_leafs' = W /\ leafs' \cap non_leafs' = {}
    BY <1>1, <1>3, <1>5 DEF Typed
  <2>2. addleafs' \in Nat /\ size' \in Nat /\ size' # 0
    BY <1>1, <1>3, <1>4 DEF Typed
  <2> HIDE DEF W
  <2> QED
    BY <1>1, <1>3, <1>5, <1>8, <2>1, <2>2 DEF Typed
<1>13. Ordinary'
  <2>1. \A e \in Edges' : e[1] # e[2]
    BY <1>8, <1>10, <1>11
  <2>2. PICK u \in V : Uncalled(Edges, u)
    BY <1>1 DEF Ordinary
  <2>3. Uncalled(Edges', u)
    BY <1>5, <1>8, <1>11, <2>2 DEF Uncalled
  <2>4. \E w \in Vertices' : Uncalled(Edges', w)
    BY <1>5, <2>2, <2>3
  <2> QED
    BY <2>1, <2>4 DEF Ordinary
<1>14. ASSUME NEW u \in W
       PROVE  u \in leafs' <=> Calm(Edges', u)
  <2>1. Calm(Edges', u) <=> Calm(Edges, u) /\ u # v
    BY <1>5, <1>8, <1>11, <1>14 DEF Calm
  <2>2. CASE u = size
    <3>1. Calm(Edges, u)
      BY <1>10, <2>2 DEF Calm
    <3> QED
      BY <1>3, <1>11, <2>1, <2>2, <3>1
  <2>3. CASE u # size
    <3>1. u \in leafs <=> Calm(Edges, u)
      BY <1>1, <2>3 DEF Leafs
    <3> QED
      BY <1>3, <1>6, <2>1, <2>3, <3>1
  <2> QED
    BY <2>2, <2>3
<1>15. Leafs'
  BY <1>5, <1>14 DEF Leafs
<1> QED
  BY <1>1, <1>3, <1>12, <1>13, <1>15 DEF Core, Faulty, connected, searched

LEMMA NoLeafsCore == Core /\ (no_non_leafs \/ leafs_added) => Core'
<1> SUFFICES ASSUME Core, no_non_leafs \/ leafs_added
             PROVE  Core'
  OBVIOUS
<1>1. /\ phase = "leafs" /\ phase' \in {"fault", "connect"}
      /\ size' = size /\ edges' = edges /\ leafs' = leafs /\ non_leafs' = non_leafs /\ addleafs' = addleafs
      /\ phase' = "fault" => non_leafs = {}
  BY DEF no_non_leafs, leafs_added
<1>2. Typed /\ Ordinary /\ Leafs
  BY DEF Core
<1>3. Vertices' = Vertices /\ Edges' = Edges
  BY <1>1 DEF Vertices, Edges
<1>4. Typed'
  BY <1>1, <1>2, <1>3 DEF Typed, Phases
<1>5. Ordinary' /\ Leafs'
  BY <1>1, <1>2, <1>3 DEF Ordinary, Leafs
<1>6. ASSUME non_leafs = {}
      PROVE  edges = <<>>
  <2>1. \A v \in Vertices : Calm(Edges, v)
    BY <1>1, <1>2, <1>6 DEF Typed, Leafs
  <2>2. edges \in Seq(Vertices \X Vertices)
    BY <1>2 DEF Typed
  <2>3. Edges \subseteq Vertices \X Vertices /\ (Edges = {} => edges = <<>>)
    BY <2>2, SetOfSeq DEF Edges
  <2>4. ASSUME NEW e \in Edges
        PROVE  FALSE
    <3>1. e[1] \in Vertices /\ e[1] # e[2]
      BY <1>1, <1>2, <2>3 DEF Ordinary
    <3> QED
      BY <2>1, <3>1 DEF Calm
  <2> QED
    BY <2>3, <2>4
<1>7. Faulty'
  BY <1>1, <1>6 DEF Faulty
<1> QED
  BY <1>1, <1>4, <1>5, <1>7 DEF Core, connected, searched

-----------------------------------------------------------------------------
(* Components                                                              *)

backwards == {<<e[2], e[1]>> : e \in Edges}

\* Components are what edges lead to in both directions: they are equal or have
\* nothing in common, and a function without edges is one of its own.
LEMMA Components ==
  ASSUME size \in Nat, Edges \subseteq Vertices \X Vertices
  PROVE  /\ \A v \in Vertices : v \in component(v) /\ component(v) \subseteq Vertices
         /\ \A v \in Vertices : \A e \in Edges : e[1] \in component(v) <=> e[2] \in component(v)
         /\ \A v, w \in Vertices : w \in component(v) => component(w) = component(v)
         /\ \A v \in Vertices : (\A e \in Edges : e[1] # v /\ e[2] # v) => component(v) = {v}
<1> DEFINE B == Edges \cup backwards
           V == Vertices
<1>1. V = below(size) /\ B \subseteq V \X V
  BY DEF Vertices, below, backwards
<1>2. ASSUME NEW v \in V
      PROVE  Closure(B, {v}, component(v)) /\ component(v) \subseteq V
  <2> DEFINE A == {v}
  <2>1. A \subseteq below(size) /\ B \subseteq below(size) \X below(size)
    BY <1>1
  <2>2. component(v) = reach(size, B, A)
    BY DEF component, backwards
  <2>3. Closure(B, A, reach(size, B, A)) /\ reach(size, B, A) \subseteq below(size)
    <3> HIDE DEF A, B
    <3> QED
      BY <2>1, ReachClosure
  <2> QED
    BY <1>1, <2>2, <2>3
<1>3. ASSUME NEW X, Closed(B, X), NEW e \in Edges
      PROVE  e[1] \in X <=> e[2] \in X
  <2>1. <<e[2], e[1]>> \in B /\ <<e[2], e[1]>>[1] = e[2] /\ <<e[2], e[1]>>[2] = e[1]
    BY DEF backwards
  <2>2. e \in B
    OBVIOUS
  <2> HIDE DEF B
  <2> QED
    BY <1>3, <2>1, <2>2 DEF Closed
<1>4. ASSUME NEW X, \A e \in Edges : e[1] \in X <=> e[2] \in X
      PROVE  Closed(B, X)
  <2>1. ASSUME NEW b \in B, b[1] \in X
        PROVE  b[2] \in X
    <3>1. CASE b \in Edges
      BY <1>4, <2>1, <3>1
    <3>2. CASE b \in backwards
      <4>1. PICK e \in Edges : b = <<e[2], e[1]>>
        BY <3>2 DEF backwards
      <4>2. b[1] = e[2] /\ b[2] = e[1]
        BY <4>1
      <4> QED
        BY <1>4, <2>1, <4>2
    <3> QED
      BY <3>1, <3>2
  <2> QED
    BY <2>1 DEF Closed
<1> HIDE DEF B
<1>5. ASSUME NEW v \in V
      PROVE  v \in component(v) /\ component(v) \subseteq V /\ Closed(B, component(v))
  BY <1>2 DEF Closure
<1>6. ASSUME NEW v \in V, NEW X, v \in X, Closed(B, X)
      PROVE  component(v) \subseteq X
  <2>1. {v} \subseteq X
    BY <1>6
  <2> QED
    BY <1>2, <1>6, <2>1 DEF Closure
<1>7. \A v \in V : \A e \in Edges : e[1] \in component(v) <=> e[2] \in component(v)
  BY <1>3, <1>5
<1>8. ASSUME NEW v \in V, NEW w \in component(v)
      PROVE  w \in V /\ component(w) \subseteq component(v)
  BY <1>5, <1>6
<1>9. ASSUME NEW v \in V, NEW w \in V, w \in component(v)
      PROVE  v \in component(w)
  <2> DEFINE X == {x \in V : v \in component(x)}
  <2>1. v \in X
    BY <1>5
  <2>2. ASSUME NEW e \in Edges
        PROVE  e[1] \in X <=> e[2] \in X
    <3>1. e[1] \in V /\ e[2] \in V
      OBVIOUS
    <3>2. e[1] \in component(e[2]) /\ e[2] \in component(e[1])
      BY <1>5, <1>7, <3>1
    <3>3. component(e[1]) \subseteq component(e[2]) /\ component(e[2]) \subseteq component(e[1])
      BY <1>8, <3>1, <3>2
    <3> QED
      BY <3>1, <3>3
  <2>3. Closed(B, X)
    <3> HIDE DEF X
    <3> QED
      BY <1>4, <2>2
  <2>4. component(v) \subseteq X
    <3> HIDE DEF X
    <3> QED
      BY <1>6, <2>1, <2>3
  <2> QED
    BY <1>9, <2>4
<1>10. ASSUME NEW v \in V, NEW w \in V, w \in component(v)
       PROVE  component(w) = component(v)
  <2>1. v \in component(w)
    BY <1>9, <1>10
  <2> QED
    BY <1>8, <1>10, <2>1
<1>11. ASSUME NEW v \in V, \A e \in Edges : e[1] # v /\ e[2] # v
       PROVE  component(v) = {v}
  <2> DEFINE X == {v}
  <2>1. \A e \in Edges : e[1] \in X <=> e[2] \in X
    BY <1>11
  <2>2. Closed(B, X)
    <3> HIDE DEF X
    <3> QED
      BY <1>4, <2>1
  <2>3. component(v) \subseteq X
    <3>1. v \in X
      OBVIOUS
    <3> HIDE DEF X
    <3> QED
      BY <1>6, <2>2, <3>1
  <2> QED
    BY <1>5, <2>3
<1> QED
  BY <1>5, <1>7, <1>10, <1>11

\* The order of components gives each of them one place.
LEMMA Orders ==
  ASSUME size \in Nat, Edges \subseteq Vertices \X Vertices, NEW s \in orders
  PROVE  \E k \in Nat :
           /\ s \in [1..k -> headed]
           /\ \A i, j \in 1..k : s[i] = s[j] => i = j
           /\ \A c \in headed : \E i \in 1..k : s[i] = c
<1> DEFINE k == Cardinality(headed)
<1>1. IsFiniteSet(headed)
  <2>1. IsFiniteSet(Vertices) /\ Heads \subseteq Vertices
    <3>1. Vertices = below(size)
      BY DEF Vertices, below
    <3> QED
      BY <3>1, Below DEF Heads, heads_of, below
  <2>2. IsFiniteSet(Heads)
    BY <2>1, FS_Subset
  <2> DEFINE f(v) == [heads |-> component(v) \cap Heads, members |-> component(v)]
  <2>3. headed = {f(v) : v \in Heads}
    BY DEF headed
  <2> DEFINE g == [v \in Heads |-> f(v)]
  <2>4. g \in Surjection(Heads, headed)
    BY <2>3 DEF Surjection
  <2> QED
    BY <2>2, <2>4, FS_Surjection
<1>2. k \in Nat
  BY <1>1, FS_CardinalityType
<1>3. s \in [1..k -> headed] /\ \A i, j \in 1..k : i # j => s[i] # s[j]
  BY DEF orders, SetToSeqs
<1> HIDE DEF k
<1>4. s \in Injection(1..k, headed)
  BY <1>3 DEF Injection, IsInjective
<1>5. Cardinality(1..k) = Cardinality(headed)
  <2>1. Cardinality(1..k) = k
    BY <1>2, FS_Interval
  <2> QED
    BY <2>1 DEF k
<1>6. s \in Surjection(1..k, headed)
  BY <1>1, <1>4, <1>5, FS_Injection
<1> QED
  BY <1>2, <1>3, <1>6 DEF Surjection

\* What there is to know of a component with a head.
LEMMA HeadedParts ==
  ASSUME size \in Nat, Edges \subseteq Vertices \X Vertices, \A e \in Edges : e[1] # e[2]
  PROVE  /\ \A v : v \in Heads <=> v \in Vertices /\ Uncalled(Edges, v)
         /\ \A c \in headed : /\ c.members \subseteq Vertices /\ c.heads = c.members \cap Heads
                              /\ top(c) \in c.heads
                              /\ \A e \in Edges : e[1] \in c.members <=> e[2] \in c.members
                              /\ Calm(Edges, top(c)) => c.members = {top(c)}
         /\ \A c, d \in headed : c.members \cap d.members # {} => c = d
         /\ \A v \in Heads : \E c \in headed : v \in c.members
<1>1. ASSUME NEW v
      PROVE  v \in Heads <=> v \in Vertices /\ Uncalled(Edges, v)
  <2>1. Pairs(Edges) /\ without_loops(Edges) = Edges
    BY PairsOf, LooplessIs
  <2>2. sources(Edges, v) = {} <=> Uncalled(Edges, v)
    BY <2>1, UncalledHeads
  <2> QED
    BY <2>2 DEF Heads, heads_of, Vertices
<1>2. /\ \A v \in Vertices : v \in component(v) /\ component(v) \subseteq Vertices
      /\ \A v \in Vertices : \A e \in Edges : e[1] \in component(v) <=> e[2] \in component(v)
      /\ \A v, w \in Vertices : w \in component(v) => component(w) = component(v)
      /\ \A v \in Vertices : (\A e \in Edges : e[1] # v /\ e[2] # v) => component(v) = {v}
  BY Components
<1>3. \A v \in Heads : v \in Vertices
  BY <1>1
<1>4. ASSUME NEW c \in headed
      PROVE  \E v \in Heads : c.heads = component(v) \cap Heads /\ c.members = component(v) /\ v \in c.heads
  <2>1. PICK v \in Heads : c = [heads |-> component(v) \cap Heads, members |-> component(v)]
    BY DEF headed
  <2>2. c.heads = component(v) \cap Heads /\ c.members = component(v)
    BY <2>1
  <2>3. v \in component(v)
    BY <1>2, <1>3
  <2> QED
    BY <2>2, <2>3
<1>5. ASSUME NEW c \in headed
      PROVE  top(c) \in c.heads
  <2>1. c.heads # {} /\ c.heads \subseteq Nat
    BY <1>3, <1>4 DEF Vertices
  <2>2. PICK m \in c.heads : \A x \in c.heads : m <= x
    BY <2>1, Least
  <2> QED
    BY <2>2 DEF top, Min
<1>6. ASSUME NEW c \in headed
      PROVE  /\ c.members \subseteq Vertices /\ c.heads = c.members \cap Heads
             /\ \A e \in Edges : e[1] \in c.members <=> e[2] \in c.members
  BY <1>2, <1>3, <1>4
<1>7. ASSUME NEW c \in headed, NEW v \in c.members
      PROVE  c.members = component(v) /\ c.heads = component(v) \cap Heads
  <2>1. PICK u \in Heads : c.heads = component(u) \cap Heads /\ c.members = component(u)
    BY <1>4
  <2> QED
    BY <1>2, <1>3, <1>7, <2>1
<1>8. ASSUME NEW c \in headed, NEW d \in headed, NEW v \in c.members \cap d.members
      PROVE  c = d
  <2>1. c.members = d.members /\ c.heads = d.heads
    BY <1>7
  <2>2. c = [heads |-> c.heads, members |-> c.members] /\ d = [heads |-> d.heads, members |-> d.members]
    BY DEF headed
  <2> QED
    BY <2>1, <2>2
<1>9. ASSUME NEW c \in headed, Calm(Edges, top(c))
      PROVE  c.members = {top(c)}
  <2> DEFINE t == top(c)
  <2>1. t \in Vertices /\ Uncalled(Edges, t) /\ t \in c.members
    BY <1>1, <1>5, <1>6
  <2>2. Calm(Edges, t)
    BY <1>9
  <2> HIDE DEF t
  <2>3. \A e \in Edges : e[1] # t /\ e[2] # t
    BY <2>1, <2>2 DEF Uncalled, Calm
  <2>4. component(t) = {t}
    BY <1>2, <2>1, <2>3
  <2>5. c.members = {t}
    BY <1>7, <2>1, <2>4
  <2> QED
    BY <2>5 DEF t
<1>10. \A v \in Heads : \E c \in headed : v \in c.members
  <2> TAKE v \in Heads
  <2> DEFINE c == [heads |-> component(v) \cap Heads, members |-> component(v)]
  <2>1. c \in headed /\ c.members = component(v)
    BY DEF headed
  <2> QED
    BY <1>2, <1>3, <2>1
<1> QED
  BY <1>1, <1>5, <1>6, <1>8, <1>9, <1>10

\* The edges that connect a component lead from its top to its other heads.
LEMMA HeadEdges ==
  ASSUME size \in Nat \ {0}, NEW c, c.heads \subseteq Vertices, top(c) \in c.heads
  PROVE  /\ head_edges(c) \in Seq(Vertices \X Vertices)
         /\ \A e : e \in ToSet(head_edges(c)) <=> \E h \in c.heads : h # top(c) /\ e = <<top(c), h>>
<1> DEFINE H == {<<top(c), h>> : h \in c.heads \ {top(c)}}
<1>1. Vertices = below(size)
  BY DEF Vertices, below
<1>2. H \subseteq below(size) \X below(size)
  BY <1>1
<1>3. head_edges(c) = edges_in_order(size, H)
  BY DEF head_edges
<1>4. edges_in_order(size, H) \in Seq(below(size) \X below(size)) /\ ToSet(edges_in_order(size, H)) = H
  <2> HIDE DEF H
  <2> QED
    BY <1>2, EdgesInOrder
<1> QED
  BY <1>1, <1>3, <1>4

LEMMA ConnectCore == Core /\ connect_components => Core'
<1> SUFFICES ASSUME Core, connect_components
             PROVE  Core'
  OBVIOUS
<1>1. Typed /\ Ordinary /\ Leafs /\ phase = "connect"
  BY DEF Core, connect_components
<1>2. PICK s \in orders :
        /\ edges' = edges \o FlattenSeq([i \in DOMAIN s |-> head_edges(s[i])])
        /\ comps' = [i \in DOMAIN s |-> [head |-> top(s[i]), members |-> s[i].members]]
  BY DEF connect_components
<1>3. /\ phase' = "loops" /\ size' = size /\ leafs' = leafs /\ non_leafs' = non_leafs
      /\ addleafs' = addleafs
  BY DEF connect_components
<1>4. /\ size \in Nat \ {0} /\ edges \in Seq(Vertices \X Vertices)
      /\ Edges \subseteq Vertices \X Vertices /\ \A e \in Edges : e[1] # e[2]
  <2>1. size \in Nat \ {0} /\ edges \in Seq(Vertices \X Vertices)
    BY <1>1 DEF Typed
  <2>2. Edges \subseteq Vertices \X Vertices
    BY <2>1, SetOfSeq DEF Edges
  <2> QED
    BY <1>1, <2>1, <2>2 DEF Ordinary
<1>5. PICK k \in Nat :
           /\ s \in [1..k -> headed]
           /\ \A i, j \in 1..k : s[i] = s[j] => i = j
           /\ \A c \in headed : \E i \in 1..k : s[i] = c
  BY <1>4, Orders
<1>6. /\ \A v : v \in Heads <=> v \in Vertices /\ Uncalled(Edges, v)
      /\ \A c \in headed : /\ c.members \subseteq Vertices /\ c.heads = c.members \cap Heads
                           /\ top(c) \in c.heads
                           /\ \A e \in Edges : e[1] \in c.members <=> e[2] \in c.members
                           /\ Calm(Edges, top(c)) => c.members = {top(c)}
      /\ \A c, d \in headed : c.members \cap d.members # {} => c = d
      /\ \A v \in Heads : \E c \in headed : v \in c.members
  BY <1>4, HeadedParts
<1>7. k # 0
  <2>1. PICK v \in Heads : TRUE
    BY <1>1, <1>6 DEF Ordinary
  <2>2. PICK c \in headed : v \in c.members
    BY <1>6
  <2> QED
    BY <1>5, <2>2
<1> DEFINE D == Vertices \X Vertices
           ss == [i \in 1..k |-> head_edges(s[i])]
<1>8. ASSUME NEW c \in headed
      PROVE  /\ head_edges(c) \in Seq(D)
             /\ \A e : e \in ToSet(head_edges(c)) <=> \E h \in c.heads : h # top(c) /\ e = <<top(c), h>>
  <2>1. c.heads \subseteq Vertices /\ top(c) \in c.heads
    BY <1>6
  <2> QED
    BY <1>4, <2>1, HeadEdges
<1>9. ss \in [1..k -> Seq(D)] /\ \A i \in 1..k : ss[i] = head_edges(s[i])
  BY <1>5, <1>8
<1>10. edges' = edges \o FlattenSeq(ss)
  BY <1>2, <1>5
<1>11. /\ FlattenSeq(ss) \in Seq(D)
       /\ \A x : x \in ToSet(FlattenSeq(ss)) <=> \E i \in 1..k : x \in ToSet(ss[i])
  <2> HIDE DEF ss, D
  <2> QED
    BY <1>7, <1>9, Flattened
<1>12. edges' \in Seq(D) /\ Edges' = Edges \cup ToSet(FlattenSeq(ss))
  <2>1. edges \in Seq(D)
    BY <1>4
  <2> HIDE DEF ss, D
  <2> QED
    BY <1>10, <1>11, <2>1, SetOfConcat DEF Edges
<1> HIDE DEF ss
<1>13. ASSUME NEW e
       PROVE  e \in Edges' <=> \/ e \in Edges
                               \/ \E c \in headed : \E h \in c.heads : h # top(c) /\ e = <<top(c), h>>
  <2>1. e \in ToSet(FlattenSeq(ss)) <=> \E i \in 1..k : e \in ToSet(head_edges(s[i]))
    BY <1>9, <1>11
  <2>2. (\E i \in 1..k : e \in ToSet(head_edges(s[i]))) <=> \E c \in headed : e \in ToSet(head_edges(c))
    BY <1>5
  <2> QED
    BY <1>8, <1>12, <2>1, <2>2
<1>14. Vertices' = Vertices
  BY <1>3 DEF Vertices
<1>15. Typed'
  BY <1>1, <1>3, <1>12, <1>14 DEF Typed, Phases
<1>16. ASSUME NEW v \in Vertices
       PROVE  Calm(Edges', v) <=> Calm(Edges, v)
  <2>1. ASSUME Calm(Edges', v)
        PROVE  Calm(Edges, v)
    BY <1>13, <2>1 DEF Calm
  <2>2. ASSUME Calm(Edges, v), NEW e \in Edges', e[1] = v
        PROVE  e[2] = v
    <3>1. CASE e \in Edges
      BY <2>2, <3>1 DEF Calm
    <3>2. CASE e \notin Edges
      <4>1. PICK c \in headed, h \in Vertices : h \in c.heads /\ h # top(c) /\ e = <<top(c), h>>
        BY <1>6, <1>13, <3>2
      <4>2. v = top(c)
        BY <2>2, <4>1
      <4>3. h \in c.members /\ c.members = {top(c)}
        BY <1>6, <2>2, <4>1, <4>2
      <4> QED
        BY <4>1, <4>3
    <3> QED
      BY <3>1, <3>2
  <2> QED
    BY <2>1, <2>2 DEF Calm
<1>17. Leafs'
  BY <1>1, <1>3, <1>14, <1>16 DEF Leafs
<1> DEFINE C == comps'
<1>18. /\ Len(C) = k /\ C \in Seq([head : below(size), members : SUBSET below(size)])
       /\ \A i \in 1..k : C[i].head = top(s[i]) /\ C[i].members = s[i].members /\ s[i] \in headed
  <2>1. Vertices = below(size)
    BY DEF Vertices, below
  <2>2. C = [i \in 1..k |-> [head |-> top(s[i]), members |-> s[i].members]]
    BY <1>2, <1>5
  <2>3. \A i \in 1..k : s[i] \in headed /\ top(s[i]) \in below(size) /\ s[i].members \subseteq below(size)
    BY <1>5, <1>6, <2>1
  <2>4. C \in [1..k -> [head : below(size), members : SUBSET below(size)]]
    BY <2>2, <2>3
  <2>5. \A i \in 1..k : C[i].head = top(s[i]) /\ C[i].members = s[i].members
    BY <2>2
  <2>6. Len(C) = k
    BY <2>2
  <2>7. C \in Seq([head : below(size), members : SUBSET below(size)])
    <3> DEFINE R == [head : below(size), members : SUBSET below(size)]
    <3>1. C \in [1..k -> R]
      BY <2>4
    <3> HIDE DEF C, R
    <3>2. C \in Seq(R)
      BY <3>1
    <3> QED
      BY <3>2 DEF R
  <2> HIDE DEF C
  <2> QED
    BY <2>3, <2>5, <2>6, <2>7
<1> HIDE DEF C
<1>19. ASSUME NEW c \in headed, NEW v \in c.members
       PROVE  Uncalled(Edges', v) <=> v = top(c)
  <2>1. v \in Vertices /\ top(c) \in c.heads /\ c.heads = c.members \cap Heads
    BY <1>6
  <2>2. ASSUME Uncalled(Edges', v), v # top(c)
        PROVE  FALSE
    <3>1. Uncalled(Edges, v)
      BY <1>13, <2>2 DEF Uncalled
    <3>2. v \in c.heads
      BY <1>6, <2>1, <3>1
    <3>3. <<top(c), v>> \in Edges'
      BY <1>13, <2>2, <3>2
    <3>4. <<top(c), v>>[1] = top(c) /\ <<top(c), v>>[2] = v
      OBVIOUS
    <3> QED
      BY <2>2, <3>3, <3>4 DEF Uncalled
  <2>3. ASSUME v = top(c), NEW e \in Edges', e[2] = v
        PROVE  e[1] = v
    <3>1. Uncalled(Edges, v)
      BY <1>6, <2>1, <2>3
    <3>2. CASE e \in Edges
      BY <2>3, <3>1, <3>2 DEF Uncalled
    <3>3. CASE e \notin Edges
      <4>1. PICK d \in headed, h \in Vertices : h \in d.heads /\ h # top(d) /\ e = <<top(d), h>>
        BY <1>6, <1>13, <3>3
      <4>2. h = v /\ v \in d.members
        BY <1>6, <2>3, <4>1
      <4>3. c = d
        BY <1>6, <4>2
      <4> QED
        BY <2>3, <4>1, <4>2, <4>3
    <3> QED
      BY <3>2, <3>3
  <2> QED
    BY <2>2, <2>3 DEF Uncalled
<1>20. ASSUME NEW e \in Edges', NEW c \in headed
       PROVE  e[1] \in c.members <=> e[2] \in c.members
  <2>1. CASE e \in Edges
    BY <1>6, <2>1
  <2>2. CASE e \notin Edges
    <3>1. PICK d \in headed, h \in Vertices : h \in d.heads /\ h # top(d) /\ e = <<top(d), h>>
      BY <1>6, <1>13, <2>2
    <3>2. e[1] \in d.members /\ e[2] \in d.members
      BY <1>6, <3>1
    <3>3. e[1] \in c.members \/ e[2] \in c.members => c = d
      BY <1>6, <3>2
    <3> QED
      BY <3>2, <3>3
  <2> QED
    BY <2>1, <2>2
<1>21. ASSUME NEW v \in Vertices, Uncalled(Edges', v)
       PROVE  \E i \in 1..k : v \in C[i].members
  <2>1. Uncalled(Edges, v)
    BY <1>13, <1>21 DEF Uncalled
  <2>2. PICK c \in headed : v \in c.members
    BY <1>6, <2>1
  <2> QED
    BY <1>5, <1>18, <2>2
<1>22. \A i, j \in 1..k : i # j => C[i].members \cap C[j].members = {}
  BY <1>5, <1>6, <1>18
<1>23. Parted(size, Edges', C)
  <2>1. Vertices = below(size)
    BY DEF Vertices, below
  <2>2. \A i \in 1..k : /\ C[i].head \in C[i].members
                        /\ \A v \in C[i].members : Uncalled(Edges', v) <=> v = C[i].head
    BY <1>6, <1>18, <1>19
  <2>3. \A e \in Edges' : \A i \in 1..k : e[1] \in C[i].members <=> e[2] \in C[i].members
    BY <1>18, <1>20
  <2> QED
    BY <1>7, <1>18, <1>21, <1>22, <2>1, <2>2, <2>3 DEF Parted
<1> QED
  BY <1>3, <1>15, <1>17, <1>23 DEF C, Core, Ordinary, Faulty, searched

-----------------------------------------------------------------------------
(* What comes after, and the theorems                                      *)

\* What the type of components says of each of them.
LEMMA PartOf ==
  ASSUME NEW n, NEW E, NEW C, Parted(n, E, C), NEW i \in 1..Len(C)
  PROVE  C[i].head \in below(n) /\ C[i].members \subseteq below(n)
<1> DEFINE R == [head : below(n), members : SUBSET below(n)]
<1>1. C \in Seq(R)
  BY DEF Parted
<1>2. C[i] \in R
  <2> HIDE DEF R
  <2> QED
    BY <1>1
<1> QED
  BY <1>2

\* Self-loops change nothing of that.
LEMMA PartedStays ==
  ASSUME NEW n, NEW E, NEW L, \A e \in L : e[1] = e[2], NEW C, Parted(n, E, C)
  PROVE  Parted(n, E \cup L, C)
<1>1. \A v : Uncalled(E \cup L, v) <=> Uncalled(E, v)
  BY DEF Uncalled
<1>2. \A e \in L : \A i \in 1..Len(C) : e[1] \in C[i].members <=> e[2] \in C[i].members
  OBVIOUS
<1> QED
  BY <1>1, <1>2 DEF Parted

LEMMA LoopsCore == Core /\ add_self_loops => Core'
<1> SUFFICES ASSUME Core, add_self_loops
             PROVE  Core'
  OBVIOUS
<1>1. Typed /\ Leafs /\ Parted(size, Edges, comps)
  BY DEF Core, add_self_loops, connected
<1>2. PICK S \in SUBSET (Loopers \cap Vertices) : edges' = edges \o edges_in_order(size, {<<v, v>> : v \in S})
  BY DEF add_self_loops
<1>3. /\ phase = "loops" /\ phase' = "indcnt" /\ direct' = bfs(edges', comps[1].head).tree
      /\ size' = size /\ leafs' = leafs /\ non_leafs' = non_leafs /\ addleafs' = addleafs /\ comps' = comps
  BY DEF add_self_loops
<1>4. size \in Nat \ {0} /\ edges \in Seq(Vertices \X Vertices) /\ Vertices = below(size)
  BY <1>1, <1>3 DEF Typed, Vertices, below
<1> DEFINE L == {<<v, v>> : v \in S}
           D == Vertices \X Vertices
           more == edges_in_order(size, L)
<1>5. L \subseteq below(size) \X below(size) /\ \A e \in L : e[1] = e[2]
  BY <1>4
<1>6. more \in Seq(D) /\ ToSet(more) = L
  <2> HIDE DEF L
  <2> QED
    BY <1>4, <1>5, EdgesInOrder
<1>7. edges' \in Seq(D) /\ Edges' = Edges \cup L
  <2>1. edges \in Seq(D) /\ edges' = edges \o more
    BY <1>2, <1>4
  <2> HIDE DEF D, more, L
  <2> QED
    BY <1>6, <2>1, SetOfConcat DEF Edges
<1>8. Vertices' = Vertices
  BY <1>3 DEF Vertices
<1>9. Typed'
  BY <1>1, <1>3, <1>7, <1>8 DEF Typed, Phases
<1> HIDE DEF L
<1>10. Leafs'
  <2>1. \A v : Calm(Edges', v) <=> Calm(Edges, v)
    BY <1>5, <1>7 DEF Calm
  <2> QED
    BY <1>1, <1>3, <1>8, <2>1 DEF Leafs
<1>11. Parted(size, Edges', comps)
  BY <1>1, <1>5, <1>7, PartedStays
<1>12. comps[1].head \in Vertices
  <2>1. 1 \in 1..Len(comps)
    BY <1>1 DEF Parted
  <2> QED
    BY <1>1, <1>4, <2>1, PartOf
<1>13. Spans(size, Edges', direct', comps[1].head)
  <2> DEFINE root == comps[1].head
             Es == edges'
  <2>1. Es \in Seq(Vertices \X Vertices) /\ root \in Vertices
    BY <1>7, <1>12
  <2>2. LET T == bfs(Es, root).tree
        IN  /\ T \subseteq ToSet(Es)
            /\ reach(size, T, {root}) = reach(size, ToSet(Es), {root})
            /\ \A d, e \in T : d[2] = e[2] => d = e
            /\ \A e \in T : e[2] # root /\ e[1] \in reach(size, T, {root})
    <3> HIDE DEF Es, root
    <3> QED
      BY <1>4, <2>1, GraphSearched
  <2>3. direct' = bfs(Es, root).tree /\ Edges' = ToSet(Es)
    BY <1>3 DEF Edges
  <2> HIDE DEF Es
  <2> QED
    BY <2>2, <2>3 DEF Spans
<1> QED
  BY <1>3, <1>9, <1>10, <1>11, <1>13 DEF Core, Ordinary, Faulty, main

LEMMA LaterCore ==
  ASSUME Core, phase \in {"indcnt", "indcalls", "done", "fault"},
         phase' = phase \/ (phase = "indcnt" /\ phase' = "indcalls") \/ (phase = "indcalls" /\ phase' = "done"),
         UNCHANGED <<size, edges, leafs, non_leafs, addleafs, comps, direct>>
  PROVE  Core'
<1>1. Vertices' = Vertices /\ Edges' = Edges /\ main' = main
  BY DEF Vertices, Edges, main
<1>2. Typed' /\ Ordinary' /\ Leafs' /\ Faulty'
  BY <1>1 DEF Core, Typed, Phases, Ordinary, Leafs, Faulty
<1>3. connected' => Parted(size, Edges, comps)
  BY DEF Core, connected
<1>4. searched' => Spans(size, Edges, direct, main)
  BY DEF Core, searched
<1> QED
  BY <1>1, <1>2, <1>3, <1>4 DEF Core

LEMMA NextCore == Core /\ [Next]_vars => Core'
<1> SUFFICES ASSUME Core, [Next]_vars
             PROVE  Core'
  OBVIOUS
<1>1. CASE generate_random_graph
  BY <1>1, GenerateCore
<1>2. CASE process_leafs
  BY <1>2, LeafCore
<1>3. CASE no_non_leafs \/ leafs_added
  BY <1>3, NoLeafsCore
<1>4. CASE connect_components
  BY <1>4, ConnectCore
<1>5. CASE add_self_loops
  BY <1>5, LoopsCore
<1>6. CASE start_indcalls
  BY <1>6, LaterCore DEF start_indcalls
<1>7. CASE indirect_component
  BY <1>7, LaterCore DEF indirect_component
<1>8. CASE indirect_main
  BY <1>8, LaterCore DEF indirect_main
<1>9. CASE UNCHANGED vars
  <2>1. Vertices' = Vertices /\ Edges' = Edges /\ main' = main
    BY <1>9 DEF vars, Vertices, Edges, main
  <2>2. Typed' /\ Ordinary' /\ Leafs' /\ Faulty'
    BY <1>9, <2>1 DEF Core, vars, Typed, Ordinary, Leafs, Faulty
  <2>3. connected' = connected /\ searched' = searched
    BY <1>9 DEF vars, connected, searched
  <2> QED
    BY <1>9, <2>1, <2>2, <2>3 DEF Core, vars
<1> QED
  BY <1>1, <1>2, <1>3, <1>4, <1>5, <1>6, <1>7, <1>8, <1>9 DEF Next, Terminating

\* The inductive invariant, for any options: what the helpers of the
\* constructor rely on and what they leave behind.
THEOREM CoreInvariance == Spec => []Core
<1> QED
  BY InitCore, NextCore, PTL DEF Spec

LEMMA CoreGraph ==
  ASSUME Core
  PROVE  Vertices = below(size) /\ Edges \subseteq Vertices \X Vertices /\ Pairs(Edges)
<1>1. edges \in Seq(Vertices \X Vertices)
  BY DEF Core, Typed
<1>2. Edges \subseteq Vertices \X Vertices
  BY <1>1, SetOfSeq DEF Edges
<1> QED
  BY <1>2, PairsOf DEF Vertices, below

\* The heads of a random graph are never empty, and there are non-leafs to call
\* the new leafs unless the graph has no edge at all.
THEOREM AssertionsAlwaysHold == Spec => []AssertionsHold
<1>1. Core => AssertionsHold
  <2> SUFFICES ASSUME Core PROVE AssertionsHold
    OBVIOUS
  <2>1. Ordinary /\ Faulty
    BY DEF Core
  <2>2. ASSUME phase = "connect"
        PROVE  Heads # {}
    <3>1. PICK v \in Vertices : Uncalled(Edges, v)
      BY <2>1, <2>2 DEF Ordinary
    <3>2. without_loops(Edges) = Edges
      BY <2>1, <2>2, LooplessIs DEF Ordinary
    <3>3. sources(Edges, v) = {}
      BY <3>1, <3>2, CoreGraph, UncalledHeads
    <3> QED
      BY <3>3 DEF Heads, heads_of, Vertices
  <2> QED
    BY <2>1, <2>2 DEF AssertionsHold, Faulty
<1> QED
  BY <1>1, CoreInvariance, PTL

\* leafs_ is never wrong, although edges are added to heads and leafs after it
\* was computed.
THEOREM LeafsAreLeafs == Spec => []LeafsStayLeafs
<1>1. Core => LeafsStayLeafs
  <2> SUFFICES ASSUME Core, phase # "generate"
               PROVE  /\ leafs \cup non_leafs = Vertices
                      /\ \A v \in Vertices : v \in leafs <=> targets(without_loops(Edges), {v}) = {}
    BY DEF LeafsStayLeafs
  <2>1. Typed /\ Leafs
    BY DEF Core
  <2>2. \A v : targets(without_loops(Edges), {v}) = {} <=> Calm(Edges, v)
    BY CoreGraph, CalmLeafs
  <2> QED
    BY <2>1, <2>2 DEF Typed, Leafs
<1> QED
  BY <1>1, CoreInvariance, PTL

\* Every component is left with one function that no other one calls.
THEOREM ComponentsHaveOneHead == Spec => []OneHead
<1>1. Core => OneHead
  <2> SUFFICES ASSUME Core, connected, NEW i \in DOMAIN comps
               PROVE  heads_of(size, without_loops(Edges)) \cap comps[i].members = {comps[i].head}
    BY DEF OneHead
  <2>1. Parted(size, Edges, comps)
    BY DEF Core
  <2>2. i \in 1..Len(comps) /\ comps[i].members \subseteq below(size)
    <3>1. i \in 1..Len(comps)
      BY <2>1 DEF Parted
    <3> QED
      BY <2>1, <3>1, PartOf
  <2>3. \A v : sources(without_loops(Edges), v) = {} <=> Uncalled(Edges, v)
    BY CoreGraph, UncalledHeads
  <2>4. \A v : v \in heads_of(size, without_loops(Edges)) <=> v \in below(size) /\ Uncalled(Edges, v)
    BY <2>3 DEF heads_of, below
  <2>5. /\ comps[i].head \in comps[i].members
        /\ \A v \in comps[i].members : Uncalled(Edges, v) <=> v = comps[i].head
    BY <2>1, <2>2 DEF Parted
  <2> QED
    BY <2>2, <2>4, <2>5
<1> QED
  BY <1>1, CoreInvariance, PTL

\* The components do not touch each other, and who is in none of them is called
\* by another function.
THEOREM ComponentsStayApart == Spec => []ComponentsApart
<1>1. Core => ComponentsApart
  <2> SUFFICES ASSUME Core, connected
               PROVE  /\ \A i, j \in DOMAIN comps : i # j => comps[i].members \cap comps[j].members = {}
                      /\ \A e \in Edges : \A i \in DOMAIN comps : e[1] \in comps[i].members <=> e[2] \in comps[i].members
                      /\ \A v \in Vertices : \/ \E i \in DOMAIN comps : v \in comps[i].members
                                             \/ \E u \in Vertices \ {v} : <<u, v>> \in Edges
    BY DEF ComponentsApart
  <2>1. Parted(size, Edges, comps)
    BY DEF Core
  <2>2. DOMAIN comps = 1..Len(comps)
    BY <2>1 DEF Parted
  <2>3. ASSUME NEW v \in Vertices, ~Uncalled(Edges, v)
        PROVE  \E u \in Vertices \ {v} : <<u, v>> \in Edges
    <3>1. PICK e \in Edges : e[2] = v /\ e[1] # v
      BY <2>3 DEF Uncalled
    <3>2. e = <<e[1], v>> /\ e[1] \in Vertices
      BY <3>1, CoreGraph
    <3> QED
      BY <3>1, <3>2
  <2>4. \A v \in Vertices : Uncalled(Edges, v) => \E i \in 1..Len(comps) : v \in comps[i].members
    BY <2>1, CoreGraph DEF Parted
  <2>5. /\ \A i, j \in 1..Len(comps) : i # j => comps[i].members \cap comps[j].members = {}
        /\ \A e \in Edges : \A i \in 1..Len(comps) : e[1] \in comps[i].members <=> e[2] \in comps[i].members
    BY <2>1 DEF Parted
  <2> QED
    BY <2>2, <2>3, <2>4, <2>5
<1> QED
  BY <1>1, CoreInvariance, PTL

\* The direct calls are a tree from main that spans all main can reach.
THEOREM DirectCallsAreATree == Spec => []DirectTree
<1>1. Core => DirectTree
  BY DEF Core, DirectTree, Spans
<1> QED
  BY <1>1, CoreInvariance, PTL
=============================================================================
